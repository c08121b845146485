----------------------------- MODULE Trade_proof -----------------------------
(***************************************************************************)
(* What a player is asked to confirm is what the other offers, and stays   *)
(* so, for any goods, any number of trades and messages under way.         *)
(***************************************************************************)
EXTENDS Trade, SequenceTheorems, TLAPS

\* The messages of both ways.  An offer belongs to a trade.
Trades == 0 .. MaxTrades
ToServer ==
    [m : {"D"}] \cup [m : {"G", "Confirm", "K", "W"}, named : BOOLEAN, no : Trades]
                \cup [m : {"I"}, named : BOOLEAN, no : Trades, n : Nat]
ToClient ==
    [m : {"C"}, yes : {TRUE}, no : Trades] \cup [m : {"C"}, yes : {FALSE}] \cup [m : {"A", "W"}]
        \cup [m : {"G", "Confirm"}, named : {TRUE}, no : Trades]
        \cup [m : {"I"}, named : {TRUE}, no : Trades, n : Nat]
Lines == toServer \in [Client -> Seq(ToServer)] /\ toClient \in [Client -> Seq(ToClient)]

Yes(m) == m.m = "C" /\ m.yes
Offer(m) == m.m \in {"G", "I", "Confirm"}

\* The trades of which a client hears one after the other: the one it is in,
\* in place 0, and those whose begin is on the way.
Joined(c, k) == Heard(c) /\ me[c].no = k
Begun(c, i) == IF i = 0 THEN Heard(c) ELSE Yes(toClient[c][i])
No(c, i) == IF i = 0 THEN me[c].no ELSE toClient[c][i].no
Called(c, k) == \E i \in DOMAIN toClient[c] : Yes(toClient[c][i]) /\ toClient[c][i].no = k
Live(k) == server.trading /\ server.no = k
Another(c, i, j) == \E l \in i + 1 .. j : Yes(toClient[c][l])

\* No message belongs to a trade that has not begun for its sender.
Numbers ==
    \A c \in Client :
        /\ me[c].no =< server.no
        /\ \A i \in DOMAIN toServer[c] : toServer[c][i].m # "D" => toServer[c][i].no =< me[c].no
        /\ \A i \in DOMAIN toClient[c] :
              /\ Yes(toClient[c][i]) => toClient[c][i].no \in me[c].no + 1 .. server.no
              /\ Offer(toClient[c][i]) =>
                    \A d \in Client \ {c} : toClient[c][i].no =< me[d].no
        /\ \A i, j \in DOMAIN toClient[c] :
              /\ i < j /\ Yes(toClient[c][j]) /\ (Yes(toClient[c][i]) \/ Offer(toClient[c][i]))
                    => toClient[c][i].no < toClient[c][j].no

\* Behind the begin of a trade come its offers, its end, and the next.
InOrder ==
    \A c \in Client : \A i \in 0 .. Len(toClient[c]) : Begun(c, i) =>
        /\ No(c, i) < server.no => Another(c, i, Len(toClient[c]))
        /\ \A j \in i + 1 .. Len(toClient[c]) : Offer(toClient[c][j]) =>
              \/ toClient[c][j].no = No(c, i)
              \/ Another(c, i, j)
        /\ \/ Live(No(c, i))
           \/ \E j \in i + 1 .. Len(toClient[c]) : toClient[c][j].m = "W" /\ ~ Another(c, i, j)

\* A client in a trade has not given it up, and knows its partner; one in none
\* has nothing of the last one left.
Engaged ==
    \A c \in Client :
        /\ Heard(c) =>
              /\ \A i \in DOMAIN toServer[c] :
                    toServer[c][i].m # "D" /\ toServer[c][i].no = me[c].no
                        => toServer[c][i].m # "W" /\ toServer[c][i].named
              /\ me[c].confirm # 0
              /\ me[c].open /\ ~ me[c].wnd => me[c].confirm \in {1, 3}
        /\ me[c].status = 0 =>
              /\ me[c].confirm =< 2 /\ ~ me[c].gold
              /\ me[c].wnd => me[c].mine = Nothing /\ me[c].theirs = Nothing

\* After his Confirm a player offers nothing more, until he leaves the trade.
Confirms(m, k) == m.m = "Confirm" /\ m.no = k
GoodOf(m, k) == m.m \in {"G", "I"} /\ m.no = k
Accepts(d, k) == Joined(d, k) /\ me[d].confirm \in {3, 4}
Arrived(d, k) == Accepts(d, k) \/ \E i \in DOMAIN toClient[d] : Confirms(toClient[d][i], k)
Locked(c, d, k) == Arrived(d, k) \/ \E i \in DOMAIN toServer[c] : Confirms(toServer[c][i], k)
LockLast ==
    \A k \in Trades, c \in Client :
        /\ \A i, j \in DOMAIN toServer[c] :
              i < j /\ Confirms(toServer[c][i], k) => ~ GoodOf(toServer[c][j], k)
        /\ \A i, j \in DOMAIN toClient[c] :
              i < j /\ Confirms(toClient[c][i], k) => ~ GoodOf(toClient[c][j], k)
        /\ Accepts(c, k) => \A i \in DOMAIN toClient[c] : ~ GoodOf(toClient[c][i], k)
        /\ \A d \in Client \ {c} :
              /\ Arrived(d, k) => \A i \in DOMAIN toServer[c] : ~ GoodOf(toServer[c][i], k)
              /\ Locked(c, d, k) =>
                    /\ k =< me[c].no
                    /\ me[c].no = k /\ me[c].status # 0 => me[c].confirm \in {2, 4}

\* Gold is offered once in a trade.
Gold(m, k) == m.m = "G" /\ m.named /\ m.no = k
HasGold(d, k) == Joined(d, k) /\ me[d].gold
Gilt(c, d, k) ==
    \/ HasGold(d, k)
    \/ \E i \in DOMAIN toClient[d] : Gold(toClient[d][i], k)
    \/ \E i \in DOMAIN toServer[c] : Gold(toServer[c][i], k)
Ready(c) == me[c].wnd \/ ~ me[c].open
GoldOnce ==
    \A k \in Trades, c \in Client :
        /\ \A i, j \in DOMAIN toServer[c] :
              Gold(toServer[c][i], k) /\ Gold(toServer[c][j], k) => i = j
        /\ \A i, j \in DOMAIN toClient[c] :
              Gold(toClient[c][i], k) /\ Gold(toClient[c][j], k) => i = j
        /\ HasGold(c, k) => \A i \in DOMAIN toClient[c] : ~ Gold(toClient[c][i], k)
        /\ \A d \in Client \ {c} :
              /\ \A i \in DOMAIN toServer[c] : Gold(toServer[c][i], k) =>
                    ~ HasGold(d, k) /\ \A j \in DOMAIN toClient[d] : ~ Gold(toClient[d][j], k)
              /\ Gilt(c, d, k) =>
                    /\ k =< me[c].no
                    /\ Joined(c, k) => Ready(c) /\ me[c].mine.gold = 1

\* What one has offered and the other has seen of it; in between are the offers
\* on the way, unless the trade ended before they were passed on.  Whoever has
\* shut the window without a Confirm will not see the end of the trade.
Given(c, k) == IF Joined(c, k) /\ Ready(c) THEN me[c].mine ELSE Nothing
Seen(d, k) == IF Joined(d, k) /\ Ready(d) THEN me[d].theirs ELSE Nothing
Settled(c, k) == \/ Called(c, k)
                 \/ Joined(c, k) /\ (me[c].open \/ me[c].confirm \in {2, 4})
Item(m, k) == m.m = "I" /\ m.no = k
Between(c, d, k) ==
    /\ \A i \in DOMAIN toServer[c] : Item(toServer[c][i], k) =>
          toServer[c][i].n \in Seen(d, k).item + 1 .. Given(c, k).item
    /\ \A i \in DOMAIN toClient[d] : Item(toClient[d][i], k) =>
          toClient[d][i].n \in Seen(d, k).item + 1 .. Given(c, k).item
    /\ \A i, j \in DOMAIN toServer[c] :
          i < j /\ Item(toServer[c][i], k) /\ Item(toServer[c][j], k)
             => toServer[c][i].n < toServer[c][j].n
    /\ \A i, j \in DOMAIN toClient[d] :
          i < j /\ Item(toClient[d][i], k) /\ Item(toClient[d][j], k)
             => toClient[d][i].n < toClient[d][j].n
    /\ \A i \in DOMAIN toClient[d], j \in DOMAIN toServer[c] :
          Item(toClient[d][i], k) /\ Item(toServer[c][j], k)
             => toClient[d][i].n < toServer[c][j].n
AllItems(c, d, k) ==
    \/ Seen(d, k).item = Given(c, k).item
    \/ \E i \in DOMAIN toClient[d] :
          Item(toClient[d][i], k) /\ toClient[d][i].n = Given(c, k).item
    \/ \E i \in DOMAIN toServer[c] :
          Item(toServer[c][i], k) /\ toServer[c][i].n = Given(c, k).item
AllGold(c, d, k) ==
    \/ Seen(d, k).gold = Given(c, k).gold
    \/ \E i \in DOMAIN toClient[d] : Gold(toClient[d][i], k)
    \/ \E i \in DOMAIN toServer[c] : Gold(toServer[c][i], k)
Match(c, d, k) ==
    /\ Seen(d, k).item =< Given(c, k).item /\ Seen(d, k).gold =< Given(c, k).gold
    /\ Between(c, d, k)
    /\ Live(k) \/ Arrived(d, k) => AllItems(c, d, k) /\ AllGold(c, d, k)
Matched ==
    "early" \notin lapses =>
        \A k \in Trades, c \in Client : \A d \in Client \ {c} :
            Settled(c, k) /\ Settled(d, k) => Match(c, d, k)

Sound == Numbers /\ InOrder /\ Engaged /\ LockLast /\ GoldOnce /\ Matched
IInv == TypeOK /\ Lines /\ ("crossed" \notin lapses => Sound)

-----------------------------------------------------------------------------
(* The two players, and the two ways.                                      *)

USE TradeAssumption

LEMMA Partner ==
  ASSUME NEW c \in Client
  PROVE  Other(c) \in Client \ {c} /\ Client = {c, Other(c)}
  <1>1. PICK a \in Client, b \in Client : a # b /\ Client = {a, b}
    OBVIOUS
  <1>2. \E d \in Client : d # c
    BY <1>1
  <1> QED
    BY <1>1, <1>2 DEF Other

LEMMA LineTypes ==
  ASSUME Lines, NEW c \in Client
  PROVE  /\ toServer[c] \in Seq(ToServer) /\ toClient[c] \in Seq(ToClient)
         /\ Len(toServer[c]) \in Nat /\ DOMAIN toServer[c] = 1..Len(toServer[c])
         /\ Len(toClient[c]) \in Nat /\ DOMAIN toClient[c] = 1..Len(toClient[c])
         /\ \A i \in DOMAIN toServer[c] : toServer[c][i] \in ToServer
         /\ \A i \in DOMAIN toClient[c] : toClient[c][i] \in ToClient
  BY DEF Lines

LEMMA MessageTypes ==
  /\ \A m \in ToServer :
        /\ m.m \in {"D", "G", "Confirm", "K", "W", "I"}
        /\ m.m # "D" => m.no \in Trades /\ m.named \in BOOLEAN
        /\ m.m = "I" => m.n \in Nat
  /\ \A m \in ToClient :
        /\ m.m \in {"C", "A", "W", "G", "Confirm", "I"}
        /\ Yes(m) => m.no \in Trades
        /\ Offer(m) => m.no \in Trades /\ m.named = TRUE
        /\ m.m = "I" => m.n \in Nat
  BY DEF ToServer, ToClient, Yes, Offer

LEMMA Typed ==
  ASSUME TypeOK, NEW c \in Client
  PROVE  /\ me[c] \in Windows
         /\ me[c].status \in 0..2 /\ me[c].confirm \in 0..4 /\ me[c].open \in BOOLEAN
         /\ me[c].wnd \in BOOLEAN /\ me[c].named \in BOOLEAN /\ me[c].gold \in BOOLEAN
         /\ me[c].no \in Trades /\ me[c].mine \in Goods /\ me[c].theirs \in Goods
         /\ server.no \in Trades /\ Trades \subseteq Nat
  BY DEF TypeOK, Windows, Servers, Trades

\* A message at the end of a line, and one taken from its head.
LEMMA Spoken ==
  ASSUME Lines, NEW a \in Client, NEW m \in ToServer,
         toServer' = [toServer EXCEPT ![a] = Append(@, m)]
  PROVE  /\ toServer' \in [Client -> Seq(ToServer)]
         /\ \A c \in Client \ {a} : toServer'[c] = toServer[c]
         /\ DOMAIN toServer'[a] = 1..Len(toServer[a]) + 1
         /\ toServer'[a][Len(toServer[a]) + 1] = m
         /\ \A i \in 1..Len(toServer[a]) : toServer'[a][i] = toServer[a][i]
  BY LineTypes DEF Lines

Drops(a) == toClient[a] # <<>> /\ toClient' = [toClient EXCEPT ![a] = Tail(@)]

LEMMA Taken ==
  ASSUME Lines, NEW a \in Client, Drops(a)
  PROVE  /\ toClient' \in [Client -> Seq(ToClient)]
         /\ \A c \in Client \ {a} : toClient'[c] = toClient[c]
         /\ Len(toClient[a]) >= 1 /\ Len(toClient'[a]) = Len(toClient[a]) - 1
         /\ DOMAIN toClient'[a] = 1..Len(toClient[a]) - 1
         /\ \A i \in 1..Len(toClient[a]) - 1 : toClient'[a][i] = toClient[a][i + 1]
         /\ Head(toClient[a]) = toClient[a][1] /\ toClient[a][1] \in ToClient
  <1>1. toClient[a] \in Seq(ToClient) /\ toClient'[a] = Tail(toClient[a])
    BY DEF Lines, Drops
  <1> QED
    BY <1>1, LineTypes DEF Lines, Drops

LEMMA NoDrop ==
  ASSUME Lines, NEW a \in Client, UNCHANGED toClient
  PROVE  ~ Drops(a)
  <1>1. ASSUME Drops(a) PROVE FALSE
    <2>1. Len(toClient'[a]) = Len(toClient[a]) - 1 /\ Len(toClient[a]) \in Nat
      BY <1>1, Taken, LineTypes
    <2> QED
      BY <2>1
  <1> QED
    BY <1>1

LEMMA Shifted ==
  ASSUME Lines, NEW a \in Client, Drops(a),
         NEW i \in 0..Len(toClient[a]) - 1, NEW j \in 0..Len(toClient[a]) - 1
  PROVE  (\E l \in i + 1..j : Yes(toClient'[a][l])) <=> Another(a, i + 1, j + 1)
  <1>1. /\ Len(toClient[a]) \in Nat
        /\ \A l \in 1..Len(toClient[a]) - 1 : toClient'[a][l] = toClient[a][l + 1]
    BY LineTypes, Taken
  <1>2. ASSUME NEW l \in i + 1..j, Yes(toClient'[a][l])
        PROVE  l + 1 \in (i + 1) + 1..j + 1 /\ Yes(toClient[a][l + 1])
    <2>1. l \in 1..Len(toClient[a]) - 1 /\ l + 1 \in (i + 1) + 1..j + 1
      BY <1>1
    <2> QED
      BY <1>1, <1>2, <2>1
  <1>3. ASSUME NEW l \in (i + 1) + 1..j + 1, Yes(toClient[a][l])
        PROVE  l - 1 \in i + 1..j /\ Yes(toClient'[a][l - 1])
    <2>1. l - 1 \in 1..Len(toClient[a]) - 1 /\ l - 1 \in i + 1..j /\ (l - 1) + 1 = l
      BY <1>1
    <2>2. toClient'[a][l - 1] = toClient[a][l]
      BY <1>1, <2>1
    <2> QED
      BY <1>3, <2>1, <2>2
  <1> QED
    BY <1>2, <1>3 DEF Another

-----------------------------------------------------------------------------
(* The types.                                                              *)

\* What a window can become.
LEMMA FieldTypes ==
  ASSUME NEW w \in Windows
  PROVE  /\ \A b \in BOOLEAN : [w EXCEPT !.open = b] \in Windows
         /\ \A b \in BOOLEAN : [w EXCEPT !.named = b] \in Windows
         /\ \A b \in BOOLEAN : [w EXCEPT !.wnd = b] \in Windows
         /\ \A s \in 0..2 : [w EXCEPT !.status = s] \in Windows
         /\ \A n \in 0..4 : [w EXCEPT !.confirm = n] \in Windows
         /\ \A n \in 0..MaxTrades : [w EXCEPT !.no = n] \in Windows
         /\ \A g \in Goods : [w EXCEPT !.mine = g] \in Windows
         /\ \A g \in Goods : [w EXCEPT !.theirs = g] \in Windows
  <1>1. /\ \A b \in BOOLEAN : [w EXCEPT !.open = b] \in Windows
        /\ \A b \in BOOLEAN : [w EXCEPT !.named = b] \in Windows
    BY DEF Windows
  <1>2. \A b \in BOOLEAN : [w EXCEPT !.wnd = b] \in Windows
    BY DEF Windows
  <1>3. /\ \A s \in 0..2 : [w EXCEPT !.status = s] \in Windows
        /\ \A n \in 0..4 : [w EXCEPT !.confirm = n] \in Windows
    BY DEF Windows
  <1>4. \A n \in 0..MaxTrades : [w EXCEPT !.no = n] \in Windows
    BY DEF Windows
  <1>5. \A g \in Goods : [w EXCEPT !.mine = g] \in Windows
    BY DEF Windows
  <1>6. \A g \in Goods : [w EXCEPT !.theirs = g] \in Windows
    BY DEF Windows
  <1> QED
    BY <1>1, <1>2, <1>3, <1>4, <1>5, <1>6

LEMMA WindowTypes ==
  ASSUME NEW w \in Windows
  PROVE  /\ TradeInit(w) \in Windows /\ GivenUp(w) \in Windows /\ SetUp(w) \in Windows
         /\ KeyT(w) \in Windows /\ \A kept \in BOOLEAN : KeyOther(w, kept) \in Windows
  <1>1. /\ w.open \in BOOLEAN /\ w.wnd \in BOOLEAN /\ Nothing \in Goods
        /\ 0 \in 0..2 /\ 1 \in 0..4
    BY DEF Windows, Nothing, Goods
  <1>2. TradeInit(w) \in Windows
    BY DEF Windows, TradeInit
  <1>3. GivenUp(w) \in Windows
    <2>1. [TradeInit(w) EXCEPT !.status = 0] \in Windows
      BY <1>1, <1>2, FieldTypes
    <2>2. GivenUp(w) = [[TradeInit(w) EXCEPT !.status = 0] EXCEPT !.confirm = 1]
      BY DEF GivenUp
    <2> QED
      BY <1>1, <2>1, <2>2, FieldTypes
  <1>4. SetUp(w) \in Windows
    BY <1>1 DEF Windows, SetUp
  <1>5. KeyT(w) \in Windows
    <2>1. (~ TradeInit(w).open) \in BOOLEAN
      OBVIOUS
    <2> QED
      BY <1>2, <2>1, FieldTypes DEF KeyT
  <1>6. \A kept \in BOOLEAN : KeyOther(w, kept) \in Windows
    BY <1>1 DEF Windows, KeyOther
  <1> QED
    BY <1>2, <1>3, <1>4, <1>5, <1>6

LEMMA MineTypes ==
  ASSUME NEW w \in Windows
  PROVE  /\ [w EXCEPT !.mine.gold = 1] \in Windows
         /\ [w EXCEPT !.mine.item = @ + 1] \in Windows
         /\ [w EXCEPT !.theirs.gold = 1, !.gold = TRUE] \in Windows
         /\ \A n \in Nat : [w EXCEPT !.theirs.item = n] \in Windows
         /\ \A n \in 0..MaxTrades :
               [w EXCEPT !.named = TRUE, !.status = 1, !.open = TRUE, !.confirm = 1, !.no = n]
                   \in Windows
  <1>1. w.mine \in Goods /\ w.theirs \in Goods
    BY DEF Windows
  <1>2. /\ [w.mine EXCEPT !.gold = 1] \in Goods /\ [w.mine EXCEPT !.item = @ + 1] \in Goods
        /\ [w.theirs EXCEPT !.gold = 1] \in Goods
        /\ \A n \in Nat : [w.theirs EXCEPT !.item = n] \in Goods
    BY <1>1 DEF Goods
  <1>3. /\ [w EXCEPT !.mine.gold = 1] \in Windows
        /\ [w EXCEPT !.mine.item = @ + 1] \in Windows
    BY <1>2, FieldTypes
  <1>4. [w EXCEPT !.theirs.gold = 1, !.gold = TRUE] \in Windows
    <2>1. \A v \in Windows : [v EXCEPT !.gold = TRUE] \in Windows
      BY DEF Windows
    <2>2. [w EXCEPT !.theirs = [w.theirs EXCEPT !.gold = 1]] \in Windows
      BY <1>2, FieldTypes
    <2>3. [w EXCEPT !.theirs.gold = 1, !.gold = TRUE]
             = [[w EXCEPT !.theirs = [w.theirs EXCEPT !.gold = 1]] EXCEPT !.gold = TRUE]
      OBVIOUS
    <2> QED
      BY <2>1, <2>2, <2>3
  <1>5. \A n \in Nat : [w EXCEPT !.theirs.item = n] \in Windows
    BY <1>2, FieldTypes
  <1>6. ASSUME NEW n \in 0..MaxTrades
        PROVE  [w EXCEPT !.named = TRUE, !.status = 1, !.open = TRUE, !.confirm = 1, !.no = n]
                   \in Windows
    <2> DEFINE v1 == [w EXCEPT !.named = TRUE]
               v2 == [v1 EXCEPT !.status = 1]
               v3 == [v2 EXCEPT !.open = TRUE]
               v4 == [v3 EXCEPT !.confirm = 1]
    <2>1. v1 \in Windows
      BY FieldTypes
    <2>2. v2 \in Windows
      BY <2>1, FieldTypes, 1 \in 0..2
    <2>3. v3 \in Windows
      BY <2>2, FieldTypes
    <2>4. v4 \in Windows
      BY <2>3, FieldTypes, 1 \in 0..4
    <2> HIDE DEF v4
    <2>5. [v4 EXCEPT !.no = n] \in Windows
      BY <2>4, FieldTypes
    <2> QED
      BY <2>5 DEF v4
  <1> QED
    BY <1>3, <1>4, <1>5, <1>6

LEMMA SayTypes ==
  ASSUME NEW w \in Windows
  PROVE  /\ \A kind \in {"G", "Confirm", "K", "W"} :
               /\ Say(w, kind) \in ToServer
               /\ Say(w, kind).m = kind /\ Say(w, kind).named = w.named /\ Say(w, kind).no = w.no
         /\ [m |-> "D"] \in ToServer
         /\ \A n \in Nat : [m |-> "I", named |-> w.named, no |-> w.no, n |-> n] \in ToServer
  <1>1. w.named \in BOOLEAN /\ w.no \in Trades
    BY DEF Windows, Trades
  <1> QED
    BY <1>1 DEF Say, ToServer

LEMMA TellOne ==
  ASSUME Lines, NEW a \in Client, NEW m \in ToServer, Tell(a, <<m>>)
  PROVE  toServer' = [toServer EXCEPT ![a] = Append(@, m)]
  <1>1. toServer[a] \in Seq(ToServer)
    BY DEF Lines
  <1>2. Append(toServer[a], m) = toServer[a] \o <<m>>
    BY <1>1, AppendIsConcat
  <1> QED
    BY <1>2 DEF Tell

LEMMA TellNone ==
  ASSUME Lines, NEW a \in Client, Tell(a, <<>>)
  PROVE  toServer' = toServer
  <1>1. toServer[a] \in Seq(ToServer)
    BY DEF Lines
  <1>2. toServer[a] \o <<>> = toServer[a]
    BY <1>1, ConcatEmptySeq
  <1> QED
    BY <1>2 DEF Tell, Lines

LEMMA TellTypes ==
  ASSUME Lines, NEW a \in Client, NEW msgs, Tell(a, msgs),
         msgs = <<>> \/ \E m \in ToServer : msgs = <<m>>
  PROVE  toServer' \in [Client -> Seq(ToServer)]
  <1>1. CASE msgs = <<>>
    BY <1>1, TellNone DEF Lines
  <1>2. ASSUME NEW m \in ToServer, msgs = <<m>>
        PROVE  toServer' \in [Client -> Seq(ToServer)]
    BY <1>2, TellOne, Spoken
  <1> QED
    BY <1>1, <1>2

LEMMA WindowPartTypes ==
  ASSUME NEW w \in Windows
  PROVE  /\ WindowPart(w).w \in Windows
         /\ WindowPart(w).sent = <<>> \/ \E m \in ToServer : WindowPart(w).sent = <<m>>
  BY WindowTypes, SayTypes DEF WindowPart

LEMMA PressedTypes ==
  ASSUME NEW w \in Windows, NEW v \in Pressed(w)
  PROVE  v \in Windows
  BY WindowTypes DEF Pressed

LEMMA FrameTypes ==
  ASSUME TypeOK, Lines, NEW c \in Client, NEW w \in Pressed(me[c]), Frame(c, w)
  PROVE  TypeOK' /\ Lines'
  <1>1. w \in Windows
    BY PressedTypes, Typed
  <1>2. me' = [me EXCEPT ![c] = WindowPart(w).w] /\ Tell(c, WindowPart(w).sent)
    BY DEF Frame
  <1>3. me' \in [Client -> Windows]
    BY <1>1, <1>2, WindowPartTypes DEF TypeOK
  <1>4. toServer' \in [Client -> Seq(ToServer)]
    BY <1>1, <1>2, WindowPartTypes, TellTypes
  <1>5. moves' \in 0..MaxMoves
    BY DEF Frame, Move, TypeOK
  <1>6. lapses' \subseteq Lapses
    BY DEF Frame, TypeOK, Lapses
  <1> QED
    BY <1>3, <1>4, <1>5, <1>6 DEF TypeOK, Lines, Frame

\* A click on the window, and what the menu does by itself.
LEMMA ClickTypes ==
  ASSUME TypeOK, Lines, NEW c \in Client,
         InitMenu(c) \/ CancelButton(c) \/ Lock(c) \/ Ok(c) \/ PutGold(c) \/ PutItem(c) \/ Ask(c)
  PROVE  TypeOK' /\ Lines'
  <1>1. me[c] \in Windows /\ me \in [Client -> Windows] /\ moves \in 0..MaxMoves
    BY DEF TypeOK
  <1>2. ASSUME NEW w \in Windows, NEW m \in ToServer, Clicked(c, w, <<m>>),
               UNCHANGED lapses, UNCHANGED moves \/ Move
        PROVE  TypeOK' /\ Lines'
    <2>1. toServer' \in [Client -> Seq(ToServer)]
      BY <1>2, TellTypes DEF Clicked
    <2>2. me' \in [Client -> Windows] /\ moves' \in 0..MaxMoves
      BY <1>1, <1>2 DEF Clicked, Move
    <2> QED
      BY <1>2, <2>1, <2>2 DEF Clicked, TypeOK, Lines
  <1>3. CASE InitMenu(c)
    <2>1. [me[c] EXCEPT !.open = FALSE, !.wnd = FALSE] \in Windows
      BY <1>1 DEF Windows
    <2>2. me' \in [Client -> Windows] /\ moves' \in 0..MaxMoves
      BY <1>1, <1>3, <2>1 DEF InitMenu, Move
    <2> QED
      BY <1>3, <2>2 DEF InitMenu, TypeOK, Lines
  <1>4. CASE CancelButton(c)
    <2>1. GivenUp(me[c]) \in Windows
      BY <1>1, WindowTypes
    <2>2. [GivenUp(me[c]) EXCEPT !.open = FALSE] \in Windows
      BY <2>1, FieldTypes
    <2>3. Clicked(c, [GivenUp(me[c]) EXCEPT !.open = FALSE], <<Say(me[c], "W")>>)
          /\ Say(me[c], "W") \in ToServer
      BY <1>1, <1>4, SayTypes DEF CancelButton
    <2> QED
      BY <1>2, <1>4, <2>2, <2>3 DEF CancelButton
  <1>5. CASE Lock(c)
    <2>1. me[c].confirm + 1 \in 0..4
      BY <1>5 DEF Lock
    <2>2. [me[c] EXCEPT !.confirm = @ + 1] \in Windows
      BY <1>1, <2>1, FieldTypes
    <2>3. Clicked(c, [me[c] EXCEPT !.confirm = @ + 1], <<Say(me[c], "Confirm")>>)
          /\ Say(me[c], "Confirm") \in ToServer
      BY <1>1, <1>5, SayTypes DEF Lock
    <2> QED
      BY <1>2, <1>5, <2>2, <2>3 DEF Lock
  <1>6. CASE Ok(c)
    <2>1. [me[c] EXCEPT !.status = 2] \in Windows
      BY <1>1, FieldTypes, 2 \in 0..2
    <2>2. Clicked(c, [me[c] EXCEPT !.status = 2], <<Say(me[c], "K")>>)
          /\ Say(me[c], "K") \in ToServer
      BY <1>1, <1>6, SayTypes DEF Ok
    <2> QED
      BY <1>2, <1>6, <2>1, <2>2 DEF Ok
  <1>7. CASE PutGold(c)
    <2>1. Clicked(c, [me[c] EXCEPT !.mine.gold = 1], <<Say(me[c], "G")>>)
          /\ Say(me[c], "G") \in ToServer
      BY <1>1, <1>7, SayTypes DEF PutGold
    <2> QED
      BY <1>1, <1>2, <1>7, <2>1, MineTypes DEF PutGold
  <1>8. CASE PutItem(c)
    <2>1. me[c].mine.item + 1 \in Nat
      BY Typed DEF Goods
    <2>2. [m |-> "I", named |-> me[c].named, no |-> me[c].no, n |-> me[c].mine.item + 1] \in ToServer
      BY <1>1, <2>1, SayTypes
    <2>3. Clicked(c, [me[c] EXCEPT !.mine.item = @ + 1],
                  <<[m |-> "I", named |-> me[c].named, no |-> me[c].no,
                     n |-> me[c].mine.item + 1]>>)
      BY <1>8 DEF PutItem
    <2> QED
      BY <1>1, <1>2, <1>8, <2>2, <2>3, MineTypes DEF PutItem
  <1>9. CASE Ask(c)
    <2>1. toServer' \in [Client -> Seq(ToServer)]
      BY <1>1, <1>9, SayTypes, TellTypes DEF Ask
    <2> QED
      BY <1>1, <1>9, <2>1 DEF Ask, Move, TypeOK, Lines
  <1> QED
    BY <1>3, <1>4, <1>5, <1>6, <1>7, <1>8, <1>9

LEMMA HandlerTypes ==
  ASSUME TypeOK, Lines, NEW c \in Client, Handler(c)
  PROVE  TypeOK' /\ Lines'
  <1>1. me[c] \in Windows /\ me \in [Client -> Windows]
    BY DEF TypeOK
  <1>2. /\ toClient[c] # <<>> /\ toClient' = [toClient EXCEPT ![c] = Tail(@)]
        /\ UNCHANGED <<server, moves>>
    BY DEF Handler, Receive, C_recv, G_recv, I_recv, Confirm_recv, A_recv, W_recv
  <1>3. /\ toClient' \in [Client -> Seq(ToClient)]
        /\ Head(toClient[c]) \in ToClient
    BY <1>2, Taken DEF Drops
  <1>4. lapses' \subseteq Lapses
    BY DEF Handler, C_recv, G_recv, I_recv, Confirm_recv, A_recv, W_recv, Offered, TypeOK, Lapses
  <1>5. ASSUME NEW w \in Windows, NEW msgs, Handled(c, w, msgs),
               msgs = <<>> \/ \E m \in ToServer : msgs = <<m>>
        PROVE  TypeOK' /\ Lines'
    <2>1. toServer' \in [Client -> Seq(ToServer)] /\ me' \in [Client -> Windows]
      BY <1>1, <1>5, TellTypes DEF Handled
    <2> QED
      BY <1>2, <1>3, <1>4, <2>1 DEF TypeOK, Lines
  <1>6. CASE C_recv(c)
    <2> DEFINE named == [me[c] EXCEPT !.named = TRUE]
               msg == Head(toClient[c])
               w == IF me[c].status # 0 THEN me[c]
                    ELSE IF ~ msg.yes THEN named
                    ELSE [named EXCEPT !.status = 1, !.open = TRUE, !.confirm = 1, !.no = msg.no]
    <2>1. Handled(c, w, <<>>) /\ msg.m = "C"
      BY <1>6 DEF C_recv, Receive
    <2>2. named \in Windows /\ named.no = me[c].no
      BY <1>1, FieldTypes DEF Windows
    <2>3. msg.yes => msg.no \in 0..MaxTrades
      BY <1>3, <2>1 DEF ToClient, Trades
    <2>4. \A n \in 0..MaxTrades :
             [named EXCEPT !.status = 1, !.open = TRUE, !.confirm = 1, !.no = n] \in Windows
      BY <1>1, MineTypes
    <2>5. w \in Windows
      BY <1>1, <2>2, <2>3, <2>4
    <2> QED
      BY <1>5, <2>1, <2>5
  <1>7. CASE G_recv(c)
    <2>1. Say(me[c], "W") \in ToServer
      BY <1>1, SayTypes
    <2>2. CASE ~ Heard(c)
      BY <1>1, <1>5, <1>7, <2>2 DEF G_recv
    <2>3. CASE Heard(c) /\ me[c].gold
      <3>1. [me[c] EXCEPT !.open = ~ @] \in Windows
        BY <1>1 DEF Windows
      <3> QED
        BY <1>5, <1>7, <2>1, <2>3, <3>1 DEF G_recv
    <2>4. CASE Heard(c) /\ ~ me[c].gold
      BY <1>1, <1>5, <1>7, <2>4, MineTypes DEF G_recv
    <2> QED
      BY <2>2, <2>3, <2>4
  <1>8. CASE I_recv(c)
    <2>1. Head(toClient[c]).n \in Nat
      BY <1>3, <1>8, MessageTypes DEF I_recv, Receive
    <2> QED
      BY <1>1, <1>5, <1>8, <2>1, MineTypes DEF I_recv
  <1>9. CASE Confirm_recv(c)
    <2>1. \A n \in 0..4 : [me[c] EXCEPT !.confirm = n] \in Windows
      BY <1>1, FieldTypes
    <2>2. (IF me[c].confirm \in {1, 2} THEN me[c].confirm + 2 ELSE me[c].confirm) \in 0..4
      BY Typed
    <2>3. [me[c] EXCEPT !.confirm = IF @ \in {1, 2} THEN @ + 2 ELSE @] \in Windows
      BY <2>1, <2>2
    <2> QED
      BY <1>1, <1>5, <1>9, <2>3 DEF Confirm_recv
  <1>10. CASE A_recv(c)
    <2>1. [me[c] EXCEPT !.status = 2] \in Windows
      BY <1>1, FieldTypes, 2 \in 0..2
    <2> QED
      BY <1>1, <1>5, <1>10, <2>1 DEF A_recv
  <1>11. CASE W_recv(c)
    <2>1. GivenUp(me[c]) \in Windows
      BY <1>1, WindowTypes
    <2>2. [GivenUp(me[c]) EXCEPT !.open = ~ @] \in Windows
      BY <2>1 DEF Windows
    <2> QED
      BY <1>1, <1>5, <1>11, <2>2 DEF W_recv
  <1> QED
    BY <1>6, <1>7, <1>8, <1>9, <1>10, <1>11 DEF Handler

\* What is still to come, and the places of two messages before the step.
LEMMA StillToCome ==
  ASSUME Lines, NEW a \in Client, UNCHANGED toClient \/ Drops(a), NEW c \in Client
  PROVE  \/ toClient'[c] = toClient[c]
         \/ /\ c = a /\ Drops(a)
            /\ Len(toClient[c]) >= 1 /\ Len(toClient'[c]) = Len(toClient[c]) - 1
            /\ DOMAIN toClient'[c] = 1..Len(toClient[c]) - 1
            /\ \A i \in DOMAIN toClient'[c] :
                  i + 1 \in DOMAIN toClient[c] /\ toClient'[c][i] = toClient[c][i + 1]
            /\ \A i \in DOMAIN toClient[c] :
                  i # 1 => i - 1 \in DOMAIN toClient'[c] /\ toClient'[c][i - 1] = toClient[c][i]
  <1>1. CASE UNCHANGED toClient
    BY <1>1
  <1>2. CASE Drops(a) /\ c = a
    <2>1. /\ Len(toClient[a]) >= 1 /\ Len(toClient'[a]) = Len(toClient[a]) - 1
          /\ DOMAIN toClient'[a] = 1..Len(toClient[a]) - 1
          /\ \A i \in 1..Len(toClient[a]) - 1 : toClient'[a][i] = toClient[a][i + 1]
          /\ DOMAIN toClient[a] = 1..Len(toClient[a]) /\ Len(toClient[a]) \in Nat
      BY <1>2, Taken, LineTypes
    <2>2. ASSUME NEW i \in DOMAIN toClient[a], i # 1
          PROVE  i - 1 \in DOMAIN toClient'[a] /\ toClient'[a][i - 1] = toClient[a][i]
      <3>1. i - 1 \in 1..Len(toClient[a]) - 1 /\ (i - 1) + 1 = i
        BY <2>1, <2>2
      <3> QED
        BY <2>1, <3>1
    <2>3. \A i \in 1..Len(toClient[a]) - 1 : i + 1 \in DOMAIN toClient[a]
      BY <2>1
    <2> QED
      BY <1>2, <2>1, <2>2, <2>3
  <1>3. CASE Drops(a) /\ c # a
    BY <1>3, Taken
  <1> QED
    BY <1>1, <1>2, <1>3

LEMMA Before ==
  ASSUME Lines, NEW a \in Client, UNCHANGED toClient \/ Drops(a), NEW c \in Client,
         NEW i \in DOMAIN toClient'[c], NEW j \in DOMAIN toClient'[c]
  PROVE  \E p, q \in DOMAIN toClient[c] :
            /\ toClient'[c][i] = toClient[c][p] /\ toClient'[c][j] = toClient[c][q]
            /\ (i < j <=> p < q) /\ (i = j <=> p = q)
  <1>1. CASE toClient'[c] = toClient[c]
    BY <1>1
  <1>2. CASE toClient'[c] # toClient[c]
    <2>1. /\ DOMAIN toClient'[c] = 1..Len(toClient[c]) - 1
          /\ \A l \in DOMAIN toClient'[c] :
                l + 1 \in DOMAIN toClient[c] /\ toClient'[c][l] = toClient[c][l + 1]
          /\ Len(toClient[c]) \in Nat
      BY <1>2, StillToCome, LineTypes
    <2>2. (i < j <=> i + 1 < j + 1) /\ (i = j <=> i + 1 = j + 1)
      BY <2>1
    <2> QED
      BY <2>1, <2>2
  <1> QED
    BY <1>1, <1>2

\* A step that begins no trade and ends none.
LEMMA StepNumbers ==
  ASSUME TypeOK, Lines, Numbers, NEW a \in Client, UNCHANGED toClient \/ Drops(a),
         UNCHANGED server, \A c \in Client : me'[c].no = me[c].no,
         \A c \in Client : \A i \in DOMAIN toServer'[c] :
            \/ \E j \in DOMAIN toServer[c] : toServer'[c][i] = toServer[c][j]
            \/ toServer'[c][i].m # "D" => toServer'[c][i].no = me[c].no
  PROVE  Numbers'
  <1> SUFFICES ASSUME NEW c \in Client
               PROVE
        /\ me'[c].no =< server'.no
        /\ \A i \in DOMAIN toServer'[c] : toServer'[c][i].m # "D" => toServer'[c][i].no =< me'[c].no
        /\ \A i \in DOMAIN toClient'[c] :
              /\ Yes(toClient'[c][i]) => toClient'[c][i].no \in me'[c].no + 1 .. server'.no
              /\ Offer(toClient'[c][i]) =>
                    \A d \in Client \ {c} : toClient'[c][i].no =< me'[d].no
        /\ \A i, j \in DOMAIN toClient'[c] :
              /\ i < j /\ Yes(toClient'[c][j]) /\ (Yes(toClient'[c][i]) \/ Offer(toClient'[c][i]))
                    => toClient'[c][i].no < toClient'[c][j].no
    BY DEF Numbers
  <1>1. server' = server /\ \A d \in Client : me'[d].no = me[d].no /\ me[d].no \in Nat
    BY Typed
  <1>2. \A i \in DOMAIN toServer'[c] : toServer'[c][i].m # "D" => toServer'[c][i].no =< me'[c].no
    BY <1>1 DEF Numbers
  <1>3. CASE toClient'[c] = toClient[c]
    BY <1>1, <1>2, <1>3 DEF Numbers
  <1>4. CASE toClient'[c] # toClient[c]
    <2>1. /\ DOMAIN toClient'[c] = 1..Len(toClient[c]) - 1
          /\ \A i \in DOMAIN toClient'[c] :
                i + 1 \in DOMAIN toClient[c] /\ toClient'[c][i] = toClient[c][i + 1]
      BY <1>4, StillToCome
    <2>2. Len(toClient[c]) \in Nat
      BY LineTypes
    <2>3. ASSUME NEW i \in DOMAIN toClient'[c], NEW j \in DOMAIN toClient'[c], i < j,
                 Yes(toClient'[c][j]) /\ (Yes(toClient'[c][i]) \/ Offer(toClient'[c][i]))
          PROVE  toClient'[c][i].no < toClient'[c][j].no
      <3>1. i + 1 < j + 1 /\ i + 1 \in DOMAIN toClient[c] /\ j + 1 \in DOMAIN toClient[c]
        BY <2>1, <2>2, <2>3
      <3> QED
        BY <2>1, <2>3, <3>1 DEF Numbers
    <2>4. \A i \in DOMAIN toClient'[c] :
              /\ Yes(toClient'[c][i]) => toClient'[c][i].no \in me'[c].no + 1 .. server'.no
              /\ Offer(toClient'[c][i]) =>
                    \A d \in Client \ {c} : toClient'[c][i].no =< me'[d].no
      BY <1>1, <2>1 DEF Numbers
    <2> QED
      BY <1>1, <1>2, <2>3, <2>4 DEF Numbers
  <1> QED
    BY <1>3, <1>4

LEMMA StepInOrder ==
  ASSUME TypeOK, Lines, InOrder, NEW a \in Client, UNCHANGED server,
         \A c \in Client : me'[c].no = me[c].no /\ (Heard(c)' => Heard(c)),
         UNCHANGED toClient \/ Drops(a),
         Drops(a) /\ Heard(a)' => ~ Yes(toClient[a][1]) /\ toClient[a][1].m # "W"
  PROVE  InOrder'
  <1> DEFINE Next1(c, i, j) == \E l \in i + 1 .. j : Yes(toClient'[c][l])
             Begun1(c, i) == IF i = 0 THEN Heard(c)' ELSE Yes(toClient'[c][i])
             No1(c, i) == IF i = 0 THEN me'[c].no ELSE toClient'[c][i].no
  <1> SUFFICES ASSUME NEW c \in Client, NEW i \in 0 .. Len(toClient'[c]), Begun1(c, i)
               PROVE
        /\ No1(c, i) < server'.no => Next1(c, i, Len(toClient'[c]))
        /\ \A j \in i + 1 .. Len(toClient'[c]) : Offer(toClient'[c][j]) =>
              toClient'[c][j].no = No1(c, i) \/ Next1(c, i, j)
        /\ \/ Live(No1(c, i))
           \/ \E j \in i + 1 .. Len(toClient'[c]) :
                 toClient'[c][j].m = "W" /\ ~ Next1(c, i, j)
    BY DEF InOrder, Begun, No, Another, Live
  <1>1. server' = server /\ me'[c].no = me[c].no /\ (Heard(c)' => Heard(c))
    OBVIOUS
  <1>2. CASE toClient'[c] = toClient[c]
    BY <1>1, <1>2 DEF InOrder, Begun, No, Another
  <1>3. CASE toClient'[c] # toClient[c]
    <2>0. c = a /\ Drops(a)
      BY <1>3, StillToCome
    <2>1. /\ c = a /\ Drops(a)
          /\ Len(toClient[c]) >= 1 /\ Len(toClient'[c]) = Len(toClient[c]) - 1
          /\ \A l \in 1..Len(toClient[c]) - 1 : toClient'[c][l] = toClient[c][l + 1]
          /\ Len(toClient[c]) \in Nat
      BY <2>0, Taken, LineTypes
    <2>2. \A l, j \in 0..Len(toClient[c]) - 1 : Next1(c, l, j) <=> Another(c, l + 1, j + 1)
      BY <2>1, Shifted
    <2> DEFINE p == IF i = 0 THEN 0 ELSE i + 1
    <2>3. p \in 0..Len(toClient[c]) /\ Begun(c, p) /\ No1(c, i) = No(c, p)
      BY <1>1, <2>1 DEF Begun, No
    <2>4. i = 0 => ~ Yes(toClient[c][1]) /\ toClient[c][1].m # "W"
      BY <1>1, <2>1
    <2>5. \A j \in i..Len(toClient[c]) - 1 : Another(c, p, j + 1) <=> Next1(c, i, j)
      <3> HIDE DEF Next1
      <3>1. CASE i = 0
        <4>1. \A j \in 0..Len(toClient[c]) - 1 : Another(c, 0, j + 1) <=> Another(c, 1, j + 1)
          BY <2>1, <2>4, <3>1 DEF Another
        <4>2. 0 \in 0..Len(toClient[c]) - 1 /\ 0 + 1 = 1
          BY <2>1
        <4>3. \A j \in 0..Len(toClient[c]) - 1 : Next1(c, 0, j) <=> Another(c, 1, j + 1)
          BY <2>2, <4>2
        <4> QED
          BY <3>1, <4>1, <4>3
      <3>2. CASE i # 0
        <4>1. i \in 0..Len(toClient[c]) - 1 /\ p = i + 1
          BY <2>1, <3>2
        <4>2. \A j \in i..Len(toClient[c]) - 1 : j \in 0..Len(toClient[c]) - 1
          BY <2>1, <4>1
        <4> HIDE DEF p
        <4> QED
          BY <2>2, <4>1, <4>2
      <3> QED
        BY <3>1, <3>2
    <2> HIDE DEF p, Next1, Begun1, No1
    <2>6. /\ No(c, p) < server.no => Another(c, p, Len(toClient[c]))
          /\ \A j \in p + 1 .. Len(toClient[c]) : Offer(toClient[c][j]) =>
                toClient[c][j].no = No(c, p) \/ Another(c, p, j)
          /\ \/ Live(No(c, p))
             \/ \E j \in p + 1 .. Len(toClient[c]) :
                   toClient[c][j].m = "W" /\ ~ Another(c, p, j)
      BY <2>3 DEF InOrder
    <2>7. No1(c, i) < server'.no => Next1(c, i, Len(toClient'[c]))
      <3>1. (Len(toClient[c]) - 1) + 1 = Len(toClient[c])
            /\ Len(toClient[c]) - 1 \in i..Len(toClient[c]) - 1
        BY <2>1
      <3>2. Another(c, p, Len(toClient[c])) <=> Next1(c, i, Len(toClient[c]) - 1)
        BY <2>5, <3>1
      <3> QED
        BY <1>1, <2>1, <2>3, <2>6, <3>2
    <2>8. ASSUME NEW j \in i + 1 .. Len(toClient'[c]), Offer(toClient'[c][j])
          PROVE  toClient'[c][j].no = No1(c, i) \/ Next1(c, i, j)
      <3>1. /\ j \in 1..Len(toClient[c]) - 1 /\ j \in i..Len(toClient[c]) - 1
            /\ j + 1 \in p + 1..Len(toClient[c])
        BY <2>1 DEF p
      <3> QED
        BY <2>1, <2>3, <2>5, <2>6, <2>8, <3>1
    <2>9. ASSUME NEW j \in p + 1 .. Len(toClient[c]),
                 toClient[c][j].m = "W" /\ ~ Another(c, p, j)
          PROVE  /\ j - 1 \in i + 1 .. Len(toClient'[c])
                 /\ toClient'[c][j - 1].m = "W" /\ ~ Next1(c, i, j - 1)
      <3>1. j # 1
        BY <2>1, <2>4, <2>9 DEF p
      <3>2. j - 1 \in 1..Len(toClient[c]) - 1 /\ j - 1 \in i + 1..Len(toClient[c]) - 1
            /\ j - 1 \in i..Len(toClient[c]) - 1 /\ (j - 1) + 1 = j
        BY <2>1, <3>1 DEF p
      <3>3. toClient'[c][j - 1] = toClient[c][j]
        BY <2>1, <3>2
      <3>4. ~ Next1(c, i, j - 1)
        BY <2>5, <2>9, <3>2
      <3> QED
        BY <2>1, <2>9, <3>2, <3>3, <3>4
    <2> QED
      BY <2>3, <2>6, <2>7, <2>8, <2>9
  <1> QED
    BY <1>2, <1>3

\* A step in which nobody offers anything, and nobody hears an offer.
Older(s, t) ==
    \A c \in Client : \A i, j \in DOMAIN t[c] :
        Offer(t[c][i]) /\ Offer(t[c][j]) =>
            \E p, q \in DOMAIN s[c] :
                /\ t[c][i] = s[c][p] /\ t[c][j] = s[c][q]
                /\ (i < j <=> p < q) /\ (i = j <=> p = q)

Still ==
    /\ Older(toServer, toServer') /\ Older(toClient, toClient')
    /\ \A c \in Client :
          /\ me'[c].no \in Nat /\ me[c].no =< me'[c].no
          /\ me'[c].no # me[c].no => me'[c].confirm = 1 /\ ~ me'[c].gold
          /\ me'[c].no = me[c].no /\ me'[c].status # 0 =>
                me[c].status # 0 /\ me'[c].confirm = me[c].confirm
          /\ me'[c].no = me[c].no /\ Heard(c)' =>
                /\ Heard(c) /\ me'[c].gold = me[c].gold
                /\ Ready(c) => Ready(c)' /\ me'[c].mine = me[c].mine

LEMMA StillHeard ==
  ASSUME Still, NEW c \in Client, NEW k
  PROVE  /\ Accepts(c, k)' => Accepts(c, k)
         /\ Arrived(c, k)' => Arrived(c, k)
         /\ HasGold(c, k)' => HasGold(c, k)
         /\ \A i \in DOMAIN toServer'[c] : Offer(toServer'[c][i]) =>
               \E p \in DOMAIN toServer[c] : toServer'[c][i] = toServer[c][p]
         /\ \A i \in DOMAIN toClient'[c] : Offer(toClient'[c][i]) =>
               \E p \in DOMAIN toClient[c] : toClient'[c][i] = toClient[c][p]
  <1>1. \A i \in DOMAIN toClient'[c] : Offer(toClient'[c][i]) =>
           \E p \in DOMAIN toClient[c] : toClient'[c][i] = toClient[c][p]
    BY DEF Still, Older
  <1>2. \A i \in DOMAIN toServer'[c] : Offer(toServer'[c][i]) =>
           \E p \in DOMAIN toServer[c] : toServer'[c][i] = toServer[c][p]
    BY DEF Still, Older
  <1>3. Accepts(c, k)' => Accepts(c, k)
    BY DEF Still, Accepts, Joined, Heard
  <1>4. HasGold(c, k)' => HasGold(c, k)
    BY DEF Still, HasGold, Joined
  <1>5. Arrived(c, k)' => Arrived(c, k)
    BY <1>1, <1>3 DEF Arrived, Confirms, Offer
  <1> QED
    BY <1>1, <1>2, <1>3, <1>4, <1>5

LEMMA StillLockLast ==
  ASSUME TypeOK, LockLast, Still
  PROVE  LockLast'
  <1> SUFFICES ASSUME NEW k \in Trades, NEW c \in Client
               PROVE
        /\ \A i, j \in DOMAIN toServer'[c] :
              i < j /\ Confirms(toServer'[c][i], k) => ~ GoodOf(toServer'[c][j], k)
        /\ \A i, j \in DOMAIN toClient'[c] :
              i < j /\ Confirms(toClient'[c][i], k) => ~ GoodOf(toClient'[c][j], k)
        /\ Accepts(c, k)' => \A i \in DOMAIN toClient'[c] : ~ GoodOf(toClient'[c][i], k)
        /\ \A d \in Client \ {c} :
              /\ Arrived(d, k)' => \A i \in DOMAIN toServer'[c] : ~ GoodOf(toServer'[c][i], k)
              /\ Locked(c, d, k)' =>
                    /\ k =< me'[c].no
                    /\ me'[c].no = k /\ me'[c].status # 0 => me'[c].confirm \in {2, 4}
    BY DEF LockLast
  <1>1. \A m : Confirms(m, k) \/ GoodOf(m, k) => Offer(m)
    BY DEF Confirms, GoodOf, Offer
  <1>2. \A i, j \in DOMAIN toServer'[c] :
           i < j /\ Confirms(toServer'[c][i], k) => ~ GoodOf(toServer'[c][j], k)
    BY <1>1 DEF Still, Older, LockLast
  <1>3. \A i, j \in DOMAIN toClient'[c] :
           i < j /\ Confirms(toClient'[c][i], k) => ~ GoodOf(toClient'[c][j], k)
    BY <1>1 DEF Still, Older, LockLast
  <1>4. Accepts(c, k)' => \A i \in DOMAIN toClient'[c] : ~ GoodOf(toClient'[c][i], k)
    BY <1>1, StillHeard DEF LockLast
  <1>5. ASSUME NEW d \in Client \ {c}, Arrived(d, k)'
        PROVE  \A i \in DOMAIN toServer'[c] : ~ GoodOf(toServer'[c][i], k)
    BY <1>1, <1>5, StillHeard DEF LockLast
  <1>6. ASSUME NEW d \in Client \ {c}, Locked(c, d, k)'
        PROVE  /\ k =< me'[c].no
               /\ me'[c].no = k /\ me'[c].status # 0 => me'[c].confirm \in {2, 4}
    <2>1. Locked(c, d, k)
      BY <1>1, <1>6, StillHeard DEF Locked
    <2>2. k =< me[c].no /\ (me[c].no = k /\ me[c].status # 0 => me[c].confirm \in {2, 4})
      BY <2>1 DEF LockLast
    <2>3. me[c].no \in Nat /\ k \in Nat
      BY Typed
    <2>4. CASE me'[c].no = me[c].no
      BY <2>2, <2>4 DEF Still
    <2>5. CASE me'[c].no # me[c].no
      <3>1. me[c].no =< me'[c].no /\ me'[c].no \in Nat
        BY <2>3 DEF Still
      <3> QED
        BY <2>2, <2>3, <2>5, <3>1
    <2> QED
      BY <2>4, <2>5
  <1> QED
    BY <1>2, <1>3, <1>4, <1>5, <1>6

LEMMA StillGoldOnce ==
  ASSUME TypeOK, GoldOnce, Still
  PROVE  GoldOnce'
  <1> SUFFICES ASSUME NEW k \in Trades, NEW c \in Client
               PROVE
        /\ \A i, j \in DOMAIN toServer'[c] :
              Gold(toServer'[c][i], k) /\ Gold(toServer'[c][j], k) => i = j
        /\ \A i, j \in DOMAIN toClient'[c] :
              Gold(toClient'[c][i], k) /\ Gold(toClient'[c][j], k) => i = j
        /\ HasGold(c, k)' => \A i \in DOMAIN toClient'[c] : ~ Gold(toClient'[c][i], k)
        /\ \A d \in Client \ {c} :
              /\ \A i \in DOMAIN toServer'[c] : Gold(toServer'[c][i], k) =>
                    ~ HasGold(d, k)' /\ \A j \in DOMAIN toClient'[d] : ~ Gold(toClient'[d][j], k)
              /\ Gilt(c, d, k)' =>
                    /\ k =< me'[c].no
                    /\ Joined(c, k)' => Ready(c)' /\ me'[c].mine.gold = 1
    BY DEF GoldOnce
  <1>1. \A m : Gold(m, k) => Offer(m)
    BY DEF Gold, Offer
  <1>2. \A i, j \in DOMAIN toServer'[c] :
           Gold(toServer'[c][i], k) /\ Gold(toServer'[c][j], k) => i = j
    BY <1>1 DEF Still, Older, GoldOnce
  <1>3. \A i, j \in DOMAIN toClient'[c] :
           Gold(toClient'[c][i], k) /\ Gold(toClient'[c][j], k) => i = j
    BY <1>1 DEF Still, Older, GoldOnce
  <1>4. HasGold(c, k)' => \A i \in DOMAIN toClient'[c] : ~ Gold(toClient'[c][i], k)
    BY <1>1, StillHeard DEF GoldOnce
  <1>5. ASSUME NEW d \in Client \ {c}, NEW i \in DOMAIN toServer'[c], Gold(toServer'[c][i], k)
        PROVE  ~ HasGold(d, k)' /\ \A j \in DOMAIN toClient'[d] : ~ Gold(toClient'[d][j], k)
    <2>1. PICK p \in DOMAIN toServer[c] : Gold(toServer[c][p], k)
      BY <1>1, <1>5, StillHeard
    <2>2. ~ HasGold(d, k) /\ \A j \in DOMAIN toClient[d] : ~ Gold(toClient[d][j], k)
      BY <2>1 DEF GoldOnce
    <2> QED
      BY <1>1, <2>2, StillHeard
  <1>6. ASSUME NEW d \in Client \ {c}, Gilt(c, d, k)'
        PROVE  /\ k =< me'[c].no
               /\ Joined(c, k)' => Ready(c)' /\ me'[c].mine.gold = 1
    <2>1. Gilt(c, d, k)
      BY <1>1, <1>6, StillHeard DEF Gilt
    <2>2. k =< me[c].no /\ (Joined(c, k) => Ready(c) /\ me[c].mine.gold = 1)
      BY <2>1 DEF GoldOnce
    <2>3. me[c].no \in Nat /\ k \in Nat
      BY Typed
    <2>4. CASE me'[c].no = me[c].no
      BY <2>2, <2>4 DEF Still, Joined
    <2>5. CASE me'[c].no # me[c].no
      <3>1. me[c].no =< me'[c].no /\ me'[c].no \in Nat
        BY <2>3 DEF Still
      <3> QED
        BY <2>2, <2>3, <2>5, <3>1 DEF Joined
    <2> QED
      BY <2>4, <2>5
  <1> QED
    BY <1>2, <1>3, <1>4, <1>5, <1>6

\* What two players make of each other, when neither offers or hears anything of
\* a trade, and nothing they still wait for is lost.
Trails(s, t, c, k) ==
    \A i, j \in DOMAIN t[c] :
        GoodOf(t[c][i], k) /\ GoodOf(t[c][j], k) =>
            \E p, q \in DOMAIN s[c] :
                /\ t[c][i] = s[c][p] /\ t[c][j] = s[c][q]
                /\ (i < j <=> p < q) /\ (i = j <=> p = q)
Keeps(s, t, c, k) ==
    \A i \in DOMAIN s[c] : GoodOf(s[c][i], k) => \E j \in DOMAIN t[c] : t[c][j] = s[c][i]

LEMMA SameMatch ==
  ASSUME NEW c \in Client, NEW d \in Client, NEW k, Match(c, d, k),
         Trails(toServer, toServer', c, k), Trails(toClient, toClient', d, k),
         Given(c, k)' = Given(c, k), Seen(d, k)' = Seen(d, k),
         Live(k)' \/ Arrived(d, k)' =>
            /\ Live(k) \/ Arrived(d, k)
            /\ Keeps(toServer, toServer', c, k) /\ Keeps(toClient, toClient', d, k)
  PROVE  Match(c, d, k)'
  <1>1. \A m : (Item(m, k) => GoodOf(m, k)) /\ (Gold(m, k) => GoodOf(m, k))
    BY DEF Item, Gold, GoodOf
  <1>2. /\ \A i \in DOMAIN toServer'[c] : GoodOf(toServer'[c][i], k) =>
              \E p \in DOMAIN toServer[c] : toServer'[c][i] = toServer[c][p]
        /\ \A i \in DOMAIN toClient'[d] : GoodOf(toClient'[d][i], k) =>
              \E p \in DOMAIN toClient[d] : toClient'[d][i] = toClient[d][p]
    BY DEF Trails
  <1>3. Between(c, d, k)'
    <2>1. \A i \in DOMAIN toServer'[c] : Item(toServer'[c][i], k) =>
             toServer'[c][i].n \in Seen(d, k).item + 1 .. Given(c, k).item
      BY <1>1, <1>2 DEF Match, Between
    <2>2. \A i \in DOMAIN toClient'[d] : Item(toClient'[d][i], k) =>
             toClient'[d][i].n \in Seen(d, k).item + 1 .. Given(c, k).item
      BY <1>1, <1>2 DEF Match, Between
    <2>3. \A i, j \in DOMAIN toServer'[c] :
             i < j /\ Item(toServer'[c][i], k) /\ Item(toServer'[c][j], k)
                => toServer'[c][i].n < toServer'[c][j].n
      BY <1>1 DEF Trails, Match, Between
    <2>4. \A i, j \in DOMAIN toClient'[d] :
             i < j /\ Item(toClient'[d][i], k) /\ Item(toClient'[d][j], k)
                => toClient'[d][i].n < toClient'[d][j].n
      BY <1>1 DEF Trails, Match, Between
    <2>5. \A i \in DOMAIN toClient'[d], j \in DOMAIN toServer'[c] :
             Item(toClient'[d][i], k) /\ Item(toServer'[c][j], k)
                => toClient'[d][i].n < toServer'[c][j].n
      BY <1>1, <1>2 DEF Match, Between
    <2> QED
      BY <2>1, <2>2, <2>3, <2>4, <2>5 DEF Between
  <1>4. ASSUME Live(k)' \/ Arrived(d, k)'
        PROVE  AllItems(c, d, k)' /\ AllGold(c, d, k)'
    <2>1. AllItems(c, d, k) /\ AllGold(c, d, k)
      BY <1>4 DEF Match
    <2>2. Keeps(toServer, toServer', c, k) /\ Keeps(toClient, toClient', d, k)
      BY <1>4
    <2>3. AllItems(c, d, k)'
      BY <1>1, <2>1, <2>2 DEF AllItems, Keeps
    <2>4. AllGold(c, d, k)'
      BY <1>1, <2>1, <2>2 DEF AllGold, Keeps
    <2> QED
      BY <2>3, <2>4
  <1> QED
    BY <1>3, <1>4 DEF Match

LEMMA StillMatched ==
  ASSUME TypeOK, Matched, Still,
         "early" \in lapses => "early" \in lapses',
         \A k \in Trades : Live(k)' => Live(k),
         \A c \in Client, k \in Trades : Settled(c, k)' =>
            Settled(c, k) /\ Given(c, k)' = Given(c, k) /\ Seen(c, k)' = Seen(c, k),
         \A k \in Trades, c \in Client : \A d \in Client \ {c} :
            Settled(c, k)' /\ Settled(d, k)' /\ (Live(k)' \/ Arrived(d, k)') =>
               Keeps(toServer, toServer', c, k) /\ Keeps(toClient, toClient', d, k)
  PROVE  Matched'
  <1> SUFFICES ASSUME "early" \notin lapses', NEW k \in Trades, NEW c \in Client,
                      NEW d \in Client \ {c}, Settled(c, k)', Settled(d, k)'
               PROVE  Match(c, d, k)'
    BY DEF Matched
  <1>1. /\ Settled(c, k) /\ Given(c, k)' = Given(c, k)
        /\ Settled(d, k) /\ Seen(d, k)' = Seen(d, k)
    OBVIOUS
  <1>2. Match(c, d, k)
    BY <1>1 DEF Matched
  <1>3. Trails(toServer, toServer', c, k) /\ Trails(toClient, toClient', d, k)
    <2>1. \A m : GoodOf(m, k) => Offer(m)
      BY DEF GoodOf, Offer
    <2> QED
      BY <2>1 DEF Still, Older, Trails
  <1>4. Live(k)' \/ Arrived(d, k)' =>
            /\ Live(k) \/ Arrived(d, k)
            /\ Keeps(toServer, toServer', c, k) /\ Keeps(toClient, toClient', d, k)
    BY StillHeard
  <1> QED
    BY <1>1, <1>2, <1>3, <1>4, SameMatch

-----------------------------------------------------------------------------
(* Steps of one player that offer nothing and take nothing of his trade    *)
(* from the line: keys, cancels, OK, and messages he does not listen to.   *)

\* What such a step leaves of the trade the player is in.
Less(v, w) ==
    /\ w.no = v.no
    /\ w.status # 0 => v.status # 0 /\ w.confirm = v.confirm
    /\ w.status # 0 /\ w.named =>
          /\ v.named /\ w.gold = v.gold
          /\ \/ /\ w.wnd = v.wnd /\ w.open = v.open
                /\ w.mine = v.mine /\ w.theirs = v.theirs
             \/ /\ v.open /\ ~ v.wnd /\ w.open /\ w.wnd
                /\ w.mine = Nothing /\ w.theirs = Nothing
             \/ /\ ~ w.open /\ ~ w.wnd
                /\ w.mine = v.mine /\ w.theirs = v.theirs
    /\ w.status = 0 =>
          /\ w.confirm =< 2 /\ ~ w.gold
          /\ w.wnd => w.mine = Nothing /\ w.theirs = Nothing

Says(a) ==
    \E m \in ToServer :
        /\ toServer' = [toServer EXCEPT ![a] = Append(@, m)]
        /\ m.m \in {"D", "K", "W"}
        /\ m.m # "D" => m.no = me[a].no
        /\ m.m # "D" /\ Heard(a)' => m.m # "W" /\ m.named

Takes(a) ==
    /\ Drops(a)
    /\ Yes(toClient[a][1]) \/ Offer(toClient[a][1]) => ~ Heard(a)
    /\ toClient[a][1].m = "W" => ~ Heard(a)'

Quiet(a) ==
    /\ \E w \in Windows : me' = [me EXCEPT ![a] = w] /\ Less(me[a], w)
    /\ UNCHANGED toServer \/ Says(a)
    /\ UNCHANGED toClient \/ Takes(a)
    /\ UNCHANGED server
    /\ lapses \subseteq lapses'

\* What is still on the way to the server, and to the players.
LEMMA QuietToServer ==
  ASSUME TypeOK, Lines, NEW a \in Client, Quiet(a), NEW c \in Client
  PROVE  /\ \A i \in DOMAIN toServer[c] :
               i \in DOMAIN toServer'[c] /\ toServer'[c][i] = toServer[c][i]
         /\ \A i \in DOMAIN toServer'[c] :
               \/ i \in DOMAIN toServer[c]
               \/ /\ toServer'[c][i].m \in {"D", "K", "W"} /\ c = a
                  /\ toServer'[c][i].m # "D" => toServer'[c][i].no = me[a].no
                  /\ toServer'[c][i].m # "D" /\ Heard(a)'
                        => toServer'[c][i].m # "W" /\ toServer'[c][i].named
  <1>1. CASE UNCHANGED toServer
    BY <1>1
  <1>2. CASE Says(a)
    <2>1. PICK m \in ToServer :
              /\ toServer' = [toServer EXCEPT ![a] = Append(@, m)]
              /\ m.m \in {"D", "K", "W"}
              /\ m.m # "D" => m.no = me[a].no
              /\ m.m # "D" /\ Heard(a)' => m.m # "W" /\ m.named
      BY <1>2 DEF Says
    <2>2. /\ \A d \in Client \ {a} : toServer'[d] = toServer[d]
          /\ DOMAIN toServer'[a] = 1..Len(toServer[a]) + 1
          /\ toServer'[a][Len(toServer[a]) + 1] = m
          /\ \A i \in 1..Len(toServer[a]) : toServer'[a][i] = toServer[a][i]
          /\ DOMAIN toServer[a] = 1..Len(toServer[a]) /\ Len(toServer[a]) \in Nat
      BY <2>1, Spoken, LineTypes
    <2>3. CASE c = a
      <3>1. \A i \in DOMAIN toServer'[a] : i \in DOMAIN toServer[a] \/ toServer'[a][i] = m
        BY <2>2
      <3> QED
        BY <2>1, <2>2, <2>3, <3>1
    <2>4. CASE c # a
      BY <2>2, <2>4
    <2> QED
      BY <2>3, <2>4
  <1> QED
    BY <1>1, <1>2 DEF Quiet

\* The players.
LEMMA QuietPlayers ==
  ASSUME TypeOK, Engaged, NEW a \in Client, Quiet(a), NEW c \in Client
  PROVE  /\ me'[c].no = me[c].no
         /\ me'[c].status # 0 => me[c].status # 0 /\ me'[c].confirm = me[c].confirm
         /\ Heard(c)' => Heard(c) /\ me'[c].gold = me[c].gold
         /\ Heard(c)' /\ Ready(c) =>
               Ready(c)' /\ me'[c].mine = me[c].mine /\ me'[c].theirs = me[c].theirs
         /\ Heard(c)' /\ (me'[c].open \/ me[c].confirm \in {2, 4}) =>
               /\ me[c].open \/ me[c].confirm \in {2, 4}
               /\ IF Ready(c) THEN Ready(c)'
                  ELSE \/ ~ Ready(c)'
                       \/ me'[c].mine = Nothing /\ me'[c].theirs = Nothing
  <1>1. PICK w \in Windows : me' = [me EXCEPT ![a] = w] /\ Less(me[a], w)
    BY DEF Quiet
  <1>2. CASE c # a
    <2>1. me'[c] = me[c]
      BY <1>1, <1>2, Typed DEF TypeOK
    <2> QED
      BY <2>1 DEF Heard, Ready
  <1>3. CASE c = a
    <2>1. me'[c] = w /\ Less(me[c], w)
      BY <1>1, <1>3 DEF TypeOK
    <2>2. Heard(c) /\ me[c].open /\ ~ me[c].wnd => me[c].confirm \in {1, 3}
      BY DEF Engaged
    <2>3. Heard(c)' <=> w.status # 0 /\ w.named
      BY <2>1 DEF Heard
    <2>4. Ready(c)' <=> w.wnd \/ ~ w.open
      BY <2>1 DEF Ready
    <2> QED
      BY <2>1, <2>2, <2>3, <2>4 DEF Less, Heard, Ready
  <1> QED
    BY <1>2, <1>3

LEMMA QuietToCome ==
  ASSUME TypeOK, Lines, NEW a \in Client, Quiet(a), NEW c \in Client
  PROVE  \/ toClient'[c] = toClient[c]
         \/ /\ c = a /\ Takes(a)
            /\ Len(toClient[c]) >= 1 /\ Len(toClient'[c]) = Len(toClient[c]) - 1
            /\ DOMAIN toClient'[c] = 1..Len(toClient[c]) - 1
            /\ \A i \in DOMAIN toClient'[c] :
                  i + 1 \in DOMAIN toClient[c] /\ toClient'[c][i] = toClient[c][i + 1]
            /\ \A i \in DOMAIN toClient[c] :
                  i # 1 => i - 1 \in DOMAIN toClient'[c] /\ toClient'[c][i - 1] = toClient[c][i]
  <1>1. CASE UNCHANGED toClient
    BY <1>1
  <1>2. CASE Takes(a)
    BY <1>2, StillToCome DEF Takes
  <1> QED
    BY <1>1, <1>2 DEF Quiet

LEMMA QuietBefore ==
  ASSUME TypeOK, Lines, NEW a \in Client, Quiet(a), NEW c \in Client,
         NEW i \in DOMAIN toClient'[c], NEW j \in DOMAIN toClient'[c]
  PROVE  \E p, q \in DOMAIN toClient[c] :
            /\ toClient'[c][i] = toClient[c][p] /\ toClient'[c][j] = toClient[c][q]
            /\ (i < j <=> p < q) /\ (i = j <=> p = q)
  <1>1. UNCHANGED toClient \/ Drops(a)
    BY DEF Quiet, Takes
  <1>2. CASE UNCHANGED toClient
    BY <1>2
  <1>3. CASE Drops(a)
    BY <1>3, Before
  <1> QED
    BY <1>1, <1>2, <1>3

LEMMA QuietNumbers ==
  ASSUME TypeOK, Lines, Numbers, Engaged, NEW a \in Client, Quiet(a)
  PROVE  Numbers'
  <1>1. UNCHANGED server /\ (UNCHANGED toClient \/ Drops(a))
    BY DEF Quiet, Takes
  <1>2. \A c \in Client : me'[c].no = me[c].no
    BY QuietPlayers
  <1>3. \A c \in Client : \A i \in DOMAIN toServer'[c] :
           \/ \E j \in DOMAIN toServer[c] : toServer'[c][i] = toServer[c][j]
           \/ toServer'[c][i].m # "D" => toServer'[c][i].no = me[c].no
    BY QuietToServer
  <1> QED
    BY <1>1, <1>2, <1>3, StepNumbers

LEMMA QuietInOrder ==
  ASSUME TypeOK, Lines, Engaged, InOrder, NEW a \in Client, Quiet(a)
  PROVE  InOrder'
  <1>1. UNCHANGED server /\ (UNCHANGED toClient \/ Drops(a))
    BY DEF Quiet, Takes
  <1>2. \A c \in Client : me'[c].no = me[c].no /\ (Heard(c)' => Heard(c))
    BY QuietPlayers
  <1>3. Drops(a) /\ Heard(a)' => ~ Yes(toClient[a][1]) /\ toClient[a][1].m # "W"
    <2>1. CASE UNCHANGED toClient
      BY <2>1, NoDrop
    <2>2. CASE Takes(a)
      BY <1>2, <2>2 DEF Takes
    <2> QED
      BY <2>1, <2>2 DEF Quiet
  <1> QED
    BY <1>1, <1>2, <1>3, StepInOrder

\* What is heard of the trades.
LEMMA QuietLines ==
  ASSUME TypeOK, Lines, Engaged, NEW a \in Client, Quiet(a), NEW c \in Client, NEW k
  PROVE  /\ Joined(c, k)' => Joined(c, k) /\ me'[c].confirm = me[c].confirm
                                          /\ me'[c].gold = me[c].gold
         /\ Called(c, k)' => Called(c, k)
         /\ Accepts(c, k)' => Accepts(c, k)
         /\ Arrived(c, k)' => Arrived(c, k)
         /\ HasGold(c, k)' => HasGold(c, k)
         /\ Live(k)' <=> Live(k)
  <1>1. /\ Joined(c, k)' => Joined(c, k) /\ me'[c].confirm = me[c].confirm
                                         /\ me'[c].gold = me[c].gold
        /\ Live(k)' <=> Live(k)
    BY QuietPlayers DEF Joined, Quiet, Live, Heard
  <1>2. \A i \in DOMAIN toClient'[c] :
           \E j \in DOMAIN toClient[c] : toClient'[c][i] = toClient[c][j]
    BY QuietToCome
  <1>3. Called(c, k)' => Called(c, k)
    BY <1>2 DEF Called
  <1>4. Accepts(c, k)' => Accepts(c, k)
    BY <1>1 DEF Accepts
  <1>5. Arrived(c, k)' => Arrived(c, k)
    BY <1>2, <1>4 DEF Arrived
  <1> QED
    BY <1>1, <1>3, <1>4, <1>5 DEF HasGold

LEMMA QuietEngaged ==
  ASSUME TypeOK, Lines, Engaged, NEW a \in Client, Quiet(a)
  PROVE  Engaged'
  <1> SUFFICES ASSUME NEW c \in Client
               PROVE
        /\ Heard(c)' =>
              /\ \A i \in DOMAIN toServer'[c] :
                    toServer'[c][i].m # "D" /\ toServer'[c][i].no = me'[c].no
                        => toServer'[c][i].m # "W" /\ toServer'[c][i].named
              /\ me'[c].confirm # 0
              /\ me'[c].open /\ ~ me'[c].wnd => me'[c].confirm \in {1, 3}
        /\ me'[c].status = 0 =>
              /\ me'[c].confirm =< 2 /\ ~ me'[c].gold
              /\ me'[c].wnd => me'[c].mine = Nothing /\ me'[c].theirs = Nothing
    BY DEF Engaged
  <1>1. PICK w \in Windows : me' = [me EXCEPT ![a] = w] /\ Less(me[a], w)
    BY DEF Quiet
  <1>2. ASSUME Heard(c)'
        PROVE  \A i \in DOMAIN toServer'[c] :
                  toServer'[c][i].m # "D" /\ toServer'[c][i].no = me'[c].no
                      => toServer'[c][i].m # "W" /\ toServer'[c][i].named
    <2>1. Heard(c) /\ me'[c].no = me[c].no
      BY <1>2, QuietPlayers
    <2>2. \A i \in DOMAIN toServer'[c] :
             \/ i \in DOMAIN toServer[c] /\ toServer'[c][i] = toServer[c][i]
             \/ toServer'[c][i].m # "D" => toServer'[c][i].m # "W" /\ toServer'[c][i].named
      BY <1>2, QuietToServer
    <2> QED
      BY <2>1, <2>2 DEF Engaged
  <1>3. CASE c # a
    <2>1. me'[c] = me[c]
      BY <1>1, <1>3 DEF TypeOK
    <2> QED
      BY <1>2, <2>1 DEF Engaged, Heard
  <1>4. CASE c = a
    <2>1. me'[c] = w
      BY <1>1, <1>4 DEF TypeOK
    <2>2. Heard(c)' => Heard(c)
      BY QuietPlayers
    <2> QED
      BY <1>1, <1>2, <1>4, <2>1, <2>2 DEF Engaged, Heard, Less
  <1> QED
    BY <1>3, <1>4

\* A trade both can still see the end of looks as it did.
LEMMA QuietSight ==
  ASSUME TypeOK, Lines, Numbers, Engaged, NEW a \in Client, Quiet(a), NEW c \in Client,
         NEW k \in Trades, Settled(c, k)'
  PROVE  Settled(c, k) /\ Given(c, k)' = Given(c, k) /\ Seen(c, k)' = Seen(c, k)
  <1>1. CASE Joined(c, k)'
    <2>1. Joined(c, k) /\ Heard(c)'
      BY <1>1, QuietLines DEF Joined
    <2>2. ~ Called(c, k)'
      <3>1. me[c].no = k /\ me[c].no \in Nat
        BY <2>1, Typed DEF Joined
      <3>2. ~ Called(c, k)
        BY <3>1 DEF Called, Numbers
      <3> QED
        BY <3>2, QuietLines
    <2>3. me'[c].open \/ me[c].confirm \in {2, 4}
      BY <1>1, <2>2, QuietLines DEF Settled
    <2>4. /\ me[c].open \/ me[c].confirm \in {2, 4}
          /\ Ready(c) => Ready(c)' /\ me'[c].mine = me[c].mine /\ me'[c].theirs = me[c].theirs
          /\ ~ Ready(c) => \/ ~ Ready(c)'
                           \/ me'[c].mine = Nothing /\ me'[c].theirs = Nothing
      BY <2>1, <2>3, QuietPlayers
    <2> QED
      BY <1>1, <2>1, <2>4 DEF Settled, Given, Seen
  <1>2. CASE ~ Joined(c, k)'
    <2>1. Called(c, k)
      BY <1>2, QuietLines DEF Settled
    <2>2. ~ Joined(c, k)
      <3>1. me[c].no \in Nat
        BY Typed
      <3> QED
        BY <2>1, <3>1 DEF Called, Numbers, Joined
    <2> QED
      BY <1>2, <2>1, <2>2 DEF Settled, Given, Seen
  <1> QED
    BY <1>1, <1>2

\* And no offer of it is lost.
LEMMA QuietKept ==
  ASSUME TypeOK, Lines, Numbers, Engaged, NEW a \in Client, Quiet(a), NEW d \in Client,
         NEW k \in Trades, Settled(d, k)',
         NEW i \in DOMAIN toClient[d], Offer(toClient[d][i]), toClient[d][i].no = k
  PROVE  \E j \in DOMAIN toClient'[d] : toClient'[d][j] = toClient[d][i]
  <1>1. CASE toClient'[d] = toClient[d]
    BY <1>1
  <1>2. CASE toClient'[d] # toClient[d]
    <2>1. /\ d = a /\ Takes(a)
          /\ DOMAIN toClient'[d] = 1..Len(toClient[d]) - 1
          /\ \A l \in DOMAIN toClient'[d] :
                l + 1 \in DOMAIN toClient[d] /\ toClient'[d][l] = toClient[d][l + 1]
          /\ \A l \in DOMAIN toClient[d] :
                l # 1 => l - 1 \in DOMAIN toClient'[d] /\ toClient'[d][l - 1] = toClient[d][l]
      BY <1>2, QuietToCome
    <2>2. CASE i # 1
      BY <2>1, <2>2
    <2>3. CASE i = 1
      <3>1. ~ Heard(d) /\ ~ Joined(d, k)'
        BY <2>1, <2>3, QuietPlayers DEF Takes, Joined
      <3>2. PICK l \in DOMAIN toClient'[d] : Yes(toClient'[d][l]) /\ toClient'[d][l].no = k
        BY <3>1 DEF Settled, Called
      <3>3. l + 1 \in DOMAIN toClient[d] /\ 1 < l + 1 /\ toClient'[d][l] = toClient[d][l + 1]
        BY <2>1, LineTypes
      <3>4. k < k
        BY <2>3, <3>2, <3>3 DEF Numbers
      <3> QED
        BY <3>4, Typed
    <2> QED
      BY <2>2, <2>3
  <1> QED
    BY <1>1, <1>2

LEMMA QuietStill ==
  ASSUME TypeOK, Lines, Engaged, NEW a \in Client, Quiet(a)
  PROVE  Still
  <1>1. Older(toServer, toServer')
    <2>1. \A c \in Client : \A i \in DOMAIN toServer'[c] : Offer(toServer'[c][i]) =>
             i \in DOMAIN toServer[c] /\ toServer'[c][i] = toServer[c][i]
      BY QuietToServer DEF Offer
    <2> QED
      BY <2>1 DEF Older
  <1>2. Older(toClient, toClient')
    BY QuietBefore DEF Older
  <1>3. \A c \in Client : me[c].no \in Nat /\ me[c].no =< me[c].no
    BY Typed
  <1> QED
    BY <1>1, <1>2, <1>3, QuietPlayers DEF Still

LEMMA QuietMatched ==
  ASSUME TypeOK, Lines, Numbers, Engaged, Matched, NEW a \in Client, Quiet(a)
  PROVE  Matched'
  <1>1. \A c \in Client, k \in Trades : Settled(c, k)' =>
            Settled(c, k) /\ Given(c, k)' = Given(c, k) /\ Seen(c, k)' = Seen(c, k)
    BY QuietSight
  <1>2. \A k \in Trades : Live(k)' => Live(k)
    BY DEF Quiet, Live
  <1>3. ASSUME NEW k \in Trades, NEW c \in Client, NEW d \in Client \ {c}, Settled(d, k)'
        PROVE  Keeps(toServer, toServer', c, k) /\ Keeps(toClient, toClient', d, k)
    BY <1>3, QuietToServer, QuietKept DEF Keeps, GoodOf, Offer
  <1>4. Still /\ ("early" \in lapses => "early" \in lapses')
    BY QuietStill DEF Quiet
  <1> QED
    BY <1>1, <1>2, <1>3, <1>4, StillMatched

LEMMA QuietKeeps ==
  ASSUME TypeOK, Lines, Sound, NEW a \in Client, Quiet(a)
  PROVE  Sound'
  BY QuietNumbers, QuietInOrder, QuietEngaged, QuietStill, StillLockLast, StillGoldOnce,
     QuietMatched DEF Sound

\* The actions that are such steps.
LEMMA NoLess ==
  ASSUME TypeOK, Engaged, NEW c \in Client
  PROVE  Less(me[c], me[c])
  BY DEF Engaged, Less

LEMMA GivenUpLess ==
  ASSUME NEW v \in Windows, NEW b
  PROVE  /\ Less(v, GivenUp(v)) /\ GivenUp(v).status = 0
         /\ Less(v, [GivenUp(v) EXCEPT !.open = b]) /\ [GivenUp(v) EXCEPT !.open = b].status = 0
  BY DEF Windows, GivenUp, TradeInit, Less

LEMMA PressedLess ==
  ASSUME TypeOK, Engaged, NEW c \in Client, NEW w \in Pressed(me[c])
  PROVE  /\ WindowPart(w).w.no = me[c].no /\ Less(me[c], WindowPart(w).w)
         /\ \/ WindowPart(w).sent = <<>>
            \/ /\ WindowPart(w).sent = <<Say(w, "W")>> /\ w.no = me[c].no
               /\ WindowPart(w).w.status = 0
  <1>1. me[c] \in Windows /\ w \in Windows
    BY PressedTypes, Typed
  <1>2. me[c].status = 0 =>
           /\ me[c].confirm =< 2 /\ ~ me[c].gold
           /\ me[c].wnd => me[c].mine = Nothing /\ me[c].theirs = Nothing
    BY DEF Engaged
  <1>3. /\ w.no = me[c].no /\ w.status = me[c].status /\ w.confirm = me[c].confirm
        /\ w.mine = me[c].mine /\ w.theirs = me[c].theirs
        /\ w.wnd => me[c].wnd
        /\ w.gold => me[c].gold
        /\ w.named => me[c].named /\ w.gold = me[c].gold
        /\ w.named /\ w.open => me[c].open /\ w.wnd = me[c].wnd
    BY <1>1 DEF Windows, Pressed, KeyT, KeyOther, TradeInit
  <1>4. CASE w.open /\ w.wnd
    <2>1. WindowPart(w).w = w /\ WindowPart(w).sent = <<>>
      BY <1>4 DEF WindowPart
    <2> QED
      BY <1>2, <1>3, <1>4, <2>1 DEF Less
  <1>5. CASE w.open /\ ~ w.wnd
    <2>1. WindowPart(w).w = SetUp(w) /\ WindowPart(w).sent = <<>>
      BY <1>5 DEF WindowPart
    <2>2. /\ SetUp(w).no = w.no /\ SetUp(w).status = w.status /\ SetUp(w).confirm = w.confirm
          /\ SetUp(w).named = w.named /\ SetUp(w).gold = w.gold /\ SetUp(w).open = w.open
          /\ SetUp(w).wnd = TRUE /\ SetUp(w).mine = Nothing /\ SetUp(w).theirs = Nothing
      BY <1>1 DEF Windows, SetUp
    <2> QED
      BY <1>2, <1>3, <1>5, <2>1, <2>2 DEF Less
  <1>6. CASE ~ w.open /\ w.status # 0
    <2>1. WindowPart(w).w = GivenUp(w) /\ WindowPart(w).sent = <<Say(w, "W")>>
      BY <1>6 DEF WindowPart
    <2>2. /\ GivenUp(w).no = w.no /\ GivenUp(w).status = 0 /\ GivenUp(w).confirm = 1
          /\ GivenUp(w).wnd = FALSE /\ GivenUp(w).gold = FALSE
      BY <1>1 DEF Windows, GivenUp, TradeInit
    <2> QED
      BY <1>3, <2>1, <2>2 DEF Less
  <1>7. CASE ~ w.open /\ w.status = 0
    <2>1. WindowPart(w).w = w /\ WindowPart(w).sent = <<>>
      BY <1>7 DEF WindowPart
    <2> QED
      BY <1>2, <1>3, <1>7, <2>1 DEF Less
  <1> QED
    BY <1>1, <1>4, <1>5, <1>6, <1>7 DEF Windows

LEMMA FrameQuiet ==
  ASSUME TypeOK, Lines, Sound, NEW c \in Client, NEW w \in Pressed(me[c]), Frame(c, w)
  PROVE  Quiet(c)
  <1>1. w \in Windows /\ WindowPart(w).w \in Windows
    BY PressedTypes, Typed, WindowPartTypes
  <1>2. /\ me' = [me EXCEPT ![c] = WindowPart(w).w] /\ Tell(c, WindowPart(w).sent)
        /\ UNCHANGED <<toClient, server>> /\ lapses \subseteq lapses'
    BY DEF Frame
  <1>3. Less(me[c], WindowPart(w).w)
    BY PressedLess DEF Sound
  <1>4. UNCHANGED toServer \/ Says(c)
    <2>1. CASE WindowPart(w).sent = <<>>
      BY <1>2, <2>1, TellNone
    <2>2. CASE WindowPart(w).sent = <<Say(w, "W")>> /\ WindowPart(w).w.status = 0
               /\ w.no = me[c].no
      <3>1. Say(w, "W") \in ToServer /\ Say(w, "W").m = "W" /\ Say(w, "W").no = me[c].no
        BY <1>1, <2>2, SayTypes
      <3>2. toServer' = [toServer EXCEPT ![c] = Append(@, Say(w, "W"))]
        BY <1>2, <2>2, <3>1, TellOne
      <3>3. ~ Heard(c)'
        BY <1>2, <2>2 DEF Heard, TypeOK
      <3> QED
        BY <3>1, <3>2, <3>3 DEF Says
    <2> QED
      BY <2>1, <2>2, PressedLess DEF Sound
  <1> QED
    BY <1>1, <1>2, <1>3, <1>4 DEF Quiet

LEMMA ClickQuiet ==
  ASSUME TypeOK, Lines, Sound, NEW c \in Client,
         InitMenu(c) \/ CancelButton(c) \/ Ok(c) \/ Ask(c)
  PROVE  Quiet(c)
  <1>1. me[c] \in Windows /\ me \in [Client -> Windows] /\ Engaged
    BY DEF TypeOK, Sound
  <1>2. CASE InitMenu(c)
    <2> DEFINE w == [me[c] EXCEPT !.open = FALSE, !.wnd = FALSE]
    <2>1. w \in Windows
      BY <1>1 DEF Windows
    <2>2. Less(me[c], w)
      BY <1>1 DEF Windows, Less, Engaged
    <2> QED
      BY <1>2, <2>1, <2>2 DEF InitMenu, Quiet
  <1>3. CASE CancelButton(c)
    <2> DEFINE w == [GivenUp(me[c]) EXCEPT !.open = FALSE]
    <2>1. w \in Windows
      BY <1>1, WindowTypes, FieldTypes
    <2>2. Less(me[c], w) /\ w.status = 0
      BY <1>1, GivenUpLess
    <2>3. /\ Say(me[c], "W") \in ToServer /\ Say(me[c], "W").m = "W"
          /\ Say(me[c], "W").no = me[c].no
      BY <1>1, SayTypes
    <2> HIDE DEF w
    <2>4. me' = [me EXCEPT ![c] = w] /\ Tell(c, <<Say(me[c], "W")>>)
          /\ UNCHANGED <<toClient, server, lapses>>
      BY <1>3 DEF CancelButton, Clicked, w
    <2>5. Says(c)
      <3>1. toServer' = [toServer EXCEPT ![c] = Append(@, Say(me[c], "W"))]
        BY <2>3, <2>4, TellOne
      <3>2. ~ Heard(c)'
        BY <1>1, <2>2, <2>4 DEF Heard
      <3> QED
        BY <2>3, <3>1, <3>2 DEF Says
    <2> QED
      BY <2>1, <2>2, <2>4, <2>5 DEF Quiet
  <1>4. CASE Ok(c)
    <2> DEFINE w == [me[c] EXCEPT !.status = 2]
    <2>1. w \in Windows
      BY <1>1, FieldTypes, 2 \in 0..2
    <2>2. me[c].status # 0 /\ me[c].confirm = 4
      BY <1>1, <1>4 DEF Ok, Engaged
    <2>3. Less(me[c], w)
      BY <1>1, <2>2 DEF Windows, Less
    <2>4. /\ Say(me[c], "K") \in ToServer /\ Say(me[c], "K").m = "K"
          /\ Say(me[c], "K").no = me[c].no /\ Say(me[c], "K").named = me[c].named
      BY <1>1, SayTypes
    <2>5. w.named = me[c].named
      BY <1>1 DEF Windows
    <2> HIDE DEF w
    <2>6. me' = [me EXCEPT ![c] = w] /\ Tell(c, <<Say(me[c], "K")>>)
          /\ UNCHANGED <<toClient, server, lapses>>
      BY <1>4 DEF Ok, Clicked, w
    <2>7. Says(c)
      <3>1. toServer' = [toServer EXCEPT ![c] = Append(@, Say(me[c], "K"))]
        BY <2>4, <2>6, TellOne
      <3>2. Heard(c)' => me[c].named
        BY <1>1, <2>5, <2>6 DEF Heard
      <3> QED
        BY <2>4, <3>1, <3>2 DEF Says
    <2> QED
      BY <2>1, <2>3, <2>6, <2>7 DEF Quiet
  <1>5. CASE Ask(c)
    <2>1. Says(c)
      <3>1. [m |-> "D"] \in ToServer
        BY <1>1, SayTypes
      <3>2. toServer' = [toServer EXCEPT ![c] = Append(@, [m |-> "D"])]
        BY <1>5, <3>1, TellOne DEF Ask
      <3> QED
        BY <3>1, <3>2 DEF Says
    <2>2. me' = [me EXCEPT ![c] = me[c]]
      BY <1>1, <1>5 DEF Ask
    <2> QED
      BY <1>1, <1>5, <2>1, <2>2, NoLess DEF Ask, Quiet
  <1> QED
    BY <1>2, <1>3, <1>4, <1>5

\* A player in a trade hears of its end before he hears of another.
LEMMA EndFirst ==
  ASSUME TypeOK, Lines, Sound, NEW c \in Client, toClient[c] # <<>>, Yes(toClient[c][1])
  PROVE  ~ Heard(c)
  <1> SUFFICES ASSUME Heard(c) PROVE FALSE
    OBVIOUS
  <1>1. 1 \in DOMAIN toClient[c] /\ Len(toClient[c]) \in Nat
    BY LineTypes
  <1>2. toClient[c][1].no \in me[c].no + 1 .. server.no
    BY <1>1 DEF Sound, Numbers
  <1>3. ~ Live(me[c].no)
    BY <1>2, Typed DEF Live
  <1>4. Begun(c, 0) /\ No(c, 0) = me[c].no /\ 0 \in 0..Len(toClient[c])
    BY <1>1 DEF Begun, No
  <1>5. PICK j \in 0 + 1 .. Len(toClient[c]) : toClient[c][j].m = "W" /\ ~ Another(c, 0, j)
    BY <1>3, <1>4 DEF Sound, InOrder
  <1>6. ~ Yes(toClient[c][1])
    BY <1>1, <1>5 DEF Another
  <1> QED
    BY <1>6

\* A message that is none of the trade's.
LEMMA HandlerQuiet ==
  ASSUME TypeOK, Lines, Sound, NEW c \in Client,
         \/ C_recv(c) /\ ~ (me[c].status = 0 /\ Yes(toClient[c][1]))
         \/ A_recv(c) \/ W_recv(c)
         \/ ~ Heard(c) /\ (G_recv(c) \/ I_recv(c) \/ Confirm_recv(c))
  PROVE  Quiet(c)
  <1>1. me[c] \in Windows /\ me \in [Client -> Windows] /\ Engaged
    BY DEF TypeOK, Sound
  <1>2. /\ toClient[c] # <<>> /\ toClient' = [toClient EXCEPT ![c] = Tail(@)]
        /\ UNCHANGED server /\ lapses \subseteq lapses'
    BY DEF Receive, C_recv, G_recv, I_recv, Confirm_recv, A_recv, W_recv, Offered
  <1>3. Head(toClient[c]) = toClient[c][1]
    BY <1>2, Taken DEF Drops
  <1>4. Less(me[c], me[c])
    BY <1>1, NoLess
  <1>5. ASSUME NEW w \in Windows, Less(me[c], w), Handled(c, w, <<>>),
               Yes(toClient[c][1]) \/ Offer(toClient[c][1]) => ~ Heard(c),
               toClient[c][1].m = "W" => ~ Heard(c)'
        PROVE  Quiet(c)
    <2>1. UNCHANGED toServer /\ me' = [me EXCEPT ![c] = w]
      BY <1>5, TellNone DEF Handled
    <2> QED
      BY <1>2, <1>5, <2>1 DEF Quiet, Takes, Drops
  <1>6. CASE C_recv(c) /\ ~ (me[c].status = 0 /\ Yes(toClient[c][1]))
    <2>1. toClient[c][1].m = "C"
      BY <1>3, <1>6 DEF C_recv, Receive
    <2>2. CASE me[c].status # 0
      <3>1. Handled(c, me[c], <<>>)
        BY <1>6, <2>2 DEF C_recv
      <3> QED
        BY <1>1, <1>2, <1>4, <1>5, <2>1, <3>1, EndFirst DEF Offer
    <2>3. CASE me[c].status = 0
      <3> DEFINE w == [me[c] EXCEPT !.named = TRUE]
      <3>1. Handled(c, w, <<>>)
        BY <1>3, <1>6, <2>1, <2>3 DEF C_recv, Yes
      <3>2. w \in Windows
        BY <1>1, FieldTypes
      <3>3. Less(me[c], w)
        BY <1>1, <2>3 DEF Windows, Less, Engaged
      <3>4. ~ Heard(c)
        BY <2>3 DEF Heard
      <3> QED
        BY <1>5, <2>1, <3>1, <3>2, <3>3, <3>4
    <2> QED
      BY <2>2, <2>3
  <1>7. CASE A_recv(c)
    <2> DEFINE w == IF Heard(c) THEN [me[c] EXCEPT !.status = 2] ELSE me[c]
    <2>1. Handled(c, w, <<>>) /\ toClient[c][1].m = "A"
      BY <1>3, <1>7 DEF A_recv, Receive
    <2>2. w \in Windows
      BY <1>1, FieldTypes, 2 \in 0..2
    <2>3. Less(me[c], w)
      <3>1. CASE Heard(c)
        BY <1>1, <3>1 DEF Heard, Less, Windows
      <3>2. CASE ~ Heard(c)
        BY <1>4, <3>2
      <3> QED
        BY <3>1, <3>2
    <2> QED
      BY <1>5, <2>1, <2>2, <2>3 DEF Yes, Offer
  <1>8. CASE W_recv(c)
    <2>1. toClient[c][1].m = "W"
      BY <1>3, <1>8 DEF W_recv, Receive
    <2>2. CASE me[c].named
      <3> DEFINE w == [GivenUp(me[c]) EXCEPT !.open = ~ @]
      <3>1. Handled(c, w, <<>>)
        BY <1>8, <2>2 DEF W_recv
      <3>2. w \in Windows
        BY <1>1, WindowTypes, FieldTypes
      <3>3. Less(me[c], w) /\ w.status = 0
        BY <1>1, GivenUpLess
      <3>4. ~ Heard(c)'
        BY <1>1, <3>1, <3>3 DEF Handled, Heard
      <3> QED
        BY <1>5, <2>1, <3>1, <3>2, <3>3, <3>4 DEF Yes, Offer
    <2>3. CASE ~ me[c].named
      <3>1. Handled(c, me[c], <<>>)
        BY <1>8, <2>3 DEF W_recv
      <3>2. ~ Heard(c)'
        BY <1>1, <2>3, <3>1 DEF Handled, Heard
      <3> QED
        BY <1>1, <1>4, <1>5, <2>1, <3>1, <3>2 DEF Yes, Offer
    <2> QED
      BY <1>1, <2>2, <2>3 DEF Windows
  <1>9. CASE ~ Heard(c) /\ (G_recv(c) \/ I_recv(c) \/ Confirm_recv(c))
    <2>1. Handled(c, me[c], <<>>) /\ toClient[c][1].m # "W"
      BY <1>3, <1>9 DEF G_recv, I_recv, Confirm_recv, Receive
    <2> QED
      BY <1>1, <1>4, <1>5, <1>9, <2>1
  <1> QED
    BY <1>6, <1>7, <1>8, <1>9

-----------------------------------------------------------------------------
(* What a player offers, and his Confirm.                                  *)

Offers(a, w, m) ==
    /\ w \in Windows /\ m \in ToServer
    /\ me' = [me EXCEPT ![a] = w]
    /\ toServer' = [toServer EXCEPT ![a] = Append(@, m)]
    /\ UNCHANGED <<toClient, server, lapses>>
    /\ m.no = me[a].no /\ m.named = me[a].named
    /\ me[a].open /\ me[a].wnd /\ w.open /\ w.wnd
    /\ w.no = me[a].no /\ w.status = me[a].status /\ w.named = me[a].named
    /\ w.theirs = me[a].theirs /\ w.gold = me[a].gold
    /\ \/ /\ m.m = "Confirm" /\ me[a].confirm \in {1, 3}
          /\ w.confirm = me[a].confirm + 1 /\ w.mine = me[a].mine
       \/ /\ m.m = "G" /\ me[a].status = 1 /\ me[a].confirm \notin {2, 4}
          /\ w.confirm = me[a].confirm /\ me[a].mine.gold = 0
          /\ w.mine.gold = 1 /\ w.mine.item = me[a].mine.item
       \/ /\ m.m = "I" /\ me[a].status = 1 /\ me[a].confirm \notin {2, 4}
          /\ w.confirm = me[a].confirm /\ m.n = me[a].mine.item + 1
          /\ w.mine.item = me[a].mine.item + 1 /\ w.mine.gold = me[a].mine.gold

LEMMA OfferLines ==
  ASSUME Lines, NEW a \in Client, NEW w, NEW m, Offers(a, w, m), NEW c \in Client
  PROVE  /\ toClient' = toClient
         /\ \A i \in DOMAIN toServer[c] :
               i \in DOMAIN toServer'[c] /\ toServer'[c][i] = toServer[c][i]
         /\ \A i \in DOMAIN toServer'[c] :
               \/ i \in DOMAIN toServer[c]
               \/ /\ c = a /\ toServer'[c][i] = m
                  /\ \A j \in DOMAIN toServer'[c] : j =< i /\ (j # i => j \in DOMAIN toServer[c])
         /\ c = a => \E i \in DOMAIN toServer'[c] : toServer'[c][i] = m
  <1>1. /\ \A d \in Client \ {a} : toServer'[d] = toServer[d]
        /\ DOMAIN toServer'[a] = 1..Len(toServer[a]) + 1
        /\ toServer'[a][Len(toServer[a]) + 1] = m
        /\ \A i \in 1..Len(toServer[a]) : toServer'[a][i] = toServer[a][i]
        /\ DOMAIN toServer[a] = 1..Len(toServer[a]) /\ Len(toServer[a]) \in Nat
    BY Spoken, LineTypes DEF Offers
  <1>2. CASE c = a
    <2>1. \A i \in DOMAIN toServer'[a] : i \in DOMAIN toServer[a] \/ i = Len(toServer[a]) + 1
      BY <1>1
    <2>2. \A j \in DOMAIN toServer'[a] : j =< Len(toServer[a]) + 1
      BY <1>1
    <2>3. Len(toServer[a]) + 1 \in DOMAIN toServer'[a]
      BY <1>1
    <2>4. \A i \in DOMAIN toServer[a] : i \in DOMAIN toServer'[a]
      BY <1>1
    <2> QED
      BY <1>1, <1>2, <2>1, <2>2, <2>3, <2>4 DEF Offers
  <1>3. CASE c # a
    BY <1>1, <1>3 DEF Offers
  <1> QED
    BY <1>2, <1>3

LEMMA OfferPlayers ==
  ASSUME TypeOK, NEW a \in Client, NEW w, NEW m, Offers(a, w, m), NEW c \in Client
  PROVE  /\ me'[c].no = me[c].no /\ me'[c].status = me[c].status
         /\ me'[c].theirs = me[c].theirs /\ me'[c].gold = me[c].gold
         /\ (Heard(c)' <=> Heard(c)) /\ (Ready(c)' <=> Ready(c))
         /\ me'[c].open <=> me[c].open
         /\ me'[c].confirm \in {3, 4} <=> me[c].confirm \in {3, 4}
         /\ me[c].confirm \in {2, 4} => me'[c].confirm \in {2, 4}
         /\ me'[c].confirm \in {2, 4} => me[c].open \/ me[c].confirm \in {2, 4}
         /\ IF c = a THEN me'[c] = w ELSE me'[c] = me[c]
  <1>1. me' = [me EXCEPT ![a] = w] /\ me \in [Client -> Windows]
    BY DEF Offers, TypeOK
  <1>2. CASE c # a
    <2>1. me'[c] = me[c]
      BY <1>1, <1>2
    <2> QED
      BY <1>2, <2>1 DEF Heard, Ready
  <1>3. CASE c = a
    <2>1. me'[c] = w
      BY <1>1, <1>3
    <2>2. me[c].confirm \in 0..4
      BY Typed
    <2> QED
      BY <1>3, <2>1, <2>2 DEF Heard, Ready, Offers
  <1> QED
    BY <1>2, <1>3

LEMMA OfferOrder ==
  ASSUME TypeOK, Lines, Numbers, InOrder, NEW a \in Client, NEW w, NEW m, Offers(a, w, m)
  PROVE  Numbers' /\ InOrder'
  <1>1. UNCHANGED <<toClient, server>>
    BY DEF Offers
  <1>2. \A c \in Client : me'[c].no = me[c].no /\ (Heard(c)' => Heard(c))
    BY OfferPlayers
  <1>3. \A c \in Client : \A i \in DOMAIN toServer'[c] :
           \/ \E j \in DOMAIN toServer[c] : toServer'[c][i] = toServer[c][j]
           \/ toServer'[c][i].m # "D" => toServer'[c][i].no = me[c].no
    BY OfferLines DEF Offers
  <1>4. ~ Drops(a)
    BY <1>1, NoDrop
  <1>5. Numbers'
    BY <1>1, <1>2, <1>3, StepNumbers
  <1>6. InOrder'
    BY <1>1, <1>2, <1>4, StepInOrder
  <1> QED
    BY <1>5, <1>6

LEMMA OfferEngaged ==
  ASSUME TypeOK, Lines, Engaged, NEW a \in Client, NEW w, NEW m, Offers(a, w, m)
  PROVE  Engaged'
  <1> SUFFICES ASSUME NEW c \in Client
               PROVE
        /\ Heard(c)' =>
              /\ \A i \in DOMAIN toServer'[c] :
                    toServer'[c][i].m # "D" /\ toServer'[c][i].no = me'[c].no
                        => toServer'[c][i].m # "W" /\ toServer'[c][i].named
              /\ me'[c].confirm # 0
              /\ me'[c].open /\ ~ me'[c].wnd => me'[c].confirm \in {1, 3}
        /\ me'[c].status = 0 =>
              /\ me'[c].confirm =< 2 /\ ~ me'[c].gold
              /\ me'[c].wnd => me'[c].mine = Nothing /\ me'[c].theirs = Nothing
    BY DEF Engaged
  <1>1. ASSUME Heard(c)', NEW i \in DOMAIN toServer'[c], toServer'[c][i].m # "D",
               toServer'[c][i].no = me'[c].no
        PROVE  toServer'[c][i].m # "W" /\ toServer'[c][i].named
    <2>1. Heard(c) /\ me'[c].no = me[c].no
      BY <1>1, OfferPlayers
    <2>2. CASE i \in DOMAIN toServer[c]
      BY <1>1, <2>1, <2>2, OfferLines DEF Engaged
    <2>3. CASE i \notin DOMAIN toServer[c]
      <3>1. c = a /\ toServer'[c][i] = m
        BY <2>3, OfferLines
      <3> QED
        BY <2>1, <3>1 DEF Offers, Heard
    <2> QED
      BY <2>2, <2>3
  <1>2. CASE c # a
    <2>1. me'[c] = me[c]
      BY <1>2, OfferPlayers
    <2> QED
      BY <1>1, <2>1 DEF Engaged, Heard
  <1>3. CASE c = a
    <2>1. me'[c] = w /\ (Heard(c)' => Heard(c))
      BY <1>3, OfferPlayers
    <2>2. me[c].confirm \in 0..4
      BY Typed
    <2>3. (Heard(c) => w.confirm # 0) /\ w.open /\ w.wnd
      BY <1>3, <2>2, Typed DEF Offers, Engaged
    <2> QED
      BY <1>1, <1>3, <2>1, <2>2, <2>3 DEF Engaged, Offers
  <1> QED
    BY <1>2, <1>3

\* Places in a line are numbers.
LEMMA PlacesSaid ==
  ASSUME Lines, NEW a \in Client, NEW m \in ToServer, NEW c \in Client,
         toServer' = [toServer EXCEPT ![a] = Append(@, m)],
         NEW i \in DOMAIN toServer'[c], NEW j \in DOMAIN toServer'[c]
  PROVE  i < j => ~ (j =< i)
  <1>1. i \in Int /\ j \in Int
    BY LineTypes, Spoken
  <1> QED
    BY <1>1

LEMMA SightTypes ==
  ASSUME TypeOK, NEW c \in Client, NEW k
  PROVE  /\ Given(c, k) \in Goods /\ Seen(c, k) \in Goods
         /\ Given(c, k).item \in Nat /\ Given(c, k).gold \in 0..1
         /\ Seen(c, k).item \in Nat /\ Seen(c, k).gold \in 0..1
  <1>1. Given(c, k) \in Goods /\ Seen(c, k) \in Goods
    BY Typed DEF Given, Seen, Nothing, Goods
  <1> QED
    BY <1>1 DEF Goods

LEMMA OfferSight ==
  ASSUME TypeOK, Lines, NEW a \in Client, NEW w, NEW m, Offers(a, w, m), NEW c \in Client, NEW k
  PROVE  /\ Joined(c, k)' <=> Joined(c, k)
         /\ Accepts(c, k)' <=> Accepts(c, k)
         /\ HasGold(c, k)' <=> HasGold(c, k)
         /\ Arrived(c, k)' <=> Arrived(c, k)
         /\ Called(c, k)' <=> Called(c, k)
         /\ Live(k)' <=> Live(k)
         /\ Settled(c, k)' <=> Settled(c, k)
         /\ Seen(c, k)' = Seen(c, k)
  <1>1. /\ me'[c].no = me[c].no /\ me'[c].theirs = me[c].theirs /\ me'[c].gold = me[c].gold
        /\ (Heard(c)' <=> Heard(c)) /\ (Ready(c)' <=> Ready(c))
        /\ me'[c].open <=> me[c].open
        /\ me'[c].confirm \in {3, 4} <=> me[c].confirm \in {3, 4}
        /\ me'[c].open \/ me'[c].confirm \in {2, 4} <=> me[c].open \/ me[c].confirm \in {2, 4}
    BY OfferPlayers
  <1>2. toClient' = toClient /\ server' = server
    BY DEF Offers
  <1>3. Joined(c, k)' <=> Joined(c, k)
    BY <1>1 DEF Joined
  <1>4. Accepts(c, k)' <=> Accepts(c, k)
    BY <1>1, <1>3 DEF Accepts
  <1>5. Called(c, k)' <=> Called(c, k)
    BY <1>2 DEF Called
  <1>6. Settled(c, k)' <=> Settled(c, k)
    BY <1>1, <1>3, <1>5 DEF Settled
  <1>7. Seen(c, k)' = Seen(c, k)
    BY <1>1, <1>3 DEF Seen
  <1>8. Arrived(c, k)' <=> Arrived(c, k)
    BY <1>2, <1>4 DEF Arrived
  <1> QED
    BY <1>1, <1>2, <1>3, <1>4, <1>5, <1>6, <1>7, <1>8 DEF HasGold, Live

LEMMA OfferLockLast ==
  ASSUME TypeOK, Lines, Numbers, LockLast, NEW a \in Client, NEW w, NEW m, Offers(a, w, m)
  PROVE  LockLast'
  <1> SUFFICES ASSUME NEW k \in Trades, NEW c \in Client
               PROVE
        /\ \A i, j \in DOMAIN toServer'[c] :
              i < j /\ Confirms(toServer'[c][i], k) => ~ GoodOf(toServer'[c][j], k)
        /\ \A i, j \in DOMAIN toClient'[c] :
              i < j /\ Confirms(toClient'[c][i], k) => ~ GoodOf(toClient'[c][j], k)
        /\ Accepts(c, k)' => \A i \in DOMAIN toClient'[c] : ~ GoodOf(toClient'[c][i], k)
        /\ \A d \in Client \ {c} :
              /\ Arrived(d, k)' => \A i \in DOMAIN toServer'[c] : ~ GoodOf(toServer'[c][i], k)
              /\ Locked(c, d, k)' =>
                    /\ k =< me'[c].no
                    /\ me'[c].no = k /\ me'[c].status # 0 => me'[c].confirm \in {2, 4}
    BY DEF LockLast
  <1>1. ASSUME c = a, GoodOf(m, k), NEW d \in Client \ {c}
        PROVE  ~ Locked(c, d, k)
    <2>1. me[c].no = k /\ me[c].status # 0 /\ me[c].confirm \notin {2, 4}
      BY <1>1 DEF Offers, GoodOf
    <2> QED
      BY <2>1 DEF LockLast
  <1>2. ASSUME NEW i \in DOMAIN toServer'[c], NEW j \in DOMAIN toServer'[c], i < j,
               Confirms(toServer'[c][i], k), GoodOf(toServer'[c][j], k)
        PROVE  FALSE
    <2>1. i \in DOMAIN toServer[c] /\ toServer'[c][i] = toServer[c][i]
      <3>1. ~ (j =< i)
        BY <1>2, PlacesSaid DEF Offers
      <3> QED
        BY <3>1, OfferLines
    <2>2. CASE j \in DOMAIN toServer[c]
      <3>1. toServer'[c][j] = toServer[c][j]
        BY <2>2, OfferLines
      <3> QED
        BY <1>2, <2>1, <2>2, <3>1 DEF LockLast
    <2>3. CASE j \notin DOMAIN toServer[c]
      <3>1. c = a /\ GoodOf(m, k)
        BY <1>2, <2>3, OfferLines
      <3>2. Locked(c, Other(c), k)
        BY <1>2, <2>1 DEF Locked
      <3> QED
        BY <1>1, <3>1, <3>2, Partner
    <2> QED
      BY <2>2, <2>3
  <1>3. \A i, j \in DOMAIN toClient'[c] :
           i < j /\ Confirms(toClient'[c][i], k) => ~ GoodOf(toClient'[c][j], k)
    BY DEF LockLast, Offers
  <1>4. Accepts(c, k)' => \A i \in DOMAIN toClient'[c] : ~ GoodOf(toClient'[c][i], k)
    BY OfferSight DEF LockLast, Offers
  <1>5. ASSUME NEW d \in Client \ {c}, Arrived(d, k)', NEW i \in DOMAIN toServer'[c],
               GoodOf(toServer'[c][i], k)
        PROVE  FALSE
    <2>1. Arrived(d, k) /\ Locked(c, d, k)
      BY <1>5, OfferSight DEF Locked
    <2>2. CASE i \in DOMAIN toServer[c]
      BY <1>5, <2>1, <2>2, OfferLines DEF LockLast
    <2>3. CASE i \notin DOMAIN toServer[c]
      <3>1. c = a /\ GoodOf(m, k)
        BY <1>5, <2>3, OfferLines
      <3> QED
        BY <1>1, <2>1, <3>1
    <2> QED
      BY <2>2, <2>3
  <1>6. ASSUME NEW d \in Client \ {c}, Locked(c, d, k)'
        PROVE  /\ k =< me'[c].no
               /\ me'[c].no = k /\ me'[c].status # 0 => me'[c].confirm \in {2, 4}
    <2>1. CASE Locked(c, d, k)
      <3>1. k =< me[c].no /\ (me[c].no = k /\ me[c].status # 0 => me[c].confirm \in {2, 4})
        BY <2>1 DEF LockLast
      <3> QED
        BY <3>1, OfferPlayers
    <2>2. CASE ~ Locked(c, d, k)
      <3>1. PICK i \in DOMAIN toServer'[c] :
                Confirms(toServer'[c][i], k) /\ i \notin DOMAIN toServer[c]
        BY <1>6, <2>2, OfferSight, OfferLines DEF Locked
      <3>2. c = a /\ Confirms(m, k)
        BY <3>1, OfferLines
      <3>3. me'[c] = w
        BY <3>2, OfferPlayers
      <3> QED
        BY <3>2, <3>3, Typed DEF Offers, Confirms
    <2> QED
      BY <2>1, <2>2
  <1> QED
    BY <1>2, <1>3, <1>4, <1>5, <1>6

LEMMA OfferGoldOnce ==
  ASSUME TypeOK, Lines, GoldOnce, NEW a \in Client, NEW w, NEW m, Offers(a, w, m)
  PROVE  GoldOnce'
  <1> SUFFICES ASSUME NEW k \in Trades, NEW c \in Client
               PROVE
        /\ \A i, j \in DOMAIN toServer'[c] :
              Gold(toServer'[c][i], k) /\ Gold(toServer'[c][j], k) => i = j
        /\ \A i, j \in DOMAIN toClient'[c] :
              Gold(toClient'[c][i], k) /\ Gold(toClient'[c][j], k) => i = j
        /\ HasGold(c, k)' => \A i \in DOMAIN toClient'[c] : ~ Gold(toClient'[c][i], k)
        /\ \A d \in Client \ {c} :
              /\ \A i \in DOMAIN toServer'[c] : Gold(toServer'[c][i], k) =>
                    ~ HasGold(d, k)' /\ \A j \in DOMAIN toClient'[d] : ~ Gold(toClient'[d][j], k)
              /\ Gilt(c, d, k)' =>
                    /\ k =< me'[c].no
                    /\ Joined(c, k)' => Ready(c)' /\ me'[c].mine.gold = 1
    BY DEF GoldOnce
  <1>0. toClient' = toClient
    BY DEF Offers
  <1>1. ASSUME c = a, Gold(m, k), NEW d \in Client \ {c}
        PROVE  /\ ~ Gilt(c, d, k)
               /\ Joined(c, k) /\ Ready(c) /\ w.mine.gold = 1
    <2>1. me[a].status = 1 /\ me[a].named /\ me[a].no = k /\ me[a].wnd
          /\ me[a].mine.gold = 0 /\ w.mine.gold = 1
      BY <1>1 DEF Offers, Gold
    <2>2. Joined(c, k) /\ Ready(c)
      BY <1>1, <2>1 DEF Joined, Heard, Ready
    <2>3. ~ Gilt(c, d, k)
      BY <1>1, <2>1, <2>2 DEF GoldOnce
    <2> QED
      BY <2>1, <2>2, <2>3
  <1>2. ASSUME NEW i \in DOMAIN toServer'[c], Gold(toServer'[c][i], k)
        PROVE  IF i \in DOMAIN toServer[c] THEN toServer'[c][i] = toServer[c][i]
               ELSE /\ c = a /\ Gold(m, k)
                    /\ \A j \in DOMAIN toServer'[c] : j # i => j \in DOMAIN toServer[c]
    BY <1>2, OfferLines
  <1>3. ASSUME NEW i \in DOMAIN toServer'[c], NEW j \in DOMAIN toServer'[c], i # j,
               Gold(toServer'[c][i], k), Gold(toServer'[c][j], k)
        PROVE  FALSE
    <2>1. CASE i \in DOMAIN toServer[c] /\ j \in DOMAIN toServer[c]
      BY <1>2, <1>3, <2>1 DEF GoldOnce
    <2>2. ASSUME i \notin DOMAIN toServer[c] PROVE FALSE
      <3>1. c = a /\ Gold(m, k) /\ j \in DOMAIN toServer[c] /\ toServer'[c][j] = toServer[c][j]
        BY <1>2, <1>3, <2>2
      <3>2. Gilt(c, Other(c), k)
        BY <1>3, <3>1 DEF Gilt
      <3> QED
        BY <1>1, <3>1, <3>2, Partner
    <2>3. ASSUME j \notin DOMAIN toServer[c] PROVE FALSE
      <3>1. c = a /\ Gold(m, k) /\ i \in DOMAIN toServer[c] /\ toServer'[c][i] = toServer[c][i]
        BY <1>2, <1>3, <2>3
      <3>2. Gilt(c, Other(c), k)
        BY <1>3, <3>1 DEF Gilt
      <3> QED
        BY <1>1, <3>1, <3>2, Partner
    <2> QED
      BY <2>1, <2>2, <2>3
  <1>4. \A i, j \in DOMAIN toClient'[c] :
           Gold(toClient'[c][i], k) /\ Gold(toClient'[c][j], k) => i = j
    BY <1>0 DEF GoldOnce
  <1>5. HasGold(c, k)' => \A i \in DOMAIN toClient'[c] : ~ Gold(toClient'[c][i], k)
    BY <1>0, OfferSight DEF GoldOnce
  <1>6. ASSUME NEW d \in Client \ {c}, NEW i \in DOMAIN toServer'[c], Gold(toServer'[c][i], k)
        PROVE  ~ HasGold(d, k)' /\ \A j \in DOMAIN toClient'[d] : ~ Gold(toClient'[d][j], k)
    <2>1. CASE i \in DOMAIN toServer[c]
      <3>1. ~ HasGold(d, k) /\ \A j \in DOMAIN toClient[d] : ~ Gold(toClient[d][j], k)
        BY <1>2, <1>6, <2>1 DEF GoldOnce
      <3> QED
        BY <1>0, <3>1, OfferSight
    <2>2. CASE i \notin DOMAIN toServer[c]
      <3>1. ~ Gilt(c, d, k)
        BY <1>1, <1>2, <1>6, <2>2
      <3> QED
        BY <1>0, <3>1, OfferSight DEF Gilt
    <2> QED
      BY <2>1, <2>2
  <1>7. ASSUME NEW d \in Client \ {c}, Gilt(c, d, k)'
        PROVE  /\ k =< me'[c].no
               /\ Joined(c, k)' => Ready(c)' /\ me'[c].mine.gold = 1
    <2>1. CASE Gilt(c, d, k)
      <3>1. k =< me[c].no /\ (Joined(c, k) => Ready(c) /\ me[c].mine.gold = 1)
        BY <2>1 DEF GoldOnce
      <3>2. me'[c].mine.gold = 1 \/ me'[c].mine.gold = me[c].mine.gold
        BY OfferPlayers DEF Offers
      <3>3. me'[c].no = me[c].no /\ (Joined(c, k)' => Joined(c, k)) /\ (Ready(c)' <=> Ready(c))
        BY OfferPlayers, OfferSight
      <3> QED
        BY <3>1, <3>2, <3>3
    <2>2. CASE ~ Gilt(c, d, k)
      <3>1. PICK i \in DOMAIN toServer'[c] :
                Gold(toServer'[c][i], k) /\ i \notin DOMAIN toServer[c]
        BY <1>0, <1>2, <1>7, <2>2, OfferSight DEF Gilt
      <3>2. c = a /\ Gold(m, k)
        BY <1>2, <3>1
      <3>3. me'[c] = w /\ me'[c].no = me[c].no /\ (Ready(c)' <=> Ready(c))
        BY <3>2, OfferPlayers
      <3>4. me[c].no = k
        BY <3>2 DEF Offers, Gold
      <3> QED
        BY <1>1, <3>2, <3>3, <3>4, Typed
    <2> QED
      BY <2>1, <2>2
  <1> QED
    BY <1>3, <1>4, <1>5, <1>6, <1>7

LEMMA OfferMatched ==
  ASSUME TypeOK, Lines, Numbers, Matched, NEW a \in Client, NEW w, NEW m, Offers(a, w, m)
  PROVE  Matched'
  <1> SUFFICES ASSUME "early" \notin lapses', NEW k \in Trades, NEW c \in Client,
                      NEW d \in Client \ {c}, Settled(c, k)', Settled(d, k)'
               PROVE  Match(c, d, k)'
    BY DEF Matched
  <1>1. Match(c, d, k) /\ Settled(c, k)
    BY OfferSight DEF Matched, Offers
  <1>2. /\ Seen(d, k)' = Seen(d, k) /\ toClient' = toClient
        /\ Live(k)' \/ Arrived(d, k)' => Live(k) \/ Arrived(d, k)
    BY OfferSight DEF Offers
  <1>3. /\ Seen(d, k).item \in Nat /\ Seen(d, k).gold \in 0..1
        /\ Given(c, k).item \in Nat /\ Given(c, k).gold \in 0..1
    BY SightTypes
  <1> DEFINE new(i) == i \notin DOMAIN toServer[c]
  <1>4. ASSUME NEW i \in DOMAIN toServer'[c]
        PROVE  IF ~ new(i) THEN toServer'[c][i] = toServer[c][i]
               ELSE /\ c = a /\ toServer'[c][i] = m
                    /\ \A j \in DOMAIN toServer'[c] : j =< i /\ (j # i => ~ new(j))
    BY OfferLines
  <1>5. CASE c = a /\ m.m \in {"G", "I"} /\ m.no = k
    <2>1. Joined(c, k) /\ Ready(c) /\ me[c].mine = Given(c, k) /\ w.mine = Given(c, k)'
      <3>1. me[c].no = k /\ me[c].status = 1 /\ me[c].wnd
        BY <1>5 DEF Offers
      <3>2. ~ Called(c, k)
        BY <3>1, Typed DEF Called, Numbers
      <3>3. Joined(c, k) /\ Ready(c)
        BY <1>1, <3>1, <3>2 DEF Settled, Ready
      <3>4. Joined(c, k)' /\ Ready(c)' /\ me'[c] = w
        BY <1>5, <3>3, OfferSight, OfferPlayers
      <3> QED
        BY <3>3, <3>4 DEF Given
    <2>2. CASE m.m = "I"
      <3>1. /\ m.n = Given(c, k).item + 1 /\ Given(c, k)'.item = Given(c, k).item + 1
            /\ Given(c, k)'.gold = Given(c, k).gold
        BY <1>5, <2>1, <2>2 DEF Offers
      <3>2. \A i \in DOMAIN toServer[c] : Item(toServer[c][i], k) =>
               toServer[c][i].n \in Seen(d, k).item + 1 .. Given(c, k).item
        BY <1>1 DEF Match, Between
      <3>3. \A i \in DOMAIN toServer'[c] : Item(toServer'[c][i], k) =>
               toServer'[c][i].n \in Seen(d, k).item + 1 .. Given(c, k)'.item
        BY <1>1, <1>3, <1>4, <3>1, <3>2 DEF Match
      <3>4. \A i \in DOMAIN toClient[d] : Item(toClient[d][i], k) =>
               toClient[d][i].n \in Seen(d, k).item + 1 .. Given(c, k).item
        BY <1>1 DEF Match, Between
      <3>5. ASSUME NEW i \in DOMAIN toServer'[c], NEW j \in DOMAIN toServer'[c], i < j,
                   Item(toServer'[c][i], k), Item(toServer'[c][j], k)
            PROVE  toServer'[c][i].n < toServer'[c][j].n
        <4>1. ~ new(i) /\ toServer'[c][i] = toServer[c][i]
          <5>1. ~ (j =< i)
            BY <3>5, PlacesSaid DEF Offers
          <5> QED
            BY <1>4, <5>1
        <4>2. CASE ~ new(j)
          BY <1>1, <1>4, <3>5, <4>1, <4>2 DEF Match, Between
        <4>3. CASE new(j)
          BY <1>3, <1>4, <3>1, <3>2, <3>5, <4>1, <4>3
        <4> QED
          BY <4>2, <4>3
      <3>6. ASSUME NEW i \in DOMAIN toClient'[d], NEW j \in DOMAIN toServer'[c],
                   Item(toClient'[d][i], k), Item(toServer'[c][j], k)
            PROVE  toClient'[d][i].n < toServer'[c][j].n
        <4>1. CASE ~ new(j)
          BY <1>1, <1>2, <1>4, <3>6, <4>1 DEF Match, Between
        <4>2. CASE new(j)
          BY <1>2, <1>3, <1>4, <3>1, <3>4, <3>6, <4>2
        <4> QED
          BY <4>1, <4>2
      <3>7. Between(c, d, k)'
        <4>1. \A i \in DOMAIN toClient'[d] : Item(toClient'[d][i], k) =>
                 toClient'[d][i].n \in Seen(d, k)'.item + 1 .. Given(c, k)'.item
          BY <1>2, <1>3, <3>1, <3>4
        <4>2. \A i, j \in DOMAIN toClient'[d] :
                 i < j /\ Item(toClient'[d][i], k) /\ Item(toClient'[d][j], k)
                    => toClient'[d][i].n < toClient'[d][j].n
          BY <1>1, <1>2 DEF Match, Between
        <4> QED
          BY <1>2, <3>3, <3>5, <3>6, <4>1, <4>2 DEF Between
      <3>8. AllItems(c, d, k)'
        <4>1. PICK i \in DOMAIN toServer'[c] : toServer'[c][i] = m
          BY <1>5, OfferLines
        <4>2. Item(toServer'[c][i], k) /\ toServer'[c][i].n = Given(c, k)'.item
          BY <1>5, <2>2, <3>1, <4>1 DEF Item
        <4> QED
          BY <4>2 DEF AllItems
      <3>9. AllGold(c, d, k) => AllGold(c, d, k)'
        BY <1>2, <3>1, OfferLines DEF AllGold
      <3> QED
        BY <1>1, <1>2, <1>3, <3>1, <3>7, <3>8, <3>9 DEF Match
    <2>3. CASE m.m = "G"
      <3>1. Given(c, k)'.item = Given(c, k).item /\ Given(c, k)'.gold = 1
        BY <1>5, <2>1, <2>3 DEF Offers
      <3>2. Between(c, d, k)'
        BY <1>1, <1>2, <1>4, <2>3, <3>1 DEF Match, Between, Item
      <3>3. AllItems(c, d, k) => AllItems(c, d, k)'
        BY <1>2, <3>1, OfferLines DEF AllItems
      <3>4. AllGold(c, d, k)'
        <4>1. PICK i \in DOMAIN toServer'[c] : toServer'[c][i] = m
          BY <1>5, OfferLines
        <4>2. m.named
          BY <1>5, <2>1 DEF Joined, Heard, Offers
        <4>3. Gold(toServer'[c][i], k)
          BY <1>5, <2>3, <4>1, <4>2 DEF Gold
        <4> QED
          BY <4>3 DEF AllGold
      <3> QED
        BY <1>1, <1>2, <1>3, <3>1, <3>2, <3>3, <3>4 DEF Match
    <2> QED
      BY <1>5, <2>2, <2>3
  <1>6. CASE ~ (c = a /\ m.m \in {"G", "I"} /\ m.no = k)
    <2>1. Given(c, k)' = Given(c, k)
      <3>1. (Joined(c, k)' <=> Joined(c, k)) /\ (Ready(c)' <=> Ready(c))
        BY OfferSight, OfferPlayers
      <3>2. me'[c].mine = me[c].mine \/ ~ Joined(c, k)
        BY <1>6, OfferPlayers DEF Offers, Joined
      <3> QED
        BY <3>1, <3>2 DEF Given
    <2>2. ASSUME NEW i \in DOMAIN toServer'[c], Item(toServer'[c][i], k)
          PROVE  i \in DOMAIN toServer[c] /\ toServer'[c][i] = toServer[c][i]
      BY <1>4, <1>6, <2>2 DEF Item
    <2>3. Between(c, d, k)'
      BY <1>1, <1>2, <2>1, <2>2 DEF Match, Between
    <2>4. AllItems(c, d, k) => AllItems(c, d, k)'
      BY <1>2, <2>1, OfferLines DEF AllItems
    <2>5. AllGold(c, d, k) => AllGold(c, d, k)'
      BY <1>2, <2>1, OfferLines DEF AllGold
    <2> QED
      BY <1>1, <1>2, <2>1, <2>3, <2>4, <2>5 DEF Match
  <1> QED
    BY <1>5, <1>6

LEMMA OfferKeeps ==
  ASSUME TypeOK, Lines, Sound, NEW a \in Client, NEW w, NEW m, Offers(a, w, m)
  PROVE  Sound'
  BY OfferOrder, OfferEngaged, OfferLockLast, OfferGoldOnce, OfferMatched DEF Sound

\* LockAndOkfunction, and the goods clicked on.
LEMMA ClickOffers ==
  ASSUME TypeOK, Lines, NEW c \in Client, Lock(c) \/ PutGold(c) \/ PutItem(c)
  PROVE  \E w, m : Offers(c, w, m)
  <1>1. me[c] \in Windows /\ me \in [Client -> Windows] /\ me[c].mine \in Goods
    BY Typed DEF TypeOK
  <1>2. me' \in [Client -> Windows]
    BY ClickTypes DEF TypeOK
  <1>3. ASSUME NEW w, NEW m \in ToServer, Clicked(c, w, <<m>>), UNCHANGED lapses, Click(c)
        PROVE  /\ w \in Windows /\ me' = [me EXCEPT ![c] = w]
               /\ toServer' = [toServer EXCEPT ![c] = Append(@, m)]
               /\ UNCHANGED <<toClient, server, lapses>> /\ me[c].open /\ me[c].wnd
    <2>1. me' = [me EXCEPT ![c] = w] /\ Tell(c, <<m>>) /\ UNCHANGED <<toClient, server>>
      BY <1>3 DEF Clicked
    <2>2. me'[c] = w
      BY <1>1, <2>1
    <2> QED
      BY <1>2, <1>3, <2>1, <2>2, TellOne DEF Click
  <1>4. CASE Lock(c)
    <2> DEFINE w == [me[c] EXCEPT !.confirm = @ + 1]
               m == Say(me[c], "Confirm")
    <2>1. m \in ToServer /\ m.m = "Confirm" /\ m.no = me[c].no /\ m.named = me[c].named
      BY <1>1, SayTypes
    <2>2. /\ w.no = me[c].no /\ w.status = me[c].status /\ w.named = me[c].named
          /\ w.theirs = me[c].theirs /\ w.gold = me[c].gold /\ w.mine = me[c].mine
          /\ w.open = me[c].open /\ w.wnd = me[c].wnd /\ w.confirm = me[c].confirm + 1
      BY <1>1 DEF Windows
    <2>3. Clicked(c, w, <<m>>) /\ UNCHANGED lapses /\ Click(c) /\ me[c].confirm \in {1, 3}
      BY <1>4 DEF Lock
    <2> HIDE DEF w, m
    <2>4. Offers(c, w, m)
      BY <1>3, <2>1, <2>2, <2>3 DEF Offers
    <2> QED
      BY <2>4
  <1>5. CASE PutGold(c)
    <2> DEFINE w == [me[c] EXCEPT !.mine.gold = 1]
               m == Say(me[c], "G")
    <2>1. m \in ToServer /\ m.m = "G" /\ m.no = me[c].no /\ m.named = me[c].named
      BY <1>1, SayTypes
    <2>2. /\ w.no = me[c].no /\ w.status = me[c].status /\ w.named = me[c].named
          /\ w.theirs = me[c].theirs /\ w.gold = me[c].gold /\ w.confirm = me[c].confirm
          /\ w.open = me[c].open /\ w.wnd = me[c].wnd
          /\ w.mine = [me[c].mine EXCEPT !.gold = 1]
      BY <1>1 DEF Windows
    <2>3. w.mine.gold = 1 /\ w.mine.item = me[c].mine.item
      BY <1>1, <2>2 DEF Goods
    <2>4. Clicked(c, w, <<m>>) /\ UNCHANGED lapses /\ MayOffer(c)
      BY <1>5 DEF PutGold
    <2>5. me[c].mine.gold = 0
      BY <1>1, <1>5 DEF PutGold, Goods
    <2>6. Click(c) /\ me[c].status = 1 /\ me[c].confirm \notin {2, 4}
      BY <2>4 DEF MayOffer
    <2> HIDE DEF w, m
    <2>7. Offers(c, w, m)
      BY <1>3, <2>1, <2>2, <2>3, <2>4, <2>5, <2>6 DEF Offers
    <2> QED
      BY <2>7
  <1>6. CASE PutItem(c)
    <2> DEFINE w == [me[c] EXCEPT !.mine.item = @ + 1]
               m == [m |-> "I", named |-> me[c].named, no |-> me[c].no,
                     n |-> me[c].mine.item + 1]
    <2>0. me[c].mine.item + 1 \in Nat
      BY <1>1 DEF Goods
    <2>1. /\ m \in ToServer /\ m.m = "I" /\ m.no = me[c].no /\ m.named = me[c].named
          /\ m.n = me[c].mine.item + 1
      BY <1>1, <2>0, SayTypes
    <2>2. /\ w.no = me[c].no /\ w.status = me[c].status /\ w.named = me[c].named
          /\ w.theirs = me[c].theirs /\ w.gold = me[c].gold /\ w.confirm = me[c].confirm
          /\ w.open = me[c].open /\ w.wnd = me[c].wnd
          /\ w.mine = [me[c].mine EXCEPT !.item = @ + 1]
      BY <1>1 DEF Windows
    <2>3. w.mine.item = me[c].mine.item + 1 /\ w.mine.gold = me[c].mine.gold
      BY <1>1, <2>2 DEF Goods
    <2>4. Clicked(c, w, <<m>>) /\ UNCHANGED lapses /\ MayOffer(c)
      BY <1>6 DEF PutItem
    <2>5. Click(c) /\ me[c].status = 1 /\ me[c].confirm \notin {2, 4}
      BY <2>4 DEF MayOffer
    <2> HIDE DEF w, m
    <2>6. Offers(c, w, m)
      BY <1>3, <2>1, <2>2, <2>3, <2>4, <2>5 DEF Offers
    <2> QED
      BY <2>6
  <1> QED
    BY <1>4, <1>5, <1>6

-----------------------------------------------------------------------------
(* A trade begins for a player who is in none.                             *)

Opens(a) ==
    /\ Drops(a) /\ Yes(toClient[a][1]) /\ me[a].status = 0
    /\ UNCHANGED <<toServer, server, lapses>>
    /\ \E w \in Windows :
          /\ me' = [me EXCEPT ![a] = w]
          /\ w.status = 1 /\ w.named /\ w.open /\ w.confirm = 1 /\ w.no = toClient[a][1].no
          /\ w.wnd = me[a].wnd /\ w.gold = me[a].gold
          /\ w.mine = me[a].mine /\ w.theirs = me[a].theirs

LEMMA BeginOpens ==
  ASSUME TypeOK, Lines, NEW c \in Client, C_recv(c), me[c].status = 0, Yes(toClient[c][1])
  PROVE  Opens(c)
  <1> DEFINE w == [[me[c] EXCEPT !.named = TRUE]
                      EXCEPT !.status = 1, !.open = TRUE, !.confirm = 1, !.no = toClient[c][1].no]
  <1>1. me[c] \in Windows /\ me \in [Client -> Windows]
    BY DEF TypeOK
  <1>2. Drops(c) /\ UNCHANGED <<server, lapses>>
    BY DEF C_recv, Receive, Drops
  <1>3. Head(toClient[c]) = toClient[c][1] /\ toClient[c][1].no \in Trades
    BY <1>2, Taken, MessageTypes
  <1>4. Handled(c, w, <<>>)
    BY <1>3 DEF C_recv, Yes
  <1>5. me' = [me EXCEPT ![c] = w] /\ UNCHANGED toServer
    BY <1>4, TellNone DEF Handled
  <1>6. /\ w.status = 1 /\ w.named = TRUE /\ w.open = TRUE /\ w.confirm = 1
        /\ w.no = toClient[c][1].no
        /\ w.wnd = me[c].wnd /\ w.gold = me[c].gold
        /\ w.mine = me[c].mine /\ w.theirs = me[c].theirs
    BY <1>1 DEF Windows
  <1>7. w \in Windows
    <2>1. me' \in [Client -> Windows]
      BY HandlerTypes DEF Handler, TypeOK
    <2>2. me'[c] = w
      BY <1>1, <1>5
    <2> QED
      BY <2>1, <2>2
  <1> HIDE DEF w
  <1> QED
    BY <1>2, <1>5, <1>6, <1>7 DEF Opens

\* Who begins a trade has nothing of the last one.
LEMMA OpensPlayers ==
  ASSUME TypeOK, Lines, Numbers, Engaged, NEW a \in Client, Opens(a)
  PROVE  /\ ~ Heard(a) /\ Heard(a)'
         /\ me'[a].no = toClient[a][1].no /\ me'[a].no \in me[a].no + 1 .. server.no
         /\ me'[a].confirm = 1 /\ me'[a].status # 0 /\ me'[a].open /\ ~ me'[a].gold
         /\ Ready(a)' => me'[a].mine = Nothing /\ me'[a].theirs = Nothing
         /\ \A c \in Client \ {a} : me'[c] = me[c]
         /\ me[a].no \in Nat /\ me'[a].no \in Nat /\ server.no \in Nat
  <1>1. PICK w \in Windows :
          /\ me' = [me EXCEPT ![a] = w]
          /\ w.status = 1 /\ w.named /\ w.open /\ w.confirm = 1 /\ w.no = toClient[a][1].no
          /\ w.wnd = me[a].wnd /\ w.gold = me[a].gold
          /\ w.mine = me[a].mine /\ w.theirs = me[a].theirs
    BY DEF Opens
  <1>2. me'[a] = w /\ \A c \in Client \ {a} : me'[c] = me[c]
    BY <1>1 DEF TypeOK
  <1>3. me[a].status = 0 /\ ~ me[a].gold
        /\ (me[a].wnd => me[a].mine = Nothing /\ me[a].theirs = Nothing)
    BY DEF Opens, Engaged
  <1>4. w.no \in me[a].no + 1 .. server.no
    <2>1. 1 \in DOMAIN toClient[a] /\ Yes(toClient[a][1])
      BY LineTypes, Taken DEF Opens
    <2> QED
      BY <1>1, <2>1 DEF Numbers
  <1>5. me[a].no \in Nat /\ server.no \in Nat /\ w.no \in Nat
    BY <1>4, Typed
  <1>6. ~ Heard(a) /\ Heard(a)'
    BY <1>1, <1>2, <1>3 DEF Heard
  <1>7. Ready(a)' => me'[a].mine = Nothing /\ me'[a].theirs = Nothing
    BY <1>1, <1>2, <1>3 DEF Ready
  <1> QED
    BY <1>1, <1>2, <1>3, <1>4, <1>5, <1>6, <1>7

LEMMA OpensNumbers ==
  ASSUME TypeOK, Lines, Numbers, Engaged, NEW a \in Client, Opens(a)
  PROVE  Numbers'
  <1> SUFFICES ASSUME NEW c \in Client
               PROVE
        /\ me'[c].no =< server'.no
        /\ \A i \in DOMAIN toServer'[c] : toServer'[c][i].m # "D" => toServer'[c][i].no =< me'[c].no
        /\ \A i \in DOMAIN toClient'[c] :
              /\ Yes(toClient'[c][i]) => toClient'[c][i].no \in me'[c].no + 1 .. server'.no
              /\ Offer(toClient'[c][i]) =>
                    \A d \in Client \ {c} : toClient'[c][i].no =< me'[d].no
        /\ \A i, j \in DOMAIN toClient'[c] :
              /\ i < j /\ Yes(toClient'[c][j]) /\ (Yes(toClient'[c][i]) \/ Offer(toClient'[c][i]))
                    => toClient'[c][i].no < toClient'[c][j].no
    BY DEF Numbers
  <1>1. Drops(a) /\ UNCHANGED <<toServer, server>>
    BY DEF Opens
  <1>2. \A d \in Client : /\ me[d].no =< me'[d].no /\ me'[d].no =< server.no
                          /\ me[d].no \in Nat /\ me'[d].no \in Nat
    BY OpensPlayers, Typed DEF Numbers
  <1>3. \A i \in DOMAIN toServer'[c] : toServer'[c][i].m # "D" => toServer'[c][i].no =< me'[c].no
    <2>1. \A i \in DOMAIN toServer[c] : toServer[c][i].m # "D" =>
             toServer[c][i].no =< me[c].no /\ toServer[c][i].no \in Nat
      BY LineTypes, MessageTypes DEF Numbers, Trades
    <2> QED
      BY <1>1, <1>2, <2>1
  <1>4. ASSUME NEW i \in DOMAIN toClient'[c], Offer(toClient'[c][i]), NEW d \in Client \ {c}
        PROVE  toClient'[c][i].no =< me'[d].no
    <2>1. PICK p \in DOMAIN toClient[c] : toClient'[c][i] = toClient[c][p]
      BY <1>1, Before
    <2>2. toClient[c][p] \in ToClient
      BY LineTypes
    <2>3. toClient[c][p].no \in Nat
      BY <1>4, <2>1, <2>2, MessageTypes DEF Trades
    <2>4. toClient[c][p].no =< me[d].no
      BY <1>4, <2>1 DEF Numbers
    <2> QED
      BY <1>2, <2>1, <2>3, <2>4
  <1>5. ASSUME NEW i \in DOMAIN toClient'[c], Yes(toClient'[c][i])
        PROVE  toClient'[c][i].no \in me'[c].no + 1 .. server'.no
    <2>1. CASE c # a
      <3>1. toClient'[c] = toClient[c] /\ me'[c] = me[c]
        BY <1>1, <2>1, Taken, OpensPlayers
      <3> QED
        BY <1>1, <1>5, <3>1 DEF Numbers
    <2>2. CASE c = a
      <3>1. /\ 1 \in DOMAIN toClient[a] /\ i + 1 \in DOMAIN toClient[a] /\ 1 < i + 1
            /\ toClient'[a][i] = toClient[a][i + 1]
        <4>1. /\ DOMAIN toClient'[a] = 1..Len(toClient[a]) - 1 /\ Len(toClient[a]) \in Nat
              /\ DOMAIN toClient[a] = 1..Len(toClient[a])
          BY <1>1, Taken, LineTypes
        <4>2. \A l \in 1..Len(toClient[a]) - 1 : toClient'[a][l] = toClient[a][l + 1]
          BY <1>1, Taken
        <4> QED
          BY <2>2, <4>1, <4>2
      <3>2. /\ toClient[a][1].no < toClient[a][i + 1].no
            /\ toClient[a][i + 1].no \in me[a].no + 1 .. server.no
        BY <1>5, <2>2, <3>1 DEF Numbers, Opens
      <3> QED
        BY <1>1, <2>2, <3>1, <3>2, OpensPlayers
    <2> QED
      BY <2>1, <2>2
  <1>6. \A i, j \in DOMAIN toClient'[c] :
           i < j /\ Yes(toClient'[c][j]) /\ (Yes(toClient'[c][i]) \/ Offer(toClient'[c][i]))
                 => toClient'[c][i].no < toClient'[c][j].no
    BY <1>1, Before DEF Numbers
  <1> QED
    BY <1>1, <1>2, <1>3, <1>4, <1>5, <1>6

LEMMA OpensInOrder ==
  ASSUME TypeOK, Lines, Numbers, Engaged, InOrder, NEW a \in Client, Opens(a)
  PROVE  InOrder'
  <1>1. Drops(a) /\ server' = server
    BY DEF Opens
  <1> DEFINE Next1(c, i, j) == \E l \in i + 1 .. j : Yes(toClient'[c][l])
             Begun1(c, i) == IF i = 0 THEN Heard(c)' ELSE Yes(toClient'[c][i])
             No1(c, i) == IF i = 0 THEN me'[c].no ELSE toClient'[c][i].no
  <1> SUFFICES ASSUME NEW c \in Client, NEW i \in 0 .. Len(toClient'[c]), Begun1(c, i)
               PROVE
        /\ No1(c, i) < server'.no => Next1(c, i, Len(toClient'[c]))
        /\ \A j \in i + 1 .. Len(toClient'[c]) : Offer(toClient'[c][j]) =>
              toClient'[c][j].no = No1(c, i) \/ Next1(c, i, j)
        /\ \/ Live(No1(c, i))
           \/ \E j \in i + 1 .. Len(toClient'[c]) :
                 toClient'[c][j].m = "W" /\ ~ Next1(c, i, j)
    BY <1>1 DEF InOrder, Begun, No, Another, Live
  <1>2. CASE c # a
    <2>1. toClient'[c] = toClient[c] /\ me'[c] = me[c] /\ (Heard(c)' <=> Heard(c))
      BY <1>1, <1>2, Taken, OpensPlayers DEF Heard
    <2> QED
      BY <1>1, <2>1 DEF InOrder, Begun, No, Another
  <1>3. CASE c = a
    <2>1. /\ Len(toClient[c]) >= 1 /\ Len(toClient'[c]) = Len(toClient[c]) - 1
          /\ \A l \in 1..Len(toClient[c]) - 1 : toClient'[c][l] = toClient[c][l + 1]
          /\ Len(toClient[c]) \in Nat
      BY <1>1, <1>3, Taken, LineTypes
    <2>2. \A l, j \in 0..Len(toClient[c]) - 1 : Next1(c, l, j) <=> Another(c, l + 1, j + 1)
      BY <1>1, <1>3, Shifted
    <2>3. i + 1 \in 0..Len(toClient[c]) /\ Begun(c, i + 1) /\ No1(c, i) = No(c, i + 1)
      <3>1. i + 1 \in 0..Len(toClient[c]) /\ i + 1 # 0
        BY <2>1
      <3>2. CASE i = 0
        <4>1. Yes(toClient[a][1]) /\ me'[a].no = toClient[a][1].no
          <5>1. Yes(toClient[a][1])
            BY DEF Opens
          <5> QED
            BY <5>1, OpensPlayers
        <4>2. i + 1 = 1
          BY <3>2
        <4> QED
          BY <1>3, <3>1, <3>2, <4>1, <4>2 DEF Begun, No
      <3>3. CASE i # 0
        <4>1. toClient'[c][i] = toClient[c][i + 1]
          BY <2>1, <3>3
        <4> QED
          BY <3>1, <3>3, <4>1 DEF Begun, No
      <3> QED
        BY <3>2, <3>3
    <2> HIDE DEF Next1, Begun1, No1
    <2>4. /\ No(c, i + 1) < server.no => Another(c, i + 1, Len(toClient[c]))
          /\ \A j \in (i + 1) + 1 .. Len(toClient[c]) : Offer(toClient[c][j]) =>
                toClient[c][j].no = No(c, i + 1) \/ Another(c, i + 1, j)
          /\ \/ Live(No(c, i + 1))
             \/ \E j \in (i + 1) + 1 .. Len(toClient[c]) :
                   toClient[c][j].m = "W" /\ ~ Another(c, i + 1, j)
      BY <2>3 DEF InOrder
    <2>5. No1(c, i) < server'.no => Next1(c, i, Len(toClient'[c]))
      <3>1. /\ (Len(toClient[c]) - 1) + 1 = Len(toClient[c])
            /\ Len(toClient[c]) - 1 \in 0..Len(toClient[c]) - 1
            /\ i \in 0..Len(toClient[c]) - 1
        BY <2>1
      <3>2. Another(c, i + 1, Len(toClient[c])) <=> Next1(c, i, Len(toClient[c]) - 1)
        BY <2>2, <3>1
      <3> QED
        BY <1>1, <2>1, <2>3, <2>4, <3>2
    <2>6. ASSUME NEW j \in i + 1 .. Len(toClient'[c]), Offer(toClient'[c][j])
          PROVE  toClient'[c][j].no = No1(c, i) \/ Next1(c, i, j)
      <3>1. /\ j \in 1..Len(toClient[c]) - 1 /\ j \in 0..Len(toClient[c]) - 1
            /\ i \in 0..Len(toClient[c]) - 1
            /\ j + 1 \in (i + 1) + 1..Len(toClient[c])
        BY <2>1
      <3> QED
        BY <2>1, <2>2, <2>3, <2>4, <2>6, <3>1
    <2>7. ASSUME NEW j \in (i + 1) + 1 .. Len(toClient[c]),
                 toClient[c][j].m = "W" /\ ~ Another(c, i + 1, j)
          PROVE  /\ j - 1 \in i + 1 .. Len(toClient'[c])
                 /\ toClient'[c][j - 1].m = "W" /\ ~ Next1(c, i, j - 1)
      <3>1. /\ j - 1 \in 1..Len(toClient[c]) - 1 /\ j - 1 \in i + 1..Len(toClient[c]) - 1
            /\ j - 1 \in 0..Len(toClient[c]) - 1 /\ (j - 1) + 1 = j
            /\ i \in 0..Len(toClient[c]) - 1
        BY <2>1
      <3>2. toClient'[c][j - 1] = toClient[c][j]
        BY <2>1, <3>1
      <3>3. ~ Next1(c, i, j - 1)
        BY <2>2, <2>7, <3>1
      <3> QED
        BY <2>1, <2>7, <3>1, <3>2, <3>3
    <2> QED
      BY <2>3, <2>4, <2>5, <2>6, <2>7
  <1> QED
    BY <1>2, <1>3

LEMMA OpensEngaged ==
  ASSUME TypeOK, Lines, Numbers, Engaged, NEW a \in Client, Opens(a)
  PROVE  Engaged'
  <1> SUFFICES ASSUME NEW c \in Client
               PROVE
        /\ Heard(c)' =>
              /\ \A i \in DOMAIN toServer'[c] :
                    toServer'[c][i].m # "D" /\ toServer'[c][i].no = me'[c].no
                        => toServer'[c][i].m # "W" /\ toServer'[c][i].named
              /\ me'[c].confirm # 0
              /\ me'[c].open /\ ~ me'[c].wnd => me'[c].confirm \in {1, 3}
        /\ me'[c].status = 0 =>
              /\ me'[c].confirm =< 2 /\ ~ me'[c].gold
              /\ me'[c].wnd => me'[c].mine = Nothing /\ me'[c].theirs = Nothing
    BY DEF Engaged
  <1>1. toServer' = toServer
    BY DEF Opens
  <1>2. CASE c # a
    <2>1. me'[c] = me[c] /\ (Heard(c)' <=> Heard(c))
      BY <1>2, OpensPlayers DEF Heard
    <2> QED
      BY <1>1, <2>1 DEF Engaged
  <1>3. CASE c = a
    <2>1. \A i \in DOMAIN toServer[c] : toServer[c][i].m # "D" => toServer[c][i].no # me'[c].no
      <3>1. \A i \in DOMAIN toServer[c] : toServer[c][i].m # "D" =>
               toServer[c][i].no =< me[c].no /\ toServer[c][i].no \in Nat
        BY LineTypes, MessageTypes DEF Numbers, Trades
      <3> QED
        BY <1>3, <3>1, OpensPlayers
    <2> QED
      BY <1>1, <1>3, <2>1, OpensPlayers
  <1> QED
    BY <1>2, <1>3

LEMMA OpensStill ==
  ASSUME TypeOK, Lines, Numbers, Engaged, NEW a \in Client, Opens(a)
  PROVE  Still
  <1>1. Older(toServer, toServer')
    BY DEF Opens, Older
  <1>2. Older(toClient, toClient')
    BY Before DEF Opens, Older
  <1>3. \A c \in Client \ {a} :
           me'[c] = me[c] /\ (Heard(c)' <=> Heard(c)) /\ (Ready(c)' <=> Ready(c))
    BY OpensPlayers DEF Heard, Ready
  <1>4. \A c \in Client : me[c].no \in Nat /\ me[c].no =< me[c].no
    BY Typed
  <1>5. me'[a].no \in Nat /\ me[a].no =< me'[a].no /\ me'[a].no # me[a].no
    BY OpensPlayers
  <1> QED
    BY <1>1, <1>2, <1>3, <1>4, <1>5, OpensPlayers DEF Still

LEMMA OpensMatched ==
  ASSUME TypeOK, Lines, Numbers, Engaged, Matched, NEW a \in Client, Opens(a)
  PROVE  Matched'
  <1>1. ASSUME NEW c \in Client, NEW k \in Trades, Settled(c, k)'
        PROVE  Settled(c, k) /\ Given(c, k)' = Given(c, k) /\ Seen(c, k)' = Seen(c, k)
    <2>1. CASE c # a
      <3>1. me'[c] = me[c] /\ toClient'[c] = toClient[c]
        BY <2>1, OpensPlayers, Taken DEF Opens
      <3> QED
        BY <1>1, <3>1 DEF Settled, Given, Seen, Called, Joined, Heard, Ready
    <2>2. CASE c = a
      <3>1. ~ Joined(a, k) /\ Given(a, k) = Nothing /\ Seen(a, k) = Nothing
        BY OpensPlayers DEF Joined, Given, Seen
      <3>2. Given(a, k)' = Nothing /\ Seen(a, k)' = Nothing
        BY OpensPlayers DEF Given, Seen
      <3>3. Called(a, k)' => Called(a, k)
        <4>1. \A i \in DOMAIN toClient'[a] :
                 \E p \in DOMAIN toClient[a] : toClient'[a][i] = toClient[a][p]
          BY Before DEF Opens
        <4> QED
          BY <4>1 DEF Called
      <3>4. Joined(a, k)' => Called(a, k)
        <4>1. 1 \in DOMAIN toClient[a] /\ Yes(toClient[a][1])
          BY LineTypes, Taken DEF Opens
        <4> QED
          BY <4>1, OpensPlayers DEF Joined, Called
      <3> QED
        BY <1>1, <2>2, <3>1, <3>2, <3>3, <3>4 DEF Settled
    <2> QED
      BY <2>1, <2>2
  <1>2. \A k \in Trades : Live(k)' => Live(k)
    BY DEF Opens, Live
  <1>3. ASSUME NEW d \in Client, NEW i \in DOMAIN toClient[d], Offer(toClient[d][i])
        PROVE  \E j \in DOMAIN toClient'[d] : toClient'[d][j] = toClient[d][i]
    <2>1. CASE toClient'[d] = toClient[d]
      BY <2>1
    <2>2. CASE toClient'[d] # toClient[d]
      <3>1. d = a /\ (i # 1 => /\ i - 1 \in DOMAIN toClient'[d]
                               /\ toClient'[d][i - 1] = toClient[d][i])
        BY <2>2, StillToCome DEF Opens
      <3>2. i # 1
        BY <1>3, <3>1 DEF Opens, Yes, Offer
      <3> QED
        BY <3>1, <3>2
    <2> QED
      BY <2>1, <2>2
  <1>4. \A k, c : Keeps(toServer, toServer', c, k)
    BY DEF Opens, Keeps
  <1>5. \A k : \A d \in Client : Keeps(toClient, toClient', d, k)
    BY <1>3 DEF GoodOf, Offer, Keeps
  <1>6. Still /\ lapses' = lapses
    BY OpensStill DEF Opens
  <1> QED
    BY <1>1, <1>2, <1>3, <1>4, <1>5, <1>6, StillMatched

LEMMA OpensKeeps ==
  ASSUME TypeOK, Lines, Sound, NEW a \in Client, Opens(a)
  PROVE  Sound'
  BY OpensNumbers, OpensInOrder, OpensEngaged, OpensStill, StillLockLast, StillGoldOnce,
     OpensMatched DEF Sound

-----------------------------------------------------------------------------
(* An offer or a Confirm of the trade a player is in.                      *)

Hears(a, w) ==
    /\ Drops(a) /\ Offer(toClient[a][1]) /\ Heard(a)
    /\ UNCHANGED <<toServer, server>>
    /\ lapses \subseteq lapses'
    /\ w \in Windows /\ me' = [me EXCEPT ![a] = w]
    /\ w.no = me[a].no /\ w.status = me[a].status /\ w.named = me[a].named
    /\ w.open = me[a].open /\ w.wnd = me[a].wnd /\ w.mine = me[a].mine
    /\ \/ /\ toClient[a][1].m = "Confirm"
          /\ w.confirm = IF me[a].confirm \in {1, 2} THEN me[a].confirm + 2 ELSE me[a].confirm
          /\ w.gold = me[a].gold /\ w.theirs = me[a].theirs
       \/ /\ toClient[a][1].m = "G"
          /\ "early" \notin lapses' => me[a].wnd
          /\ w.confirm = me[a].confirm
          /\ w.theirs.gold = 1 /\ w.theirs.item = me[a].theirs.item
       \/ /\ toClient[a][1].m = "I"
          /\ "early" \notin lapses' => me[a].wnd
          /\ w.confirm = me[a].confirm /\ w.gold = me[a].gold
          /\ w.theirs.item = toClient[a][1].n /\ w.theirs.gold = me[a].theirs.gold

\* An offer a player hears in a trade is one of this trade.
LEMMA OwnTrade ==
  ASSUME TypeOK, Lines, InOrder, NEW a \in Client, toClient[a] # <<>>, Heard(a),
         Offer(toClient[a][1])
  PROVE  /\ toClient[a][1].no = me[a].no /\ 1 \in DOMAIN toClient[a]
         /\ toClient[a][1] \in ToClient
  <1>1. 1 \in DOMAIN toClient[a] /\ Len(toClient[a]) \in Nat /\ Len(toClient[a]) >= 1
    BY LineTypes
  <1>2. toClient[a][1] \in ToClient
    BY <1>1, LineTypes
  <1>3. Begun(a, 0) /\ No(a, 0) = me[a].no /\ 0 \in 0..Len(toClient[a])
    BY <1>1 DEF Begun, No
  <1>4. ~ Another(a, 0, 1)
    BY DEF Another, Yes, Offer
  <1>5. 1 \in 0 + 1 .. Len(toClient[a])
    BY <1>1
  <1>6. toClient[a][1].no = No(a, 0) \/ Another(a, 0, 1)
    BY <1>3, <1>5 DEF InOrder
  <1> QED
    BY <1>1, <1>2, <1>3, <1>4, <1>6

LEMMA RecvHears ==
  ASSUME TypeOK, Lines, Sound, NEW a \in Client, Heard(a),
         G_recv(a) \/ I_recv(a) \/ Confirm_recv(a)
  PROVE  \E w : Hears(a, w)
  <1>1. me[a] \in Windows /\ me \in [Client -> Windows] /\ me[a].theirs \in Goods
    BY Typed DEF TypeOK
  <1>2. Drops(a) /\ UNCHANGED server /\ lapses \subseteq lapses'
    BY DEF Drops, G_recv, I_recv, Confirm_recv, Receive, Offered
  <1>3. Head(toClient[a]) = toClient[a][1]
    BY <1>2, Taken
  <1>4. Offer(toClient[a][1])
    BY <1>3 DEF Offer, G_recv, I_recv, Confirm_recv, Receive
  <1>5. ASSUME NEW w, Handled(a, w, <<>>)
        PROVE  w \in Windows /\ me' = [me EXCEPT ![a] = w] /\ UNCHANGED toServer
    <2>1. me' = [me EXCEPT ![a] = w] /\ UNCHANGED toServer
      BY <1>5, TellNone DEF Handled
    <2>2. me' \in [Client -> Windows]
      BY HandlerTypes DEF Handler, TypeOK
    <2>3. me'[a] = w
      BY <1>1, <2>1
    <2> QED
      BY <2>1, <2>2, <2>3
  <1>6. CASE Confirm_recv(a)
    <2> DEFINE w == [me[a] EXCEPT !.confirm = IF @ \in {1, 2} THEN @ + 2 ELSE @]
    <2>1. Handled(a, w, <<>>) /\ toClient[a][1].m = "Confirm"
      BY <1>3, <1>6 DEF Confirm_recv, Receive
    <2>2. /\ w.no = me[a].no /\ w.status = me[a].status /\ w.named = me[a].named
          /\ w.open = me[a].open /\ w.wnd = me[a].wnd /\ w.mine = me[a].mine
          /\ w.gold = me[a].gold /\ w.theirs = me[a].theirs
          /\ w.confirm = IF me[a].confirm \in {1, 2} THEN me[a].confirm + 2 ELSE me[a].confirm
      BY <1>1 DEF Windows
    <2> HIDE DEF w
    <2>3. Hears(a, w)
      BY <1>2, <1>4, <1>5, <2>1, <2>2 DEF Hears
    <2> QED
      BY <2>3
  <1>7. CASE G_recv(a)
    <2> DEFINE w == [me[a] EXCEPT !.theirs.gold = 1, !.gold = TRUE]
    <2>1. toClient[a][1].m = "G" /\ ("early" \notin lapses' => me[a].wnd)
      BY <1>3, <1>7 DEF G_recv, Receive, Offered
    <2>2. ~ me[a].gold
      <3>1. toClient[a][1].no = me[a].no /\ 1 \in DOMAIN toClient[a]
            /\ toClient[a][1] \in ToClient
        BY <1>2, <1>4, OwnTrade DEF Drops, Sound
      <3>2. Gold(toClient[a][1], me[a].no) /\ me[a].no \in Trades
        BY <1>4, <2>1, <3>1, MessageTypes, Typed DEF Gold
      <3> QED
        BY <3>1, <3>2 DEF Sound, GoldOnce, HasGold, Joined
    <2>3. Handled(a, w, <<>>)
      BY <1>7, <2>2 DEF G_recv
    <2>4. /\ w.no = me[a].no /\ w.status = me[a].status /\ w.named = me[a].named
          /\ w.open = me[a].open /\ w.wnd = me[a].wnd /\ w.mine = me[a].mine
          /\ w.confirm = me[a].confirm /\ w.theirs = [me[a].theirs EXCEPT !.gold = 1]
      BY <1>1 DEF Windows
    <2>5. w.theirs.gold = 1 /\ w.theirs.item = me[a].theirs.item
      BY <1>1, <2>4 DEF Goods
    <2> HIDE DEF w
    <2>6. Hears(a, w)
      BY <1>2, <1>4, <1>5, <2>1, <2>3, <2>4, <2>5 DEF Hears
    <2> QED
      BY <2>6
  <1>8. CASE I_recv(a)
    <2> DEFINE w == [me[a] EXCEPT !.theirs.item = toClient[a][1].n]
    <2>1. toClient[a][1].m = "I" /\ ("early" \notin lapses' => me[a].wnd)
      BY <1>3, <1>8 DEF I_recv, Receive, Offered
    <2>2. Handled(a, w, <<>>)
      BY <1>3, <1>8 DEF I_recv
    <2>3. /\ w.no = me[a].no /\ w.status = me[a].status /\ w.named = me[a].named
          /\ w.open = me[a].open /\ w.wnd = me[a].wnd /\ w.mine = me[a].mine
          /\ w.confirm = me[a].confirm /\ w.gold = me[a].gold
          /\ w.theirs = [me[a].theirs EXCEPT !.item = toClient[a][1].n]
      BY <1>1 DEF Windows
    <2>4. w.theirs.item = toClient[a][1].n /\ w.theirs.gold = me[a].theirs.gold
      BY <1>1, <2>3 DEF Goods
    <2> HIDE DEF w
    <2>5. Hears(a, w)
      BY <1>2, <1>4, <1>5, <2>1, <2>2, <2>3, <2>4 DEF Hears
    <2> QED
      BY <2>5
  <1> QED
    BY <1>6, <1>7, <1>8

LEMMA HearsPlayers ==
  ASSUME TypeOK, Lines, Engaged, InOrder, NEW a \in Client, NEW w, Hears(a, w), NEW c \in Client
  PROVE  /\ me'[c].no = me[c].no /\ me'[c].status = me[c].status
         /\ me'[c].mine = me[c].mine
         /\ (Heard(c)' <=> Heard(c)) /\ (Ready(c)' <=> Ready(c))
         /\ me'[c].open <=> me[c].open
         /\ me[c].confirm \in {2, 4} <=> me'[c].confirm \in {2, 4}
         /\ me'[c].confirm \in {3, 4} =>
               \/ me[c].confirm \in {3, 4}
               \/ c = a /\ Confirms(toClient[a][1], me[a].no)
         /\ IF c = a THEN me'[c] = w ELSE me'[c] = me[c]
         /\ toClient[a][1].no = me[a].no
  <1>1. me' = [me EXCEPT ![a] = w] /\ me \in [Client -> Windows]
    BY DEF Hears, TypeOK
  <1>2. toClient[a][1].no = me[a].no
    BY OwnTrade DEF Hears, Drops
  <1>3. CASE c # a
    <2>1. me'[c] = me[c]
      BY <1>1, <1>3
    <2> QED
      BY <1>2, <1>3, <2>1 DEF Heard, Ready
  <1>4. CASE c = a
    <2>1. me'[c] = w
      BY <1>1, <1>4
    <2>2. me[c].confirm \in 0..4 /\ me[c].confirm # 0
      BY <1>4, Typed DEF Engaged, Hears
    <2>3. /\ w.no = me[c].no /\ w.status = me[c].status /\ w.named = me[c].named
          /\ w.open = me[c].open /\ w.wnd = me[c].wnd /\ w.mine = me[c].mine
          /\ \/ w.confirm = me[c].confirm
             \/ /\ Confirms(toClient[a][1], me[a].no)
                /\ me[c].confirm \in {1, 2} /\ w.confirm = me[c].confirm + 2
      BY <1>2, <1>4, <2>2 DEF Hears, Confirms
    <2> QED
      BY <1>2, <1>4, <2>1, <2>2, <2>3 DEF Heard, Ready
  <1> QED
    BY <1>3, <1>4

\* What comes behind.
LEMMA HearsLines ==
  ASSUME Lines, NEW a \in Client, NEW w, Hears(a, w)
  PROVE  /\ \A c \in Client \ {a} : toClient'[c] = toClient[c]
         /\ 1 \in DOMAIN toClient[a]
         /\ \A i \in DOMAIN toClient'[a] :
               /\ i + 1 \in DOMAIN toClient[a] /\ toClient'[a][i] = toClient[a][i + 1]
               /\ 1 < i + 1 /\ 1 # i + 1
         /\ \A i \in DOMAIN toClient[a] :
               i # 1 => i - 1 \in DOMAIN toClient'[a] /\ toClient'[a][i - 1] = toClient[a][i]
  <1>1. Drops(a)
    BY DEF Hears
  <1>2. /\ DOMAIN toClient'[a] = 1..Len(toClient[a]) - 1
        /\ DOMAIN toClient[a] = 1..Len(toClient[a])
        /\ Len(toClient[a]) \in Nat /\ Len(toClient[a]) >= 1
    BY <1>1, Taken, LineTypes
  <1>3. \A i \in 1..Len(toClient[a]) - 1 : toClient'[a][i] = toClient[a][i + 1]
    BY <1>1, Taken
  <1>4. \A i \in DOMAIN toClient[a] :
           i # 1 => i - 1 \in DOMAIN toClient'[a] /\ toClient'[a][i - 1] = toClient[a][i]
    <2>1. \A i \in DOMAIN toClient[a] :
             i # 1 => i - 1 \in 1..Len(toClient[a]) - 1 /\ (i - 1) + 1 = i
      BY <1>2
    <2> QED
      BY <1>2, <1>3, <2>1
  <1>5. \A i \in DOMAIN toClient'[a] : i + 1 \in DOMAIN toClient[a] /\ 1 < i + 1 /\ 1 # i + 1
    BY <1>2
  <1>6. \A c \in Client \ {a} : toClient'[c] = toClient[c]
    BY <1>1, Taken
  <1>7. 1 \in DOMAIN toClient[a]
    BY <1>2
  <1>8. \A i \in DOMAIN toClient'[a] : toClient'[a][i] = toClient[a][i + 1]
    BY <1>2, <1>3
  <1> QED
    BY <1>4, <1>5, <1>6, <1>7, <1>8

LEMMA HearsOrder ==
  ASSUME TypeOK, Lines, Engaged, Numbers, InOrder, NEW a \in Client, NEW w, Hears(a, w)
  PROVE  Numbers' /\ InOrder'
  <1>1. Drops(a) /\ UNCHANGED <<server, toServer>> /\ Offer(toClient[a][1])
    BY DEF Hears
  <1>2. \A c \in Client : me'[c].no = me[c].no /\ (Heard(c)' => Heard(c))
    BY HearsPlayers
  <1>3. ~ Yes(toClient[a][1]) /\ toClient[a][1].m # "W"
    BY <1>1 DEF Yes, Offer
  <1>4. Numbers'
    BY <1>1, <1>2, StepNumbers
  <1>5. InOrder'
    BY <1>1, <1>2, <1>3, StepInOrder
  <1> QED
    BY <1>4, <1>5

LEMMA HearsEngaged ==
  ASSUME TypeOK, Lines, Engaged, InOrder, NEW a \in Client, NEW w, Hears(a, w)
  PROVE  Engaged'
  <1> SUFFICES ASSUME NEW c \in Client
               PROVE
        /\ Heard(c)' =>
              /\ \A i \in DOMAIN toServer'[c] :
                    toServer'[c][i].m # "D" /\ toServer'[c][i].no = me'[c].no
                        => toServer'[c][i].m # "W" /\ toServer'[c][i].named
              /\ me'[c].confirm # 0
              /\ me'[c].open /\ ~ me'[c].wnd => me'[c].confirm \in {1, 3}
        /\ me'[c].status = 0 =>
              /\ me'[c].confirm =< 2 /\ ~ me'[c].gold
              /\ me'[c].wnd => me'[c].mine = Nothing /\ me'[c].theirs = Nothing
    BY DEF Engaged
  <1>1. toServer' = toServer
    BY DEF Hears
  <1>2. CASE c # a
    <2>1. me'[c] = me[c]
      BY <1>2, HearsPlayers
    <2> QED
      BY <1>1, <2>1 DEF Engaged, Heard
  <1>3. CASE c = a
    <2>0. Heard(a)
      BY DEF Hears
    <2>1. me'[c] = w /\ me'[c].no = me[c].no /\ Heard(c) /\ me'[c].status # 0
      BY <1>3, <2>0, HearsPlayers DEF Heard
    <2>2. me[c].confirm \in 1..4
      BY <2>1, Typed DEF Engaged
    <2>3. w.confirm # 0 /\ (w.open /\ ~ w.wnd => w.confirm \in {1, 3})
      BY <1>3, <2>1, <2>2 DEF Hears, Engaged
    <2> QED
      BY <1>1, <2>1, <2>3 DEF Engaged
  <1> QED
    BY <1>2, <1>3

LEMMA HearsLockLast ==
  ASSUME TypeOK, Lines, Engaged, InOrder, LockLast, NEW a \in Client, NEW w, Hears(a, w)
  PROVE  LockLast'
  <1> SUFFICES ASSUME NEW k \in Trades, NEW c \in Client
               PROVE
        /\ \A i, j \in DOMAIN toServer'[c] :
              i < j /\ Confirms(toServer'[c][i], k) => ~ GoodOf(toServer'[c][j], k)
        /\ \A i, j \in DOMAIN toClient'[c] :
              i < j /\ Confirms(toClient'[c][i], k) => ~ GoodOf(toClient'[c][j], k)
        /\ Accepts(c, k)' => \A i \in DOMAIN toClient'[c] : ~ GoodOf(toClient'[c][i], k)
        /\ \A d \in Client \ {c} :
              /\ Arrived(d, k)' => \A i \in DOMAIN toServer'[c] : ~ GoodOf(toServer'[c][i], k)
              /\ Locked(c, d, k)' =>
                    /\ k =< me'[c].no
                    /\ me'[c].no = k /\ me'[c].status # 0 => me'[c].confirm \in {2, 4}
    BY DEF LockLast
  <1>1. toServer' = toServer /\ Drops(a)
    BY DEF Hears
  <1>2. ASSUME NEW d \in Client, Accepts(d, k)'
        PROVE  Accepts(d, k) \/ (d = a /\ Confirms(toClient[a][1], k))
    <2>1. Joined(d, k) /\ me'[d].confirm \in {3, 4}
      BY <1>2, HearsPlayers DEF Accepts, Joined
    <2>2. /\ me[d].confirm \in {3, 4} \/ (d = a /\ Confirms(toClient[a][1], me[a].no))
          /\ me[d].no = k
      BY <2>1, HearsPlayers DEF Joined, Confirms
    <2> QED
      BY <2>1, <2>2 DEF Accepts, Confirms
  <1>3. \A d \in Client : Arrived(d, k)' => Arrived(d, k)
    BY <1>1, <1>2, Before, HearsLines DEF Arrived
  <1>4. \A i, j \in DOMAIN toClient'[c] :
           i < j /\ Confirms(toClient'[c][i], k) => ~ GoodOf(toClient'[c][j], k)
    BY <1>1, Before DEF LockLast
  <1>5. ASSUME Accepts(c, k)', NEW i \in DOMAIN toClient'[c], GoodOf(toClient'[c][i], k)
        PROVE  FALSE
    <2>1. CASE Accepts(c, k)
      BY <1>1, <1>5, <2>1, Before DEF LockLast
    <2>2. CASE c = a /\ Confirms(toClient[a][1], k)
      BY <1>5, <2>2, HearsLines DEF LockLast
    <2> QED
      BY <1>2, <1>5, <2>1, <2>2
  <1>6. ASSUME NEW d \in Client \ {c}, Locked(c, d, k)'
        PROVE  /\ k =< me'[c].no
               /\ me'[c].no = k /\ me'[c].status # 0 => me'[c].confirm \in {2, 4}
    <2>1. Locked(c, d, k)
      BY <1>1, <1>3, <1>6 DEF Locked
    <2>2. k =< me[c].no /\ (me[c].no = k /\ me[c].status # 0 => me[c].confirm \in {2, 4})
      BY <2>1 DEF LockLast
    <2> QED
      BY <2>2, HearsPlayers
  <1> QED
    BY <1>1, <1>3, <1>4, <1>5, <1>6 DEF LockLast

LEMMA HearsGoldOnce ==
  ASSUME TypeOK, Lines, Engaged, InOrder, GoldOnce, NEW a \in Client, NEW w, Hears(a, w)
  PROVE  GoldOnce'
  <1> SUFFICES ASSUME NEW k \in Trades, NEW c \in Client
               PROVE
        /\ \A i, j \in DOMAIN toServer'[c] :
              Gold(toServer'[c][i], k) /\ Gold(toServer'[c][j], k) => i = j
        /\ \A i, j \in DOMAIN toClient'[c] :
              Gold(toClient'[c][i], k) /\ Gold(toClient'[c][j], k) => i = j
        /\ HasGold(c, k)' => \A i \in DOMAIN toClient'[c] : ~ Gold(toClient'[c][i], k)
        /\ \A d \in Client \ {c} :
              /\ \A i \in DOMAIN toServer'[c] : Gold(toServer'[c][i], k) =>
                    ~ HasGold(d, k)' /\ \A j \in DOMAIN toClient'[d] : ~ Gold(toClient'[d][j], k)
              /\ Gilt(c, d, k)' =>
                    /\ k =< me'[c].no
                    /\ Joined(c, k)' => Ready(c)' /\ me'[c].mine.gold = 1
    BY DEF GoldOnce
  <1>1. toServer' = toServer /\ Drops(a)
    BY DEF Hears
  <1>2. ASSUME NEW d \in Client, HasGold(d, k)'
        PROVE  HasGold(d, k) \/ (d = a /\ Gold(toClient[a][1], k))
    <2>1. Joined(d, k) /\ me'[d].gold
      BY <1>2, HearsPlayers DEF HasGold, Joined
    <2>2. CASE d # a
      <3>1. me'[d] = me[d]
        BY <2>2, HearsPlayers
      <3> QED
        BY <2>1, <3>1 DEF HasGold
    <2>3. CASE d = a
      <3>1. me'[d] = w /\ toClient[a][1].no = k
        BY <2>1, <2>3, HearsPlayers DEF Joined
      <3>2. toClient[a][1].named = TRUE
        BY OwnTrade, MessageTypes DEF Hears, Drops
      <3>3. w.gold = me[a].gold \/ toClient[a][1].m = "G"
        BY DEF Hears
      <3>4. w.gold /\ Joined(a, k)
        BY <2>1, <2>3, <3>1
      <3> QED
        BY <2>3, <3>1, <3>2, <3>3, <3>4 DEF HasGold, Gold
    <2> QED
      BY <2>2, <2>3
  <1>3. \A i, j \in DOMAIN toClient'[c] :
           Gold(toClient'[c][i], k) /\ Gold(toClient'[c][j], k) => i = j
    BY <1>1, Before DEF GoldOnce
  <1>4. ASSUME HasGold(c, k)', NEW i \in DOMAIN toClient'[c], Gold(toClient'[c][i], k)
        PROVE  FALSE
    <2>1. CASE HasGold(c, k)
      BY <1>1, <1>4, <2>1, Before DEF GoldOnce
    <2>2. CASE c = a /\ Gold(toClient[a][1], k)
      BY <1>4, <2>2, HearsLines DEF GoldOnce
    <2> QED
      BY <1>2, <1>4, <2>1, <2>2
  <1>5. ASSUME NEW d \in Client \ {c}, NEW i \in DOMAIN toServer'[c], Gold(toServer'[c][i], k)
        PROVE  ~ HasGold(d, k)' /\ \A j \in DOMAIN toClient'[d] : ~ Gold(toClient'[d][j], k)
    <2>1. ~ HasGold(d, k) /\ \A j \in DOMAIN toClient[d] : ~ Gold(toClient[d][j], k)
      BY <1>1, <1>5 DEF GoldOnce
    <2>2. ~ HasGold(d, k)'
      BY <1>2, <2>1, HearsLines
    <2> QED
      BY <1>1, <2>1, <2>2, Before
  <1>6. ASSUME NEW d \in Client \ {c}, Gilt(c, d, k)'
        PROVE  /\ k =< me'[c].no
               /\ Joined(c, k)' => Ready(c)' /\ me'[c].mine.gold = 1
    <2>1. Gilt(c, d, k)
      BY <1>1, <1>2, <1>6, Before, HearsLines DEF Gilt
    <2>2. k =< me[c].no /\ (Joined(c, k) => Ready(c) /\ me[c].mine.gold = 1)
      BY <2>1 DEF GoldOnce
    <2> QED
      BY <2>2, HearsPlayers DEF Joined
  <1> QED
    BY <1>1, <1>3, <1>4, <1>5, <1>6 DEF GoldOnce

\* What is heard comes to what is offered.
LEMMA HearsItem ==
  ASSUME TypeOK, Lines, Engaged, InOrder, NEW a \in Client, NEW w, Hears(a, w),
         toClient[a][1].m = "I", me[a].wnd, NEW c \in Client \ {a}, NEW k, k = me[a].no,
         Match(c, a, k), Given(c, k)' = Given(c, k),
         Live(k)' \/ Arrived(a, k)' => Live(k) \/ Arrived(a, k)
  PROVE  Match(c, a, k)'
  <1> DEFINE n == toClient[a][1].n
  <1>1. /\ me'[a].no = k /\ toClient[a][1].no = k /\ (Heard(a)' <=> Heard(a)) /\ me'[a] = w
        /\ Ready(a)' <=> Ready(a)
    BY HearsPlayers
  <1>2. Seen(a, k) = me[a].theirs /\ Seen(a, k)' = w.theirs
    <2>1. Heard(a) /\ Ready(a)
      BY DEF Hears, Ready
    <2> QED
      BY <1>1, <2>1 DEF Seen, Joined
  <1>3. Seen(a, k)'.item = n /\ Seen(a, k)'.gold = Seen(a, k).gold
    BY <1>2 DEF Hears
  <1>4. toServer' = toServer
    BY DEF Hears
  <1>5. Item(toClient[a][1], k) /\ 1 \in DOMAIN toClient[a]
    BY <1>1, HearsLines DEF Item
  <1>6. \A i \in DOMAIN toClient[a] : Item(toClient[a][i], k) =>
           /\ toClient[a][i].n \in Seen(a, k).item + 1 .. Given(c, k).item
           /\ i # 1 => n < toClient[a][i].n
    <2>1. \A i \in DOMAIN toClient[a] : i # 1 => 1 < i
      BY LineTypes
    <2> QED
      BY <1>5, <2>1 DEF Match, Between
  <1>7. /\ Seen(a, k).item \in Nat /\ Given(c, k).item \in Nat
        /\ n \in Seen(a, k).item + 1 .. Given(c, k).item
    BY <1>5, <1>6, SightTypes
  <1>8. \A i \in DOMAIN toClient'[a] :
           i + 1 \in DOMAIN toClient[a] /\ i + 1 # 1 /\ toClient'[a][i] = toClient[a][i + 1]
    BY HearsLines
  <1>9. Between(c, a, k)'
    <2>1. \A i \in DOMAIN toServer[c] : Item(toServer[c][i], k) =>
             toServer[c][i].n \in n + 1 .. Given(c, k).item
      <3>1. \A i \in DOMAIN toServer[c] : Item(toServer[c][i], k) =>
               /\ toServer[c][i].n \in Seen(a, k).item + 1 .. Given(c, k).item
               /\ n < toServer[c][i].n
        BY <1>5 DEF Match, Between
      <3> QED
        BY <1>7, <3>1
    <2>2. \A i \in DOMAIN toClient'[a] : Item(toClient'[a][i], k) =>
             toClient'[a][i].n \in n + 1 .. Given(c, k).item
      BY <1>6, <1>7, <1>8
    <2>3. \A i, j \in DOMAIN toServer[c] :
             i < j /\ Item(toServer[c][i], k) /\ Item(toServer[c][j], k)
                => toServer[c][i].n < toServer[c][j].n
      BY DEF Match, Between
    <2>4. \A i, j \in DOMAIN toClient'[a] :
             i < j /\ Item(toClient'[a][i], k) /\ Item(toClient'[a][j], k)
                => toClient'[a][i].n < toClient'[a][j].n
      <3>1. Drops(a)
        BY DEF Hears
      <3> QED
        BY <3>1, Before DEF Match, Between
    <2>5. \A i \in DOMAIN toClient'[a], j \in DOMAIN toServer[c] :
             Item(toClient'[a][i], k) /\ Item(toServer[c][j], k)
                => toClient'[a][i].n < toServer[c][j].n
      BY <1>8 DEF Match, Between
    <2> QED
      BY <1>1, <1>3, <1>4, <2>1, <2>2, <2>3, <2>4, <2>5 DEF Between
  <1>10. Live(k)' \/ Arrived(a, k)' => AllItems(c, a, k)' /\ AllGold(c, a, k)'
    <2>1. Live(k)' \/ Arrived(a, k)' => AllItems(c, a, k) /\ AllGold(c, a, k)
      BY <1>1 DEF Match
    <2>2. ASSUME AllItems(c, a, k) PROVE AllItems(c, a, k)'
      <3>1. CASE \E i \in DOMAIN toServer[c] :
                    Item(toServer[c][i], k) /\ toServer[c][i].n = Given(c, k).item
        BY <1>1, <1>4, <3>1 DEF AllItems
      <3>2. ASSUME NEW i \in DOMAIN toClient[a], Item(toClient[a][i], k),
                   toClient[a][i].n = Given(c, k).item
            PROVE  AllItems(c, a, k)'
        <4>1. CASE i = 1
          BY <1>1, <1>3, <3>2, <4>1 DEF AllItems
        <4>2. CASE i # 1
          BY <1>1, <3>2, <4>2, HearsLines DEF AllItems
        <4> QED
          BY <4>1, <4>2
      <3> QED
        BY <1>7, <2>2, <3>1, <3>2 DEF AllItems
    <2>3. ASSUME AllGold(c, a, k) PROVE AllGold(c, a, k)'
      <3>1. \A i \in DOMAIN toClient[a] : Gold(toClient[a][i], k) =>
               \E j \in DOMAIN toClient'[a] : Gold(toClient'[a][j], k)
        BY HearsLines DEF Gold
      <3> QED
        BY <1>1, <1>3, <1>4, <2>3, <3>1 DEF AllGold
    <2> QED
      BY <2>1, <2>2, <2>3
  <1>11. Seen(a, k)'.item =< Given(c, k)'.item /\ Seen(a, k)'.gold =< Given(c, k)'.gold
    BY <1>3, <1>7 DEF Match
  <1> QED
    BY <1>1, <1>9, <1>10, <1>11 DEF Match

LEMMA HearsGold ==
  ASSUME TypeOK, Lines, Engaged, InOrder, Numbers, GoldOnce, NEW a \in Client, NEW w, Hears(a, w),
         toClient[a][1].m = "G", me[a].wnd, NEW c \in Client \ {a}, NEW k, k = me[a].no, Settled(c, k),
         Match(c, a, k), Given(c, k)' = Given(c, k),
         Live(k)' \/ Arrived(a, k)' => Live(k) \/ Arrived(a, k)
  PROVE  Match(c, a, k)'
  <1>1. /\ me'[a].no = k /\ toClient[a][1].no = k /\ (Heard(a)' <=> Heard(a)) /\ me'[a] = w
        /\ Ready(a)' <=> Ready(a)
    BY HearsPlayers
  <1>2. Seen(a, k) = me[a].theirs /\ Seen(a, k)' = w.theirs
    <2>1. Heard(a) /\ Ready(a)
      BY DEF Hears, Ready
    <2> QED
      BY <1>1, <2>1 DEF Seen, Joined
  <1>3. Seen(a, k)'.gold = 1 /\ Seen(a, k)'.item = Seen(a, k).item
    BY <1>2 DEF Hears
  <1>4. toServer' = toServer /\ Drops(a)
    BY DEF Hears
  <1>5. Given(c, k).gold = 1
    <2>1. toClient[a][1].named = TRUE /\ 1 \in DOMAIN toClient[a]
      BY OwnTrade, MessageTypes DEF Hears, Drops
    <2>2. Gilt(c, a, k)
      BY <1>1, <2>1 DEF Gilt, Gold
    <2>3. k =< me[c].no /\ (Joined(c, k) => Ready(c) /\ me[c].mine.gold = 1)
      BY <2>2, Typed DEF GoldOnce
    <2>4. ~ Called(c, k)
      BY <2>3, Typed DEF Called, Numbers
    <2> QED
      BY <2>3, <2>4 DEF Settled, Given
  <1>6. \A i \in DOMAIN toClient[a] : Item(toClient[a][i], k) =>
           \E j \in DOMAIN toClient'[a] : toClient'[a][j] = toClient[a][i]
    <2>1. ~ Item(toClient[a][1], k)
      BY DEF Item
    <2> QED
      BY <2>1, HearsLines
  <1>7. Between(c, a, k)'
    <2>1. /\ \A i \in DOMAIN toServer[c] : Item(toServer[c][i], k) =>
                toServer[c][i].n \in Seen(a, k).item + 1 .. Given(c, k).item
          /\ \A i, j \in DOMAIN toServer[c] :
                i < j /\ Item(toServer[c][i], k) /\ Item(toServer[c][j], k)
                   => toServer[c][i].n < toServer[c][j].n
      BY DEF Match, Between
    <2>2. \A i \in DOMAIN toClient'[a] : Item(toClient'[a][i], k) =>
             toClient'[a][i].n \in Seen(a, k).item + 1 .. Given(c, k).item
      BY <1>4, Before DEF Match, Between
    <2>3. \A i, j \in DOMAIN toClient'[a] :
             i < j /\ Item(toClient'[a][i], k) /\ Item(toClient'[a][j], k)
                => toClient'[a][i].n < toClient'[a][j].n
      BY <1>4, Before DEF Match, Between
    <2>4. \A i \in DOMAIN toClient'[a], j \in DOMAIN toServer[c] :
             Item(toClient'[a][i], k) /\ Item(toServer[c][j], k)
                => toClient'[a][i].n < toServer[c][j].n
      BY <1>4, Before DEF Match, Between
    <2> QED
      BY <1>1, <1>3, <1>4, <2>1, <2>2, <2>3, <2>4 DEF Between
  <1>8. Live(k)' \/ Arrived(a, k)' => AllItems(c, a, k)' /\ AllGold(c, a, k)'
    <2>1. Live(k)' \/ Arrived(a, k)' => AllItems(c, a, k)
      BY <1>1 DEF Match
    <2>2. AllItems(c, a, k) => AllItems(c, a, k)'
      BY <1>1, <1>3, <1>4, <1>6 DEF AllItems
    <2>3. AllGold(c, a, k)'
      BY <1>1, <1>3, <1>5 DEF AllGold
    <2> QED
      BY <2>1, <2>2, <2>3
  <1>9. Seen(a, k)'.item =< Given(c, k)'.item /\ Seen(a, k)'.gold =< Given(c, k)'.gold
    BY <1>3, <1>5 DEF Match
  <1> QED
    BY <1>1, <1>7, <1>8, <1>9 DEF Match

LEMMA HearsMatched ==
  ASSUME TypeOK, Lines, Engaged, InOrder, Numbers, GoldOnce, Matched,
         NEW a \in Client, NEW w, Hears(a, w)
  PROVE  Matched'
  <1> SUFFICES ASSUME "early" \notin lapses', NEW k \in Trades, NEW c \in Client,
                      NEW d \in Client \ {c}, Settled(c, k)', Settled(d, k)'
               PROVE  Match(c, d, k)'
    BY DEF Matched
  <1>1. toServer' = toServer /\ server' = server /\ Drops(a) /\ lapses \subseteq lapses'
        /\ Offer(toClient[a][1])
    BY DEF Hears
  <1>2. ASSUME NEW b \in Client
        PROVE  /\ Joined(b, k)' <=> Joined(b, k)
               /\ Given(b, k)' = Given(b, k)
               /\ Settled(b, k)' => Settled(b, k)
               /\ Arrived(b, k)' => Arrived(b, k)
    <2>1. Joined(b, k)' <=> Joined(b, k)
      BY HearsPlayers DEF Joined
    <2>2. Given(b, k)' = Given(b, k)
      BY <2>1, HearsPlayers DEF Given
    <2>3. Called(b, k)' => Called(b, k)
      BY <1>1, Before DEF Called
    <2>4. Settled(b, k)' => Settled(b, k)
      BY <2>1, <2>3, HearsPlayers DEF Settled
    <2>5. Arrived(b, k)' => Arrived(b, k)
      <3>1. ASSUME Accepts(b, k)' PROVE Arrived(b, k)
        <4>1. Joined(b, k) /\ me[b].no = k /\ me'[b].confirm \in {3, 4}
          BY <2>1, <3>1 DEF Accepts, Joined
        <4>2. me[b].confirm \in {3, 4} \/ (b = a /\ Confirms(toClient[a][1], k))
          BY <4>1, HearsPlayers DEF Confirms
        <4> QED
          BY <4>1, <4>2, HearsLines DEF Arrived, Accepts
      <3> QED
        BY <1>1, <3>1, Before DEF Arrived
    <2> QED
      BY <2>1, <2>2, <2>4, <2>5
  <1>3. Match(c, d, k)
    BY <1>1, <1>2 DEF Matched
  <1>4. Live(k)' \/ Arrived(d, k)' => Live(k) \/ Arrived(d, k)
    BY <1>1, <1>2 DEF Live
  <1>5. CASE d = a /\ k = me[a].no /\ toClient[a][1].m = "I"
    <2>1. me[a].wnd
      BY <1>5 DEF Hears
    <2> QED
      BY <1>2, <1>3, <1>4, <1>5, <2>1, HearsItem
  <1>6. CASE d = a /\ k = me[a].no /\ toClient[a][1].m = "G"
    <2>1. me[a].wnd
      BY <1>6 DEF Hears
    <2> QED
      BY <1>2, <1>3, <1>4, <1>6, <2>1, HearsGold
  <1>7. CASE ~ (d = a /\ k = me[a].no /\ toClient[a][1].m \in {"G", "I"})
    <2>1. Seen(d, k)' = Seen(d, k)
      <3>1. me'[d].theirs = me[d].theirs \/ ~ Joined(d, k)
        BY <1>7, HearsPlayers DEF Hears, Joined
      <3> QED
        BY <1>2, <3>1, HearsPlayers DEF Seen
    <2>2. Trails(toServer, toServer', c, k) /\ Trails(toClient, toClient', d, k)
      BY <1>1, Before DEF Trails
    <2>3. Keeps(toServer, toServer', c, k) /\ Keeps(toClient, toClient', d, k)
      <3>1. ~ (d = a /\ GoodOf(toClient[a][1], k))
        BY <1>7, HearsPlayers DEF GoodOf
      <3> QED
        BY <1>1, <3>1, HearsLines DEF Keeps
    <2> QED
      BY <1>2, <1>3, <1>4, <2>1, <2>2, <2>3, SameMatch
  <1> QED
    BY <1>5, <1>6, <1>7

LEMMA HearsKeeps ==
  ASSUME TypeOK, Lines, Sound, NEW a \in Client, NEW w, Hears(a, w)
  PROVE  Sound'
  BY HearsOrder, HearsEngaged, HearsLockLast, HearsGoldOnce, HearsMatched DEF Sound

-----------------------------------------------------------------------------
(* The server: it reads one message and adds to the lines of the players.  *)

Reading(b) ==
    /\ toServer[b] # <<>> /\ toServer' = [toServer EXCEPT ![b] = Tail(@)]
    /\ UNCHANGED me

LEMMA ReadLines ==
  ASSUME Lines, NEW b \in Client, Reading(b)
  PROVE  /\ toServer' \in [Client -> Seq(ToServer)]
         /\ \A c \in Client \ {b} : toServer'[c] = toServer[c]
         /\ 1 \in DOMAIN toServer[b] /\ Head(toServer[b]) = toServer[b][1]
         /\ toServer[b][1] \in ToServer
         /\ \A i \in DOMAIN toServer'[b] :
               /\ i + 1 \in DOMAIN toServer[b] /\ toServer'[b][i] = toServer[b][i + 1]
               /\ 1 < i + 1 /\ 1 # i + 1
         /\ \A i \in DOMAIN toServer[b] :
               i # 1 => i - 1 \in DOMAIN toServer'[b] /\ toServer'[b][i - 1] = toServer[b][i]
  <1>1. toServer[b] \in Seq(ToServer) /\ toServer'[b] = Tail(toServer[b]) /\ toServer[b] # <<>>
    BY DEF Lines, Reading
  <1>2. /\ Len(toServer[b]) \in Nat /\ Len(toServer[b]) >= 1
        /\ DOMAIN toServer[b] = 1..Len(toServer[b])
        /\ DOMAIN toServer'[b] = 1..Len(toServer[b]) - 1
        /\ \A i \in 1..Len(toServer[b]) - 1 : toServer'[b][i] = toServer[b][i + 1]
        /\ Head(toServer[b]) = toServer[b][1]
        /\ Tail(toServer[b]) \in Seq(ToServer)
    BY <1>1
  <1>3. \A i \in DOMAIN toServer[b] :
           i # 1 => i - 1 \in DOMAIN toServer'[b] /\ toServer'[b][i - 1] = toServer[b][i]
    <2>1. \A i \in DOMAIN toServer[b] :
             i # 1 => i - 1 \in 1..Len(toServer[b]) - 1 /\ (i - 1) + 1 = i
      BY <1>2
    <2> QED
      BY <1>2, <2>1
  <1>4. \A i \in DOMAIN toServer'[b] : i + 1 \in DOMAIN toServer[b] /\ 1 < i + 1 /\ 1 # i + 1
    BY <1>2
  <1>5. \A i \in DOMAIN toServer'[b] : toServer'[b][i] = toServer[b][i + 1]
    BY <1>2
  <1>6. 1 \in DOMAIN toServer[b] /\ toServer[b][1] \in ToServer
    BY <1>1, <1>2
  <1>7. \A c \in Client \ {b} : toServer'[c] = toServer[c]
    BY DEF Lines, Reading
  <1>8. toServer' \in [Client -> Seq(ToServer)]
    BY <1>2 DEF Lines, Reading
  <1> QED
    BY <1>2, <1>3, <1>4, <1>5, <1>6, <1>7, <1>8

LEMMA ReadBefore ==
  ASSUME Lines, NEW b \in Client, Reading(b), NEW c \in Client,
         NEW i \in DOMAIN toServer'[c], NEW j \in DOMAIN toServer'[c]
  PROVE  \E p, q \in DOMAIN toServer[c] :
            /\ toServer'[c][i] = toServer[c][p] /\ toServer'[c][j] = toServer[c][q]
            /\ (i < j <=> p < q) /\ (i = j <=> p = q)
  <1>1. CASE c # b
    BY <1>1, ReadLines
  <1>2. CASE c = b
    <2>1. toServer'[b] \in Seq(ToServer)
      BY ReadLines
    <2>2. (i < j <=> i + 1 < j + 1) /\ (i = j <=> i + 1 = j + 1)
      BY <1>2, <2>1
    <2>3. /\ i + 1 \in DOMAIN toServer[c] /\ toServer'[c][i] = toServer[c][i + 1]
          /\ j + 1 \in DOMAIN toServer[c] /\ toServer'[c][j] = toServer[c][j + 1]
      BY <1>2, ReadLines
    <2> QED
      BY <2>2, <2>3
  <1> QED
    BY <1>1, <1>2

LEMMA AddLines ==
  ASSUME Lines, NEW c \in Client, NEW x \in ToClient, toClient'[c] = Append(toClient[c], x)
  PROVE  /\ toClient'[c] \in Seq(ToClient)
         /\ Len(toClient'[c]) = Len(toClient[c]) + 1 /\ Len(toClient[c]) \in Nat
         /\ DOMAIN toClient[c] = 1..Len(toClient[c])
         /\ DOMAIN toClient'[c] = 1..Len(toClient[c]) + 1
         /\ toClient'[c][Len(toClient[c]) + 1] = x
         /\ \A i \in 1..Len(toClient[c]) : toClient'[c][i] = toClient[c][i]
         /\ \A i \in DOMAIN toClient[c] :
               i \in DOMAIN toClient'[c] /\ toClient'[c][i] = toClient[c][i]
         /\ \A i \in DOMAIN toClient'[c] : \/ i \in DOMAIN toClient[c]
                                           \/ i = Len(toClient[c]) + 1
  <1>1. toClient[c] \in Seq(ToClient)
    BY DEF Lines
  <1>2. /\ toClient'[c] \in Seq(ToClient)
        /\ Len(toClient'[c]) = Len(toClient[c]) + 1 /\ Len(toClient[c]) \in Nat
        /\ DOMAIN toClient[c] = 1..Len(toClient[c])
        /\ DOMAIN toClient'[c] = 1..Len(toClient[c]) + 1
        /\ toClient'[c][Len(toClient[c]) + 1] = x
        /\ \A i \in 1..Len(toClient[c]) : toClient'[c][i] = toClient[c][i]
    BY <1>1
  <1>3. \A i \in 1..Len(toClient[c]) + 1 :
           i \in 1..Len(toClient[c]) \/ i = Len(toClient[c]) + 1
    BY <1>2
  <1>4. \A i \in 1..Len(toClient[c]) : i \in 1..Len(toClient[c]) + 1
    BY <1>2
  <1> QED
    BY <1>2, <1>3, <1>4

\* What a line gets: nothing, or one message.
Adds(c, M) ==
    \/ toClient'[c] = toClient[c]
    \/ \E x \in M : toClient'[c] = Append(toClient[c], x)

LEMMA ServerReads ==
  ASSUME Lines, NEW b \in Client, Server(b)
  PROVE  Reading(b) /\ UNCHANGED moves
  BY DEF Server, Begins, Refuses, PassesOn, Agrees, Cancels, Ignores, Reads, Reading

LEMMA AgreesCases ==
  ASSUME NEW b \in Client, Agrees(b)
  PROVE  /\ Head(toServer[b]).m = "K"
         /\ \/ /\ server' = [server EXCEPT !.trading = FALSE, !.ok = {}]
               /\ ToBoth([m |-> "W"])
            \/ /\ server' = [server EXCEPT !.ok = server.ok \cup {b}]
               /\ ToOther(b, [m |-> "A"])
  BY DEF Agrees, Reads

LEMMA ServerTypes ==
  ASSUME TypeOK, Lines, NEW b \in Client, Server(b)
  PROVE  TypeOK' /\ Lines'
  <1>1. Reading(b) /\ UNCHANGED moves /\ me' = me
    BY ServerReads DEF Reading
  <1>2. toServer' \in [Client -> Seq(ToServer)]
    BY <1>1, ReadLines
  <1>3. lapses' \subseteq Lapses
    BY DEF Server, Begins, Refuses, PassesOn, Agrees, Cancels, Ignores, Crossed, TypeOK, Lapses
  <1>4. server' \in Servers
    <2>1. server \in Servers /\ MaxTrades \in Nat
      BY DEF TypeOK
    <2>2. CASE Begins(b)
      <3>1. server.no + 1 \in 0..MaxTrades
        BY <2>1, <2>2 DEF Begins, Servers
      <3> QED
        BY <2>2, <3>1 DEF Begins, Servers
    <2>3. CASE Agrees(b)
      <3>1. CASE server' = [server EXCEPT !.trading = FALSE, !.ok = {}]
        BY <2>1, <3>1 DEF Servers
      <3>2. CASE server' = [server EXCEPT !.ok = server.ok \cup {b}]
        <4>1. server.ok \cup {b} \in SUBSET Client
          BY <2>1 DEF Servers
        <4> QED
          BY <2>1, <3>2, <4>1 DEF Servers
      <3> QED
        BY <2>3, <3>1, <3>2, AgreesCases
    <2>4. CASE Cancels(b)
      BY <2>1, <2>4 DEF Cancels, Servers
    <2>5. CASE Refuses(b) \/ PassesOn(b) \/ Ignores(b)
      BY <2>1, <2>5 DEF Refuses, PassesOn, Ignores
    <2> QED
      BY <2>2, <2>3, <2>4, <2>5 DEF Server
  <1>5. toClient' \in [Client -> Seq(ToClient)]
    <2>1. toClient \in [Client -> Seq(ToClient)] /\ Other(b) \in Client
      BY Partner DEF Lines
    <2>2. \A x \in ToClient, c \in Client : Append(toClient[c], x) \in Seq(ToClient)
      BY <2>1
    <2>3. /\ [m |-> "C", yes |-> FALSE] \in ToClient /\ [m |-> "W"] \in ToClient
          /\ [m |-> "A"] \in ToClient
          /\ server.no + 1 \in Trades => [m |-> "C", yes |-> TRUE, no |-> server.no + 1] \in ToClient
      BY DEF ToClient
    <2>4. CASE Begins(b)
      <3>1. server.no + 1 \in Trades
        BY <2>4 DEF Begins, TypeOK, Servers, Trades
      <3> QED
        BY <2>1, <2>2, <2>3, <2>4, <3>1 DEF Begins, ToBoth
    <2>5. CASE Refuses(b)
      BY <2>1, <2>2, <2>3, <2>5 DEF Refuses
    <2>6. CASE PassesOn(b)
      <3>1. Head(toServer[b]) \in ToServer /\ Head(toServer[b]).m \in {"G", "I", "Confirm"}
            /\ Head(toServer[b]).named
        BY <1>1, <2>6, ReadLines DEF PassesOn, Reads, InTrade
      <3>2. Head(toServer[b]) \in ToClient
        BY <3>1 DEF ToServer, ToClient
      <3> QED
        BY <2>1, <2>2, <2>6, <3>2 DEF PassesOn, ToOther
    <2>7. CASE Agrees(b)
      <3>1. CASE ToBoth([m |-> "W"])
        BY <2>1, <2>2, <2>3, <3>1 DEF ToBoth
      <3>2. CASE ToOther(b, [m |-> "A"])
        BY <2>1, <2>2, <2>3, <3>2 DEF ToOther
      <3> QED
        BY <2>7, <3>1, <3>2, AgreesCases
    <2>8. CASE Cancels(b)
      BY <2>1, <2>2, <2>3, <2>8 DEF Cancels, ToOther
    <2>9. CASE Ignores(b)
      BY <2>1, <2>9 DEF Ignores
    <2> QED
      BY <2>4, <2>5, <2>6, <2>7, <2>8, <2>9 DEF Server
  <1> QED
    BY <1>1, <1>2, <1>3, <1>4, <1>5 DEF TypeOK, Lines

LEMMA ServerEngaged ==
  ASSUME Lines, Engaged, NEW b \in Client, Reading(b)
  PROVE  Engaged'
  <1>1. me' = me
    BY DEF Reading
  <1>2. \A c \in Client : \A i \in DOMAIN toServer'[c] :
           \E p \in DOMAIN toServer[c] : toServer'[c][i] = toServer[c][p]
    BY ReadBefore
  <1> QED
    BY <1>1, <1>2 DEF Engaged, Heard

\* Reading takes a message away, and leaves the others in their order.
LEMMA ReadOlder ==
  ASSUME Lines, NEW b \in Client, Reading(b)
  PROVE  /\ Older(toServer, toServer')
         /\ \A c \in Client : \A i \in DOMAIN toServer'[c] :
               \E p \in DOMAIN toServer[c] : toServer'[c][i] = toServer[c][p]
  BY ReadBefore DEF Older

LEMMA AddOlder ==
  ASSUME Lines, NEW M, M \subseteq ToClient, \A x \in M : ~ Offer(x),
         \A c \in Client : Adds(c, M)
  PROVE  /\ Older(toClient, toClient')
         /\ \A c \in Client : \A i \in DOMAIN toClient[c] :
               i \in DOMAIN toClient'[c] /\ toClient'[c][i] = toClient[c][i]
  <1>1. ASSUME NEW c \in Client
        PROVE  /\ \A i \in DOMAIN toClient'[c] : Offer(toClient'[c][i]) =>
                     i \in DOMAIN toClient[c] /\ toClient'[c][i] = toClient[c][i]
               /\ \A i \in DOMAIN toClient[c] :
                     i \in DOMAIN toClient'[c] /\ toClient'[c][i] = toClient[c][i]
    <2>1. CASE toClient'[c] = toClient[c]
      BY <2>1
    <2>2. ASSUME NEW x \in M, toClient'[c] = Append(toClient[c], x)
          PROVE  /\ \A i \in DOMAIN toClient'[c] : Offer(toClient'[c][i]) =>
                       i \in DOMAIN toClient[c] /\ toClient'[c][i] = toClient[c][i]
                 /\ \A i \in DOMAIN toClient[c] :
                       i \in DOMAIN toClient'[c] /\ toClient'[c][i] = toClient[c][i]
      <3>1. /\ \A i \in DOMAIN toClient[c] :
                  i \in DOMAIN toClient'[c] /\ toClient'[c][i] = toClient[c][i]
            /\ \A i \in DOMAIN toClient'[c] :
                  i \in DOMAIN toClient[c] \/ toClient'[c][i] = x
        BY <2>2, AddLines
      <3> QED
        BY <2>2, <3>1
    <2> QED
      BY <2>1, <2>2 DEF Adds
  <1> QED
    BY <1>1 DEF Older

\* The players themselves take no part in it.
LEMMA ReadStill ==
  ASSUME TypeOK, Lines, NEW b \in Client, Reading(b), Older(toClient, toClient')
  PROVE  Still
  <1>1. me' = me /\ Older(toServer, toServer')
    BY ReadOlder DEF Reading
  <1>2. \A c \in Client : me[c].no \in Nat /\ me[c].no =< me[c].no
    BY Typed
  <1> QED
    BY <1>1, <1>2 DEF Still, Heard, Ready

\* A message read that offers nothing, or nothing that is waited for.
LEMMA ReadMatched ==
  ASSUME TypeOK, Lines, Numbers, Engaged, LockLast, Matched, NEW b \in Client, Reading(b),
         NEW M, M \subseteq ToClient, \A x \in M : ~ Offer(x) /\ ~ Yes(x),
         \A c \in Client : Adds(c, M),
         lapses \subseteq lapses', \A k \in Trades : Live(k)' => Live(k),
         toServer[b][1].m \in {"G", "I"} => ~ server.trading \/ ~ toServer[b][1].named
  PROVE  Matched'
  <1>1. me' = me
    BY DEF Reading
  <1>2. /\ Older(toClient, toClient')
        /\ \A c \in Client : \A i \in DOMAIN toClient[c] :
              i \in DOMAIN toClient'[c] /\ toClient'[c][i] = toClient[c][i]
    BY AddOlder
  <1>3. Still
    BY <1>2, ReadStill
  <1>4. ASSUME NEW c \in Client, NEW k \in Trades, Called(c, k)'
        PROVE  Called(c, k)
    <2>1. CASE toClient'[c] = toClient[c]
      BY <1>4, <2>1 DEF Called
    <2>2. ASSUME NEW x \in M, toClient'[c] = Append(toClient[c], x)
          PROVE  Called(c, k)
      <3>1. \A i \in DOMAIN toClient'[c] :
               \/ i \in DOMAIN toClient[c] /\ toClient'[c][i] = toClient[c][i]
               \/ toClient'[c][i] = x
        BY <2>2, AddLines
      <3> QED
        BY <1>4, <2>2, <3>1 DEF Called
    <2> QED
      BY <2>1, <2>2 DEF Adds
  <1>5. \A c \in Client, k \in Trades : Settled(c, k)' =>
            Settled(c, k) /\ Given(c, k)' = Given(c, k) /\ Seen(c, k)' = Seen(c, k)
    BY <1>1, <1>4 DEF Settled, Given, Seen, Joined, Heard, Ready
  <1>6. ASSUME NEW k \in Trades, NEW c \in Client, NEW d \in Client \ {c},
               Settled(c, k)', Live(k)' \/ Arrived(d, k)'
        PROVE  Keeps(toServer, toServer', c, k) /\ Keeps(toClient, toClient', d, k)
    <2>1. Keeps(toClient, toClient', d, k)
      BY <1>2 DEF Keeps
    <2>2. CASE c # b
      BY <2>1, <2>2, ReadLines DEF Keeps
    <2>3. CASE c = b
      <3>1. ASSUME GoodOf(toServer[b][1], k) PROVE FALSE
        <4>1. 1 \in DOMAIN toServer[b]
          BY ReadLines
        <4>2. toServer[b][1].m # "D" /\ toServer[b][1].no = k
              /\ (~ server.trading \/ ~ toServer[b][1].named)
          BY <3>1 DEF GoodOf
        <4>3. ~ Arrived(d, k)
          BY <2>3, <3>1, <4>1 DEF LockLast
        <4>4. Live(k)
          BY <1>3, <1>6, <4>3, StillHeard
        <4>5. ~ toServer[b][1].named
          BY <4>2, <4>4 DEF Live
        <4>6. k =< me[b].no
          BY <4>1, <4>2 DEF Numbers
        <4>7. ~ Called(b, k)
          BY <4>6, Typed DEF Called, Numbers
        <4>8. Joined(b, k)
          BY <1>5, <1>6, <2>3, <4>7 DEF Settled
        <4> QED
          BY <4>1, <4>2, <4>5, <4>8 DEF Engaged, Joined
      <3>2. \A i \in DOMAIN toServer[b] : i # 1 =>
               i - 1 \in DOMAIN toServer'[b] /\ toServer'[b][i - 1] = toServer[b][i]
        BY ReadLines
      <3> QED
        BY <2>1, <2>3, <3>1, <3>2 DEF Keeps
    <2> QED
      BY <2>2, <2>3
  <1> QED
    BY <1>3, <1>5, <1>6, StillMatched

LEMMA ReadNumbers ==
  ASSUME TypeOK, Lines, Numbers, NEW b \in Client, Reading(b), server'.no = server.no,
         NEW M, M \subseteq ToClient, \A x \in M : ~ Yes(x),
         \A c \in Client : Adds(c, M),
         \A c \in Client, x \in M : toClient'[c] = Append(toClient[c], x) /\ Offer(x) =>
            \A d \in Client \ {c} : x.no =< me[d].no
  PROVE  Numbers'
  <1> SUFFICES ASSUME NEW c \in Client
               PROVE
        /\ me'[c].no =< server'.no
        /\ \A i \in DOMAIN toServer'[c] : toServer'[c][i].m # "D" => toServer'[c][i].no =< me'[c].no
        /\ \A i \in DOMAIN toClient'[c] :
              /\ Yes(toClient'[c][i]) => toClient'[c][i].no \in me'[c].no + 1 .. server'.no
              /\ Offer(toClient'[c][i]) =>
                    \A d \in Client \ {c} : toClient'[c][i].no =< me'[d].no
        /\ \A i, j \in DOMAIN toClient'[c] :
              /\ i < j /\ Yes(toClient'[c][j]) /\ (Yes(toClient'[c][i]) \/ Offer(toClient'[c][i]))
                    => toClient'[c][i].no < toClient'[c][j].no
    BY DEF Numbers
  <1>1. me' = me
    BY DEF Reading
  <1>2. me'[c].no =< server'.no
    BY <1>1 DEF Numbers
  <1>3. \A i \in DOMAIN toServer'[c] : toServer'[c][i].m # "D" => toServer'[c][i].no =< me'[c].no
    <2>1. \A i \in DOMAIN toServer'[c] :
             \E p \in DOMAIN toServer[c] : toServer'[c][i] = toServer[c][p]
      BY ReadOlder
    <2> QED
      BY <1>1, <2>1 DEF Numbers
  <1>4. CASE toClient'[c] = toClient[c]
    BY <1>1, <1>2, <1>3, <1>4 DEF Numbers
  <1>5. ASSUME NEW x \in M, toClient'[c] = Append(toClient[c], x)
        PROVE  /\ \A i \in DOMAIN toClient'[c] :
                     /\ Yes(toClient'[c][i]) => toClient'[c][i].no \in me'[c].no + 1 .. server'.no
                     /\ Offer(toClient'[c][i]) =>
                           \A d \in Client \ {c} : toClient'[c][i].no =< me'[d].no
               /\ \A i, j \in DOMAIN toClient'[c] :
                     i < j /\ Yes(toClient'[c][j])
                           /\ (Yes(toClient'[c][i]) \/ Offer(toClient'[c][i]))
                        => toClient'[c][i].no < toClient'[c][j].no
    <2>1. \A i \in DOMAIN toClient'[c] :
             \/ i \in DOMAIN toClient[c] /\ toClient'[c][i] = toClient[c][i]
             \/ i = Len(toClient[c]) + 1 /\ toClient'[c][i] = x
      BY <1>5, AddLines
    <2>2. \A i \in DOMAIN toClient'[c] :
             /\ Yes(toClient'[c][i]) => toClient'[c][i].no \in me'[c].no + 1 .. server'.no
             /\ Offer(toClient'[c][i]) =>
                   \A d \in Client \ {c} : toClient'[c][i].no =< me'[d].no
      BY <1>1, <1>5, <2>1 DEF Numbers
    <2>3. ASSUME NEW i \in DOMAIN toClient'[c], NEW j \in DOMAIN toClient'[c], i < j,
                 Yes(toClient'[c][j]), Yes(toClient'[c][i]) \/ Offer(toClient'[c][i])
          PROVE  toClient'[c][i].no < toClient'[c][j].no
      <3>1. j \in DOMAIN toClient[c] /\ toClient'[c][j] = toClient[c][j]
        BY <1>5, <2>1, <2>3
      <3>2. i \in DOMAIN toClient[c] /\ toClient'[c][i] = toClient[c][i]
        <4>1. i # Len(toClient[c]) + 1
          BY <2>3, <3>1, <1>5, AddLines
        <4> QED
          BY <2>1, <4>1
      <3> QED
        BY <2>3, <3>1, <3>2 DEF Numbers
    <2> QED
      BY <2>2, <2>3
  <1> QED
    BY <1>2, <1>3, <1>4, <1>5 DEF Adds

\* A message read from the line does not disturb the order of the others: what
\* is added is an offer of the trade under way, or its end to whoever is in it.
LEMMA ReadInOrder ==
  ASSUME TypeOK, Lines, Numbers, InOrder, NEW b \in Client, Reading(b), server'.no = server.no,
         NEW M, M \subseteq ToClient, \A x \in M : ~ Yes(x) /\ (Offer(x) => x.no = server.no),
         \A c \in Client : Adds(c, M),
         \A c \in Client : \/ server'.trading = server.trading
                           \/ \E x \in M : x.m = "W" /\ toClient'[c] = Append(toClient[c], x)
                           \/ \A i \in 0..Len(toClient[c]) :
                                 Begun(c, i) => No(c, i) # server.no
  PROVE  InOrder'
  <1> DEFINE Next1(c, i, j) == \E l \in i + 1 .. j : Yes(toClient'[c][l])
             Begun1(c, i) == IF i = 0 THEN Heard(c) ELSE Yes(toClient'[c][i])
             No1(c, i) == IF i = 0 THEN me[c].no ELSE toClient'[c][i].no
             Live1(k) == server'.trading /\ server.no = k
  <1>1. me' = me /\ (\A c : Heard(c)' <=> Heard(c))
    BY DEF Reading, Heard
  <1> SUFFICES ASSUME NEW c \in Client, NEW i \in 0 .. Len(toClient'[c]), Begun1(c, i)
               PROVE
        /\ No1(c, i) < server.no => Next1(c, i, Len(toClient'[c]))
        /\ \A j \in i + 1 .. Len(toClient'[c]) : Offer(toClient'[c][j]) =>
              toClient'[c][j].no = No1(c, i) \/ Next1(c, i, j)
        /\ \/ Live1(No1(c, i))
           \/ \E j \in i + 1 .. Len(toClient'[c]) :
                 toClient'[c][j].m = "W" /\ ~ Next1(c, i, j)
    BY <1>1 DEF InOrder, Begun, No, Another, Live
  <1> DEFINE N == Len(toClient[c])
  <1>2. N \in Nat /\ DOMAIN toClient[c] = 1..N
    BY LineTypes
  <1>3. CASE toClient'[c] = toClient[c]
    <2>1. /\ No(c, i) < server.no => Another(c, i, N)
          /\ \A j \in i + 1 .. N : Offer(toClient[c][j]) =>
                toClient[c][j].no = No(c, i) \/ Another(c, i, j)
          /\ \/ Live(No(c, i))
             \/ \E j \in i + 1 .. N : toClient[c][j].m = "W" /\ ~ Another(c, i, j)
      BY <1>3 DEF InOrder, Begun
    <2>2. server'.trading = server.trading \/ ~ Live(No(c, i))
      <3>1. \A x \in M : toClient'[c] # Append(toClient[c], x)
        <4>1. ASSUME NEW x \in M, toClient'[c] = Append(toClient[c], x) PROVE FALSE
          <5>1. Len(toClient'[c]) = Len(toClient[c]) + 1
            BY <4>1, AddLines
          <5> QED
            BY <1>2, <1>3, <5>1
        <4> QED
          BY <4>1
      <3> QED
        BY <1>3, <3>1 DEF Live, Begun
    <2> QED
      BY <1>3, <2>1, <2>2 DEF Another, Live, No
  <1>4. ASSUME NEW x \in M, toClient'[c] = Append(toClient[c], x)
        PROVE
        /\ No1(c, i) < server.no => Next1(c, i, Len(toClient'[c]))
        /\ \A j \in i + 1 .. Len(toClient'[c]) : Offer(toClient'[c][j]) =>
              toClient'[c][j].no = No1(c, i) \/ Next1(c, i, j)
        /\ \/ Live1(No1(c, i))
           \/ \E j \in i + 1 .. Len(toClient'[c]) :
                 toClient'[c][j].m = "W" /\ ~ Next1(c, i, j)
    <2>1. /\ Len(toClient'[c]) = N + 1 /\ toClient'[c][N + 1] = x
          /\ \A l \in 1..N : toClient'[c][l] = toClient[c][l]
      BY <1>4, AddLines
    <2>2. i \in 0..N /\ Begun(c, i) /\ No1(c, i) = No(c, i)
      <3>1. i # N + 1
        BY <1>2, <2>1
      <3>2. i \in 0..N /\ (i # 0 => i \in 1..N)
        BY <1>2, <2>1, <3>1
      <3> QED
        BY <2>1, <3>2 DEF Begun, No
    <2>3. \A j \in 0..N : Next1(c, i, j) <=> Another(c, i, j)
      <3>1. \A j \in 0..N : \A l \in i + 1 .. j : l \in 1..N
        BY <1>2, <2>2
      <3> QED
        BY <2>1, <3>1 DEF Another
    <2>4. Next1(c, i, N + 1) <=> Another(c, i, N)
      <3>1. \A l \in i + 1 .. N + 1 : l \in i + 1 .. N \/ l = N + 1
        BY <1>2, <2>2
      <3>2. \A l \in i + 1 .. N : l \in i + 1 .. N + 1 /\ l \in 1..N
        BY <1>2, <2>2
      <3> QED
        BY <2>1, <3>1, <3>2 DEF Another
    <2>5. No(c, i) \in Nat /\ server.no \in Nat /\ No(c, i) =< server.no
      <3>1. CASE i = 0
        BY <3>1, Typed DEF No, Numbers
      <3>2. CASE i # 0
        <4>1. i \in DOMAIN toClient[c] /\ Yes(toClient[c][i])
          BY <1>2, <2>2, <3>2 DEF Begun
        <4>2. toClient[c][i].no \in me[c].no + 1 .. server.no
          BY <4>1 DEF Numbers
        <4> QED
          BY <3>2, <4>2, Typed DEF No
      <3> QED
        BY <3>1, <3>2
    <2> HIDE DEF Next1, Begun1, No1, N
    <2>6. /\ No(c, i) < server.no => Another(c, i, N)
          /\ \A j \in i + 1 .. N : Offer(toClient[c][j]) =>
                toClient[c][j].no = No(c, i) \/ Another(c, i, j)
          /\ \/ Live(No(c, i))
             \/ \E j \in i + 1 .. N : toClient[c][j].m = "W" /\ ~ Another(c, i, j)
      BY <2>2 DEF InOrder, N
    <2>7. ASSUME NEW j \in i + 1 .. Len(toClient'[c]), Offer(toClient'[c][j])
          PROVE  toClient'[c][j].no = No1(c, i) \/ Next1(c, i, j)
      <3>1. CASE j = N + 1
        BY <2>1, <2>2, <2>4, <2>5, <2>6, <2>7, <3>1
      <3>2. CASE j # N + 1
        <4>1. j \in i + 1 .. N /\ j \in 1..N /\ j \in 0..N
          BY <1>2, <2>1, <2>2, <3>2
        <4> QED
          BY <2>1, <2>2, <2>3, <2>6, <2>7, <4>1
      <3> QED
        BY <3>1, <3>2
    <2>8. ASSUME NEW j \in i + 1 .. N, toClient[c][j].m = "W", ~ Another(c, i, j)
          PROVE  \E l \in i + 1 .. Len(toClient'[c]) :
                    toClient'[c][l].m = "W" /\ ~ Next1(c, i, l)
      <3>1. j \in i + 1 .. N + 1 /\ j \in 1..N /\ j \in 0..N
        BY <1>2, <2>2
      <3> QED
        BY <2>1, <2>3, <2>8, <3>1
    <2>9. ASSUME Live(No(c, i)), server'.trading # server.trading
          PROVE  \E l \in i + 1 .. Len(toClient'[c]) :
                    toClient'[c][l].m = "W" /\ ~ Next1(c, i, l)
      <3>1. No(c, i) = server.no
        BY <2>9 DEF Live
      <3>2. toClient'[c][N + 1].m = "W"
        <4>1. PICK y \in M : y.m = "W" /\ toClient'[c] = Append(toClient[c], y)
          BY <2>2, <2>9, <3>1 DEF N
        <4>2. toClient'[c][Len(toClient[c]) + 1] = y
          BY <4>1, AddLines
        <4> QED
          BY <4>1, <4>2 DEF N
      <3>3. ~ Another(c, i, N)
        <4>1. ASSUME NEW l \in i + 1 .. N, Yes(toClient[c][l]) PROVE FALSE
          <5>1. l \in DOMAIN toClient[c] /\ i < l
            BY <1>2, <2>2
          <5>2. toClient[c][l].no \in me[c].no + 1 .. server.no
            BY <4>1, <5>1 DEF Numbers
          <5>3. CASE i = 0
            BY <3>1, <5>2, <5>3, Typed DEF No
          <5>4. CASE i # 0
            <6>1. i \in DOMAIN toClient[c] /\ Yes(toClient[c][i]) /\ toClient[c][i].no = server.no
              BY <1>2, <2>2, <3>1, <5>4 DEF Begun, No
            <6>2. toClient[c][i].no < toClient[c][l].no
              BY <4>1, <5>1, <6>1 DEF Numbers
            <6> QED
              BY <2>5, <5>2, <6>1, <6>2, Typed
          <5> QED
            BY <5>3, <5>4
        <4> QED
          BY <4>1 DEF Another
      <3>4. N + 1 \in i + 1 .. N + 1
        BY <1>2, <2>2
      <3> QED
        BY <2>1, <2>4, <3>2, <3>3, <3>4
    <2>10. No1(c, i) < server.no => Next1(c, i, Len(toClient'[c]))
      BY <2>1, <2>2, <2>4, <2>6
    <2>11. \/ Live1(No1(c, i))
           \/ \E j \in i + 1 .. Len(toClient'[c]) :
                 toClient'[c][j].m = "W" /\ ~ Next1(c, i, j)
      BY <2>2, <2>6, <2>8, <2>9 DEF Live
    <2> QED
      BY <2>7, <2>10, <2>11
  <1> QED
    BY <1>3, <1>4 DEF Adds

LEMMA ReadKeeps ==
  ASSUME TypeOK, Lines, Sound, NEW b \in Client, Reading(b), server'.no = server.no,
         NEW M, M \subseteq ToClient, \A x \in M : ~ Offer(x) /\ ~ Yes(x),
         \A c \in Client : Adds(c, M),
         lapses \subseteq lapses', server'.trading => server.trading,
         \A c \in Client : \/ server'.trading = server.trading
                           \/ \E x \in M : x.m = "W" /\ toClient'[c] = Append(toClient[c], x)
                           \/ \A i \in 0..Len(toClient[c]) :
                                 Begun(c, i) => No(c, i) # server.no,
         toServer[b][1].m \in {"G", "I"} => ~ server.trading \/ ~ toServer[b][1].named
  PROVE  Sound'
  <1>1. Numbers /\ InOrder /\ Engaged /\ LockLast /\ GoldOnce /\ Matched
    BY DEF Sound
  <1>2. Numbers'
    BY <1>1, ReadNumbers
  <1>3. InOrder'
    BY <1>1, ReadInOrder
  <1>4. Engaged'
    BY <1>1, ServerEngaged
  <1>5. Still
    BY AddOlder, ReadStill
  <1>6. LockLast' /\ GoldOnce'
    BY <1>1, <1>5, StillLockLast, StillGoldOnce
  <1>7. Matched'
    <2>1. \A k \in Trades : Live(k)' => Live(k)
      BY DEF Live
    <2> QED
      BY <1>1, <2>1, ReadMatched
  <1> QED
    BY <1>2, <1>3, <1>4, <1>6, <1>7 DEF Sound

\* Who cancels a trade is out of it.
LEMMA CancelerOut ==
  ASSUME TypeOK, Lines, Numbers, Engaged, NEW b \in Client, Reading(b),
         toServer[b][1].m = "W", toServer[b][1].no = server.no,
         NEW i \in 0..Len(toClient[b]), Begun(b, i)
  PROVE  No(b, i) # server.no
  <1>1. 1 \in DOMAIN toServer[b]
    BY ReadLines
  <1>2. server.no =< me[b].no
    BY <1>1 DEF Numbers
  <1>3. CASE i = 0
    BY <1>1, <1>3 DEF Begun, No, Engaged
  <1>4. CASE i # 0
    <2>1. i \in DOMAIN toClient[b] /\ Yes(toClient[b][i])
      BY <1>4, LineTypes DEF Begun
    <2>2. toClient[b][i].no \in me[b].no + 1 .. server.no
      BY <2>1 DEF Numbers
    <2> QED
      BY <1>2, <1>4, <2>2, Typed DEF No
  <1> QED
    BY <1>3, <1>4

LEMMA ToOtherAdds ==
  ASSUME Lines, NEW b \in Client, NEW x, ToOther(b, x)
  PROVE  /\ \A c \in Client : Adds(c, {x})
         /\ \A c \in Client \ {b} : toClient'[c] = Append(toClient[c], x)
         /\ toClient'[b] = toClient[b]
  <1>1. Other(b) \in Client \ {b} /\ Client = {b, Other(b)}
    BY Partner
  <1>2. \A c \in Client : IF c = Other(b) THEN toClient'[c] = Append(toClient[c], x)
                          ELSE toClient'[c] = toClient[c]
    BY DEF Lines, ToOther
  <1> QED
    BY <1>1, <1>2 DEF Adds

\* Whatever the server makes of a message that it does not pass on.
LEMMA AnswerKeeps ==
  ASSUME TypeOK, Lines, Sound, NEW b \in Client, "crossed" \notin lapses',
         Refuses(b) \/ Agrees(b) \/ Cancels(b) \/ Ignores(b)
  PROVE  Sound'
  <1>1. Reading(b) /\ server \in Servers
    BY ServerReads DEF Server, TypeOK
  <1>2. Head(toServer[b]) = toServer[b][1]
    BY <1>1, ReadLines
  <1>3. lapses \subseteq lapses'
    BY DEF Refuses, Agrees, Cancels, Ignores, Crossed
  <1>4. /\ [m |-> "C", yes |-> FALSE] \in ToClient /\ [m |-> "W"] \in ToClient
        /\ [m |-> "A"] \in ToClient
    BY DEF ToClient
  <1>5. CASE Refuses(b)
    <2> DEFINE x == [m |-> "C", yes |-> FALSE]
    <2>1. \A c \in Client : Adds(c, {x})
      BY <1>5 DEF Refuses, Adds, Lines
    <2>2. ~ Offer(x) /\ ~ Yes(x)
      BY DEF Offer, Yes
    <2>3. server' = server /\ toServer[b][1].m = "D"
      BY <1>2, <1>5 DEF Refuses, Reads
    <2> HIDE DEF x
    <2>4. {x} \subseteq ToClient /\ \A y \in {x} : ~ Offer(y) /\ ~ Yes(y)
      BY <1>4, <2>2 DEF x
    <2> QED
      BY <1>1, <1>3, <2>1, <2>3, <2>4, ReadKeeps
  <1>6. CASE Agrees(b) /\ ToOther(b, [m |-> "A"])
             /\ server' = [server EXCEPT !.ok = server.ok \cup {b}]
    <2> DEFINE x == [m |-> "A"]
    <2>1. \A c \in Client : Adds(c, {x})
      BY <1>6, ToOtherAdds
    <2>2. ~ Offer(x) /\ ~ Yes(x)
      BY DEF Offer, Yes
    <2>3. server'.no = server.no /\ server'.trading = server.trading
      BY <1>1, <1>6 DEF Servers
    <2>4. toServer[b][1].m = "K"
      BY <1>2, <1>6, AgreesCases
    <2> HIDE DEF x
    <2>5. {x} \subseteq ToClient /\ \A y \in {x} : ~ Offer(y) /\ ~ Yes(y)
      BY <1>4, <2>2 DEF x
    <2> QED
      BY <1>1, <1>3, <2>1, <2>3, <2>4, <2>5, ReadKeeps
  <1>7. CASE Agrees(b) /\ ToBoth([m |-> "W"])
             /\ server' = [server EXCEPT !.trading = FALSE, !.ok = {}]
    <2> DEFINE x == [m |-> "W"]
    <2>1. \A c \in Client : toClient'[c] = Append(toClient[c], x)
      BY <1>7 DEF ToBoth
    <2>2. ~ Offer(x) /\ ~ Yes(x) /\ x.m = "W"
      BY DEF Offer, Yes
    <2>3. server'.no = server.no /\ ~ server'.trading
      BY <1>1, <1>7 DEF Servers
    <2>4. toServer[b][1].m = "K"
      BY <1>2, <1>7, AgreesCases
    <2> HIDE DEF x
    <2>5. {x} \subseteq ToClient /\ (\A y \in {x} : ~ Offer(y) /\ ~ Yes(y))
          /\ (\A c \in Client : Adds(c, {x}))
          /\ \A c \in Client : \E y \in {x} : y.m = "W" /\ toClient'[c] = Append(toClient[c], y)
      BY <1>4, <2>1, <2>2 DEF Adds, x
    <2> QED
      BY <1>1, <1>3, <2>3, <2>4, <2>5, ReadKeeps
  <1>8. CASE Cancels(b)
    <2> DEFINE x == [m |-> "W"]
    <2>1. /\ \A c \in Client : Adds(c, {x})
          /\ \A c \in Client \ {b} : toClient'[c] = Append(toClient[c], x)
      BY <1>8, ToOtherAdds DEF Cancels
    <2>2. ~ Offer(x) /\ ~ Yes(x) /\ x.m = "W"
      BY DEF Offer, Yes
    <2>3. server'.no = server.no /\ ~ server'.trading
      BY <1>1, <1>8 DEF Servers, Cancels
    <2>4. toServer[b][1].m = "W" /\ toServer[b][1].no = server.no
      BY <1>2, <1>8 DEF Cancels, Reads, Crossed
    <2>5. \A i \in 0..Len(toClient[b]) : Begun(b, i) => No(b, i) # server.no
      BY <1>1, <2>4, CancelerOut DEF Sound
    <2> HIDE DEF x
    <2>6. {x} \subseteq ToClient /\ (\A y \in {x} : ~ Offer(y) /\ ~ Yes(y))
      BY <1>4, <2>2 DEF x
    <2>7. \A c \in Client :
             \/ \E y \in {x} : y.m = "W" /\ toClient'[c] = Append(toClient[c], y)
             \/ \A i \in 0..Len(toClient[c]) : Begun(c, i) => No(c, i) # server.no
      BY <2>1, <2>2, <2>5
    <2> QED
      BY <1>1, <1>3, <2>1, <2>3, <2>4, <2>6, <2>7, ReadKeeps
  <1>9. CASE Ignores(b)
    <2>1. \A c \in Client : Adds(c, {})
      BY <1>9 DEF Ignores, Adds
    <2>2. server' = server /\ (~ server.trading \/ ~ toServer[b][1].named)
      BY <1>2, <1>9 DEF Ignores, InTrade
    <2>3. {} \subseteq ToClient /\ \A y \in {} : ~ Offer(y) /\ ~ Yes(y)
      OBVIOUS
    <2> QED
      BY <1>1, <1>3, <2>1, <2>2, <2>3, ReadKeeps
  <1> QED
    BY <1>5, <1>6, <1>7, <1>8, <1>9, AgreesCases

-----------------------------------------------------------------------------
(* A trade begins, when there is none.                                     *)

Starts(b, x) ==
    /\ Reading(b) /\ UNCHANGED lapses /\ toServer[b][1].m = "D"
    /\ ~ server.trading /\ server'.trading /\ server'.no = server.no + 1
    /\ x \in ToClient /\ Yes(x) /\ ~ Offer(x) /\ x.m # "W" /\ x.no = server.no + 1
    /\ \A c \in Client : toClient'[c] = Append(toClient[c], x)

LEMMA BeginStarts ==
  ASSUME TypeOK, Lines, NEW b \in Client, Begins(b)
  PROVE  \E x : Starts(b, x)
  <1> DEFINE x == [m |-> "C", yes |-> TRUE, no |-> server.no + 1]
  <1>1. Reading(b) /\ UNCHANGED lapses /\ toServer[b][1].m = "D"
    <2>1. Reading(b)
      BY ServerReads DEF Server
    <2> QED
      BY <2>1, ReadLines DEF Begins, Reads
  <1>2. ~ server.trading /\ server'.trading /\ server'.no = server.no + 1
    BY DEF Begins
  <1>3. \A c \in Client : toClient'[c] = Append(toClient[c], x)
    BY DEF Begins, ToBoth
  <1>4. server.no + 1 \in Trades
    BY DEF Begins, TypeOK, Servers, Trades
  <1>5. x \in ToClient /\ Yes(x) /\ ~ Offer(x) /\ x.m # "W" /\ x.no = server.no + 1
    BY <1>4 DEF ToClient, Yes, Offer
  <1> HIDE DEF x
  <1> QED
    BY <1>1, <1>2, <1>3, <1>5 DEF Starts

LEMMA StartsLines ==
  ASSUME Lines, NEW b \in Client, NEW x, Starts(b, x), NEW c \in Client
  PROVE  /\ \A i \in DOMAIN toClient'[c] :
               \/ i \in DOMAIN toClient[c] /\ toClient'[c][i] = toClient[c][i]
               \/ i = Len(toClient[c]) + 1 /\ toClient'[c][i] = x
         /\ \A i \in DOMAIN toClient[c] :
               i \in DOMAIN toClient'[c] /\ toClient'[c][i] = toClient[c][i]
  <1>1. x \in ToClient /\ toClient'[c] = Append(toClient[c], x)
    BY DEF Starts
  <1> QED
    BY <1>1, AddLines

LEMMA StartsStill ==
  ASSUME TypeOK, Lines, NEW b \in Client, NEW x, Starts(b, x)
  PROVE  Still
  <1>1. {x} \subseteq ToClient /\ (\A y \in {x} : ~ Offer(y)) /\ \A c \in Client : Adds(c, {x})
    BY DEF Starts, Adds
  <1>2. Older(toClient, toClient')
    BY <1>1, AddOlder
  <1> QED
    BY <1>2, ReadStill DEF Starts

LEMMA StartsNumbers ==
  ASSUME TypeOK, Lines, Numbers, NEW b \in Client, NEW x, Starts(b, x)
  PROVE  Numbers'
  <1> SUFFICES ASSUME NEW c \in Client
               PROVE
        /\ me'[c].no =< server'.no
        /\ \A i \in DOMAIN toServer'[c] : toServer'[c][i].m # "D" => toServer'[c][i].no =< me'[c].no
        /\ \A i \in DOMAIN toClient'[c] :
              /\ Yes(toClient'[c][i]) => toClient'[c][i].no \in me'[c].no + 1 .. server'.no
              /\ Offer(toClient'[c][i]) =>
                    \A d \in Client \ {c} : toClient'[c][i].no =< me'[d].no
        /\ \A i, j \in DOMAIN toClient'[c] :
              /\ i < j /\ Yes(toClient'[c][j]) /\ (Yes(toClient'[c][i]) \/ Offer(toClient'[c][i]))
                    => toClient'[c][i].no < toClient'[c][j].no
    BY DEF Numbers
  <1>1. /\ me' = me /\ server'.no = server.no + 1 /\ Yes(x) /\ ~ Offer(x)
        /\ x.no = server.no + 1
    BY DEF Starts, Reading
  <1>2. server.no \in Nat /\ \A d \in Client : me[d].no \in Nat /\ me[d].no =< server.no
    BY Typed DEF Numbers
  <1>3. \A i \in DOMAIN toServer'[c] : toServer'[c][i].m # "D" => toServer'[c][i].no =< me'[c].no
    <2>1. \A i \in DOMAIN toServer'[c] :
             \E p \in DOMAIN toServer[c] : toServer'[c][i] = toServer[c][p]
      BY ReadOlder DEF Starts
    <2> QED
      BY <1>1, <2>1 DEF Numbers
  <1>4. \A i \in DOMAIN toClient[c] :
           /\ Yes(toClient[c][i]) => toClient[c][i].no \in me[c].no + 1 .. server.no
           /\ Offer(toClient[c][i]) => \A d \in Client \ {c} : toClient[c][i].no =< me[d].no
           /\ Yes(toClient[c][i]) \/ Offer(toClient[c][i]) =>
                 toClient[c][i].no \in Nat /\ toClient[c][i].no =< server.no
    <2>1. Other(c) \in Client \ {c}
      BY Partner
    <2>2. \A i \in DOMAIN toClient[c] : Yes(toClient[c][i]) \/ Offer(toClient[c][i]) =>
             toClient[c][i].no \in Nat
      BY LineTypes, MessageTypes, Typed
    <2>3. \A i \in DOMAIN toClient[c] : Offer(toClient[c][i]) =>
             toClient[c][i].no =< me[Other(c)].no
      BY <2>1 DEF Numbers
    <2>4. \A i \in DOMAIN toClient[c] : Offer(toClient[c][i]) => toClient[c][i].no =< server.no
      BY <1>2, <2>1, <2>2, <2>3
    <2>5. \A i \in DOMAIN toClient[c] :
             Yes(toClient[c][i]) => toClient[c][i].no \in me[c].no + 1 .. server.no
      BY DEF Numbers
    <2> QED
      BY <1>2, <2>2, <2>4, <2>5 DEF Numbers
  <1>5. ASSUME NEW i \in DOMAIN toClient'[c]
        PROVE  /\ Yes(toClient'[c][i]) => toClient'[c][i].no \in me'[c].no + 1 .. server'.no
               /\ Offer(toClient'[c][i]) =>
                     \A d \in Client \ {c} : toClient'[c][i].no =< me'[d].no
    <2>1. CASE i \in DOMAIN toClient[c] /\ toClient'[c][i] = toClient[c][i]
      BY <1>1, <1>2, <1>4, <2>1
    <2>2. CASE toClient'[c][i] = x
      BY <1>1, <1>2, <2>2
    <2> QED
      BY <2>1, <2>2, StartsLines
  <1>6. ASSUME NEW i \in DOMAIN toClient'[c], NEW j \in DOMAIN toClient'[c], i < j,
               Yes(toClient'[c][j]), Yes(toClient'[c][i]) \/ Offer(toClient'[c][i])
        PROVE  toClient'[c][i].no < toClient'[c][j].no
    <2>1. Len(toClient[c]) \in Nat /\ DOMAIN toClient[c] = 1..Len(toClient[c])
      BY LineTypes
    <2>2. CASE j \in DOMAIN toClient[c]
      <3>1. i \in DOMAIN toClient[c]
        BY <1>6, <2>1, <2>2, StartsLines
      <3>2. toClient'[c][i] = toClient[c][i] /\ toClient'[c][j] = toClient[c][j]
        BY <2>2, <3>1, StartsLines
      <3> QED
        BY <1>6, <2>2, <3>1, <3>2 DEF Numbers
    <2>3. CASE j \notin DOMAIN toClient[c]
      <3>1. j = Len(toClient[c]) + 1 /\ toClient'[c][j] = x
        BY <2>3, StartsLines
      <3>2. i \in DOMAIN toClient[c] /\ toClient'[c][i] = toClient[c][i]
        BY <1>6, <2>1, <3>1, StartsLines
      <3>3. toClient[c][i].no \in Nat /\ toClient[c][i].no =< server.no
        BY <1>4, <1>6, <3>2
      <3> QED
        BY <1>1, <1>2, <3>1, <3>2, <3>3
    <2> QED
      BY <2>2, <2>3
  <1>7. me'[c].no =< server'.no
    BY <1>1, <1>2
  <1> QED
    BY <1>3, <1>5, <1>6, <1>7

LEMMA StartsInOrder ==
  ASSUME TypeOK, Lines, InOrder, NEW b \in Client, NEW x, Starts(b, x)
  PROVE  InOrder'
  <1> DEFINE Next1(c, i, j) == \E l \in i + 1 .. j : Yes(toClient'[c][l])
             Begun1(c, i) == IF i = 0 THEN Heard(c) ELSE Yes(toClient'[c][i])
             No1(c, i) == IF i = 0 THEN me[c].no ELSE toClient'[c][i].no
             Live1(k) == server'.trading /\ server'.no = k
  <1>1. /\ me' = me /\ (\A c : Heard(c)' <=> Heard(c))
        /\ server'.trading /\ ~ server.trading /\ server'.no = server.no + 1
        /\ x \in ToClient /\ Yes(x) /\ ~ Offer(x) /\ x.no = server.no + 1
    BY DEF Starts, Reading, Heard
  <1> SUFFICES ASSUME NEW c \in Client, NEW i \in 0 .. Len(toClient'[c]), Begun1(c, i)
               PROVE
        /\ No1(c, i) < server'.no => Next1(c, i, Len(toClient'[c]))
        /\ \A j \in i + 1 .. Len(toClient'[c]) : Offer(toClient'[c][j]) =>
              toClient'[c][j].no = No1(c, i) \/ Next1(c, i, j)
        /\ \/ Live1(No1(c, i))
           \/ \E j \in i + 1 .. Len(toClient'[c]) :
                 toClient'[c][j].m = "W" /\ ~ Next1(c, i, j)
    BY <1>1 DEF InOrder, Begun, No, Another, Live
  <1> DEFINE N == Len(toClient[c])
  <1>2. /\ N \in Nat /\ DOMAIN toClient[c] = 1..N
        /\ Len(toClient'[c]) = N + 1 /\ toClient'[c][N + 1] = x
        /\ \A l \in 1..N : toClient'[c][l] = toClient[c][l]
    <2>1. toClient'[c] = Append(toClient[c], x)
      BY DEF Starts
    <2> QED
      BY <1>1, <2>1, AddLines
  <1>3. server.no \in Nat
    BY Typed
  <1>4. CASE i = N + 1
    <2>1. No1(c, i) = server'.no
      BY <1>1, <1>2, <1>4
    <2>2. \A j : j \notin i + 1 .. N + 1
      BY <1>2, <1>4
    <2> QED
      BY <1>1, <1>2, <1>3, <2>1, <2>2
  <1>5. CASE i # N + 1
    <2>1. i \in 0..N /\ (i # 0 => i \in 1..N)
      BY <1>2, <1>5
    <2>2. Begun(c, i) /\ No1(c, i) = No(c, i)
      BY <1>2, <2>1 DEF Begun, No
    <2>3. \A j \in 0..N : Next1(c, i, j) <=> Another(c, i, j)
      <3>1. \A j \in 0..N : \A l \in i + 1 .. j : l \in 1..N
        BY <1>2, <2>1
      <3> QED
        BY <1>2, <3>1 DEF Another
    <2>4. Next1(c, i, N + 1)
      <3>1. N + 1 \in i + 1 .. N + 1
        BY <1>2, <2>1
      <3> QED
        BY <1>1, <1>2, <3>1
    <2> HIDE DEF Next1, Begun1, No1, N
    <2>5. /\ \A j \in i + 1 .. N : Offer(toClient[c][j]) =>
                toClient[c][j].no = No(c, i) \/ Another(c, i, j)
          /\ \/ Live(No(c, i))
             \/ \E j \in i + 1 .. N : toClient[c][j].m = "W" /\ ~ Another(c, i, j)
      BY <2>1, <2>2 DEF InOrder, N
    <2>6. ASSUME NEW j \in i + 1 .. Len(toClient'[c]), Offer(toClient'[c][j])
          PROVE  toClient'[c][j].no = No1(c, i) \/ Next1(c, i, j)
      <3>1. j # N + 1
        BY <1>1, <1>2, <2>6
      <3>2. j \in i + 1 .. N /\ j \in 1..N /\ j \in 0..N
        BY <1>2, <2>1, <3>1
      <3> QED
        BY <1>2, <2>2, <2>3, <2>5, <2>6, <3>2
    <2>7. ~ Live(No(c, i))
      BY <1>1 DEF Live
    <2>8. PICK j \in i + 1 .. N : toClient[c][j].m = "W" /\ ~ Another(c, i, j)
      BY <2>5, <2>7
    <2>9. \E l \in i + 1 .. Len(toClient'[c]) : toClient'[c][l].m = "W" /\ ~ Next1(c, i, l)
      <3>1. j \in i + 1 .. N + 1 /\ j \in 1..N /\ j \in 0..N
        BY <1>2, <2>1
      <3> QED
        BY <1>2, <2>3, <2>8, <3>1
    <2> QED
      BY <1>2, <2>4, <2>6, <2>9
  <1> QED
    BY <1>4, <1>5

LEMMA StartsMatched ==
  ASSUME TypeOK, Lines, Numbers, Matched, NEW b \in Client, NEW x, Starts(b, x)
  PROVE  Matched'
  <1> SUFFICES ASSUME "early" \notin lapses', NEW k \in Trades, NEW c \in Client,
                      NEW d \in Client \ {c}, Settled(c, k)', Settled(d, k)'
               PROVE  Match(c, d, k)'
    BY DEF Matched
  <1>1. /\ Reading(b) /\ me' = me /\ lapses' = lapses /\ toServer[b][1].m = "D"
        /\ server'.no = server.no + 1 /\ x.no = server.no + 1
    BY DEF Starts, Reading
  <1>2. server.no \in Nat /\ k \in Nat /\ \A e \in Client : me[e].no \in Nat
    BY Typed
  <1>3. Still
    BY StartsStill
  <1>4. CASE k = server.no + 1
    <2>1. ~ Joined(c, k)' /\ ~ Joined(d, k)'
      <3>1. me[c].no =< server.no /\ me[d].no =< server.no
        BY DEF Numbers
      <3> QED
        BY <1>1, <1>2, <1>4, <3>1 DEF Joined
    <2>2. Given(c, k)' = Nothing /\ Seen(d, k)' = Nothing
      BY <2>1 DEF Given, Seen
    <2>3. \A i \in DOMAIN toServer'[c] : ~ GoodOf(toServer'[c][i], k)
      <3>1. \A i \in DOMAIN toServer'[c] :
               toServer'[c][i].m # "D" => toServer'[c][i].no =< me[c].no
        BY <1>1, StartsNumbers DEF Numbers
      <3>2. me[c].no =< server.no
        BY DEF Numbers
      <3>3. ~ (k =< me[c].no)
        BY <1>2, <1>4, <3>2
      <3> QED
        BY <3>1, <3>3 DEF GoodOf
    <2>4. \A i \in DOMAIN toClient'[d] : ~ GoodOf(toClient'[d][i], k)
      <3>1. \A i \in DOMAIN toClient'[d] :
               Offer(toClient'[d][i]) => toClient'[d][i].no =< me[c].no
        BY <1>1, StartsNumbers DEF Numbers
      <3>2. me[c].no =< server.no
        BY DEF Numbers
      <3>3. ~ (k =< me[c].no)
        BY <1>2, <1>4, <3>2
      <3> QED
        BY <3>1, <3>3 DEF GoodOf, Offer
    <2>5. Nothing.item = 0 /\ Nothing.gold = 0
      BY DEF Nothing
    <2>6. Between(c, d, k)'
      BY <2>3, <2>4 DEF Between, Item, GoodOf
    <2> QED
      BY <2>2, <2>5, <2>6 DEF Match, AllItems, AllGold
  <1>5. CASE k # server.no + 1
    <2>1. \A e \in Client : Called(e, k)' => Called(e, k)
      BY <1>1, <1>5, StartsLines DEF Called
    <2>2. Settled(c, k) /\ Settled(d, k)
      BY <1>1, <2>1 DEF Settled, Joined, Heard
    <2>3. Match(c, d, k)
      BY <1>1, <2>2 DEF Matched
    <2>4. Trails(toServer, toServer', c, k) /\ Trails(toClient, toClient', d, k)
      BY <1>3 DEF Still, Older, Trails, GoodOf, Offer
    <2>5. Given(c, k)' = Given(c, k) /\ Seen(d, k)' = Seen(d, k)
      BY <1>1 DEF Given, Seen, Joined, Heard, Ready
    <2>6. ~ Live(k)' /\ (Arrived(d, k)' => Arrived(d, k))
      BY <1>1, <1>3, <1>5, StillHeard DEF Live
    <2>7. Keeps(toClient, toClient', d, k)
      BY StartsLines DEF Keeps
    <2>8. Keeps(toServer, toServer', c, k)
      BY <1>1, ReadLines DEF Keeps, GoodOf
    <2> QED
      BY <2>3, <2>4, <2>5, <2>6, <2>7, <2>8, SameMatch
  <1> QED
    BY <1>4, <1>5

LEMMA StartsKeeps ==
  ASSUME TypeOK, Lines, Sound, NEW b \in Client, NEW x, Starts(b, x)
  PROVE  Sound'
  <1>1. Numbers /\ InOrder /\ Engaged /\ LockLast /\ GoldOnce /\ Matched
    BY DEF Sound
  <1>2. Numbers' /\ InOrder' /\ Matched'
    BY <1>1, StartsNumbers, StartsInOrder, StartsMatched
  <1>3. Engaged'
    BY <1>1, ServerEngaged DEF Starts
  <1>4. LockLast' /\ GoldOnce'
    BY <1>1, StartsStill, StillLockLast, StillGoldOnce
  <1> QED
    BY <1>2, <1>3, <1>4 DEF Sound

-----------------------------------------------------------------------------
(* An offer of the trade under way is passed on: it moves from the head of *)
(* one line to the end of the other.                                       *)

Passes(b, d, m) ==
    /\ Reading(b) /\ UNCHANGED <<server, lapses>>
    /\ Client = {b, d} /\ b # d
    /\ m = toServer[b][1] /\ m \in ToClient /\ Offer(m) /\ ~ Yes(m)
    /\ Live(m.no)
    /\ toClient'[d] = Append(toClient[d], m) /\ toClient'[b] = toClient[b]

LEMMA PassOnPasses ==
  ASSUME TypeOK, Lines, NEW b \in Client, PassesOn(b), "crossed" \notin lapses'
  PROVE  \E d \in Client : \E m : Passes(b, d, m)
  <1> DEFINE d == Other(b)
             m == Head(toServer[b])
  <1>1. Reading(b) /\ UNCHANGED server
    BY ServerReads DEF Server, PassesOn
  <1>2. Client = {b, d} /\ b # d /\ d \in Client
    BY Partner
  <1>3. m = toServer[b][1] /\ m \in ToServer
    BY <1>1, ReadLines
  <1>4. m.m \in {"G", "I", "Confirm"} /\ m.named /\ server.trading
    BY DEF PassesOn, Reads, InTrade
  <1>5. UNCHANGED lapses /\ m.no = server.no
    BY DEF PassesOn, Crossed
  <1>6. m \in ToClient
    BY <1>3, <1>4 DEF ToServer, ToClient
  <1>7. ToOther(b, m)
    BY DEF PassesOn
  <1> HIDE DEF m, d
  <1>8. toClient'[d] = Append(toClient[d], m) /\ toClient'[b] = toClient[b]
    BY <1>2, <1>7, ToOtherAdds
  <1>9. Offer(m) /\ ~ Yes(m) /\ Live(m.no)
    BY <1>4, <1>5 DEF Offer, Yes, Live
  <1>10. Passes(b, d, m)
    BY <1>1, <1>2, <1>3, <1>5, <1>6, <1>8, <1>9 DEF Passes
  <1> QED
    BY <1>2, <1>10

LEMMA PassesLines ==
  ASSUME Lines, NEW b \in Client, NEW d \in Client, NEW m, Passes(b, d, m)
  PROVE  /\ me' = me /\ b # d /\ 1 \in DOMAIN toServer[b] /\ toServer[b][1] = m
         /\ toServer'[d] = toServer[d] /\ toClient'[b] = toClient[b]
         /\ \A i \in DOMAIN toServer'[b] :
               /\ i + 1 \in DOMAIN toServer[b] /\ toServer'[b][i] = toServer[b][i + 1]
               /\ 1 < i + 1 /\ 1 # i + 1
         /\ \A i \in DOMAIN toServer[b] :
               i # 1 => i - 1 \in DOMAIN toServer'[b] /\ toServer'[b][i - 1] = toServer[b][i]
         /\ \A i \in DOMAIN toClient'[d] :
               \/ i \in DOMAIN toClient[d] /\ toClient'[d][i] = toClient[d][i]
               \/ i = Len(toClient[d]) + 1 /\ toClient'[d][i] = m
         /\ \A i \in DOMAIN toClient[d] :
               i \in DOMAIN toClient'[d] /\ toClient'[d][i] = toClient[d][i]
         /\ Len(toClient[d]) + 1 \in DOMAIN toClient'[d]
         /\ toClient'[d][Len(toClient[d]) + 1] = m
         /\ \A i, j \in DOMAIN toClient'[d] : i < j => i \in DOMAIN toClient[d]
  <1>1. Reading(b) /\ me' = me /\ b # d /\ toServer[b][1] = m /\ toClient'[b] = toClient[b]
    BY DEF Passes, Reading
  <1>2. m \in ToClient /\ toClient'[d] = Append(toClient[d], m)
    BY DEF Passes
  <1>3. /\ \A i \in DOMAIN toClient'[d] :
              \/ i \in DOMAIN toClient[d] /\ toClient'[d][i] = toClient[d][i]
              \/ i = Len(toClient[d]) + 1 /\ toClient'[d][i] = m
        /\ \A i \in DOMAIN toClient[d] :
              i \in DOMAIN toClient'[d] /\ toClient'[d][i] = toClient[d][i]
        /\ Len(toClient[d]) + 1 \in DOMAIN toClient'[d]
        /\ toClient'[d][Len(toClient[d]) + 1] = m
        /\ DOMAIN toClient'[d] = 1..Len(toClient[d]) + 1
        /\ DOMAIN toClient[d] = 1..Len(toClient[d]) /\ Len(toClient[d]) \in Nat
    BY <1>2, AddLines
  <1>4. \A i, j \in DOMAIN toClient'[d] : i < j => i \in DOMAIN toClient[d]
    BY <1>3
  <1> QED
    BY <1>1, <1>3, <1>4, ReadLines

LEMMA PassesOrder ==
  ASSUME TypeOK, Lines, Numbers, InOrder, NEW b \in Client, NEW d \in Client, NEW m,
         Passes(b, d, m)
  PROVE  Numbers' /\ InOrder'
  <1>1. /\ Reading(b) /\ server' = server /\ Client = {b, d} /\ b # d
        /\ {m} \subseteq ToClient /\ ~ Yes(m) /\ Offer(m) /\ m.no = server.no
        /\ toClient'[d] = Append(toClient[d], m) /\ toClient'[b] = toClient[b]
    BY DEF Passes, Live
  <1>2. \A c \in Client : Adds(c, {m})
    BY <1>1 DEF Adds
  <1>3. m.no =< me[b].no
    BY PassesLines, <1>1 DEF Numbers, Offer
  <1>4. toClient'[b] # Append(toClient[b], m)
    <2>1. ASSUME toClient'[b] = Append(toClient[b], m) PROVE FALSE
      <3>1. Len(toClient'[b]) = Len(toClient[b]) + 1 /\ Len(toClient[b]) \in Nat
        BY <1>1, <2>1, AddLines
      <3> QED
        BY <1>1, <3>1
    <2> QED
      BY <2>1
  <1>5. \A c \in Client, x \in {m} : toClient'[c] = Append(toClient[c], x) /\ Offer(x) =>
           \A e \in Client \ {c} : x.no =< me[e].no
    BY <1>1, <1>3, <1>4
  <1>6. \A x \in {m} : ~ Yes(x) /\ (Offer(x) => x.no = server.no)
    BY <1>1
  <1>7. Numbers'
    BY <1>1, <1>2, <1>5, <1>6, ReadNumbers
  <1>8. InOrder'
    BY <1>1, <1>2, <1>6, ReadInOrder
  <1> QED
    BY <1>7, <1>8

LEMMA PassesHeard ==
  ASSUME Lines, NEW b \in Client, NEW d \in Client, NEW m, Passes(b, d, m), NEW k
  PROVE  /\ \A c \in Client : (Accepts(c, k)' <=> Accepts(c, k)) /\ (HasGold(c, k)' <=> HasGold(c, k))
         /\ Arrived(b, k)' => Arrived(b, k)
         /\ Arrived(d, k)' => Arrived(d, k) \/ Confirms(m, k)
         /\ \A c, e \in Client : c # e =>
               (Locked(c, e, k)' => Locked(c, e, k)) /\ (Gilt(c, e, k)' => Gilt(c, e, k))
  <1>1. me' = me /\ b # d /\ Client = {b, d}
    BY PassesLines DEF Passes
  <1>2. \A c \in Client : (Accepts(c, k)' <=> Accepts(c, k)) /\ (HasGold(c, k)' <=> HasGold(c, k))
    BY <1>1 DEF Accepts, HasGold, Joined, Heard
  <1>3. Arrived(b, k)' => Arrived(b, k)
    BY <1>2, PassesLines DEF Arrived
  <1>4. Arrived(d, k)' => Arrived(d, k) \/ Confirms(m, k)
    BY <1>2, PassesLines DEF Arrived
  <1>5. (Locked(b, d, k)' => Locked(b, d, k)) /\ (Locked(d, b, k)' => Locked(d, b, k))
    <2>1. ASSUME Locked(b, d, k)' PROVE Locked(b, d, k)
      <3>1. CASE Arrived(d, k)'
        BY <1>4, <3>1, PassesLines DEF Locked
      <3>2. CASE \E i \in DOMAIN toServer'[b] : Confirms(toServer'[b][i], k)
        BY <3>2, PassesLines DEF Locked
      <3> QED
        BY <2>1, <3>1, <3>2 DEF Locked
    <2>2. Locked(d, b, k)' => Locked(d, b, k)
      BY <1>3, PassesLines DEF Locked
    <2> QED
      BY <2>1, <2>2
  <1>6. (Gilt(b, d, k)' => Gilt(b, d, k)) /\ (Gilt(d, b, k)' => Gilt(d, b, k))
    <2>1. ASSUME Gilt(b, d, k)' PROVE Gilt(b, d, k)
      <3>1. CASE \E i \in DOMAIN toClient'[d] : Gold(toClient'[d][i], k)
        BY <3>1, PassesLines DEF Gilt
      <3>2. CASE \E i \in DOMAIN toServer'[b] : Gold(toServer'[b][i], k)
        BY <3>2, PassesLines DEF Gilt
      <3> QED
        BY <1>2, <2>1, <3>1, <3>2 DEF Gilt
    <2>2. Gilt(d, b, k)' => Gilt(d, b, k)
      BY <1>2, PassesLines DEF Gilt
    <2> QED
      BY <2>1, <2>2
  <1> QED
    BY <1>1, <1>2, <1>3, <1>4, <1>5, <1>6

LEMMA PassesLockLast ==
  ASSUME TypeOK, Lines, LockLast, NEW b \in Client, NEW d \in Client, NEW m, Passes(b, d, m)
  PROVE  LockLast'
  <1> SUFFICES ASSUME NEW k \in Trades, NEW c \in Client
               PROVE
        /\ \A i, j \in DOMAIN toServer'[c] :
              i < j /\ Confirms(toServer'[c][i], k) => ~ GoodOf(toServer'[c][j], k)
        /\ \A i, j \in DOMAIN toClient'[c] :
              i < j /\ Confirms(toClient'[c][i], k) => ~ GoodOf(toClient'[c][j], k)
        /\ Accepts(c, k)' => \A i \in DOMAIN toClient'[c] : ~ GoodOf(toClient'[c][i], k)
        /\ \A e \in Client \ {c} :
              /\ Arrived(e, k)' => \A i \in DOMAIN toServer'[c] : ~ GoodOf(toServer'[c][i], k)
              /\ Locked(c, e, k)' =>
                    /\ k =< me'[c].no
                    /\ me'[c].no = k /\ me'[c].status # 0 => me'[c].confirm \in {2, 4}
    BY DEF LockLast
  <1>1. me' = me /\ b # d /\ Client = {b, d} /\ Reading(b)
    BY PassesLines DEF Passes
  <1>2. Arrived(d, k) => ~ GoodOf(m, k) /\ \A i \in DOMAIN toServer[b] : ~ GoodOf(toServer[b][i], k)
    BY <1>1, PassesLines DEF LockLast
  <1>3. \A i, j \in DOMAIN toServer'[c] :
           i < j /\ Confirms(toServer'[c][i], k) => ~ GoodOf(toServer'[c][j], k)
    BY <1>1, ReadBefore DEF LockLast
  <1>4. ASSUME NEW i \in DOMAIN toClient'[c], NEW j \in DOMAIN toClient'[c], i < j,
               Confirms(toClient'[c][i], k)
        PROVE  ~ GoodOf(toClient'[c][j], k)
    <2>1. CASE c = b
      BY <1>4, <2>1, PassesLines DEF LockLast
    <2>2. CASE c = d
      <3>1. i \in DOMAIN toClient[d] /\ toClient'[d][i] = toClient[d][i]
        BY <1>4, <2>2, PassesLines
      <3>2. CASE j \in DOMAIN toClient[d] /\ toClient'[d][j] = toClient[d][j]
        BY <1>4, <2>2, <3>1, <3>2 DEF LockLast
      <3>3. CASE toClient'[d][j] = m
        <4>1. Arrived(d, k)
          BY <1>4, <2>2, <3>1 DEF Arrived
        <4> QED
          BY <1>2, <2>2, <3>3, <4>1
      <3> QED
        BY <2>2, <3>2, <3>3, PassesLines
    <2> QED
      BY <1>1, <2>1, <2>2
  <1>5. ASSUME Accepts(c, k)', NEW i \in DOMAIN toClient'[c]
        PROVE  ~ GoodOf(toClient'[c][i], k)
    <2>1. Accepts(c, k)
      BY <1>5, PassesHeard
    <2>2. CASE c = b
      BY <1>5, <2>1, <2>2, PassesLines DEF LockLast
    <2>3. CASE c = d
      <3>1. ~ GoodOf(m, k)
        BY <1>2, <2>1, <2>3 DEF Arrived
      <3> QED
        BY <1>5, <2>1, <2>3, <3>1, PassesLines DEF LockLast
    <2> QED
      BY <1>1, <2>2, <2>3
  <1>6. ASSUME NEW e \in Client \ {c}, Arrived(e, k)', NEW i \in DOMAIN toServer'[c]
        PROVE  ~ GoodOf(toServer'[c][i], k)
    <2>1. CASE c = d /\ e = b
      <3>1. Arrived(b, k)
        BY <1>6, <2>1, PassesHeard
      <3> QED
        BY <1>6, <2>1, <3>1, PassesLines DEF LockLast
    <2>2. CASE c = b /\ e = d
      <3>1. /\ i + 1 \in DOMAIN toServer[b] /\ 1 < i + 1 /\ 1 \in DOMAIN toServer[b]
            /\ toServer'[b][i] = toServer[b][i + 1] /\ toServer[b][1] = m
        BY <1>6, <2>2, PassesLines
      <3>2. CASE Arrived(d, k)
        BY <1>2, <2>2, <3>1, <3>2
      <3>3. CASE Confirms(m, k)
        BY <2>2, <3>1, <3>3 DEF LockLast
      <3> QED
        BY <1>6, <2>2, <3>2, <3>3, PassesHeard
    <2> QED
      BY <1>1, <2>1, <2>2
  <1>7. ASSUME NEW e \in Client \ {c}, Locked(c, e, k)'
        PROVE  /\ k =< me'[c].no
               /\ me'[c].no = k /\ me'[c].status # 0 => me'[c].confirm \in {2, 4}
    <2>1. Locked(c, e, k)
      BY <1>7, PassesHeard
    <2> QED
      BY <1>1, <2>1 DEF LockLast
  <1> QED
    BY <1>3, <1>4, <1>5, <1>6, <1>7

LEMMA PassesGoldOnce ==
  ASSUME TypeOK, Lines, GoldOnce, NEW b \in Client, NEW d \in Client, NEW m, Passes(b, d, m)
  PROVE  GoldOnce'
  <1> SUFFICES ASSUME NEW k \in Trades, NEW c \in Client
               PROVE
        /\ \A i, j \in DOMAIN toServer'[c] :
              Gold(toServer'[c][i], k) /\ Gold(toServer'[c][j], k) => i = j
        /\ \A i, j \in DOMAIN toClient'[c] :
              Gold(toClient'[c][i], k) /\ Gold(toClient'[c][j], k) => i = j
        /\ HasGold(c, k)' => \A i \in DOMAIN toClient'[c] : ~ Gold(toClient'[c][i], k)
        /\ \A e \in Client \ {c} :
              /\ \A i \in DOMAIN toServer'[c] : Gold(toServer'[c][i], k) =>
                    ~ HasGold(e, k)' /\ \A j \in DOMAIN toClient'[e] : ~ Gold(toClient'[e][j], k)
              /\ Gilt(c, e, k)' =>
                    /\ k =< me'[c].no
                    /\ Joined(c, k)' => Ready(c)' /\ me'[c].mine.gold = 1
    BY DEF GoldOnce
  <1>1. me' = me /\ b # d /\ Client = {b, d} /\ Reading(b)
    BY PassesLines DEF Passes
  <1>2. Gold(m, k) => /\ ~ HasGold(d, k)
                      /\ \A j \in DOMAIN toClient[d] : ~ Gold(toClient[d][j], k)
                      /\ \A i \in DOMAIN toServer'[b] : ~ Gold(toServer'[b][i], k)
    <2>1. d \in Client \ {b} /\ 1 \in DOMAIN toServer[b] /\ toServer[b][1] = m
      BY <1>1, PassesLines
    <2>2. \A i \in DOMAIN toServer[b] : Gold(toServer[b][i], k) /\ Gold(m, k) => i = 1
      BY <2>1 DEF GoldOnce
    <2>3. Gold(m, k) => ~ HasGold(d, k) /\ \A j \in DOMAIN toClient[d] : ~ Gold(toClient[d][j], k)
      BY <2>1 DEF GoldOnce
    <2> QED
      BY <2>2, <2>3, PassesLines
  <1>3. \A i, j \in DOMAIN toServer'[c] :
           Gold(toServer'[c][i], k) /\ Gold(toServer'[c][j], k) => i = j
    BY <1>1, ReadBefore DEF GoldOnce
  <1>4. \A i, j \in DOMAIN toClient'[c] :
           Gold(toClient'[c][i], k) /\ Gold(toClient'[c][j], k) => i = j
    <2>1. CASE c = b
      BY <2>1, PassesLines DEF GoldOnce
    <2>2. CASE c = d
      BY <1>2, <2>2, PassesLines DEF GoldOnce
    <2> QED
      BY <1>1, <2>1, <2>2
  <1>5. HasGold(c, k)' => \A i \in DOMAIN toClient'[c] : ~ Gold(toClient'[c][i], k)
    <2>1. HasGold(c, k)' => HasGold(c, k)
      BY PassesHeard
    <2>2. CASE c = b
      BY <2>1, <2>2, PassesLines DEF GoldOnce
    <2>3. CASE c = d
      BY <1>2, <2>1, <2>3, PassesLines DEF GoldOnce
    <2> QED
      BY <1>1, <2>2, <2>3
  <1>6. ASSUME NEW e \in Client \ {c}, NEW i \in DOMAIN toServer'[c], Gold(toServer'[c][i], k)
        PROVE  ~ HasGold(e, k)' /\ \A j \in DOMAIN toClient'[e] : ~ Gold(toClient'[e][j], k)
    <2>1. HasGold(e, k)' => HasGold(e, k)
      BY PassesHeard
    <2>2. CASE c = d /\ e = b
      BY <1>6, <2>1, <2>2, PassesLines DEF GoldOnce
    <2>3. CASE c = b /\ e = d
      <3>1. ~ Gold(m, k)
        BY <1>2, <1>6, <2>3
      <3>2. ~ HasGold(d, k) /\ \A j \in DOMAIN toClient[d] : ~ Gold(toClient[d][j], k)
        BY <1>6, <2>3, PassesLines DEF GoldOnce
      <3> QED
        BY <2>1, <2>3, <3>1, <3>2, PassesLines
    <2> QED
      BY <1>1, <2>2, <2>3
  <1>7. ASSUME NEW e \in Client \ {c}, Gilt(c, e, k)'
        PROVE  /\ k =< me'[c].no
               /\ Joined(c, k)' => Ready(c)' /\ me'[c].mine.gold = 1
    <2>1. Gilt(c, e, k)
      BY <1>7, PassesHeard
    <2>2. Joined(c, k)' => Joined(c, k) /\ (Ready(c)' <=> Ready(c))
      BY <1>1 DEF Joined, Heard, Ready
    <2> QED
      BY <1>1, <2>1, <2>2 DEF GoldOnce
  <1> QED
    BY <1>3, <1>4, <1>5, <1>6, <1>7

\* To the receiver it makes no difference where on its way the offer is.
LEMMA PassesMatch ==
  ASSUME TypeOK, Lines, NEW b \in Client, NEW d \in Client, NEW m, Passes(b, d, m), NEW k,
         Match(b, d, k)
  PROVE  Match(b, d, k)'
  <1>1. me' = me /\ server' = server /\ Reading(b) /\ Live(m.no)
    BY PassesLines DEF Passes
  <1>2. Given(b, k)' = Given(b, k) /\ Seen(d, k)' = Seen(d, k)
    BY <1>1 DEF Given, Seen, Joined, Heard, Ready
  <1>3. Between(b, d, k)'
    <2>1. \A i \in DOMAIN toServer'[b] : Item(toServer'[b][i], k) =>
             toServer'[b][i].n \in Seen(d, k).item + 1 .. Given(b, k).item
      BY PassesLines DEF Match, Between
    <2>2. \A i \in DOMAIN toClient'[d] : Item(toClient'[d][i], k) =>
             toClient'[d][i].n \in Seen(d, k).item + 1 .. Given(b, k).item
      BY PassesLines DEF Match, Between
    <2>3. \A i, j \in DOMAIN toServer'[b] :
             i < j /\ Item(toServer'[b][i], k) /\ Item(toServer'[b][j], k)
                => toServer'[b][i].n < toServer'[b][j].n
      BY <1>1, ReadBefore DEF Match, Between
    <2>4. ASSUME NEW i \in DOMAIN toClient'[d], NEW j \in DOMAIN toClient'[d], i < j,
                 Item(toClient'[d][i], k), Item(toClient'[d][j], k)
          PROVE  toClient'[d][i].n < toClient'[d][j].n
      <3>1. i \in DOMAIN toClient[d] /\ toClient'[d][i] = toClient[d][i]
        BY <2>4, PassesLines
      <3>2. CASE j \in DOMAIN toClient[d] /\ toClient'[d][j] = toClient[d][j]
        BY <2>4, <3>1, <3>2 DEF Match, Between
      <3>3. CASE toClient'[d][j] = m
        BY <2>4, <3>1, <3>3, PassesLines DEF Match, Between
      <3> QED
        BY <3>2, <3>3, PassesLines
    <2>5. ASSUME NEW i \in DOMAIN toClient'[d], NEW j \in DOMAIN toServer'[b],
                 Item(toClient'[d][i], k), Item(toServer'[b][j], k)
          PROVE  toClient'[d][i].n < toServer'[b][j].n
      <3>1. j + 1 \in DOMAIN toServer[b] /\ 1 < j + 1 /\ toServer'[b][j] = toServer[b][j + 1]
        BY PassesLines
      <3>2. CASE i \in DOMAIN toClient[d] /\ toClient'[d][i] = toClient[d][i]
        BY <2>5, <3>1, <3>2 DEF Match, Between
      <3>3. CASE toClient'[d][i] = m
        BY <2>5, <3>1, <3>3, PassesLines DEF Match, Between
      <3> QED
        BY <3>2, <3>3, PassesLines
    <2> QED
      BY <1>2, <2>1, <2>2, <2>3, <2>4, <2>5 DEF Between
  <1>4. ASSUME Live(k)' \/ Arrived(d, k)'
        PROVE  AllItems(b, d, k)' /\ AllGold(b, d, k)'
    <2>1. Live(k) \/ Arrived(d, k)
      <3>1. Live(k)' => Live(k)
        BY <1>1 DEF Live
      <3>2. Confirms(m, k) => Live(k)
        BY <1>1 DEF Confirms
      <3> QED
        BY <1>4, <3>1, <3>2, PassesHeard
    <2>2. AllItems(b, d, k) /\ AllGold(b, d, k)
      BY <2>1 DEF Match
    <2>3. \A i \in DOMAIN toClient[d] : \E j \in DOMAIN toClient'[d] : toClient'[d][j] = toClient[d][i]
      BY PassesLines
    <2>4. \A i \in DOMAIN toServer[b] :
             \/ \E j \in DOMAIN toClient'[d] : toClient'[d][j] = toServer[b][i]
             \/ \E j \in DOMAIN toServer'[b] : toServer'[b][j] = toServer[b][i]
      BY PassesLines
    <2>5. AllItems(b, d, k)'
      BY <1>2, <2>2, <2>3, <2>4 DEF AllItems
    <2>6. AllGold(b, d, k)'
      BY <1>2, <2>2, <2>3, <2>4 DEF AllGold
    <2> QED
      BY <2>5, <2>6
  <1>5. /\ Seen(d, k).item =< Given(b, k).item /\ Seen(d, k).gold =< Given(b, k).gold
    BY DEF Match
  <1> QED
    BY <1>2, <1>3, <1>4, <1>5 DEF Match

LEMMA PassesMatched ==
  ASSUME TypeOK, Lines, Matched, NEW b \in Client, NEW d \in Client, NEW m, Passes(b, d, m)
  PROVE  Matched'
  <1> SUFFICES ASSUME "early" \notin lapses', NEW k \in Trades, NEW c \in Client,
                      NEW e \in Client \ {c}, Settled(c, k)', Settled(e, k)'
               PROVE  Match(c, e, k)'
    BY DEF Matched
  <1>1. me' = me /\ server' = server /\ lapses' = lapses /\ b # d /\ Client = {b, d} /\ ~ Yes(m)
    BY PassesLines DEF Passes
  <1>2. \A f \in Client : Called(f, k)' => Called(f, k)
    BY <1>1, PassesLines DEF Called
  <1>3. Settled(c, k) /\ Settled(e, k)
    BY <1>1, <1>2 DEF Settled, Joined, Heard
  <1>4. Match(c, e, k)
    BY <1>1, <1>3 DEF Matched
  <1>5. CASE c = b /\ e = d
    BY <1>4, <1>5, PassesMatch
  <1>6. CASE c = d /\ e = b
    <2>1. toServer'[c] = toServer[c] /\ toClient'[e] = toClient[e]
      BY <1>6, PassesLines
    <2>2. Trails(toServer, toServer', c, k) /\ Trails(toClient, toClient', e, k)
      BY <2>1 DEF Trails
    <2>3. Keeps(toServer, toServer', c, k) /\ Keeps(toClient, toClient', e, k)
      BY <2>1 DEF Keeps
    <2>4. Given(c, k)' = Given(c, k) /\ Seen(e, k)' = Seen(e, k)
      BY <1>1 DEF Given, Seen, Joined, Heard, Ready
    <2>5. Live(k)' \/ Arrived(e, k)' => Live(k) \/ Arrived(e, k)
      BY <1>1, <1>6, PassesHeard DEF Live
    <2> QED
      BY <1>4, <2>2, <2>3, <2>4, <2>5, SameMatch
  <1> QED
    BY <1>1, <1>5, <1>6

LEMMA PassesKeeps ==
  ASSUME TypeOK, Lines, Sound, NEW b \in Client, NEW d \in Client, NEW m, Passes(b, d, m)
  PROVE  Sound'
  <1>1. Numbers /\ InOrder /\ Engaged /\ LockLast /\ GoldOnce /\ Matched
    BY DEF Sound
  <1>2. Engaged'
    BY <1>1, ServerEngaged DEF Passes
  <1> QED
    BY <1>1, <1>2, PassesOrder, PassesLockLast, PassesGoldOnce, PassesMatched DEF Sound

-----------------------------------------------------------------------------
(* The invariant.                                                          *)

LEMMA StartSound ==
  ASSUME Init
  PROVE  IInv
  <1>1. /\ server = [trading |-> FALSE, no |-> 0, ok |-> {}] /\ lapses = {} /\ moves = 0
        /\ \A c \in Client :
              /\ toServer[c] = <<>> /\ toClient[c] = <<>>
              /\ me[c] = [status |-> 0, confirm |-> 0, open |-> FALSE, wnd |-> FALSE,
                          named |-> FALSE, mine |-> Nothing, theirs |-> Nothing,
                          gold |-> FALSE, no |-> 0]
    BY DEF Init
  <1>2. TypeOK
    <2>1. Nothing \in Goods /\ 0 \in 0..2 /\ 0 \in 0..4 /\ 0 \in 0..MaxTrades /\ 0 \in 0..MaxMoves
      BY DEF Nothing, Goods
    <2>2. [status |-> 0, confirm |-> 0, open |-> FALSE, wnd |-> FALSE, named |-> FALSE,
           mine |-> Nothing, theirs |-> Nothing, gold |-> FALSE, no |-> 0] \in Windows
      BY <2>1, Zenon DEF Windows
    <2>3. me \in [Client -> Windows]
      BY <2>2 DEF Init
    <2>4. server \in Servers
      BY <1>1, <2>1 DEF Servers
    <2> QED
      BY <1>1, <2>1, <2>3, <2>4 DEF TypeOK
  <1>3. Lines
    BY DEF Init, Lines
  <1>4. /\ \A c \in Client : /\ ~ Heard(c) /\ me[c].no = 0 /\ me[c].confirm = 0
                             /\ me[c].gold = FALSE /\ me[c].wnd = FALSE
                             /\ DOMAIN toServer[c] = {} /\ DOMAIN toClient[c] = {}
                             /\ Len(toClient[c]) = 0
        /\ server.no = 0
    BY <1>1 DEF Heard
  <1>5. \A c \in Client, k \in Trades :
           ~ Joined(c, k) /\ ~ Accepts(c, k) /\ ~ HasGold(c, k) /\ ~ Arrived(c, k) /\ ~ Called(c, k)
    BY <1>4 DEF Joined, Accepts, HasGold, Arrived, Called
  <1>6. Numbers
    BY <1>4 DEF Numbers
  <1>7. InOrder
    <2>1. \A c \in Client : \A i \in 0..Len(toClient[c]) : i = 0
      BY <1>4
    <2> QED
      BY <1>4, <2>1 DEF InOrder, Begun
  <1>8. Engaged
    BY <1>4 DEF Engaged
  <1>9. LockLast
    BY <1>4, <1>5 DEF LockLast, Locked
  <1>10. GoldOnce
    BY <1>4, <1>5 DEF GoldOnce, Gilt
  <1>11. Matched
    BY <1>5 DEF Matched, Settled
  <1> QED
    BY <1>2, <1>3, <1>6, <1>7, <1>8, <1>9, <1>10, <1>11 DEF IInv, Sound

LEMMA StepTypes ==
  ASSUME TypeOK, Lines, [Next]_vars
  PROVE  TypeOK' /\ Lines' /\ lapses \subseteq lapses'
  <1>1. ASSUME NEW c \in Client, NEW w \in Pressed(me[c]), Frame(c, w)
        PROVE  TypeOK' /\ Lines' /\ lapses \subseteq lapses'
    BY <1>1, FrameTypes DEF Frame
  <1>2. ASSUME NEW c \in Client,
               InitMenu(c) \/ CancelButton(c) \/ Lock(c) \/ Ok(c) \/ PutGold(c) \/ PutItem(c) \/ Ask(c)
        PROVE  TypeOK' /\ Lines' /\ lapses \subseteq lapses'
    <2>1. UNCHANGED lapses
      BY <1>2 DEF InitMenu, CancelButton, Lock, Ok, PutGold, PutItem, Ask
    <2> QED
      BY <1>2, <2>1, ClickTypes
  <1>3. ASSUME NEW c \in Client, Handler(c)
        PROVE  TypeOK' /\ Lines' /\ lapses \subseteq lapses'
    <2>1. lapses \subseteq lapses'
      BY <1>3 DEF Handler, C_recv, G_recv, I_recv, Confirm_recv, A_recv, W_recv, Offered
    <2> QED
      BY <1>3, <2>1, HandlerTypes
  <1>4. ASSUME NEW c \in Client, Server(c)
        PROVE  TypeOK' /\ Lines' /\ lapses \subseteq lapses'
    <2>1. lapses \subseteq lapses'
      BY <1>4 DEF Server, Begins, Refuses, PassesOn, Agrees, Cancels, Ignores, Crossed
    <2> QED
      BY <1>4, <2>1, ServerTypes
  <1>5. CASE UNCHANGED vars
    BY <1>5 DEF vars, TypeOK, Lines
  <1> QED
    BY <1>1, <1>2, <1>3, <1>4, <1>5 DEF Next

\* What a step is for the two who trade.
LEMMA StepCases ==
  ASSUME TypeOK, Lines, Sound, [Next]_vars
  PROVE  \/ \E a \in Client : Quiet(a) \/ Opens(a)
         \/ \E a \in Client : \E w, m : Offers(a, w, m)
         \/ \E a \in Client : \E w : Hears(a, w)
         \/ \E a \in Client : Server(a)
  <1>1. ASSUME NEW c \in Client, Handler(c)
        PROVE  Quiet(c) \/ Opens(c) \/ \E w : Hears(c, w)
    <2>1. CASE C_recv(c)
      BY <2>1, BeginOpens, HandlerQuiet
    <2>2. CASE A_recv(c) \/ W_recv(c)
      BY <2>2, HandlerQuiet
    <2>3. CASE G_recv(c) \/ I_recv(c) \/ Confirm_recv(c)
      BY <2>3, RecvHears, HandlerQuiet
    <2> QED
      BY <1>1, <2>1, <2>2, <2>3 DEF Handler
  <1>2. ASSUME UNCHANGED vars
        PROVE  \E a \in Client : Quiet(a)
    <2>1. PICK a \in Client : TRUE
      OBVIOUS
    <2>2. Less(me[a], me[a])
      BY NoLess DEF Sound
    <2>3. me[a] \in Windows /\ me' = [me EXCEPT ![a] = me[a]]
      BY <1>2 DEF TypeOK, vars
    <2> QED
      BY <1>2, <2>2, <2>3 DEF Quiet, vars
  <1> QED
    BY <1>1, <1>2, FrameQuiet, ClickQuiet, ClickOffers DEF Next

LEMMA StepSound ==
  ASSUME IInv, [Next]_vars
  PROVE  IInv'
  <1>1. TypeOK' /\ Lines' /\ lapses \subseteq lapses'
    BY StepTypes DEF IInv
  <1>2. ASSUME "crossed" \notin lapses' PROVE Sound'
    <2>1. TypeOK /\ Lines /\ Sound
      BY <1>1, <1>2 DEF IInv
    <2>2. ASSUME NEW a \in Client, Server(a) PROVE Sound'
      <3>1. CASE Begins(a)
        BY <2>1, <3>1, BeginStarts, StartsKeeps
      <3>2. CASE PassesOn(a)
        BY <1>2, <2>1, <3>2, PassOnPasses, PassesKeeps
      <3>3. CASE Refuses(a) \/ Agrees(a) \/ Cancels(a) \/ Ignores(a)
        BY <1>2, <2>1, <3>3, AnswerKeeps
      <3> QED
        BY <2>2, <3>1, <3>2, <3>3 DEF Server
    <2> QED
      BY <2>1, <2>2, StepCases, QuietKeeps, OpensKeeps, OfferKeeps, HearsKeeps
  <1> QED
    BY <1>1, <1>2 DEF IInv

THEOREM Inductive == Spec => []IInv
  <1>1. Init => IInv
    BY StartSound
  <1>2. IInv /\ [Next]_vars => IInv'
    BY StepSound
  <1> QED
    BY <1>1, <1>2, PTL DEF Spec

\* The windows, the trade and the counters have their types.
THEOREM TypeCorrect == Spec => []TypeOK
  <1>1. IInv => TypeOK
    BY DEF IInv
  <1> QED
    BY <1>1, Inductive, PTL

\* Between the offer and the eyes of who has locked his own, nothing is under
\* way any more.
LEMMA Agreed ==
  ASSUME TypeOK, Lines, Sound, NEW c \in Client, NEW d \in Client \ {c}, NEW k \in Trades,
         "early" \notin lapses, Joined(c, k), Joined(d, k), me[c].confirm = 4
  PROVE  me[c].theirs = me[d].mine
  <1>1. Numbers /\ Engaged /\ LockLast /\ Matched /\ c \in Client \ {d}
    BY DEF Sound
  <1>2. Accepts(c, k) /\ Arrived(c, k) /\ Locked(d, c, k)
    BY DEF Accepts, Arrived, Locked
  <1>3. /\ \A i \in DOMAIN toClient[c] : ~ GoodOf(toClient[c][i], k)
        /\ \A i \in DOMAIN toServer[d] : ~ GoodOf(toServer[d][i], k)
    BY <1>1, <1>2 DEF LockLast
  <1>4. me[d].confirm \in {2, 4}
    BY <1>1, <1>2 DEF LockLast, Joined, Heard
  <1>5. Ready(c) /\ Ready(d)
    <2>1. \A e \in Client : Heard(e) /\ me[e].open /\ ~ me[e].wnd => me[e].confirm \in {1, 3}
      BY <1>1 DEF Engaged
    <2> QED
      BY <1>4, <2>1 DEF Ready, Joined
  <1>6. Match(d, c, k)
    BY <1>1, <1>4 DEF Matched, Settled
  <1>7. AllItems(d, c, k) /\ AllGold(d, c, k)
    BY <1>2, <1>6 DEF Match
  <1>8. Seen(c, k) = me[c].theirs /\ Given(d, k) = me[d].mine
    BY <1>5 DEF Seen, Given
  <1>9. me[c].theirs.item = me[d].mine.item
    BY <1>3, <1>7, <1>8 DEF AllItems, Item, GoodOf
  <1>10. me[c].theirs.gold = me[d].mine.gold
    BY <1>3, <1>7, <1>8 DEF AllGold, Gold, GoodOf
  <1>11. me[c].theirs \in Goods /\ me[d].mine \in Goods
    BY Typed
  <1> QED
    BY <1>9, <1>10, <1>11 DEF Goods

\* When both have locked their offers as far as a player can see, the goods he
\* is asked to confirm are those the other has offered.
THEOREM GoodsAgree == Spec => []SameGoods
  <1>1. ASSUME IInv PROVE SameGoods
    <2> SUFFICES ASSUME NEW c \in Client, Together(c), me[c].confirm = 4,
                        lapses \cap {"early", "crossed"} = {}
                 PROVE  me[c].theirs = me[Other(c)].mine
      BY DEF SameGoods
    <2>1. TypeOK /\ Lines /\ Sound /\ "early" \notin lapses
      BY <1>1 DEF IInv
    <2>2. PICK d \in Client \ {c} : d = Other(c)
      BY Partner
    <2>3. PICK k \in Trades : me[c].no = k
      BY <2>1, Typed
    <2>4. Joined(c, k) /\ Joined(d, k)
      BY <2>2, <2>3 DEF Together, Joined
    <2> QED
      BY <2>1, <2>2, <2>4, Agreed
  <1> QED
    BY <1>1, Inductive, PTL

\* What a player is asked to confirm does not change under his hand.
LEMMA StaysSealed ==
  ASSUME IInv, [Next]_vars, NEW c \in Client, Heard(c), me[c].confirm = 4, Heard(c)',
         "crossed" \notin lapses'
  PROVE  me'[c].mine = me[c].mine /\ me'[c].theirs = me[c].theirs
  <1>1. TypeOK /\ Lines /\ Sound /\ me \in [Client -> Windows]
    BY StepTypes DEF IInv, TypeOK
  <1>2. Engaged /\ InOrder /\ LockLast
    BY <1>1 DEF Sound
  <1>3. ~ (me[c].open /\ ~ me[c].wnd)
    BY <1>2 DEF Engaged
  <1>4. ASSUME NEW a \in Client, Quiet(a)
        PROVE  me'[c].mine = me[c].mine /\ me'[c].theirs = me[c].theirs
    <2>1. PICK w \in Windows : me' = [me EXCEPT ![a] = w] /\ Less(me[a], w)
      BY <1>4 DEF Quiet
    <2>2. CASE a = c
      BY <1>1, <1>3, <2>1, <2>2 DEF Less, Heard
    <2> QED
      BY <1>1, <2>1, <2>2
  <1>5. ASSUME NEW a \in Client, Opens(a)
        PROVE  me'[c].mine = me[c].mine /\ me'[c].theirs = me[c].theirs
    BY <1>1, <1>5 DEF Opens, Heard
  <1>6. ASSUME NEW a \in Client, NEW w, NEW m, Offers(a, w, m)
        PROVE  me'[c].mine = me[c].mine /\ me'[c].theirs = me[c].theirs
    <2>1. a # c /\ me' = [me EXCEPT ![a] = w]
      BY <1>6 DEF Offers
    <2> QED
      BY <1>1, <2>1
  <1>7. ASSUME NEW a \in Client, NEW w, Hears(a, w)
        PROVE  me'[c].mine = me[c].mine /\ me'[c].theirs = me[c].theirs
    <2>1. me' = [me EXCEPT ![a] = w] /\ w.mine = me[a].mine
      BY <1>7 DEF Hears
    <2>2. CASE a = c
      <3>1. /\ toClient[c][1].no = me[c].no /\ 1 \in DOMAIN toClient[c] /\ me[c].no \in Trades
        BY <1>1, <1>2, <1>7, <2>2, OwnTrade, Typed DEF Hears, Drops
      <3>2. Accepts(c, me[c].no)
        BY DEF Accepts, Joined
      <3>3. toClient[c][1].m \notin {"G", "I"}
        BY <1>2, <3>1, <3>2 DEF LockLast, GoodOf
      <3>4. w.theirs = me[c].theirs
        BY <1>7, <2>2, <3>3 DEF Hears
      <3> QED
        BY <1>1, <2>1, <2>2, <3>4
    <2> QED
      BY <1>1, <2>1, <2>2
  <1>8. ASSUME NEW a \in Client, Server(a)
        PROVE  me'[c].mine = me[c].mine /\ me'[c].theirs = me[c].theirs
    BY <1>1, <1>8, ServerReads DEF Reading
  <1> QED
    BY <1>1, <1>4, <1>5, <1>6, <1>7, <1>8, StepCases

\* No key, no click and no message changes the goods between the two locks and
\* the OK: for every step, and whatever is under way.
THEOREM OffersSealed == Spec => Sealed
  <1> DEFINE Holds == \A c \in Client :
                 Heard(c) /\ me[c].confirm = 4 /\ Heard(c)' /\ "crossed" \notin lapses'
                     => UNCHANGED <<me[c].mine, me[c].theirs>>
  <1>1. IInv /\ [Next]_vars => Holds
    BY StaysSealed
  <1>2. IInv /\ [Next]_vars => [Holds]_vars
    BY <1>1
  <1> QED
    BY <1>2, Inductive, PTL DEF Spec, Sealed

=============================================================================
