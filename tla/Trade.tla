------------------------------- MODULE Trade -------------------------------
(* Trading between two players: two clients, each with the trade window and *)
(* its keys (menu.cpp), the handler of TD (lssproto_TD_recv), and a server  *)
(* that passes on what they say.  Every frame the client handles messages   *)
(* first and draws the menu, with its keys and clicks, afterwards.          *)
(* Goods are what matters to the protocol: gold, which is offered once, and *)
(* a pile of items, of which every double click offers one more.            *)
(* trade_confirm: 1, 3 when the other has locked his offer, 2 when oneself  *)
(* has, 4 when both have.                                                   *)
EXTENDS Naturals, Sequences

CONSTANTS Client,      \* the two players
          Owns,        \* [Client -> Goods]: pc.gold, and pc.item[].pile
          MaxTrades,   \* bound: trades
          MaxMoves,    \* bound: requests, cancels, keys and interruptions
          MaxSent      \* bound: messages on the way, each way

Goods == [gold : 0 .. 1, item : Nat]

ASSUME TradeAssumption == /\ \E a, b \in Client : a # b /\ Client = {a, b}
                          /\ Owns \in [Client -> Goods]
                          /\ MaxTrades \in Nat /\ MaxMoves \in Nat /\ MaxSent \in Nat

VARIABLES me,        \* the trade as a client has it
          toServer, toClient,   \* messages on the way, by client
          server,    \* the trade as the server has it
          moves,     \* bound: those made
          lapses     \* history: what went wrong so far

vars == <<me, toServer, toClient, server, moves, lapses>>

Other(c) == CHOOSE d \in Client : d # c

Nothing == [gold |-> 0, item |-> 0]

(* status: tradeStatus; confirm: pc.trade_confirm; open: MenuToggleFlag &    *)
(* JOY_CTRL_T; wnd: pActMenuWnd4 # NULL; named: opp_sockfd and opp_name name *)
(* the other player; mine, theirs: tradeList 1 to 21 (and itemflag, what is  *)
(* left of the pile) and 22 to 42; gold: tradeWndDropGoldGet # 0; no:        *)
(* history, the trade it is in.                                              *)
Windows == [status : 0 .. 2, confirm : 0 .. 4, open : BOOLEAN, wnd : BOOLEAN, named : BOOLEAN,
            mine : Goods, theirs : Goods, gold : BOOLEAN, no : 0 .. MaxTrades]

(* trading: the two are in a trade; no: its number; ok: who has said OK.     *)
Servers == [trading : BOOLEAN, no : 0 .. MaxTrades, ok : SUBSET Client]

(* early: an offer came before the window was set up; crossed: a message of  *)
(* an earlier trade was taken for one of the trade under way; forgotten:     *)
(* Ctrl+T in a trade, which no longer knows its partner.                     *)
Lapses == {"early", "crossed", "forgotten"}

Init == /\ me = [c \in Client |->
                   [status |-> 0, confirm |-> 0, open |-> FALSE, wnd |-> FALSE, named |-> FALSE,
                    mine |-> Nothing, theirs |-> Nothing, gold |-> FALSE, no |-> 0]]
        /\ toServer = [c \in Client |-> <<>>]
        /\ toClient = [c \in Client |-> <<>>]
        /\ server = [trading |-> FALSE, no |-> 0, ok |-> {}]
        /\ moves = 0
        /\ lapses = {}
----------------------------------------------------------------------------
(* What the parts of the menu make of a window w.                           *)

\* "T|...", "W|...": to the player opp_sockfd and opp_name name.
Say(w, kind) == [m |-> kind, named |-> w.named, no |-> w.no]

TradeInit(w) == [w EXCEPT !.wnd = FALSE, !.named = FALSE, !.gold = FALSE]

(* tradeStatus = 0, tradeInit and trade_confirm = 1, after the W. *)
GivenUp(w) == [TradeInit(w) EXCEPT !.status = 0, !.confirm = 1]

(* The window is set up, and the lists with it. *)
SetUp(w) == [w EXCEPT !.wnd = TRUE, !.mine = Nothing, !.theirs = Nothing]

\* (mutant: a window that is closed otherwise than by its button is not told of)
WindowPartSilent(w) ==
    IF w.open THEN [w |-> IF w.wnd THEN w ELSE SetUp(w), sent |-> <<>>]
    ELSE IF w.status # 0 THEN [w |-> GivenUp(w), sent |-> <<>>]
    ELSE [w |-> w, sent |-> <<>>]

(* The trade window's part of WindowDisp, without a click. *)
WindowPart(w) ==
    IF w.open THEN [w |-> IF w.wnd THEN w ELSE SetUp(w), sent |-> <<>>]
    ELSE IF w.status # 0 THEN [w |-> GivenUp(w), sent |-> <<Say(w, "W")>>]
    ELSE [w |-> w, sent |-> <<>>]

(* The keys come before it in the same frame.  Ctrl+T forgets the partner    *)
(* first; another window shuts this one, with its action or without.         *)
KeyT(w) == [TradeInit(w) EXCEPT !.open = ~ @]
KeyOther(w, kept) == [w EXCEPT !.open = FALSE, !.wnd = w.wnd /\ kept]

Pressed(w) == {w, KeyT(w), KeyOther(w, TRUE), KeyOther(w, FALSE)}

MayTell(c) == Len(toServer[c]) < MaxSent

Tell(c, msgs) == toServer' = [toServer EXCEPT ![c] = @ \o msgs]

Move == /\ moves < MaxMoves
        /\ moves' = moves + 1

(* A frame of the menu with a key or none. *)
Frame(c, w) ==
    LET o == WindowPart(w)
    IN /\ IF w = me[c] THEN UNCHANGED moves ELSE Move /\ MayTell(c)
       /\ o.w # me[c]
       /\ me' = [me EXCEPT ![c] = o.w]
       /\ Tell(c, o.sent)
       /\ lapses' = lapses \cup (IF w.status # 0 /\ ~ w.named THEN {"forgotten"} ELSE {})
       /\ UNCHANGED <<toClient, server>>

(* InitMenu, InitMenu2: an encounter, a new screen, a window of the field.   *)
InitMenu(c) ==
    /\ Move
    /\ me' = [me EXCEPT ![c] = [@ EXCEPT !.open = FALSE, !.wnd = FALSE]]
    /\ UNCHANGED <<toServer, toClient, server, lapses>>

(* A click on the window, which is drawn. *)
Click(c) == me[c].open /\ me[c].wnd /\ MayTell(c)

Clicked(c, w, sent) == /\ me' = [me EXCEPT ![c] = w]
                       /\ Tell(c, sent)
                       /\ UNCHANGED <<toClient, server>>

CancelButton(c) ==
    /\ Click(c)
    /\ Move
    /\ Clicked(c, [GivenUp(me[c]) EXCEPT !.open = FALSE], <<Say(me[c], "W")>>)
    /\ UNCHANGED lapses

(* LockAndOkfunction *)
Lock(c) ==
    /\ Click(c)
    /\ me[c].confirm \in {1, 3}
    /\ Clicked(c, [me[c] EXCEPT !.confirm = @ + 1], <<Say(me[c], "Confirm")>>)
    /\ UNCHANGED <<moves, lapses>>

Ok(c) ==
    /\ Click(c)
    /\ me[c].confirm = 4
    /\ IF me[c].status = 2 THEN Move ELSE UNCHANGED moves
    /\ Clicked(c, [me[c] EXCEPT !.status = 2], <<Say(me[c], "K")>>)
    /\ UNCHANGED lapses

\* (mutant: only the player who has locked first is held to it)
MayOfferLate(c) == Click(c) /\ me[c].status = 1 /\ me[c].confirm # 2

MayOffer(c) == Click(c) /\ me[c].status = 1 /\ me[c].confirm \notin {2, 4}

PutGold(c) ==
    /\ MayOffer(c)
    /\ me[c].mine.gold < Owns[c].gold
    /\ Clicked(c, [me[c] EXCEPT !.mine.gold = 1], <<Say(me[c], "G")>>)
    /\ UNCHANGED <<moves, lapses>>

(* One more of the pile; the server counts them. *)
PutItem(c) ==
    /\ MayOffer(c)
    /\ me[c].mine.item < Owns[c].item
    /\ Clicked(c, [me[c] EXCEPT !.mine.item = @ + 1],
               <<[m |-> "I", named |-> me[c].named, no |-> me[c].no, n |-> me[c].mine.item + 1]>>)
    /\ UNCHANGED <<moves, lapses>>

(* The trade button of the field: "D|D". *)
Ask(c) ==
    /\ MayTell(c)
    /\ Tell(c, <<[m |-> "D"]>>)
    /\ Move
    /\ UNCHANGED <<me, toClient, server, lapses>>
----------------------------------------------------------------------------
(* lssproto_TD_recv.                                                        *)
Receive(c, kind) == /\ toClient[c] # <<>>
                    /\ Head(toClient[c]).m = kind
                    /\ toClient' = [toClient EXCEPT ![c] = Tail(@)]
                    /\ UNCHANGED <<server, moves>>

Handled(c, w, sent) == /\ me' = [me EXCEPT ![c] = w]
                       /\ Tell(c, sent)

(* C: a trade begins, or does not; not looked at in a trade. *)
C_recv(c) ==
    /\ Receive(c, "C")
    /\ LET named == [me[c] EXCEPT !.named = TRUE]
           msg == Head(toClient[c])
       IN Handled(c, IF me[c].status # 0 THEN me[c]
                     ELSE IF ~ msg.yes THEN named
                     ELSE [named EXCEPT !.status = 1, !.open = TRUE, !.confirm = 1, !.no = msg.no],
                  <<>>)
    /\ UNCHANGED lapses

(* T: of a trade under way, and of the partner. *)
Heard(c) == me[c].status # 0 /\ me[c].named

Offered(c) == lapses' = lapses \cup (IF Heard(c) /\ ~ me[c].wnd THEN {"early"} ELSE {})

(* T G: gold a second time is taken for a fraud (_CHANGETRADERULE): the      *)
(* window is shut, and the rest is left to its part of WindowDisp.           *)
G_recv(c) ==
    /\ Receive(c, "G")
    /\ IF ~ Heard(c) THEN Handled(c, me[c], <<>>)
       ELSE IF me[c].gold THEN Handled(c, [me[c] EXCEPT !.open = ~ @], <<Say(me[c], "W")>>)
       ELSE Handled(c, [me[c] EXCEPT !.theirs.gold = 1, !.gold = TRUE], <<>>)
    /\ Offered(c)

I_recv(c) ==
    /\ Receive(c, "I")
    /\ Handled(c, IF Heard(c) THEN [me[c] EXCEPT !.theirs.item = Head(toClient[c]).n] ELSE me[c],
               <<>>)
    /\ Offered(c)

\* (mutant: the other's lock counts for both)
Confirm_recvBoth(c) ==
    /\ Receive(c, "Confirm")
    /\ Handled(c, IF Heard(c) THEN [me[c] EXCEPT !.confirm = IF @ \in {1, 2} THEN 4 ELSE @]
                  ELSE me[c], <<>>)
    /\ UNCHANGED lapses

Confirm_recv(c) ==
    /\ Receive(c, "Confirm")
    /\ Handled(c, IF Heard(c) THEN [me[c] EXCEPT !.confirm = IF @ \in {1, 2} THEN @ + 2 ELSE @]
                  ELSE me[c], <<>>)
    /\ UNCHANGED lapses

(* A: the other has said OK. *)
A_recv(c) ==
    /\ Receive(c, "A")
    /\ Handled(c, IF Heard(c) THEN [me[c] EXCEPT !.status = 2] ELSE me[c], <<>>)
    /\ UNCHANGED lapses

(* W: the trade is over.  The window is switched, not shut. *)
W_recv(c) ==
    /\ Receive(c, "W")
    /\ Handled(c, IF me[c].named THEN [GivenUp(me[c]) EXCEPT !.open = ~ @] ELSE me[c], <<>>)
    /\ UNCHANGED lapses

Handler(c) == C_recv(c) \/ G_recv(c) \/ I_recv(c) \/ Confirm_recv(c) \/ A_recv(c) \/ W_recv(c)
----------------------------------------------------------------------------
(* The server, as the clients expect it (external).  It passes on what a     *)
(* player of a trade says to the other; it may know the other by itself when *)
(* a cancel names nobody.                                                    *)
Reads(c, kinds) == /\ toServer[c] # <<>>
                   /\ Head(toServer[c]).m \in kinds
                   /\ \A d \in Client : Len(toClient[d]) < MaxSent
                   /\ toServer' = [toServer EXCEPT ![c] = Tail(@)]
                   /\ UNCHANGED <<me, moves>>

ToBoth(msg) == toClient' = [d \in Client |-> Append(toClient[d], msg)]
ToOther(c, msg) == toClient' = [toClient EXCEPT ![Other(c)] = Append(@, msg)]

Crossed(c) == lapses' = lapses \cup (IF Head(toServer[c]).no # server.no THEN {"crossed"} ELSE {})

Begins(c) ==
    /\ Reads(c, {"D"})
    /\ ~ server.trading
    /\ server.no < MaxTrades
    /\ server' = [trading |-> TRUE, no |-> server.no + 1, ok |-> {}]
    /\ ToBoth([m |-> "C", yes |-> TRUE, no |-> server.no + 1])
    /\ UNCHANGED lapses

Refuses(c) ==
    /\ Reads(c, {"D"})
    /\ toClient' = [toClient EXCEPT ![c] = Append(@, [m |-> "C", yes |-> FALSE])]
    /\ UNCHANGED <<server, lapses>>

InTrade(c) == server.trading /\ Head(toServer[c]).named

PassesOn(c) ==
    /\ Reads(c, {"G", "I", "Confirm"})
    /\ InTrade(c)
    /\ ToOther(c, Head(toServer[c]))
    /\ Crossed(c)
    /\ UNCHANGED server

(* K: when both agree the goods change hands, and the trade is over. *)
Agrees(c) ==
    /\ Reads(c, {"K"})
    /\ InTrade(c)
    /\ LET ok == server.ok \cup {c}
       IN IF ok = Client
          THEN /\ server' = [server EXCEPT !.trading = FALSE, !.ok = {}]
               /\ ToBoth([m |-> "W"])
          ELSE /\ server' = [server EXCEPT !.ok = ok]
               /\ ToOther(c, [m |-> "A"])
    /\ Crossed(c)

Cancels(c) ==
    /\ Reads(c, {"W"})
    /\ server.trading
    /\ server' = [server EXCEPT !.trading = FALSE, !.ok = {}]
    /\ ToOther(c, [m |-> "W"])
    /\ Crossed(c)

Ignores(c) ==
    /\ Reads(c, {"G", "I", "Confirm", "K", "W"})
    /\ ~ InTrade(c)
    /\ UNCHANGED <<toClient, server, lapses>>

Server(c) == Begins(c) \/ Refuses(c) \/ PassesOn(c) \/ Agrees(c) \/ Cancels(c) \/ Ignores(c)

Next == \E c \in Client :
           \/ \E w \in Pressed(me[c]) : Frame(c, w)
           \/ InitMenu(c)
           \/ CancelButton(c) \/ Lock(c) \/ Ok(c) \/ PutGold(c) \/ PutItem(c)
           \/ Ask(c)
           \/ Handler(c)
           \/ Server(c)

(* Frames go on, messages arrive and are answered. *)
Fairness == \A c \in Client : WF_vars(Frame(c, me[c])) /\ WF_vars(Handler(c)) /\ WF_vars(Server(c))

Spec == Init /\ [][Next]_vars /\ Fairness
----------------------------------------------------------------------------
TypeOK == /\ me \in [Client -> Windows]
          /\ server \in Servers
          /\ moves \in 0 .. MaxMoves
          /\ lapses \subseteq Lapses

(* Both have the same trade open, and know each other. *)
Together(c) == /\ me[c].no = me[Other(c)].no
               /\ \A d \in Client : Heard(d)

(* When both have locked their offers as far as a player can see, the goods  *)
(* he is asked to confirm are those the other has offered; unless an offer   *)
(* came before his window, or from an earlier trade.                         *)
SameGoods == \A c \in Client :
    Together(c) /\ me[c].confirm = 4 /\ lapses \cap {"early", "crossed"} = {}
        => me[c].theirs = me[Other(c)].mine

(* What a player is asked to confirm does not change under his hand: unless  *)
(* a message of an earlier trade comes in.                                   *)
Sealed == [][\A c \in Client :
    Heard(c) /\ me[c].confirm = 4 /\ Heard(c)' /\ "crossed" \notin lapses'
        => UNCHANGED <<me[c].mine, me[c].theirs>>]_vars

(* Who gives up a trade ends it for the other too, also by another window or *)
(* an encounter: unless Ctrl+T has made one of them forget its partner, or a *)
(* message of an earlier trade comes in.                                     *)
CancelEndsBoth == \A c \in Client :
    (me[c].status # 0 /\ me[Other(c)].status = 0 /\ me[c].no = me[Other(c)].no)
        ~> (\/ me[c].status = 0 \/ me[c].no # me[Other(c)].no
            \/ lapses \cap {"crossed", "forgotten"} # {})
=============================================================================
