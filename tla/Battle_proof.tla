----------------------------- MODULE Battle_proof -----------------------------
(***************************************************************************)
(* What the battle screens show, and when they are left, for any size of   *)
(* the receive buffers and any number of battles and turns; that both      *)
(* buffers are used as BattleRing assumes; and, in the second part, the    *)
(* commands a turn's input sends (BattleMenu).                             *)
(***************************************************************************)
EXTENDS Battle, BattleMenu, FiniteSetTheorems, SequenceTheorems, TLAPS

Kind(i) == wire[i][1]
Of(i) == wire[i][2]

\* The theorems about one buffer, for each of the two.
StatusRing == INSTANCE BattleRing_proof WITH bak <- sBak, read <- sRead, write <- sWrite,
                                             cur <- sCur, Msg <- Shown
CmdRing == INSTANCE BattleRing_proof WITH bak <- cBak, read <- cRead, write <- cWrite,
                                          cur <- cCur, Msg <- Shown

\* The battles of the lines on the wire: an EN begins the next one.
Ordered ==
    /\ Announced \in 0..srv.battle
    /\ wire # <<>> =>
        /\ Of(1).battle = IF Kind(1) = "EN" THEN Announced + 1 ELSE Announced
        /\ Of(Len(wire)).battle = srv.battle
    /\ \A i \in 1..Len(wire) - 1 :
          Of(i + 1).battle = IF Kind(i + 1) = "EN" THEN Of(i).battle + 1 ELSE Of(i).battle
    /\ \A i, j \in 1..Len(wire) :
          i < j => /\ Of(i).battle =< Of(j).battle
                   /\ Kind(j) = "EN" => Of(i).battle < Of(j).battle

\* The server is never more than Ahead messages in front of the screen.
Lines(kind, b) == {i \in DOMAIN wire : Kind(i) = kind /\ Of(i).battle = b}
Room ==
    /\ StatusRing!IInv /\ CmdRing!IInv
    /\ \A b \in Battles :
          /\ Cardinality(Lines("BC", b)) + (IF b = Announced THEN Status!Backlog ELSE 0) =< Ahead
          /\ Cardinality(Lines("BM", b)) + (IF b = Announced THEN Cmd!Backlog ELSE 0) =< Ahead

\* A message that ends the server's battle has been sent by a server that has
\* ended it.
Messages ==
    {sBak[s] : s \in DOMAIN sBak} \cup {cBak[s] : s \in DOMAIN cBak}
        \cup {sCur, cCur} \cup {Of(i) : i \in DOMAIN wire}
Over == srv.phase \in {"over", "map"}
Endings ==
    /\ \A m \in Messages : m.battle =< srv.battle /\ (m.ends /\ m.battle = srv.battle => Over)
    /\ \A i \in DOMAIN wire : Kind(i) = "BU" /\ Of(i).battle = srv.battle => srv.bu
    /\ BattleEscFlag =< srv.battle
    /\ BattleEscFlag = srv.battle /\ BattleEscFlag # 0 => srv.bu
    /\ srv.bu => Over
    /\ srv.battle = 0 => srv.phase = "map"

\* Where the client is with respect to the server, as long as no battle was
\* entered twice.
Fighting == ProcNo = "BATTLE" \/ SubProcNo \in {4, 5}
Leaving == InBattle({OUT_PRODUCE_INIT, OUT_PRODUCE})
Abreast ==
    /\ ProcNo = "GAME" => SubProcNo \in {1, 3, 4, 5}
    /\ entered =< Announced
    /\ ~phantom =>
        /\ srv.battle \in {entered, entered + 1}
        /\ Fighting => srv.battle = entered /\ ~eo /\ srv.phase # "map"
        /\ ~Fighting /\ srv.battle = entered => srv.phase = IF eo THEN "over" ELSE "map"
        /\ srv.battle = entered + 1 => ~eo /\ srv.phase # "map"
        /\ Leaving => srv.phase = "over"
        /\ InBattle(IN_PRODUCE..OUT_PRODUCE) /\ BattleEscFlag # 0 => BattleEscFlag = srv.battle

\* The states and movies of the server's battle, on the screen, in the
\* buffers and on the wire, are one sequence each, turn by turn.
TurnsOf(kind) == {Of(i).turn : i \in Lines(kind, srv.battle)}
Shows == IF Fighting THEN movies ELSE 0
Follow(kind, first, unread, heads) ==
    LET lo == IF Announced = srv.battle THEN first + Len(unread) ELSE 0
    IN  /\ Announced = srv.battle =>
              \A i \in 1..Len(unread) :
                  unread[i].battle = srv.battle /\ unread[i].turn = first + i - 1
        /\ \A i, j \in Lines(kind, srv.battle) : i < j => Of(i).turn < Of(j).turn
        /\ \E h \in heads : lo =< h /\ TurnsOf(kind) = lo..h - 1
StatesSent == CASE srv.phase = "state" -> {srv.turn}
                [] srv.phase = "input" -> {srv.turn + 1}
                [] OTHER -> {srv.turn, srv.turn + 1}
MoviesSent == IF Over THEN {srv.turn, srv.turn + 1} ELSE {srv.turn}
StatesRead == Shows + (IF InBattle(CHAR_IN..MOVIE) THEN 1 ELSE 0)
MoviesRead == Shows + (IF InBattle({MOVIE}) THEN 1 ELSE 0)
Current == ~phantom /\ ~Leaving /\ (Fighting \/ srv.battle # entered)
TurnByTurn ==
    Current => /\ Follow("BC", StatesRead, Status!Unread, StatesSent)
               /\ Follow("BM", MoviesRead, Cmd!Unread, MoviesSent)

\* EncountFlag is up for an EN not yet entered or a state not yet read.
Answered ==
    ~early =>
        /\ ~phantom
        /\ EncountFlag /\ entered = Announced
            => Fighting /\ (ProcNo = "BATTLE" => SubProcNo \in INIT..RECEIVE_BC)

IInv == TypeOK /\ Ordered /\ Room /\ Endings /\ Abreast /\ InStep /\ TurnByTurn /\ Answered /\ TurnAgrees

-----------------------------------------------------------------------------
(* Counting the lines on the wire.                                         *)

Count(s, P) == Cardinality({i \in DOMAIN s : s[i] \in P})

LEMMA CountFinite ==
  ASSUME NEW s \in Seq(Line), NEW P
  PROVE  IsFiniteSet({i \in DOMAIN s : s[i] \in P}) /\ Count(s, P) \in Nat
  <1>1. DOMAIN s = 1..Len(s) /\ Len(s) \in Nat
    OBVIOUS
  <1>2. IsFiniteSet(1..Len(s))
    BY <1>1, FS_Interval
  <1>3. {i \in DOMAIN s : s[i] \in P} \subseteq 1..Len(s)
    BY <1>1
  <1>4. IsFiniteSet({i \in DOMAIN s : s[i] \in P})
    BY <1>2, <1>3, FS_Subset
  <1> QED
    BY <1>4, FS_CardinalityType DEF Count

LEMMA CountAppend ==
  ASSUME NEW s \in Seq(Line), NEW l \in Line, NEW P
  PROVE  Count(Append(s, l), P) = Count(s, P) + (IF l \in P THEN 1 ELSE 0)
  <1> DEFINE t == Append(s, l)
             A == {i \in DOMAIN s : s[i] \in P}
             B == {i \in DOMAIN t : t[i] \in P}
  <1>1. /\ DOMAIN s = 1..Len(s) /\ DOMAIN t = 1..Len(s) + 1 /\ Len(s) \in Nat
        /\ t[Len(s) + 1] = l /\ \A i \in 1..Len(s) : t[i] = s[i]
    OBVIOUS
  <1>2. IsFiniteSet(A) /\ Count(s, P) \in Nat /\ Cardinality(A) = Count(s, P)
    BY CountFinite DEF Count
  <1>3. Count(Append(s, l), P) = Cardinality(B)
    BY DEF Count
  <1> HIDE DEF t
  <1>4. CASE l \in P
    <2>1. B = A \cup {Len(s) + 1} /\ Len(s) + 1 \notin A
      BY <1>1, <1>4
    <2> HIDE DEF A, B
    <2>2. Cardinality(B) = Cardinality(A) + 1
      BY <1>2, <2>1, FS_AddElement
    <2> QED
      BY <1>2, <1>4, <1>3, <2>2
  <1>5. CASE l \notin P
    <2>1. B = A
      BY <1>1, <1>5
    <2> HIDE DEF A, B
    <2> QED
      BY <1>2, <1>5, <1>3, <2>1
  <1> QED
    BY <1>4, <1>5

LEMMA CountTail ==
  ASSUME NEW s \in Seq(Line), s # <<>>, NEW P
  PROVE  Count(Tail(s), P) = Count(s, P) - (IF Head(s) \in P THEN 1 ELSE 0)
  <1> DEFINE t == Tail(s)
             A == {i \in DOMAIN t : t[i] \in P}
             B == {i \in DOMAIN s : s[i] \in P}
             C == {i \in B : i # 1}
             f == [i \in A |-> i + 1]
  <1>1. /\ t \in Seq(Line)
        /\ DOMAIN s = 1..Len(s) /\ DOMAIN t = 1..Len(s) - 1 /\ Len(s) \in Nat \ {0}
        /\ Head(s) = s[1] /\ \A i \in 1..Len(s) - 1 : t[i] = s[i + 1]
    OBVIOUS
  <1>2. /\ IsFiniteSet(B) /\ Cardinality(B) = Count(s, P) /\ Count(s, P) \in Nat
        /\ IsFiniteSet(A) /\ Cardinality(A) = Count(t, P) /\ Count(t, P) \in Nat
    BY <1>1, CountFinite DEF Count
  <1> HIDE DEF t
  <1>3. f \in Bijection(A, C)
    <2>1. \A i \in A : i + 1 \in C
      BY <1>1
    <2>2. \A i, j \in A : i + 1 = j + 1 => i = j
      BY <1>1
    <2>3. ASSUME NEW k \in C PROVE \E i \in A : k = i + 1
      <3>1. k - 1 \in A /\ k = (k - 1) + 1
        BY <1>1, <2>3
      <3> QED
        BY <3>1
    <2> HIDE DEF A, C
    <2>4. f \in [A -> C]
      BY <2>1
    <2>5. \A i, j \in A : f[i] = f[j] => i = j
      BY <2>2
    <2>6. \A k \in C : \E i \in A : f[i] = k
      BY <2>3
    <2> QED
      BY <2>4, <2>5, <2>6 DEF Bijection, Injection, Surjection, IsInjective
  <1> HIDE DEF f
  <1>4. Cardinality(A) = Cardinality(C)
    <2> HIDE DEF A, C
    <2> QED
      BY <1>2, <1>3, FS_Bijection DEF ExistsBijection
  <1>5. CASE Head(s) \in P
    <2>1. 1 \in B /\ C = B \ {1}
      BY <1>1, <1>5
    <2> HIDE DEF B, C
    <2>2. Cardinality(C) = Cardinality(B) - 1
      BY <1>2, <2>1, FS_RemoveElement
    <2> QED
      BY <1>2, <1>4, <1>5, <2>2 DEF t
  <1>6. CASE Head(s) \notin P
    <2>1. C = B
      BY <1>1, <1>6
    <2> HIDE DEF A, B, C
    <2> QED
      BY <1>2, <1>4, <1>6, <2>1 DEF t
  <1> QED
    BY <1>5, <1>6

Announcements == {l \in Line : l[1] = "EN"}
About(kind, b) == {l \in Line : l[1] = kind /\ l[2].battle = b}

\* What the model counts, in these terms.
LEMMA Counted ==
  ASSUME wire \in Seq(Line)
  PROVE  /\ Announced = srv.battle - Count(wire, Announcements)
         /\ \A kind, b : Cardinality(Lines(kind, b)) = Count(wire, About(kind, b))
         /\ Count(wire, Announcements) \in Nat
         /\ \A kind, b : Count(wire, About(kind, b)) \in Nat
  <1>1. \A i \in DOMAIN wire : wire[i] \in Line
    OBVIOUS
  <1>2. {i \in DOMAIN wire : wire[i][1] = "EN"} = {i \in DOMAIN wire : wire[i] \in Announcements}
    BY <1>1 DEF Announcements
  <1>3. ASSUME NEW kind, NEW b
        PROVE  Lines(kind, b) = {i \in DOMAIN wire : wire[i] \in About(kind, b)}
    BY <1>1 DEF Lines, Kind, Of, About
  <1> QED
    BY <1>2, <1>3, CountFinite DEF Announced, Count

LEMMA CountedNext ==
  ASSUME wire' \in Seq(Line)
  PROVE  /\ Announced' = srv'.battle - Count(wire', Announcements)
         /\ \A kind, b : Cardinality(Lines(kind, b)') = Count(wire', About(kind, b))
  <1>1. \A i \in DOMAIN wire' : wire'[i] \in Line
    OBVIOUS
  <1>2. {i \in DOMAIN wire' : wire'[i][1] = "EN"} = {i \in DOMAIN wire' : wire'[i] \in Announcements}
    BY <1>1 DEF Announcements
  <1>3. ASSUME NEW kind, NEW b
        PROVE  Lines(kind, b)' = {i \in DOMAIN wire' : wire'[i] \in About(kind, b)}
    BY <1>1 DEF Lines, Kind, Of, About
  <1> QED
    BY <1>2, <1>3 DEF Announced, Count

-----------------------------------------------------------------------------
(* The buffers.                                                            *)

LEMMA Sizes ==
  /\ BATTLE_BUF_SIZE \in Nat \ {0} /\ MaxBattles \in Nat \ {0}
  /\ MaxTurn \in Nat /\ MaxBA \in Nat /\ Ahead \in Nat /\ Ahead < BATTLE_BUF_SIZE
  /\ StatusRing!SizeAssumption /\ StatusRing!AheadAssumption
  /\ CmdRing!SizeAssumption /\ CmdRing!AheadAssumption
  BY BoundsAssumption DEF StatusRing!SizeAssumption, StatusRing!AheadAssumption,
     CmdRing!SizeAssumption, CmdRing!AheadAssumption

\* BattleRing_proof is about the buffers of Battle.
LEMMA SameStatus ==
  /\ StatusRing!Backlog = Status!Backlog /\ StatusRing!Unread = Status!Unread
  /\ StatusRing!TypeOK <=> Status!TypeOK
  /\ \A m : StatusRing!Write(m) <=> Status!Write(m)
  /\ StatusRing!Take <=> Status!Take
  /\ StatusRing!Reset <=> Status!Reset
  BY DEF StatusRing!Backlog, Status!Backlog, StatusRing!Unread, Status!Unread,
     StatusRing!SlotOf, Status!SlotOf, StatusRing!TypeOK, Status!TypeOK, StatusRing!Slots,
     Status!Slots, StatusRing!Write, Status!Write, StatusRing!Succ, Status!Succ,
     StatusRing!Take, Status!Take, StatusRing!NonEmpty, Status!NonEmpty, StatusRing!Reset,
     Status!Reset

LEMMA SameStatusNext ==
  /\ StatusRing!Backlog' = Status!Backlog' /\ StatusRing!Unread' = Status!Unread'
  BY DEF StatusRing!Backlog, Status!Backlog, StatusRing!Unread, Status!Unread,
     StatusRing!SlotOf, Status!SlotOf

LEMMA SameCmd ==
  /\ CmdRing!Backlog = Cmd!Backlog /\ CmdRing!Unread = Cmd!Unread
  /\ CmdRing!TypeOK <=> Cmd!TypeOK
  /\ \A m : CmdRing!Write(m) <=> Cmd!Write(m)
  /\ CmdRing!Take <=> Cmd!Take
  /\ CmdRing!Reset <=> Cmd!Reset
  BY DEF CmdRing!Backlog, Cmd!Backlog, CmdRing!Unread, Cmd!Unread,
     CmdRing!SlotOf, Cmd!SlotOf, CmdRing!TypeOK, Cmd!TypeOK, CmdRing!Slots,
     Cmd!Slots, CmdRing!Write, Cmd!Write, CmdRing!Succ, Cmd!Succ,
     CmdRing!Take, Cmd!Take, CmdRing!NonEmpty, Cmd!NonEmpty, CmdRing!Reset, Cmd!Reset

LEMMA SameCmdNext ==
  /\ CmdRing!Backlog' = Cmd!Backlog' /\ CmdRing!Unread' = Cmd!Unread'
  BY DEF CmdRing!Backlog, Cmd!Backlog, CmdRing!Unread, Cmd!Unread,
     CmdRing!SlotOf, Cmd!SlotOf

\* The inductive invariant of a buffer, and what the operations do to it.
LEMMA StatusSeq ==
  ASSUME StatusRing!IInv
  PROVE  /\ Status!Unread \in Seq(Shown) /\ Len(Status!Unread) = Status!Backlog
         /\ Status!Backlog \in 0..Ahead
  BY Sizes, SameStatus, StatusRing!UnreadIsSeq DEF StatusRing!IInv

LEMMA StatusWrite ==
  ASSUME StatusRing!IInv, NEW m \in Shown, Status!Backlog < Ahead, Status!Write(m)
  PROVE  /\ StatusRing!IInv' /\ sCur' = sCur
         /\ Status!Backlog' = Status!Backlog + 1 /\ Status!Unread' = Append(Status!Unread, m)
  <1>1. /\ StatusRing!TypeOK' /\ StatusRing!Backlog' = StatusRing!Backlog + 1
        /\ StatusRing!Unread' = Append(StatusRing!Unread, m)
    BY Sizes, SameStatus, StatusRing!WriteAppends
  <1>2. StatusRing!IInv'
    BY Sizes, SameStatus, StatusRing!InvStep DEF StatusRing!Next, StatusRing!Receive
  <1> QED
    BY <1>1, <1>2, SameStatus, SameStatusNext DEF Status!Write

LEMMA StatusTake ==
  ASSUME StatusRing!IInv, Status!Take
  PROVE  /\ StatusRing!IInv' /\ Status!Unread # <<>> /\ sCur' = Head(Status!Unread)
         /\ Status!Backlog' = Status!Backlog - 1 /\ Status!Unread' = Tail(Status!Unread)
  <1>1. /\ StatusRing!Unread # <<>> /\ sCur' = Head(StatusRing!Unread)
        /\ StatusRing!Backlog' = StatusRing!Backlog - 1
        /\ StatusRing!Unread' = Tail(StatusRing!Unread)
    BY Sizes, SameStatus, StatusRing!TakeShows
  <1>2. StatusRing!IInv'
    BY Sizes, SameStatus, StatusRing!InvStep DEF StatusRing!Next
  <1> QED
    BY <1>1, <1>2, SameStatus, SameStatusNext

LEMMA CmdSeq ==
  ASSUME CmdRing!IInv
  PROVE  /\ Cmd!Unread \in Seq(Shown) /\ Len(Cmd!Unread) = Cmd!Backlog
         /\ Cmd!Backlog \in 0..Ahead
  BY Sizes, SameCmd, CmdRing!UnreadIsSeq DEF CmdRing!IInv

LEMMA CmdWrite ==
  ASSUME CmdRing!IInv, NEW m \in Shown, Cmd!Backlog < Ahead, Cmd!Write(m)
  PROVE  /\ CmdRing!IInv' /\ cCur' = cCur
         /\ Cmd!Backlog' = Cmd!Backlog + 1 /\ Cmd!Unread' = Append(Cmd!Unread, m)
  <1>1. /\ CmdRing!TypeOK' /\ CmdRing!Backlog' = CmdRing!Backlog + 1
        /\ CmdRing!Unread' = Append(CmdRing!Unread, m)
    BY Sizes, SameCmd, CmdRing!WriteAppends
  <1>2. CmdRing!IInv'
    BY Sizes, SameCmd, CmdRing!InvStep DEF CmdRing!Next, CmdRing!Receive
  <1> QED
    BY <1>1, <1>2, SameCmd, SameCmdNext DEF Cmd!Write

LEMMA CmdTake ==
  ASSUME CmdRing!IInv, Cmd!Take
  PROVE  /\ CmdRing!IInv' /\ Cmd!Unread # <<>> /\ cCur' = Head(Cmd!Unread)
         /\ Cmd!Backlog' = Cmd!Backlog - 1 /\ Cmd!Unread' = Tail(Cmd!Unread)
  <1>1. /\ CmdRing!Unread # <<>> /\ cCur' = Head(CmdRing!Unread)
        /\ CmdRing!Backlog' = CmdRing!Backlog - 1
        /\ CmdRing!Unread' = Tail(CmdRing!Unread)
    BY Sizes, SameCmd, CmdRing!TakeShows
  <1>2. CmdRing!IInv'
    BY Sizes, SameCmd, CmdRing!InvStep DEF CmdRing!Next
  <1> QED
    BY <1>1, <1>2, SameCmd, SameCmdNext

\* Clearing what is shown, or nothing, leaves what is unread.
LEMMA RingsRest ==
  /\ StatusRing!IInv /\ (Status!Clear \/ UNCHANGED sVars)
        => StatusRing!IInv' /\ Status!Backlog' = Status!Backlog /\ Status!Unread' = Status!Unread
  /\ CmdRing!IInv /\ (Cmd!Clear \/ UNCHANGED cVars)
        => CmdRing!IInv' /\ Cmd!Backlog' = Cmd!Backlog /\ Cmd!Unread' = Cmd!Unread
  <1>1. /\ Status!Clear \/ UNCHANGED sVars => [StatusRing!Next]_(StatusRing!vars)
        /\ Cmd!Clear \/ UNCHANGED cVars => [CmdRing!Next]_(CmdRing!vars)
    BY DEF Status!Clear, Cmd!Clear, sVars, cVars, StatusRing!Next, CmdRing!Next,
       StatusRing!Clear, CmdRing!Clear, StatusRing!vars, CmdRing!vars
  <1>2. Status!Clear \/ UNCHANGED sVars
           => Status!Backlog' = Status!Backlog /\ Status!Unread' = Status!Unread
    BY DEF Status!Clear, sVars, Status!Backlog, Status!Unread, Status!SlotOf
  <1>3. Cmd!Clear \/ UNCHANGED cVars
           => Cmd!Backlog' = Cmd!Backlog /\ Cmd!Unread' = Cmd!Unread
    BY DEF Cmd!Clear, cVars, Cmd!Backlog, Cmd!Unread, Cmd!SlotOf
  <1> QED
    BY <1>1, <1>2, <1>3, Sizes, StatusRing!InvStep, CmdRing!InvStep

-----------------------------------------------------------------------------
(* The frames of the screens: the wire and the server stay.                *)

LEMMA WireRests ==
  ASSUME UNCHANGED <<wire, srv>>
  PROVE  /\ Announced' = Announced
         /\ \A kind, b : Lines(kind, b)' = Lines(kind, b)
         /\ \A kind : TurnsOf(kind)' = TurnsOf(kind)
         /\ StatesSent' = StatesSent /\ MoviesSent' = MoviesSent /\ (Over' <=> Over)
  BY DEF Announced, Lines, TurnsOf, Kind, Of, StatesSent, MoviesSent, Over

LEMMA RingTypes ==
  ASSUME IInv
  PROVE  /\ StatusRing!IInv /\ CmdRing!IInv
         /\ Status!Unread \in Seq(Shown) /\ Len(Status!Unread) = Status!Backlog
         /\ Cmd!Unread \in Seq(Shown) /\ Len(Cmd!Unread) = Cmd!Backlog
         /\ Status!Backlog \in Nat /\ Cmd!Backlog \in Nat
  <1>1. StatusRing!IInv /\ CmdRing!IInv
    BY DEF IInv, Room
  <1> QED
    BY <1>1, StatusSeq, CmdSeq, Sizes

LEMMA RingTypesNext ==
  StatusRing!IInv' /\ CmdRing!IInv' => /\ Status!TypeOK' /\ Cmd!TypeOK'
                                       /\ Status!Backlog' \in Nat /\ Cmd!Backlog' \in Nat
  <1>1. StatusRing!IInv /\ CmdRing!IInv => Status!TypeOK /\ Cmd!TypeOK
    BY SameStatus, SameCmd DEF StatusRing!IInv, CmdRing!IInv
  <1>2. StatusRing!IInv' /\ CmdRing!IInv' => Status!TypeOK' /\ Cmd!TypeOK'
    BY <1>1, PTL
  <1>3. Status!TypeOK' => Status!Backlog' \in Nat
    <2>1. Status!TypeOK' => {sRead', sWrite'} \subseteq 0..BATTLE_BUF_SIZE - 1
      BY DEF Status!TypeOK, Status!Slots
    <2> QED
      BY <2>1, Sizes DEF Status!Backlog
  <1>4. Cmd!TypeOK' => Cmd!Backlog' \in Nat
    <2>1. Cmd!TypeOK' => {cRead', cWrite'} \subseteq 0..BATTLE_BUF_SIZE - 1
      BY DEF Cmd!TypeOK, Cmd!Slots
    <2> QED
      BY <2>1, Sizes DEF Cmd!Backlog
  <1> QED
    BY <1>2, <1>3, <1>4

\* What a frame may do to the buffers, and what it leaves as it was.
ReadsStatus == Status!Take \/ Status!Clear \/ UNCHANGED sVars
ReadsCmd == Cmd!Take \/ Cmd!Clear \/ UNCHANGED cVars

LEMMA FrameKeeps ==
  ASSUME IInv, UNCHANGED <<wire, srv>>, ReadsStatus, ReadsCmd,
         BattleEscFlag' \in {BattleEscFlag, 0}
  PROVE  /\ Ordered' /\ Room' /\ Endings'
         /\ Status!TypeOK' /\ Cmd!TypeOK'
  <1>1. Ordered'
    BY WireRests DEF IInv, Ordered, Kind, Of
  <1>2. /\ StatusRing!IInv' /\ CmdRing!IInv'
        /\ Status!Backlog' \in Nat /\ Status!Backlog' =< Status!Backlog
        /\ Cmd!Backlog' \in Nat /\ Cmd!Backlog' =< Cmd!Backlog
    <2>1. /\ StatusRing!IInv'
          /\ Status!Backlog' = Status!Backlog \/ Status!Backlog' = Status!Backlog - 1
      BY RingTypes, RingsRest, StatusTake DEF ReadsStatus
    <2>2. /\ CmdRing!IInv'
          /\ Cmd!Backlog' = Cmd!Backlog \/ Cmd!Backlog' = Cmd!Backlog - 1
      BY RingTypes, RingsRest, CmdTake DEF ReadsCmd
    <2> QED
      BY <2>1, <2>2, RingTypesNext, RingTypes
  <1>3. Room'
    <2>1. \A b : /\ Cardinality(Lines("BC", b)) \in Nat
                 /\ Cardinality(Lines("BM", b)) \in Nat
      BY Counted DEF IInv, TypeOK
    <2> QED
      BY <1>2, <2>1, WireRests, RingTypes, Sizes DEF IInv, Room
  <1>4. Messages' \subseteq Messages \cup {NoMsg}
    <2>1. sBak' = sBak /\ sCur' \in Messages \cup {NoMsg}
      BY DEF IInv, TypeOK, Status!TypeOK, ReadsStatus, Status!Take, Status!Clear, sVars,
         Messages, Status!Slots
    <2>2. cBak' = cBak /\ cCur' \in Messages \cup {NoMsg}
      BY DEF IInv, TypeOK, Cmd!TypeOK, ReadsCmd, Cmd!Take, Cmd!Clear, cVars,
         Messages, Cmd!Slots
    <2> QED
      BY <2>1, <2>2 DEF Messages, Of
  <1>5. Endings'
    BY <1>4 DEF IInv, TypeOK, Endings, Over, Kind, Of, NoMsg
  <1> QED
    BY <1>1, <1>2, <1>3, <1>5, RingTypesNext

\* A screen that takes the next state or movie, or none, keeps up with them.
Keeps(first, unread) ==
    \/ first' = first /\ unread' = unread
    \/ first' = first + 1 /\ unread # <<>> /\ unread' = Tail(unread)

LEMMA FrameFollows ==
  ASSUME IInv, UNCHANGED <<wire, srv>>, Current,
         Keeps(StatesRead, Status!Unread), Keeps(MoviesRead, Cmd!Unread)
  PROVE  /\ Follow("BC", StatesRead, Status!Unread, StatesSent)'
         /\ Follow("BM", MoviesRead, Cmd!Unread, MoviesSent)'
  <1>1. /\ Follow("BC", StatesRead, Status!Unread, StatesSent)
        /\ Follow("BM", MoviesRead, Cmd!Unread, MoviesSent)
        /\ StatesRead \in Nat /\ MoviesRead \in Nat
    BY DEF IInv, TurnByTurn, StatesRead, MoviesRead, Shows, TypeOK
  <1>2. Status!Unread \in Seq(Shown) /\ Cmd!Unread \in Seq(Shown)
    BY RingTypes
  <1>3. Follow("BC", StatesRead, Status!Unread, StatesSent)'
    <2>1. CASE StatesRead' = StatesRead /\ Status!Unread' = Status!Unread
      BY <1>1, <2>1, WireRests DEF Follow, Of
    <2>2. CASE /\ StatesRead' = StatesRead + 1
               /\ Status!Unread # <<>> /\ Status!Unread' = Tail(Status!Unread)
      BY <1>1, <1>2, <2>2, WireRests DEF Follow, Of
    <2> QED
      BY <2>1, <2>2 DEF Keeps
  <1>4. Follow("BM", MoviesRead, Cmd!Unread, MoviesSent)'
    <2>1. CASE MoviesRead' = MoviesRead /\ Cmd!Unread' = Cmd!Unread
      BY <1>1, <2>1, WireRests DEF Follow, Of
    <2>2. CASE /\ MoviesRead' = MoviesRead + 1
               /\ Cmd!Unread # <<>> /\ Cmd!Unread' = Tail(Cmd!Unread)
      BY <1>1, <1>2, <2>2, WireRests DEF Follow, Of
    <2> QED
      BY <2>1, <2>2 DEF Keeps
  <1> QED
    BY <1>3, <1>4

LEMMA ReturnToMapKeeps ==
  ASSUME IInv, ReturnToMap
  PROVE  IInv'
  <1>1. UNCHANGED <<wire, srv>> /\ UNCHANGED sVars /\ UNCHANGED cVars
    BY DEF ReturnToMap, net
  <1>2. Ordered' /\ Room' /\ Endings' /\ Status!TypeOK' /\ Cmd!TypeOK'
    BY <1>1, FrameKeeps DEF ReturnToMap, flags, ReadsStatus, ReadsCmd
  <1>3. /\ Status!Unread' = Status!Unread
        /\ Cmd!Unread' = Cmd!Unread
    BY <1>1, RingTypes, RingsRest
  <1>4. TypeOK'
    BY <1>1, <1>2, Sizes
      DEF IInv, ReturnToMap, TypeOK, flags, net, history, INIT, IN_PRODUCE, RECEIVE_BC,
          CHAR_IN, CMD_INPUT, RECEIVE_MOVIE, MOVIE, OUT_PRODUCE_INIT, OUT_PRODUCE
  <1>5. Abreast'
    BY <1>1, <1>2, WireRests, Sizes
      DEF IInv, ReturnToMap, Abreast, flags, net, history, INIT, IN_PRODUCE, RECEIVE_BC,
          CHAR_IN, CMD_INPUT, RECEIVE_MOVIE, MOVIE, OUT_PRODUCE_INIT, OUT_PRODUCE,
          Fighting, Leaving, InBattle, Ordered, TypeOK, Endings, Over
  <1>6. InStep'
    BY <1>1, <1>3, RingTypes, WireRests
      DEF IInv, ReturnToMap, InStep, flags, net, history, INIT, IN_PRODUCE, RECEIVE_BC,
          CHAR_IN, CMD_INPUT, RECEIVE_MOVIE, MOVIE, OUT_PRODUCE_INIT, OUT_PRODUCE,
          InBattle, Abreast, TypeOK, sVars, cVars
  <1>7. TurnByTurn'
    <2> SUFFICES ASSUME Current' PROVE TurnByTurn'
      BY DEF TurnByTurn
    <2>1. Current
      BY <1>1
        DEF IInv, ReturnToMap, flags, net, history, INIT, IN_PRODUCE, RECEIVE_BC, CHAR_IN,
            CMD_INPUT, RECEIVE_MOVIE, MOVIE, OUT_PRODUCE_INIT, OUT_PRODUCE, Fighting,
            Leaving, InBattle, Abreast, TypeOK, Current
    <2>2. Keeps(StatesRead, Status!Unread) /\ Keeps(MoviesRead, Cmd!Unread)
      BY <1>1, <1>3, <2>1
        DEF IInv, ReturnToMap, flags, net, history, INIT, IN_PRODUCE, RECEIVE_BC, CHAR_IN,
            CMD_INPUT, RECEIVE_MOVIE, MOVIE, OUT_PRODUCE_INIT, OUT_PRODUCE, Fighting,
            Leaving, InBattle, Abreast, TypeOK, Shows, StatesRead, MoviesRead, Keeps,
            Current
    <2> QED
      BY <1>1, <2>1, <2>2, FrameFollows DEF TurnByTurn
  <1>8. Answered'
    BY <1>1, WireRests
      DEF IInv, ReturnToMap, Answered, flags, net, history, INIT, IN_PRODUCE, RECEIVE_BC,
          CHAR_IN, CMD_INPUT, RECEIVE_MOVIE, MOVIE, OUT_PRODUCE_INIT, OUT_PRODUCE,
          Fighting, InBattle, Abreast, TypeOK, Ordered
  <1>9. TurnAgrees'
    BY <1>1 DEF IInv, ReturnToMap, TurnAgrees, flags, net, history, TypeOK
  <1> QED
    BY <1>2, <1>4, <1>5, <1>6, <1>7, <1>8, <1>9 DEF IInv

LEMMA EncounterKeeps ==
  ASSUME IInv, Encounter
  PROVE  IInv'
  <1>1. UNCHANGED <<wire, srv>> /\ Status!Clear /\ Cmd!Clear
    BY DEF Encounter, net
  <1>2. Ordered' /\ Room' /\ Endings' /\ Status!TypeOK' /\ Cmd!TypeOK'
    BY <1>1, FrameKeeps DEF Encounter, flags, ReadsStatus, ReadsCmd
  <1>3. /\ Status!Unread' = Status!Unread
        /\ Cmd!Unread' = Cmd!Unread
    BY <1>1, RingTypes, RingsRest
  <1>4. Announced \in 0..MaxBattles /\ (Announced # entered /\ ~phantom => Announced = srv.battle /\ srv.battle = entered + 1)
    BY Sizes DEF IInv, TypeOK, Ordered, Abreast
  <1>5. TypeOK'
    <2>1. phantom' \in BOOLEAN
      BY DEF Encounter
    <2>2. ProcNo' \in {"GAME", "BATTLE"} /\ SubProcNo' \in INIT..OUT_PRODUCE
      BY DEF IInv, Encounter, TypeOK, INIT, IN_PRODUCE, RECEIVE_BC, CHAR_IN, CMD_INPUT,
             RECEIVE_MOVIE, MOVIE, OUT_PRODUCE_INIT, OUT_PRODUCE
    <2>3. BattleEscFlag' \in 0..MaxBattles
      BY Sizes DEF IInv, Encounter, TypeOK
    <2>4. EncountFlag' \in BOOLEAN
      BY DEF IInv, Encounter, TypeOK
    <2>5. BattleTurnReceiveFlag' \in BOOLEAN /\ BattleCliTurnNo' \in Nat
      BY DEF IInv, Encounter, TypeOK
    <2>6. /\ entered' \in 0..MaxBattles /\ movies' \in Nat /\ lost' \in 0..MaxBattles
          /\ early' \in BOOLEAN /\ phantom' \in BOOLEAN /\ synced' \in BOOLEAN
      BY <2>1, <1>4 DEF IInv, Encounter, TypeOK
    <2>7. wire' = wire /\ srv' = srv /\ eo' \in BOOLEAN
      BY DEF IInv, Encounter, TypeOK, net
    <2> QED
      BY <1>2, <2>2, <2>6, <2>7, <2>3, <2>5, <2>4 DEF IInv, TypeOK
  <1>6. Abreast'
    <2>1. ~phantom' => ~phantom /\ Announced # entered
      BY DEF Encounter, IInv, TypeOK
    <2>2. entered' = Announced /\ ProcNo' = "GAME" /\ SubProcNo' = 4 /\ UNCHANGED <<eo, srv>>
      BY DEF Encounter, net
    <2> QED
      BY <1>1, <1>4, <2>1, <2>2, WireRests, Sizes
        DEF IInv, Abreast, Fighting, Leaving, InBattle, TypeOK
  <1>7. InStep'
    BY <1>1, <1>3, RingTypes, WireRests
      DEF IInv, Encounter, InStep, flags, net, history, INIT, IN_PRODUCE, RECEIVE_BC,
          CHAR_IN, CMD_INPUT, RECEIVE_MOVIE, MOVIE, OUT_PRODUCE_INIT, OUT_PRODUCE,
          InBattle, Abreast, TypeOK, sVars, cVars
  <1>8. TurnByTurn'
    <2> SUFFICES ASSUME Current' PROVE TurnByTurn'
      BY DEF TurnByTurn
    <2>1. Current
      BY <1>1, <1>4
        DEF IInv, Encounter, flags, net, history, INIT, IN_PRODUCE, RECEIVE_BC, CHAR_IN,
            CMD_INPUT, RECEIVE_MOVIE, MOVIE, OUT_PRODUCE_INIT, OUT_PRODUCE, Fighting,
            Leaving, InBattle, Abreast, TypeOK, Current
    <2>2. Keeps(StatesRead, Status!Unread) /\ Keeps(MoviesRead, Cmd!Unread)
      BY <1>1, <1>3, <2>1
        DEF IInv, Encounter, flags, net, history, INIT, IN_PRODUCE, RECEIVE_BC, CHAR_IN,
            CMD_INPUT, RECEIVE_MOVIE, MOVIE, OUT_PRODUCE_INIT, OUT_PRODUCE, Fighting,
            Leaving, InBattle, Abreast, TypeOK, Shows, StatesRead, MoviesRead, Keeps,
            Current
    <2> QED
      BY <1>1, <2>1, <2>2, FrameFollows DEF TurnByTurn
  <1>9. Answered'
    BY <1>1, WireRests
      DEF IInv, Encounter, Answered, flags, net, history, INIT, IN_PRODUCE, RECEIVE_BC,
          CHAR_IN, CMD_INPUT, RECEIVE_MOVIE, MOVIE, OUT_PRODUCE_INIT, OUT_PRODUCE,
          Fighting, InBattle, Abreast, TypeOK, Ordered
  <1>10. TurnAgrees'
    BY <1>1 DEF IInv, Encounter, TurnAgrees, flags, net, history, TypeOK
  <1> QED
    BY <1>2, <1>5, <1>6, <1>7, <1>8, <1>9, <1>10 DEF IInv

LEMMA LeaveMapKeeps ==
  ASSUME IInv, LeaveMap
  PROVE  IInv'
  <1>1. UNCHANGED <<wire, srv>> /\ UNCHANGED sVars /\ UNCHANGED cVars
    BY DEF LeaveMap, net
  <1>2. Ordered' /\ Room' /\ Endings' /\ Status!TypeOK' /\ Cmd!TypeOK'
    BY <1>1, FrameKeeps DEF LeaveMap, flags, ReadsStatus, ReadsCmd
  <1>3. /\ Status!Unread' = Status!Unread
        /\ Cmd!Unread' = Cmd!Unread
    BY <1>1, RingTypes, RingsRest
  <1>4. TypeOK'
    BY <1>1, <1>2, Sizes
      DEF IInv, LeaveMap, TypeOK, flags, net, history, INIT, IN_PRODUCE, RECEIVE_BC,
          CHAR_IN, CMD_INPUT, RECEIVE_MOVIE, MOVIE, OUT_PRODUCE_INIT, OUT_PRODUCE
  <1>5. Abreast'
    BY <1>1, <1>2, WireRests, Sizes
      DEF IInv, LeaveMap, Abreast, flags, net, history, INIT, IN_PRODUCE, RECEIVE_BC,
          CHAR_IN, CMD_INPUT, RECEIVE_MOVIE, MOVIE, OUT_PRODUCE_INIT, OUT_PRODUCE,
          Fighting, Leaving, InBattle, Ordered, TypeOK, Endings, Over
  <1>6. InStep'
    BY <1>1, <1>3, RingTypes, WireRests
      DEF IInv, LeaveMap, InStep, flags, net, history, INIT, IN_PRODUCE, RECEIVE_BC,
          CHAR_IN, CMD_INPUT, RECEIVE_MOVIE, MOVIE, OUT_PRODUCE_INIT, OUT_PRODUCE,
          InBattle, Abreast, TypeOK, sVars, cVars
  <1>7. TurnByTurn'
    <2> SUFFICES ASSUME Current' PROVE TurnByTurn'
      BY DEF TurnByTurn
    <2>1. Current
      BY <1>1
        DEF IInv, LeaveMap, flags, net, history, INIT, IN_PRODUCE, RECEIVE_BC, CHAR_IN,
            CMD_INPUT, RECEIVE_MOVIE, MOVIE, OUT_PRODUCE_INIT, OUT_PRODUCE, Fighting,
            Leaving, InBattle, Abreast, TypeOK, Current
    <2>2. Keeps(StatesRead, Status!Unread) /\ Keeps(MoviesRead, Cmd!Unread)
      BY <1>1, <1>3, <2>1
        DEF IInv, LeaveMap, flags, net, history, INIT, IN_PRODUCE, RECEIVE_BC, CHAR_IN,
            CMD_INPUT, RECEIVE_MOVIE, MOVIE, OUT_PRODUCE_INIT, OUT_PRODUCE, Fighting,
            Leaving, InBattle, Abreast, TypeOK, Shows, StatesRead, MoviesRead, Keeps,
            Current
    <2> QED
      BY <1>1, <2>1, <2>2, FrameFollows DEF TurnByTurn
  <1>8. Answered'
    BY <1>1, WireRests
      DEF IInv, LeaveMap, Answered, flags, net, history, INIT, IN_PRODUCE, RECEIVE_BC,
          CHAR_IN, CMD_INPUT, RECEIVE_MOVIE, MOVIE, OUT_PRODUCE_INIT, OUT_PRODUCE,
          Fighting, InBattle, Abreast, TypeOK, Ordered
  <1>9. TurnAgrees'
    BY <1>1 DEF IInv, LeaveMap, TurnAgrees, flags, net, history, TypeOK
  <1> QED
    BY <1>2, <1>4, <1>5, <1>6, <1>7, <1>8, <1>9 DEF IInv

LEMMA BattleInitKeeps ==
  ASSUME IInv, BattleInit
  PROVE  IInv'
  <1>1. UNCHANGED <<wire, srv>> /\ UNCHANGED sVars /\ UNCHANGED cVars
    BY DEF BattleInit, net
  <1>2. Ordered' /\ Room' /\ Endings' /\ Status!TypeOK' /\ Cmd!TypeOK'
    BY <1>1, FrameKeeps DEF BattleInit, flags, ReadsStatus, ReadsCmd
  <1>3. /\ Status!Unread' = Status!Unread
        /\ Cmd!Unread' = Cmd!Unread
    BY <1>1, RingTypes, RingsRest
  <1>4. TypeOK'
    BY <1>1, <1>2, Sizes
      DEF IInv, BattleInit, TypeOK, flags, net, history, INIT, IN_PRODUCE, RECEIVE_BC,
          CHAR_IN, CMD_INPUT, RECEIVE_MOVIE, MOVIE, OUT_PRODUCE_INIT, OUT_PRODUCE
  <1>5. Abreast'
    BY <1>1, <1>2, WireRests, Sizes
      DEF IInv, BattleInit, Abreast, flags, net, history, INIT, IN_PRODUCE, RECEIVE_BC,
          CHAR_IN, CMD_INPUT, RECEIVE_MOVIE, MOVIE, OUT_PRODUCE_INIT, OUT_PRODUCE,
          Fighting, Leaving, InBattle, Ordered, TypeOK, Endings, Over
  <1>6. InStep'
    BY <1>1, <1>3, RingTypes, WireRests
      DEF IInv, BattleInit, InStep, flags, net, history, INIT, IN_PRODUCE, RECEIVE_BC,
          CHAR_IN, CMD_INPUT, RECEIVE_MOVIE, MOVIE, OUT_PRODUCE_INIT, OUT_PRODUCE,
          InBattle, Abreast, TypeOK, sVars, cVars
  <1>7. TurnByTurn'
    <2> SUFFICES ASSUME Current' PROVE TurnByTurn'
      BY DEF TurnByTurn
    <2>1. Current
      BY <1>1
        DEF IInv, BattleInit, flags, net, history, INIT, IN_PRODUCE, RECEIVE_BC, CHAR_IN,
            CMD_INPUT, RECEIVE_MOVIE, MOVIE, OUT_PRODUCE_INIT, OUT_PRODUCE, Fighting,
            Leaving, InBattle, Abreast, TypeOK, Current
    <2>2. Keeps(StatesRead, Status!Unread) /\ Keeps(MoviesRead, Cmd!Unread)
      BY <1>1, <1>3, <2>1
        DEF IInv, BattleInit, flags, net, history, INIT, IN_PRODUCE, RECEIVE_BC, CHAR_IN,
            CMD_INPUT, RECEIVE_MOVIE, MOVIE, OUT_PRODUCE_INIT, OUT_PRODUCE, Fighting,
            Leaving, InBattle, Abreast, TypeOK, Shows, StatesRead, MoviesRead, Keeps,
            Current
    <2> QED
      BY <1>1, <2>1, <2>2, FrameFollows DEF TurnByTurn
  <1>8. Answered'
    BY <1>1, WireRests
      DEF IInv, BattleInit, Answered, flags, net, history, INIT, IN_PRODUCE, RECEIVE_BC,
          CHAR_IN, CMD_INPUT, RECEIVE_MOVIE, MOVIE, OUT_PRODUCE_INIT, OUT_PRODUCE,
          Fighting, InBattle, Abreast, TypeOK, Ordered
  <1>9. TurnAgrees'
    BY <1>1 DEF IInv, BattleInit, TurnAgrees, flags, net, history, TypeOK
  <1> QED
    BY <1>2, <1>4, <1>5, <1>6, <1>7, <1>8, <1>9 DEF IInv

LEMMA InProduceKeeps ==
  ASSUME IInv, InProduce
  PROVE  IInv'
  <1>1. UNCHANGED <<wire, srv>> /\ UNCHANGED sVars /\ UNCHANGED cVars
    BY DEF InProduce, FrameUnchanged, net
  <1>2. Ordered' /\ Room' /\ Endings' /\ Status!TypeOK' /\ Cmd!TypeOK'
    BY <1>1, FrameKeeps
      DEF InProduce, Tail_BattleProc, FrameUnchanged, flags, ReadsStatus, ReadsCmd
  <1>3. /\ Status!Unread' = Status!Unread
        /\ Cmd!Unread' = Cmd!Unread
    BY <1>1, RingTypes, RingsRest
  <1>4. TypeOK'
    BY <1>1, <1>2, Sizes
      DEF IInv, InProduce, Tail_BattleProc, FrameUnchanged, TypeOK, flags, net, history,
          INIT, IN_PRODUCE, RECEIVE_BC, CHAR_IN, CMD_INPUT, RECEIVE_MOVIE, MOVIE,
          OUT_PRODUCE_INIT, OUT_PRODUCE
  <1>5. Abreast'
    BY <1>1, <1>2, WireRests, Sizes
      DEF IInv, InProduce, Tail_BattleProc, FrameUnchanged, Abreast, flags, net, history,
          INIT, IN_PRODUCE, RECEIVE_BC, CHAR_IN, CMD_INPUT, RECEIVE_MOVIE, MOVIE,
          OUT_PRODUCE_INIT, OUT_PRODUCE, Fighting, Leaving, InBattle, Ordered, TypeOK,
          Endings, Over
  <1>6. InStep'
    BY <1>1, <1>3, RingTypes, WireRests
      DEF IInv, InProduce, Tail_BattleProc, FrameUnchanged, InStep, flags, net, history,
          INIT, IN_PRODUCE, RECEIVE_BC, CHAR_IN, CMD_INPUT, RECEIVE_MOVIE, MOVIE,
          OUT_PRODUCE_INIT, OUT_PRODUCE, InBattle, Abreast, TypeOK, sVars, cVars
  <1>7. TurnByTurn'
    <2> SUFFICES ASSUME Current' PROVE TurnByTurn'
      BY DEF TurnByTurn
    <2>1. Current
      BY <1>1
        DEF IInv, InProduce, Tail_BattleProc, FrameUnchanged, flags, net, history, INIT,
            IN_PRODUCE, RECEIVE_BC, CHAR_IN, CMD_INPUT, RECEIVE_MOVIE, MOVIE,
            OUT_PRODUCE_INIT, OUT_PRODUCE, Fighting, Leaving, InBattle, Abreast, TypeOK,
            Current
    <2>2. Keeps(StatesRead, Status!Unread) /\ Keeps(MoviesRead, Cmd!Unread)
      BY <1>1, <1>3, <2>1
        DEF IInv, InProduce, Tail_BattleProc, FrameUnchanged, flags, net, history, INIT,
            IN_PRODUCE, RECEIVE_BC, CHAR_IN, CMD_INPUT, RECEIVE_MOVIE, MOVIE,
            OUT_PRODUCE_INIT, OUT_PRODUCE, Fighting, Leaving, InBattle, Abreast, TypeOK,
            Shows, StatesRead, MoviesRead, Keeps, Current
    <2> QED
      BY <1>1, <2>1, <2>2, FrameFollows DEF TurnByTurn
  <1>8. Answered'
    BY <1>1, WireRests
      DEF IInv, InProduce, Tail_BattleProc, FrameUnchanged, Answered, flags, net, history,
          INIT, IN_PRODUCE, RECEIVE_BC, CHAR_IN, CMD_INPUT, RECEIVE_MOVIE, MOVIE,
          OUT_PRODUCE_INIT, OUT_PRODUCE, Fighting, InBattle, Abreast, TypeOK, Ordered
  <1>9. TurnAgrees'
    BY <1>1
      DEF IInv, InProduce, Tail_BattleProc, FrameUnchanged, TurnAgrees, flags, net,
          history, TypeOK
  <1> QED
    BY <1>2, <1>4, <1>5, <1>6, <1>7, <1>8, <1>9 DEF IInv

LEMMA ReceiveBCKeeps ==
  ASSUME IInv, ReceiveBC
  PROVE  IInv'
  <1>1. UNCHANGED <<wire, srv>> /\ Status!Take /\ UNCHANGED cVars
    BY DEF ReceiveBC, FrameUnchanged, net
  <1>2. Ordered' /\ Room' /\ Endings' /\ Status!TypeOK' /\ Cmd!TypeOK'
    BY <1>1, FrameKeeps
      DEF ReceiveBC, Tail_BattleProc, FrameUnchanged, flags, ReadsStatus, ReadsCmd
  <1>3. /\ Status!Unread # <<>> /\ sCur' = Head(Status!Unread) /\ Status!Unread' = Tail(Status!Unread)
        /\ Cmd!Unread' = Cmd!Unread
    BY <1>1, RingTypes, RingsRest, StatusTake
  <1>4. TypeOK'
    <2>1. early' \in BOOLEAN
      BY DEF ReceiveBC, Tail_BattleProc, FrameUnchanged, CHAR_IN
    <2>2. ProcNo' \in {"GAME", "BATTLE"} /\ SubProcNo' \in INIT..OUT_PRODUCE
      BY DEF IInv, ReceiveBC, Tail_BattleProc, FrameUnchanged, TypeOK, INIT, IN_PRODUCE,
             RECEIVE_BC, CHAR_IN, CMD_INPUT, RECEIVE_MOVIE, MOVIE, OUT_PRODUCE_INIT,
             OUT_PRODUCE
    <2>3. BattleEscFlag' \in 0..MaxBattles
      BY Sizes DEF IInv, ReceiveBC, Tail_BattleProc, FrameUnchanged, TypeOK
    <2>4. EncountFlag' \in BOOLEAN
      BY DEF IInv, ReceiveBC, Tail_BattleProc, FrameUnchanged, TypeOK
    <2>5. BattleTurnReceiveFlag' \in BOOLEAN /\ BattleCliTurnNo' \in Nat
      BY DEF IInv, ReceiveBC, Tail_BattleProc, FrameUnchanged, TypeOK
    <2>6. /\ entered' \in 0..MaxBattles /\ movies' \in Nat /\ lost' \in 0..MaxBattles
          /\ early' \in BOOLEAN /\ phantom' \in BOOLEAN /\ synced' \in BOOLEAN
      BY <2>1 DEF IInv, ReceiveBC, Tail_BattleProc, FrameUnchanged, TypeOK
    <2>7. wire' = wire /\ srv' = srv /\ eo' \in BOOLEAN
      BY DEF IInv, ReceiveBC, Tail_BattleProc, FrameUnchanged, TypeOK, net
    <2> QED
      BY <1>2, <2>2, <2>6, <2>7, <2>3, <2>5, <2>4 DEF IInv, TypeOK
  <1>5. Abreast'
    BY <1>1, <1>2, WireRests, Sizes
      DEF IInv, ReceiveBC, Tail_BattleProc, FrameUnchanged, Abreast, flags, net, history,
          INIT, IN_PRODUCE, RECEIVE_BC, CHAR_IN, CMD_INPUT, RECEIVE_MOVIE, MOVIE,
          OUT_PRODUCE_INIT, OUT_PRODUCE, Fighting, Leaving, InBattle, Ordered, TypeOK,
          Endings, Over
  <1>6. InStep'
    <2> SUFFICES ASSUME Current PROVE InStep'
      BY <1>1
        DEF IInv, ReceiveBC, Tail_BattleProc, FrameUnchanged, flags, net, history, INIT,
            IN_PRODUCE, RECEIVE_BC, CHAR_IN, CMD_INPUT, RECEIVE_MOVIE, MOVIE,
            OUT_PRODUCE_INIT, OUT_PRODUCE, InStep, InBattle, Current, Fighting, Leaving,
            TypeOK
    <2>1. Len(Status!Unread) >= 1 /\ sCur' = Status!Unread[1]
      BY <1>3, RingTypes
    <2>2. StatesRead = movies /\ Announced = srv.battle
      BY DEF IInv, ReceiveBC, Tail_BattleProc, FrameUnchanged, INIT, IN_PRODUCE,
             RECEIVE_BC, CHAR_IN, CMD_INPUT, RECEIVE_MOVIE, MOVIE, OUT_PRODUCE_INIT,
             OUT_PRODUCE, StatesRead, Shows, Fighting, InBattle, Abreast, Ordered, TypeOK,
             Current
    <2>3. sCur'.battle = srv.battle /\ sCur'.turn = movies
      BY <2>1, <2>2, RingTypes DEF IInv, TurnByTurn, Follow, TypeOK
    <2> QED
      BY <1>1, <2>2, <2>3, WireRests
        DEF IInv, ReceiveBC, Tail_BattleProc, FrameUnchanged, flags, net, history, INIT,
            IN_PRODUCE, RECEIVE_BC, CHAR_IN, CMD_INPUT, RECEIVE_MOVIE, MOVIE,
            OUT_PRODUCE_INIT, OUT_PRODUCE, InStep, InBattle, TypeOK, sVars, cVars
  <1>7. TurnByTurn'
    <2> SUFFICES ASSUME Current' PROVE TurnByTurn'
      BY DEF TurnByTurn
    <2>1. Current
      BY <1>1
        DEF IInv, ReceiveBC, Tail_BattleProc, FrameUnchanged, flags, net, history, INIT,
            IN_PRODUCE, RECEIVE_BC, CHAR_IN, CMD_INPUT, RECEIVE_MOVIE, MOVIE,
            OUT_PRODUCE_INIT, OUT_PRODUCE, Fighting, Leaving, InBattle, Abreast, TypeOK,
            Current
    <2>2. Keeps(StatesRead, Status!Unread) /\ Keeps(MoviesRead, Cmd!Unread)
      BY <1>1, <1>3, <2>1
        DEF IInv, ReceiveBC, Tail_BattleProc, FrameUnchanged, flags, net, history, INIT,
            IN_PRODUCE, RECEIVE_BC, CHAR_IN, CMD_INPUT, RECEIVE_MOVIE, MOVIE,
            OUT_PRODUCE_INIT, OUT_PRODUCE, Fighting, Leaving, InBattle, Abreast, TypeOK,
            Shows, StatesRead, MoviesRead, Keeps, Current
    <2> QED
      BY <1>1, <2>1, <2>2, FrameFollows DEF TurnByTurn
  <1>8. Answered'
    BY <1>1, WireRests
      DEF IInv, ReceiveBC, Tail_BattleProc, FrameUnchanged, Answered, flags, net, history,
          INIT, IN_PRODUCE, RECEIVE_BC, CHAR_IN, CMD_INPUT, RECEIVE_MOVIE, MOVIE,
          OUT_PRODUCE_INIT, OUT_PRODUCE, Fighting, InBattle, Abreast, TypeOK, Ordered
  <1>9. TurnAgrees'
    BY <1>1
      DEF IInv, ReceiveBC, Tail_BattleProc, FrameUnchanged, TurnAgrees, flags, net,
          history, TypeOK
  <1> QED
    BY <1>2, <1>4, <1>5, <1>6, <1>7, <1>8, <1>9 DEF IInv

LEMMA CharInKeeps ==
  ASSUME IInv, CharIn
  PROVE  IInv'
  <1>1. UNCHANGED <<wire, srv>> /\ UNCHANGED sVars /\ (Cmd!Clear \/ UNCHANGED cVars)
    BY DEF CharIn, FrameUnchanged, net
  <1>2. Ordered' /\ Room' /\ Endings' /\ Status!TypeOK' /\ Cmd!TypeOK'
    BY <1>1, FrameKeeps
      DEF CharIn, Tail_BattleProc, FrameUnchanged, flags, ReadsStatus, ReadsCmd
  <1>3. /\ Status!Unread' = Status!Unread
        /\ Cmd!Unread' = Cmd!Unread
    BY <1>1, RingTypes, RingsRest
  <1>4. TypeOK'
    BY <1>1, <1>2, Sizes
      DEF IInv, CharIn, Tail_BattleProc, FrameUnchanged, TypeOK, flags, net, history,
          INIT, IN_PRODUCE, RECEIVE_BC, CHAR_IN, CMD_INPUT, RECEIVE_MOVIE, MOVIE,
          OUT_PRODUCE_INIT, OUT_PRODUCE
  <1>5. Abreast'
    BY <1>1, <1>2, WireRests, Sizes
      DEF IInv, CharIn, Tail_BattleProc, FrameUnchanged, Abreast, flags, net, history,
          INIT, IN_PRODUCE, RECEIVE_BC, CHAR_IN, CMD_INPUT, RECEIVE_MOVIE, MOVIE,
          OUT_PRODUCE_INIT, OUT_PRODUCE, Fighting, Leaving, InBattle, Ordered, TypeOK,
          Endings, Over, InStep, Messages
  <1>6. InStep'
    BY <1>1, <1>3, RingTypes, WireRests
      DEF IInv, CharIn, Tail_BattleProc, FrameUnchanged, InStep, flags, net, history,
          INIT, IN_PRODUCE, RECEIVE_BC, CHAR_IN, CMD_INPUT, RECEIVE_MOVIE, MOVIE,
          OUT_PRODUCE_INIT, OUT_PRODUCE, InBattle, Abreast, TypeOK, sVars, cVars
  <1>7. TurnByTurn'
    <2> SUFFICES ASSUME Current' PROVE TurnByTurn'
      BY DEF TurnByTurn
    <2>1. Current
      BY <1>1
        DEF IInv, CharIn, Tail_BattleProc, FrameUnchanged, flags, net, history, INIT,
            IN_PRODUCE, RECEIVE_BC, CHAR_IN, CMD_INPUT, RECEIVE_MOVIE, MOVIE,
            OUT_PRODUCE_INIT, OUT_PRODUCE, Fighting, Leaving, InBattle, Abreast, TypeOK,
            Current
    <2>2. Keeps(StatesRead, Status!Unread) /\ Keeps(MoviesRead, Cmd!Unread)
      BY <1>1, <1>3, <2>1
        DEF IInv, CharIn, Tail_BattleProc, FrameUnchanged, flags, net, history, INIT,
            IN_PRODUCE, RECEIVE_BC, CHAR_IN, CMD_INPUT, RECEIVE_MOVIE, MOVIE,
            OUT_PRODUCE_INIT, OUT_PRODUCE, Fighting, Leaving, InBattle, Abreast, TypeOK,
            Shows, StatesRead, MoviesRead, Keeps, Current
    <2> QED
      BY <1>1, <2>1, <2>2, FrameFollows DEF TurnByTurn
  <1>8. Answered'
    BY <1>1, WireRests
      DEF IInv, CharIn, Tail_BattleProc, FrameUnchanged, Answered, flags, net, history,
          INIT, IN_PRODUCE, RECEIVE_BC, CHAR_IN, CMD_INPUT, RECEIVE_MOVIE, MOVIE,
          OUT_PRODUCE_INIT, OUT_PRODUCE, Fighting, InBattle, Abreast, TypeOK, Ordered
  <1>9. TurnAgrees'
    BY <1>1
      DEF IInv, CharIn, Tail_BattleProc, FrameUnchanged, TurnAgrees, flags, net, history,
          TypeOK
  <1> QED
    BY <1>2, <1>4, <1>5, <1>6, <1>7, <1>8, <1>9 DEF IInv

LEMMA CmdInputKeeps ==
  ASSUME IInv, CmdInput
  PROVE  IInv'
  <1>1. UNCHANGED <<wire, srv>> /\ UNCHANGED sVars /\ UNCHANGED cVars
    BY DEF CmdInput, FrameUnchanged, net
  <1>2. Ordered' /\ Room' /\ Endings' /\ Status!TypeOK' /\ Cmd!TypeOK'
    BY <1>1, FrameKeeps
      DEF CmdInput, Tail_BattleProc, FrameUnchanged, flags, ReadsStatus, ReadsCmd
  <1>3. /\ Status!Unread' = Status!Unread
        /\ Cmd!Unread' = Cmd!Unread
    BY <1>1, RingTypes, RingsRest
  <1>4. TypeOK'
    BY <1>1, <1>2, Sizes
      DEF IInv, CmdInput, Tail_BattleProc, FrameUnchanged, TypeOK, flags, net, history,
          INIT, IN_PRODUCE, RECEIVE_BC, CHAR_IN, CMD_INPUT, RECEIVE_MOVIE, MOVIE,
          OUT_PRODUCE_INIT, OUT_PRODUCE
  <1>5. Abreast'
    BY <1>1, <1>2, WireRests, Sizes
      DEF IInv, CmdInput, Tail_BattleProc, FrameUnchanged, Abreast, flags, net, history,
          INIT, IN_PRODUCE, RECEIVE_BC, CHAR_IN, CMD_INPUT, RECEIVE_MOVIE, MOVIE,
          OUT_PRODUCE_INIT, OUT_PRODUCE, Fighting, Leaving, InBattle, Ordered, TypeOK,
          Endings, Over
  <1>6. InStep'
    BY <1>1, <1>3, RingTypes, WireRests
      DEF IInv, CmdInput, Tail_BattleProc, FrameUnchanged, InStep, flags, net, history,
          INIT, IN_PRODUCE, RECEIVE_BC, CHAR_IN, CMD_INPUT, RECEIVE_MOVIE, MOVIE,
          OUT_PRODUCE_INIT, OUT_PRODUCE, InBattle, Abreast, TypeOK, sVars, cVars
  <1>7. TurnByTurn'
    <2> SUFFICES ASSUME Current' PROVE TurnByTurn'
      BY DEF TurnByTurn
    <2>1. Current
      BY <1>1
        DEF IInv, CmdInput, Tail_BattleProc, FrameUnchanged, flags, net, history, INIT,
            IN_PRODUCE, RECEIVE_BC, CHAR_IN, CMD_INPUT, RECEIVE_MOVIE, MOVIE,
            OUT_PRODUCE_INIT, OUT_PRODUCE, Fighting, Leaving, InBattle, Abreast, TypeOK,
            Current
    <2>2. Keeps(StatesRead, Status!Unread) /\ Keeps(MoviesRead, Cmd!Unread)
      BY <1>1, <1>3, <2>1
        DEF IInv, CmdInput, Tail_BattleProc, FrameUnchanged, flags, net, history, INIT,
            IN_PRODUCE, RECEIVE_BC, CHAR_IN, CMD_INPUT, RECEIVE_MOVIE, MOVIE,
            OUT_PRODUCE_INIT, OUT_PRODUCE, Fighting, Leaving, InBattle, Abreast, TypeOK,
            Shows, StatesRead, MoviesRead, Keeps, Current
    <2> QED
      BY <1>1, <2>1, <2>2, FrameFollows DEF TurnByTurn
  <1>8. Answered'
    BY <1>1, WireRests
      DEF IInv, CmdInput, Tail_BattleProc, FrameUnchanged, Answered, flags, net, history,
          INIT, IN_PRODUCE, RECEIVE_BC, CHAR_IN, CMD_INPUT, RECEIVE_MOVIE, MOVIE,
          OUT_PRODUCE_INIT, OUT_PRODUCE, Fighting, InBattle, Abreast, TypeOK, Ordered
  <1>9. TurnAgrees'
    BY <1>1
      DEF IInv, CmdInput, Tail_BattleProc, FrameUnchanged, TurnAgrees, flags, net,
          history, TypeOK
  <1> QED
    BY <1>2, <1>4, <1>5, <1>6, <1>7, <1>8, <1>9 DEF IInv

LEMMA ReceiveMovieKeeps ==
  ASSUME IInv, ReceiveMovie
  PROVE  IInv'
  <1>1. UNCHANGED <<wire, srv>> /\ UNCHANGED sVars /\ Cmd!Take
    BY DEF ReceiveMovie, FrameUnchanged, net
  <1>2. Ordered' /\ Room' /\ Endings' /\ Status!TypeOK' /\ Cmd!TypeOK'
    BY <1>1, FrameKeeps
      DEF ReceiveMovie, Tail_BattleProc, FrameUnchanged, flags, ReadsStatus, ReadsCmd
  <1>3. /\ Status!Unread' = Status!Unread
        /\ Cmd!Unread # <<>> /\ cCur' = Head(Cmd!Unread) /\ Cmd!Unread' = Tail(Cmd!Unread)
    BY <1>1, RingTypes, RingsRest, CmdTake
  <1>4. TypeOK'
    BY <1>1, <1>2, Sizes
      DEF IInv, ReceiveMovie, Tail_BattleProc, FrameUnchanged, TypeOK, flags, net,
          history, INIT, IN_PRODUCE, RECEIVE_BC, CHAR_IN, CMD_INPUT, RECEIVE_MOVIE, MOVIE,
          OUT_PRODUCE_INIT, OUT_PRODUCE
  <1>5. Abreast'
    BY <1>1, <1>2, WireRests, Sizes
      DEF IInv, ReceiveMovie, Tail_BattleProc, FrameUnchanged, Abreast, flags, net,
          history, INIT, IN_PRODUCE, RECEIVE_BC, CHAR_IN, CMD_INPUT, RECEIVE_MOVIE, MOVIE,
          OUT_PRODUCE_INIT, OUT_PRODUCE, Fighting, Leaving, InBattle, Ordered, TypeOK,
          Endings, Over
  <1>6. InStep'
    <2> SUFFICES ASSUME Current PROVE InStep'
      BY <1>1
        DEF IInv, ReceiveMovie, Tail_BattleProc, FrameUnchanged, flags, net, history,
            INIT, IN_PRODUCE, RECEIVE_BC, CHAR_IN, CMD_INPUT, RECEIVE_MOVIE, MOVIE,
            OUT_PRODUCE_INIT, OUT_PRODUCE, InStep, InBattle, Current, Fighting, Leaving,
            TypeOK
    <2>1. Len(Cmd!Unread) >= 1 /\ cCur' = Cmd!Unread[1]
      BY <1>3, RingTypes
    <2>2. MoviesRead = movies /\ Announced = srv.battle
      BY DEF IInv, ReceiveMovie, Tail_BattleProc, FrameUnchanged, INIT, IN_PRODUCE,
             RECEIVE_BC, CHAR_IN, CMD_INPUT, RECEIVE_MOVIE, MOVIE, OUT_PRODUCE_INIT,
             OUT_PRODUCE, MoviesRead, Shows, Fighting, InBattle, Abreast, Ordered, TypeOK,
             Current
    <2>3. cCur'.battle = srv.battle /\ cCur'.turn = movies
      BY <2>1, <2>2, RingTypes DEF IInv, TurnByTurn, Follow, TypeOK
    <2> QED
      BY <1>1, <2>2, <2>3, WireRests
        DEF IInv, ReceiveMovie, Tail_BattleProc, FrameUnchanged, flags, net, history,
            INIT, IN_PRODUCE, RECEIVE_BC, CHAR_IN, CMD_INPUT, RECEIVE_MOVIE, MOVIE,
            OUT_PRODUCE_INIT, OUT_PRODUCE, InStep, InBattle, TypeOK, sVars, cVars
  <1>7. TurnByTurn'
    <2> SUFFICES ASSUME Current' PROVE TurnByTurn'
      BY DEF TurnByTurn
    <2>1. Current
      BY <1>1
        DEF IInv, ReceiveMovie, Tail_BattleProc, FrameUnchanged, flags, net, history,
            INIT, IN_PRODUCE, RECEIVE_BC, CHAR_IN, CMD_INPUT, RECEIVE_MOVIE, MOVIE,
            OUT_PRODUCE_INIT, OUT_PRODUCE, Fighting, Leaving, InBattle, Abreast, TypeOK,
            Current
    <2>2. Keeps(StatesRead, Status!Unread) /\ Keeps(MoviesRead, Cmd!Unread)
      BY <1>1, <1>3, <2>1
        DEF IInv, ReceiveMovie, Tail_BattleProc, FrameUnchanged, flags, net, history,
            INIT, IN_PRODUCE, RECEIVE_BC, CHAR_IN, CMD_INPUT, RECEIVE_MOVIE, MOVIE,
            OUT_PRODUCE_INIT, OUT_PRODUCE, Fighting, Leaving, InBattle, Abreast, TypeOK,
            Shows, StatesRead, MoviesRead, Keeps, Current
    <2> QED
      BY <1>1, <2>1, <2>2, FrameFollows DEF TurnByTurn
  <1>8. Answered'
    BY <1>1, WireRests
      DEF IInv, ReceiveMovie, Tail_BattleProc, FrameUnchanged, Answered, flags, net,
          history, INIT, IN_PRODUCE, RECEIVE_BC, CHAR_IN, CMD_INPUT, RECEIVE_MOVIE, MOVIE,
          OUT_PRODUCE_INIT, OUT_PRODUCE, Fighting, InBattle, Abreast, TypeOK, Ordered
  <1>9. TurnAgrees'
    BY <1>1
      DEF IInv, ReceiveMovie, Tail_BattleProc, FrameUnchanged, TurnAgrees, flags, net,
          history, TypeOK
  <1> QED
    BY <1>2, <1>4, <1>5, <1>6, <1>7, <1>8, <1>9 DEF IInv

LEMMA MovieKeeps ==
  ASSUME IInv, Movie
  PROVE  IInv'
  <1>1. UNCHANGED <<wire, srv>> /\ UNCHANGED sVars /\ Cmd!Clear
    BY DEF Movie, FrameUnchanged, net
  <1>2. Ordered' /\ Room' /\ Endings' /\ Status!TypeOK' /\ Cmd!TypeOK'
    BY <1>1, FrameKeeps
      DEF Movie, Tail_BattleProc, FrameUnchanged, flags, ReadsStatus, ReadsCmd
  <1>3. /\ Status!Unread' = Status!Unread
        /\ Cmd!Unread' = Cmd!Unread
    BY <1>1, RingTypes, RingsRest
  <1>4. TypeOK'
    BY <1>1, <1>2, Sizes
      DEF IInv, Movie, Tail_BattleProc, FrameUnchanged, TypeOK, flags, net, history, INIT,
          IN_PRODUCE, RECEIVE_BC, CHAR_IN, CMD_INPUT, RECEIVE_MOVIE, MOVIE,
          OUT_PRODUCE_INIT, OUT_PRODUCE
  <1>5. Abreast'
    BY <1>1, <1>2, WireRests, Sizes
      DEF IInv, Movie, Tail_BattleProc, FrameUnchanged, Abreast, flags, net, history,
          INIT, IN_PRODUCE, RECEIVE_BC, CHAR_IN, CMD_INPUT, RECEIVE_MOVIE, MOVIE,
          OUT_PRODUCE_INIT, OUT_PRODUCE, Fighting, Leaving, InBattle, Ordered, TypeOK,
          Endings, Over, InStep, Messages
  <1>6. InStep'
    BY <1>1, <1>3, RingTypes, WireRests
      DEF IInv, Movie, Tail_BattleProc, FrameUnchanged, InStep, flags, net, history, INIT,
          IN_PRODUCE, RECEIVE_BC, CHAR_IN, CMD_INPUT, RECEIVE_MOVIE, MOVIE,
          OUT_PRODUCE_INIT, OUT_PRODUCE, InBattle, Abreast, TypeOK, sVars, cVars
  <1>7. TurnByTurn'
    <2> SUFFICES ASSUME Current' PROVE TurnByTurn'
      BY DEF TurnByTurn
    <2>1. Current
      BY <1>1
        DEF IInv, Movie, Tail_BattleProc, FrameUnchanged, flags, net, history, INIT,
            IN_PRODUCE, RECEIVE_BC, CHAR_IN, CMD_INPUT, RECEIVE_MOVIE, MOVIE,
            OUT_PRODUCE_INIT, OUT_PRODUCE, Fighting, Leaving, InBattle, Abreast, TypeOK,
            Current
    <2>2. Keeps(StatesRead, Status!Unread) /\ Keeps(MoviesRead, Cmd!Unread)
      BY <1>1, <1>3, <2>1
        DEF IInv, Movie, Tail_BattleProc, FrameUnchanged, flags, net, history, INIT,
            IN_PRODUCE, RECEIVE_BC, CHAR_IN, CMD_INPUT, RECEIVE_MOVIE, MOVIE,
            OUT_PRODUCE_INIT, OUT_PRODUCE, Fighting, Leaving, InBattle, Abreast, TypeOK,
            Shows, StatesRead, MoviesRead, Keeps, Current
    <2> QED
      BY <1>1, <2>1, <2>2, FrameFollows DEF TurnByTurn
  <1>8. Answered'
    BY <1>1, WireRests
      DEF IInv, Movie, Tail_BattleProc, FrameUnchanged, Answered, flags, net, history,
          INIT, IN_PRODUCE, RECEIVE_BC, CHAR_IN, CMD_INPUT, RECEIVE_MOVIE, MOVIE,
          OUT_PRODUCE_INIT, OUT_PRODUCE, Fighting, InBattle, Abreast, TypeOK, Ordered
  <1>9. TurnAgrees'
    BY <1>1
      DEF IInv, Movie, Tail_BattleProc, FrameUnchanged, TurnAgrees, flags, net, history,
          TypeOK
  <1> QED
    BY <1>2, <1>4, <1>5, <1>6, <1>7, <1>8, <1>9 DEF IInv

LEMMA EscapeKeeps ==
  ASSUME IInv, Escape
  PROVE  IInv'
  <1>1. UNCHANGED <<wire, srv>> /\ UNCHANGED sVars /\ UNCHANGED cVars
    BY DEF Escape, FrameUnchanged, net
  <1>2. Ordered' /\ Room' /\ Endings' /\ Status!TypeOK' /\ Cmd!TypeOK'
    BY <1>1, FrameKeeps
      DEF Escape, Tail_BattleProc, FrameUnchanged, flags, ReadsStatus, ReadsCmd
  <1>3. /\ Status!Unread' = Status!Unread
        /\ Cmd!Unread' = Cmd!Unread
    BY <1>1, RingTypes, RingsRest
  <1>4. TypeOK'
    BY <1>1, <1>2, Sizes
      DEF IInv, Escape, Tail_BattleProc, FrameUnchanged, TypeOK, flags, net, history,
          INIT, IN_PRODUCE, RECEIVE_BC, CHAR_IN, CMD_INPUT, RECEIVE_MOVIE, MOVIE,
          OUT_PRODUCE_INIT, OUT_PRODUCE
  <1>5. Abreast'
    BY <1>1, <1>2, WireRests, Sizes
      DEF IInv, Escape, Tail_BattleProc, FrameUnchanged, Abreast, flags, net, history,
          INIT, IN_PRODUCE, RECEIVE_BC, CHAR_IN, CMD_INPUT, RECEIVE_MOVIE, MOVIE,
          OUT_PRODUCE_INIT, OUT_PRODUCE, Fighting, Leaving, InBattle, Ordered, TypeOK,
          Endings, Over
  <1>6. InStep'
    BY <1>1, <1>3, RingTypes, WireRests
      DEF IInv, Escape, Tail_BattleProc, FrameUnchanged, InStep, flags, net, history,
          INIT, IN_PRODUCE, RECEIVE_BC, CHAR_IN, CMD_INPUT, RECEIVE_MOVIE, MOVIE,
          OUT_PRODUCE_INIT, OUT_PRODUCE, InBattle, Abreast, TypeOK, sVars, cVars
  <1>7. TurnByTurn'
    <2> SUFFICES ASSUME Current' PROVE TurnByTurn'
      BY DEF TurnByTurn
    <2>1. Current
      BY <1>1
        DEF IInv, Escape, Tail_BattleProc, FrameUnchanged, flags, net, history, INIT,
            IN_PRODUCE, RECEIVE_BC, CHAR_IN, CMD_INPUT, RECEIVE_MOVIE, MOVIE,
            OUT_PRODUCE_INIT, OUT_PRODUCE, Fighting, Leaving, InBattle, Abreast, TypeOK,
            Current
    <2>2. Keeps(StatesRead, Status!Unread) /\ Keeps(MoviesRead, Cmd!Unread)
      BY <1>1, <1>3, <2>1
        DEF IInv, Escape, Tail_BattleProc, FrameUnchanged, flags, net, history, INIT,
            IN_PRODUCE, RECEIVE_BC, CHAR_IN, CMD_INPUT, RECEIVE_MOVIE, MOVIE,
            OUT_PRODUCE_INIT, OUT_PRODUCE, Fighting, Leaving, InBattle, Abreast, TypeOK,
            Shows, StatesRead, MoviesRead, Keeps, Current
    <2> QED
      BY <1>1, <2>1, <2>2, FrameFollows DEF TurnByTurn
  <1>8. Answered'
    BY <1>1, WireRests
      DEF IInv, Escape, Tail_BattleProc, FrameUnchanged, Answered, flags, net, history,
          INIT, IN_PRODUCE, RECEIVE_BC, CHAR_IN, CMD_INPUT, RECEIVE_MOVIE, MOVIE,
          OUT_PRODUCE_INIT, OUT_PRODUCE, Fighting, InBattle, Abreast, TypeOK, Ordered
  <1>9. TurnAgrees'
    BY <1>1
      DEF IInv, Escape, Tail_BattleProc, FrameUnchanged, TurnAgrees, flags, net, history,
          TypeOK
  <1> QED
    BY <1>2, <1>4, <1>5, <1>6, <1>7, <1>8, <1>9 DEF IInv

LEMMA OutProduceInitKeeps ==
  ASSUME IInv, OutProduceInit
  PROVE  IInv'
  <1>1. UNCHANGED <<wire, srv>> /\ UNCHANGED sVars /\ UNCHANGED cVars
    BY DEF OutProduceInit, net
  <1>2. Ordered' /\ Room' /\ Endings' /\ Status!TypeOK' /\ Cmd!TypeOK'
    BY <1>1, FrameKeeps DEF OutProduceInit, flags, ReadsStatus, ReadsCmd
  <1>3. /\ Status!Unread' = Status!Unread
        /\ Cmd!Unread' = Cmd!Unread
    BY <1>1, RingTypes, RingsRest
  <1>4. TypeOK'
    BY <1>1, <1>2, Sizes
      DEF IInv, OutProduceInit, TypeOK, flags, net, history, INIT, IN_PRODUCE, RECEIVE_BC,
          CHAR_IN, CMD_INPUT, RECEIVE_MOVIE, MOVIE, OUT_PRODUCE_INIT, OUT_PRODUCE
  <1>5. Abreast'
    BY <1>1, <1>2, WireRests, Sizes
      DEF IInv, OutProduceInit, Abreast, flags, net, history, INIT, IN_PRODUCE,
          RECEIVE_BC, CHAR_IN, CMD_INPUT, RECEIVE_MOVIE, MOVIE, OUT_PRODUCE_INIT,
          OUT_PRODUCE, Fighting, Leaving, InBattle, Ordered, TypeOK, Endings, Over
  <1>6. InStep'
    BY <1>1, <1>3, RingTypes, WireRests
      DEF IInv, OutProduceInit, InStep, flags, net, history, INIT, IN_PRODUCE, RECEIVE_BC,
          CHAR_IN, CMD_INPUT, RECEIVE_MOVIE, MOVIE, OUT_PRODUCE_INIT, OUT_PRODUCE,
          InBattle, Abreast, TypeOK, sVars, cVars
  <1>7. TurnByTurn'
    <2> SUFFICES ASSUME Current' PROVE TurnByTurn'
      BY DEF TurnByTurn
    <2>1. Current
      BY <1>1
        DEF IInv, OutProduceInit, flags, net, history, INIT, IN_PRODUCE, RECEIVE_BC,
            CHAR_IN, CMD_INPUT, RECEIVE_MOVIE, MOVIE, OUT_PRODUCE_INIT, OUT_PRODUCE,
            Fighting, Leaving, InBattle, Abreast, TypeOK, Current
    <2>2. Keeps(StatesRead, Status!Unread) /\ Keeps(MoviesRead, Cmd!Unread)
      BY <1>1, <1>3, <2>1
        DEF IInv, OutProduceInit, flags, net, history, INIT, IN_PRODUCE, RECEIVE_BC,
            CHAR_IN, CMD_INPUT, RECEIVE_MOVIE, MOVIE, OUT_PRODUCE_INIT, OUT_PRODUCE,
            Fighting, Leaving, InBattle, Abreast, TypeOK, Shows, StatesRead, MoviesRead,
            Keeps, Current
    <2> QED
      BY <1>1, <2>1, <2>2, FrameFollows DEF TurnByTurn
  <1>8. Answered'
    BY <1>1, WireRests
      DEF IInv, OutProduceInit, Answered, flags, net, history, INIT, IN_PRODUCE,
          RECEIVE_BC, CHAR_IN, CMD_INPUT, RECEIVE_MOVIE, MOVIE, OUT_PRODUCE_INIT,
          OUT_PRODUCE, Fighting, InBattle, Abreast, TypeOK, Ordered
  <1>9. TurnAgrees'
    BY <1>1 DEF IInv, OutProduceInit, TurnAgrees, flags, net, history, TypeOK
  <1> QED
    BY <1>2, <1>4, <1>5, <1>6, <1>7, <1>8, <1>9 DEF IInv

LEMMA OutProduceKeeps ==
  ASSUME IInv, OutProduce
  PROVE  IInv'
  <1>1. UNCHANGED <<wire, srv>> /\ UNCHANGED sVars /\ UNCHANGED cVars
    BY DEF OutProduce, net
  <1>2. Ordered' /\ Room' /\ Endings' /\ Status!TypeOK' /\ Cmd!TypeOK'
    BY <1>1, FrameKeeps DEF OutProduce, flags, ReadsStatus, ReadsCmd
  <1>3. /\ Status!Unread' = Status!Unread
        /\ Cmd!Unread' = Cmd!Unread
    BY <1>1, RingTypes, RingsRest
  <1>4. TypeOK'
    BY <1>1, <1>2, Sizes
      DEF IInv, OutProduce, TypeOK, flags, net, history, INIT, IN_PRODUCE, RECEIVE_BC,
          CHAR_IN, CMD_INPUT, RECEIVE_MOVIE, MOVIE, OUT_PRODUCE_INIT, OUT_PRODUCE
  <1>5. Abreast'
    BY <1>1, <1>2, WireRests, Sizes
      DEF IInv, OutProduce, Abreast, flags, net, history, INIT, IN_PRODUCE, RECEIVE_BC,
          CHAR_IN, CMD_INPUT, RECEIVE_MOVIE, MOVIE, OUT_PRODUCE_INIT, OUT_PRODUCE,
          Fighting, Leaving, InBattle, Ordered, TypeOK, Endings, Over
  <1>6. InStep'
    BY <1>1, <1>3, RingTypes, WireRests
      DEF IInv, OutProduce, InStep, flags, net, history, INIT, IN_PRODUCE, RECEIVE_BC,
          CHAR_IN, CMD_INPUT, RECEIVE_MOVIE, MOVIE, OUT_PRODUCE_INIT, OUT_PRODUCE,
          InBattle, Abreast, TypeOK, sVars, cVars
  <1>7. TurnByTurn'
    <2> SUFFICES ASSUME Current' PROVE TurnByTurn'
      BY DEF TurnByTurn
    <2>1. Current
      BY <1>1
        DEF IInv, OutProduce, flags, net, history, INIT, IN_PRODUCE, RECEIVE_BC, CHAR_IN,
            CMD_INPUT, RECEIVE_MOVIE, MOVIE, OUT_PRODUCE_INIT, OUT_PRODUCE, Fighting,
            Leaving, InBattle, Abreast, TypeOK, Current
    <2>2. Keeps(StatesRead, Status!Unread) /\ Keeps(MoviesRead, Cmd!Unread)
      BY <1>1, <1>3, <2>1
        DEF IInv, OutProduce, flags, net, history, INIT, IN_PRODUCE, RECEIVE_BC, CHAR_IN,
            CMD_INPUT, RECEIVE_MOVIE, MOVIE, OUT_PRODUCE_INIT, OUT_PRODUCE, Fighting,
            Leaving, InBattle, Abreast, TypeOK, Shows, StatesRead, MoviesRead, Keeps,
            Current
    <2> QED
      BY <1>1, <2>1, <2>2, FrameFollows DEF TurnByTurn
  <1>8. Answered'
    BY <1>1, WireRests
      DEF IInv, OutProduce, Answered, flags, net, history, INIT, IN_PRODUCE, RECEIVE_BC,
          CHAR_IN, CMD_INPUT, RECEIVE_MOVIE, MOVIE, OUT_PRODUCE_INIT, OUT_PRODUCE,
          Fighting, InBattle, Abreast, TypeOK, Ordered
  <1>9. TurnAgrees'
    BY <1>1 DEF IInv, OutProduce, TurnAgrees, flags, net, history, TypeOK
  <1> QED
    BY <1>2, <1>4, <1>5, <1>6, <1>7, <1>8, <1>9 DEF IInv

-----------------------------------------------------------------------------
(* The server: a line is appended to the wire, and the client stays.       *)

Sends(l) ==
    /\ wire' = Append(wire, l)
    /\ l[2].battle = srv'.battle
    /\ srv'.battle = IF l[1] = "EN" THEN srv.battle + 1 ELSE srv.battle

\* The wire as a sequence of kinds and messages.
LEMMA WireTypes ==
  ASSUME IInv
  PROVE  /\ wire \in Seq(Line) /\ Len(wire) \in Nat /\ DOMAIN wire = 1..Len(wire)
         /\ \A i \in 1..Len(wire) :
               /\ wire[i] \in Line /\ Of(i) \in Shown
               /\ Kind(i) \in {"EN", "BC", "BA", "BM", "BU"}
               /\ Of(i).battle \in Battles /\ Of(i).turn \in 0..MaxTurn /\ Of(i).ends \in BOOLEAN
  <1>1. wire \in Seq(Line)
    BY DEF IInv, TypeOK
  <1>2. ASSUME NEW i \in 1..Len(wire) PROVE wire[i] \in Line
    BY <1>1
  <1>3. ASSUME NEW i \in 1..Len(wire)
        PROVE  Of(i) \in Shown /\ Kind(i) \in {"EN", "BC", "BA", "BM", "BU"}
    BY <1>2 DEF Line, Of, Kind
  <1>4. ASSUME NEW i \in 1..Len(wire)
        PROVE  Of(i).battle \in Battles /\ Of(i).turn \in 0..MaxTurn /\ Of(i).ends \in BOOLEAN
    BY <1>3 DEF Shown
  <1> QED
    BY <1>1, <1>2, <1>3, <1>4

LEMMA Appended ==
  ASSUME IInv, NEW l \in Line, Sends(l)
  PROVE  /\ wire' \in Seq(Line) /\ Len(wire') = Len(wire) + 1 /\ wire' # <<>>
         /\ DOMAIN wire' = 1..Len(wire) + 1
         /\ \A i \in 1..Len(wire) : wire'[i] = wire[i]
         /\ wire'[Len(wire) + 1] = l
         /\ Announced' = Announced
         /\ \A kind, b : Cardinality(Lines(kind, b)') =
                Cardinality(Lines(kind, b))
                + (IF l[1] = kind /\ l[2].battle = b THEN 1 ELSE 0)
         /\ \A kind, b : Lines(kind, b)' =
                Lines(kind, b)
                \cup (IF l[1] = kind /\ l[2].battle = b THEN {Len(wire) + 1} ELSE {})
  <1>1. wire \in Seq(Line) /\ Len(wire) \in Nat /\ DOMAIN wire = 1..Len(wire)
    BY WireTypes
  <1>2. /\ wire' \in Seq(Line) /\ Len(wire') = Len(wire) + 1 /\ wire' # <<>>
        /\ DOMAIN wire' = 1..Len(wire) + 1
        /\ wire'[Len(wire) + 1] = l /\ \A i \in 1..Len(wire) : wire'[i] = wire[i]
    BY <1>1 DEF Sends
  <1>3. Announced' = Announced
    <2>1. l \in Announcements <=> l[1] = "EN"
      BY DEF Announcements
    <2>2. Count(wire', Announcements)
            = Count(wire, Announcements) + (IF l[1] = "EN" THEN 1 ELSE 0)
      BY <1>1, <2>1, CountAppend DEF Sends
    <2>3. srv.battle \in Nat
      BY Sizes DEF IInv, TypeOK
    <2> QED
      BY <1>1, <1>2, <2>2, <2>3, Counted, CountedNext DEF Sends
  <1>4. ASSUME NEW kind, NEW b
        PROVE  Cardinality(Lines(kind, b)') =
                   Cardinality(Lines(kind, b))
                   + (IF l[1] = kind /\ l[2].battle = b THEN 1 ELSE 0)
    <2>1. l \in About(kind, b) <=> l[1] = kind /\ l[2].battle = b
      BY DEF About
    <2>2. Count(wire', About(kind, b))
            = Count(wire, About(kind, b)) + (IF l[1] = kind /\ l[2].battle = b THEN 1 ELSE 0)
      BY <1>1, <2>1, CountAppend DEF Sends
    <2> QED
      BY <1>1, <1>2, <2>2, Counted, CountedNext
  <1>5. ASSUME NEW kind, NEW b
        PROVE  Lines(kind, b)' =
                   Lines(kind, b)
                   \cup (IF l[1] = kind /\ l[2].battle = b THEN {Len(wire) + 1} ELSE {})
    BY <1>1, <1>2 DEF Lines, Kind, Of
  <1> QED
    BY <1>2, <1>3, <1>4, <1>5

\* Every line is about the server's battle or an earlier one.
LEMMA LastOnWire ==
  ASSUME IInv, NEW i \in 1..Len(wire)
  PROVE  Of(i).battle =< srv.battle /\ wire # <<>>
  <1>1. wire # <<>> /\ Len(wire) \in 1..Len(wire) /\ (i < Len(wire) \/ i = Len(wire))
    <2>1. wire = <<>> => Len(wire) = 0
      OBVIOUS
    <2>2. Len(wire) \in Nat
      BY WireTypes
    <2> QED
      BY <2>1, <2>2
  <1>2. Of(Len(wire)).battle = srv.battle /\ srv.battle \in Nat
    BY <1>1, Sizes DEF IInv, Ordered, TypeOK
  <1>3. CASE i < Len(wire)
    BY <1>1, <1>2, <1>3 DEF IInv, Ordered
  <1> QED
    BY <1>1, <1>2, <1>3

LEMMA SendsOrdered ==
  ASSUME IInv, NEW l \in Line, Sends(l)
  PROVE  Ordered'
  <1>1. /\ srv.battle \in Nat /\ Announced \in 0..srv.battle
        /\ l[2].battle = srv'.battle
        /\ srv'.battle = IF l[1] = "EN" THEN srv.battle + 1 ELSE srv.battle
    BY Sizes DEF IInv, TypeOK, Ordered, Sends
  <1>2. Announced' \in 0..srv'.battle
    BY <1>1, Appended
  <1>3. wire'[Len(wire')][2].battle = srv'.battle
    BY <1>1, Appended
  <1>4. wire'[1][2].battle = IF wire'[1][1] = "EN" THEN Announced' + 1 ELSE Announced'
    <2>1. CASE wire = <<>>
      <3>1. Count(wire, Announcements) = 0
        <4>1. {i \in DOMAIN wire : wire[i] \in Announcements} = {}
          BY <2>1
        <4> QED
          BY <4>1, FS_EmptySet DEF Count
      <3>2. Announced = srv.battle
        BY <1>1, <3>1, WireTypes, Counted
      <3>3. wire'[1] = l
        BY <2>1, Appended
      <3> QED
        BY <1>1, <3>2, <3>3, Appended
    <2>2. CASE wire # <<>>
      <3>1. 1 \in 1..Len(wire)
        BY <2>2, WireTypes
      <3>2. wire'[1] = wire[1]
        BY <3>1, Appended
      <3> QED
        BY <2>2, <3>2, Appended DEF IInv, Ordered, Of, Kind
    <2> QED
      BY <2>1, <2>2
  <1>5. ASSUME NEW i \in 1..Len(wire') - 1
        PROVE  wire'[i + 1][2].battle =
                   IF wire'[i + 1][1] = "EN" THEN wire'[i][2].battle + 1 ELSE wire'[i][2].battle
    <2>1. CASE i < Len(wire)
      <3>1. i \in 1..Len(wire) - 1 /\ i \in 1..Len(wire) /\ i + 1 \in 1..Len(wire)
        BY <2>1, WireTypes, Appended
      <3>2. wire'[i] = wire[i] /\ wire'[i + 1] = wire[i + 1]
        BY <3>1, Appended
      <3> QED
        BY <3>1, <3>2 DEF IInv, Ordered, Of, Kind
    <2>2. CASE i = Len(wire)
      <3>1. i \in 1..Len(wire) /\ wire # <<>>
        BY <2>2, WireTypes, Appended
      <3>2. wire'[i] = wire[i] /\ wire'[i + 1] = l
        BY <2>2, <3>1, Appended
      <3>3. wire'[i][2].battle = srv.battle
        BY <2>2, <3>1, <3>2 DEF IInv, Ordered, Of
      <3> QED
        BY <1>1, <3>2, <3>3
    <2>3. i \in 1..Len(wire) /\ Len(wire) \in Nat
      BY WireTypes, Appended
    <2> QED
      BY <2>1, <2>2, <2>3
  <1>6. ASSUME NEW i \in 1..Len(wire), NEW j \in 1..Len(wire), i < j
        PROVE  /\ wire'[i][2].battle =< wire'[j][2].battle
               /\ wire'[j][1] = "EN" => wire'[i][2].battle < wire'[j][2].battle
    <2>1. wire'[i] = wire[i] /\ wire'[j] = wire[j]
      BY Appended
    <2> QED
      BY <1>6, <2>1 DEF IInv, Ordered, Of, Kind
  <1>7. ASSUME NEW i \in 1..Len(wire), NEW j \in {Len(wire) + 1}
        PROVE  /\ wire'[i][2].battle =< wire'[j][2].battle
               /\ wire'[j][1] = "EN" => wire'[i][2].battle < wire'[j][2].battle
    <2>1. wire'[i] = wire[i] /\ wire'[j] = l
      BY Appended
    <2>2. wire[i][2].battle \in Nat /\ wire[i][2].battle =< srv.battle
      BY WireTypes, LastOnWire, Sizes DEF Battles, Of
    <2> QED
      BY <1>1, <2>1, <2>2
  <1>8. ASSUME NEW i \in 1..Len(wire'), NEW j \in 1..Len(wire'), i < j
        PROVE  /\ wire'[i][2].battle =< wire'[j][2].battle
               /\ wire'[j][1] = "EN" => wire'[i][2].battle < wire'[j][2].battle
    <2>1. i \in 1..Len(wire) /\ (j \in 1..Len(wire) \/ j \in {Len(wire) + 1})
      BY <1>8, WireTypes, Appended
    <2> QED
      BY <1>6, <1>7, <1>8, <2>1
  <1> QED
    BY <1>2, <1>3, <1>4, <1>5, <1>8 DEF Ordered, Of, Kind

-----------------------------------------------------------------------------
(* The server's steps: the client stays.                                   *)

LEMMA ClientRests ==
  ASSUME IInv, UNCHANGED <<screen, flags, sVars, cVars, history>>
  PROVE  /\ StatusRing!IInv' /\ CmdRing!IInv' /\ Status!TypeOK' /\ Cmd!TypeOK'
         /\ Status!Backlog' = Status!Backlog /\ Status!Unread' = Status!Unread
         /\ Cmd!Backlog' = Cmd!Backlog /\ Cmd!Unread' = Cmd!Unread
         /\ (Fighting' <=> Fighting) /\ (Leaving' <=> Leaving)
         /\ StatesRead' = StatesRead /\ MoviesRead' = MoviesRead /\ UNCHANGED <<sBak, cBak>>
  <1>1. /\ StatusRing!IInv' /\ CmdRing!IInv'
        /\ Status!Backlog' = Status!Backlog /\ Status!Unread' = Status!Unread
        /\ Cmd!Backlog' = Cmd!Backlog /\ Cmd!Unread' = Cmd!Unread
    BY RingTypes, RingsRest
  <1>2. UNCHANGED <<ProcNo, SubProcNo, movies>>
    BY DEF screen, history
  <1> QED
    BY <1>1, <1>2, RingTypesNext
    DEF Fighting, Leaving, InBattle, Shows, StatesRead, MoviesRead, sVars, cVars

\* What ToCome counts is what Room bounds.
LEMMA RoomLeft ==
  ASSUME IInv
  PROVE  /\ ToCome("BC") < Ahead =>
                Cardinality(Lines("BC", srv.battle))
                    + (IF srv.battle = Announced THEN Status!Backlog ELSE 0) < Ahead
         /\ ToCome("BM") < Ahead =>
                Cardinality(Lines("BM", srv.battle))
                    + (IF srv.battle = Announced THEN Cmd!Backlog ELSE 0) < Ahead
  <1>1. /\ \A kind : Cardinality(Lines(kind, srv.battle)) \in Nat
        /\ Status!Backlog \in Nat /\ Cmd!Backlog \in Nat
    BY Counted, RingTypes DEF IInv, TypeOK
  <1>2. \A kind : Lines(kind, srv.battle) =
            {i \in DOMAIN wire : wire[i][1] = kind /\ wire[i][2].battle = srv.battle}
    BY DEF Lines, Kind, Of
  <1>3. CASE srv.battle = Announced
    BY <1>1, <1>2, <1>3 DEF ToCome
  <1>4. CASE srv.battle # Announced
    BY <1>1, <1>2, <1>4 DEF ToCome
  <1> QED
    BY <1>3, <1>4

\* What every message of the server has in common.
MaySend(l) ==
    /\ srv' \in [battle : 1..MaxBattles, turn : 0..MaxTurn, ba : 0..MaxBA,
                 phase : {"map", "state", "input", "over"}, bu : BOOLEAN]
    /\ l[1] = "BC" => ToCome("BC") < Ahead
    /\ l[1] = "BM" => ToCome("BM") < Ahead
    /\ l[1] # "EN" => (Over => Over') /\ (srv.bu => srv'.bu)
    /\ l[1] = "EN" => ~l[2].ends /\ ~srv'.bu
    /\ l[1] = "BU" => srv'.bu
    /\ l[2].ends \/ srv'.bu => Over'

LEMMA SendKeeps ==
  ASSUME IInv, NEW l \in Line, Sends(l), MaySend(l), ServerUnchanged
  PROVE  TypeOK' /\ Ordered' /\ Room' /\ Endings' /\ InStep' /\ Answered' /\ TurnAgrees'
  <1>1. UNCHANGED <<screen, flags, sVars, cVars, history>> /\ eo' = eo
    BY DEF ServerUnchanged
  <1>2. Ordered'
    BY SendsOrdered
  <1>3. /\ srv.battle \in Nat /\ srv'.battle \in Nat
        /\ srv'.battle = IF l[1] = "EN" THEN srv.battle + 1 ELSE srv.battle
        /\ l[2].battle = srv'.battle /\ l[2] \in Shown
        /\ l[1] \in {"EN", "BC", "BA", "BM", "BU"}
    BY Sizes DEF IInv, TypeOK, MaySend, Sends, Line
  <1>4. TypeOK'
    <2>1. wire' \in Seq(Line) /\ srv' \in [battle : 0..MaxBattles, turn : 0..MaxTurn,
                ba : 0..MaxBA, phase : {"map", "state", "input", "over"}, bu : BOOLEAN]
      BY Appended, Sizes DEF MaySend
    <2>2. /\ UNCHANGED <<ProcNo, SubProcNo, EncountFlag, BattleEscFlag, BattleTurnReceiveFlag,
                         BattleCliTurnNo>>
          /\ UNCHANGED <<entered, phantom, early, movies, synced, lost>>
      BY <1>1 DEF screen, flags, history
    <2> QED
      BY <1>1, <2>1, <2>2, ClientRests DEF IInv, TypeOK
  <1>5. Room'
    <2> SUFFICES ASSUME NEW b \in Battles
                 PROVE  /\ Cardinality(Lines("BC", b)')
                               + (IF b = Announced' THEN Status!Backlog' ELSE 0) =< Ahead
                        /\ Cardinality(Lines("BM", b)')
                               + (IF b = Announced' THEN Cmd!Backlog' ELSE 0) =< Ahead
      BY <1>1, ClientRests DEF Room
    <2>1. /\ Cardinality(Lines("BC", b)) \in Nat /\ Cardinality(Lines("BM", b)) \in Nat
          /\ Status!Backlog \in Nat /\ Cmd!Backlog \in Nat /\ Ahead \in Nat
      BY Counted, RingTypes, Sizes DEF IInv, TypeOK
    <2>2. /\ Cardinality(Lines("BC", b))
                 + (IF b = Announced THEN Status!Backlog ELSE 0) =< Ahead
          /\ Cardinality(Lines("BM", b))
                 + (IF b = Announced THEN Cmd!Backlog ELSE 0) =< Ahead
      BY DEF IInv, Room
    <2>3. /\ Cardinality(Lines("BC", b)') = Cardinality(Lines("BC", b))
                 + (IF l[1] = "BC" /\ l[2].battle = b THEN 1 ELSE 0)
          /\ Cardinality(Lines("BM", b)') = Cardinality(Lines("BM", b))
                 + (IF l[1] = "BM" /\ l[2].battle = b THEN 1 ELSE 0)
          /\ Announced' = Announced
      BY Appended
    <2>4. Status!Backlog' = Status!Backlog /\ Cmd!Backlog' = Cmd!Backlog
      BY <1>1, ClientRests
    <2> QED
      BY <1>3, <2>1, <2>2, <2>3, <2>4, RoomLeft DEF MaySend
  <1>6. Endings'
    <2>1. Messages' = Messages \cup {l[2]}
      <3>1. {wire'[i][2] : i \in DOMAIN wire'} = {Of(i) : i \in DOMAIN wire} \cup {l[2]}
        BY Appended, WireTypes DEF Of
      <3>2. UNCHANGED <<sBak, cBak, sCur, cCur>>
        BY <1>1 DEF sVars, cVars
      <3> QED
        BY <3>1, <3>2 DEF Messages, Of
    <2>2. ASSUME NEW m \in Messages PROVE m.battle \in Nat
      <3>1. m \in Shown \cup {NoMsg}
        BY WireTypes DEF IInv, TypeOK, Messages, Status!TypeOK, Cmd!TypeOK
      <3> QED
        BY <3>1, Sizes DEF Shown, NoMsg, Battles
    <2>3. ASSUME NEW m \in Messages'
          PROVE  m.battle =< srv'.battle /\ (m.ends /\ m.battle = srv'.battle => Over')
      <3>1. CASE m \in Messages
        BY <1>3, <2>2, <3>1 DEF IInv, Endings, MaySend
      <3>2. CASE m = l[2]
        BY <1>3, <3>2 DEF MaySend
      <3> QED
        BY <2>1, <3>1, <3>2
    <2>4. ASSUME NEW i \in DOMAIN wire', wire'[i][1] = "BU", wire'[i][2].battle = srv'.battle
          PROVE  srv'.bu
      <3>1. CASE i \in 1..Len(wire)
        <4>1. wire'[i] = wire[i] /\ Of(i).battle =< srv.battle /\ i \in DOMAIN wire
          BY <3>1, Appended, LastOnWire, WireTypes
        <4>2. Of(i).battle \in Nat
          BY <3>1, WireTypes, Sizes DEF Battles
        <4> QED
          BY <1>3, <2>4, <4>1, <4>2 DEF IInv, Endings, MaySend, Of, Kind
      <3>2. CASE i = Len(wire) + 1
        BY <2>4, <3>2, Appended DEF MaySend
      <3> QED
        BY <2>4, <3>1, <3>2, Appended, WireTypes
    <2>5. BattleEscFlag' = BattleEscFlag /\ BattleEscFlag \in Nat
      BY <1>1, Sizes DEF flags, IInv, TypeOK
    <2>6. srv'.battle # 0
      BY DEF MaySend
    <2> QED
      BY <1>3, <2>3, <2>4, <2>5, <2>6 DEF IInv, Endings, MaySend, Of, Kind
  <1>7. UNCHANGED <<ProcNo, SubProcNo, EncountFlag, BattleCliTurnNo, sCur, cCur>>
        /\ UNCHANGED <<entered, phantom, early, movies, synced>> /\ Announced' = Announced
    BY <1>1, Appended DEF screen, flags, history, sVars, cVars
  <1>8. InStep' /\ Answered' /\ TurnAgrees'
    BY <1>7 DEF IInv, InStep, Answered, TurnAgrees, InBattle, Fighting
  <1> QED
    BY <1>2, <1>4, <1>5, <1>6, <1>8

\* The turns of the lines at L on a wire w, in the terms of Follow.
InTurn(w, L, lo, heads) ==
    /\ \A i, j \in L : i < j => w[i][2].turn < w[j][2].turn
    /\ \E h \in heads : lo =< h /\ {w[i][2].turn : i \in L} = lo..h - 1

LEMMA OneMore ==
  ASSUME NEW w, NEW w2, NEW L \in SUBSET Nat, NEW n \in Nat, NEW lo \in Nat,
         NEW h \in Nat, NEW heads, InTurn(w, L, lo, {h}),
         \A i \in L : i < n /\ w2[i] = w[i] /\ w[i][2].turn \in Nat,
         w2[n][2].turn = h, h + 1 \in heads
  PROVE  InTurn(w2, L \cup {n}, lo, heads)
  <1>1. lo =< h /\ {w[i][2].turn : i \in L} = lo..h - 1
    BY DEF InTurn
  <1>2. n \notin L /\ \A i \in L : w2[i][2].turn < h
    BY <1>1
  <1>3. ASSUME NEW i \in L \cup {n}, NEW j \in L \cup {n}, i < j
        PROVE  w2[i][2].turn < w2[j][2].turn
    BY <1>2, <1>3 DEF InTurn
  <1>4. {w2[i][2].turn : i \in L \cup {n}} = lo..(h + 1) - 1
    <2>1. {w2[i][2].turn : i \in L} = {w[i][2].turn : i \in L}
      OBVIOUS
    <2>2. {w2[i][2].turn : i \in L \cup {n}} = {w2[i][2].turn : i \in L} \cup {w2[n][2].turn}
      OBVIOUS
    <2>3. (lo..h - 1) \cup {h} = lo..(h + 1) - 1
      BY <1>1
    <2> QED
      BY <1>1, <2>1, <2>2, <2>3
  <1>5. \E k \in heads : lo =< k /\ {w2[i][2].turn : i \in L \cup {n}} = lo..k - 1
    BY <1>1, <1>4
  <1> QED
    BY <1>3, <1>5 DEF InTurn

LEMMA NoneMore ==
  ASSUME NEW w, NEW w2, NEW L, NEW lo, NEW heads, NEW more, InTurn(w, L, lo, heads),
         heads \subseteq more, \A i \in L : w2[i] = w[i]
  PROVE  InTurn(w2, L, lo, more)
  <1>1. {w2[i][2].turn : i \in L} = {w[i][2].turn : i \in L}
    OBVIOUS
  <1> QED
    BY <1>1 DEF InTurn

\* A state or a movie is sent for the server's turn, after those for the turns
\* before.
LEMMA SendsFollow ==
  ASSUME IInv, NEW l \in Line, Sends(l), ServerUnchanged, Current, srv'.battle = srv.battle,
         IF l[1] = "BC" THEN StatesSent = {l[2].turn} /\ l[2].turn + 1 \in StatesSent'
                        ELSE StatesSent \subseteq StatesSent',
         IF l[1] = "BM" THEN MoviesSent = {l[2].turn} /\ l[2].turn + 1 \in MoviesSent'
                        ELSE MoviesSent \subseteq MoviesSent'
  PROVE  TurnByTurn'
  <1> DEFINE b == srv.battle
             n == Len(wire) + 1
             sLo == IF Announced = b THEN StatesRead + Len(Status!Unread) ELSE 0
             cLo == IF Announced = b THEN MoviesRead + Len(Cmd!Unread) ELSE 0
             L(kind) == Lines(kind, b)
  <1>1. /\ Status!Unread' = Status!Unread /\ Cmd!Unread' = Cmd!Unread
        /\ StatesRead' = StatesRead /\ MoviesRead' = MoviesRead
        /\ StatesRead \in Nat /\ MoviesRead \in Nat
        /\ Status!Unread \in Seq(Shown) /\ Cmd!Unread \in Seq(Shown)
    BY ClientRests, RingTypes
    DEF ServerUnchanged, IInv, TypeOK, StatesRead, MoviesRead, Shows
  <1>2. /\ Follow("BC", StatesRead, Status!Unread, StatesSent)
        /\ Follow("BM", MoviesRead, Cmd!Unread, MoviesSent)
    BY DEF IInv, TurnByTurn
  <1>3. InTurn(wire, L("BC"), sLo, StatesSent) /\ InTurn(wire, L("BM"), cLo, MoviesSent)
    BY <1>2 DEF Follow, InTurn, TurnsOf, Of
  <1>4. l[2].battle = b /\ l[2].turn \in Nat /\ Announced' = Announced
    <2>1. l[2].battle = b /\ l[2] \in Shown
      BY DEF Sends, Line
    <2> QED
      BY <2>1, Sizes, Appended DEF Shown
  <1>5. /\ \A kind : Lines(kind, b)' = L(kind) \cup (IF l[1] = kind THEN {n} ELSE {})
        /\ wire'[n] = l /\ n \in Nat
        /\ \A kind : \A i \in L(kind) :
               i \in Nat /\ i < n /\ wire'[i] = wire[i] /\ wire[i][2].turn \in Nat
    <2>1. /\ \A kind : Lines(kind, b)' = L(kind) \cup (IF l[1] = kind THEN {n} ELSE {})
          /\ wire'[n] = l /\ \A i \in 1..Len(wire) : wire'[i] = wire[i]
      BY <1>4, Appended
    <2>2. \A kind : L(kind) \subseteq 1..Len(wire)
      BY WireTypes DEF Lines
    <2>3. n \in Nat /\ \A i \in 1..Len(wire) : i \in Nat /\ i < n /\ wire[i][2].turn \in Nat
      BY WireTypes, Sizes DEF Of
    <2> HIDE DEF L, n
    <2> QED
      BY <2>1, <2>2, <2>3
  <1>6. sLo \in Nat /\ cLo \in Nat
    BY <1>1
  <1> HIDE DEF n, L, sLo, cLo
  <1>7. InTurn(wire', Lines("BC", b)', sLo, StatesSent')
    <2>1. CASE l[1] = "BC"
      <3>1. /\ StatesSent = {l[2].turn} /\ l[2].turn + 1 \in StatesSent'
            /\ Lines("BC", b)' = L("BC") \cup {n} /\ L("BC") \in SUBSET Nat
            /\ wire'[n][2].turn = l[2].turn
        BY <1>5, <2>1
      <3>2. \A i \in L("BC") : i < n /\ wire'[i] = wire[i] /\ wire[i][2].turn \in Nat
        BY <1>5
      <3>3. /\ InTurn(wire, L("BC"), sLo, {l[2].turn})
            /\ sLo \in Nat /\ l[2].turn \in Nat /\ n \in Nat
        BY <1>3, <1>4, <1>5, <1>6, <3>1
      <3>4. InTurn(wire', L("BC") \cup {n}, sLo, StatesSent')
        BY <3>1, <3>2, <3>3, OneMore
      <3> QED
        BY <3>1, <3>4
    <2>2. CASE l[1] # "BC"
      <3>1. StatesSent \subseteq StatesSent' /\ Lines("BC", b)' = L("BC")
        BY <1>5, <2>2
      <3>2. \A i \in L("BC") : wire'[i] = wire[i]
        BY <1>5
      <3> QED
        BY <1>3, <3>1, <3>2, NoneMore
    <2> QED
      BY <2>1, <2>2
  <1>8. InTurn(wire', Lines("BM", b)', cLo, MoviesSent')
    <2>1. CASE l[1] = "BM"
      <3>1. /\ MoviesSent = {l[2].turn} /\ l[2].turn + 1 \in MoviesSent'
            /\ Lines("BM", b)' = L("BM") \cup {n} /\ L("BM") \in SUBSET Nat
            /\ wire'[n][2].turn = l[2].turn
        BY <1>5, <2>1
      <3>2. \A i \in L("BM") : i < n /\ wire'[i] = wire[i] /\ wire[i][2].turn \in Nat
        BY <1>5
      <3>3. /\ InTurn(wire, L("BM"), cLo, {l[2].turn})
            /\ cLo \in Nat /\ l[2].turn \in Nat /\ n \in Nat
        BY <1>3, <1>4, <1>5, <1>6, <3>1
      <3>4. InTurn(wire', L("BM") \cup {n}, cLo, MoviesSent')
        BY <3>1, <3>2, <3>3, OneMore
      <3> QED
        BY <3>1, <3>4
    <2>2. CASE l[1] # "BM"
      <3>1. MoviesSent \subseteq MoviesSent' /\ Lines("BM", b)' = L("BM")
        BY <1>5, <2>2
      <3>2. \A i \in L("BM") : wire'[i] = wire[i]
        BY <1>5
      <3> QED
        BY <1>3, <3>1, <3>2, NoneMore
    <2> QED
      BY <2>1, <2>2
  <1>9. srv'.battle = b /\ Lines("BC", srv.battle)' = Lines("BC", b)'
        /\ Lines("BM", srv.battle)' = Lines("BM", b)'
    OBVIOUS
  <1>10. Follow("BC", StatesRead, Status!Unread, StatesSent)'
    BY <1>1, <1>2, <1>4, <1>7, <1>9 DEF Follow, InTurn, TurnsOf, Of, sLo
  <1>11. Follow("BM", MoviesRead, Cmd!Unread, MoviesSent)'
    BY <1>1, <1>2, <1>4, <1>8, <1>9 DEF Follow, InTurn, TurnsOf, Of, cLo
  <1> QED
    BY <1>10, <1>11 DEF TurnByTurn

LEMMA ServerEncounterKeeps ==
  ASSUME IInv, ServerEncounter
  PROVE  IInv'
  <1> DEFINE l == <<"EN", [battle |-> srv.battle + 1, turn |-> 0, ends |-> FALSE]>>
  <1>1. /\ l \in Line /\ l[1] = "EN" /\ ~l[2].ends /\ l[2].battle = srv.battle + 1
        /\ srv.battle \in Nat
    <2>1. srv.battle \in 0..MaxBattles /\ srv.battle < MaxBattles
      BY DEF IInv, TypeOK, ServerEncounter
    <2>2. srv.battle + 1 \in Battles /\ srv.battle \in Nat /\ 0 \in 0..MaxTurn
      BY <2>1, Sizes DEF Battles
    <2> QED
      BY <2>2 DEF Line, Shown
  <1>2. /\ Sends(l) /\ MaySend(l) /\ ServerUnchanged
        /\ srv'.battle = srv.battle + 1 /\ srv'.turn = 0 /\ srv'.phase = "state"
    <2>1. srv' = [battle |-> srv.battle + 1, turn |-> 0, ba |-> 0,
                  phase |-> "state", bu |-> FALSE]
      BY DEF ServerEncounter
    <2>2. srv'.battle = srv.battle + 1 /\ srv'.turn = 0 /\ srv'.phase = "state" /\ ~srv'.bu
      BY <2>1
    <2>3. srv' \in [battle : 1..MaxBattles, turn : 0..MaxTurn, ba : 0..MaxBA,
                    phase : {"map", "state", "input", "over"}, bu : BOOLEAN]
      <3>1. srv.battle + 1 \in 1..MaxBattles /\ 0 \in 0..MaxTurn /\ 0 \in 0..MaxBA
        BY <1>1, Sizes DEF Line, Shown, Battles
      <3> QED
        BY <2>1, <3>1
    <2>4. Sends(l) /\ ServerUnchanged
      BY <1>1, <2>2 DEF ServerEncounter, Sends
    <2> QED
      BY <1>1, <2>2, <2>3, <2>4 DEF MaySend
  <1> HIDE DEF l
  <1>3. TypeOK' /\ Ordered' /\ Room' /\ Endings' /\ InStep' /\ Answered' /\ TurnAgrees'
    BY <1>1, <1>2, SendKeeps
  <1>4. /\ UNCHANGED <<ProcNo, SubProcNo, BattleEscFlag, entered, phantom, eo>>
        /\ Announced' = Announced /\ Announced =< srv.battle /\ Announced \in Nat
        /\ srv.phase = "map"
    BY <1>1, <1>2, Appended
    DEF ServerEncounter, ServerUnchanged, screen, flags, history, IInv, Ordered
  <1>5. Abreast'
    BY <1>1, <1>2, <1>4, Sizes DEF IInv, TypeOK, Abreast, Fighting, Leaving, InBattle
  <1>6. TurnByTurn'
    <2>1. srv'.battle = srv.battle + 1 /\ Announced' # srv'.battle
      BY <1>1, <1>2, <1>4
    <2>2. 0 \in StatesSent' /\ 0 \in MoviesSent'
      BY <1>2 DEF StatesSent, MoviesSent, Over
    <2>3. Lines("BC", srv.battle)' = {} /\ Lines("BM", srv.battle)' = {}
      <3>1. ASSUME NEW i \in 1..Len(wire) + 1
            PROVE  ~(wire'[i][1] \in {"BC", "BM"} /\ wire'[i][2].battle = srv.battle + 1)
        <4>1. CASE i \in 1..Len(wire)
          <5>1. wire'[i] = wire[i] /\ wire[i][2].battle \in Nat /\ wire[i][2].battle =< srv.battle
            BY <4>1, <1>1, <1>2, Appended, WireTypes, LastOnWire, Sizes DEF Battles, Of
          <5> QED
            BY <1>1, <5>1
        <4>2. CASE i = Len(wire) + 1
          BY <1>1, <1>2, <4>2, Appended
        <4> QED
          BY <4>1, <4>2, WireTypes
      <3>2. DOMAIN wire' = 1..Len(wire) + 1
        BY <1>1, <1>2, Appended
      <3> QED
        BY <2>1, <3>1, <3>2 DEF Lines, Kind, Of
    <2>4. 0..0 - 1 = {}
      OBVIOUS
    <2>5. /\ Follow("BC", StatesRead, Status!Unread, StatesSent)'
          /\ Follow("BM", MoviesRead, Cmd!Unread, MoviesSent)'
      BY <2>1, <2>2, <2>3, <2>4 DEF Follow, TurnsOf
    <2> QED
      BY <2>5 DEF TurnByTurn
  <1> QED
    BY <1>3, <1>5, <1>6 DEF IInv

\* What the messages during a battle have in common.
MaySendOn(l) ==
    /\ l[1] # "EN" /\ srv.phase # "map" /\ srv'.phase # "map"
    /\ srv.phase = "over" => srv'.phase = "over"
    /\ IF l[1] = "BC" THEN StatesSent = {l[2].turn} /\ l[2].turn + 1 \in StatesSent'
                      ELSE StatesSent \subseteq StatesSent'
    /\ IF l[1] = "BM" THEN MoviesSent = {l[2].turn} /\ l[2].turn + 1 \in MoviesSent'
                      ELSE MoviesSent \subseteq MoviesSent'

LEMMA SendOnKeeps ==
  ASSUME IInv, NEW l \in Line, Sends(l), MaySend(l), MaySendOn(l), ServerUnchanged
  PROVE  IInv'
  <1>1. TypeOK' /\ Ordered' /\ Room' /\ Endings' /\ InStep' /\ Answered' /\ TurnAgrees'
    BY SendKeeps
  <1>2. /\ UNCHANGED <<ProcNo, SubProcNo, BattleEscFlag, entered, phantom, eo>>
        /\ Announced' = Announced /\ srv'.battle = srv.battle
    BY Appended DEF ServerUnchanged, screen, flags, history, Sends, MaySendOn
  <1>3. Abreast'
    BY <1>2 DEF IInv, TypeOK, Abreast, Fighting, Leaving, InBattle, MaySendOn
  <1>4. TurnByTurn'
    <2>1. CASE Current
      BY <1>2, <2>1, SendsFollow DEF MaySendOn
    <2>2. CASE ~Current
      <3>1. ~Current'
        BY <1>2, <2>2 DEF Current, Fighting, Leaving, InBattle
      <3> QED
        BY <3>1 DEF TurnByTurn
    <2> QED
      BY <2>1, <2>2
  <1> QED
    BY <1>1, <1>3, <1>4 DEF IInv

LEMMA ServerStateKeeps ==
  ASSUME IInv, ServerState
  PROVE  IInv'
  <1>1. PICK ends \in BOOLEAN :
           /\ srv' = [srv EXCEPT !.phase = IF ends THEN "over" ELSE "input", !.ba = 0]
           /\ Send("BC", ends)
    BY DEF ServerState
  <1> DEFINE l == <<"BC", [battle |-> srv.battle, turn |-> srv.turn, ends |-> ends]>>
  <1>2. /\ srv.battle \in Battles /\ srv.turn \in 0..MaxTurn /\ srv.ba \in 0..MaxBA
        /\ srv.phase \in {"map", "state", "input", "over"} /\ srv.bu \in BOOLEAN
    BY Sizes DEF IInv, TypeOK, Endings, Battles, ServerState
  <1>3. /\ srv'.battle = srv.battle /\ srv'.bu = srv.bu /\ srv.phase = "state"
        /\ srv' \in [battle : 1..MaxBattles, turn : 0..MaxTurn, ba : 0..MaxBA,
                     phase : {"map", "state", "input", "over"}, bu : BOOLEAN]
        /\ srv'.turn = srv.turn /\ srv'.phase = IF ends THEN "over" ELSE "input"
    <2>1. srv' = [battle |-> srv.battle, turn |-> srv.turn, ba |-> 0,
                  phase |-> IF ends THEN "over" ELSE "input", bu |-> srv.bu]
      BY <1>1 DEF IInv, TypeOK
    <2> QED
      <3>1. srv.battle \in 1..MaxBattles /\ 0 \in 0..MaxBA
        BY <1>2, Sizes DEF Battles
      <3>2. srv.phase = "state"
        BY DEF ServerState
      <3> QED
        BY <1>2, <2>1, <3>1, <3>2
  <1>4. l \in Line /\ l[1] = "BC" /\ l[2].ends = ends /\ l[2].battle = srv.battle
        /\ l[2].turn = srv.turn
    BY <1>2 DEF Line, Shown
  <1>5. Sends(l) /\ ServerUnchanged
    BY <1>1, <1>3, <1>4 DEF Send, Sends, ServerState
  <1> HIDE DEF l
  <1>6. MaySend(l)
    BY <1>3, <1>4 DEF MaySend, ServerState, Over, IInv, Endings
  <1>7. MaySendOn(l)
    BY <1>2, <1>3, <1>4 DEF MaySendOn, ServerState, StatesSent, MoviesSent, Over
  <1> QED
    BY <1>4, <1>5, <1>6, <1>7, SendOnKeeps

LEMMA ServerMovieKeeps ==
  ASSUME IInv, ServerMovie
  PROVE  IInv'
  <1>1. PICK ends \in BOOLEAN :
           /\ ~ends => srv.turn < MaxTurn
           /\ srv' = IF ends THEN [srv EXCEPT !.phase = "over"]
                             ELSE [srv EXCEPT !.phase = "state", !.turn = @ + 1]
           /\ Send("BM", ends)
    BY DEF ServerMovie
  <1> DEFINE l == <<"BM", [battle |-> srv.battle, turn |-> srv.turn, ends |-> ends]>>
  <1>2. /\ srv.battle \in Battles /\ srv.turn \in 0..MaxTurn /\ srv.ba \in 0..MaxBA
        /\ srv.phase \in {"map", "state", "input", "over"} /\ srv.bu \in BOOLEAN
    BY Sizes DEF IInv, TypeOK, Endings, Battles, ServerMovie
  <1>3. /\ srv'.battle = srv.battle /\ srv'.bu = srv.bu /\ srv.phase = "input"
        /\ srv' \in [battle : 1..MaxBattles, turn : 0..MaxTurn, ba : 0..MaxBA,
                     phase : {"map", "state", "input", "over"}, bu : BOOLEAN]
        /\ srv'.turn = (IF ends THEN srv.turn ELSE srv.turn + 1)
        /\ srv'.phase = IF ends THEN "over" ELSE "state"
    <2>1. srv' = [battle |-> srv.battle, turn |-> IF ends THEN srv.turn ELSE srv.turn + 1,
                  ba |-> srv.ba, phase |-> IF ends THEN "over" ELSE "state", bu |-> srv.bu]
      BY <1>1 DEF IInv, TypeOK
    <2> QED
      <3>1. /\ srv.battle \in 1..MaxBattles
            /\ (IF ends THEN srv.turn ELSE srv.turn + 1) \in 0..MaxTurn
        BY <1>1, <1>2, Sizes DEF Battles
      <3>2. srv.phase = "input"
        BY DEF ServerMovie
      <3> QED
        BY <1>2, <2>1, <3>1, <3>2
  <1>4. l \in Line /\ l[1] = "BM" /\ l[2].ends = ends /\ l[2].battle = srv.battle
        /\ l[2].turn = srv.turn
    BY <1>2 DEF Line, Shown
  <1>5. Sends(l) /\ ServerUnchanged
    BY <1>1, <1>3, <1>4 DEF Send, Sends, ServerMovie
  <1> HIDE DEF l
  <1>6. MaySend(l)
    BY <1>3, <1>4 DEF MaySend, ServerMovie, Over, IInv, Endings
  <1>7. MaySendOn(l)
    BY <1>2, <1>3, <1>4 DEF MaySendOn, ServerMovie, StatesSent, MoviesSent, Over
  <1> QED
    BY <1>4, <1>5, <1>6, <1>7, SendOnKeeps

LEMMA ServerProgressKeeps ==
  ASSUME IInv, ServerProgress
  PROVE  IInv'
  <1> DEFINE l == <<"BA", [battle |-> srv.battle, turn |-> srv.turn, ends |-> FALSE]>>
  <1>1. /\ srv.battle \in Battles /\ srv.turn \in 0..MaxTurn /\ srv.ba \in 0..MaxBA
        /\ srv.phase \in {"map", "state", "input", "over"} /\ srv.bu \in BOOLEAN
    BY Sizes DEF IInv, TypeOK, Endings, Battles, ServerProgress
  <1>2. /\ srv'.battle = srv.battle /\ srv'.turn = srv.turn
        /\ srv' \in [battle : 1..MaxBattles, turn : 0..MaxTurn, ba : 0..MaxBA,
                     phase : {"map", "state", "input", "over"}, bu : BOOLEAN]
        /\ srv'.phase = "input" /\ srv.phase = "input" /\ srv'.bu = srv.bu
    <2>1. srv' = [battle |-> srv.battle, turn |-> srv.turn, ba |-> srv.ba + 1,
                  phase |-> srv.phase, bu |-> srv.bu]
      BY DEF IInv, TypeOK, ServerProgress
    <2> QED
      <3>1. srv.battle \in 1..MaxBattles /\ srv.ba + 1 \in 0..MaxBA
        BY <1>1, Sizes DEF Battles, ServerProgress
      <3>2. srv.phase = "input"
        BY DEF ServerProgress
      <3> QED
        BY <1>1, <2>1, <3>1, <3>2
  <1>3. l \in Line /\ l[1] = "BA" /\ ~l[2].ends /\ l[2].battle = srv.battle
    BY <1>1 DEF Line, Shown
  <1>4. Sends(l) /\ ServerUnchanged
    BY <1>2, <1>3 DEF Send, Sends, ServerProgress
  <1> HIDE DEF l
  <1>5. MaySend(l)
    BY <1>2, <1>3 DEF MaySend, ServerProgress, Over, IInv, Endings
  <1>6. MaySendOn(l)
    BY <1>1, <1>2, <1>3 DEF MaySendOn, ServerProgress, StatesSent, MoviesSent, Over
  <1> QED
    BY <1>3, <1>4, <1>5, <1>6, SendOnKeeps

LEMMA ServerDismissKeeps ==
  ASSUME IInv, ServerDismiss
  PROVE  IInv'
  <1> DEFINE l == <<"BU", [battle |-> srv.battle, turn |-> srv.turn, ends |-> FALSE]>>
  <1>1. /\ srv.battle \in Battles /\ srv.turn \in 0..MaxTurn /\ srv.ba \in 0..MaxBA
        /\ srv.phase \in {"map", "state", "input", "over"} /\ srv.bu \in BOOLEAN
    BY Sizes DEF IInv, TypeOK, Endings, Battles, ServerDismiss
  <1>2. /\ srv'.battle = srv.battle /\ srv'.turn = srv.turn
        /\ srv' \in [battle : 1..MaxBattles, turn : 0..MaxTurn, ba : 0..MaxBA,
                     phase : {"map", "state", "input", "over"}, bu : BOOLEAN]
        /\ srv'.phase = "over" /\ srv'.bu
    <2>1. srv' = [battle |-> srv.battle, turn |-> srv.turn, ba |-> srv.ba,
                  phase |-> "over", bu |-> TRUE]
      BY DEF IInv, TypeOK, ServerDismiss
    <2> QED
      BY <1>1, <2>1, Sizes DEF ServerDismiss, Battles
  <1>3. l \in Line /\ l[1] = "BU" /\ ~l[2].ends /\ l[2].battle = srv.battle
    BY <1>1 DEF Line, Shown
  <1>4. Sends(l) /\ ServerUnchanged
    BY <1>2, <1>3 DEF Send, Sends, ServerDismiss
  <1> HIDE DEF l
  <1>5. MaySend(l)
    BY <1>2, <1>3 DEF MaySend, ServerDismiss, Over, IInv, Endings
  <1>6. MaySendOn(l)
    BY <1>1, <1>2, <1>3 DEF MaySendOn, ServerDismiss, StatesSent, MoviesSent, Over
  <1> QED
    BY <1>3, <1>4, <1>5, <1>6, SendOnKeeps

LEMMA ServerHearsEOKeeps ==
  ASSUME IInv, ServerHearsEO
  PROVE  IInv'
  <1>1. /\ UNCHANGED <<screen, flags, sVars, cVars, history>> /\ wire' = wire
        /\ eo /\ eo' = FALSE
    BY DEF ServerHearsEO
  <1>2. /\ srv' = [battle |-> srv.battle, turn |-> srv.turn, ba |-> srv.ba,
                   phase |-> IF srv.phase = "over" THEN "map" ELSE srv.phase, bu |-> srv.bu]
        /\ srv \in [battle : 0..MaxBattles, turn : 0..MaxTurn, ba : 0..MaxBA,
                    phase : {"map", "state", "input", "over"}, bu : BOOLEAN]
    BY DEF ServerHearsEO, IInv, TypeOK
  <1>3. /\ srv'.battle = srv.battle /\ srv'.turn = srv.turn /\ srv'.bu = srv.bu
        /\ srv'.phase = (IF srv.phase = "over" THEN "map" ELSE srv.phase)
        /\ srv' \in [battle : 0..MaxBattles, turn : 0..MaxTurn, ba : 0..MaxBA,
                     phase : {"map", "state", "input", "over"}, bu : BOOLEAN]
    BY <1>2
  <1>4. /\ UNCHANGED <<ProcNo, SubProcNo, EncountFlag, BattleEscFlag, BattleTurnReceiveFlag,
                       BattleCliTurnNo, entered, phantom, early, movies, synced, lost>>
        /\ UNCHANGED <<sBak, sCur, cBak, cCur>>
    BY <1>1 DEF screen, flags, history, sVars, cVars
  <1>5. /\ Announced' = Announced /\ \A kind, b : Lines(kind, b)' = Lines(kind, b)
        /\ \A kind : TurnsOf(kind)' = TurnsOf(kind)
        /\ StatesSent' = StatesSent /\ MoviesSent' = MoviesSent /\ (Over' <=> Over)
    BY <1>1, <1>3 DEF Announced, Lines, TurnsOf, Kind, Of, StatesSent, MoviesSent, Over
  <1>6. TypeOK'
    BY <1>1, <1>3, <1>4, ClientRests DEF IInv, TypeOK
  <1>7. Ordered'
    BY <1>1, <1>3, <1>5 DEF IInv, Ordered, Kind, Of
  <1>8. Room'
    BY <1>1, <1>5, ClientRests DEF IInv, Room
  <1>9. Endings'
    <2>1. Messages' = Messages
      BY <1>1, <1>4 DEF Messages, Of
    <2> QED
      BY <1>1, <1>3, <1>4, <1>5, <2>1, Sizes DEF IInv, TypeOK, Endings, Kind, Of, Over
  <1>10. Abreast'
    BY <1>1, <1>3, <1>4, <1>5 DEF IInv, TypeOK, Abreast, Fighting, Leaving, InBattle
  <1>11. InStep' /\ Answered' /\ TurnAgrees'
    BY <1>4, <1>5 DEF IInv, InStep, Answered, TurnAgrees, InBattle, Fighting
  <1>12. TurnByTurn'
    <2>1. Current' <=> Current
      BY <1>3, <1>4 DEF Current, Fighting, Leaving, InBattle
    <2>2. ASSUME Current
          PROVE  /\ Follow("BC", StatesRead, Status!Unread, StatesSent)'
                 /\ Follow("BM", MoviesRead, Cmd!Unread, MoviesSent)'
      BY <1>1, <1>3, <1>5, <2>2, ClientRests DEF IInv, TurnByTurn, Follow, Of
    <2> QED
      BY <2>1, <2>2 DEF TurnByTurn
  <1> QED
    BY <1>6, <1>7, <1>8, <1>9, <1>10, <1>11, <1>12 DEF IInv

-----------------------------------------------------------------------------
(* The lines that come.                                                    *)

\* The first line leaves the wire; the server, the screen and what is shown stay.
Received ==
    /\ wire # <<>> /\ wire' = Tail(wire)
    /\ UNCHANGED <<screen, eo, srv, entered, phantom, early, movies, lost>>
    /\ UNCHANGED <<sCur, cCur>>

LEMMA FirstOnWire ==
  ASSUME IInv, wire # <<>>
  PROVE  /\ 1 \in 1..Len(wire) /\ Head(wire) = wire[1] /\ wire[1] = <<Kind(1), Of(1)>>
         /\ Of(1) \in Shown /\ Of(1).battle \in Battles
         /\ Of(1).battle = (IF Kind(1) = "EN" THEN Announced + 1 ELSE Announced)
         /\ Of(1).battle =< srv.battle /\ Announced \in Nat /\ srv.battle \in Nat
  <1>1. Len(wire) \in Nat /\ Len(wire) # 0
    BY WireTypes
  <1>2. 1 \in 1..Len(wire)
    BY <1>1
  <1>3. wire[1] \in Line /\ Head(wire) = wire[1] /\ Of(1) \in Shown /\ Of(1).battle \in Battles
    BY <1>2, WireTypes
  <1>4. srv.battle \in Nat /\ Announced \in 0..srv.battle
    BY Sizes DEF IInv, TypeOK, Ordered
  <1>5. wire[1] = <<wire[1][1], wire[1][2]>>
    BY <1>3 DEF Line
  <1>6. /\ Of(1).battle =< srv.battle
        /\ Of(1).battle = (IF Kind(1) = "EN" THEN Announced + 1 ELSE Announced)
    BY <1>2, <1>3, <1>4, LastOnWire DEF IInv, Ordered
  <1> QED
    BY <1>2, <1>3, <1>4, <1>5, <1>6 DEF Kind, Of

LEMMA Shifted ==
  ASSUME IInv, Received
  PROVE  /\ wire' \in Seq(Line) /\ Len(wire') = Len(wire) - 1
         /\ DOMAIN wire' = 1..Len(wire) - 1
         /\ \A i \in 1..Len(wire) - 1 : wire'[i] = wire[i + 1] /\ i + 1 \in 1..Len(wire)
         /\ Announced' = IF Kind(1) = "EN" THEN Announced + 1 ELSE Announced
         /\ \A kind, b : Cardinality(Lines(kind, b)') =
                Cardinality(Lines(kind, b))
                - (IF Kind(1) = kind /\ Of(1).battle = b THEN 1 ELSE 0)
         /\ \A kind, b : Lines(kind, b)' =
                {i \in 1..Len(wire) - 1 : i + 1 \in Lines(kind, b)}
  <1>1. wire \in Seq(Line) /\ Len(wire) \in Nat /\ DOMAIN wire = 1..Len(wire) /\ wire # <<>>
        /\ wire' = Tail(wire) /\ srv' = srv
    BY WireTypes DEF Received
  <1>2. /\ wire' \in Seq(Line) /\ Len(wire') = Len(wire) - 1
        /\ DOMAIN wire' = 1..Len(wire) - 1
        /\ \A i \in 1..Len(wire) - 1 : wire'[i] = wire[i + 1] /\ i + 1 \in 1..Len(wire)
    BY <1>1
  <1>3. Head(wire) \in Line /\ Head(wire)[1] = Kind(1) /\ Head(wire)[2] = Of(1)
    BY <1>1, FirstOnWire, WireTypes DEF Kind, Of
  <1>4. Announced' = IF Kind(1) = "EN" THEN Announced + 1 ELSE Announced
    <2>1. Head(wire) \in Announcements <=> Kind(1) = "EN"
      BY <1>3 DEF Announcements
    <2>2. Count(wire', Announcements)
            = Count(wire, Announcements) - (IF Kind(1) = "EN" THEN 1 ELSE 0)
      BY <1>1, <2>1, CountTail
    <2>3. srv.battle \in Nat
      BY Sizes DEF IInv, TypeOK
    <2> QED
      BY <1>1, <1>2, <2>2, <2>3, Counted, CountedNext
  <1>5. ASSUME NEW kind, NEW b
        PROVE  Cardinality(Lines(kind, b)') =
                   Cardinality(Lines(kind, b))
                   - (IF Kind(1) = kind /\ Of(1).battle = b THEN 1 ELSE 0)
    <2>1. Head(wire) \in About(kind, b) <=> Kind(1) = kind /\ Of(1).battle = b
      BY <1>3 DEF About
    <2>2. Count(wire', About(kind, b))
            = Count(wire, About(kind, b))
              - (IF Kind(1) = kind /\ Of(1).battle = b THEN 1 ELSE 0)
      BY <1>1, <2>1, CountTail
    <2> QED
      BY <1>1, <1>2, <2>2, Counted, CountedNext
  <1>6. ASSUME NEW kind, NEW b
        PROVE  Lines(kind, b)' = {i \in 1..Len(wire) - 1 : i + 1 \in Lines(kind, b)}
    BY <1>1, <1>2 DEF Lines, Kind, Of
  <1> QED
    BY <1>2, <1>4, <1>5, <1>6

LEMMA ReceivedOrdered ==
  ASSUME IInv, Received
  PROVE  Ordered'
  <1>1. /\ srv' = srv /\ wire # <<>> /\ Len(wire) \in Nat \ {0}
        /\ DOMAIN wire' = 1..Len(wire) - 1 /\ Len(wire') = Len(wire) - 1
        /\ \A i \in 1..Len(wire) - 1 : wire'[i] = wire[i + 1] /\ i + 1 \in 1..Len(wire)
    BY Shifted, FirstOnWire, WireTypes DEF Received
  <1>2. Announced' = Of(1).battle /\ Announced' \in 0..srv'.battle
    BY <1>1, Shifted, FirstOnWire
  <1>3. ASSUME wire' # <<>>
        PROVE  /\ wire'[1][2].battle = IF wire'[1][1] = "EN" THEN Announced' + 1 ELSE Announced'
               /\ wire'[Len(wire')][2].battle = srv'.battle
    <2>1. Len(wire') # 0
      BY <1>3, Shifted
    <2>2. 1 \in 1..Len(wire) - 1 /\ Len(wire) - 1 \in 1..Len(wire) - 1
      BY <1>1, <2>1
    <2>3. wire'[1] = wire[2] /\ wire'[Len(wire')] = wire[Len(wire)]
      BY <1>1, <2>2
    <2>4. Of(2).battle = IF Kind(2) = "EN" THEN Of(1).battle + 1 ELSE Of(1).battle
      BY <2>2 DEF IInv, Ordered
    <2>5. Of(Len(wire)).battle = srv.battle
      BY <1>1 DEF IInv, Ordered
    <2> QED
      BY <1>1, <1>2, <2>3, <2>4, <2>5 DEF Of, Kind
  <1>4. ASSUME NEW i \in 1..Len(wire') - 1
        PROVE  wire'[i + 1][2].battle =
                   IF wire'[i + 1][1] = "EN" THEN wire'[i][2].battle + 1 ELSE wire'[i][2].battle
    <2>1. i + 1 \in 1..Len(wire) - 1 /\ i \in 1..Len(wire) - 1 /\ i \in Nat
      BY <1>1
    <2>2. wire'[i] = wire[i + 1] /\ wire'[i + 1] = wire[(i + 1) + 1]
      BY <1>1, <2>1
    <2> QED
      BY <2>1, <2>2 DEF IInv, Ordered, Of, Kind
  <1>5. ASSUME NEW i \in 1..Len(wire'), NEW j \in 1..Len(wire'), i < j
        PROVE  /\ wire'[i][2].battle =< wire'[j][2].battle
               /\ wire'[j][1] = "EN" => wire'[i][2].battle < wire'[j][2].battle
    <2>1. /\ wire'[i] = wire[i + 1] /\ wire'[j] = wire[j + 1] /\ i + 1 < j + 1
          /\ i + 1 \in 1..Len(wire) /\ j + 1 \in 1..Len(wire)
      BY <1>1, <1>5
    <2> QED
      BY <2>1 DEF IInv, Ordered, Of, Kind
  <1> QED
    BY <1>2, <1>3, <1>4, <1>5 DEF Ordered, Of, Kind

LEMMA SameTurns ==
  ASSUME NEW v, NEW w, NEW A, NEW B,
         \A a \in A : \E b \in B : v[a] = w[b],
         \A b \in B : \E a \in A : v[a] = w[b]
  PROVE  {v[a][2].turn : a \in A} = {w[b][2].turn : b \in B}
  <1>1. ASSUME NEW a \in A PROVE v[a][2].turn \in {w[b][2].turn : b \in B}
    <2>1. PICK b \in B : v[a] = w[b]
      OBVIOUS
    <2> QED
      BY <2>1
  <1>2. ASSUME NEW b \in B PROVE w[b][2].turn \in {v[a][2].turn : a \in A}
    <2>1. PICK a \in A : v[a] = w[b]
      OBVIOUS
    <2> QED
      BY <2>1
  <1> QED
    BY <1>1, <1>2

\* The lines at L when the first of n lines has gone.
Before(n, L) == {i \in 1..n - 1 : i + 1 \in L}

\* The first line of a kind carries the first turn.
LEMMA OneLess ==
  ASSUME NEW w, NEW w2, NEW n \in Nat \ {0}, NEW L \in SUBSET (1..n), NEW lo \in Nat, NEW heads,
         heads \subseteq Nat, InTurn(w, L, lo, heads), 1 \in L,
         \A i \in L : w[i][2].turn \in Nat, \A i \in 1..n - 1 : w2[i] = w[i + 1]
  PROVE  w[1][2].turn = lo /\ InTurn(w2, Before(n, L), lo + 1, heads)
  <1> DEFINE M == Before(n, L)
  <1>1. PICK h \in heads : lo =< h /\ {w[i][2].turn : i \in L} = lo..h - 1
    BY DEF InTurn
  <1>2. \A i, j \in L : i < j => w[i][2].turn < w[j][2].turn
    BY DEF InTurn
  <1>3. w[1][2].turn \in lo..h - 1 /\ h \in Nat
    BY <1>1
  <1>4. \A i \in L : i # 1 => w[1][2].turn < w[i][2].turn
    BY <1>2
  <1>5. PICK k \in L : w[k][2].turn = lo
    <2>1. lo \in lo..h - 1
      BY <1>3
    <2> QED
      BY <1>1, <2>1
  <1>6. w[1][2].turn = lo
    BY <1>3, <1>4, <1>5
  <1>7. {w2[i][2].turn : i \in M} = lo + 1..h - 1
    <2>1. {w2[i][2].turn : i \in M} = {w[i][2].turn : i \in L \ {1}}
      <3>1. \A i \in M : i + 1 \in L \ {1} /\ w2[i] = w[i + 1]
        BY DEF Before
      <3>2. \A k2 \in L \ {1} : k2 - 1 \in M /\ w2[k2 - 1] = w[k2]
        BY DEF Before
      <3>3. \A i \in M : \E k2 \in L \ {1} : w2[i] = w[k2]
        BY <3>1
      <3>4. \A k2 \in L \ {1} : \E i \in M : w2[i] = w[k2]
        BY <3>2
      <3> QED
        BY <3>3, <3>4, SameTurns
    <2>2. {w[i][2].turn : i \in L \ {1}} = {w[i][2].turn : i \in L} \ {lo}
      <3>1. \A i \in L : w[i][2].turn = lo <=> i = 1
        BY <1>3, <1>4, <1>6
      <3> QED
        BY <3>1
    <2>3. (lo..h - 1) \ {lo} = lo + 1..h - 1
      BY <1>3
    <2> QED
      BY <1>1, <2>1, <2>2, <2>3
  <1>8. \A i, j \in M : i < j => w2[i][2].turn < w2[j][2].turn
    BY <1>2 DEF Before
  <1>9. lo + 1 =< h
    BY <1>3, <1>6
  <1> QED
    BY <1>1, <1>6, <1>7, <1>8, <1>9 DEF InTurn

LEMMA NoneLess ==
  ASSUME NEW w, NEW w2, NEW n \in Nat, NEW L \in SUBSET (1..n), NEW lo, NEW heads,
         InTurn(w, L, lo, heads), 1 \notin L, \A i \in 1..n - 1 : w2[i] = w[i + 1]
  PROVE  InTurn(w2, Before(n, L), lo, heads)
  <1> DEFINE M == Before(n, L)
  <1>1. {w2[i][2].turn : i \in M} = {w[i][2].turn : i \in L}
    <2>1. \A i \in M : i + 1 \in L /\ w2[i] = w[i + 1]
      BY DEF Before
    <2>2. ASSUME NEW k \in L PROVE k - 1 \in M /\ w2[k - 1] = w[k]
      <3>1. k \in 1..n /\ k # 1
        OBVIOUS
      <3>2. k - 1 \in 1..n - 1 /\ (k - 1) + 1 = k
        BY <3>1
      <3> QED
        BY <3>2 DEF Before
    <2>3. \A i \in M : \E k \in L : w2[i] = w[k]
      BY <2>1
    <2>4. \A k \in L : \E i \in M : w2[i] = w[k]
      BY <2>2
    <2> QED
      BY <2>3, <2>4, SameTurns
  <1>2. \A i, j \in M : i < j => w2[i][2].turn < w2[j][2].turn
    BY DEF InTurn, Before
  <1> QED
    BY <1>1, <1>2 DEF InTurn

\* What holds after any line, given what it does to the buffers and flags.
LEMMA ReceivedKeeps ==
  ASSUME IInv, Received, StatusRing!IInv', CmdRing!IInv',
         EncountFlag' \in BOOLEAN, BattleTurnReceiveFlag' \in BOOLEAN, synced' \in BOOLEAN,
         BattleCliTurnNo' \in Nat,
         \/ BattleEscFlag' = BattleEscFlag
         \/ Kind(1) = "BU" /\ BattleEscFlag' = Of(1).battle,
         Kind(1) # "EN" => EncountFlag' = EncountFlag,
         {sBak'[s] : s \in DOMAIN sBak'} \cup {cBak'[s] : s \in DOMAIN cBak'} \subseteq Messages
  PROVE  TypeOK' /\ Ordered' /\ Endings' /\ Abreast' /\ InStep' /\ Answered'
  <1>1. /\ wire # <<>> /\ srv' = srv /\ eo' = eo /\ sCur' = sCur /\ cCur' = cCur
        /\ UNCHANGED <<ProcNo, SubProcNo, entered, phantom, early, movies, lost>>
    BY DEF Received, screen
  <1>2. /\ Of(1).battle = Announced' /\ Announced =< Announced' /\ Announced' =< srv.battle
        /\ Announced \in Nat /\ srv.battle \in Nat /\ Of(1).battle \in Battles
        /\ Announced' = IF Kind(1) = "EN" THEN Announced + 1 ELSE Announced
    BY <1>1, FirstOnWire, Shifted
  <1>3. BattleEscFlag' \in 0..MaxBattles
    BY <1>2, Sizes DEF IInv, TypeOK, Battles
  <1>4. TypeOK'
    <2>1. Status!TypeOK' /\ Cmd!TypeOK' /\ wire' \in Seq(Line)
      BY RingTypesNext, Shifted
    <2> QED
      BY <1>1, <1>3, <2>1 DEF IInv, TypeOK
  <1>5. Ordered'
    BY ReceivedOrdered
  <1>6. Endings'
    <2>1. /\ {wire'[i][2] : i \in DOMAIN wire'} \subseteq Messages
          /\ \A i \in DOMAIN wire' : i + 1 \in DOMAIN wire /\ wire'[i] = wire[i + 1]
      <3>1. \A i \in DOMAIN wire' : i + 1 \in DOMAIN wire /\ wire'[i] = wire[i + 1]
        BY Shifted, WireTypes
      <3>2. \A i \in DOMAIN wire' : wire'[i][2] = Of(i + 1) /\ i + 1 \in DOMAIN wire
        BY <3>1 DEF Of
      <3> QED
        BY <3>1, <3>2 DEF Messages
    <2>2. Messages' \subseteq Messages
      BY <1>1, <2>1 DEF Messages, Of
    <2>3. BattleEscFlag' =< srv.battle
          /\ (BattleEscFlag' = srv.battle /\ BattleEscFlag' # 0 => srv.bu)
      <3>1. 1 \in DOMAIN wire
        BY <1>1, FirstOnWire, WireTypes
      <3> QED
        BY <1>2, <3>1 DEF IInv, Endings
    <2> QED
      BY <1>1, <2>1, <2>2, <2>3 DEF IInv, Endings, Over, Kind, Of
  <1>7. ~phantom /\ Fighting => Kind(1) # "EN" /\ Announced = srv.battle /\ Announced' = srv.battle
    BY <1>2, Sizes DEF IInv, Abreast, TypeOK
  <1>8. Abreast'
    <2>1. InBattle(IN_PRODUCE..OUT_PRODUCE) => Fighting
      BY DEF InBattle, Fighting
    <2>2. entered =< Announced'
      BY <1>2, Sizes DEF IInv, Abreast, TypeOK
    <2> QED
      BY <1>1, <1>2, <1>7, <2>1, <2>2 DEF IInv, Abreast, Fighting, Leaving, InBattle
  <1>9. InStep'
    <2>1. \A screens : InBattle(screens) => Fighting
      BY DEF InBattle, Fighting
    <2> QED
      BY <1>1, <1>7, <2>1 DEF IInv, InStep, InBattle
  <1>10. Answered'
    <2>1. Kind(1) = "EN" => entered # Announced'
      BY <1>2, Sizes DEF IInv, Abreast, TypeOK
    <2> QED
      BY <1>1, <1>2, <2>1 DEF IInv, Answered, Fighting
  <1> QED
    BY <1>4, <1>5, <1>6, <1>8, <1>9, <1>10

\* A state that comes is the next one of the server's battle, and so is a
\* movie; an announcement empties the buffers, and all begins with turn 0.
LEMMA ReceivedFollows ==
  ASSUME IInv, Received,
         IF Kind(1) = "EN" THEN Status!Unread' = <<>>
         ELSE Status!Unread' = IF Kind(1) = "BC" THEN Append(Status!Unread, Of(1))
                                                ELSE Status!Unread,
         IF Kind(1) = "EN" THEN Cmd!Unread' = <<>>
         ELSE Cmd!Unread' = IF Kind(1) = "BM" THEN Append(Cmd!Unread, Of(1))
                                             ELSE Cmd!Unread
  PROVE  TurnByTurn'
  <1> DEFINE b == srv.battle
             n == Len(wire)
             sLo == IF Announced = b THEN StatesRead + Len(Status!Unread) ELSE 0
             cLo == IF Announced = b THEN MoviesRead + Len(Cmd!Unread) ELSE 0
             L(kind) == Lines(kind, b)
             M(kind) == Before(n, L(kind))
  <1>1. /\ wire # <<>> /\ srv' = srv /\ UNCHANGED <<ProcNo, SubProcNo, entered, phantom, movies>>
        /\ StatesRead' = StatesRead /\ MoviesRead' = MoviesRead /\ (Current' <=> Current)
        /\ StatesRead \in Nat /\ MoviesRead \in Nat
        /\ Status!Unread \in Seq(Shown) /\ Cmd!Unread \in Seq(Shown)
    BY RingTypes DEF Received, screen, StatesRead, MoviesRead, Shows, Current, Fighting,
       Leaving, InBattle, IInv, TypeOK
  <1> SUFFICES ASSUME Current PROVE TurnByTurn'
    BY <1>1 DEF TurnByTurn
  <1>2. /\ Follow("BC", StatesRead, Status!Unread, StatesSent)
        /\ Follow("BM", MoviesRead, Cmd!Unread, MoviesSent)
    BY DEF IInv, TurnByTurn
  <1>3. InTurn(wire, L("BC"), sLo, StatesSent) /\ InTurn(wire, L("BM"), cLo, MoviesSent)
    BY <1>2 DEF Follow, InTurn, TurnsOf, Of
  <1>4. /\ StatesSent' = StatesSent /\ MoviesSent' = MoviesSent
        /\ StatesSent \subseteq Nat /\ MoviesSent \subseteq Nat
    BY <1>1, Sizes DEF StatesSent, MoviesSent, Over, IInv, TypeOK
  <1>5. /\ Of(1).battle = Announced' /\ Announced \in Nat /\ b \in Nat /\ Announced =< b
        /\ Announced' = (IF Kind(1) = "EN" THEN Announced + 1 ELSE Announced)
        /\ Of(1).turn \in Nat /\ 1 \in 1..n /\ n \in Nat \ {0} /\ Of(1).battle =< b
        /\ Of(1) \in Shown
    BY <1>1, FirstOnWire, WireTypes, Shifted, Sizes DEF Shown
  <1>6. \* No announcement comes while the client is in the server's battle.
        Kind(1) = "EN" => /\ Announced # b /\ Announced' = b
                          /\ StatesRead = 0 /\ MoviesRead = 0
    BY <1>5, Sizes DEF Current, IInv, Abreast, TypeOK, StatesRead, MoviesRead, Shows,
       Fighting, InBattle
  <1>7. /\ \A kind : L(kind) \in SUBSET (1..n) /\ (1 \in L(kind) <=> Kind(1) = kind /\ Announced' = b)
        /\ \A kind : \A i \in L(kind) : wire[i][2].turn \in Nat
        /\ \A i \in 1..n - 1 : wire'[i] = wire[i + 1]
        /\ Lines("BC", srv.battle)' = M("BC") /\ Lines("BM", srv.battle)' = M("BM")
    <2>1. \A i \in 1..n : wire[i][2].turn \in Nat
      BY WireTypes, Sizes DEF Of
    <2>2. \A kind : L(kind) \subseteq 1..n /\ (1 \in L(kind) <=> Kind(1) = kind /\ Announced' = b)
      BY <1>5, WireTypes DEF Lines
    <2>3. /\ DOMAIN wire' = 1..n - 1 /\ DOMAIN wire = 1..n
          /\ \A i \in 1..n - 1 : wire'[i] = wire[i + 1] /\ i + 1 \in 1..n
      BY Shifted, WireTypes
    <2>4. Lines("BC", srv.battle)' = M("BC") /\ Lines("BM", srv.battle)' = M("BM")
      BY <1>1, <2>3 DEF Lines, Kind, Of, Before
    <2> HIDE DEF L, M, n
    <2> QED
      BY <2>1, <2>2, <2>3, <2>4
  <1>8. sLo \in Nat /\ cLo \in Nat
    BY <1>1
  <1>9. /\ (Kind(1) = "EN" => sLo = 0 /\ cLo = 0)
        /\ sLo' = IF Kind(1) = "BC" /\ Announced' = b THEN sLo + 1 ELSE sLo
        /\ cLo' = IF Kind(1) = "BM" /\ Announced' = b THEN cLo + 1 ELSE cLo
    <2>1. CASE Kind(1) = "EN"
      BY <1>1, <1>5, <1>6, <2>1
    <2>2. CASE Kind(1) # "EN"
      <3>1. /\ Len(Status!Unread') = Len(Status!Unread) + (IF Kind(1) = "BC" THEN 1 ELSE 0)
            /\ Len(Cmd!Unread') = Len(Cmd!Unread) + (IF Kind(1) = "BM" THEN 1 ELSE 0)
            /\ Len(Status!Unread) \in Nat /\ Len(Cmd!Unread) \in Nat
        BY <1>1, <1>5, <2>2
      <3>2. Announced' = Announced /\ b' = b
        BY <1>1, <1>5, <2>2
      <3> QED
        BY <1>1, <2>2, <3>1, <3>2
    <2> QED
      BY <2>1, <2>2
  <1> HIDE DEF n, L, M, sLo, cLo
  <1>10. /\ InTurn(wire', M("BC"), sLo', StatesSent)
         /\ Kind(1) = "BC" /\ Announced' = b => Of(1).turn = sLo
    <2>1. CASE Kind(1) = "BC" /\ Announced' = b
      <3>1. 1 \in L("BC") /\ L("BC") \in SUBSET (1..n) /\ \A i \in L("BC") : wire[i][2].turn \in Nat
        BY <1>7, <2>1
      <3>2. /\ InTurn(wire, L("BC"), sLo, StatesSent) /\ StatesSent \subseteq Nat
            /\ n \in Nat \ {0} /\ sLo \in Nat /\ \A i \in 1..n - 1 : wire'[i] = wire[i + 1]
        BY <1>3, <1>4, <1>5, <1>7, <1>8
      <3>3. wire[1][2].turn = sLo /\ InTurn(wire', M("BC"), sLo + 1, StatesSent)
        BY <3>1, <3>2, OneLess DEF M
      <3> QED
        BY <1>9, <2>1, <3>3 DEF Of
    <2>2. CASE ~(Kind(1) = "BC" /\ Announced' = b)
      <3>1. 1 \notin L("BC") /\ L("BC") \in SUBSET (1..n)
        BY <1>7, <2>2
      <3>2. /\ InTurn(wire, L("BC"), sLo, StatesSent)
            /\ n \in Nat /\ \A i \in 1..n - 1 : wire'[i] = wire[i + 1]
        BY <1>3, <1>5, <1>7
      <3>3. InTurn(wire', M("BC"), sLo, StatesSent)
        BY <3>1, <3>2, NoneLess DEF M
      <3> QED
        BY <1>9, <2>2, <3>3
    <2> QED
      BY <2>1, <2>2
  <1>11. /\ InTurn(wire', M("BM"), cLo', MoviesSent)
         /\ Kind(1) = "BM" /\ Announced' = b => Of(1).turn = cLo
    <2>1. CASE Kind(1) = "BM" /\ Announced' = b
      <3>1. 1 \in L("BM") /\ L("BM") \in SUBSET (1..n) /\ \A i \in L("BM") : wire[i][2].turn \in Nat
        BY <1>7, <2>1
      <3>2. /\ InTurn(wire, L("BM"), cLo, MoviesSent) /\ MoviesSent \subseteq Nat
            /\ n \in Nat \ {0} /\ cLo \in Nat /\ \A i \in 1..n - 1 : wire'[i] = wire[i + 1]
        BY <1>3, <1>4, <1>5, <1>7, <1>8
      <3>3. wire[1][2].turn = cLo /\ InTurn(wire', M("BM"), cLo + 1, MoviesSent)
        BY <3>1, <3>2, OneLess DEF M
      <3> QED
        BY <1>9, <2>1, <3>3 DEF Of
    <2>2. CASE ~(Kind(1) = "BM" /\ Announced' = b)
      <3>1. 1 \notin L("BM") /\ L("BM") \in SUBSET (1..n)
        BY <1>7, <2>2
      <3>2. /\ InTurn(wire, L("BM"), cLo, MoviesSent)
            /\ n \in Nat /\ \A i \in 1..n - 1 : wire'[i] = wire[i + 1]
        BY <1>3, <1>5, <1>7
      <3>3. InTurn(wire', M("BM"), cLo, MoviesSent)
        BY <3>1, <3>2, NoneLess DEF M
      <3> QED
        BY <1>9, <2>2, <3>3
    <2> QED
      BY <2>1, <2>2
  <1>12. Announced' = b =>
             /\ \A i \in 1..Len(Status!Unread') :
                   /\ Status!Unread'[i].battle = b
                   /\ Status!Unread'[i].turn = StatesRead + i - 1
             /\ \A i \in 1..Len(Cmd!Unread') :
                   /\ Cmd!Unread'[i].battle = b
                   /\ Cmd!Unread'[i].turn = MoviesRead + i - 1
    <2> SUFFICES ASSUME Announced' = b
                 PROVE  /\ \A i \in 1..Len(Status!Unread') :
                             /\ Status!Unread'[i].battle = b
                             /\ Status!Unread'[i].turn = StatesRead + i - 1
                        /\ \A i \in 1..Len(Cmd!Unread') :
                             /\ Cmd!Unread'[i].battle = b
                             /\ Cmd!Unread'[i].turn = MoviesRead + i - 1
      OBVIOUS
    <2>1. CASE Kind(1) = "EN"
      BY <2>1
    <2>2. CASE Kind(1) # "EN"
      <3>1. /\ \A i \in 1..Len(Status!Unread) :
                  /\ Status!Unread[i].battle = b
                  /\ Status!Unread[i].turn = StatesRead + i - 1
            /\ \A i \in 1..Len(Cmd!Unread) :
                  /\ Cmd!Unread[i].battle = b
                  /\ Cmd!Unread[i].turn = MoviesRead + i - 1
            /\ Announced = b
        BY <1>2, <1>5, <2>2 DEF Follow
      <3>2. \A i \in 1..Len(Status!Unread') :
                  /\ Status!Unread'[i].battle = b
                  /\ Status!Unread'[i].turn = StatesRead + i - 1
        <4>1. CASE Kind(1) = "BC"
          <5>1. /\ Of(1).battle = b /\ Of(1).turn = StatesRead + Len(Status!Unread)
                /\ Status!Unread' = Append(Status!Unread, Of(1)) /\ Len(Status!Unread) \in Nat
            BY <1>1, <1>5, <1>10, <3>1, <4>1 DEF sLo
          <5>2. /\ Len(Status!Unread') = Len(Status!Unread) + 1
                /\ Status!Unread'[Len(Status!Unread) + 1] = Of(1)
                /\ \A i \in 1..Len(Status!Unread) : Status!Unread'[i] = Status!Unread[i]
            BY <1>1, <1>5, <5>1
          <5>3. ASSUME NEW i \in 1..Len(Status!Unread) + 1
                PROVE  Status!Unread'[i].battle = b /\ Status!Unread'[i].turn = StatesRead + i - 1
            <6>1. CASE i \in 1..Len(Status!Unread)
              BY <3>1, <5>2, <6>1
            <6>2. CASE i = Len(Status!Unread) + 1
              BY <1>1, <5>1, <5>2, <6>2
            <6> QED
              BY <5>1, <6>1, <6>2
          <5> QED
            BY <5>2, <5>3
        <4>2. CASE Kind(1) # "BC"
          BY <2>2, <3>1, <4>2
        <4> QED
          BY <4>1, <4>2
      <3>3. \A i \in 1..Len(Cmd!Unread') :
                  /\ Cmd!Unread'[i].battle = b
                  /\ Cmd!Unread'[i].turn = MoviesRead + i - 1
        <4>1. CASE Kind(1) = "BM"
          <5>1. /\ Of(1).battle = b /\ Of(1).turn = MoviesRead + Len(Cmd!Unread)
                /\ Cmd!Unread' = Append(Cmd!Unread, Of(1)) /\ Len(Cmd!Unread) \in Nat
            BY <1>1, <1>5, <1>11, <3>1, <4>1 DEF cLo
          <5>2. /\ Len(Cmd!Unread') = Len(Cmd!Unread) + 1
                /\ Cmd!Unread'[Len(Cmd!Unread) + 1] = Of(1)
                /\ \A i \in 1..Len(Cmd!Unread) : Cmd!Unread'[i] = Cmd!Unread[i]
            BY <1>1, <1>5, <5>1
          <5>3. ASSUME NEW i \in 1..Len(Cmd!Unread) + 1
                PROVE  Cmd!Unread'[i].battle = b /\ Cmd!Unread'[i].turn = MoviesRead + i - 1
            <6>1. CASE i \in 1..Len(Cmd!Unread)
              BY <3>1, <5>2, <6>1
            <6>2. CASE i = Len(Cmd!Unread) + 1
              BY <1>1, <5>1, <5>2, <6>2
            <6> QED
              BY <5>1, <6>1, <6>2
          <5> QED
            BY <5>2, <5>3
        <4>2. CASE Kind(1) # "BM"
          BY <2>2, <3>1, <4>2
        <4> QED
          BY <4>1, <4>2
      <3> QED
        BY <3>2, <3>3
    <2> QED
      BY <2>1, <2>2
  <1>13. Follow("BC", StatesRead, Status!Unread, StatesSent)'
    BY <1>1, <1>4, <1>7, <1>10, <1>12 DEF Follow, InTurn, TurnsOf, Of, sLo
  <1>14. Follow("BM", MoviesRead, Cmd!Unread, MoviesSent)'
    BY <1>1, <1>4, <1>7, <1>11, <1>12 DEF Follow, InTurn, TurnsOf, Of, cLo
  <1> QED
    BY <1>13, <1>14 DEF TurnByTurn

\* A state or a movie that comes finds a free slot.
LEMMA RoomForOne ==
  ASSUME IInv, Received
  PROVE  /\ Kind(1) = "BC" => Status!Backlog < Ahead
         /\ Kind(1) = "BM" => Cmd!Backlog < Ahead
  <1> DEFINE a == Of(1).battle
  <1>1. a \in Battles /\ (Kind(1) # "EN" => a = Announced)
    BY FirstOnWire DEF Received
  <1>2. /\ Cardinality(Lines("BC", a)) + (IF a = Announced THEN Status!Backlog ELSE 0) =< Ahead
        /\ Cardinality(Lines("BM", a)) + (IF a = Announced THEN Cmd!Backlog ELSE 0) =< Ahead
    BY <1>1 DEF IInv, Room
  <1>3. ASSUME NEW b, b = a
        PROVE  /\ Kind(1) = "BC" => Cardinality(Lines("BC", b)) >= 1
               /\ Kind(1) = "BM" => Cardinality(Lines("BM", b)) >= 1
    <2>1. /\ Cardinality(Lines("BC", b)') \in Nat /\ Cardinality(Lines("BM", b)') \in Nat
      <3>1. /\ Count(wire', About("BC", b)) \in Nat
            /\ Count(wire', About("BM", b)) \in Nat
        BY Shifted, CountFinite
      <3> QED
        BY <3>1, Shifted, CountedNext
    <2>2. Cardinality(Lines("BC", b)) \in Nat /\ Cardinality(Lines("BM", b)) \in Nat
      BY Counted DEF IInv, TypeOK
    <2>3. /\ Cardinality(Lines("BC", b)') =
                 Cardinality(Lines("BC", b)) - (IF Kind(1) = "BC" THEN 1 ELSE 0)
          /\ Cardinality(Lines("BM", b)') =
                 Cardinality(Lines("BM", b)) - (IF Kind(1) = "BM" THEN 1 ELSE 0)
      BY <1>3, Shifted
    <2> QED
      BY <2>1, <2>2, <2>3
  <1>4. /\ Status!Backlog \in Nat /\ Cmd!Backlog \in Nat /\ Ahead \in Nat
        /\ Cardinality(Lines("BC", a)) \in Nat /\ Cardinality(Lines("BM", a)) \in Nat
    BY Counted, RingTypes, Sizes DEF IInv, TypeOK
  <1> HIDE DEF a
  <1> QED
    BY <1>1, <1>2, <1>3, <1>4

LEMMA ReceivedRoom ==
  ASSUME IInv, Received, StatusRing!IInv', CmdRing!IInv',
         Status!Backlog' = IF Kind(1) = "EN" THEN 0
                           ELSE Status!Backlog + (IF Kind(1) = "BC" THEN 1 ELSE 0),
         Cmd!Backlog' = IF Kind(1) = "EN" THEN 0
                        ELSE Cmd!Backlog + (IF Kind(1) = "BM" THEN 1 ELSE 0)
  PROVE  Room'
  <1> SUFFICES ASSUME NEW b \in Battles
               PROVE  /\ Cardinality(Lines("BC", b)')
                             + (IF b = Announced' THEN Status!Backlog' ELSE 0) =< Ahead
                      /\ Cardinality(Lines("BM", b)')
                             + (IF b = Announced' THEN Cmd!Backlog' ELSE 0) =< Ahead
    BY DEF Room
  <1>1. /\ Cardinality(Lines("BC", b)) \in Nat /\ Cardinality(Lines("BM", b)) \in Nat
        /\ Status!Backlog \in Nat /\ Cmd!Backlog \in Nat /\ Ahead \in Nat
    BY Counted, RingTypes, Sizes DEF IInv, TypeOK
  <1>2. /\ Cardinality(Lines("BC", b)) + (IF b = Announced THEN Status!Backlog ELSE 0) =< Ahead
        /\ Cardinality(Lines("BM", b)) + (IF b = Announced THEN Cmd!Backlog ELSE 0) =< Ahead
    BY DEF IInv, Room
  <1>3. /\ Cardinality(Lines("BC", b)') = Cardinality(Lines("BC", b))
               - (IF Kind(1) = "BC" /\ Of(1).battle = b THEN 1 ELSE 0)
        /\ Cardinality(Lines("BM", b)') = Cardinality(Lines("BM", b))
               - (IF Kind(1) = "BM" /\ Of(1).battle = b THEN 1 ELSE 0)
        /\ Announced' = IF Kind(1) = "EN" THEN Announced + 1 ELSE Announced
    BY Shifted
  <1>4. Of(1).battle = Announced'
    BY <1>3, FirstOnWire DEF Received
  <1> QED
    BY <1>1, <1>2, <1>3, <1>4

LEMMA ResetEmpties ==
  /\ StatusRing!IInv /\ Status!Reset
        => StatusRing!IInv' /\ Status!Backlog' = 0 /\ Status!Unread' = <<>>
  /\ CmdRing!IInv /\ Cmd!Reset
        => CmdRing!IInv' /\ Cmd!Backlog' = 0 /\ Cmd!Unread' = <<>>
  <1>1. /\ Status!Reset => [StatusRing!Next]_(StatusRing!vars)
        /\ Cmd!Reset => [CmdRing!Next]_(CmdRing!vars)
    BY SameStatus, SameCmd DEF StatusRing!Next, CmdRing!Next
  <1>2. Status!Reset => Status!Backlog' = 0
    BY DEF Status!Reset, Status!Backlog
  <1>3. Cmd!Reset => Cmd!Backlog' = 0
    BY DEF Cmd!Reset, Cmd!Backlog
  <1>4. Status!Backlog' = 0 => Status!Unread' = <<>>
    BY DEF Status!Unread
  <1>5. Cmd!Backlog' = 0 => Cmd!Unread' = <<>>
    BY DEF Cmd!Unread
  <1> QED
    BY <1>1, <1>2, <1>3, <1>4, <1>5, Sizes, StatusRing!InvStep, CmdRing!InvStep

LEMMA RecvKeeps ==
  ASSUME IInv, Recv
  PROVE  IInv'
  <1>1. /\ wire # <<>> /\ wire' = Tail(wire)
        /\ UNCHANGED <<screen, eo, srv, entered, phantom, early, movies, lost>>
        /\ Head(wire)[1] = Kind(1) /\ Head(wire)[2] = Of(1)
    BY FirstOnWire DEF Recv, Kind, Of
  <1>2. /\ StatusRing!IInv /\ CmdRing!IInv /\ Of(1) \in Shown /\ Of(1).turn \in Nat
        /\ sBak \in [Status!Slots -> Shown \cup {NoMsg}]
        /\ cBak \in [Cmd!Slots -> Shown \cup {NoMsg}]
        /\ Of(1) \in Messages
    <2>1. 1 \in DOMAIN wire /\ Of(1) \in Shown /\ Of(1).turn \in Nat
      BY <1>1, FirstOnWire, WireTypes, Sizes
    <2> QED
      BY <2>1, RingTypes DEF Messages, IInv, TypeOK, Status!TypeOK, Cmd!TypeOK
  <1>3. /\ {sBak[s] : s \in DOMAIN sBak} \subseteq Messages
        /\ {cBak[s] : s \in DOMAIN cBak} \subseteq Messages
    BY DEF Messages
  <1>4. /\ EncountFlag \in BOOLEAN /\ BattleTurnReceiveFlag \in BOOLEAN /\ synced \in BOOLEAN
        /\ BattleCliTurnNo \in Nat
    BY DEF IInv, TypeOK
  <1>5. CASE Kind(1) = "EN" /\ EN_recv
    <2>1. Received
      BY <1>1, <1>5 DEF Received, EN_recv, Status!Reset, Cmd!Reset
    <2>2. /\ StatusRing!IInv' /\ Status!Backlog' = 0 /\ Status!Unread' = <<>>
          /\ CmdRing!IInv' /\ Cmd!Backlog' = 0 /\ Cmd!Unread' = <<>>
      BY <1>2, <1>5, ResetEmpties DEF EN_recv
    <2>3. sBak' = sBak /\ cBak' = cBak
      BY <1>5 DEF EN_recv, Status!Reset, Cmd!Reset
    <2>4. TypeOK' /\ Ordered' /\ Endings' /\ Abreast' /\ InStep' /\ Answered'
      BY <1>3, <1>4, <1>5, <2>1, <2>2, <2>3, ReceivedKeeps DEF EN_recv
    <2>5. Room'
      BY <1>5, <2>1, <2>2, ReceivedRoom
    <2>6. TurnByTurn'
      BY <1>5, <2>1, <2>2, ReceivedFollows
    <2>7. TurnAgrees'
      BY <1>1, <1>5 DEF IInv, TurnAgrees, EN_recv
    <2> QED
      BY <2>4, <2>5, <2>6, <2>7 DEF IInv
  <1>6. CASE Kind(1) = "BA" /\ BA_recv(Of(1))
    <2>1. Received /\ UNCHANGED sVars /\ UNCHANGED cVars
      BY <1>1, <1>6 DEF Received, BA_recv, sVars, cVars
    <2>2. /\ StatusRing!IInv' /\ Status!Backlog' = Status!Backlog
          /\ Status!Unread' = Status!Unread
          /\ CmdRing!IInv' /\ Cmd!Backlog' = Cmd!Backlog /\ Cmd!Unread' = Cmd!Unread
          /\ Status!Backlog \in Nat /\ Cmd!Backlog \in Nat
      BY <2>1, RingTypes, RingsRest
    <2>3. /\ sBak' = sBak /\ cBak' = cBak /\ EncountFlag' = EncountFlag
          /\ BattleEscFlag' = BattleEscFlag
          /\ BattleTurnReceiveFlag' \in BOOLEAN /\ BattleCliTurnNo' \in Nat
          /\ synced' \in BOOLEAN
      BY <1>2, <1>4, <1>6 DEF BA_recv, sVars, cVars
    <2>4. TypeOK' /\ Ordered' /\ Endings' /\ Abreast' /\ InStep' /\ Answered'
      BY <1>3, <1>4, <2>1, <2>2, <2>3, ReceivedKeeps
    <2>5. Room'
      BY <1>6, <2>1, <2>2, ReceivedRoom
    <2>6. TurnByTurn'
      BY <1>6, <2>1, <2>2, ReceivedFollows
    <2>7. TurnAgrees'
      <3>1. CASE BattleTurnReceiveFlag
        <4>1. (synced' => Of(1).turn = movies) /\ BattleCliTurnNo' = Of(1).turn
          BY <1>6, <3>1 DEF BA_recv
        <4> QED
          BY <1>1, <4>1 DEF TurnAgrees
      <3>2. CASE ~BattleTurnReceiveFlag
        BY <1>1, <1>6, <3>2 DEF IInv, TurnAgrees, BA_recv
      <3> QED
        BY <3>1, <3>2
    <2> QED
      BY <2>4, <2>5, <2>6, <2>7 DEF IInv
  <1>7. CASE Kind(1) = "BU" /\ BU_recv(Of(1))
    <2>1. Received /\ UNCHANGED sVars /\ UNCHANGED cVars
      BY <1>1, <1>7 DEF Received, BU_recv, sVars, cVars
    <2>2. /\ StatusRing!IInv' /\ Status!Backlog' = Status!Backlog
          /\ Status!Unread' = Status!Unread
          /\ CmdRing!IInv' /\ Cmd!Backlog' = Cmd!Backlog /\ Cmd!Unread' = Cmd!Unread
          /\ Status!Backlog \in Nat /\ Cmd!Backlog \in Nat
      BY <2>1, RingTypes, RingsRest
    <2>3. /\ sBak' = sBak /\ cBak' = cBak /\ EncountFlag' = EncountFlag
          /\ BattleEscFlag' = Of(1).battle
          /\ BattleTurnReceiveFlag' \in BOOLEAN /\ BattleCliTurnNo' \in Nat
          /\ synced' \in BOOLEAN
      BY <1>4, <1>7 DEF BU_recv, sVars, cVars
    <2>4. TypeOK' /\ Ordered' /\ Endings' /\ Abreast' /\ InStep' /\ Answered'
      BY <1>3, <1>4, <1>7, <2>1, <2>2, <2>3, ReceivedKeeps
    <2>5. Room'
      BY <1>7, <2>1, <2>2, ReceivedRoom
    <2>6. TurnByTurn'
      BY <1>7, <2>1, <2>2, ReceivedFollows
    <2>7. TurnAgrees'
      BY <1>1, <1>7 DEF IInv, TurnAgrees, BU_recv
    <2> QED
      BY <2>4, <2>5, <2>6, <2>7 DEF IInv
  <1>8. CASE Kind(1) = "BC" /\ Status!Write(Of(1)) /\ UNCHANGED <<flags, cVars, synced>>
    <2>1. Received /\ UNCHANGED cVars
      BY <1>1, <1>8 DEF Received, Status!Write, cVars
    <2>2. /\ StatusRing!IInv' /\ Status!Backlog' = Status!Backlog + 1
          /\ Status!Unread' = Append(Status!Unread, Of(1))
          /\ CmdRing!IInv' /\ Cmd!Backlog' = Cmd!Backlog /\ Cmd!Unread' = Cmd!Unread
          /\ Status!Backlog \in Nat /\ Cmd!Backlog \in Nat
      BY <1>2, <1>8, <2>1, RingTypes, RingsRest, RoomForOne, StatusWrite
    <2>3. /\ {sBak'[s] : s \in DOMAIN sBak'} \subseteq Messages /\ cBak' = cBak
          /\ UNCHANGED <<EncountFlag, BattleEscFlag, BattleTurnReceiveFlag, BattleCliTurnNo,
                         synced>>
      BY <1>2, <1>3, <1>8 DEF flags, cVars, Status!Write
    <2>4. TypeOK' /\ Ordered' /\ Endings' /\ Abreast' /\ InStep' /\ Answered'
      BY <1>3, <1>4, <2>1, <2>2, <2>3, ReceivedKeeps
    <2>5. Room'
      BY <1>8, <2>1, <2>2, ReceivedRoom
    <2>6. TurnByTurn'
      BY <1>8, <2>1, <2>2, ReceivedFollows
    <2>7. TurnAgrees'
      BY <1>1, <2>3 DEF IInv, TurnAgrees
    <2> QED
      BY <2>4, <2>5, <2>6, <2>7 DEF IInv
  <1>9. CASE Kind(1) = "BM" /\ Cmd!Write(Of(1)) /\ UNCHANGED <<flags, sVars, synced>>
    <2>1. Received /\ UNCHANGED sVars
      BY <1>1, <1>9 DEF Received, Cmd!Write, sVars
    <2>2. /\ CmdRing!IInv' /\ Cmd!Backlog' = Cmd!Backlog + 1
          /\ Cmd!Unread' = Append(Cmd!Unread, Of(1))
          /\ StatusRing!IInv' /\ Status!Backlog' = Status!Backlog
          /\ Status!Unread' = Status!Unread
          /\ Status!Backlog \in Nat /\ Cmd!Backlog \in Nat
      BY <1>2, <1>9, <2>1, RingTypes, RingsRest, RoomForOne, CmdWrite
    <2>3. /\ {cBak'[s] : s \in DOMAIN cBak'} \subseteq Messages /\ sBak' = sBak
          /\ UNCHANGED <<EncountFlag, BattleEscFlag, BattleTurnReceiveFlag, BattleCliTurnNo,
                         synced>>
      BY <1>2, <1>3, <1>9 DEF flags, sVars, Cmd!Write
    <2>4. TypeOK' /\ Ordered' /\ Endings' /\ Abreast' /\ InStep' /\ Answered'
      BY <1>3, <1>4, <2>1, <2>2, <2>3, ReceivedKeeps
    <2>5. Room'
      BY <1>9, <2>1, <2>2, ReceivedRoom
    <2>6. TurnByTurn'
      BY <1>9, <2>1, <2>2, ReceivedFollows
    <2>7. TurnAgrees'
      BY <1>1, <2>3 DEF IInv, TurnAgrees
    <2> QED
      BY <2>4, <2>5, <2>6, <2>7 DEF IInv
  <1> QED
    BY <1>1, <1>5, <1>6, <1>7, <1>8, <1>9 DEF Recv

-----------------------------------------------------------------------------
(* The invariant, and what follows from it.                                *)

LEMMA IInvInit == Init => IInv
  <1> SUFFICES ASSUME Init PROVE IInv
    OBVIOUS
  <1>1. StatusRing!IInv /\ CmdRing!IInv
    <2>1. StatusRing!Init /\ CmdRing!Init
      BY DEF Init, Status!Init, Cmd!Init, StatusRing!Init, CmdRing!Init,
         Status!Slots, Cmd!Slots, StatusRing!Slots, CmdRing!Slots
    <2> QED
      BY <2>1, Sizes, StatusRing!InvInit, CmdRing!InvInit
  <1>2. Status!TypeOK /\ Cmd!TypeOK
    BY <1>1, SameStatus, SameCmd DEF StatusRing!IInv, CmdRing!IInv
  <1>3. /\ wire = <<>> /\ srv.battle = 0 /\ srv.turn = 0 /\ srv.phase = "map" /\ ~srv.bu
        /\ Status!Backlog = 0 /\ Cmd!Backlog = 0
    BY DEF Init, Status!Init, Cmd!Init, Status!Backlog, Cmd!Backlog
  <1>4. TypeOK
    <2>1. srv \in [battle : 0..MaxBattles, turn : 0..MaxTurn, ba : 0..MaxBA,
                   phase : {"map", "state", "input", "over"}, bu : BOOLEAN]
      BY Sizes DEF Init
    <2>2. ProcNo \in {"GAME", "BATTLE"} /\ SubProcNo \in INIT..OUT_PRODUCE
      BY DEF Init, INIT, OUT_PRODUCE
    <2>3. /\ BattleEscFlag \in 0..MaxBattles /\ BattleCliTurnNo \in Nat
          /\ entered \in 0..MaxBattles /\ movies \in Nat /\ lost \in 0..MaxBattles
      BY Sizes DEF Init
    <2>4. /\ EncountFlag \in BOOLEAN /\ BattleTurnReceiveFlag \in BOOLEAN /\ eo \in BOOLEAN
          /\ phantom \in BOOLEAN /\ early \in BOOLEAN /\ synced \in BOOLEAN
      BY DEF Init
    <2>5. wire \in Seq(Line)
      BY <1>3
    <2> QED
      BY <1>2, <2>1, <2>2, <2>3, <2>4, <2>5 DEF TypeOK
  <1>5. Announced = 0 /\ \A kind, b : Lines(kind, b) = {} /\ Cardinality(Lines(kind, b)) = 0
    <2>1. \A kind, b : Lines(kind, b) = {}
      BY <1>3 DEF Lines
    <2>2. {i \in DOMAIN wire : wire[i][1] = "EN"} = {}
      BY <1>3
    <2> QED
      BY <1>3, <2>1, <2>2, FS_EmptySet DEF Announced
  <1>6. Ordered
    BY <1>3, <1>5 DEF Ordered
  <1>7. Room
    BY <1>1, <1>3, <1>5, Sizes DEF Room
  <1>8. Endings
    <2>1. Messages = {NoMsg}
      <3>1. {Of(i) : i \in DOMAIN wire} = {}
        BY <1>3
      <3>2. {sBak[s] : s \in DOMAIN sBak} = {NoMsg} /\ {cBak[s] : s \in DOMAIN cBak} = {NoMsg}
        BY Sizes DEF Init, Status!Init, Cmd!Init, Status!Slots, Cmd!Slots
      <3> QED
        BY <3>1, <3>2 DEF Messages, Init, Status!Init, Cmd!Init
    <2> QED
      BY <1>3, <2>1 DEF Endings, NoMsg, Init, Over
  <1>9. Abreast /\ InStep /\ Answered /\ TurnAgrees
    BY <1>3, <1>5
      DEF Init, Abreast, InStep, Answered, TurnAgrees, Fighting, Leaving, InBattle
  <1>10. TurnByTurn
    <2>1. ~Current
      BY <1>3 DEF Init, Current, Fighting
    <2> QED
      BY <2>1 DEF TurnByTurn
  <1> QED
    BY <1>4, <1>6, <1>7, <1>8, <1>9, <1>10 DEF IInv

LEMMA StutterKeeps ==
  ASSUME IInv, UNCHANGED vars
  PROVE  IInv'
  <1>1. UNCHANGED <<screen, flags, sVars, cVars, history, wire, srv, eo>>
    BY DEF vars, net
  <1>2. UNCHANGED <<ProcNo, SubProcNo, EncountFlag, BattleEscFlag, BattleTurnReceiveFlag,
                    BattleCliTurnNo, entered, phantom, early, movies, synced, lost>>
        /\ UNCHANGED <<sCur, cCur>>
    BY <1>1 DEF screen, flags, history, sVars, cVars
  <1>3. Ordered' /\ Room' /\ Endings' /\ Status!TypeOK' /\ Cmd!TypeOK'
    BY <1>1, <1>2, FrameKeeps DEF ReadsStatus, ReadsCmd
  <1>4. TypeOK'
    BY <1>1, <1>2, <1>3 DEF IInv, TypeOK
  <1>5. Abreast' /\ InStep' /\ Answered' /\ TurnAgrees'
    BY <1>1, <1>2, WireRests
    DEF IInv, Abreast, InStep, Answered, TurnAgrees, Fighting, Leaving, InBattle
  <1>6. TurnByTurn'
    <2>1. (Current' <=> Current) /\ StatesRead' = StatesRead /\ MoviesRead' = MoviesRead
      BY <1>1, <1>2
        DEF Current, Fighting, Leaving, InBattle, StatesRead, MoviesRead, Shows
    <2>2. Keeps(StatesRead, Status!Unread) /\ Keeps(MoviesRead, Cmd!Unread)
      BY <1>1, <2>1, ClientRests DEF Keeps
    <2> QED
      BY <1>1, <2>1, <2>2, FrameFollows DEF TurnByTurn
  <1> QED
    BY <1>3, <1>4, <1>5, <1>6 DEF IInv

LEMMA IInvStep == IInv /\ [Next]_vars => IInv'
  <1> SUFFICES ASSUME IInv, [Next]_vars PROVE IInv'
    OBVIOUS
  <1>1. CASE Recv
    BY <1>1, RecvKeeps
  <1>2. CASE Process
    BY <1>2, ReturnToMapKeeps, EncounterKeeps, LeaveMapKeeps, BattleInitKeeps,
       InProduceKeeps, ReceiveBCKeeps, CharInKeeps, CmdInputKeeps, ReceiveMovieKeeps,
       MovieKeeps, EscapeKeeps, OutProduceInitKeeps, OutProduceKeeps
      DEF Process
  <1>3. CASE Server
    BY <1>3, ServerEncounterKeeps, ServerStateKeeps, ServerProgressKeeps,
       ServerMovieKeeps, ServerDismissKeeps, ServerHearsEOKeeps
      DEF Server
  <1>4. CASE Wait \/ UNCHANGED vars
    BY <1>4, StutterKeeps DEF Wait
  <1> QED
    BY <1>1, <1>2, <1>3, <1>4 DEF Next

(* What holds of every reachable state of the screens, the buffers, the    *)
(* wire and the server.                                                    *)
THEOREM Inductive == Spec => []IInv
  BY IInvInit, IInvStep, PTL DEF Spec

(* Every variable of BattleProc and of the two buffers stays in its range. *)
THEOREM TypeCorrect == Spec => []TypeOK
  <1>1. IInv => TypeOK
    BY DEF IInv
  <1> QED
    BY <1>1, Inductive, PTL

(* The fighters and the movie on the screen are those of the battle        *)
(* announced last and of the turn the movies have reached (BattleProc,     *)
(* B_recv, EN_recv), for buffers of any size.                              *)
THEOREM ShownInStep == Spec => []InStep
  <1>1. IInv => InStep
    BY DEF IInv
  <1> QED
    BY <1>1, Inductive, PTL

(* The client leaves a battle, and sends EO, only when the server has      *)
(* ended it (BATTLE_OUT_PRODUCE_INIT, BattleEscFlag).                      *)
THEOREM LeftWhenEnded == Spec => []LeavesOnlyEnded
  <1>1. IInv => LeavesOnlyEnded
    <2> SUFFICES ASSUME IInv, ~phantom, Leaving \/ eo
                 PROVE  srv.phase = "over"
      BY DEF LeavesOnlyEnded, Leaving
    <2>1. CASE Leaving
      BY <2>1 DEF IInv, Abreast
    <2>2. CASE eo
      BY <2>2, Sizes DEF IInv, Abreast, TypeOK
    <2> QED
      BY <2>1, <2>2
  <1> QED
    BY <1>1, Inductive, PTL

(* A battle is entered without an announcement only after one was left     *)
(* before its first state was read (EncountFlag).                          *)
THEOREM PhantomByEscape == Spec => []PhantomOnlyByEarlyEscape
  <1>1. IInv => PhantomOnlyByEarlyEscape
    BY DEF IInv, Answered, PhantomOnlyByEarlyEscape
  <1> QED
    BY <1>1, Inductive, PTL

(* Once a BA for the turn on the screen has set BattleCliTurnNo, it counts *)
(* the turns shown, whatever BAs follow.                                   *)
THEOREM TurnsCounted == Spec => []TurnAgrees
  <1>1. IInv => TurnAgrees
    BY DEF IInv
  <1> QED
    BY <1>1, Inductive, PTL

-----------------------------------------------------------------------------
(* What Battle does to its buffers are steps of BattleRing.                *)

LEMMA RingsInit == Init => Status!Init /\ Cmd!Init
  BY DEF Init

LEMMA RingSteps ==
  ASSUME IInv, [Next]_vars
  PROVE  [Status!Next]_(Status!vars) /\ [Cmd!Next]_(Cmd!vars)
  <1> USE DEF Status!Next, Cmd!Next, Status!vars, Cmd!vars, sVars, cVars
  <1>1. CASE Recv
    <2>1. wire # <<>> /\ Head(wire)[1] = Kind(1) /\ Head(wire)[2] = Of(1) /\ Of(1) \in Shown
      BY <1>1, FirstOnWire DEF Recv, Kind, Of
    <2>2. CASE EN_recv
      BY <2>2 DEF EN_recv
    <2>3. CASE BA_recv(Of(1)) \/ BU_recv(Of(1))
      BY <2>3 DEF BA_recv, BU_recv
    <2>4. CASE Kind(1) = "BC" /\ Status!Write(Of(1)) /\ UNCHANGED <<flags, cVars, synced>>
      <3>1. Received
        BY <1>1, <2>4 DEF Recv, Received, Status!Write
      <3> QED
        BY <2>1, <2>4, <3>1, RoomForOne DEF Status!Receive
    <2>5. CASE Kind(1) = "BM" /\ Cmd!Write(Of(1)) /\ UNCHANGED <<flags, sVars, synced>>
      <3>1. Received
        BY <1>1, <2>5 DEF Recv, Received, Cmd!Write
      <3> QED
        BY <2>1, <2>5, <3>1, RoomForOne DEF Cmd!Receive
    <2> QED
      BY <1>1, <2>1, <2>2, <2>3, <2>4, <2>5 DEF Recv
  <1>2. CASE Process
    <2>1. CASE ReturnToMap \/ LeaveMap \/ BattleInit \/ InProduce \/ CmdInput \/ Escape
               \/ OutProduceInit \/ OutProduce
      BY <2>1 DEF ReturnToMap, LeaveMap, BattleInit, InProduce, CmdInput, Escape,
         OutProduceInit, OutProduce
    <2>2. CASE Encounter \/ Movie
      BY <2>2 DEF Encounter, Movie
    <2>3. CASE ReceiveBC \/ ReceiveMovie
      BY <2>3 DEF ReceiveBC, ReceiveMovie
    <2>4. CASE CharIn
      BY <2>4 DEF CharIn
    <2> QED
      BY <1>2, <2>1, <2>2, <2>3, <2>4 DEF Process
  <1>3. CASE Server
    BY <1>3 DEF Server, ServerEncounter, ServerState, ServerProgress, ServerMovie,
       ServerDismiss, ServerHearsEO, ServerUnchanged
  <1>4. CASE Wait \/ UNCHANGED vars
    BY <1>4 DEF Wait, vars
  <1> QED
    BY <1>1, <1>2, <1>3, <1>4 DEF Next

(* The buffers of the battle screens are used as BattleRing assumes: no    *)
(* state and no movie is written over one not yet read (B_recv), although  *)
(* nothing there looks at the read pointer.                                *)
THEOREM RingsUsed == Spec => RingsUsedAsAssumed
  <1>1. IInv /\ [Next]_vars => [Status!Next]_(Status!vars) /\ [Cmd!Next]_(Cmd!vars)
    BY RingSteps
  <1> QED
    BY <1>1, Inductive, RingsInit, PTL DEF Spec, RingsUsedAsAssumed, Status!Spec, Cmd!Spec

-----------------------------------------------------------------------------
(* The second part: the input of a turn (BattleMenu).                      *)

\* The stages of a turn's input, of the record x the blocks of BattleMenuProc
\* work on.  It begins; or it has begun and the player's or the pet's menu is
\* open or closing, or the pet's is due; or it is over.
IdleExcused(x) ==
    /\ x.s.idle /\ turn.alive /\ turn.skills /\ ~turn.petNon /\ ~x.s.late /\ ~x.s.ai
    => x.s.esc
Begins(x) ==
    /\ x.m.SubProcNo = CMD_INPUT /\ x.m.battleMenuFlag2 /\ ~x.m.battlePetMenuFlag
    /\ x.m.battleMenuFlag = {} /\ ~x.m.hitBox /\ x.s = NothingSent
Begun(x) ==
    /\ x.m.SubProcNo = CMD_INPUT /\ ~x.m.battleMenuFlag2
    /\ ~turn.watch /\ x.m.battlePetNoBak = turn.battlePetNo
    /\ x.m.battlePlayerEscFlag => x.s.esc
    /\ IdleExcused(x)
PlayerChooses(x) ==
    /\ Begun(x) /\ x.m.battleMenuFlag = {"MENU"} /\ ~x.m.battleMenuReturn
    /\ ~x.m.battlePetMenuFlag /\ x.m.BattleCntDownFlag /\ turn.alive
    /\ x.m.hitBox => x.m.BattleCmdNo = "player"
    /\ x.s.player = 0 /\ x.s.pet = 0 /\ ~x.s.idle
PlayerChose(x) ==
    /\ Begun(x) /\ x.m.battleMenuFlag = {"MENU"} /\ x.m.battleMenuReturn
    /\ ~x.m.battlePetMenuFlag /\ ~x.m.battleTargetSelectFlag /\ turn.alive
    /\ x.s.player = 1
    /\ x.m.BattleCntDownFlag => x.s.pet = 0 /\ ~x.s.idle
    /\ ~x.m.BattleCntDownFlag => x.s.pet = IF PetCanAct THEN 1 ELSE 0
PetIsNext(x) ==
    /\ Begun(x) /\ x.m.battleMenuFlag = {} /\ ~x.m.hitBox
    /\ x.m.battlePetMenuFlag /\ x.m.BattleCntDownFlag
    /\ x.s.player =< 1 /\ (turn.alive => x.s.player = 1) /\ x.s.pet = 0 /\ ~x.s.idle
PetChooses(x) ==
    /\ Begun(x) /\ x.m.battleMenuFlag = {"PET"} /\ ~x.m.battleMenuReturn
    /\ ~x.m.battlePetMenuFlag /\ x.m.BattleCntDownFlag /\ turn.alive /\ PetCanAct
    /\ x.m.hitBox => x.m.BattleCmdNo = "waza"
    /\ x.s.player = 1 /\ (turn.skills => x.s.pet = 0)
PetChose(x) ==
    /\ Begun(x) /\ x.m.battleMenuFlag = {"PET"} /\ x.m.battleMenuReturn
    /\ ~x.m.battlePetMenuFlag /\ ~x.m.battleTargetSelectFlag /\ turn.alive /\ PetCanAct
    /\ x.s.player = 1 /\ x.s.pet >= 1 /\ (turn.skills => x.s.pet = 1)
Given(x) ==
    /\ x.m.SubProcNo = RECEIVE_MOVIE /\ x.m.battleMenuFlag = {} /\ ~x.m.hitBox
    /\ ~x.m.battlePetMenuFlag
    /\ x.s.player =< 1 /\ (turn.skills => x.s.pet =< 1)
    /\ turn.watch \/ turn.alive => x.s.player = 1
    /\ ~turn.watch /\ PetCanAct => x.s.pet >= 1
    /\ IdleExcused(x)

Stage(x) == PlayerChooses(x) \/ PlayerChose(x) \/ PetChooses(x) \/ PetChose(x)

\* The inductive invariant.  A battle with an AI switched in the middle of an
\* input is excepted, but ends with nothing sent and no pet's menu due.
InputInv ==
    LET x == [m |-> menu, s |-> sent]
    IN  /\ InputTypeOK /\ turn \in Turns /\ ~menu.battlePetMenuFlag
        /\ menu.SubProcNo \in {MOVIE, OUT_PRODUCE_INIT} => sent = NothingSent
        /\ menu.SubProcNo = CMD_INPUT /\ "PET_MENU_NON" \in menu.BattleBpFlag => turn.petNon
        /\ ~mixed =>
              /\ menu.SubProcNo = CMD_INPUT =>
                    IF menu.battleMenuFlag2 THEN Begins(x) ELSE Stage(x) /\ AI = "AI_NONE"
              /\ menu.SubProcNo = RECEIVE_MOVIE => Given(x)
              /\ menu.SubProcNo = MOVIE => menu.battleMenuFlag = {} /\ ~menu.hitBox

-----------------------------------------------------------------------------
(* The input of a turn.                                                    *)

\* What the blocks of BattleMenuProc work on.
Input == [m : Menu, s : Sent]

LEMMA SaysIs ==
  ASSUME NEW x \in Input, NEW who \in {"player", "pet"}
  PROVE  /\ Says(x, who) \in Input /\ Says(x, who).m = x.m
         /\ Says(x, who).s = [x.s EXCEPT ![who] = @ + 1]
  <1>1. Says(x, who) \in Input
    BY DEF Input, Says, Menu, Sent
  <1> QED
    BY <1>1 DEF Input, Says

LEMMA PetIdlesIs ==
  ASSUME NEW x \in Input
  PROVE  /\ PetIdles(x) \in Input /\ PetIdles(x).m = x.m
         /\ PetIdles(x).s = [x.s EXCEPT !.pet = @ + 1, !.idle = TRUE]
  <1> DEFINE y == Says(x, "pet")
  <1>1. y \in Input /\ y.m = x.m /\ y.s = [x.s EXCEPT !.pet = @ + 1]
    BY SaysIs
  <1> HIDE DEF y
  <1>2. [y EXCEPT !.s.idle = TRUE] \in Input
    BY <1>1 DEF Input, Sent
  <1>3. /\ [y EXCEPT !.s.idle = TRUE].m = y.m
        /\ [y EXCEPT !.s.idle = TRUE].s = [y.s EXCEPT !.idle = TRUE]
    BY <1>1 DEF Input
  <1> QED
    BY <1>1, <1>2, <1>3 DEF PetIdles, y

LEMMA ClearBoxIs ==
  ASSUME NEW x \in Input
  PROVE  /\ ClearBox(x) \in Input /\ ClearBox(x).s = x.s
         /\ ClearBox(x).m = [x.m EXCEPT !.hitBox = FALSE]
  <1>1. ClearBox(x) \in Input
    BY DEF Input, ClearBox, Menu
  <1> QED
    BY <1>1 DEF Input, ClearBox

LEMMA ButtonOffIs ==
  ASSUME NEW x \in Input
  PROVE  /\ ButtonOff(x) \in Input /\ ButtonOff(x).s = x.s
         /\ ButtonOff(x).m = [x.m EXCEPT !.hitBox = FALSE, !.battleTargetSelectFlag = FALSE,
                                         !.BattleCmdNo = "none"]
  <1>1. ButtonOff(x) \in Input
    BY DEF Input, ButtonOff, ClearBox, Menu
  <1> QED
    BY <1>1 DEF Input, ButtonOff, ClearBox

LEMMA AskTargetIs ==
  ASSUME NEW x \in Input, NEW cmd \in {"player", "waza"}
  PROVE  /\ AskTarget(x, cmd) \in Input /\ AskTarget(x, cmd).s = x.s
         /\ AskTarget(x, cmd).m = [x.m EXCEPT !.hitBox = TRUE, !.battleTargetSelectFlag = TRUE,
                                              !.BattleCmdNo = cmd]
  <1> DEFINE y == ButtonOff(x)
  <1>1. /\ y \in Input /\ y.s = x.s
        /\ y.m = [x.m EXCEPT !.hitBox = FALSE, !.battleTargetSelectFlag = FALSE,
                             !.BattleCmdNo = "none"]
    BY ButtonOffIs
  <1> HIDE DEF y
  <1> DEFINE z == [y EXCEPT !.m.battleTargetSelectFlag = TRUE, !.m.BattleCmdNo = cmd,
                            !.m.hitBox = TRUE]
  <1>2. z \in Input
    BY <1>1 DEF Input, Menu
  <1>3. /\ z.s = y.s
        /\ z.m = [y.m EXCEPT !.battleTargetSelectFlag = TRUE, !.BattleCmdNo = cmd,
                             !.hitBox = TRUE]
    BY <1>1 DEF Input
  <1>4. x.m \in Menu
    BY DEF Input
  <1>5. z.m = [x.m EXCEPT !.hitBox = TRUE, !.battleTargetSelectFlag = TRUE, !.BattleCmdNo = cmd]
    BY <1>1, <1>3, <1>4 DEF Menu
  <1> QED
    BY <1>1, <1>2, <1>3, <1>5 DEF AskTarget, y

LEMMA ReturnIs ==
  ASSUME NEW x \in Input
  PROVE  /\ Return(x) \in Input /\ Return(x).s = x.s
         /\ Return(x).m = [x.m EXCEPT !.battleMenuReturn = TRUE]
  <1>1. Return(x) \in Input
    BY DEF Input, Return, Menu
  <1> QED
    BY <1>1 DEF Input, Return

LEMMA AdvanceIs ==
  ASSUME NEW x \in Input, x.m.SubProcNo \in {CMD_INPUT, RECEIVE_MOVIE}
  PROVE  /\ Advance(x) \in Input /\ Advance(x).s = x.s
         /\ Advance(x).m = [x.m EXCEPT !.SubProcNo = @ + 1]
  <1>1. Advance(x) \in Input
    BY DEF Input, Advance, Menu, CMD_INPUT, RECEIVE_MOVIE, OUT_PRODUCE_INIT
  <1> QED
    BY <1>1 DEF Input, Advance

LEMMA TargetSelectDoes ==
  ASSUME NEW x \in Input, NEW click
  PROVE  LET y == TargetSelect(x, click)
         IN  \/ y = x
             \/ /\ x.m.battleTargetSelectFlag /\ x.m.hitBox
                /\ y \in Input
                /\ y.m = [x.m EXCEPT !.battleTargetSelectFlag = FALSE, !.battleMenuReturn = TRUE]
                /\ y.s = CASE x.m.BattleCmdNo = "player" -> [x.s EXCEPT !.player = @ + 1]
                           [] x.m.BattleCmdNo = "waza" -> [x.s EXCEPT !.pet = @ + 1]
                           [] OTHER -> x.s
  <1> DEFINE y == TargetSelect(x, click)
             c == CASE x.m.BattleCmdNo = "player" -> Says(x, "player")
                    [] x.m.BattleCmdNo = "waza" -> Says(x, "pet")
                    [] OTHER -> x
             z == [c EXCEPT !.m.battleTargetSelectFlag = FALSE]
  <1> SUFFICES ASSUME y # x
               PROVE  /\ x.m.battleTargetSelectFlag /\ x.m.hitBox /\ y \in Input
                      /\ y.m = [x.m EXCEPT !.battleTargetSelectFlag = FALSE,
                                           !.battleMenuReturn = TRUE]
                      /\ y.s = CASE x.m.BattleCmdNo = "player" -> [x.s EXCEPT !.player = @ + 1]
                                 [] x.m.BattleCmdNo = "waza" -> [x.s EXCEPT !.pet = @ + 1]
                                 [] OTHER -> x.s
    OBVIOUS
  <1>1. x.m.battleTargetSelectFlag /\ x.m.hitBox /\ y = Return(z)
    BY Zenon DEF TargetSelect
  <1>2. /\ c \in Input /\ c.m = x.m
        /\ c.s = CASE x.m.BattleCmdNo = "player" -> [x.s EXCEPT !.player = @ + 1]
                   [] x.m.BattleCmdNo = "waza" -> [x.s EXCEPT !.pet = @ + 1]
                   [] OTHER -> x.s
    <2>1. CASE x.m.BattleCmdNo = "player"
      BY <2>1, SaysIs
    <2>2. CASE x.m.BattleCmdNo = "waza"
      BY <2>2, SaysIs
    <2>3. CASE x.m.BattleCmdNo \notin {"player", "waza"}
      BY <2>3
    <2> QED
      BY <2>1, <2>2, <2>3
  <1> HIDE DEF c, y
  <1>3. z \in Input
    BY <1>2 DEF Input, Menu
  <1>4. z.m = [c.m EXCEPT !.battleTargetSelectFlag = FALSE] /\ z.s = c.s
    BY <1>2 DEF Input
  <1> HIDE DEF z
  <1>5. y \in Input /\ y.s = c.s /\ y.m = [z.m EXCEPT !.battleMenuReturn = TRUE]
    BY <1>1, <1>3, <1>4, ReturnIs
  <1> QED
    BY <1>1, <1>2, <1>4, <1>5

LEMMA OpeningIs ==
  ASSUME NEW x \in Input
  PROVE  /\ Opening(x) \in Input /\ Opening(x).s = x.s
         /\ Opening(x).m = [x.m EXCEPT !.buttonA = IF @ > 0 THEN @ - 1 ELSE @]
  <1>1. Opening(x) \in Input
    BY StepsAssumption DEF Input, Opening, Menu
  <1> QED
    BY <1>1 DEF Input, Opening

LEMMA ClosingIs ==
  ASSUME NEW x \in Input, x.m.buttonA =< ButtonSteps
  PROVE  /\ Closing(x) \in Input /\ Closing(x).s = x.s
         /\ Closing(x).m = [x.m EXCEPT !.buttonA = @ + 1]
  <1>1. Closing(x) \in Input
    BY StepsAssumption DEF Input, Closing, Menu
  <1> QED
    BY <1>1 DEF Input, Closing

\* What a click leaves as it is.
SameMenus(x, y) ==
    /\ y.m.SubProcNo = x.m.SubProcNo /\ y.m.battleMenuFlag = x.m.battleMenuFlag
    /\ y.m.battleMenuFlag2 = x.m.battleMenuFlag2 /\ y.m.battlePetMenuFlag = x.m.battlePetMenuFlag
    /\ y.m.BattleCntDownFlag = x.m.BattleCntDownFlag /\ y.m.battlePetNoBak = x.m.battlePetNoBak
    /\ y.m.BattleBpFlag = x.m.BattleBpFlag /\ y.m.buttonA = x.m.buttonA
\* A click that gives no command, and one that gives the command cmd.
NoCommand(x, y, cmd) ==
    /\ y.s = x.s /\ y.m.battleMenuReturn = x.m.battleMenuReturn
    /\ y.m.battlePlayerEscFlag = x.m.battlePlayerEscFlag
    /\ y.m.hitBox => y.m.BattleCmdNo \in {cmd, x.m.BattleCmdNo}
    /\ y.m.hitBox /\ ~x.m.hitBox => y.m.BattleCmdNo = cmd
Commanded(x, y) ==
    /\ y.m.battleMenuReturn /\ ~y.m.battleTargetSelectFlag
    /\ y.s.idle = x.s.idle /\ y.s.late = x.s.late /\ y.s.ai = x.s.ai
    /\ \/ y.m.battlePlayerEscFlag = x.m.battlePlayerEscFlag /\ y.s.esc = x.s.esc
       \/ y.m.battlePlayerEscFlag /\ y.s.esc

LEMMA AskTargetGives ==
  ASSUME NEW x \in Input, NEW cmd \in {"player", "waza"}
  PROVE  LET y == AskTarget(x, cmd)
         IN  y \in Input /\ SameMenus(x, y) /\ NoCommand(x, y, cmd)
  <1> DEFINE y == AskTarget(x, cmd)
  <1>1. /\ y \in Input /\ y.s = x.s /\ x.m \in Menu
        /\ y.m = [x.m EXCEPT !.hitBox = TRUE, !.battleTargetSelectFlag = TRUE, !.BattleCmdNo = cmd]
    BY AskTargetIs DEF Input
  <1> HIDE DEF y
  <1>2. SameMenus(x, y)
    BY <1>1 DEF SameMenus, Menu
  <1>3. /\ y.m.BattleCmdNo = cmd /\ y.m.battleMenuReturn = x.m.battleMenuReturn
        /\ y.m.battlePlayerEscFlag = x.m.battlePlayerEscFlag
    BY <1>1 DEF Menu
  <1>4. NoCommand(x, y, cmd)
    BY <1>1, <1>3 DEF NoCommand
  <1> QED
    BY <1>1, <1>2, <1>4 DEF y

LEMMA ButtonOffGives ==
  ASSUME NEW x \in Input, NEW cmd
  PROVE  LET y == ButtonOff(x)
         IN  y \in Input /\ SameMenus(x, y) /\ NoCommand(x, y, cmd)
  <1> DEFINE y == ButtonOff(x)
  <1>1. /\ y \in Input /\ y.s = x.s /\ x.m \in Menu
        /\ y.m = [x.m EXCEPT !.hitBox = FALSE, !.battleTargetSelectFlag = FALSE,
                             !.BattleCmdNo = "none"]
    BY ButtonOffIs DEF Input
  <1> HIDE DEF y
  <1>2. SameMenus(x, y) /\ NoCommand(x, y, cmd)
    BY <1>1 DEF SameMenus, NoCommand, Menu
  <1> QED
    BY <1>1, <1>2 DEF y

LEMMA CommandGiven ==
  ASSUME NEW x \in Input, NEW who \in {"player", "pet"}
  PROVE  LET y == Return(Says(ButtonOff(x), who))
         IN  /\ y \in Input /\ SameMenus(x, y) /\ Commanded(x, y)
             /\ y.s = [x.s EXCEPT ![who] = @ + 1]
             /\ y.m.battlePlayerEscFlag = x.m.battlePlayerEscFlag
  <1> DEFINE b == ButtonOff(x)
             z == Says(b, who)
             y == Return(z)
  <1>1. /\ b \in Input /\ b.s = x.s /\ x.m \in Menu /\ x.s \in Sent
        /\ b.m = [x.m EXCEPT !.hitBox = FALSE, !.battleTargetSelectFlag = FALSE,
                             !.BattleCmdNo = "none"]
    BY ButtonOffIs DEF Input
  <1> HIDE DEF b
  <1>2. z \in Input /\ z.m = b.m /\ z.s = [b.s EXCEPT ![who] = @ + 1]
    BY <1>1, SaysIs
  <1> HIDE DEF z
  <1>3. y \in Input /\ y.s = z.s /\ y.m = [z.m EXCEPT !.battleMenuReturn = TRUE]
    BY <1>2, ReturnIs
  <1> HIDE DEF y
  <1>4. y.s = [x.s EXCEPT ![who] = @ + 1]
    BY <1>1, <1>2, <1>3
  <1>5. y.s.idle = x.s.idle /\ y.s.late = x.s.late /\ y.s.ai = x.s.ai /\ y.s.esc = x.s.esc
    BY <1>1, <1>4 DEF Sent
  <1>6. /\ SameMenus(x, y) /\ y.m.battlePlayerEscFlag = x.m.battlePlayerEscFlag
        /\ y.m.battleMenuReturn /\ ~y.m.battleTargetSelectFlag
    BY <1>1, <1>2, <1>3 DEF SameMenus, Menu
  <1> QED
    BY <1>3, <1>4, <1>5, <1>6 DEF Commanded, y, z, b

LEMMA PlayerClickGives ==
  ASSUME NEW x \in Input, NEW click
  PROVE  LET y == PlayerClick(x, click)
         IN  /\ y \in Input /\ SameMenus(x, y)
             /\ \/ NoCommand(x, y, "player")
                \/ Commanded(x, y) /\ y.s.player = x.s.player + 1 /\ y.s.pet = x.s.pet
  <1> DEFINE y == PlayerClick(x, click)
             c == Return(Says(ButtonOff(x), "player"))
             e == [c EXCEPT !.m.battlePlayerEscFlag = TRUE, !.s.esc = TRUE]
  <1>1. CASE click = "command"
    BY <1>1, AskTargetGives DEF PlayerClick
  <1>2. CASE click = "off"
    BY <1>2, ButtonOffGives DEF PlayerClick
  <1>3. /\ c \in Input /\ SameMenus(x, c) /\ Commanded(x, c)
        /\ c.s = [x.s EXCEPT !.player = @ + 1]
    BY CommandGiven
  <1>4. c.s.player = x.s.player + 1 /\ c.s.pet = x.s.pet
    BY <1>3 DEF Input, Sent
  <1>5. CASE click = "now"
    BY <1>3, <1>4, <1>5 DEF PlayerClick
  <1>6. CASE click = "escape"
    <2>1. y = e
      BY <1>6 DEF PlayerClick
    <2> HIDE DEF c, y
    <2>2. e \in Input
      BY <1>3 DEF Input, Menu, Sent
    <2>3. /\ e.m = [c.m EXCEPT !.battlePlayerEscFlag = TRUE] /\ e.s = [c.s EXCEPT !.esc = TRUE]
          /\ c.m \in Menu /\ c.s \in Sent
      BY <1>3 DEF Input
    <2> HIDE DEF e
    <2>4. SameMenus(x, e)
      BY <1>3, <2>3 DEF SameMenus, Menu
    <2>5. Commanded(x, e) /\ e.s.player = c.s.player /\ e.s.pet = c.s.pet
      BY <1>3, <2>3 DEF Commanded, Menu, Sent
    <2> QED
      BY <1>4, <2>1, <2>2, <2>4, <2>5 DEF y
  <1>7. CASE click \notin {"command", "off", "now", "escape"}
    <2>1. y = x
      BY <1>7 DEF PlayerClick
    <2>2. SameMenus(x, x) /\ NoCommand(x, x, "player")
      BY DEF SameMenus, NoCommand
    <2> QED
      BY <2>1, <2>2
  <1> QED
    BY <1>1, <1>2, <1>5, <1>6, <1>7

LEMMA PetClickGives ==
  ASSUME NEW x \in Input, NEW click
  PROVE  LET y == PetClick(x, click)
         IN  /\ y \in Input /\ SameMenus(x, y)
             /\ \/ NoCommand(x, y, "waza")
                \/ Commanded(x, y) /\ y.s.player = x.s.player /\ y.s.pet = x.s.pet + 1
                \/ /\ ~turn.skills /\ y.s = [x.s EXCEPT !.pet = @ + 1, !.idle = TRUE]
                   /\ ~y.m.hitBox /\ y.m.battleMenuReturn = x.m.battleMenuReturn
                   /\ y.m.battlePlayerEscFlag = x.m.battlePlayerEscFlag
  <1> DEFINE y == PetClick(x, click)
             c == Return(Says(ButtonOff(x), "pet"))
             b == ButtonOff(x)
  <1>1. CASE click = "waza" /\ turn.skills
    BY <1>1, AskTargetGives DEF PetClick
  <1>2. CASE click = "off"
    BY <1>2, ButtonOffGives DEF PetClick
  <1>3. CASE click = "wazaNow" /\ turn.skills
    <2>1. /\ c \in Input /\ SameMenus(x, c) /\ Commanded(x, c)
          /\ c.s = [x.s EXCEPT !.pet = @ + 1]
      BY CommandGiven
    <2>2. c.s.pet = x.s.pet + 1 /\ c.s.player = x.s.player
      BY <2>1 DEF Input, Sent
    <2> QED
      BY <1>3, <2>1, <2>2 DEF PetClick
  <1>4. CASE click = "wazaMap" /\ ~turn.skills /\ x.s.pet < MaxIdle
    <2>1. y = PetIdles(b)
      BY <1>4 DEF PetClick
    <2>2. /\ b \in Input /\ b.s = x.s /\ x.m \in Menu
          /\ b.m = [x.m EXCEPT !.hitBox = FALSE, !.battleTargetSelectFlag = FALSE,
                               !.BattleCmdNo = "none"]
      BY ButtonOffIs DEF Input
    <2> HIDE DEF b, y
    <2>3. y \in Input /\ y.m = b.m /\ y.s = [x.s EXCEPT !.pet = @ + 1, !.idle = TRUE]
      BY <2>1, <2>2, PetIdlesIs
    <2>4. /\ SameMenus(x, y) /\ ~y.m.hitBox /\ y.m.battleMenuReturn = x.m.battleMenuReturn
          /\ y.m.battlePlayerEscFlag = x.m.battlePlayerEscFlag
      BY <2>2, <2>3 DEF SameMenus, Menu
    <2> QED
      BY <1>4, <2>3, <2>4 DEF y
  <1>5. CASE /\ click # "off" /\ ~(click = "waza" /\ turn.skills)
             /\ ~(click = "wazaNow" /\ turn.skills)
             /\ ~(click = "wazaMap" /\ ~turn.skills /\ x.s.pet < MaxIdle)
    <2>1. y = x
      BY <1>5 DEF PetClick
    <2>2. SameMenus(x, x) /\ NoCommand(x, x, "waza")
      BY DEF SameMenus, NoCommand
    <2> QED
      BY <2>1, <2>2
  <1> QED
    BY <1>1, <1>2, <1>3, <1>4, <1>5

\* The blocks of BattleMenuProc, one after the other: what each leaves for the
\* next in any case, and how the stage of an input goes on.
Noted(x) == "PET_MENU_NON" \in x.m.BattleBpFlag => turn.petNon

LEMMA TurnStartKeeps ==
  ASSUME NEW x \in Input, x.m.SubProcNo = CMD_INPUT, ~x.m.battlePetMenuFlag, Noted(x),
         turn \in Turns
  PROVE  LET y == TurnStart(x)
         IN  /\ y \in Input /\ y.m.SubProcNo = CMD_INPUT /\ Noted(y)
             /\ y.m.battlePetMenuFlag => y.m.buttonA = ButtonSteps
             /\ Begins(x) /\ ~turn.watch => PlayerChooses(y) \/ PetIsNext(y)
             /\ ~x.m.battleMenuFlag2 => y = x
  <1> DEFINE y == TurnStart(x)
             b == [x EXCEPT !.m.battlePlayerEscFlag = FALSE,
                            !.m.BattleCntDownFlag = TRUE, !.m.buttonA = ButtonSteps,
                            !.m.battlePetNoBak = turn.battlePetNo,
                            !.m.battleMenuFlag2 = FALSE,
                            !.m.BattleBpFlag = @ \ {"PLAYER_MENU_NON"}]
  <1>1. CASE ~x.m.battleMenuFlag2
    <2>1. y = x
      BY <1>1 DEF TurnStart
    <2> QED
      BY <1>1, <2>1 DEF Begins
  <1>2. CASE x.m.battleMenuFlag2
    <2>1. x.m \in Menu /\ x.s \in Sent /\ turn \in Turn
      BY DEF Input, Turns
    <2>2. b \in Input
      <3>1. /\ x.m.BattleBpFlag \ {"PLAYER_MENU_NON"} \in SUBSET {"PLAYER_MENU_NON", "PET_MENU_NON"}
            /\ turn.battlePetNo \in {-2, -1, 0} /\ ButtonSteps \in 0..ButtonSteps + 1
        BY <2>1, StepsAssumption DEF Menu, Turn
      <3> QED
        BY <2>1, <3>1 DEF Input, Menu
    <2>3. /\ b.s = x.s
          /\ b.m = [x.m EXCEPT !.battlePlayerEscFlag = FALSE,
                               !.BattleCntDownFlag = TRUE, !.buttonA = ButtonSteps,
                               !.battlePetNoBak = turn.battlePetNo,
                               !.battleMenuFlag2 = FALSE,
                               !.BattleBpFlag = @ \ {"PLAYER_MENU_NON"}]
      BY DEF Input
    <2> HIDE DEF b
    <2>4. /\ ~b.m.battlePlayerEscFlag /\ b.m.BattleCntDownFlag /\ b.m.buttonA = ButtonSteps
          /\ b.m.battlePetNoBak = turn.battlePetNo /\ ~b.m.battleMenuFlag2
          /\ b.m.BattleBpFlag = x.m.BattleBpFlag \ {"PLAYER_MENU_NON"}
          /\ b.m.SubProcNo = CMD_INPUT /\ ~b.m.battlePetMenuFlag
          /\ b.m.battleMenuFlag = x.m.battleMenuFlag /\ b.m.hitBox = x.m.hitBox
      BY <2>1, <2>3 DEF Menu
    <2>5. CASE Non(x, "PLAYER_MENU_NON") \/ ~turn.alive
      <3> DEFINE c == IF Non(x, "PLAYER_MENU_NON") THEN Says(b, "player") ELSE b
                 d == [c EXCEPT !.m.battlePetMenuFlag = TRUE]
      <3>1. y = d
        <4>1. CASE Non(x, "PLAYER_MENU_NON")
          <5>1. c = Says(b, "player")
            BY <4>1
          <5>2. y = [Says(b, "player") EXCEPT !.m.battlePetMenuFlag = TRUE]
            BY <1>2, <4>1, Zenon DEF TurnStart, b
          <5> QED
            BY <5>1, <5>2, Zenon
        <4>2. CASE ~Non(x, "PLAYER_MENU_NON")
          BY <1>2, <2>5, <4>2, Zenon DEF TurnStart, b
        <4> QED
          BY <4>1, <4>2
      <3>2. /\ c \in Input /\ c.m = b.m
            /\ c.s = IF Non(x, "PLAYER_MENU_NON") THEN [x.s EXCEPT !.player = @ + 1] ELSE x.s
        BY <2>2, <2>3, SaysIs
      <3> HIDE DEF c
      <3>3. d \in Input /\ d.m = [b.m EXCEPT !.battlePetMenuFlag = TRUE] /\ d.s = c.s
        BY <3>2 DEF Input, Menu
      <3> HIDE DEF d, y
      <3>4. /\ d.m.battlePetMenuFlag /\ d.m.buttonA = ButtonSteps /\ d.m.SubProcNo = CMD_INPUT
            /\ d.m.BattleBpFlag = x.m.BattleBpFlag \ {"PLAYER_MENU_NON"}
            /\ ~d.m.battlePlayerEscFlag /\ d.m.BattleCntDownFlag
            /\ d.m.battlePetNoBak = turn.battlePetNo /\ ~d.m.battleMenuFlag2
            /\ d.m.battleMenuFlag = x.m.battleMenuFlag /\ d.m.hitBox = x.m.hitBox
        BY <2>2, <2>4, <3>3 DEF Menu, Input
      <3>5. ASSUME Begins(x), ~turn.watch
            PROVE  PetIsNext(d)
        <4>1. /\ d.s.player =< 1 /\ (turn.alive => d.s.player = 1) /\ d.s.pet = 0
              /\ ~d.s.idle
          BY <2>1, <2>5, <3>2, <3>3, <3>5 DEF Begins, NothingSent
        <4> QED
          BY <3>4, <3>5, <4>1 DEF PetIsNext, Begun, Begins, IdleExcused
      <3>6. Noted(d)
        BY <3>4 DEF Noted
      <3> QED
        BY <1>2, <3>1, <3>3, <3>4, <3>5, <3>6 DEF y
    <2>6. CASE ~Non(x, "PLAYER_MENU_NON") /\ turn.alive
      <3> DEFINE c == ClearBox(b)
                 d == [c EXCEPT !.m.battleMenuFlag = @ \cup {"MENU"}, !.m.battleMenuReturn = FALSE]
      <3>1. y = d
        BY <1>2, <2>6 DEF TurnStart, b, Non
      <3>2. c \in Input /\ c.s = x.s /\ c.m = [b.m EXCEPT !.hitBox = FALSE]
        BY <2>2, <2>3, ClearBoxIs
      <3> HIDE DEF c
      <3>3. /\ d \in Input /\ d.s = c.s
            /\ d.m = [c.m EXCEPT !.battleMenuFlag = @ \cup {"MENU"}, !.battleMenuReturn = FALSE]
        BY <3>2 DEF Input, Menu
      <3> HIDE DEF d, y
      <3>4. /\ ~d.m.battlePetMenuFlag /\ d.m.SubProcNo = CMD_INPUT
            /\ d.m.BattleBpFlag = x.m.BattleBpFlag \ {"PLAYER_MENU_NON"}
            /\ ~d.m.battlePlayerEscFlag /\ d.m.BattleCntDownFlag
            /\ d.m.battlePetNoBak = turn.battlePetNo /\ ~d.m.battleMenuFlag2
            /\ d.m.battleMenuFlag = x.m.battleMenuFlag \cup {"MENU"} /\ ~d.m.hitBox
            /\ ~d.m.battleMenuReturn
        BY <2>2, <2>4, <3>2, <3>3 DEF Menu, Input
      <3>5. ASSUME Begins(x), ~turn.watch
            PROVE  PlayerChooses(d)
        <4>1. d.s.player = 0 /\ d.s.pet = 0 /\ ~d.s.idle
          BY <3>2, <3>3, <3>5 DEF Begins, NothingSent
        <4> QED
          BY <2>6, <3>4, <3>5, <4>1 DEF PlayerChooses, Begun, Begins, IdleExcused
      <3>6. Noted(d)
        BY <3>4 DEF Noted
      <3> QED
        BY <1>2, <3>1, <3>3, <3>4, <3>5, <3>6 DEF y
    <2> QED
      BY <2>5, <2>6 DEF Non
  <1> QED
    BY <1>1, <1>2

LEMMA PlayerMenuKeeps ==
  ASSUME NEW x \in Input, NEW click, x.m.SubProcNo = CMD_INPUT, Noted(x),
         x.m.battlePetMenuFlag => x.m.buttonA = ButtonSteps, turn \in Turns
  PROVE  LET y == PlayerMenu(x, click)
         IN  /\ y \in Input /\ Noted(y)
             /\ \/ y.m.SubProcNo = CMD_INPUT
                \/ /\ y.m.SubProcNo = RECEIVE_MOVIE
                   /\ ~y.m.battlePetMenuFlag /\ y.m.battleMenuFlag = {}
             /\ PlayerChooses(x) => PlayerChooses(y) \/ PlayerChose(y)
             /\ PlayerChose(x) => PlayerChose(y) \/ PetIsNext(y) \/ Given(y)
             /\ "MENU" \notin x.m.battleMenuFlag => y = x
  <1> DEFINE y == PlayerMenu(x, click)
  <1> USE DEF CMD_INPUT, RECEIVE_MOVIE
  <1>1. x.m \in Menu /\ x.s \in Sent /\ turn \in Turn
    BY DEF Input, Turns
  <1>2. CASE "MENU" \notin x.m.battleMenuFlag
    <2>1. y = x
      BY <1>2 DEF PlayerMenu
    <2> QED
      BY <1>2, <2>1 DEF PlayerChooses, PlayerChose
  <1>3. CASE "MENU" \in x.m.battleMenuFlag /\ ~x.m.battleMenuReturn
    <2> DEFINE o == Opening(x)
    <2>1. y = PlayerClick(o, click)
      BY <1>3 DEF PlayerMenu
    <2>2. /\ o \in Input /\ o.s = x.s
          /\ o.m = [x.m EXCEPT !.buttonA = IF @ > 0 THEN @ - 1 ELSE @]
      BY OpeningIs
    <2> HIDE DEF o
    <2>3. PlayerChooses(x) => PlayerChooses(o)
      BY <1>1, <2>2 DEF PlayerChooses, Begun, IdleExcused, Menu
    <2>4. o.m.SubProcNo = CMD_INPUT /\ o.m.BattleBpFlag = x.m.BattleBpFlag
      BY <1>1, <2>2 DEF Menu
    <2>5. /\ y \in Input /\ SameMenus(o, y)
          /\ \/ NoCommand(o, y, "player")
             \/ Commanded(o, y) /\ y.s.player = o.s.player + 1 /\ y.s.pet = o.s.pet
      BY <2>1, <2>2, PlayerClickGives
    <2> HIDE DEF y
    <2>6. ASSUME PlayerChooses(o)
          PROVE  PlayerChooses(y) \/ PlayerChose(y)
      <3>1. CASE NoCommand(o, y, "player")
        BY <2>5, <2>6, <3>1
           DEF PlayerChooses, Begun, IdleExcused, SameMenus, NoCommand
      <3>2. CASE Commanded(o, y) /\ y.s.player = o.s.player + 1 /\ y.s.pet = o.s.pet
        BY <2>5, <2>6, <3>2
           DEF PlayerChooses, PlayerChose, Begun, IdleExcused, SameMenus, Commanded
      <3> QED
        BY <2>5, <3>1, <3>2
    <2>7. ~PlayerChose(x)
      BY <1>3 DEF PlayerChose
    <2>8. y.m.SubProcNo = CMD_INPUT /\ Noted(y)
      BY <2>4, <2>5 DEF SameMenus, Noted
    <2> QED
      BY <1>3, <2>3, <2>5, <2>6, <2>7, <2>8 DEF y
  <1>4. CASE "MENU" \in x.m.battleMenuFlag /\ x.m.battleMenuReturn /\ x.m.buttonA =< ButtonSteps
    <2>1. y = Closing(x)
      BY <1>4 DEF PlayerMenu
    <2>2. y \in Input /\ y.s = x.s /\ y.m = [x.m EXCEPT !.buttonA = @ + 1]
      BY <1>4, <2>1, ClosingIs
    <2> HIDE DEF y
    <2>3. PlayerChose(x) => PlayerChose(y)
      BY <1>1, <2>2 DEF PlayerChose, Begun, IdleExcused, Menu
    <2>4. y.m.SubProcNo = CMD_INPUT /\ y.m.BattleBpFlag = x.m.BattleBpFlag
      BY <1>1, <2>2 DEF Menu
    <2>5. ~PlayerChooses(x)
      BY <1>4 DEF PlayerChooses
    <2> QED
      BY <1>4, <2>2, <2>3, <2>4, <2>5 DEF y, Noted
  <1>5. CASE "MENU" \in x.m.battleMenuFlag /\ x.m.battleMenuReturn /\ ~(x.m.buttonA =< ButtonSteps)
    <2> DEFINE b == ButtonOff(x)
               c == [b EXCEPT !.m.battleMenuFlag = {}]
               d == [c EXCEPT !.m.battlePetMenuFlag = TRUE]
    <2>1. /\ b \in Input /\ b.s = x.s
          /\ b.m = [x.m EXCEPT !.hitBox = FALSE, !.battleTargetSelectFlag = FALSE,
                               !.BattleCmdNo = "none"]
      BY ButtonOffIs
    <2>2. y = IF c.m.BattleCntDownFlag THEN d ELSE Advance(c)
      BY <1>5 DEF PlayerMenu
    <2> HIDE DEF b, y
    <2>3. c \in Input /\ c.s = b.s /\ c.m = [b.m EXCEPT !.battleMenuFlag = {}]
      BY <2>1 DEF Input, Menu
    <2> HIDE DEF c
    <2>4. /\ c.m.battleMenuFlag = {} /\ ~c.m.hitBox /\ c.m.SubProcNo = CMD_INPUT
          /\ c.m.BattleBpFlag = x.m.BattleBpFlag
          /\ c.m.battlePetMenuFlag = x.m.battlePetMenuFlag
          /\ c.m.BattleCntDownFlag = x.m.BattleCntDownFlag
          /\ c.m.battleMenuFlag2 = x.m.battleMenuFlag2
          /\ c.m.battlePetNoBak = x.m.battlePetNoBak
          /\ c.m.battlePlayerEscFlag = x.m.battlePlayerEscFlag
      BY <1>1, <2>1, <2>3 DEF Menu
    <2>5. c.s = x.s /\ ~c.m.battlePetMenuFlag /\ c.m \in Menu
      BY <1>1, <1>5, <2>1, <2>3, <2>4, StepsAssumption DEF Menu, Input
    <2>6. CASE c.m.BattleCntDownFlag
      <3>1. d \in Input /\ d.s = c.s /\ d.m = [c.m EXCEPT !.battlePetMenuFlag = TRUE]
        BY <2>3 DEF Input, Menu
      <3> HIDE DEF d
      <3>2. /\ d.m.battleMenuFlag = {} /\ ~d.m.hitBox /\ d.m.SubProcNo = CMD_INPUT
            /\ d.m.BattleBpFlag = x.m.BattleBpFlag
            /\ d.m.battlePetMenuFlag
            /\ d.m.BattleCntDownFlag
            /\ d.m.battleMenuFlag2 = x.m.battleMenuFlag2
            /\ d.m.battlePetNoBak = x.m.battlePetNoBak
            /\ d.m.battlePlayerEscFlag = x.m.battlePlayerEscFlag
        BY <2>4, <2>5, <2>6, <3>1 DEF Menu
      <3>3. ASSUME PlayerChose(x)
            PROVE  PetIsNext(d)
        BY <2>4, <2>5, <2>6, <3>1, <3>2, <3>3
          DEF PlayerChose, PetIsNext, Begun, IdleExcused
      <3>4. Noted(d)
        BY <3>2 DEF Noted
      <3>5. ~PlayerChooses(x)
        BY <1>5 DEF PlayerChooses
      <3> QED
        BY <1>5, <2>2, <2>6, <3>1, <3>2, <3>3, <3>4, <3>5 DEF y
    <2>7. CASE ~c.m.BattleCntDownFlag
      <3> DEFINE e == Advance(c)
      <3>1. e \in Input /\ e.s = c.s /\ e.m = [c.m EXCEPT !.SubProcNo = @ + 1]
        BY <2>3, <2>4, AdvanceIs
      <3> HIDE DEF e
      <3>2. /\ e.m.battleMenuFlag = {} /\ ~e.m.hitBox /\ e.m.SubProcNo = RECEIVE_MOVIE
            /\ e.m.BattleBpFlag = x.m.BattleBpFlag
            /\ ~e.m.battlePetMenuFlag
        BY <2>4, <2>5, <3>1 DEF Menu
      <3>3. ASSUME PlayerChose(x)
            PROVE  Given(e)
        BY <1>1, <2>4, <2>5, <2>7, <3>1, <3>2, <3>3
          DEF PlayerChose, Given, Begun, IdleExcused, PetCanAct
      <3>4. Noted(e)
        BY <3>2 DEF Noted
      <3>5. ~PlayerChooses(x)
        BY <1>5 DEF PlayerChooses
      <3> QED
        BY <1>5, <2>2, <2>7, <3>1, <3>2, <3>3, <3>4, <3>5 DEF y, e
    <2> QED
      BY <2>6, <2>7
  <1> QED
    BY <1>2, <1>3, <1>4, <1>5

LEMMA OpenPetMenuKeeps ==
  ASSUME NEW x \in Input, Noted(x), turn \in Turns,
         \/ x.m.SubProcNo = CMD_INPUT
         \/ /\ x.m.SubProcNo = RECEIVE_MOVIE
            /\ ~x.m.battlePetMenuFlag /\ x.m.battleMenuFlag = {}
  PROVE  LET y == OpenPetMenu(x)
         IN  /\ y \in Input /\ Noted(y) /\ ~y.m.battlePetMenuFlag
             /\ \/ y.m.SubProcNo = CMD_INPUT
                \/ /\ y.m.SubProcNo = RECEIVE_MOVIE
                   /\ y.m.battleMenuFlag = {} \/ y.m.buttonA = ButtonSteps
             /\ PetIsNext(x) => PetChooses(y) \/ Given(y)
             /\ ~x.m.battlePetMenuFlag => y = x
  <1> DEFINE y == OpenPetMenu(x)
             Last(c) == [c EXCEPT !.m.BattleBpFlag = @ \ {"PET_MENU_NON"},
                                  !.m.battlePetMenuFlag = FALSE, !.m.buttonA = ButtonSteps]
             k == CASE x.m.battlePetNoBak =< -1 \/ ~turn.petAlive ->
                         Advance([x EXCEPT !.m.BattleCntDownFlag = FALSE])
                    [] /\ x.m.battlePetNoBak > -1 /\ turn.petAlive
                       /\ Non(x, "PET_MENU_NON") \/ ~turn.alive \/ x.m.battlePlayerEscFlag ->
                         Advance([PetIdles(x) EXCEPT !.m.BattleCntDownFlag = FALSE])
                    [] OTHER ->
                         [ClearBox(x) EXCEPT !.m.battleMenuFlag = @ \cup {"PET"},
                                             !.m.battleMenuReturn = FALSE]
  <1> USE DEF CMD_INPUT, RECEIVE_MOVIE
  <1>1. x.m \in Menu /\ x.s \in Sent /\ turn \in Turn
    BY DEF Input, Turns
  <1>2. ASSUME NEW c \in Input
        PROVE  /\ Last(c) \in Input /\ Last(c).s = c.s /\ ~Last(c).m.battlePetMenuFlag
               /\ Last(c).m.buttonA = ButtonSteps
               /\ Last(c).m.BattleBpFlag = c.m.BattleBpFlag \ {"PET_MENU_NON"}
               /\ Last(c).m.SubProcNo = c.m.SubProcNo
               /\ Last(c).m.battleMenuFlag = c.m.battleMenuFlag
               /\ Last(c).m.battleMenuFlag2 = c.m.battleMenuFlag2
               /\ Last(c).m.battleMenuReturn = c.m.battleMenuReturn
               /\ Last(c).m.hitBox = c.m.hitBox
               /\ Last(c).m.BattleCntDownFlag = c.m.BattleCntDownFlag
               /\ Last(c).m.battlePetNoBak = c.m.battlePetNoBak
               /\ Last(c).m.battlePlayerEscFlag = c.m.battlePlayerEscFlag
    <2>1. /\ c.m \in Menu /\ ButtonSteps \in 0..ButtonSteps + 1
          /\ c.m.BattleBpFlag \ {"PET_MENU_NON"} \in SUBSET {"PLAYER_MENU_NON", "PET_MENU_NON"}
      BY StepsAssumption DEF Input, Menu
    <2> DEFINE z == Last(c)
    <2>2. z \in Input
      BY <2>1 DEF Input, Menu
    <2>3. /\ z.s = c.s
          /\ z.m = [c.m EXCEPT !.BattleBpFlag = @ \ {"PET_MENU_NON"},
                               !.battlePetMenuFlag = FALSE, !.buttonA = ButtonSteps]
      BY DEF Input
    <2> HIDE DEF z
    <2>4. /\ ~z.m.battlePetMenuFlag /\ z.m.buttonA = ButtonSteps
          /\ z.m.BattleBpFlag = c.m.BattleBpFlag \ {"PET_MENU_NON"}
          /\ z.m.SubProcNo = c.m.SubProcNo
          /\ z.m.battleMenuFlag = c.m.battleMenuFlag
          /\ z.m.battleMenuFlag2 = c.m.battleMenuFlag2
          /\ z.m.battleMenuReturn = c.m.battleMenuReturn
          /\ z.m.hitBox = c.m.hitBox
          /\ z.m.BattleCntDownFlag = c.m.BattleCntDownFlag
          /\ z.m.battlePetNoBak = c.m.battlePetNoBak
          /\ z.m.battlePlayerEscFlag = c.m.battlePlayerEscFlag
      BY <2>1, <2>3 DEF Menu
    <2> QED
      BY <2>2, <2>3, <2>4 DEF z
  <1>3. x.m.battlePetMenuFlag => y = Last(k)
    BY Zenon DEF OpenPetMenu
  <1>4. CASE ~x.m.battlePetMenuFlag
    <2>1. y = x
      BY <1>4 DEF OpenPetMenu
    <2> QED
      BY <1>4, <2>1 DEF PetIsNext
  <1>5. CASE x.m.battlePetMenuFlag /\ (x.m.battlePetNoBak =< -1 \/ ~turn.petAlive)
    <2> DEFINE b == [x EXCEPT !.m.BattleCntDownFlag = FALSE]
               a == Advance(b)
    <2>1. y = Last(a)
      <3>1. ~(x.m.battlePetNoBak > -1 /\ turn.petAlive)
        BY <1>1, <1>5 DEF Menu
      <3>2. k = a
        BY <1>5, <3>1
      <3> QED
        BY <1>5, <1>3, <3>2, Zenon
    <2>2. b \in Input /\ b.s = x.s /\ b.m = [x.m EXCEPT !.BattleCntDownFlag = FALSE]
      BY DEF Input, Menu
    <2> HIDE DEF b, y
    <2>3. /\ b.m.SubProcNo = CMD_INPUT /\ b.m.battleMenuFlag = x.m.battleMenuFlag
          /\ b.m.hitBox = x.m.hitBox /\ b.m.BattleBpFlag = x.m.BattleBpFlag /\ b.m \in Menu
      BY <1>1, <1>5, <2>2 DEF Menu, Input
    <2>4. a \in Input /\ a.s = b.s /\ a.m = [b.m EXCEPT !.SubProcNo = @ + 1]
      BY <2>2, <2>3, AdvanceIs
    <2> HIDE DEF a, Last
    <2>5. /\ a.m.SubProcNo = RECEIVE_MOVIE /\ a.m.battleMenuFlag = x.m.battleMenuFlag
          /\ a.m.hitBox = x.m.hitBox /\ a.m.BattleBpFlag = x.m.BattleBpFlag
      BY <2>3, <2>4 DEF Menu
    <2>6. /\ y \in Input /\ y.s = x.s /\ ~y.m.battlePetMenuFlag
          /\ y.m.SubProcNo = RECEIVE_MOVIE /\ y.m.buttonA = ButtonSteps
          /\ y.m.battleMenuFlag = x.m.battleMenuFlag /\ y.m.hitBox = x.m.hitBox
          /\ y.m.BattleBpFlag = x.m.BattleBpFlag \ {"PET_MENU_NON"}
      BY <1>2, <2>1, <2>2, <2>4, <2>5
    <2>7. Noted(y)
      BY <2>6 DEF Noted
    <2>8. ASSUME PetIsNext(x)
          PROVE  Given(y)
      BY <1>1, <1>5, <2>6, <2>8 DEF PetIsNext, Given, Begun, IdleExcused, PetCanAct
    <2> QED
      BY <1>5, <2>6, <2>7, <2>8 DEF y
  <1>6. CASE /\ x.m.battlePetMenuFlag /\ x.m.battlePetNoBak > -1 /\ turn.petAlive
             /\ Non(x, "PET_MENU_NON") \/ ~turn.alive \/ x.m.battlePlayerEscFlag
    <2> DEFINE i == PetIdles(x)
               b == [i EXCEPT !.m.BattleCntDownFlag = FALSE]
               a == Advance(b)
    <2>1. ~(x.m.battlePetNoBak =< -1 \/ ~turn.petAlive)
      BY <1>1, <1>6 DEF Menu
    <2>2. y = Last(a)
      <3>1. k = a
        BY <1>6, <2>1
      <3> QED
        BY <1>6, <1>3, <3>1, Zenon
    <2>3. i \in Input /\ i.m = x.m /\ i.s = [x.s EXCEPT !.pet = @ + 1, !.idle = TRUE]
      BY PetIdlesIs
    <2> HIDE DEF i
    <2>4. b \in Input /\ b.s = i.s /\ b.m = [i.m EXCEPT !.BattleCntDownFlag = FALSE]
      BY <2>3 DEF Input, Menu
    <2> HIDE DEF b, y
    <2>5. /\ b.m.SubProcNo = CMD_INPUT /\ b.m.battleMenuFlag = x.m.battleMenuFlag
          /\ b.m.hitBox = x.m.hitBox /\ b.m.BattleBpFlag = x.m.BattleBpFlag /\ b.m \in Menu
      <3>1. x.m.SubProcNo = CMD_INPUT /\ b.m \in Menu
        BY <1>6, <2>4 DEF Input
      <3>2. b.m = [x.m EXCEPT !.BattleCntDownFlag = FALSE]
        BY <2>3, <2>4
      <3> QED
        BY <1>1, <3>1, <3>2 DEF Menu
    <2>6. a \in Input /\ a.s = b.s /\ a.m = [b.m EXCEPT !.SubProcNo = @ + 1]
      BY <2>4, <2>5, AdvanceIs
    <2> HIDE DEF a, Last
    <2>7. /\ a.m.SubProcNo = RECEIVE_MOVIE /\ a.m.battleMenuFlag = x.m.battleMenuFlag
          /\ a.m.hitBox = x.m.hitBox /\ a.m.BattleBpFlag = x.m.BattleBpFlag
      BY <2>5, <2>6 DEF Menu
    <2>8. /\ y \in Input /\ y.s = [x.s EXCEPT !.pet = @ + 1, !.idle = TRUE]
          /\ ~y.m.battlePetMenuFlag
          /\ y.m.SubProcNo = RECEIVE_MOVIE /\ y.m.buttonA = ButtonSteps
          /\ y.m.battleMenuFlag = x.m.battleMenuFlag /\ y.m.hitBox = x.m.hitBox
          /\ y.m.BattleBpFlag = x.m.BattleBpFlag \ {"PET_MENU_NON"}
      BY <1>2, <2>2, <2>3, <2>4, <2>6, <2>7
    <2>9. Noted(y)
      BY <2>8 DEF Noted
    <2>10. ASSUME PetIsNext(x)
          PROVE  Given(y)
      <3>1. /\ y.s.player = x.s.player /\ y.s.pet = 1 /\ y.s.esc = x.s.esc
            /\ y.s.late = x.s.late /\ y.s.ai = x.s.ai
        BY <1>1, <2>8, <2>10 DEF PetIsNext, Sent
      <3>2. IdleExcused(y)
        BY <1>6, <2>10, <3>1 DEF IdleExcused, PetIsNext, Begun, Noted, Non
      <3> QED
        BY <1>1, <1>6, <2>8, <2>10, <3>1, <3>2 DEF PetIsNext, Given, Begun, PetCanAct
    <2> QED
      BY <1>6, <2>8, <2>9, <2>10 DEF y
  <1>7. CASE /\ x.m.battlePetMenuFlag /\ x.m.battlePetNoBak > -1 /\ turn.petAlive
             /\ ~Non(x, "PET_MENU_NON") /\ turn.alive /\ ~x.m.battlePlayerEscFlag
    <2> DEFINE b == ClearBox(x)
               a == [b EXCEPT !.m.battleMenuFlag = @ \cup {"PET"}, !.m.battleMenuReturn = FALSE]
    <2>1. ~(x.m.battlePetNoBak =< -1 \/ ~turn.petAlive)
      BY <1>1, <1>7 DEF Menu
    <2>2. y = Last(a)
      <3>1. k = a
        BY <1>7, <2>1 DEF Non
      <3> QED
        BY <1>7, <1>3, <3>1, Zenon
    <2>3. b \in Input /\ b.s = x.s /\ b.m = [x.m EXCEPT !.hitBox = FALSE]
      BY ClearBoxIs
    <2> HIDE DEF b, y
    <2>4. /\ a \in Input /\ a.s = x.s
          /\ a.m = [b.m EXCEPT !.battleMenuFlag = @ \cup {"PET"}, !.battleMenuReturn = FALSE]
      BY <2>3 DEF Input, Menu
    <2> HIDE DEF a, Last
    <2>5. /\ a.m.SubProcNo = CMD_INPUT /\ a.m.battleMenuFlag = x.m.battleMenuFlag \cup {"PET"}
          /\ ~a.m.hitBox /\ a.m.BattleBpFlag = x.m.BattleBpFlag /\ ~a.m.battleMenuReturn
          /\ a.m.battlePetNoBak = x.m.battlePetNoBak
          /\ a.m.BattleCntDownFlag = x.m.BattleCntDownFlag
          /\ a.m.battleMenuFlag2 = x.m.battleMenuFlag2
          /\ a.m.battlePlayerEscFlag = x.m.battlePlayerEscFlag
      BY <1>1, <1>7, <2>3, <2>4 DEF Menu
    <2>6. /\ y \in Input /\ y.s = x.s /\ ~y.m.battlePetMenuFlag
          /\ y.m.BattleBpFlag = x.m.BattleBpFlag \ {"PET_MENU_NON"}
          /\ y.m.SubProcNo = CMD_INPUT /\ y.m.battleMenuFlag = x.m.battleMenuFlag \cup {"PET"}
          /\ ~y.m.hitBox /\ ~y.m.battleMenuReturn
          /\ y.m.battlePetNoBak = x.m.battlePetNoBak
          /\ y.m.BattleCntDownFlag = x.m.BattleCntDownFlag
          /\ y.m.battleMenuFlag2 = x.m.battleMenuFlag2
          /\ y.m.battlePlayerEscFlag = x.m.battlePlayerEscFlag
      BY <1>2, <2>2, <2>4, <2>5
    <2>7. Noted(y)
      BY <2>6 DEF Noted
    <2>8. ASSUME PetIsNext(x)
          PROVE  PetChooses(y)
      <3>1. PetCanAct
        BY <1>1, <1>7, <2>8 DEF PetIsNext, Begun, PetCanAct, Turn
      <3> QED
        BY <1>7, <2>6, <2>8, <3>1 DEF PetIsNext, PetChooses, Begun, IdleExcused
    <2> QED
      BY <1>7, <2>6, <2>7, <2>8 DEF y
  <1> QED
    BY <1>1, <1>4, <1>5, <1>6, <1>7 DEF Menu

LEMMA PetMenuKeeps ==
  ASSUME NEW x \in Input, NEW click, Noted(x), ~x.m.battlePetMenuFlag,
         \/ x.m.SubProcNo = CMD_INPUT
         \/ /\ x.m.SubProcNo = RECEIVE_MOVIE
            /\ x.m.battleMenuFlag = {} \/ x.m.buttonA = ButtonSteps
  PROVE  LET y == PetMenu(x, click)
         IN  /\ y \in Input /\ Noted(y) /\ ~y.m.battlePetMenuFlag
             /\ y.m.SubProcNo \in {CMD_INPUT, RECEIVE_MOVIE}
             /\ PetChooses(x) => PetChooses(y) \/ PetChose(y)
             /\ PetChose(x) => PetChose(y) \/ Given(y)
             /\ "PET" \notin x.m.battleMenuFlag => y = x
  <1> DEFINE y == PetMenu(x, click)
  <1> USE DEF CMD_INPUT, RECEIVE_MOVIE
  <1>1. x.m \in Menu /\ x.s \in Sent
    BY DEF Input
  <1>2. CASE "PET" \notin x.m.battleMenuFlag
    <2>1. y = x
      BY <1>2 DEF PetMenu
    <2> QED
      BY <1>2, <2>1 DEF PetChooses, PetChose
  <1>3. CASE "PET" \in x.m.battleMenuFlag /\ ~x.m.battleMenuReturn
    <2> DEFINE o == Opening(x)
    <2>1. y = PetClick(o, click)
      BY <1>3 DEF PetMenu
    <2>2. /\ o \in Input /\ o.s = x.s
          /\ o.m = [x.m EXCEPT !.buttonA = IF @ > 0 THEN @ - 1 ELSE @]
      BY OpeningIs
    <2> HIDE DEF o
    <2>3. PetChooses(x) => PetChooses(o)
      BY <1>1, <2>2 DEF PetChooses, Begun, IdleExcused, Menu
    <2>4. /\ o.m.SubProcNo = x.m.SubProcNo /\ o.m.BattleBpFlag = x.m.BattleBpFlag
          /\ ~o.m.battlePetMenuFlag
      BY <1>1, <2>2 DEF Menu
    <2>5. /\ y \in Input /\ SameMenus(o, y)
          /\ \/ NoCommand(o, y, "waza")
             \/ Commanded(o, y) /\ y.s.player = o.s.player /\ y.s.pet = o.s.pet + 1
             \/ /\ ~turn.skills /\ y.s = [o.s EXCEPT !.pet = @ + 1, !.idle = TRUE]
                /\ ~y.m.hitBox /\ y.m.battleMenuReturn = o.m.battleMenuReturn
                /\ y.m.battlePlayerEscFlag = o.m.battlePlayerEscFlag
      <3> DEFINE z == PetClick(o, click)
      <3> HIDE DEF y
      <3>1. /\ z \in Input /\ SameMenus(o, z)
            /\ \/ NoCommand(o, z, "waza")
               \/ Commanded(o, z) /\ z.s.player = o.s.player /\ z.s.pet = o.s.pet + 1
               \/ /\ ~turn.skills /\ z.s = [o.s EXCEPT !.pet = @ + 1, !.idle = TRUE]
                  /\ ~z.m.hitBox /\ z.m.battleMenuReturn = o.m.battleMenuReturn
                  /\ z.m.battlePlayerEscFlag = o.m.battlePlayerEscFlag
        BY <2>2, PetClickGives, Zenon
      <3> QED
        BY <2>1, <3>1, Zenon
    <2> HIDE DEF y
    <2>6. ASSUME PetChooses(o)
          PROVE  PetChooses(y) \/ PetChose(y)
      <3>1. CASE NoCommand(o, y, "waza")
        BY <2>5, <2>6, <3>1
           DEF PetChooses, Begun, IdleExcused, SameMenus, NoCommand
      <3>2. CASE Commanded(o, y) /\ y.s.player = o.s.player /\ y.s.pet = o.s.pet + 1
        <4>1. o.s.pet \in Nat
          BY <2>2 DEF Input, Sent
        <4> QED
          BY <2>5, <2>6, <3>2, <4>1
             DEF PetChooses, PetChose, Begun, IdleExcused, SameMenus, Commanded
      <3>3. CASE /\ ~turn.skills /\ y.s = [o.s EXCEPT !.pet = @ + 1, !.idle = TRUE]
                 /\ ~y.m.hitBox /\ y.m.battleMenuReturn = o.m.battleMenuReturn
                 /\ y.m.battlePlayerEscFlag = o.m.battlePlayerEscFlag
        <4>1. y.s.player = o.s.player /\ y.s.esc = o.s.esc
          BY <2>2, <3>3 DEF Input, Sent
        <4> QED
          BY <2>5, <2>6, <3>3, <4>1
             DEF PetChooses, Begun, IdleExcused, SameMenus
      <3> QED
        BY <2>5, <3>1, <3>2, <3>3
    <2>7. ~PetChose(x)
      BY <1>3 DEF PetChose
    <2>8. /\ y.m.SubProcNo \in {CMD_INPUT, RECEIVE_MOVIE} /\ Noted(y)
          /\ ~y.m.battlePetMenuFlag
      BY <2>4, <2>5 DEF SameMenus, Noted
    <2> QED
      BY <1>3, <2>3, <2>5, <2>6, <2>7, <2>8 DEF y
  <1>4. CASE "PET" \in x.m.battleMenuFlag /\ x.m.battleMenuReturn /\ x.m.buttonA =< ButtonSteps
    <2>1. y = Closing(x)
      BY <1>4 DEF PetMenu
    <2>2. y \in Input /\ y.s = x.s /\ y.m = [x.m EXCEPT !.buttonA = @ + 1]
      BY <1>4, <2>1, ClosingIs
    <2> HIDE DEF y
    <2>3. PetChose(x) => PetChose(y)
      BY <1>1, <2>2 DEF PetChose, Begun, IdleExcused, Menu
    <2>4. /\ y.m.SubProcNo = x.m.SubProcNo /\ y.m.BattleBpFlag = x.m.BattleBpFlag
          /\ ~y.m.battlePetMenuFlag
      BY <1>1, <2>2 DEF Menu
    <2>5. ~PetChooses(x)
      BY <1>4 DEF PetChooses
    <2> QED
      BY <1>4, <2>2, <2>3, <2>4, <2>5 DEF y, Noted
  <1>5. CASE "PET" \in x.m.battleMenuFlag /\ x.m.battleMenuReturn /\ ~(x.m.buttonA =< ButtonSteps)
    <2> DEFINE b == ClearBox(x)
               c == [b EXCEPT !.m.battleMenuFlag = {}, !.m.battleTargetSelectFlag = FALSE]
    <2>1. b \in Input /\ b.s = x.s /\ b.m = [x.m EXCEPT !.hitBox = FALSE]
      BY ClearBoxIs
    <2>2. y = Advance(c)
      BY <1>5 DEF PetMenu
    <2> HIDE DEF b, y
    <2>3. /\ c \in Input /\ c.s = b.s
          /\ c.m = [b.m EXCEPT !.battleMenuFlag = {}, !.battleTargetSelectFlag = FALSE]
      BY <2>1 DEF Input, Menu
    <2> HIDE DEF c
    <2>4. x.m.SubProcNo = CMD_INPUT
      BY <1>5, StepsAssumption
    <2>5. /\ c.m.battleMenuFlag = {} /\ ~c.m.hitBox /\ c.m.SubProcNo = CMD_INPUT
          /\ c.m.BattleBpFlag = x.m.BattleBpFlag /\ ~c.m.battlePetMenuFlag /\ c.m \in Menu
      BY <1>1, <2>1, <2>3, <2>4 DEF Menu, Input
    <2>6. y \in Input /\ y.s = c.s /\ y.m = [c.m EXCEPT !.SubProcNo = @ + 1]
      BY <2>2, <2>3, <2>5, AdvanceIs
    <2>7. /\ y.m.battleMenuFlag = {} /\ ~y.m.hitBox /\ y.m.SubProcNo = RECEIVE_MOVIE
          /\ y.m.BattleBpFlag = x.m.BattleBpFlag /\ ~y.m.battlePetMenuFlag /\ y.s = x.s
      BY <2>1, <2>3, <2>5, <2>6 DEF Menu
    <2>8. ASSUME PetChose(x)
          PROVE  Given(y)
      BY <1>1, <2>7, <2>8 DEF PetChose, Given, Begun, IdleExcused, Sent
    <2>9. ~PetChooses(x)
      BY <1>5 DEF PetChooses
    <2> QED
      BY <1>5, <2>6, <2>7, <2>8, <2>9 DEF y, Noted
  <1> QED
    BY <1>2, <1>3, <1>4, <1>5

LEMMA CountDownKeeps ==
  ASSUME NEW x \in Input, Noted(x), ~x.m.battlePetMenuFlag,
         x.m.SubProcNo \in {CMD_INPUT, RECEIVE_MOVIE}, turn \in Turns
  PROVE  LET y == CountDown(x)
         IN  /\ y \in Input /\ Noted(y) /\ ~y.m.battlePetMenuFlag
             /\ y.m.SubProcNo \in {CMD_INPUT, RECEIVE_MOVIE}
             /\ Stage(x) => Stage(y)
             /\ Given(x) => Given(y)
  <1> DEFINE y == CountDown(x)
             chosen == "MENU" \in x.m.battleMenuFlag /\ x.m.battleMenuReturn
             choosing == "MENU" \in x.m.battleMenuFlag /\ ~x.m.battleMenuReturn
             petChoosing == "PET" \in x.m.battleMenuFlag /\ ~x.m.battleMenuReturn
             due == /\ choosing \/ chosen \/ petChoosing
                    /\ x.m.battlePetNoBak # -1 /\ turn.petAlive
             p == IF choosing THEN Says(x, "player") ELSE x
             i == PetIdles(p)
             l == [i EXCEPT !.s.late = TRUE]
             a == IF due THEN l ELSE p
             b == ClearBox(a)
             c == [b EXCEPT !.m.BattleCntDownFlag = FALSE, !.m.battleTargetSelectFlag = FALSE]
  <1>1. x.m \in Menu /\ x.s \in Sent /\ turn \in Turn
    BY DEF Input, Turns
  <1>2. CASE ~x.m.BattleCntDownFlag \/ ~expired
    <2>1. y = x
      BY <1>2 DEF CountDown
    <2> QED
      BY <2>1
  <1>3. CASE x.m.BattleCntDownFlag /\ expired
    <2>1. y = Return(c)
      BY <1>3, Zenon DEF CountDown
    <2>2. /\ p \in Input /\ p.m = x.m
          /\ p.s = IF choosing THEN [x.s EXCEPT !.player = @ + 1] ELSE x.s
      BY SaysIs
    <2> HIDE DEF y, p
    <2>3. i \in Input /\ i.m = x.m /\ i.s = [p.s EXCEPT !.pet = @ + 1, !.idle = TRUE]
      BY <2>2, PetIdlesIs
    <2> HIDE DEF i
    <2>4. l \in Input /\ l.m = x.m /\ l.s = [i.s EXCEPT !.late = TRUE]
      BY <2>3 DEF Input, Sent
    <2> HIDE DEF l
    <2>5. a \in Input /\ a.m = x.m /\ a.s = IF due THEN l.s ELSE p.s
      BY <2>2, <2>4
    <2> HIDE DEF a
    <2>6. b \in Input /\ b.s = a.s /\ b.m = [x.m EXCEPT !.hitBox = FALSE]
      BY <2>5, ClearBoxIs
    <2> HIDE DEF b
    <2>7. /\ c \in Input /\ c.s = b.s
          /\ c.m = [b.m EXCEPT !.BattleCntDownFlag = FALSE, !.battleTargetSelectFlag = FALSE]
      BY <2>6 DEF Input, Menu
    <2> HIDE DEF c
    <2>8. y \in Input /\ y.s = c.s /\ y.m = [c.m EXCEPT !.battleMenuReturn = TRUE]
      BY <2>1, <2>7, ReturnIs
    <2>9. /\ ~y.m.hitBox /\ ~y.m.BattleCntDownFlag /\ ~y.m.battleTargetSelectFlag
          /\ y.m.battleMenuReturn
          /\ y.m.SubProcNo = x.m.SubProcNo /\ y.m.battleMenuFlag = x.m.battleMenuFlag
          /\ y.m.battleMenuFlag2 = x.m.battleMenuFlag2
          /\ y.m.BattleBpFlag = x.m.BattleBpFlag
          /\ y.m.battlePetMenuFlag = x.m.battlePetMenuFlag
          /\ y.m.battlePetNoBak = x.m.battlePetNoBak
          /\ y.m.battlePlayerEscFlag = x.m.battlePlayerEscFlag
      BY <1>1, <2>6, <2>7, <2>8 DEF Menu
    <2>10. y.s = IF due THEN l.s ELSE p.s
      BY <2>5, <2>6, <2>7, <2>8
    <2>11. /\ p.s.player = IF choosing THEN x.s.player + 1 ELSE x.s.player
           /\ p.s.pet = x.s.pet /\ p.s.esc = x.s.esc /\ p.s.ai = x.s.ai
           /\ p.s.idle = x.s.idle /\ p.s.late = x.s.late /\ p.s \in Sent
      BY <1>1, <2>2 DEF Sent, Input
    <2>12. /\ l.s.player = p.s.player /\ l.s.pet = p.s.pet + 1 /\ l.s.late
      BY <2>3, <2>4, <2>11 DEF Sent
    <2> HIDE DEF due, choosing, chosen, petChoosing
    <2>13. /\ y.s.player = IF choosing THEN x.s.player + 1 ELSE x.s.player
           /\ y.s.pet = IF due THEN x.s.pet + 1 ELSE x.s.pet
           /\ due => y.s.late
           /\ ~due => y.s.esc = x.s.esc /\ y.s.ai = x.s.ai /\ y.s.idle = x.s.idle
                      /\ y.s.late = x.s.late
      BY <2>10, <2>11, <2>12
    <2>14. IdleExcused(x) => IdleExcused(y)
      BY <2>13 DEF IdleExcused
    <2>15. due => y.s.esc = x.s.esc
      BY <2>3, <2>4, <2>10, <2>11 DEF Sent
    <2>16. Begun(x) => Begun(y)
      BY <2>9, <2>13, <2>14, <2>15 DEF Begun
    <2>17. /\ choosing <=> "MENU" \in x.m.battleMenuFlag /\ ~x.m.battleMenuReturn
           /\ chosen <=> "MENU" \in x.m.battleMenuFlag /\ x.m.battleMenuReturn
           /\ petChoosing <=> "PET" \in x.m.battleMenuFlag /\ ~x.m.battleMenuReturn
           /\ due <=> /\ choosing \/ chosen \/ petChoosing
                      /\ x.m.battlePetNoBak # -1 /\ turn.petAlive
      BY DEF due, choosing, chosen, petChoosing
    <2>18. ASSUME Begun(x)
           PROVE  x.m.battlePetNoBak # -1 /\ turn.petAlive <=> PetCanAct
      BY <1>1, <2>18 DEF Begun, PetCanAct, Turn
    <2>19. ASSUME PlayerChooses(x)
           PROVE  PlayerChose(y)
      <3>1. choosing /\ (due <=> PetCanAct)
        BY <2>17, <2>18, <2>19 DEF PlayerChooses
      <3> QED
        BY <2>9, <2>13, <2>16, <2>19, <3>1 DEF PlayerChooses, PlayerChose
    <2>20. ASSUME PlayerChose(x)
           PROVE  PlayerChose(y)
      <3>1. ~choosing /\ (due <=> PetCanAct)
        BY <2>17, <2>18, <2>20 DEF PlayerChose
      <3> QED
        BY <1>3, <2>9, <2>13, <2>16, <2>20, <3>1 DEF PlayerChose
    <2>21. ASSUME PetChooses(x)
           PROVE  PetChose(y)
      <3>1. ~choosing /\ due
        BY <2>17, <2>18, <2>21 DEF PetChooses
      <3>2. x.s.pet \in Nat
        BY <1>1 DEF Sent
      <3> QED
        BY <2>9, <2>13, <2>16, <2>21, <3>1, <3>2 DEF PetChooses, PetChose
    <2>22. ASSUME PetChose(x)
           PROVE  PetChose(y)
      <3>1. ~choosing /\ ~due
        BY <2>17, <2>22 DEF PetChose
      <3> QED
        BY <2>9, <2>13, <2>16, <2>22, <3>1 DEF PetChose
    <2>23. ASSUME Given(x)
           PROVE  Given(y)
      <3>1. ~choosing /\ ~due
        BY <2>17, <2>23 DEF Given
      <3> QED
        BY <2>9, <2>13, <2>14, <2>23, <3>1 DEF Given
    <2>24. Noted(y)
      BY <2>9 DEF Noted
    <2> QED
      BY <2>8, <2>9, <2>19, <2>20, <2>21, <2>22, <2>23, <2>24 DEF Stage, y
  <1> QED
    BY <1>2, <1>3

LEMMA TargetSelectKeeps ==
  ASSUME NEW x \in Input, NEW click, x.m.SubProcNo = CMD_INPUT, ~x.m.battlePetMenuFlag, Noted(x)
  PROVE  LET y == TargetSelect(x, click)
         IN  /\ y \in Input /\ y.m.SubProcNo = CMD_INPUT /\ ~y.m.battlePetMenuFlag /\ Noted(y)
             /\ Begins(x) => Begins(y)
             /\ Stage(x) => Stage(y)
  <1> DEFINE y == TargetSelect(x, click)
  <1>1. x.m \in Menu /\ x.s \in Sent
    BY DEF Input
  <1>2. CASE y = x
    BY <1>2
  <1>3. CASE /\ x.m.battleTargetSelectFlag /\ x.m.hitBox
             /\ y \in Input
             /\ y.m = [x.m EXCEPT !.battleTargetSelectFlag = FALSE, !.battleMenuReturn = TRUE]
             /\ y.s = CASE x.m.BattleCmdNo = "player" -> [x.s EXCEPT !.player = @ + 1]
                        [] x.m.BattleCmdNo = "waza" -> [x.s EXCEPT !.pet = @ + 1]
                        [] OTHER -> x.s
    <2> HIDE DEF y
    <2>1. /\ y.m.battleMenuReturn /\ ~y.m.battleTargetSelectFlag
          /\ y.m.SubProcNo = x.m.SubProcNo /\ y.m.battleMenuFlag = x.m.battleMenuFlag
          /\ y.m.battleMenuFlag2 = x.m.battleMenuFlag2
          /\ y.m.BattleBpFlag = x.m.BattleBpFlag
          /\ y.m.BattleCntDownFlag = x.m.BattleCntDownFlag
          /\ y.m.battlePetMenuFlag = x.m.battlePetMenuFlag
          /\ y.m.battlePetNoBak = x.m.battlePetNoBak
          /\ y.m.battlePlayerEscFlag = x.m.battlePlayerEscFlag
      BY <1>1, <1>3 DEF Menu
    <2>2. ASSUME PlayerChooses(x)
          PROVE  PlayerChose(y)
      <3>1. y.s = [x.s EXCEPT !.player = @ + 1]
        BY <1>3, <2>2 DEF PlayerChooses
      <3>2. /\ y.s.player = x.s.player + 1 /\ y.s.pet = x.s.pet /\ y.s.idle = x.s.idle
            /\ y.s.esc = x.s.esc /\ y.s.late = x.s.late /\ y.s.ai = x.s.ai
        BY <1>1, <3>1 DEF Sent
      <3> QED
        BY <2>1, <2>2, <3>2 DEF PlayerChooses, PlayerChose, Begun, IdleExcused
    <2>3. ASSUME PetChooses(x)
          PROVE  PetChose(y)
      <3>1. y.s = [x.s EXCEPT !.pet = @ + 1]
        BY <1>3, <2>3 DEF PetChooses
      <3>2. /\ y.s.player = x.s.player /\ y.s.pet = x.s.pet + 1 /\ y.s.idle = x.s.idle
            /\ y.s.esc = x.s.esc /\ y.s.late = x.s.late /\ y.s.ai = x.s.ai /\ x.s.pet \in Nat
        BY <1>1, <3>1 DEF Sent
      <3> QED
        BY <2>1, <2>3, <3>2 DEF PetChooses, PetChose, Begun, IdleExcused
    <2>4. ~Begins(x) /\ ~PlayerChose(x) /\ ~PetChose(x)
      BY <1>3 DEF Begins, PlayerChose, PetChose
    <2>5. Noted(y)
      BY <2>1 DEF Noted
    <2> QED
      BY <1>3, <2>1, <2>2, <2>3, <2>4, <2>5 DEF Stage, y
  <1> QED
    BY <1>2, <1>3, TargetSelectDoes

\* A frame of a player who does not watch.
LEMMA MenuProcKeeps ==
  ASSUME NEW x \in Input, NEW click, x.m.SubProcNo = CMD_INPUT, ~x.m.battlePetMenuFlag, Noted(x),
         turn \in Turns, ~turn.watch
  PROVE  LET y == BattleMenuProc(x, click)
         IN  /\ y \in Input /\ Noted(y) /\ ~y.m.battlePetMenuFlag
             /\ y.m.SubProcNo \in {CMD_INPUT, RECEIVE_MOVIE}
             /\ Begins(x) \/ Stage(x) => Stage(y) \/ Given(y)
  <1> DEFINE a == TargetSelect(x, click)
             b == TurnStart(a)
             c == PlayerMenu(b, click)
             d == OpenPetMenu(c)
             e == PetMenu(d, click)
             y == CountDown(e)
  <1>1. /\ a \in Input /\ a.m.SubProcNo = CMD_INPUT /\ ~a.m.battlePetMenuFlag /\ Noted(a)
        /\ Begins(x) => Begins(a)
        /\ Stage(x) => Stage(a)
    BY TargetSelectKeeps
  <1>2. BattleMenuProc(x, click) = y
    BY DEF BattleMenuProc
  <1> HIDE DEF a
  <1>3. /\ b \in Input /\ b.m.SubProcNo = CMD_INPUT /\ Noted(b)
        /\ b.m.battlePetMenuFlag => b.m.buttonA = ButtonSteps
        /\ Begins(a) => PlayerChooses(b) \/ PetIsNext(b)
        /\ ~a.m.battleMenuFlag2 => b = a
    BY <1>1, TurnStartKeeps
  <1> HIDE DEF b
  <1>4. Begins(a) \/ Stage(a) => Stage(b) \/ PetIsNext(b)
    BY <1>3 DEF Stage, PlayerChooses, PlayerChose, PetChooses, PetChose, Begun
  <1>5. /\ c \in Input /\ Noted(c)
        /\ \/ c.m.SubProcNo = CMD_INPUT
           \/ /\ c.m.SubProcNo = RECEIVE_MOVIE
              /\ ~c.m.battlePetMenuFlag /\ c.m.battleMenuFlag = {}
        /\ PlayerChooses(b) => PlayerChooses(c) \/ PlayerChose(c)
        /\ PlayerChose(b) => PlayerChose(c) \/ PetIsNext(c) \/ Given(c)
        /\ "MENU" \notin b.m.battleMenuFlag => c = b
    BY <1>3, PlayerMenuKeeps
  <1> HIDE DEF c
  <1>6. Stage(b) \/ PetIsNext(b) => Stage(c) \/ PetIsNext(c) \/ Given(c)
    BY <1>5 DEF Stage, PetIsNext, PetChooses, PetChose
  <1>7. /\ d \in Input /\ Noted(d) /\ ~d.m.battlePetMenuFlag
        /\ \/ d.m.SubProcNo = CMD_INPUT
           \/ /\ d.m.SubProcNo = RECEIVE_MOVIE
              /\ d.m.battleMenuFlag = {} \/ d.m.buttonA = ButtonSteps
        /\ PetIsNext(c) => PetChooses(d) \/ Given(d)
        /\ ~c.m.battlePetMenuFlag => d = c
    BY <1>5, OpenPetMenuKeeps
  <1> HIDE DEF d
  <1>8. Stage(c) \/ PetIsNext(c) \/ Given(c) => Stage(d) \/ Given(d)
    BY <1>7 DEF Stage, PlayerChooses, PlayerChose, PetChooses, PetChose, Given
  <1>9. /\ e \in Input /\ Noted(e) /\ ~e.m.battlePetMenuFlag
        /\ e.m.SubProcNo \in {CMD_INPUT, RECEIVE_MOVIE}
        /\ PetChooses(d) => PetChooses(e) \/ PetChose(e)
        /\ PetChose(d) => PetChose(e) \/ Given(e)
        /\ "PET" \notin d.m.battleMenuFlag => e = d
    BY <1>7, PetMenuKeeps
  <1> HIDE DEF e
  <1>10. Stage(d) \/ Given(d) => Stage(e) \/ Given(e)
    BY <1>9 DEF Stage, PlayerChooses, PlayerChose, Given
  <1>11. /\ y \in Input /\ Noted(y) /\ ~y.m.battlePetMenuFlag
         /\ y.m.SubProcNo \in {CMD_INPUT, RECEIVE_MOVIE}
         /\ Stage(e) => Stage(y)
         /\ Given(e) => Given(y)
    BY <1>9, CountDownKeeps
  <1> QED
    BY <1>1, <1>2, <1>4, <1>6, <1>8, <1>10, <1>11

\* A frame of a player who watches, and one of the AI.
LEMMA WatchKeeps ==
  ASSUME NEW x \in Input, x.m.SubProcNo = CMD_INPUT, ~x.m.battlePetMenuFlag, Noted(x),
         turn \in Turns, turn.watch
  PROVE  LET y == Advance(Says(x, "player"))
         IN  /\ y \in Input /\ Noted(y) /\ ~y.m.battlePetMenuFlag
             /\ y.m.SubProcNo = RECEIVE_MOVIE
             /\ Begins(x) => Given(y)
  <1> DEFINE p == Says(x, "player")
             y == Advance(p)
  <1> USE DEF CMD_INPUT, RECEIVE_MOVIE
  <1>1. x.m \in Menu /\ x.s \in Sent
    BY DEF Input
  <1>2. p \in Input /\ p.m = x.m /\ p.s = [x.s EXCEPT !.player = @ + 1]
    BY SaysIs
  <1> HIDE DEF p
  <1>3. y \in Input /\ y.s = p.s /\ y.m = [p.m EXCEPT !.SubProcNo = @ + 1]
    BY <1>2, AdvanceIs
  <1> HIDE DEF y
  <1>4. /\ y.m.SubProcNo = RECEIVE_MOVIE /\ y.m.BattleBpFlag = x.m.BattleBpFlag
        /\ ~y.m.battlePetMenuFlag /\ y.m.battleMenuFlag = x.m.battleMenuFlag
        /\ y.m.hitBox = x.m.hitBox
    BY <1>1, <1>2, <1>3 DEF Menu
  <1>5. ASSUME Begins(x)
        PROVE  Given(y)
    <2>1. y.s.player = 1 /\ y.s.pet = 0 /\ ~y.s.idle
      BY <1>2, <1>3, <1>5 DEF Begins, NothingSent
    <2> QED
      BY <1>4, <1>5, <2>1 DEF Begins, Given, IdleExcused
  <1> QED
    BY <1>3, <1>4, <1>5 DEF Noted, y, p

LEMMA ChooseActionKeeps ==
  ASSUME NEW x \in Input, NEW escape \in BOOLEAN, x.m.SubProcNo = CMD_INPUT,
         ~x.m.battlePetMenuFlag, Noted(x), turn \in Turns
  PROVE  LET y == AI_ChooseAction(x, escape)
         IN  /\ y \in Input /\ Noted(y) /\ ~y.m.battlePetMenuFlag
             /\ y.m.SubProcNo = RECEIVE_MOVIE
             /\ Begins(x) => Given(y)
  <1> DEFINE y == AI_ChooseAction(x, escape)
             free == turn.alive /\ ~Non(x, "PLAYER_MENU_NON")
             q == Says(x, "player")
             e == [q EXCEPT !.m.battlePlayerEscFlag = TRUE, !.s.esc = TRUE]
             p == CASE free /\ escape -> e
                    [] (free /\ ~escape) \/ Non(x, "PLAYER_MENU_NON") -> q
                    [] OTHER -> x
             fights == /\ PetCanAct /\ turn.skills /\ turn.alive
                       /\ ~Non(x, "PET_MENU_NON") /\ ~p.m.battlePlayerEscFlag
             f == IF fights THEN Says(p, "pet") ELSE PetIdles(p)
             a == Advance(f)
             z == [a EXCEPT !.s.ai = TRUE]
  <1>1. x.m \in Menu /\ x.s \in Sent
    BY DEF Input
  <1>2. CASE turn.watch
    <2>1. y = Advance(q)
      BY <1>2 DEF AI_ChooseAction
    <2> QED
      BY <1>2, <2>1, WatchKeeps
  <1>3. CASE ~turn.watch
    <2>1. y = z
      BY <1>3, Zenon DEF AI_ChooseAction
    <2>2. q \in Input /\ q.m = x.m /\ q.s = [x.s EXCEPT !.player = @ + 1]
      BY SaysIs
    <2> HIDE DEF q, y
    <2>3. /\ e \in Input /\ e.m = [q.m EXCEPT !.battlePlayerEscFlag = TRUE]
          /\ e.s = [q.s EXCEPT !.esc = TRUE]
      BY <2>2 DEF Input, Menu, Sent
    <2> HIDE DEF e
    <2>4. /\ p \in Input /\ p.m.SubProcNo = CMD_INPUT /\ ~p.m.battlePetMenuFlag
          /\ p.m.BattleBpFlag = x.m.BattleBpFlag /\ p.m.battleMenuFlag = x.m.battleMenuFlag
          /\ p.m.hitBox = x.m.hitBox
          /\ p.s.pet = x.s.pet
          /\ p.s.player = IF turn.alive \/ Non(x, "PLAYER_MENU_NON")
                          THEN x.s.player + 1 ELSE x.s.player
      <3>1. CASE free /\ escape
        <4>1. p = e
          BY <3>1
        <4>2. /\ e.m.SubProcNo = CMD_INPUT /\ ~e.m.battlePetMenuFlag
              /\ e.m.BattleBpFlag = x.m.BattleBpFlag /\ e.m.battleMenuFlag = x.m.battleMenuFlag
              /\ e.m.hitBox = x.m.hitBox
          BY <1>1, <2>2, <2>3 DEF Menu
        <4>3. e.s.pet = x.s.pet /\ e.s.player = x.s.player + 1
          BY <1>1, <2>2, <2>3 DEF Sent
        <4> QED
          BY <2>3, <3>1, <4>1, <4>2, <4>3
      <3>2. CASE (free /\ ~escape) \/ Non(x, "PLAYER_MENU_NON")
        <4>1. p = q
          BY <3>2
        <4>2. q.s.pet = x.s.pet /\ q.s.player = x.s.player + 1
          BY <1>1, <2>2 DEF Sent
        <4> QED
          BY <2>2, <3>2, <4>1, <4>2
      <3>3. CASE ~free /\ ~Non(x, "PLAYER_MENU_NON")
        <4>1. p = x
          BY <3>3
        <4> QED
          BY <3>3, <4>1
      <3> QED
        BY <3>1, <3>2, <3>3
    <2> HIDE DEF p
    <2>5. /\ f \in Input /\ f.m = p.m /\ f.s.pet = p.s.pet + 1 /\ f.s.player = p.s.player
      <3>1. p.s \in Sent
        BY <2>4 DEF Input
      <3>2. CASE fights
        <4>1. f = Says(p, "pet")
          BY <3>2
        <4>2. f \in Input /\ f.m = p.m /\ f.s = [p.s EXCEPT !.pet = @ + 1]
          BY <2>4, <4>1, SaysIs
        <4> QED
          BY <3>1, <4>2 DEF Sent
      <3>3. CASE ~fights
        <4>1. f = PetIdles(p)
          BY <3>3
        <4>2. f \in Input /\ f.m = p.m /\ f.s = [p.s EXCEPT !.pet = @ + 1, !.idle = TRUE]
          BY <2>4, <4>1, PetIdlesIs
        <4> QED
          BY <3>1, <4>2 DEF Sent
      <3> QED
        BY <3>2, <3>3
    <2> HIDE DEF f
    <2>6. a \in Input /\ a.s = f.s /\ a.m = [f.m EXCEPT !.SubProcNo = @ + 1]
      BY <2>4, <2>5, AdvanceIs
    <2> HIDE DEF a
    <2>7. z \in Input /\ z.m = a.m /\ z.s = [a.s EXCEPT !.ai = TRUE]
      BY <2>6 DEF Input, Sent
    <2> HIDE DEF z
    <2>8. p.m \in Menu /\ a.s \in Sent
      BY <2>4, <2>6 DEF Input
    <2>9. /\ z.m.SubProcNo = RECEIVE_MOVIE /\ z.m.BattleBpFlag = x.m.BattleBpFlag
          /\ ~z.m.battlePetMenuFlag /\ z.m.battleMenuFlag = x.m.battleMenuFlag
          /\ z.m.hitBox = x.m.hitBox
      BY <2>4, <2>5, <2>6, <2>7, <2>8 DEF Menu, CMD_INPUT, RECEIVE_MOVIE
    <2>10. /\ z.s.pet = x.s.pet + 1 /\ z.s.ai
           /\ z.s.player = IF turn.alive \/ Non(x, "PLAYER_MENU_NON")
                           THEN x.s.player + 1 ELSE x.s.player
      BY <2>4, <2>5, <2>6, <2>7, <2>8 DEF Sent
    <2>11. ASSUME Begins(x)
           PROVE  Given(z)
      <3>1. x.s.player = 0 /\ x.s.pet = 0
        BY <2>11 DEF Begins, NothingSent
      <3> QED
        BY <1>3, <2>9, <2>10, <2>11, <3>1 DEF Begins, Given, IdleExcused
    <2> QED
      BY <2>1, <2>7, <2>9, <2>11 DEF Noted, y
  <1> QED
    BY <1>2, <1>3

-----------------------------------------------------------------------------
(* The actions.                                                            *)

\* The predicates of the stages do not tell a record from its fields.
LEMMA Fields ==
  ASSUME NEW y \in Input
  PROVE  [m |-> y.m, s |-> y.s] = y
  BY DEF Input

LEMMA InputInit_Inv == InputInit => InputInv
  <1> SUFFICES ASSUME InputInit
               PROVE  InputInv
    OBVIOUS
  <1> USE DEF CMD_INPUT, RECEIVE_MOVIE, MOVIE, OUT_PRODUCE_INIT
  <1>1. InputTypeOK
    <2>1. 0 \in 0..ButtonSteps + 1
      BY StepsAssumption
    <2>2. menu \in Menu
      BY <2>1 DEF InputInit, Menu
    <2>3. turn \in Turn /\ sent \in Sent
      BY DEF InputInit, Turn, Sent, NoTurn, NothingSent
    <2> QED
      BY <2>2, <2>3 DEF InputInit, InputTypeOK
  <1>2. turn \in Turns
    BY DEF InputInit, Turns, Turn, NoTurn
  <1> QED
    BY <1>1, <1>2 DEF InputInit, InputInv

LEMMA InputFrameKeeps ==
  ASSUME InputInv, NEW clicks, FrameWith(clicks)
  PROVE  InputInv'
  <1> DEFINE x == [m |-> menu, s |-> sent]
  <1>1. x \in Input /\ x.m = menu /\ x.s = sent /\ turn \in Turns
    BY DEF InputInv, InputTypeOK, Input
  <1>2. /\ x.m.SubProcNo = CMD_INPUT /\ ~x.m.battlePetMenuFlag /\ Noted(x)
    BY <1>1 DEF InputInv, FrameWith, Noted
  <1>3. ~mixed => IF x.m.battleMenuFlag2 THEN Begins(x) ELSE Stage(x) /\ AI = "AI_NONE"
    BY <1>2 DEF InputInv
  <1>4. /\ UNCHANGED <<AI, turn, expired, mixed>>
        /\ \E y \in IF AI = "AI_SELECT"
                    THEN {AI_ChooseAction(x, e) : e \in BOOLEAN}
                    ELSE {BattleMenuProc(x, c) : c \in clicks} :
              menu' = y.m /\ sent' = y.s
    BY DEF FrameWith
  <1> HIDE DEF x
  <1>5. \E y \in Input :
           /\ menu' = y.m /\ sent' = y.s
           /\ Noted(y) /\ ~y.m.battlePetMenuFlag
           /\ y.m.SubProcNo \in {CMD_INPUT, RECEIVE_MOVIE}
           /\ ~mixed => \/ Given(y)
                        \/ Stage(y) /\ AI = "AI_NONE"
    <2>1. CASE AI = "AI_SELECT"
      <3>1. PICK e \in BOOLEAN : menu' = AI_ChooseAction(x, e).m /\ sent' = AI_ChooseAction(x, e).s
        BY <1>4, <2>1
      <3> DEFINE y == AI_ChooseAction(x, e)
      <3>2. /\ y \in Input /\ Noted(y) /\ ~y.m.battlePetMenuFlag
            /\ y.m.SubProcNo = RECEIVE_MOVIE
            /\ Begins(x) => Given(y)
        BY <1>1, <1>2, ChooseActionKeeps
      <3>3. ~mixed => Begins(x)
        BY <1>3, <2>1
      <3> HIDE DEF y
      <3>4. menu' = y.m /\ sent' = y.s
        BY <3>1 DEF y
      <3> QED
        BY <3>2, <3>3, <3>4
    <2>2. CASE AI # "AI_SELECT"
      <3>1. PICK c \in clicks : menu' = BattleMenuProc(x, c).m /\ sent' = BattleMenuProc(x, c).s
        BY <1>4, <2>2
      <3> DEFINE y == BattleMenuProc(x, c)
      <3>2. AI = "AI_NONE"
        BY <2>2 DEF InputInv, InputTypeOK
      <3>3. /\ y \in Input /\ Noted(y) /\ ~y.m.battlePetMenuFlag
            /\ y.m.SubProcNo \in {CMD_INPUT, RECEIVE_MOVIE}
            /\ ~mixed => Stage(y) \/ Given(y)
        <4>1. CASE turn.watch
          <5>1. y = Advance(Says(x, "player"))
            BY <4>1 DEF BattleMenuProc
          <5>2. ~mixed => Begins(x)
            BY <1>3, <4>1
              DEF Stage, PlayerChooses, PlayerChose, PetChooses, PetChose, Begun
          <5> HIDE DEF y
          <5> QED
            BY <1>1, <1>2, <4>1, <5>1, <5>2, WatchKeeps
        <4>2. CASE ~turn.watch
          BY <1>1, <1>2, <1>3, <4>2, MenuProcKeeps
        <4> QED
          BY <4>1, <4>2
      <3> HIDE DEF y
      <3>4. menu' = y.m /\ sent' = y.s
        BY <3>1 DEF y
      <3> QED
        BY <3>2, <3>3, <3>4
    <2> QED
      BY <2>1, <2>2
  <1>6. PICK y \in Input :
           /\ menu' = y.m /\ sent' = y.s
           /\ Noted(y) /\ ~y.m.battlePetMenuFlag
           /\ y.m.SubProcNo \in {CMD_INPUT, RECEIVE_MOVIE}
           /\ ~mixed => \/ Given(y)
                        \/ Stage(y) /\ AI = "AI_NONE"
    BY <1>5
  <1>7. InputTypeOK'
    BY <1>4, <1>6 DEF InputInv, InputTypeOK, Input
  <1>8. [m |-> menu', s |-> sent'] = y
    BY <1>6, Fields
  <1>9. /\ ~mixed' =>
              /\ menu'.SubProcNo = CMD_INPUT =>
                    /\ ~menu'.battleMenuFlag2 /\ Stage(y)' /\ AI' = "AI_NONE"
              /\ menu'.SubProcNo = RECEIVE_MOVIE => Given(y)'
    <2>1. turn' = turn
      BY <1>4
    <2>2. Given(y) => Given(y)'
      BY <2>1 DEF Given, IdleExcused, PetCanAct
    <2>3. Stage(y) => Stage(y)' /\ ~y.m.battleMenuFlag2 /\ y.m.SubProcNo = CMD_INPUT
      BY <2>1
        DEF Stage, PlayerChooses, PlayerChose, PetChooses, PetChose, Begun, IdleExcused,
            PetCanAct
    <2>4. Given(y) => y.m.SubProcNo = RECEIVE_MOVIE
      BY DEF Given
    <2>5. CMD_INPUT # RECEIVE_MOVIE
      BY DEF CMD_INPUT, RECEIVE_MOVIE
    <2> QED
      BY <1>4, <1>6, <2>2, <2>3, <2>4, <2>5
  <1>10. /\ menu'.SubProcNo \notin {MOVIE, OUT_PRODUCE_INIT} /\ turn' \in Turns
         /\ ~menu'.battlePetMenuFlag
         /\ "PET_MENU_NON" \in menu'.BattleBpFlag => turn'.petNon
    BY <1>1, <1>4, <1>6 DEF Noted, CMD_INPUT, RECEIVE_MOVIE, MOVIE, OUT_PRODUCE_INIT
  <1> QED
    BY <1>7, <1>8, <1>9, <1>10 DEF InputInv, MOVIE, CMD_INPUT, RECEIVE_MOVIE

LEMMA CountDownOverKeeps ==
  ASSUME InputInv, CountDownOver
  PROVE  InputInv'
  <1>1. UNCHANGED <<menu, AI, turn, sent, mixed>> /\ expired' = TRUE
    BY DEF CountDownOver
  <1> QED
    BY <1>1 DEF InputInv, InputTypeOK, Begins, Stage, PlayerChooses, PlayerChose,
                PetChooses, PetChose, Given, Begun, IdleExcused, PetCanAct

LEMMA SwitchAIKeeps ==
  ASSUME InputInv, SwitchAI
  PROVE  InputInv'
  <1>1. /\ UNCHANGED <<menu, turn, expired, sent>> /\ AI' \in {"AI_NONE", "AI_SELECT"}
        /\ mixed' = (mixed \/ (menu.SubProcNo = CMD_INPUT /\ ~menu.battleMenuFlag2))
    BY DEF SwitchAI
  <1>2. mixed' \in BOOLEAN
    BY <1>1 DEF InputInv, InputTypeOK
  <1> QED
    BY <1>1, <1>2 DEF InputInv, InputTypeOK, Begins, Given, IdleExcused, PetCanAct

LEMMA BPArrivesKeeps ==
  ASSUME InputInv, BPArrives
  PROVE  InputInv'
  <1>1. PICK bp \in SUBSET {"PLAYER_MENU_NON", "PET_MENU_NON"} :
           /\ menu' = [menu EXCEPT !.BattleBpFlag = bp]
           /\ turn' = [turn EXCEPT !.petNon = @ \/ "PET_MENU_NON" \in bp]
    BY DEF BPArrives
  <1>2. UNCHANGED <<AI, expired, sent, mixed>> /\ menu.SubProcNo = CMD_INPUT
    BY DEF BPArrives
  <1>3. menu \in Menu /\ turn \in Turn /\ turn \in Turns
    BY DEF InputInv, InputTypeOK
  <1>4. menu' \in Menu
    BY <1>1, <1>3 DEF Menu
  <1>5. /\ menu'.SubProcNo = menu.SubProcNo /\ menu'.battleMenuFlag = menu.battleMenuFlag
        /\ menu'.battleMenuReturn = menu.battleMenuReturn
        /\ menu'.battleMenuFlag2 = menu.battleMenuFlag2
        /\ menu'.battlePetMenuFlag = menu.battlePetMenuFlag
        /\ menu'.BattleCntDownFlag = menu.BattleCntDownFlag
        /\ menu'.battlePlayerEscFlag = menu.battlePlayerEscFlag
        /\ menu'.battlePetNoBak = menu.battlePetNoBak
        /\ menu'.battleTargetSelectFlag = menu.battleTargetSelectFlag
        /\ menu'.BattleCmdNo = menu.BattleCmdNo /\ menu'.hitBox = menu.hitBox
        /\ menu'.BattleBpFlag = bp
    BY <1>1, <1>3 DEF Menu
  <1>6. turn' \in Turn
    BY <1>1, <1>3 DEF Turn
  <1>7. /\ turn'.watch = turn.watch /\ turn'.alive = turn.alive
        /\ turn'.battlePetNo = turn.battlePetNo /\ turn'.petAlive = turn.petAlive
        /\ turn'.skills = turn.skills
        /\ turn'.petNon = (turn.petNon \/ "PET_MENU_NON" \in bp)
    BY <1>1, <1>3 DEF Turn
  <1>8. turn' \in Turns
    <2>1. turn'.battlePetNo = -1 => ~turn'.petAlive
      BY <1>3, <1>7 DEF Turns
    <2>2. ~turn'.petAlive => turn'.skills
      <3>1. ~turn.petAlive => turn.skills
        BY <1>3 DEF Turns
      <3> QED
        BY <1>7, <3>1
    <2>3. ASSUME turn'.watch
          PROVE  turn' = [NoTurn EXCEPT !.watch = TRUE, !.petNon = turn'.petNon]
      <3>1. turn = [NoTurn EXCEPT !.watch = TRUE, !.petNon = turn.petNon]
        BY <1>3, <1>7, <2>3 DEF Turns
      <3>2. /\ turn.watch /\ ~turn.alive /\ turn.battlePetNo = -1 /\ ~turn.petAlive
            /\ turn.skills
        BY <3>1 DEF NoTurn
      <3>3. \A r, n \in Turn : /\ r.watch = n.watch /\ r.alive = n.alive /\ r.skills = n.skills
                               /\ r.battlePetNo = n.battlePetNo /\ r.petAlive = n.petAlive
                               /\ r.petNon = n.petNon
                               => r = n
        BY DEF Turn
      <3> DEFINE old == turn'
                 n == [NoTurn EXCEPT !.watch = TRUE, !.petNon = old.petNon]
      <3>4. old \in Turn
        BY <1>6
      <3>5. /\ old.watch = TRUE /\ old.alive = FALSE /\ old.battlePetNo = -1
            /\ old.petAlive = FALSE /\ old.skills = TRUE
        BY <1>3, <1>7, <2>3, <3>2, <3>4 DEF Turn
      <3> HIDE DEF old
      <3>6. /\ n \in Turn /\ n.watch = TRUE /\ n.alive = FALSE /\ n.battlePetNo = -1
            /\ n.petAlive = FALSE /\ n.skills = TRUE /\ n.petNon = old.petNon
        BY <3>4 DEF NoTurn, Turn
      <3> HIDE DEF n
      <3>7. old = n
        BY <3>3, <3>4, <3>5, <3>6
      <3> QED
        BY <3>7 DEF n, old
    <2> QED
      BY <1>6, <2>1, <2>2, <2>3 DEF Turns
  <1> DEFINE x == [m |-> menu, s |-> sent]
  <1>9. \E y \in Input :
           /\ y.m = menu' /\ y.s = sent'
           /\ ~mixed => IF y.m.battleMenuFlag2 THEN Begins(y)' ELSE Stage(y)' /\ AI = "AI_NONE"
    <2>1. PICK y \in Input : y.m = menu' /\ y.s = sent
      <3>1. sent \in Sent
        BY DEF InputInv, InputTypeOK
      <3> DEFINE new == menu'
      <3>2. new \in Menu
        BY <1>4
      <3> HIDE DEF new
      <3>3. [m |-> new, s |-> sent] \in Input
        BY <3>1, <3>2 DEF Input
      <3> QED
        BY <3>3 DEF new
    <2>2. x.m = menu /\ x.s = sent
      OBVIOUS
    <2>3. ~mixed => IF menu.battleMenuFlag2 THEN Begins(x) ELSE Stage(x) /\ AI = "AI_NONE"
      BY <1>2 DEF InputInv
    <2> HIDE DEF x
    <2>4. Begins(x) => Begins(y)'
      BY <1>5, <2>1, <2>2 DEF Begins
    <2>5. IdleExcused(x) => IdleExcused(y)'
      BY <1>7, <2>1, <2>2 DEF IdleExcused
    <2>6. Begun(x) => Begun(y)'
      BY <1>5, <1>7, <2>1, <2>2, <2>5 DEF Begun
    <2>7. PetCanAct' <=> PetCanAct
      BY <1>7 DEF PetCanAct
    <2>8. PlayerChooses(x) => PlayerChooses(y)'
      BY <1>5, <1>7, <2>1, <2>2, <2>6 DEF PlayerChooses
    <2>9. PlayerChose(x) => PlayerChose(y)'
      BY <1>5, <1>7, <2>1, <2>2, <2>6, <2>7 DEF PlayerChose
    <2>10. PetChooses(x) => PetChooses(y)'
      BY <1>5, <1>7, <2>1, <2>2, <2>6, <2>7 DEF PetChooses
    <2>11. PetChose(x) => PetChose(y)'
      BY <1>5, <1>7, <2>1, <2>2, <2>6, <2>7 DEF PetChose
    <2>12. Stage(x) => Stage(y)'
      BY <2>8, <2>9, <2>10, <2>11 DEF Stage
    <2>13. sent' = sent /\ y.m.battleMenuFlag2 = menu.battleMenuFlag2
      BY <1>2, <1>5, <2>1
    <2> QED
      BY <2>1, <2>3, <2>4, <2>12, <2>13
  <1>10. CMD_INPUT \notin {RECEIVE_MOVIE, MOVIE, OUT_PRODUCE_INIT}
    BY DEF CMD_INPUT, RECEIVE_MOVIE, MOVIE, OUT_PRODUCE_INIT
  <1>11. InputTypeOK'
    BY <1>2, <1>4, <1>6 DEF InputInv, InputTypeOK
  <1>12. PICK y \in Input :
           /\ y.m = menu' /\ y.s = sent'
           /\ ~mixed => IF y.m.battleMenuFlag2 THEN Begins(y)' ELSE Stage(y)' /\ AI = "AI_NONE"
    BY <1>9
  <1>13. [m |-> menu', s |-> sent'] = y
    BY <1>12, Fields
  <1>14. "PET_MENU_NON" \in menu'.BattleBpFlag => turn'.petNon
    BY <1>5, <1>7
  <1>15. ~menu.battlePetMenuFlag
    BY DEF InputInv
  <1> HIDE DEF x
  <1> QED
    BY <1>2, <1>5, <1>8, <1>10, <1>11, <1>12, <1>13, <1>14, <1>15 DEF InputInv

\* Out of the input: the turn's commands are not looked at any more.
LEMMA LeaveKeeps ==
  ASSUME InputInv, NEW p \in {MOVIE, OUT_PRODUCE_INIT},
         menu' = [menu EXCEPT !.SubProcNo = p],
         turn' = NoTurn, sent' = NothingSent, expired' = FALSE, UNCHANGED <<AI, mixed>>,
         p = MOVIE => menu.SubProcNo = RECEIVE_MOVIE
  PROVE  InputInv'
  <1> USE DEF CMD_INPUT, RECEIVE_MOVIE, MOVIE, OUT_PRODUCE_INIT
  <1>1. menu \in Menu
    BY DEF InputInv, InputTypeOK
  <1>2. menu' \in Menu
    BY <1>1 DEF Menu
  <1>3. /\ menu'.SubProcNo = p /\ menu'.battleMenuFlag = menu.battleMenuFlag
        /\ menu'.hitBox = menu.hitBox /\ menu'.battlePetMenuFlag = menu.battlePetMenuFlag
    BY <1>1 DEF Menu
  <1>4. NoTurn \in Turns /\ NoTurn \in Turn /\ NothingSent \in Sent
    BY DEF NoTurn, Turns, Turn, NothingSent, Sent
  <1>5. InputTypeOK'
    BY <1>2, <1>4 DEF InputInv, InputTypeOK
  <1>6. ~mixed /\ p = MOVIE => menu.battleMenuFlag = {} /\ ~menu.hitBox
    BY DEF InputInv, Given
  <1> QED
    BY <1>3, <1>4, <1>5, <1>6 DEF InputInv

\* Into the input of a turn.
LEMMA BeginTurnKeeps ==
  ASSUME NEW m \in Menu, BeginTurn(m), InputInv, sent = NothingSent, ~m.battlePetMenuFlag,
         UNCHANGED AI, mixed' \in BOOLEAN,
         ~mixed' => m.battleMenuFlag = {} /\ ~m.hitBox
  PROVE  InputInv'
  <1> USE DEF CMD_INPUT, RECEIVE_MOVIE, MOVIE, OUT_PRODUCE_INIT
  <1>1. PICK t \in Situations, non \in BOOLEAN :
           /\ menu' = [m EXCEPT !.SubProcNo = CMD_INPUT, !.battleMenuFlag2 = TRUE,
                                !.BattleBpFlag = (IF non THEN {"PLAYER_MENU_NON"} ELSE {})
                                  \cup (IF t.petNon THEN {"PET_MENU_NON"} ELSE {})]
           /\ turn' = t /\ expired' = FALSE /\ UNCHANGED sent
    BY DEF BeginTurn
  <1>2. t \in Turns /\ t \in Turn
    BY SituationsAssumption DEF Turns
  <1> DEFINE bp == (IF non THEN {"PLAYER_MENU_NON"} ELSE {})
                     \cup (IF t.petNon THEN {"PET_MENU_NON"} ELSE {})
  <1>3. bp \in SUBSET {"PLAYER_MENU_NON", "PET_MENU_NON"} /\ ("PET_MENU_NON" \in bp => t.petNon)
    OBVIOUS
  <1>4. menu' = [m EXCEPT !.SubProcNo = CMD_INPUT, !.battleMenuFlag2 = TRUE, !.BattleBpFlag = bp]
    BY <1>1
  <1> HIDE DEF bp
  <1>5. menu' \in Menu
    <2>1. [m EXCEPT !.SubProcNo = CMD_INPUT] \in Menu
      BY DEF Menu
    <2>2. [m EXCEPT !.SubProcNo = CMD_INPUT, !.battleMenuFlag2 = TRUE] \in Menu
      BY <2>1 DEF Menu
    <2> QED
      BY <1>3, <1>4, <2>2 DEF Menu
  <1>6. /\ menu'.SubProcNo = CMD_INPUT /\ menu'.battleMenuFlag2 /\ menu'.BattleBpFlag = bp
        /\ menu'.battleMenuFlag = m.battleMenuFlag /\ menu'.hitBox = m.hitBox
        /\ ~menu'.battlePetMenuFlag
    BY <1>4 DEF Menu
  <1>7. InputTypeOK'
    BY <1>1, <1>2, <1>5 DEF InputInv, InputTypeOK
  <1> DEFINE y == [m |-> menu', s |-> sent']
  <1>8. y.m = menu' /\ y.s = NothingSent
    BY <1>1
  <1> HIDE DEF y
  <1>9. ~mixed' => Begins(y)
    BY <1>6, <1>8 DEF Begins
  <1> QED
    BY <1>1, <1>2, <1>3, <1>6, <1>7, <1>9 DEF InputInv, Begins, y

LEMMA InputStep == InputInv /\ [InputNext]_inputVars => InputInv'
  <1> SUFFICES ASSUME InputInv, [InputNext]_inputVars
               PROVE  InputInv'
    OBVIOUS
  <1>1. menu \in Menu /\ ~menu.battlePetMenuFlag /\ mixed \in BOOLEAN
    BY DEF InputInv, InputTypeOK
  <1>2. CASE Frame
    BY <1>2, InputFrameKeeps DEF Frame
  <1>3. CASE CountDownOver
    BY <1>3, CountDownOverKeeps
  <1>4. CASE SwitchAI
    BY <1>4, SwitchAIKeeps
  <1>5. CASE BPArrives
    BY <1>5, BPArrivesKeeps
  <1>6. CASE MovieBegins
    BY <1>6, LeaveKeeps DEF MovieBegins
  <1>7. CASE NextTurn
    <2>1. sent = NothingSent /\ (~mixed => menu.battleMenuFlag = {} /\ ~menu.hitBox)
      BY <1>7 DEF NextTurn, InputInv
    <2> QED
      BY <1>1, <1>7, <2>1, BeginTurnKeeps DEF NextTurn
  <1>8. CASE BU_Escape
    <2> DEFINE p == OUT_PRODUCE_INIT
    <2>1. /\ p \in {MOVIE, OUT_PRODUCE_INIT} /\ menu' = [menu EXCEPT !.SubProcNo = p]
          /\ turn' = NoTurn /\ sent' = NothingSent /\ expired' = FALSE
          /\ UNCHANGED <<AI, mixed>>
      BY <1>8 DEF BU_Escape
    <2>2. p # MOVIE
      BY DEF MOVIE, OUT_PRODUCE_INIT
    <2> HIDE DEF p
    <2> QED
      BY <2>1, <2>2, LeaveKeeps
  <1>9. CASE NextBattle
    <2>1. sent = NothingSent
      BY <1>9 DEF NextBattle, InputInv
    <2>2. /\ InitBattleMenu \in Menu /\ InitBattleMenu.battleMenuFlag = {}
          /\ ~InitBattleMenu.hitBox /\ ~InitBattleMenu.battlePetMenuFlag
      BY <1>1 DEF InitBattleMenu, Menu
    <2> QED
      BY <1>9, <2>1, <2>2, BeginTurnKeeps DEF NextBattle
  <1>10. CASE UNCHANGED inputVars
    BY <1>10
      DEF inputVars, InputInv, InputTypeOK, Begins, Stage, PlayerChooses, PlayerChose,
          PetChooses, PetChose, Given, Begun, IdleExcused, PetCanAct
  <1> QED
    BY <1>2, <1>3, <1>4, <1>5, <1>6, <1>7, <1>8, <1>9, <1>10 DEF InputNext

\* The invariant of the input holds, and is inductive.
THEOREM InputInductive == InputSpec => []InputInv
  <1>1. InputInit => InputInv
    BY InputInit_Inv
  <1>2. InputInv /\ [InputNext]_inputVars => InputInv'
    BY InputStep
  <1> QED
    BY <1>1, <1>2, PTL DEF InputSpec

\* The menu's variables keep their types: SubProcNo is advanced once a frame
\* at most, whatever blocks of BattleMenuProc run in it.
THEOREM InputTyped == InputSpec => []InputTypeOK
  <1>1. InputInv => InputTypeOK
    BY DEF InputInv
  <1> QED
    BY <1>1, InputInductive, PTL

\* One command for the player and one for the pet in a turn, from whichever of
\* click, countdown, turn start and AI comes first.
THEOREM CommandedOnce == InputSpec => []OneCommand
  <1>1. InputInv => OneCommand
    <2> SUFFICES ASSUME InputInv, ~mixed
                 PROVE  sent.player =< 1 /\ (turn.skills => sent.pet =< 1)
      BY DEF OneCommand
    <2> DEFINE x == [m |-> menu, s |-> sent]
    <2>1. x.s = sent
      OBVIOUS
    <2>2. CASE menu.SubProcNo \in {MOVIE, OUT_PRODUCE_INIT}
      BY <2>2 DEF InputInv, NothingSent
    <2>3. CASE menu.SubProcNo = RECEIVE_MOVIE
      BY <2>3 DEF InputInv, Given
    <2>4. CASE menu.SubProcNo = CMD_INPUT
      <3>1. Begins(x) \/ Stage(x)
        BY <2>4 DEF InputInv
      <3> HIDE DEF x
      <3> QED
        BY <2>1, <3>1
          DEF Begins, NothingSent, Stage, PlayerChooses, PlayerChose, PetChooses,
              PetChose, PetCanAct
    <2>5. menu.SubProcNo \in CMD_INPUT..OUT_PRODUCE_INIT
      BY DEF InputInv, InputTypeOK, Menu
    <2> QED
      BY <2>2, <2>3, <2>4, <2>5 DEF CMD_INPUT, RECEIVE_MOVIE, MOVIE, OUT_PRODUCE_INIT
  <1> QED
    BY <1>1, InputInductive, PTL

\* The input is left for the movie with every command the server waits for.
THEOREM NoneMissing == InputSpec => []InputComplete
  <1>1. InputInv => InputComplete
    BY DEF InputInv, InputComplete, Given
  <1> QED
    BY <1>1, InputInductive, PTL

\* A pet that could fight idles because of an escape of this turn or the time,
\* never because of a flag an earlier turn or battle has left.
THEOREM IdlesForAReason == InputSpec => []IdleForAReason
  <1>1. InputInv => IdleForAReason
    <2> SUFFICES ASSUME InputInv, sent.idle, turn.alive, turn.skills, ~turn.petNon,
                        ~sent.late, ~sent.ai, ~mixed
                 PROVE  sent.esc
      BY DEF IdleForAReason
    <2> DEFINE x == [m |-> menu, s |-> sent]
    <2>1. x.s = sent
      OBVIOUS
    <2>2. CASE menu.SubProcNo \in {MOVIE, OUT_PRODUCE_INIT}
      BY <2>2 DEF InputInv, NothingSent
    <2>3. CASE menu.SubProcNo = RECEIVE_MOVIE
      BY <2>3 DEF InputInv, Given, IdleExcused
    <2>4. CASE menu.SubProcNo = CMD_INPUT
      <3>1. Begins(x) \/ Stage(x)
        BY <2>4 DEF InputInv
      <3> HIDE DEF x
      <3> QED
        BY <2>1, <3>1
          DEF Begins, NothingSent, Stage, PlayerChooses, PlayerChose, PetChooses,
              PetChose, Begun, IdleExcused
    <2>5. menu.SubProcNo \in CMD_INPUT..OUT_PRODUCE_INIT
      BY DEF InputInv, InputTypeOK, Menu
    <2> QED
      BY <2>2, <2>3, <2>4, <2>5 DEF CMD_INPUT, RECEIVE_MOVIE, MOVIE, OUT_PRODUCE_INIT
  <1> QED
    BY <1>1, InputInductive, PTL

=============================================================================
