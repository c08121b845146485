----------------------------- MODULE Walk_proof -----------------------------
(***************************************************************************)
(* The player stays on the map and the server's messages come in order; a  *)
(* warp is asked for on a square of one only, and the new floor is shown   *)
(* when its map is there.  Where the messages in order leave client and    *)
(* server, they agree on where he stands.  For every map, number of        *)
(* floors, warps and encounters.                                           *)
(***************************************************************************)
EXTENDS Walk, TLAPS

\* What may be on the way.
ToClient == [m : {"C"}, floor : Floor, at : Square]
            \cup [m : {"MC", "M"}, floor : Floor]
            \cup [m : {"EV"}, granted : BOOLEAN]
            \cup [m : {"XYD"}, at : Square]
            \cup [m : {"OwnC", "EN", "Over"}]

ToServer == {msg \in [m : {"W"}, at : Square, dir : Dir] : msg.at + msg.dir \in Square}
            \cup [m : {"EV"}, mode : {"warp", "enemy"}]
            \cup [m : {"M"}, floor : Floor]

Messages == toClient \in Seq(ToClient) /\ toServer \in Seq(ToServer)

\* The rest of the route lies on the floor.
Way(w) == IF w.dir = 1 THEN w.to + w.left =< Last ELSE w.left =< w.to

\* The end of a battle is on the way, or has come: the player is still in
\* its screen, and has asked for no other.
Ending == over \/ IsIn({"XYD", "Over"}, toClient)

EndsInBattle ==
    /\ Ending => screen = "battle" /\ ~ server.battle /\ ~ IsIn({"W", "EV"}, toServer)
    /\ over => ~ IsIn({"XYD", "Over"}, toClient)
    /\ \A i, j \in DOMAIN toClient :
          i < j /\ toClient[i].m = "Over" => toClient[j].m \notin {"XYD", "Over"}

\* He stands still before it begins.
StopsForBattle ==
    /\ screen \in {"toBattle", "battle"} \/ pend = "toBattle" => walk.left = 0
    /\ pend # "none" => screen \in {"walk", "fadeOut"}

\* The event a step ends with: a warp's is of the square the step leads to,
\* and is dealt with in the frame after the arrival.
Pending(w, e, p) ==
    /\ p.sent => ~ e.on
    /\ w.goal => w.at = w.to
    /\ e.on /\ e.mode = "warp" => e.step = 1
    /\ e.on /\ e.mode = "warp" /\ ~ e.cut =>
          EventAt[floor][w.to] = "warp" /\ (w.at = w.to => w.goal)

\* A map counts for the warp it was sent for, unless it was left over.
Awaited(p) == (p.ok => p.start) /\ (p.change /\ p.ok => p.stale)

IInv == /\ TypeOK /\ Messages
        /\ Way(walk) /\ EndsInBattle /\ StopsForBattle
        /\ Pending(walk, event, warp) /\ Awaited(warp)

USE WalkAssumption
----------------------------------------------------------------------------
(* Messages on the way: added behind the others, taken off the front. *)
LEMMA InAppended ==
  ASSUME NEW S, NEW s \in Seq(S), NEW t \in Seq(S), NEW K
  PROVE  /\ s \o t \in Seq(S)
         /\ IsIn(K, s \o t) <=> IsIn(K, s) \/ IsIn(K, t)
  <1>1. /\ s \o t \in Seq(S)
        /\ Len(s \o t) = Len(s) + Len(t) /\ Len(s) \in Nat /\ Len(t) \in Nat
        /\ DOMAIN (s \o t) = 1 .. Len(s \o t) /\ DOMAIN s = 1 .. Len(s) /\ DOMAIN t = 1 .. Len(t)
    OBVIOUS
  <1>2. /\ \A i \in 1 .. Len(s) : (s \o t)[i] = s[i]
        /\ \A i \in 1 .. Len(t) : (s \o t)[Len(s) + i] = t[i]
    OBVIOUS
  <1>3. ASSUME IsIn(K, s \o t) PROVE IsIn(K, s) \/ IsIn(K, t)
    <2>1. PICK i \in 1 .. Len(s) + Len(t) : (s \o t)[i].m \in K
      BY <1>1, <1>3 DEF IsIn
    <2>2. CASE i =< Len(s)
      BY <2>1, <2>2, <1>1, <1>2 DEF IsIn
    <2>3. CASE i > Len(s)
      <3>1. i - Len(s) \in 1 .. Len(t) /\ i = Len(s) + (i - Len(s))
        BY <2>3, <1>1
      <3>2. t[i - Len(s)].m \in K
        BY <3>1, <2>1, <1>2
      <3> QED
        BY <3>1, <3>2, <1>1 DEF IsIn
    <2> QED
      BY <2>2, <2>3, <1>1
  <1>4. ASSUME IsIn(K, s) PROVE IsIn(K, s \o t)
    BY <1>4, <1>1, <1>2 DEF IsIn
  <1>5. ASSUME IsIn(K, t) PROVE IsIn(K, s \o t)
    <2>1. PICK i \in 1 .. Len(t) : t[i].m \in K
      BY <1>1, <1>5 DEF IsIn
    <2>2. Len(s) + i \in DOMAIN (s \o t) /\ (s \o t)[Len(s) + i].m \in K
      BY <2>1, <1>1, <1>2
    <2> QED
      BY <2>2 DEF IsIn
  <1> QED
    BY <1>1, <1>3, <1>4, <1>5

LEMMA InTail ==
  ASSUME NEW S, NEW s \in Seq(S), s # <<>>, NEW K
  PROVE  /\ Head(s) \in S /\ Tail(s) \in Seq(S)
         /\ IsIn(K, Tail(s)) => IsIn(K, s)
         /\ Head(s).m \in K => IsIn(K, s)
  <1>1. /\ Head(s) \in S /\ Head(s) = s[1] /\ Tail(s) \in Seq(S)
        /\ Len(Tail(s)) = Len(s) - 1 /\ Len(s) \in Nat \ {0}
        /\ DOMAIN s = 1 .. Len(s) /\ DOMAIN Tail(s) = 1 .. Len(Tail(s))
        /\ \A i \in 1 .. Len(s) - 1 : Tail(s)[i] = s[i + 1]
    OBVIOUS
  <1>2. ASSUME IsIn(K, Tail(s)) PROVE IsIn(K, s)
    <2>1. PICK i \in 1 .. Len(s) - 1 : Tail(s)[i].m \in K
      BY <1>1, <1>2 DEF IsIn
    <2>2. i + 1 \in DOMAIN s /\ s[i + 1].m \in K
      BY <2>1, <1>1
    <2> QED
      BY <2>2 DEF IsIn
  <1>3. ASSUME Head(s).m \in K PROVE IsIn(K, s)
    <2>1. 1 \in DOMAIN s /\ s[1].m \in K
      BY <1>1, <1>3
    <2> QED
      BY <2>1 DEF IsIn
  <1> QED
    BY <1>1, <1>2, <1>3

(* The end of a battle is told once: behind it comes no other. *)
LEMMA OverLast ==
  ASSUME Messages, EndsInBattle, toClient # <<>>
  PROVE  /\ \A i, j \in DOMAIN Tail(toClient) :
               i < j /\ Tail(toClient)[i].m = "Over" => Tail(toClient)[j].m \notin {"XYD", "Over"}
         /\ Head(toClient).m = "Over" => ~ IsIn({"XYD", "Over"}, Tail(toClient))
  <1>1. /\ Head(toClient) = toClient[1]
        /\ Len(Tail(toClient)) = Len(toClient) - 1 /\ Len(toClient) \in Nat \ {0}
        /\ DOMAIN toClient = 1 .. Len(toClient) /\ DOMAIN Tail(toClient) = 1 .. Len(toClient) - 1
        /\ \A i \in 1 .. Len(toClient) - 1 : Tail(toClient)[i] = toClient[i + 1]
    BY DEF Messages
  <1>2. \A i \in 1 .. Len(toClient) - 1 : i + 1 \in DOMAIN toClient /\ 1 < i + 1 /\ 1 \in DOMAIN toClient
    BY <1>1
  <1>3. \A i, j \in 1 .. Len(toClient) - 1 :
           i < j /\ toClient[i + 1].m = "Over" => toClient[j + 1].m \notin {"XYD", "Over"}
    BY <1>1, <1>2 DEF EndsInBattle
  <1>4. Head(toClient).m = "Over" =>
           \A i \in 1 .. Len(toClient) - 1 : toClient[i + 1].m \notin {"XYD", "Over"}
    BY <1>1, <1>2 DEF EndsInBattle
  <1> QED
    BY <1>1, <1>3, <1>4 DEF IsIn
----------------------------------------------------------------------------
(* What a message carries. *)
LEMMA Carried ==
  /\ \A msg \in ToClient :
        /\ msg.m \in {"C", "XYD"} => msg.at \in Square
        /\ msg.m = "EV" => msg.granted \in BOOLEAN
        /\ msg.m \in {"C", "MC", "M"} => msg.floor \in Floor
  /\ \A msg \in ToServer :
        /\ msg.m = "W" => msg.at + msg.dir \in Square
        /\ msg.m = "M" => msg.floor \in Floor
  BY DEF ToClient, ToServer

(* moveProc, whatever is clicked: the step stays on the floor, and what is  *)
(* kept of an event belongs to the step under way.                          *)
LEMMA MovedKeeps ==
  ASSUME NEW w \in Walks, NEW reach \in BOOLEAN, Way(w)
  PROVE  /\ Moved(w, reach) \in Walks /\ Way(Moved(w, reach))
         /\ Moved(w, reach).to = w.to
         /\ Moved(w, reach).goal => Moved(w, reach).at = w.to
         /\ w.at # w.to /\ Moved(w, reach).at = w.to => Moved(w, reach).goal
         /\ w.at = w.to => Moved(w, reach).at = w.at
  BY DEF Walks, Moved, Way

LEMMA RouteOnFloor ==
  ASSUME NEW w \in Walks, Way(w), w.at = w.to
  PROVE  /\ GetRouteMap(w) \in Walks /\ Way(GetRouteMap(w))
         /\ GetRouteMap(w).at = w.at /\ GetRouteMap(w).to = w.to
         /\ GetRouteMap(w).goal = w.goal
  <1>1. w.to \in Int /\ Last \in Int /\ w.stack \in Int
    BY DEF Walks, Square, Nowhere
  <1>2. CASE w.stack \in {Nowhere, w.at}
    BY <1>1, <1>2 DEF Walks, GetRouteMap, Way, Nowhere
  <1>3. CASE w.stack \notin {Nowhere, w.at}
    <2>1. w.stack \in 0 .. Last /\ w.at \in 0 .. Last
      BY <1>3 DEF Walks, Square
    <2>2. PICK d \in Dir, n \in 0 .. Last :
             /\ GetRouteMap(w) = [w EXCEPT !.stack = Nowhere, !.dir = d, !.left = n]
             /\ IF d = 1 THEN w.at + n =< Last ELSE n =< w.at
      <3>1. CASE w.stack > w.at
        <4>1. w.stack - w.at \in 0 .. Last /\ 1 \in Dir /\ w.at + (w.stack - w.at) =< Last
          BY <2>1, <1>1, <3>1 DEF Dir
        <4>2. GetRouteMap(w) = [w EXCEPT !.stack = Nowhere, !.dir = 1, !.left = w.stack - w.at]
          BY <1>3, <3>1 DEF GetRouteMap
        <4> QED
          BY <4>1, <4>2
      <3>2. CASE ~ (w.stack > w.at)
        <4>1. w.at - w.stack \in 0 .. Last /\ -1 \in Dir /\ -1 # 1 /\ w.at - w.stack =< w.at
          BY <2>1, <1>1, <3>2 DEF Dir
        <4>2. GetRouteMap(w) = [w EXCEPT !.stack = Nowhere, !.dir = -1, !.left = w.at - w.stack]
          BY <1>3, <3>2 DEF GetRouteMap
        <4> QED
          BY <4>1, <4>2
      <3> QED
        BY <3>1, <3>2
    <2> QED
      BY <2>2, <1>1 DEF Walks, Way
  <1> QED
    BY <1>2, <1>3

LEMMA ResetKeeps ==
  ASSUME NEW w \in Walks
  PROVE  /\ ResetMap(w) \in Walks /\ Way(ResetMap(w))
         /\ ResetMap(w).at = NowGx(w) /\ ResetMap(w).to = NowGx(w)
         /\ ResetMap(w).left = 0 /\ ResetMap(w).goal = w.goal
         /\ w.at = w.to => NowGx(w) = w.at
  <1>1. NowGx(w) \in Square /\ 0 \in 0 .. Last /\ Nowhere \in Square \cup {Nowhere}
    BY DEF Walks, NowGx, Square
  <1>2. ResetMap(w) = [w EXCEPT !.at = NowGx(w), !.to = NowGx(w), !.left = 0, !.stack = Nowhere]
    BY DEF Walks, ResetMap, PutAt
  <1>3. NowGx(w) \in Int /\ NowGx(w) + 0 =< Last /\ 0 =< NowGx(w)
    BY <1>1 DEF Square
  <1>4. w.at = w.to => NowGx(w) = w.at
    BY DEF NowGx
  <1> QED
    BY <1>1, <1>2, <1>3, <1>4 DEF Walks, Way

LEMMA NextSquare ==
  ASSUME NEW w \in Walks, Way(w), w.at = w.to, w.left > 0
  PROVE  /\ w.at + w.dir \in Square /\ w.at + w.dir # w.at
         /\ [w EXCEPT !.left = 0, !.goal = FALSE] \in Walks
         /\ \A rest \in {0, w.left - 1} :
               /\ [w EXCEPT !.left = rest, !.to = w.at + w.dir] \in Walks
               /\ Way([w EXCEPT !.left = rest, !.to = w.at + w.dir])
  <1>1. /\ w.at \in 0 .. Last /\ w.left \in 1 .. Last /\ w.dir \in {-1, 1}
        /\ IF w.dir = 1 THEN w.at + w.left =< Last ELSE w.left =< w.at
    BY DEF Walks, Way, Square, Dir
  <1>2. /\ w.at + w.dir \in 0 .. Last /\ w.at + w.dir # w.at
        /\ 0 \in 0 .. Last /\ w.left - 1 \in 0 .. Last
        /\ IF w.dir = 1 THEN w.at + w.dir + (w.left - 1) =< Last /\ w.at + w.dir + 0 =< Last
           ELSE w.left - 1 =< w.at + w.dir /\ 0 =< w.at + w.dir
    BY <1>1
  <1>3. ASSUME NEW rest \in {0, w.left - 1}
        PROVE  /\ [w EXCEPT !.left = rest, !.to = w.at + w.dir] \in Walks
               /\ Way([w EXCEPT !.left = rest, !.to = w.at + w.dir])
    BY <1>2, <1>3 DEF Walks, Way, Square
  <1> QED
    BY <1>2, <1>3 DEF Walks, Square

LEMMA CheckedEvent ==
  ASSUME event \in Events, NEW x \in Square, floor \in Floor, EventAt[floor][x] # "none"
  PROVE  /\ EtcEventCheck(x) \in Events /\ EtcEventCheck(x).on
         /\ EtcEventCheck(x).mode = EventAt[floor][x]
         /\ EtcEventCheck(x).mode = "warp" => EtcEventCheck(x).step = 1
  BY DEF Events, EtcEventCheck

\* What a frame of moveProc leaves behind.
Kept(o) == /\ o.walk \in Walks /\ o.event \in Events /\ o.warp \in Warps
           /\ o.screen \in {"walk", "fadeOut"} /\ o.sent \in Seq(ToServer)
           /\ Way(o.walk) /\ Pending(o.walk, o.event, o.warp) /\ Awaited(o.warp)

(* _execEtcEvent: the player is where the event is, and the flags of a warp *)
(* left over are known.                                                     *)
LEMMA ExecKeeps ==
  ASSUME IInv, Due
  PROVE  /\ Kept(ExecEtcEvent)
         /\ ExecEtcEvent.warp.sent /\ ~ event.cut =>
               /\ ExecEtcEvent.walk.at = ExecEtcEvent.walk.to
               /\ EventAt[floor][ExecEtcEvent.walk.at] = "warp"
  <1>1. /\ walk \in Walks /\ warp \in Warps /\ event \in Events
        /\ event.on /\ ~ warp.sent /\ (event.step = 0 \/ walk.goal)
        /\ Pending(walk, event, warp) /\ Awaited(warp)
    BY DEF IInv, TypeOK, Due
  <1>2. /\ ResetMap(walk) \in Walks /\ Way(ResetMap(walk)) /\ NoEvent \in Events /\ ~ NoEvent.on
        /\ ResetMap(walk).at = ResetMap(walk).to
    BY <1>1, ResetKeeps DEF NoEvent, Events
  <1>3. CASE event.mode = "warp"
    <2> DEFINE p == [warp EXCEPT !.sent = TRUE, !.effect = TRUE, !.change = TRUE,
                                 !.stale = warp.start /\ warp.ok]
    <2>1. p \in Warps /\ Awaited(p)
      BY <1>1 DEF Warps, Awaited
    <2>2. ExecEtcEvent = Outcome(ResetMap(walk), NoEvent, p, "fadeOut", <<[m |-> "EV", mode |-> "warp"]>>)
      BY <1>3 DEF ExecEtcEvent
    <2>3. [m |-> "EV", mode |-> "warp"] \in ToServer
      BY DEF ToServer
    <2>4. <<[m |-> "EV", mode |-> "warp"]>> \in Seq(ToServer)
      BY <2>3
    <2>5. Pending(ResetMap(walk), NoEvent, p)
      BY <1>2 DEF Pending
    <2>6. ~ event.cut => EventAt[floor][ResetMap(walk).at] = "warp"
      BY <1>1, <1>3, ResetKeeps DEF Pending
    <2> HIDE DEF p
    <2> QED
      BY <1>2, <2>1, <2>2, <2>4, <2>5, <2>6 DEF Kept, Outcome
  <1>4. CASE event.mode # "warp"
    <2>1. ExecEtcEvent = Outcome(ResetMap(walk), NoEvent, warp, "walk", <<[m |-> "EV", mode |-> "enemy"]>>)
      BY <1>4 DEF ExecEtcEvent
    <2>2. [m |-> "EV", mode |-> "enemy"] \in ToServer
      BY DEF ToServer
    <2>3. <<[m |-> "EV", mode |-> "enemy"]>> \in Seq(ToServer)
      BY <2>2
    <2>4. Pending(ResetMap(walk), NoEvent, warp)
      BY <1>2 DEF Pending
    <2> QED
      BY <1>1, <1>2, <2>1, <2>3, <2>4 DEF Kept, Outcome
  <1> QED
    BY <1>3, <1>4

\* An uncut event of a warp is not left behind by a player who stands.
LEMMA StandsWithout ==
  ASSUME IInv, ~ Due, walk.at = walk.to, ~ warp.sent
  PROVE  event.on /\ event.mode = "warp" => event.cut
  BY DEF IInv, Due, Pending

(* One square of the way. *)
LEMMA StepKeeps ==
  ASSUME IInv, ~ Due, NEW reach \in BOOLEAN, NEW w \in Walks, Way(w), w.at = w.to, w.left > 0,
         walk.at = walk.to, ~ warp.sent
  PROVE  Kept(Step(w, reach)) /\ Step(w, reach).warp = warp
  <1> DEFINE x == w.at + w.dir
             rest == IF EventAt[floor][x] = "none" THEN w.left - 1 ELSE 0
             v == [w EXCEPT !.left = rest, !.to = x]
             h == [w EXCEPT !.left = 0, !.goal = FALSE]
  <1>1. /\ warp \in Warps /\ event \in Events /\ floor \in Floor
        /\ Awaited(warp) /\ (event.on /\ event.mode = "warp" => event.cut) /\ Pending(walk, event, warp)
    BY StandsWithout DEF IInv, TypeOK
  <1>2. /\ x \in Square /\ x # w.at
        /\ v \in Walks /\ Way(v) /\ h \in Walks
    BY NextSquare
  <1>3. v.to = x /\ v.at = w.at /\ h.to = h.at /\ ~ h.goal /\ Way(h)
    BY DEF Walks, Way, Square
  <1>4. StepSent(w) \in Seq(ToServer)
    <2>1. [m |-> "W", at |-> w.at, dir |-> w.dir] \in ToServer
      BY <1>2 DEF ToServer, Walks
    <2> QED
      BY <2>1 DEF StepSent
  <1> DEFINE e == EtcEventCheck(x)
  <1>5. /\ e \in Events
        /\ EventAt[floor][x] = "none" => e = event
        /\ EventAt[floor][x] # "none" => e.on /\ e.mode = EventAt[floor][x]
        /\ EventAt[floor][x] # "none" /\ e.mode = "warp" => e.step = 1
    BY <1>1, <1>2, CheckedEvent DEF EtcEventCheck
  <1>6. CASE EventAt[floor][x] = "enemy"
    <2>1. Step(w, reach) = Outcome(h, e, warp, "walk", <<>>)
      BY <1>6 DEF Step
    <2>2. Pending(h, e, warp)
      BY <1>3, <1>5, <1>6, <1>1 DEF Pending
    <2>3. <<>> \in Seq(ToServer)
      OBVIOUS
    <2> HIDE DEF h, e, x
    <2> QED
      BY <1>1, <1>2, <1>3, <1>5, <2>1, <2>2, <2>3 DEF Kept, Outcome
  <1>7. CASE EventAt[floor][x] # "enemy"
    <2>1. Step(w, reach) = Outcome(Moved(v, reach), e, warp, "walk", StepSent(w))
      BY <1>7 DEF Step
    <2> HIDE DEF v, e, x
    <2>2. /\ Moved(v, reach) \in Walks /\ Way(Moved(v, reach))
          /\ Moved(v, reach).to = x
          /\ Moved(v, reach).goal => Moved(v, reach).at = x
          /\ Moved(v, reach).at = x => Moved(v, reach).goal
      BY <1>2, <1>3, MovedKeeps
    <2>3. EventAt[floor][x] \in {"none", "warp"}
      BY <1>1, <1>2, <1>7
    <2>4. Pending(Moved(v, reach), e, warp)
      BY <1>1, <1>5, <2>2, <2>3 DEF Pending
    <2> QED
      BY <1>1, <1>4, <1>5, <2>1, <2>2, <2>4 DEF Kept, Outcome
  <1> QED
    BY <1>6, <1>7

(* A frame of moveProc. *)
LEMMA MoveProcKeeps ==
  ASSUME IInv, NEW click \in Square \cup {Nowhere}, NEW reach \in BOOLEAN
  PROVE  /\ Kept(MoveProc(click, reach))
         /\ ~ warp.sent /\ MoveProc(click, reach).warp.sent /\ ~ event.cut =>
               /\ MoveProc(click, reach).walk.at = MoveProc(click, reach).walk.to
               /\ EventAt[floor][MoveProc(click, reach).walk.at] = "warp"
  <1> DEFINE c == IF click # Nowhere /\ ~ warp.sent THEN [walk EXCEPT !.stack = click] ELSE walk
             w == IF MayWalk(c) THEN GetRouteMap(c) ELSE c
  <1>1. /\ walk \in Walks /\ warp \in Warps /\ event \in Events
        /\ Way(walk) /\ Pending(walk, event, warp) /\ Awaited(warp)
    BY DEF IInv, TypeOK
  <1>2. /\ c \in Walks /\ Way(c)
        /\ c.at = walk.at /\ c.to = walk.to /\ c.goal = walk.goal
    BY <1>1 DEF Walks, Way
  <1>3. /\ w \in Walks /\ Way(w)
        /\ w.at = walk.at /\ w.to = walk.to /\ w.goal = walk.goal
    <2> HIDE DEF c
    <2> QED
      BY <1>2, RouteOnFloor DEF MayWalk
  <1>4. MoveProc(click, reach) =
           IF Due THEN ExecEtcEvent
           ELSE IF MayWalk(w) /\ w.left > 0 THEN Step(w, reach)
           ELSE Outcome(Moved(w, reach), event, warp, "walk", <<>>)
    BY DEF MoveProc
  <1> HIDE DEF c, w
  <1>5. CASE Due
    BY <1>4, <1>5, ExecKeeps
  <1>6. CASE ~ Due /\ MayWalk(w) /\ w.left > 0
    BY <1>3, <1>4, <1>6, StepKeeps DEF MayWalk
  <1>7. CASE ~ Due /\ ~ (MayWalk(w) /\ w.left > 0)
    <2>1. MoveProc(click, reach) = Outcome(Moved(w, reach), event, warp, "walk", <<>>)
      BY <1>4, <1>7
    <2>2. /\ Moved(w, reach) \in Walks /\ Way(Moved(w, reach))
          /\ Moved(w, reach).to = w.to
          /\ Moved(w, reach).goal => Moved(w, reach).at = w.to
          /\ w.at # w.to /\ Moved(w, reach).at = w.to => Moved(w, reach).goal
          /\ w.at = w.to => Moved(w, reach).at = w.at
      BY <1>3, MovedKeeps
    <2>3. walk.at = walk.to /\ ~ warp.sent => (event.on /\ event.mode = "warp" => event.cut)
      BY <1>7, StandsWithout
    <2>4. Pending(Moved(w, reach), event, warp)
      BY <1>1, <1>3, <2>2, <2>3 DEF Pending
    <2>5. <<>> \in Seq(ToServer)
      OBVIOUS
    <2> QED
      BY <1>1, <2>1, <2>2, <2>4, <2>5 DEF Kept, Outcome
  <1> QED
    BY <1>5, <1>6, <1>7
----------------------------------------------------------------------------
(* The invariant holds at first and every step preserves it. *)
LEMMA InvInit == Init => IInv
  <1> SUFFICES ASSUME Init PROVE IInv
    OBVIOUS
  <1>1. floor \in Floor /\ screen = "walk" /\ pend = "none" /\ pcShown = TRUE /\ encount = FALSE
        /\ encountNow = FALSE /\ over = FALSE /\ refused = FALSE /\ astray = FALSE
    BY DEF Init
  <1>2. walk \in Walks /\ Way(walk) /\ walk.left = 0 /\ ~ walk.goal
    BY DEF Init, Walks, Way, Square, Nowhere, Dir
  <1>3. event \in Events /\ ~ event.on
    BY DEF Init, Events, NoEvent
  <1>4. warp \in Warps /\ ~ warp.sent /\ ~ warp.ok
    BY DEF Init, Warps
  <1>5. server \in [floor : Floor, at : Square, battle : BOOLEAN,
                    warps : 0 .. MaxWarps, battles : 0 .. MaxBattles]
    BY DEF Init
  <1>6. toClient = <<>> /\ toServer = <<>>
    BY DEF Init
  <1>7. Messages /\ \A K : ~ IsIn(K, toClient) /\ ~ IsIn(K, toServer)
    BY <1>6 DEF Messages, IsIn
  <1>8. EndsInBattle
    BY <1>1, <1>6, <1>7 DEF EndsInBattle, Ending
  <1>9. TypeOK
    BY <1>1, <1>2, <1>3, <1>4, <1>5 DEF TypeOK, Screens
  <1> QED
    BY <1>1, <1>2, <1>3, <1>4, <1>7, <1>8, <1>9 DEF IInv, StopsForBattle, Pending, Awaited

LEMMA CutKeeps ==
  ASSUME NEW e \in Events
  PROVE  /\ Cut(e) \in Events /\ Cut(e).cut = e.on
         /\ Cut(e).on = e.on /\ Cut(e).mode = e.mode /\ Cut(e).step = e.step
  BY DEF Events, Cut

LEMMA WalkFrameKeeps ==
  ASSUME IInv, NEW click \in Square \cup {Nowhere}, NEW reach \in BOOLEAN, WalkFrame(click, reach)
  PROVE  IInv'
  <1> DEFINE o == MoveProc(click, reach)
  <1>1. Kept(o)
    BY MoveProcKeeps
  <1>2. /\ screen = "walk" /\ pend = "none" /\ toServer' = toServer \o o.sent
        /\ warp' = o.warp /\ screen' = o.screen
        /\ floor' = floor /\ encount' = encount /\ over' = over /\ toClient' = toClient
        /\ server' = server /\ refused' = refused
        /\ astray' \in BOOLEAN
        /\ IF encount THEN Encounter(o)
           ELSE walk' = o.walk /\ event' = o.event /\ UNCHANGED <<pend, encountNow, pcShown>>
    BY DEF WalkFrame, link
  <1> HIDE DEF o
  <1>3. Messages'
    <2>1. toServer' \in Seq(ToServer)
      BY <1>1, <1>2, InAppended DEF IInv, Messages, Kept
    <2> QED
      BY <1>2, <2>1 DEF IInv, Messages
  <1>4. /\ walk' \in Walks /\ Way(walk)' /\ event' \in Events /\ Pending(walk, event, warp)'
        /\ pend' \in {"none", "toBattle", "fadeOut"} /\ (pend' = "toBattle" => walk'.left = 0)
        /\ encountNow' \in BOOLEAN /\ pcShown' \in BOOLEAN
    <2>1. CASE encount
      <3>1. /\ walk' = ResetMap(o.walk) /\ event' = Cut(o.event)
            /\ pend' \in {"toBattle", "fadeOut"} /\ encountNow' = TRUE /\ pcShown' = FALSE
        BY <1>2, <2>1 DEF Encounter
      <3>2. /\ walk' \in Walks /\ Way(walk)' /\ walk'.left = 0
            /\ walk'.at = walk'.to
        BY <1>1, <3>1, ResetKeeps DEF Kept
      <3>3. Cut(o.event) \in Events /\ Cut(o.event).on = o.event.on
            /\ Cut(o.event).mode = o.event.mode /\ Cut(o.event).step = o.event.step
            /\ Cut(o.event).cut = o.event.on
        BY <1>1, CutKeeps DEF Kept
      <3>4. Pending(walk, event, warp)'
        BY <1>1, <1>2, <3>1, <3>2, <3>3 DEF Kept, Pending
      <3> QED
        BY <3>1, <3>2, <3>3, <3>4
    <2>2. CASE ~ encount
      <3>1. walk' = o.walk /\ event' = o.event /\ pend' = pend /\ encountNow' = encountNow /\ pcShown' = pcShown
        BY <1>2, <2>2
      <3> QED
        BY <1>1, <1>2, <3>1 DEF IInv, TypeOK, Kept, Pending
    <2> QED
      BY <2>1, <2>2
  <1>5. TypeOK'
    BY <1>1, <1>2, <1>4 DEF IInv, TypeOK, Kept, Screens
  <1>6. EndsInBattle'
    <2>1. ~ Ending
      BY <1>2 DEF IInv, EndsInBattle
    <2> QED
      BY <1>2, <2>1 DEF IInv, EndsInBattle, Ending, IsIn
  <1>7. StopsForBattle'
    BY <1>1, <1>2, <1>4 DEF StopsForBattle, Kept
  <1> QED
    BY <1>1, <1>2, <1>3, <1>4, <1>5, <1>6, <1>7 DEF IInv, Kept, Pending, Awaited, Way

(* The screens that take no message and send none. *)
LEMMA ScreenKeeps ==
  ASSUME IInv,
         \/ TakePending \/ FadedOut \/ NewMap \/ FadedIn
         \/ BattleBegins \/ BattleEnds \/ Clear
         \/ \E next \in {"clear", "walk"} : Start(next)
  PROVE  IInv'
  <1> USE DEF TakePending, FadedOut, NewMap, FadedIn, BattleBegins, BattleEnds, Clear, Start, Goto
  <1>1. /\ UNCHANGED <<floor, walk, event, toClient, toServer, server, refused, astray>>
        /\ warp' \in {warp, [warp EXCEPT !.start = FALSE, !.ok = FALSE, !.stale = FALSE]}
    BY DEF link
  <1>2. warp' \in Warps /\ warp'.sent = warp.sent /\ Awaited(warp)'
    BY <1>1 DEF IInv, TypeOK, Warps, Awaited
  <1>3. /\ screen' \in Screens /\ pend' \in {"none", "toBattle", "fadeOut"}
        /\ pcShown' \in BOOLEAN /\ encount' \in BOOLEAN /\ encountNow' \in BOOLEAN /\ over' \in BOOLEAN
    BY DEF IInv, TypeOK, Screens
  <1>4. TypeOK'
    BY <1>1, <1>2, <1>3 DEF IInv, TypeOK
  <1>5. StopsForBattle'
    BY <1>1 DEF IInv, TypeOK, StopsForBattle
  <1>6. EndsInBattle'
    <2>1. CASE Ending
      <3>1. screen = "battle" /\ pend = "none"
        BY <2>1 DEF IInv, EndsInBattle, StopsForBattle, TypeOK
      <3>2. over /\ over' = FALSE
        BY <3>1
      <3> QED
        BY <1>1, <3>2 DEF IInv, EndsInBattle, Ending, IsIn
    <2>2. CASE ~ Ending
      <3>1. ~ over /\ (over' => over)
        BY <2>2 DEF Ending
      <3> QED
        BY <1>1, <2>2, <3>1 DEF IInv, EndsInBattle, Ending, IsIn
    <2> QED
      BY <2>1, <2>2
  <1> QED
    BY <1>1, <1>2, <1>4, <1>5, <1>6 DEF IInv, Messages, Way, Pending

(* The handlers.  What they leave of the messages is in order. *)
LEMMA Received ==
  ASSUME IInv, NEW kind, Receive(kind)
  PROVE  /\ toClient # <<>> /\ Head(toClient) \in ToClient /\ Head(toClient).m = kind
         /\ toClient' = Tail(toClient) /\ toClient' \in Seq(ToClient)
         /\ kind \in {"XYD", "Over"} => Ending
         /\ IsIn({"XYD", "Over"}, toClient') => IsIn({"XYD", "Over"}, toClient)
         /\ \A i, j \in DOMAIN toClient' :
               i < j /\ toClient'[i].m = "Over" => toClient'[j].m \notin {"XYD", "Over"}
         /\ kind = "Over" => ~ IsIn({"XYD", "Over"}, toClient')
  <1>1. toClient # <<>> /\ Head(toClient).m = kind /\ toClient' = Tail(toClient)
    BY DEF Receive
  <1>2. toClient \in Seq(ToClient)
    BY DEF IInv, Messages
  <1>3. /\ Head(toClient) \in ToClient /\ Tail(toClient) \in Seq(ToClient)
        /\ IsIn({"XYD", "Over"}, Tail(toClient)) => IsIn({"XYD", "Over"}, toClient)
        /\ Head(toClient).m \in {"XYD", "Over"} => IsIn({"XYD", "Over"}, toClient)
    BY <1>1, <1>2, InTail
  <1> QED
    BY <1>1, <1>3, OverLast DEF IInv, Ending

\* A handler sends nothing, and the battle goes on as it was.
LEMMA HandlerEnds ==
  ASSUME IInv, NEW kind, Receive(kind), toServer' = toServer, server' = server,
         over' => over, screen = "battle" => screen' = "battle"
  PROVE  EndsInBattle' /\ Messages'
  <1>1. Ending' => Ending
    BY Received DEF Ending
  <1>2. over' => ~ IsIn({"XYD", "Over"}, toClient')
    BY Received DEF IInv, EndsInBattle
  <1>3. Messages'
    BY Received DEF IInv, Messages
  <1> QED
    BY <1>1, <1>2, <1>3, Received DEF IInv, EndsInBattle, IsIn

LEMMA C_recvKeeps ==
  ASSUME IInv, C_recv
  PROVE  IInv'
  <1> DEFINE msg == Head(toClient)
             left == [warp EXCEPT !.change = TRUE, !.stale = warp.start /\ warp.ok]
             fade == [left EXCEPT !.effect = FALSE, !.start = TRUE]
  <1>1. /\ Receive("C") /\ floor' = msg.floor /\ walk' = ResetMap(PutAt(walk, msg.at)) /\ event' = Cut(event)
        /\ IF screen = "battle" THEN warp' = left /\ UNCHANGED <<screen, pcShown>>
           ELSE /\ warp' = fade /\ pcShown' = FALSE
                /\ screen' = IF warp.effect THEN screen ELSE "fadeOut"
        /\ astray' = (astray \/ IsIn({"W"}, toServer))
        /\ UNCHANGED <<pend, encount, encountNow, over, toServer, server, refused>>
    BY DEF C_recv
  <1>2. msg.at \in Square /\ msg.floor \in Floor
    BY <1>1, Received, Carried
  <1>3. PutAt(walk, msg.at) \in Walks /\ PutAt(walk, msg.at).at = PutAt(walk, msg.at).to
    BY <1>2 DEF IInv, TypeOK, Walks, PutAt
  <1>4. walk' \in Walks /\ Way(walk)' /\ walk'.left = 0 /\ walk'.at = walk'.to
    BY <1>1, <1>3, ResetKeeps
  <1>5. /\ event' \in Events /\ event'.cut = event.on /\ event'.on = event.on
        /\ event'.mode = event.mode /\ event'.step = event.step
    BY <1>1, CutKeeps DEF IInv, TypeOK
  <1>6. /\ left \in Warps /\ fade \in Warps /\ Awaited(left) /\ Awaited(fade)
        /\ left.sent = warp.sent /\ fade.sent = warp.sent
    BY DEF IInv, TypeOK, Warps, Awaited
  <1> HIDE DEF left, fade
  <1>7. warp' \in Warps /\ Awaited(warp)' /\ warp'.sent = warp.sent
    BY <1>1, <1>6 DEF Awaited
  <1>8. Pending(walk, event, warp)'
    BY <1>4, <1>5, <1>7 DEF IInv, Pending
  <1>9. TypeOK'
    BY <1>1, <1>2, <1>4, <1>5, <1>7 DEF IInv, TypeOK, Screens
  <1>10. EndsInBattle' /\ Messages'
    BY <1>1, HandlerEnds
  <1>11. StopsForBattle'
    BY <1>1, <1>4 DEF IInv, StopsForBattle
  <1> QED
    BY <1>4, <1>7, <1>8, <1>9, <1>10, <1>11 DEF IInv

\* The map of the floor is there, or it is another's.
LEMMA MapHereKeeps ==
  ASSUME warp \in Warps, Awaited(warp), NEW f
  PROVE  MapHere(f) \in Warps /\ Awaited(MapHere(f)) /\ MapHere(f).sent = warp.sent
  BY DEF Warps, Awaited, MapHere

LEMMA MapKeeps ==
  ASSUME IInv, M_recv \/ \E known \in BOOLEAN : MC_recv(known)
  PROVE  IInv'
  <1>1. PICK kind \in {"MC", "M"} :
           /\ Receive(kind)
           /\ UNCHANGED <<screen, pend, floor, walk, event, pcShown, encount, encountNow, over,
                          server, refused, astray>>
           /\ warp' \in {warp, MapHere(Head(toClient).floor)}
           /\ \/ toServer' = toServer
              \/ toServer' = Append(toServer, [m |-> "M", floor |-> Head(toClient).floor])
    BY DEF M_recv, MC_recv
  <1>2. Head(toClient).floor \in Floor
    BY <1>1, Received, Carried
  <1>3. warp' \in Warps /\ Awaited(warp)' /\ warp'.sent = warp.sent
    BY <1>1, MapHereKeeps DEF IInv, TypeOK, Awaited
  <1>4. toServer' \in Seq(ToServer) /\ (IsIn({"W", "EV"}, toServer') => IsIn({"W", "EV"}, toServer))
    <2>1. toServer \in Seq(ToServer)
      BY DEF IInv, Messages
    <2>2. CASE toServer' = toServer
      BY <2>1, <2>2
    <2>3. CASE toServer' # toServer
      <3> DEFINE asked == [m |-> "M", floor |-> Head(toClient).floor]
      <3>1. asked \in ToServer /\ asked.m = "M"
        BY <1>2 DEF ToServer
      <3> HIDE DEF asked
      <3>2. toServer' = toServer \o <<asked>> /\ <<asked>> \in Seq(ToServer)
        BY <1>1, <2>1, <2>3, <3>1 DEF asked
      <3>3. ~ IsIn({"W", "EV"}, <<asked>>)
        BY <3>1 DEF IsIn
      <3> QED
        BY <2>1, <3>2, <3>3, InAppended
    <2> QED
      BY <2>2, <2>3
  <1>5. TypeOK' /\ StopsForBattle' /\ Way(walk)' /\ Pending(walk, event, warp)'
    BY <1>1, <1>3 DEF IInv, TypeOK, StopsForBattle, Way, Pending
  <1>6. Messages'
    BY <1>1, <1>4, Received DEF Messages
  <1>7. EndsInBattle'
    <2>1. Ending' => Ending
      BY <1>1, Received DEF Ending
    <2> QED
      BY <1>1, <1>4, <2>1, Received DEF IInv, EndsInBattle, IsIn
  <1> QED
    BY <1>3, <1>5, <1>6, <1>7 DEF IInv

LEMMA OwnC_recvKeeps ==
  ASSUME IInv, OwnC_recv
  PROVE  IInv'
  <1>1. EndsInBattle' /\ Messages'
    BY HandlerEnds DEF OwnC_recv
  <1>2. TypeOK'
    BY DEF IInv, TypeOK, OwnC_recv
  <1> QED
    BY <1>1, <1>2 DEF IInv, OwnC_recv, StopsForBattle, Way, Pending, Awaited

LEMMA EV_recvKeeps ==
  ASSUME IInv, EV_recv
  PROVE  IInv'
  <1>1. EndsInBattle' /\ Messages'
    BY HandlerEnds DEF EV_recv
  <1>2. warp' \in Warps /\ Awaited(warp)' /\ ~ warp'.sent
    BY DEF IInv, TypeOK, EV_recv, Warps, Awaited
  <1>3. TypeOK'
    <2>1. Head(toClient).granted \in BOOLEAN
      BY Received, Carried DEF EV_recv
    <2>2. refused' \in BOOLEAN
      BY <2>1 DEF IInv, TypeOK, EV_recv
    <2> QED
      BY <1>2, <2>2 DEF IInv, TypeOK, EV_recv
  <1> QED
    BY <1>1, <1>2, <1>3 DEF IInv, EV_recv, StopsForBattle, Way, Pending

LEMMA EN_recvKeeps ==
  ASSUME IInv, EN_recv
  PROVE  IInv'
  <1>1. EndsInBattle' /\ Messages'
    BY HandlerEnds DEF EN_recv
  <1>2. TypeOK'
    BY DEF IInv, TypeOK, EN_recv
  <1> QED
    BY <1>1, <1>2 DEF IInv, EN_recv, StopsForBattle, Way, Pending, Awaited

(* The position after a battle comes while the player stands in its screen: *)
(* no route is left that could lead off the floor from there.               *)
LEMMA XYD_recvKeeps ==
  ASSUME IInv, XYD_recv
  PROVE  IInv'
  <1>1. /\ Receive("XYD") /\ walk' = PutAt(walk, Head(toClient).at) /\ event' = Cut(event)
        /\ astray' = (astray \/ IsIn({"W"}, toServer))
        /\ UNCHANGED <<screen, pend, floor, warp, pcShown, encount, encountNow, over,
                       toServer, server, refused>>
    BY DEF XYD_recv
  <1>2. Head(toClient).at \in Square
    BY <1>1, Received, Carried
  <1>3. walk.left = 0
    BY <1>1, Received DEF IInv, EndsInBattle, StopsForBattle
  <1>4. walk' \in Walks /\ walk'.left = 0 /\ walk'.at = walk'.to
    BY <1>1, <1>2, <1>3 DEF IInv, TypeOK, Walks, PutAt
  <1>5. Way(walk)'
    BY <1>4 DEF Walks, Way, Square
  <1>6. /\ event' \in Events /\ event'.cut = event.on /\ event'.on = event.on
        /\ event'.mode = event.mode /\ event'.step = event.step
    BY <1>1, CutKeeps DEF IInv, TypeOK
  <1>7. Pending(walk, event, warp)'
    BY <1>1, <1>4, <1>6 DEF IInv, Pending
  <1>8. EndsInBattle' /\ Messages'
    BY <1>1, HandlerEnds
  <1>9. TypeOK'
    BY <1>1, <1>4, <1>6 DEF IInv, TypeOK
  <1> QED
    BY <1>1, <1>4, <1>5, <1>7, <1>8, <1>9 DEF IInv, StopsForBattle, Awaited

LEMMA Over_recvKeeps ==
  ASSUME IInv, Over_recv
  PROVE  IInv'
  <1>1. /\ Receive("Over") /\ over' = TRUE
        /\ UNCHANGED <<screen, pend, floor, walk, event, warp, pcShown, encount, encountNow,
                       toServer, server, refused, astray>>
    BY DEF Over_recv
  <1>2. EndsInBattle' /\ Messages'
    <2>1. Ending
      BY <1>1, Received
    <2> QED
      BY <1>1, <2>1, Received DEF IInv, EndsInBattle, Messages, IsIn
  <1>3. TypeOK'
    BY <1>1 DEF IInv, TypeOK
  <1> QED
    BY <1>1, <1>2, <1>3 DEF IInv, StopsForBattle, Way, Pending, Awaited

(* The server.  What it adds is the end of a battle in ServerEnds only. *)
LEMMA ToldKeeps ==
  ASSUME IInv, NEW msgs \in Seq(ToClient), Tell(msgs), ~ IsIn({"XYD", "Over"}, msgs),
         toServer' \in Seq(ToServer), IsIn({"W", "EV"}, toServer') => IsIn({"W", "EV"}, toServer),
         UNCHANGED <<screen, over>>,
         server'.battle => server.battle \/ IsIn({"W", "EV"}, toServer)
  PROVE  EndsInBattle' /\ Messages'
  <1>1. /\ toClient \in Seq(ToClient) /\ toClient' = toClient \o msgs /\ toClient' \in Seq(ToClient)
        /\ IsIn({"XYD", "Over"}, toClient') => IsIn({"XYD", "Over"}, toClient)
    BY InAppended DEF IInv, Messages, Tell
  <1>2. Messages'
    BY <1>1 DEF Messages
  <1>3. /\ Ending' => screen' = "battle" /\ ~ server'.battle /\ ~ IsIn({"W", "EV"}, toServer')
        /\ over' => ~ IsIn({"XYD", "Over"}, toClient')
    BY <1>1 DEF IInv, EndsInBattle, Ending
  <1>4. ASSUME NEW i \in DOMAIN toClient', NEW j \in DOMAIN toClient', i < j,
               toClient'[i].m = "Over"
        PROVE  toClient'[j].m \notin {"XYD", "Over"}
    <2>1. /\ DOMAIN toClient' = 1 .. Len(toClient) + Len(msgs) /\ DOMAIN toClient = 1 .. Len(toClient)
          /\ DOMAIN msgs = 1 .. Len(msgs) /\ Len(toClient) \in Nat /\ Len(msgs) \in Nat
          /\ \A k \in 1 .. Len(toClient) : toClient'[k] = toClient[k]
          /\ \A k \in 1 .. Len(msgs) : toClient'[Len(toClient) + k] = msgs[k]
      BY <1>1
    <2>2. CASE j =< Len(toClient)
      BY <1>4, <2>1, <2>2 DEF IInv, EndsInBattle
    <2>3. CASE j > Len(toClient)
      <3>1. j - Len(toClient) \in DOMAIN msgs /\ j = Len(toClient) + (j - Len(toClient))
        BY <1>4, <2>1, <2>3
      <3>2. msgs[j - Len(toClient)].m \notin {"XYD", "Over"}
        BY <3>1 DEF IsIn
      <3> QED
        BY <2>1, <3>1, <3>2
    <2> QED
      BY <1>4, <2>1, <2>2, <2>3
  <1> QED
    BY <1>2, <1>3, <1>4 DEF EndsInBattle

\* The client is as it was.
LEMMA ClientKeeps ==
  ASSUME IInv, UNCHANGED client, astray' \in BOOLEAN,
         server' \in [floor : Floor, at : Square, battle : BOOLEAN,
                      warps : 0 .. MaxWarps, battles : 0 .. MaxBattles],
         EndsInBattle', Messages'
  PROVE  IInv'
  <1>1. TypeOK'
    BY DEF IInv, TypeOK, client
  <1> QED
    BY <1>1 DEF IInv, StopsForBattle, Way, Pending, Awaited, client

LEMMA ReadsOne ==
  ASSUME IInv, NEW kind, Reads(kind)
  PROVE  /\ Head(toServer) \in ToServer /\ Head(toServer).m = kind
         /\ toServer' \in Seq(ToServer)
         /\ IsIn({"W", "EV"}, toServer') => IsIn({"W", "EV"}, toServer)
         /\ kind \in {"W", "EV"} => IsIn({"W", "EV"}, toServer)
  <1>1. toServer \in Seq(ToServer) /\ toServer # <<>> /\ Head(toServer).m = kind /\ toServer' = Tail(toServer)
    BY DEF IInv, Messages, Reads
  <1> QED
    BY <1>1, InTail

LEMMA MapTold ==
  ASSUME NEW f \in Floor, NEW x \in Square, NEW order \in BOOLEAN
  PROVE  NewPosition(f, x, order) \in Seq(ToClient) /\ ~ IsIn({"XYD", "Over"}, NewPosition(f, x, order))
  <1> DEFINE c == [m |-> "C", floor |-> f, at |-> x]
             mc == [m |-> "MC", floor |-> f]
             own == [m |-> "OwnC"]
  <1>1. /\ c \in ToClient /\ mc \in ToClient /\ own \in ToClient
        /\ c.m = "C" /\ mc.m = "MC" /\ own.m = "OwnC"
    BY DEF ToClient
  <1>2. NewPosition(f, x, order) \in {<<c, mc, own>>, <<c, own, mc>>}
    BY DEF NewPosition
  <1> HIDE DEF c, mc, own
  <1>3. /\ <<c, mc, own>> \in Seq(ToClient) /\ <<c, own, mc>> \in Seq(ToClient)
        /\ ~ IsIn({"XYD", "Over"}, <<c, mc, own>>) /\ ~ IsIn({"XYD", "Over"}, <<c, own, mc>>)
    BY <1>1 DEF IsIn
  <1> QED
    BY <1>2, <1>3

LEMMA OneTold ==
  ASSUME NEW msg \in ToClient, msg.m \notin {"XYD", "Over"}
  PROVE  <<msg>> \in Seq(ToClient) /\ ~ IsIn({"XYD", "Over"}, <<msg>>)
  BY DEF IsIn

LEMMA BattleTyped ==
  ASSUME IInv, server.battles < MaxBattles
  PROVE  Battle \in [floor : Floor, at : Square, battle : BOOLEAN,
                     warps : 0 .. MaxWarps, battles : 0 .. MaxBattles]
  <1>1. server.battles + 1 \in 0 .. MaxBattles
    BY DEF IInv, TypeOK
  <1> QED
    BY <1>1 DEF IInv, TypeOK, Battle

LEMMA ServerStepKeeps ==
  ASSUME IInv, NEW meets \in BOOLEAN, ServerStep(meets)
  PROVE  IInv'
  <1> DEFINE x == Head(toServer).at + Head(toServer).dir
             en == [m |-> "EN"]
  <1>1. /\ Reads("W") /\ UNCHANGED client
        /\ meets => server.battles < MaxBattles
        /\ \/ server' = server
           \/ meets /\ server' = [Battle EXCEPT !.at = x]
           \/ ~ meets /\ server' = [server EXCEPT !.at = x]
        /\ Tell(IF meets THEN <<en>> ELSE <<>>)
        /\ astray' \in BOOLEAN
    BY DEF ServerStep
  <1>2. x \in Square
    BY <1>1, ReadsOne, Carried
  <1>3. server' \in [floor : Floor, at : Square, battle : BOOLEAN,
                     warps : 0 .. MaxWarps, battles : 0 .. MaxBattles]
    BY <1>1, <1>2, BattleTyped DEF IInv, TypeOK
  <1>4. /\ (IF meets THEN <<en>> ELSE <<>>) \in Seq(ToClient)
        /\ ~ IsIn({"XYD", "Over"}, IF meets THEN <<en>> ELSE <<>>)
    <2>1. en \in ToClient /\ en.m = "EN"
      BY DEF ToClient
    <2> HIDE DEF en
    <2>2. /\ <<en>> \in Seq(ToClient) /\ <<>> \in Seq(ToClient)
          /\ ~ IsIn({"XYD", "Over"}, <<en>>) /\ ~ IsIn({"XYD", "Over"}, <<>>)
      BY <2>1 DEF IsIn
    <2> QED
      BY <2>2
  <1> HIDE DEF x, en
  <1>5. EndsInBattle' /\ Messages'
    BY <1>1, <1>4, ReadsOne, ToldKeeps DEF client
  <1> QED
    BY <1>1, <1>3, <1>5, ClientKeeps

LEMMA ServerWarpsKeeps ==
  ASSUME IInv, NEW order \in BOOLEAN, ServerWarps(order)
  PROVE  IInv'
  <1> DEFINE f == Behind[server.floor]
             yes == [m |-> "EV", granted |-> TRUE]
             map == NewPosition(f, Entry, order)
             msgs == IF order THEN map \o <<yes>> ELSE <<yes>> \o map
  <1>1. /\ Reads("EV") /\ UNCHANGED client /\ Tell(msgs) /\ astray' = FALSE /\ ~ server.battle
        /\ server' = [server EXCEPT !.floor = f, !.at = Entry]
    BY DEF ServerWarps
  <1>2. f \in Floor
    BY DEF IInv, TypeOK
  <1>3. /\ server' \in [floor : Floor, at : Square, battle : BOOLEAN,
                        warps : 0 .. MaxWarps, battles : 0 .. MaxBattles]
        /\ server'.battle = server.battle
    BY <1>1, <1>2 DEF IInv, TypeOK
  <1>4. yes \in ToClient /\ yes.m = "EV"
    BY DEF ToClient
  <1> HIDE DEF yes, f
  <1>5. /\ map \in Seq(ToClient) /\ ~ IsIn({"XYD", "Over"}, map)
        /\ <<yes>> \in Seq(ToClient) /\ ~ IsIn({"XYD", "Over"}, <<yes>>)
    BY <1>2, <1>4, MapTold, OneTold
  <1> HIDE DEF map
  <1>6. msgs \in Seq(ToClient) /\ ~ IsIn({"XYD", "Over"}, msgs)
    BY <1>5, InAppended
  <1> HIDE DEF msgs
  <1>7. EndsInBattle' /\ Messages'
    BY <1>1, <1>3, <1>6, ReadsOne, ToldKeeps DEF client
  <1> QED
    BY <1>1, <1>3, <1>7, ClientKeeps

LEMMA ServerRefusesKeeps ==
  ASSUME IInv, NEW map \in BOOLEAN, ServerRefuses(map)
  PROVE  IInv'
  <1> DEFINE no == [m |-> "EV", granted |-> FALSE]
             mc == [m |-> "MC", floor |-> server.floor]
             rest == IF map THEN <<mc>> ELSE <<>>
  <1>1. /\ Reads("EV") /\ UNCHANGED <<client, server, astray>> /\ Tell(<<no>> \o rest)
    BY DEF ServerRefuses
  <1>2. no \in ToClient /\ no.m = "EV" /\ mc \in ToClient /\ mc.m = "MC"
    BY DEF IInv, TypeOK, ToClient
  <1> HIDE DEF no, mc
  <1>3. /\ <<no>> \in Seq(ToClient) /\ ~ IsIn({"XYD", "Over"}, <<no>>)
        /\ <<mc>> \in Seq(ToClient) /\ ~ IsIn({"XYD", "Over"}, <<mc>>)
    BY <1>2, OneTold
  <1>4. rest \in Seq(ToClient) /\ ~ IsIn({"XYD", "Over"}, rest)
    <2>1. <<>> \in Seq(ToClient) /\ ~ IsIn({"XYD", "Over"}, <<>>)
      BY DEF IsIn
    <2> QED
      BY <1>3, <2>1
  <1> HIDE DEF rest
  <1>5. <<no>> \o rest \in Seq(ToClient) /\ ~ IsIn({"XYD", "Over"}, <<no>> \o rest)
    BY <1>3, <1>4, InAppended
  <1>6. EndsInBattle' /\ Messages'
    BY <1>1, <1>5, ReadsOne, ToldKeeps DEF client
  <1> QED
    BY <1>1, <1>6, ClientKeeps DEF IInv, TypeOK

LEMMA ServerFightsKeeps ==
  ASSUME IInv, ServerFights
  PROVE  IInv'
  <1> DEFINE en == [m |-> "EN"]
  <1>1. /\ Reads("EV") /\ UNCHANGED client /\ astray' = astray
        /\ \/ server.battles < MaxBattles /\ server' = Battle /\ Tell(<<en>>)
           \/ UNCHANGED <<server, toClient>>
    BY DEF ServerFights
  <1>2. server' \in [floor : Floor, at : Square, battle : BOOLEAN,
                     warps : 0 .. MaxWarps, battles : 0 .. MaxBattles]
    BY <1>1, BattleTyped DEF IInv, TypeOK
  <1>3. en \in ToClient /\ en.m = "EN"
    BY DEF ToClient
  <1> HIDE DEF en
  <1>4. PICK msgs \in {<<en>>, <<>>} : Tell(msgs)
    <2>1. CASE Tell(<<en>>)
      BY <2>1
    <2>2. CASE toClient' = toClient
      <3>1. toClient' = toClient \o <<>>
        BY <2>2 DEF IInv, Messages
      <3> QED
        BY <3>1 DEF Tell
    <2> QED
      BY <1>1, <2>1, <2>2
  <1>5. msgs \in Seq(ToClient) /\ ~ IsIn({"XYD", "Over"}, msgs)
    <2>1. <<>> \in Seq(ToClient) /\ ~ IsIn({"XYD", "Over"}, <<>>)
      BY DEF IsIn
    <2> QED
      BY <1>3, <1>4, <2>1, OneTold
  <1>6. EndsInBattle' /\ Messages'
    BY <1>1, <1>4, <1>5, ReadsOne, ToldKeeps DEF client
  <1> QED
    BY <1>1, <1>2, <1>6, ClientKeeps DEF IInv, TypeOK

LEMMA ServerMapKeeps ==
  ASSUME IInv, ServerMap
  PROVE  IInv'
  <1> DEFINE sent == [m |-> "M", floor |-> Head(toServer).floor]
  <1>1. Reads("M") /\ UNCHANGED <<client, server, astray>> /\ Tell(<<sent>>)
    BY DEF ServerMap
  <1>2. sent \in ToClient /\ sent.m = "M"
    BY <1>1, ReadsOne, Carried DEF ToClient
  <1> HIDE DEF sent
  <1>3. <<sent>> \in Seq(ToClient) /\ ~ IsIn({"XYD", "Over"}, <<sent>>)
    BY <1>2, OneTold
  <1>4. EndsInBattle' /\ Messages'
    BY <1>1, <1>3, ReadsOne, ToldKeeps DEF client
  <1> QED
    BY <1>1, <1>4, ClientKeeps DEF IInv, TypeOK

LEMMA ServerSummonsKeeps ==
  ASSUME IInv, NEW f \in Floor, NEW x \in Square, NEW order \in BOOLEAN, ServerSummons(f, x, order)
  PROVE  IInv'
  <1>1. /\ UNCHANGED <<client, toServer>> /\ Tell(NewPosition(f, x, order)) /\ astray' = FALSE
        /\ server.warps + 1 \in 0 .. MaxWarps
        /\ server' = [server EXCEPT !.floor = f, !.at = x, !.warps = @ + 1]
    BY DEF ServerSummons, IInv, TypeOK
  <1>2. /\ server' \in [floor : Floor, at : Square, battle : BOOLEAN,
                        warps : 0 .. MaxWarps, battles : 0 .. MaxBattles]
        /\ server'.battle = server.battle
    BY <1>1 DEF IInv, TypeOK
  <1>3. toServer' \in Seq(ToServer)
    BY <1>1 DEF IInv, Messages
  <1>4. EndsInBattle' /\ Messages'
    BY <1>1, <1>2, <1>3, MapTold, ToldKeeps DEF client, IsIn
  <1> QED
    BY <1>1, <1>2, <1>4, ClientKeeps

(* The end of the battle: nothing of another one's is on the way. *)
LEMMA ServerEndsKeeps ==
  ASSUME IInv, ServerEnds
  PROVE  IInv'
  <1> DEFINE xyd == [m |-> "XYD", at |-> server.at]
             last == [m |-> "Over"]
             s == toClient
  <1>1. /\ server.battle /\ screen = "battle" /\ toServer = <<>> /\ astray' = FALSE
        /\ server' = [server EXCEPT !.battle = FALSE]
        /\ toClient' = s \o <<xyd, last>>
        /\ UNCHANGED <<client, toServer>>
    BY DEF ServerEnds, Tell
  <1>2. xyd \in ToClient /\ last \in ToClient /\ xyd.m = "XYD" /\ last.m = "Over"
    BY DEF IInv, TypeOK, ToClient
  <1> HIDE DEF xyd, last
  <1>3. ~ over /\ ~ IsIn({"XYD", "Over"}, s)
    BY <1>1 DEF IInv, EndsInBattle, Ending
  <1>4. /\ server' \in [floor : Floor, at : Square, battle : BOOLEAN,
                        warps : 0 .. MaxWarps, battles : 0 .. MaxBattles]
        /\ ~ server'.battle
    BY <1>1 DEF IInv, TypeOK
  <1>5. /\ s \in Seq(ToClient) /\ <<xyd, last>> \in Seq(ToClient) /\ toClient' \in Seq(ToClient)
        /\ DOMAIN toClient' = 1 .. Len(s) + 2 /\ DOMAIN s = 1 .. Len(s) /\ Len(s) \in Nat
        /\ \A k \in 1 .. Len(s) : toClient'[k] = s[k]
        /\ toClient'[Len(s) + 1] = xyd /\ toClient'[Len(s) + 2] = last
    BY <1>1, <1>2 DEF IInv, Messages
  <1>6. Messages'
    BY <1>1, <1>5 DEF IInv, Messages
  <1>7. \A i \in 1 .. Len(s) : s[i].m # "Over"
    BY <1>3, <1>5 DEF IsIn
  <1>8. \A i \in DOMAIN toClient' : toClient'[i].m = "Over" => i = Len(s) + 2
    <2> SUFFICES ASSUME NEW i \in 1 .. Len(s) + 2, i # Len(s) + 2
                 PROVE  toClient'[i].m # "Over"
      BY <1>5
    <2>1. i \in 1 .. Len(s) \/ i = Len(s) + 1
      BY <1>5
    <2> QED
      BY <1>2, <1>5, <1>7, <2>1
  <1> HIDE DEF s
  <1>9. EndsInBattle'
    <2>1. ~ over' /\ screen' = "battle" /\ ~ IsIn({"W", "EV"}, toServer')
      BY <1>1, <1>3 DEF client, IsIn
    <2>2. ASSUME NEW i \in DOMAIN toClient', NEW j \in DOMAIN toClient', i < j
          PROVE  toClient'[i].m # "Over"
      <3>1. i \in 1 .. Len(s) + 2 /\ j \in 1 .. Len(s) + 2 /\ i # Len(s) + 2
        BY <1>5, <2>2
      <3> QED
        BY <1>8, <3>1
    <2> QED
      BY <1>4, <2>1, <2>2 DEF EndsInBattle
  <1> QED
    BY <1>1, <1>4, <1>6, <1>9, ClientKeeps
----------------------------------------------------------------------------
LEMMA InvStep == IInv /\ [Next]_vars => IInv'
  <1> SUFFICES ASSUME IInv, [Next]_vars PROVE IInv'
    OBVIOUS
  <1>1. CASE Frame
    BY <1>1, WalkFrameKeeps, ScreenKeeps DEF Frame
  <1>2. CASE Handler
    BY <1>2, C_recvKeeps, MapKeeps, OwnC_recvKeeps, EV_recvKeeps, EN_recvKeeps,
       XYD_recvKeeps, Over_recvKeeps
      DEF Handler
  <1>3. CASE Answer
    BY <1>3, ServerStepKeeps, ServerWarpsKeeps, ServerRefusesKeeps, ServerFightsKeeps,
       ServerMapKeeps, ServerEndsKeeps DEF Answer
  <1>4. CASE \E f \in Floor, x \in Square, order \in BOOLEAN : ServerSummons(f, x, order)
    BY <1>4, ServerSummonsKeeps
  <1>5. CASE UNCHANGED vars
    <2>1. TypeOK' /\ Messages'
      BY <1>5 DEF vars, link, IInv, TypeOK, Messages
    <2>2. EndsInBattle' /\ StopsForBattle'
      BY <1>5 DEF vars, link, IInv, EndsInBattle, Ending, StopsForBattle, IsIn
    <2> QED
      BY <1>5, <2>1, <2>2 DEF vars, IInv, Way, Pending, Awaited
  <1> QED
    BY <1>1, <1>2, <1>3, <1>4, <1>5 DEF Next, Idle

(* Type correctness: the player stays on the floor, whatever moves, stops or *)
(* warps him (moveProc, resetMap, setWarpMap).                               *)
THEOREM TypeCorrect == Spec => []TypeOK
  BY InvInit, InvStep, PTL DEF Spec, IInv

(* The end of a battle is told to a client in the battle's screen (XYD_recv, *)
(* BattleProc), and no step crosses it.                                      *)
THEOREM ToldInBattle == Spec => []EndsInBattle
  BY InvInit, InvStep, PTL DEF Spec, IInv

(* A warp is asked for on a square of one (_execEtcEvent). *)
THEOREM AskedWhereDue == Spec => WarpAskedWhereDue
  <1>1. ASSUME IInv, [Next]_vars, ~ warp.sent, warp'.sent, ~ event.cut
        PROVE  EventAt[floor][walk'.at] = "warp"
    <2>1. warp \in Warps /\ warp' \in Warps
      BY <1>1, InvStep DEF IInv, TypeOK
    <2>2. PICK click \in Square \cup {Nowhere}, reach \in BOOLEAN : WalkFrame(click, reach)
      <3>1. MapHere(Head(toClient).floor).sent = warp.sent
        BY <1>1, MapHereKeeps DEF IInv, TypeOK
      <3>2. ~ Handler
        BY <1>1, <2>1, <3>1
          DEF Handler, C_recv, M_recv, OwnC_recv, EV_recv, EN_recv, XYD_recv, Over_recv,
              MC_recv, Warps
      <3>3. ~ Answer
        BY <1>1
          DEF Answer, ServerStep, ServerWarps, ServerRefuses, ServerFights, ServerMap,
              ServerEnds, client
      <3>4. ~ \E f \in Floor, x \in Square, order \in BOOLEAN : ServerSummons(f, x, order)
        BY <1>1 DEF ServerSummons, client
      <3>5. ~ UNCHANGED vars
        BY <1>1 DEF vars
      <3>6. ~ (TakePending \/ FadedOut \/ NewMap \/ FadedIn \/ BattleBegins \/ BattleEnds \/ Clear)
        BY <1>1, <2>1
          DEF TakePending, FadedOut, NewMap, FadedIn, BattleBegins, BattleEnds, Clear,
              Warps
      <3>7. ~ \E next \in {"clear", "walk"} : Start(next)
        BY <1>1 DEF Start
      <3> QED
        BY <1>1, <3>2, <3>3, <3>4, <3>5, <3>6, <3>7 DEF Next, Frame, Idle
    <2> DEFINE o == MoveProc(click, reach)
    <2>3. /\ warp' = o.warp
          /\ walk' \in {o.walk, ResetMap(o.walk)}
      BY <2>2 DEF WalkFrame, Encounter
    <2>4. o.walk \in Walks /\ o.walk.at = o.walk.to /\ EventAt[floor][o.walk.at] = "warp"
      BY <1>1, <2>3, MoveProcKeeps DEF Kept
    <2> HIDE DEF o
    <2>5. walk'.at = o.walk.at
      BY <2>3, <2>4, ResetKeeps
    <2> QED
      BY <2>4, <2>5
  <1>2. IInv /\ [Next]_vars =>
           [~ warp.sent /\ warp'.sent /\ ~ event.cut => EventAt[floor][walk'.at] = "warp"]_vars
    BY <1>1
  <1> QED
    BY <1>2, InvInit, InvStep, PTL DEF Spec, WarpAskedWhereDue

(* The new floor is shown when its map is there (GameProc 202). *)
THEOREM ShownWithItsMap == Spec => ShownWithMap
  <1>1. IInv /\ [Next]_vars => [NewMap /\ warp.change => warp.stale]_vars
    BY DEF IInv, Awaited, NewMap
  <1> QED
    BY <1>1, InvInit, InvStep, PTL DEF Spec, ShownWithMap

----------------------------------------------------------------------------
(* Where the player stands.  The messages on their way, the server and the   *)
(* client together know one place.                                           *)

\* The last ones of some kinds on the way.
Final(K, s) == {i \in DOMAIN s : s[i].m \in K /\ \A j \in DOMAIN s : i < j => s[j].m \notin K}

\* The floor on the screen, or the last one on the way, is the server's.
FloorKnown ==
    /\ ~ IsIn({"C"}, toClient) => floor = server.floor
    /\ \A i \in Final({"C"}, toClient) : toClient[i].floor = server.floor

\* So is the last position on the way.
PlaceKnown ==
    ~ astray => \A i \in Final({"C", "XYD"}, toClient) : toClient[i].at = server.at

\* An encounter is told once, and only the server ends it.
OneEncounter ==
    /\ encount \/ IsIn({"EN"}, toClient) => server.battle
    /\ IsIn({"EN"}, toClient) => ~ encount /\ screen # "battle"
    /\ \A i, j \in DOMAIN toClient : i < j /\ toClient[i].m = "EN" => toClient[j].m # "EN"
    /\ screen = "toBattle" \/ pend = "toBattle" => encount
    /\ screen = "battle" => ~ encount /\ (server.battle \/ over \/ IsIn({"Over"}, toClient))

\* The steps on their way lead from where the server has the player to where
\* his step under way ends.
Leads(s, from, to) ==
    \E pos \in [1 .. Len(s) + 1 -> Square] :
        /\ pos[1] = from /\ pos[Len(s) + 1] = to
        /\ \A i \in 1 .. Len(s) :
              IF s[i].m = "W" THEN s[i].at = pos[i] /\ pos[i + 1] = s[i].at + s[i].dir
              ELSE pos[i + 1] = pos[i]

InTouch ==
    ~ astray /\ ~ Corrected /\ ~ server.battle => Leads(toServer, server.at, walk.to)

\* Before an enemy he stands.
StandsBefore == event.on /\ event.step = 0 => walk.at = walk.to

PlaceInv == FloorKnown /\ PlaceKnown /\ OneEncounter /\ InTouch /\ StandsBefore

(* What is the last of its kind, when messages are added or taken off. *)
LEMMA FinalTail ==
  ASSUME NEW S, NEW s \in Seq(S), s # <<>>, NEW K
  PROVE  /\ \A i \in Final(K, Tail(s)) : i + 1 \in Final(K, s) /\ Tail(s)[i] = s[i + 1]
         /\ Head(s).m \in K /\ ~ IsIn(K, Tail(s)) => 1 \in Final(K, s) /\ s[1] = Head(s)
         /\ IsIn(K, s) => Head(s).m \in K \/ IsIn(K, Tail(s))
  <1>1. /\ Head(s) = s[1] /\ Len(s) \in Nat \ {0}
        /\ DOMAIN s = 1 .. Len(s) /\ DOMAIN Tail(s) = 1 .. Len(s) - 1
        /\ \A i \in 1 .. Len(s) - 1 : Tail(s)[i] = s[i + 1]
    OBVIOUS
  <1>2. \A j \in DOMAIN s : j = 1 \/ (j - 1 \in DOMAIN Tail(s) /\ Tail(s)[j - 1] = s[j])
    <2> SUFFICES ASSUME NEW j \in 1 .. Len(s), j # 1
                 PROVE  j - 1 \in 1 .. Len(s) - 1 /\ Tail(s)[j - 1] = s[j]
      BY <1>1
    <2>1. j - 1 \in 1 .. Len(s) - 1 /\ (j - 1) + 1 = j
      BY <1>1
    <2> QED
      BY <1>1, <2>1
  <1>3. ASSUME NEW i \in Final(K, Tail(s))
        PROVE  i + 1 \in Final(K, s) /\ Tail(s)[i] = s[i + 1]
    <2>1. i \in 1 .. Len(s) - 1 /\ Tail(s)[i].m \in K
      BY <1>1 DEF Final
    <2>2. i + 1 \in DOMAIN s /\ s[i + 1].m \in K /\ Tail(s)[i] = s[i + 1]
      BY <1>1, <2>1
    <2>3. ASSUME NEW j \in DOMAIN s, i + 1 < j
          PROVE  s[j].m \notin K
      <3>1. j # 1 /\ i < j - 1
        BY <1>1, <2>1, <2>3
      <3>2. j - 1 \in DOMAIN Tail(s) /\ Tail(s)[j - 1] = s[j]
        BY <1>2, <3>1
      <3> QED
        BY <3>1, <3>2 DEF Final
    <2> QED
      BY <2>2, <2>3 DEF Final
  <1>4. ASSUME Head(s).m \in K, ~ IsIn(K, Tail(s))
        PROVE  1 \in Final(K, s)
    <2>1. \A j \in DOMAIN Tail(s) : Tail(s)[j].m \notin K
      BY <1>4 DEF IsIn
    <2>2. \A j \in DOMAIN s : j # 1 => s[j].m \notin K
      BY <1>2, <2>1
    <2> QED
      BY <1>1, <1>4, <2>2 DEF Final
  <1>5. ASSUME IsIn(K, s) PROVE Head(s).m \in K \/ IsIn(K, Tail(s))
    BY <1>1, <1>2, <1>5 DEF IsIn
  <1> QED
    BY <1>1, <1>3, <1>4, <1>5

\* The last of r = s \o t is the last of s, with none in t, or one of t.
FinalOf(K, r, s, t) ==
    \A i \in Final(K, r) : \/ i \in Final(K, s) /\ r[i] = s[i] /\ ~ IsIn(K, t)
                          \/ \E j \in DOMAIN t : r[i] = t[j] /\ t[j].m \in K

LEMMA FinalAppended ==
  ASSUME NEW S, NEW s \in Seq(S), NEW t \in Seq(S), NEW r, r = s \o t, NEW K
  PROVE  FinalOf(K, r, s, t)
  <1> SUFFICES ASSUME NEW i \in Final(K, s \o t)
               PROVE  \/ i \in Final(K, s) /\ (s \o t)[i] = s[i] /\ ~ IsIn(K, t)
                      \/ \E j \in DOMAIN t : (s \o t)[i] = t[j] /\ t[j].m \in K
    BY DEF FinalOf
  <1>1. /\ Len(s) \in Nat /\ Len(t) \in Nat
        /\ DOMAIN (s \o t) = 1 .. Len(s) + Len(t) /\ DOMAIN s = 1 .. Len(s) /\ DOMAIN t = 1 .. Len(t)
        /\ \A k \in 1 .. Len(s) : (s \o t)[k] = s[k]
        /\ \A k \in 1 .. Len(t) : (s \o t)[Len(s) + k] = t[k]
    OBVIOUS
  <1>2. /\ i \in DOMAIN (s \o t) /\ (s \o t)[i].m \in K
        /\ \A j \in DOMAIN (s \o t) : i < j => (s \o t)[j].m \notin K
    BY DEF Final
  <1>3. CASE i =< Len(s)
    <2>1. i \in DOMAIN s /\ (s \o t)[i] = s[i]
      BY <1>1, <1>2, <1>3
    <2>2. \A j \in DOMAIN s : i < j => s[j].m \notin K
      BY <1>1, <1>2
    <2>3. ASSUME NEW j \in DOMAIN t
          PROVE  t[j].m \notin K
      <3>1. Len(s) + j \in DOMAIN (s \o t) /\ i < Len(s) + j /\ (s \o t)[Len(s) + j] = t[j]
        BY <1>1, <1>3, <2>1
      <3> QED
        BY <1>2, <3>1
    <2> QED
      BY <1>2, <2>1, <2>2, <2>3 DEF Final, IsIn
  <1>4. CASE ~ (i =< Len(s))
    <2>1. i - Len(s) \in DOMAIN t /\ i = Len(s) + (i - Len(s))
      BY <1>1, <1>2, <1>4
    <2>2. (s \o t)[i] = t[i - Len(s)]
      BY <1>1, <2>1
    <2> QED
      BY <1>2, <2>1, <2>2
  <1> QED
    BY <1>3, <1>4

(* The way the steps on their way lead. *)
LEMMA LeadsNowhere ==
  ASSUME NEW s \in Seq(ToServer), ~ IsIn({"W"}, s), NEW x \in Square
  PROVE  Leads(s, x, x)
  <1> DEFINE pos == [i \in 1 .. Len(s) + 1 |-> x]
  <1>1. Len(s) \in Nat /\ DOMAIN s = 1 .. Len(s)
    OBVIOUS
  <1>2. /\ pos \in [1 .. Len(s) + 1 -> Square]
        /\ pos[1] = x /\ pos[Len(s) + 1] = x
        /\ \A i \in 1 .. Len(s) : pos[i] = x /\ pos[i + 1] = x
    BY <1>1
  <1>3. \A i \in 1 .. Len(s) : s[i].m # "W"
    BY <1>1 DEF IsIn
  <1> HIDE DEF pos
  <1> QED
    BY <1>2, <1>3 DEF Leads

LEMMA LeadsOn ==
  ASSUME NEW s \in Seq(ToServer), NEW msg \in ToServer, NEW from, NEW to \in Square,
         Leads(s, from, to), msg.m = "W" => msg.at = to
  PROVE  Leads(s \o <<msg>>, from, IF msg.m = "W" THEN msg.at + msg.dir ELSE to)
  <1> DEFINE n == Len(s)
             end == IF msg.m = "W" THEN msg.at + msg.dir ELSE to
             t == s \o <<msg>>
  <1>1. n \in Nat /\ Len(t) = n + 1 /\ t[n + 1] = msg /\ \A i \in 1 .. n : t[i] = s[i]
    OBVIOUS
  <1>2. end \in Square
    BY Carried
  <1>3. PICK pos \in [1 .. n + 1 -> Square] :
           /\ pos[1] = from /\ pos[n + 1] = to
           /\ \A i \in 1 .. n :
                 IF s[i].m = "W" THEN s[i].at = pos[i] /\ pos[i + 1] = s[i].at + s[i].dir
                 ELSE pos[i + 1] = pos[i]
    BY DEF Leads
  <1> HIDE DEF end, t
  <1> DEFINE q == [i \in 1 .. n + 2 |-> IF i = n + 2 THEN end ELSE pos[i]]
  <1> HIDE DEF n
  <1>4. q \in [1 .. n + 2 -> Square]
    <2> SUFFICES ASSUME NEW i \in 1 .. n + 2, i # n + 2
                 PROVE  pos[i] \in Square
      BY <1>2
    <2>1. i \in 1 .. n + 1
      BY <1>1
    <2> QED
      BY <1>3, <2>1
  <1>5. q[n + 2] = end /\ \A i \in 1 .. n + 1 : q[i] = pos[i]
    BY <1>1
  <1> HIDE DEF q
  <1>6. q[1] = from
    BY <1>1, <1>3, <1>5
  <1>7. ASSUME NEW i \in 1 .. n + 1
        PROVE  IF t[i].m = "W" THEN t[i].at = q[i] /\ q[i + 1] = t[i].at + t[i].dir
               ELSE q[i + 1] = q[i]
    <2>1. CASE i = n + 1
      <3>1. i + 1 = n + 2 /\ t[i] = msg /\ q[i] = to /\ q[i + 1] = end
        BY <1>1, <1>3, <1>5, <2>1
      <3> QED
        BY <3>1 DEF end
    <2>2. CASE i # n + 1
      <3>1. i \in 1 .. n /\ i + 1 \in 1 .. n + 1
        BY <1>1, <2>2
      <3>2. t[i] = s[i] /\ q[i] = pos[i] /\ q[i + 1] = pos[i + 1]
        BY <1>1, <1>5, <3>1
      <3> QED
        BY <1>3, <3>1, <3>2
    <2> QED
      BY <2>1, <2>2
  <1>8. Len(t) + 1 = n + 2
    BY <1>1
  <1>9. Leads(t, from, end)
    BY <1>1, <1>4, <1>5, <1>6, <1>7, <1>8 DEF Leads
  <1> QED
    BY <1>9 DEF t, end

LEMMA LeadsFrom ==
  ASSUME NEW s \in Seq(ToServer), s # <<>>, NEW from, NEW to, Leads(s, from, to)
  PROVE  IF Head(s).m = "W"
         THEN Head(s).at = from /\ Leads(Tail(s), Head(s).at + Head(s).dir, to)
         ELSE Leads(Tail(s), from, to)
  <1> DEFINE n == Len(s)
             t == Tail(s)
  <1>1. /\ n \in Nat \ {0} /\ Len(t) = n - 1 /\ Head(s) = s[1]
        /\ \A i \in 1 .. n - 1 : t[i] = s[i + 1]
    OBVIOUS
  <1>2. PICK pos \in [1 .. n + 1 -> Square] :
           /\ pos[1] = from /\ pos[n + 1] = to
           /\ \A i \in 1 .. n :
                 IF s[i].m = "W" THEN s[i].at = pos[i] /\ pos[i + 1] = s[i].at + s[i].dir
                 ELSE pos[i + 1] = pos[i]
    BY DEF Leads
  <1> HIDE DEF n, t
  <1> DEFINE q == [i \in 1 .. n |-> pos[i + 1]]
  <1>3. \A i \in 1 .. n : i + 1 \in 1 .. n + 1
    BY <1>1
  <1>4. q \in [1 .. n -> Square] /\ \A i \in 1 .. n : q[i] = pos[i + 1]
    BY <1>2, <1>3
  <1> HIDE DEF q
  <1>5. q[1] = pos[2] /\ q[n] = to /\ 1 \in 1 .. n
    <2>1. 1 \in 1 .. n /\ n \in 1 .. n /\ 1 + 1 = 2
      BY <1>1
    <2> QED
      BY <1>2, <1>4, <2>1
  <1>6. ASSUME NEW i \in 1 .. n - 1
        PROVE  IF t[i].m = "W" THEN t[i].at = q[i] /\ q[i + 1] = t[i].at + t[i].dir
               ELSE q[i + 1] = q[i]
    <2>1. i \in 1 .. n /\ i + 1 \in 1 .. n
      BY <1>1
    <2>2. t[i] = s[i + 1] /\ q[i] = pos[i + 1] /\ q[i + 1] = pos[(i + 1) + 1]
      BY <1>1, <1>4, <2>1
    <2> QED
      BY <1>2, <2>1, <2>2
  <1>7. Len(t) + 1 = n
    BY <1>1
  <1>8. Leads(t, pos[2], to)
    <2>1. q \in [1 .. Len(t) + 1 -> Square] /\ q[1] = pos[2] /\ q[Len(t) + 1] = to
      BY <1>4, <1>5, <1>7
    <2>2. \A i \in 1 .. Len(t) :
             IF t[i].m = "W" THEN t[i].at = q[i] /\ q[i + 1] = t[i].at + t[i].dir
             ELSE q[i + 1] = q[i]
      BY <1>1, <1>6
    <2> QED
      BY <2>1, <2>2 DEF Leads
  <1>9. IF s[1].m = "W" THEN s[1].at = from /\ pos[2] = s[1].at + s[1].dir ELSE pos[2] = from
    <2>1. 1 + 1 = 2
      OBVIOUS
    <2> QED
      BY <1>2, <1>5, <2>1
  <1> QED
    BY <1>1, <1>8, <1>9 DEF t

----------------------------------------------------------------------------
(* The place: a frame of moveProc. *)

\* A step is begun where the last one has ended, and is sent if there is a pc.
LEMMA MoveProcSteps ==
  ASSUME IInv, StandsBefore, NEW click \in Square \cup {Nowhere}, NEW reach \in BOOLEAN
  PROVE  LET o == MoveProc(click, reach)
         IN /\ o.event.on /\ o.event.step = 0 => o.walk.at = o.walk.to
            /\ \/ /\ o.walk.to = walk.to
                  /\ o.sent = <<>> \/ \E msg \in ToServer : msg.m = "EV" /\ o.sent = <<msg>>
               \/ \E msg \in ToServer :
                     /\ msg.m = "W" /\ msg.at = walk.to
                     /\ o.walk.to = msg.at + msg.dir /\ o.walk.to # walk.to
                     /\ pcShown => o.sent = <<msg>>
                     /\ ~ pcShown => o.sent = <<>>
  <1> DEFINE c == IF click # Nowhere /\ ~ warp.sent THEN [walk EXCEPT !.stack = click] ELSE walk
             w == IF MayWalk(c) THEN GetRouteMap(c) ELSE c
             o == MoveProc(click, reach)
  <1>1. /\ walk \in Walks /\ warp \in Warps /\ event \in Events /\ floor \in Floor
        /\ Way(walk) /\ Pending(walk, event, warp)
    BY DEF IInv, TypeOK
  <1>2. /\ c \in Walks /\ Way(c)
        /\ c.at = walk.at /\ c.to = walk.to /\ c.goal = walk.goal
    BY <1>1 DEF Walks, Way
  <1>3. /\ w \in Walks /\ Way(w)
        /\ w.at = walk.at /\ w.to = walk.to /\ w.goal = walk.goal
    <2> HIDE DEF c
    <2> QED
      BY <1>2, RouteOnFloor DEF MayWalk
  <1>4. o = IF Due THEN ExecEtcEvent
            ELSE IF MayWalk(w) /\ w.left > 0 THEN Step(w, reach)
            ELSE Outcome(Moved(w, reach), event, warp, "walk", <<>>)
    BY DEF MoveProc
  <1> HIDE DEF c, w, o
  <1>5. CASE Due
    <2>1. walk.at = walk.to
      BY <1>1, <1>5 DEF Due, Pending, StandsBefore
    <2>2. ResetMap(walk).at = walk.to /\ ResetMap(walk).to = walk.to
      BY <1>1, <2>1, ResetKeeps
    <2>3. PICK msg \in ToServer : msg.m = "EV" /\ o.sent = <<msg>>
      <3>1. PICK kind \in {"warp", "enemy"} : o.sent = <<[m |-> "EV", mode |-> kind]>>
        BY <1>4, <1>5 DEF ExecEtcEvent, Outcome
      <3>2. [m |-> "EV", mode |-> kind] \in ToServer /\ [m |-> "EV", mode |-> kind].m = "EV"
        BY DEF ToServer
      <3> QED
        BY <3>1, <3>2
    <2>4. o.walk = ResetMap(walk) /\ o.event = NoEvent
      BY <1>4, <1>5 DEF ExecEtcEvent, Outcome
    <2> QED
      BY <2>2, <2>3, <2>4 DEF NoEvent, o
  <1>6. CASE ~ Due /\ MayWalk(w) /\ w.left > 0
    <2>1. w.at = w.to /\ ~ warp.sent /\ w.left > 0
      BY <1>6 DEF MayWalk
    <2>2. /\ w.at + w.dir \in Square /\ w.at + w.dir # w.at
          /\ [w EXCEPT !.left = 0, !.goal = FALSE] \in Walks
          /\ \A rest \in {0, w.left - 1} :
                /\ [w EXCEPT !.left = rest, !.to = w.at + w.dir] \in Walks
                /\ Way([w EXCEPT !.left = rest, !.to = w.at + w.dir])
      BY <1>3, <2>1, NextSquare, Zenon
    <2> DEFINE x == w.at + w.dir
               rest == IF EventAt[floor][x] = "none" THEN w.left - 1 ELSE 0
               v == [w EXCEPT !.left = rest, !.to = x]
               h == [w EXCEPT !.left = 0, !.goal = FALSE]
               e == EtcEventCheck(x)
    <2>3. v \in Walks /\ Way(v) /\ h \in Walks
      <3>1. rest \in {0, w.left - 1}
        OBVIOUS
      <3> HIDE DEF rest
      <3> QED
        BY <2>2, <3>1
    <2>4. v.to = x /\ h.to = h.at /\ h.to = w.to
      BY <1>3, <2>1, <2>3 DEF Walks
    <2>5. /\ EventAt[floor][x] = "none" => e = event
          /\ EventAt[floor][x] = "warp" => e.step = 1
      BY <1>1, <2>2, CheckedEvent DEF EtcEventCheck
    <2>6. ~ (event.on /\ event.step = 0)
      BY <1>6, <2>1 DEF Due
    <2>7. CASE EventAt[floor][x] = "enemy"
      <3>1. o = Outcome(h, e, warp, "walk", <<>>)
        BY <1>4, <1>6, <2>7 DEF Step
      <3> HIDE DEF h, e
      <3>2. o.walk = h /\ o.sent = <<>>
        BY <3>1 DEF Outcome
      <3> QED
        BY <1>3, <2>4, <3>2 DEF o
    <2>8. CASE EventAt[floor][x] # "enemy"
      <3>1. o = Outcome(Moved(v, reach), e, warp, "walk", StepSent(w))
        BY <1>4, <1>6, <2>8 DEF Step
      <3>2. EventAt[floor][x] \in {"none", "warp"}
        BY <1>1, <2>2, <2>8
      <3> HIDE DEF v, e
      <3>3. Moved(v, reach).to = x
        BY <2>2, <2>4, <2>3, MovedKeeps
      <3>4. o.walk.to = x /\ o.event = e /\ o.sent = StepSent(w)
        BY <3>1, <3>3 DEF Outcome
      <3>5. ~ (o.event.on /\ o.event.step = 0)
        BY <2>5, <2>6, <3>2, <3>4
      <3> DEFINE msg == [m |-> "W", at |-> w.at, dir |-> w.dir]
      <3>6. /\ msg \in ToServer /\ msg.m = "W" /\ msg.at = walk.to /\ msg.at + msg.dir = x
            /\ x # walk.to
        BY <1>3, <2>1, <2>2 DEF ToServer, Walks
      <3>7. StepSent(w) = IF pcShown THEN <<msg>> ELSE <<>>
        BY DEF StepSent
      <3> HIDE DEF msg, x
      <3> QED
        BY <3>4, <3>5, <3>6, <3>7 DEF o
    <2> QED
      BY <2>7, <2>8
  <1>7. CASE ~ Due /\ ~ (MayWalk(w) /\ w.left > 0)
    <2>1. o = Outcome(Moved(w, reach), event, warp, "walk", <<>>)
      BY <1>4, <1>7
    <2>2. Moved(w, reach).to = walk.to /\ (w.at = w.to => Moved(w, reach).at = w.at)
      BY <1>3, MovedKeeps
    <2>3. o.walk = Moved(w, reach) /\ o.event = event /\ o.sent = <<>>
      BY <2>1 DEF Outcome
    <2>4. event.on /\ event.step = 0 => walk.at = walk.to
      BY DEF StandsBefore
    <2> QED
      BY <1>3, <2>2, <2>3, <2>4 DEF o
  <1> QED
    BY <1>5, <1>6, <1>7

LEMMA WalkFramePlace ==
  ASSUME IInv, PlaceInv, NEW click \in Square \cup {Nowhere}, NEW reach \in BOOLEAN,
         WalkFrame(click, reach)
  PROVE  PlaceInv'
  <1> DEFINE o == MoveProc(click, reach)
  <1>1. /\ screen = "walk" /\ pend = "none" /\ toServer' = toServer \o o.sent
        /\ screen' = o.screen
        /\ floor' = floor /\ encount' = encount /\ over' = over /\ toClient' = toClient
        /\ server' = server
        /\ astray' = (astray \/ (o.walk.to # walk.to /\ ~ pcShown /\ ~ Corrected))
        /\ IF encount THEN Encounter(o)
           ELSE walk' = o.walk /\ event' = o.event /\ UNCHANGED <<pend, encountNow, pcShown>>
    BY DEF WalkFrame, link
  <1>2. Kept(o)
    BY MoveProcKeeps
  <1>3. /\ o.event.on /\ o.event.step = 0 => o.walk.at = o.walk.to
        /\ \/ /\ o.walk.to = walk.to
              /\ o.sent = <<>> \/ \E msg \in ToServer : msg.m = "EV" /\ o.sent = <<msg>>
           \/ \E msg \in ToServer :
                 /\ msg.m = "W" /\ msg.at = walk.to
                 /\ o.walk.to = msg.at + msg.dir /\ o.walk.to # walk.to
                 /\ pcShown => o.sent = <<msg>>
                 /\ ~ pcShown => o.sent = <<>>
    BY MoveProcSteps DEF PlaceInv
  <1> HIDE DEF o
  <1>4. FloorKnown' /\ PlaceKnown'
    <2>1. ~ astray' => ~ astray
      BY <1>1
    <2> QED
      BY <1>1, <2>1 DEF PlaceInv, FloorKnown, PlaceKnown, IsIn, Final
  <1>5. screen' \in {"walk", "fadeOut"} /\ (pend' = "toBattle" => encount)
    BY <1>1, <1>2 DEF Kept, Encounter
  <1>6. OneEncounter'
    BY <1>1, <1>5 DEF PlaceInv, OneEncounter, IsIn
  <1>7. StandsBefore'
    <2>1. CASE encount
      <3>1. walk' = ResetMap(o.walk)
        BY <1>1, <2>1 DEF Encounter
      <3> QED
        BY <1>2, <3>1, ResetKeeps DEF StandsBefore, Kept
    <2>2. CASE ~ encount
      BY <1>1, <1>3, <2>2 DEF StandsBefore
    <2> QED
      BY <2>1, <2>2
  <1>8. InTouch'
    <2> SUFFICES ASSUME ~ astray', ~ Corrected', ~ server'.battle
                 PROVE  Leads(toServer', server'.at, walk'.to)
      BY DEF InTouch
    <2>1. ~ astray /\ ~ Corrected /\ ~ server.battle /\ (o.walk.to # walk.to => pcShown)
      BY <1>1 DEF Corrected, IsIn
    <2>2. walk' = o.walk
      BY <1>1, <2>1 DEF PlaceInv, OneEncounter
    <2>3. /\ Leads(toServer, server.at, walk.to)
          /\ toServer \in Seq(ToServer) /\ walk.to \in Square
      BY <2>1 DEF PlaceInv, InTouch, IInv, Messages, TypeOK, Walks
    <2>4. CASE o.walk.to = walk.to /\ o.sent = <<>>
      <3>1. toServer' = toServer
        BY <1>1, <2>3, <2>4
      <3> QED
        BY <1>1, <2>2, <2>3, <2>4, <3>1
    <2>5. CASE o.walk.to = walk.to /\ \E msg \in ToServer : msg.m = "EV" /\ o.sent = <<msg>>
      <3>1. PICK msg \in ToServer : msg.m = "EV" /\ o.sent = <<msg>>
        BY <2>5
      <3>2. Leads(toServer \o <<msg>>, server.at, walk.to)
        BY <2>3, <3>1, LeadsOn
      <3> QED
        BY <1>1, <2>2, <2>5, <3>1, <3>2
    <2>6. CASE \E msg \in ToServer :
                  /\ msg.m = "W" /\ msg.at = walk.to
                  /\ o.walk.to = msg.at + msg.dir /\ o.walk.to # walk.to
                  /\ pcShown => o.sent = <<msg>>
      <3>1. PICK msg \in ToServer :
               /\ msg.m = "W" /\ msg.at = walk.to
               /\ o.walk.to = msg.at + msg.dir /\ o.sent = <<msg>>
        BY <2>1, <2>6
      <3>2. Leads(toServer \o <<msg>>, server.at, msg.at + msg.dir)
        BY <2>3, <3>1, LeadsOn
      <3> QED
        BY <1>1, <2>2, <3>1, <3>2
    <2> QED
      BY <1>3, <2>4, <2>5, <2>6
  <1> QED
    BY <1>4, <1>6, <1>7, <1>8 DEF PlaceInv

(* The screens: only a battle that begins or ends counts. *)
LEMMA ScreenPlace ==
  ASSUME IInv, PlaceInv,
         \/ TakePending \/ FadedOut \/ NewMap \/ FadedIn
         \/ BattleBegins \/ BattleEnds \/ Clear
         \/ \E next \in {"clear", "walk"} : Start(next)
  PROVE  PlaceInv'
  <1> USE DEF TakePending, FadedOut, NewMap, FadedIn, BattleBegins, BattleEnds, Clear, Start, Goto
  <1>1. UNCHANGED <<floor, walk, event, toClient, toServer, server, astray>>
    BY DEF link
  <1>2. FloorKnown' /\ PlaceKnown' /\ InTouch' /\ StandsBefore'
    BY <1>1 DEF PlaceInv, FloorKnown, PlaceKnown, InTouch, StandsBefore, Leads, Corrected,
       IsIn, Final
  <1>3. pend \in {"none", "toBattle", "fadeOut"}
    BY DEF IInv, TypeOK
  <1>4. OneEncounter'
    BY <1>1, <1>3 DEF PlaceInv, OneEncounter, IsIn
  <1> QED
    BY <1>2, <1>4 DEF PlaceInv

(* The handlers.  What is left on the way is what was. *)
LEMMA WireReceived ==
  ASSUME IInv, NEW kind, Receive(kind)
  PROVE  /\ \A K : \A i \in Final(K, toClient') :
               i + 1 \in Final(K, toClient) /\ toClient'[i] = toClient[i + 1]
         /\ \A K : kind \in K /\ ~ IsIn(K, toClient') =>
               1 \in Final(K, toClient) /\ toClient[1] = Head(toClient)
         /\ \A K : IsIn(K, toClient') => IsIn(K, toClient)
         /\ \A K : IsIn(K, toClient) => kind \in K \/ IsIn(K, toClient')
         /\ \A K : kind \in K => IsIn(K, toClient)
  <1>1. /\ toClient \in Seq(ToClient) /\ toClient # <<>> /\ Head(toClient).m = kind
        /\ toClient' = Tail(toClient)
    BY DEF Receive, IInv, Messages
  <1> QED
    BY <1>1, FinalTail, InTail

LEMMA HandlerEncounter ==
  ASSUME IInv, PlaceInv, NEW kind, Receive(kind), kind # "EN",
         UNCHANGED <<pend, encount, server>>,
         screen' = screen \/ (screen # "battle" /\ screen' = "fadeOut"),
         IF kind = "Over" THEN over' ELSE over' = over
  PROVE  OneEncounter'
  <1>1. /\ IsIn({"EN"}, toClient') => IsIn({"EN"}, toClient)
        /\ IsIn({"Over"}, toClient) => kind = "Over" \/ IsIn({"Over"}, toClient')
    BY WireReceived
  <1>2. \A i, j \in DOMAIN toClient' : i < j /\ toClient'[i].m = "EN" => toClient'[j].m # "EN"
    <2>1. /\ toClient \in Seq(ToClient) /\ toClient # <<>> /\ toClient' = Tail(toClient)
      BY DEF Receive, IInv, Messages
    <2>2. /\ Len(toClient) \in Nat /\ DOMAIN toClient = 1 .. Len(toClient)
          /\ DOMAIN toClient' = 1 .. Len(toClient) - 1
          /\ \A i \in 1 .. Len(toClient) - 1 : toClient'[i] = toClient[i + 1]
      BY <2>1
    <2>3. \A i \in 1 .. Len(toClient) - 1 : i + 1 \in DOMAIN toClient
      BY <2>2
    <2> QED
      BY <2>2, <2>3 DEF PlaceInv, OneEncounter
  <1> QED
    BY <1>1, <1>2 DEF PlaceInv, OneEncounter

\* Those that bring no position leave the place alone.
LEMMA HandlerPlace ==
  ASSUME IInv, PlaceInv, NEW kind, Receive(kind), kind \notin {"C", "XYD"},
         UNCHANGED <<floor, walk, event, server, astray>>,
         toServer' = toServer \/ \E msg \in ToServer : msg.m # "W" /\ toServer' = Append(toServer, msg)
  PROVE  FloorKnown' /\ PlaceKnown' /\ InTouch' /\ StandsBefore'
  <1>1. FloorKnown'
    <2>1. \A i \in Final({"C"}, toClient') :
             i + 1 \in Final({"C"}, toClient) /\ toClient'[i] = toClient[i + 1]
      BY WireReceived
    <2>2. IsIn({"C"}, toClient) => IsIn({"C"}, toClient')
      BY WireReceived
    <2> QED
      BY <2>1, <2>2 DEF PlaceInv, FloorKnown
  <1>2. PlaceKnown'
    <2>1. \A i \in Final({"C", "XYD"}, toClient') :
             i + 1 \in Final({"C", "XYD"}, toClient) /\ toClient'[i] = toClient[i + 1]
      BY WireReceived
    <2> QED
      BY <2>1 DEF PlaceInv, PlaceKnown
  <1>3. StandsBefore'
    BY DEF PlaceInv, StandsBefore
  <1>4. InTouch'
    <2> SUFFICES ASSUME ~ astray', ~ Corrected', ~ server'.battle
                 PROVE  Leads(toServer', server'.at, walk'.to)
      BY DEF InTouch
    <2>1. ~ Corrected
      BY WireReceived DEF Corrected
    <2>2. /\ Leads(toServer, server.at, walk.to)
          /\ toServer \in Seq(ToServer) /\ walk.to \in Square
      BY <2>1 DEF PlaceInv, InTouch, IInv, Messages, TypeOK, Walks
    <2>3. CASE toServer' = toServer
      BY <2>2, <2>3
    <2>4. CASE \E msg \in ToServer : msg.m # "W" /\ toServer' = Append(toServer, msg)
      <3>1. PICK msg \in ToServer : msg.m # "W" /\ toServer' = Append(toServer, msg)
        BY <2>4
      <3>2. toServer' = toServer \o <<msg>>
        <4>1. toServer \in Seq(ToServer)
          BY <2>2
        <4>2. Append(toServer, msg) = toServer \o <<msg>>
          BY <4>1
        <4> QED
          BY <3>1, <4>2
      <3>3. Leads(toServer \o <<msg>>, server.at, walk.to)
        BY <2>2, <3>1, LeadsOn
      <3> QED
        BY <3>2, <3>3
    <2> QED
      BY <2>3, <2>4
  <1> QED
    BY <1>1, <1>2, <1>3, <1>4

\* A new position: the last one is the server's, and nothing was on its way
\* from the place before.
LEMMA PositionTaken ==
  ASSUME IInv, PlaceInv, NEW kind \in {"C", "XYD"}, Receive(kind),
         walk'.to = Head(toClient).at, UNCHANGED <<server, toServer>>,
         astray' = (astray \/ IsIn({"W"}, toServer))
  PROVE  PlaceKnown' /\ InTouch'
  <1>1. PlaceKnown'
    <2>1. \A i \in Final({"C", "XYD"}, toClient') :
             i + 1 \in Final({"C", "XYD"}, toClient) /\ toClient'[i] = toClient[i + 1]
      BY WireReceived
    <2>2. ~ astray' => ~ astray
      OBVIOUS
    <2> QED
      BY <2>1, <2>2 DEF PlaceInv, PlaceKnown
  <1>2. InTouch'
    <2> SUFFICES ASSUME ~ astray', ~ IsIn({"C", "XYD"}, toClient')
                 PROVE  Leads(toServer', server'.at, walk'.to)
      BY DEF InTouch, Corrected
    <2>1. 1 \in Final({"C", "XYD"}, toClient) /\ toClient[1] = Head(toClient)
      BY WireReceived
    <2>2. ~ astray /\ ~ IsIn({"W"}, toServer)
      OBVIOUS
    <2>3. Head(toClient).at = server.at
      BY <2>1, <2>2 DEF PlaceInv, PlaceKnown
    <2>4. toServer \in Seq(ToServer) /\ server.at \in Square
      BY DEF IInv, Messages, TypeOK
    <2>5. Leads(toServer, server.at, server.at)
      BY <2>2, <2>4, LeadsNowhere
    <2> QED
      BY <2>3, <2>5
  <1> QED
    BY <1>1, <1>2

LEMMA C_recvPlace ==
  ASSUME IInv, PlaceInv, C_recv
  PROVE  PlaceInv'
  <1> DEFINE msg == Head(toClient)
  <1>1. /\ Receive("C") /\ floor' = msg.floor /\ walk' = ResetMap(PutAt(walk, msg.at)) /\ event' = Cut(event)
        /\ screen' = screen \/ (screen # "battle" /\ screen' = "fadeOut")
        /\ astray' = (astray \/ IsIn({"W"}, toServer))
        /\ UNCHANGED <<pend, encount, encountNow, over, toServer, server, refused>>
    BY DEF C_recv
  <1>2. msg.at \in Square
    BY <1>1, Received, Carried
  <1>3. /\ PutAt(walk, msg.at) \in Walks /\ PutAt(walk, msg.at).at = PutAt(walk, msg.at).to
        /\ PutAt(walk, msg.at).at = msg.at
    BY <1>2 DEF IInv, TypeOK, Walks, PutAt
  <1>4. walk'.at = msg.at /\ walk'.to = msg.at
    BY <1>1, <1>3, ResetKeeps
  <1>5. PlaceKnown' /\ InTouch'
    BY <1>1, <1>4, PositionTaken
  <1>6. FloorKnown'
    <2>1. \A i \in Final({"C"}, toClient') :
             i + 1 \in Final({"C"}, toClient) /\ toClient'[i] = toClient[i + 1]
      BY <1>1, WireReceived
    <2>2. ~ IsIn({"C"}, toClient') => 1 \in Final({"C"}, toClient) /\ toClient[1] = msg
      BY <1>1, WireReceived
    <2> QED
      BY <1>1, <2>1, <2>2 DEF PlaceInv, FloorKnown
  <1>7. OneEncounter'
    BY <1>1, HandlerEncounter
  <1>8. StandsBefore'
    BY <1>4 DEF StandsBefore
  <1> QED
    BY <1>5, <1>6, <1>7, <1>8 DEF PlaceInv

LEMMA XYD_recvPlace ==
  ASSUME IInv, PlaceInv, XYD_recv
  PROVE  PlaceInv'
  <1> DEFINE msg == Head(toClient)
  <1>1. /\ Receive("XYD") /\ walk' = PutAt(walk, msg.at) /\ event' = Cut(event)
        /\ astray' = (astray \/ IsIn({"W"}, toServer))
        /\ UNCHANGED <<screen, pend, floor, warp, pcShown, encount, encountNow, over,
                       toServer, server, refused>>
    BY DEF XYD_recv
  <1>2. walk'.at = msg.at /\ walk'.to = msg.at
    BY <1>1 DEF IInv, TypeOK, Walks, PutAt
  <1>3. PlaceKnown' /\ InTouch'
    BY <1>1, <1>2, PositionTaken
  <1>4. FloorKnown'
    <2>1. \A i \in Final({"C"}, toClient') :
             i + 1 \in Final({"C"}, toClient) /\ toClient'[i] = toClient[i + 1]
      BY <1>1, WireReceived
    <2>2. IsIn({"C"}, toClient) => IsIn({"C"}, toClient')
      BY <1>1, WireReceived
    <2> QED
      BY <1>1, <2>1, <2>2 DEF PlaceInv, FloorKnown
  <1>5. OneEncounter'
    BY <1>1, HandlerEncounter
  <1>6. StandsBefore'
    BY <1>2 DEF StandsBefore
  <1> QED
    BY <1>3, <1>4, <1>5, <1>6 DEF PlaceInv

LEMMA EN_recvPlace ==
  ASSUME IInv, PlaceInv, EN_recv
  PROVE  PlaceInv'
  <1>1. /\ Receive("EN") /\ encount' = TRUE
        /\ UNCHANGED <<screen, pend, floor, walk, event, toServer, server, astray>>
    BY DEF EN_recv
  <1>2. FloorKnown' /\ PlaceKnown' /\ InTouch' /\ StandsBefore'
    BY <1>1, HandlerPlace
  <1>3. IsIn({"EN"}, toClient)
    BY <1>1, WireReceived
  <1>4. ~ IsIn({"EN"}, toClient')
    <2>1. toClient \in Seq(ToClient) /\ toClient # <<>> /\ toClient' = Tail(toClient)
          /\ Head(toClient).m = "EN"
      BY <1>1 DEF Receive, IInv, Messages
    <2>2. /\ Len(toClient) \in Nat \ {0} /\ DOMAIN toClient = 1 .. Len(toClient)
          /\ DOMAIN toClient' = 1 .. Len(toClient) - 1 /\ Head(toClient) = toClient[1]
          /\ \A i \in 1 .. Len(toClient) - 1 : toClient'[i] = toClient[i + 1]
      BY <2>1
    <2>3. \A i \in 1 .. Len(toClient) - 1 : i + 1 \in DOMAIN toClient /\ 1 < i + 1 /\ 1 \in DOMAIN toClient
      BY <2>2
    <2>4. \A i \in 1 .. Len(toClient) - 1 : toClient[i + 1].m # "EN"
      BY <2>1, <2>2, <2>3 DEF PlaceInv, OneEncounter
    <2> QED
      BY <2>2, <2>4 DEF IsIn
  <1>5. OneEncounter'
    BY <1>1, <1>3, <1>4 DEF PlaceInv, OneEncounter, IsIn
  <1> QED
    BY <1>2, <1>5 DEF PlaceInv

LEMMA OtherHandlersPlace ==
  ASSUME IInv, PlaceInv,
         \/ M_recv \/ OwnC_recv \/ EV_recv \/ Over_recv \/ \E known \in BOOLEAN : MC_recv(known)
  PROVE  PlaceInv'
  <1>1. PICK kind \in {"M", "MC", "OwnC", "EV", "Over"} :
           /\ Receive(kind)
           /\ UNCHANGED <<screen, pend, floor, walk, event, encount, server, astray>>
           /\ IF kind = "Over" THEN over' ELSE over' = over
           /\ \/ toServer' = toServer
              \/ /\ toServer' = Append(toServer, [m |-> "M", floor |-> Head(toClient).floor])
                 /\ kind = "MC"
    BY DEF M_recv, OwnC_recv, EV_recv, Over_recv, MC_recv
  <1>2. toServer' = toServer \/ \E msg \in ToServer : msg.m # "W" /\ toServer' = Append(toServer, msg)
    <2>1. CASE kind = "MC"
      <3> DEFINE msg == [m |-> "M", floor |-> Head(toClient).floor]
      <3>1. Head(toClient).floor \in Floor
        BY <1>1, <2>1, Received, Carried
      <3>2. msg \in ToServer /\ msg.m # "W"
        BY <3>1 DEF ToServer
      <3> QED
        BY <1>1, <3>2
    <2> QED
      BY <1>1, <2>1
  <1>3. FloorKnown' /\ PlaceKnown' /\ InTouch' /\ StandsBefore'
    BY <1>1, <1>2, HandlerPlace
  <1>4. OneEncounter'
    BY <1>1, HandlerEncounter
  <1> QED
    BY <1>3, <1>4 DEF PlaceInv

(* The server.  What it tells of a place is where it has the player then. *)

\* The last of what was on the way stays so when nothing of its kind is told.
LEMMA FinalTold ==
  ASSUME IInv, NEW msgs \in Seq(ToClient), Tell(msgs), NEW K, NEW i \in Final(K, toClient')
  PROVE  \/ /\ i \in Final(K, toClient) /\ toClient'[i] = toClient[i] /\ ~ IsIn(K, msgs)
         \/ \E j \in DOMAIN msgs : toClient'[i] = msgs[j] /\ msgs[j].m \in K
  <1>1. toClient \in Seq(ToClient) /\ toClient' = toClient \o msgs
    BY DEF IInv, Messages, Tell
  <1>2. FinalOf(K, toClient', toClient, msgs)
    BY <1>1, FinalAppended, Zenon
  <1> QED
    BY <1>2 DEF FinalOf

LEMMA InTold ==
  ASSUME IInv, NEW msgs \in Seq(ToClient), Tell(msgs)
  PROVE  \A K : IsIn(K, toClient') <=> IsIn(K, toClient) \/ IsIn(K, msgs)
  <1>1. toClient \in Seq(ToClient) /\ toClient' = toClient \o msgs
    BY DEF IInv, Messages, Tell
  <1> QED
    BY <1>1, InAppended

\* No encounter, or the one that begins.
LEMMA ToldEncounter ==
  ASSUME IInv, PlaceInv, NEW msgs \in Seq(ToClient), Tell(msgs), UNCHANGED client,
         \/ /\ ~ IsIn({"EN"}, msgs)
            /\ server'.battle = server.battle \/ IsIn({"Over"}, msgs)
            /\ server'.battle \/ ~ server.battle \/ (screen = "battle" /\ ~ encount)
         \/ /\ msgs = <<[m |-> "EN"]>> /\ ~ server.battle /\ server'.battle
            /\ IsIn({"W", "EV"}, toServer)
  PROVE  OneEncounter'
  <1>1. UNCHANGED <<screen, pend, encount, over>>
    BY DEF client
  <1>2. /\ IsIn({"EN"}, toClient') <=> IsIn({"EN"}, toClient) \/ IsIn({"EN"}, msgs)
        /\ IsIn({"Over"}, toClient') <=> IsIn({"Over"}, toClient) \/ IsIn({"Over"}, msgs)
    BY InTold
  <1>3. /\ Len(toClient) \in Nat /\ Len(msgs) \in Nat
        /\ DOMAIN toClient = 1 .. Len(toClient) /\ DOMAIN msgs = 1 .. Len(msgs)
        /\ DOMAIN toClient' = 1 .. Len(toClient) + Len(msgs)
        /\ \A k \in 1 .. Len(toClient) : toClient'[k] = toClient[k]
        /\ \A k \in 1 .. Len(msgs) : toClient'[Len(toClient) + k] = msgs[k]
    BY DEF IInv, Messages, Tell
  <1>4. CASE ~ IsIn({"EN"}, msgs)
    <2>1. \A i \in DOMAIN toClient' :
             toClient'[i].m = "EN" => i \in DOMAIN toClient /\ toClient[i].m = "EN"
      <3> SUFFICES ASSUME NEW i \in 1 .. Len(toClient) + Len(msgs), toClient'[i].m = "EN"
                   PROVE  i \in 1 .. Len(toClient)
        BY <1>3
      <3> SUFFICES ASSUME i > Len(toClient)
                   PROVE  FALSE
        BY <1>3
      <3>1. i - Len(toClient) \in DOMAIN msgs /\ i = Len(toClient) + (i - Len(toClient))
        BY <1>3
      <3> QED
        BY <1>3, <1>4, <3>1 DEF IsIn
    <2>2. \A i, j \in DOMAIN toClient' : i < j /\ toClient'[i].m = "EN" => toClient'[j].m # "EN"
      BY <2>1 DEF PlaceInv, OneEncounter
    <2>3. server.battle /\ ~ server'.battle => ~ encount /\ screen = "battle" /\ ~ IsIn({"EN"}, toClient)
      BY <1>4 DEF PlaceInv, OneEncounter, IsIn
    <2> QED
      BY <1>1, <1>2, <1>4, <2>2, <2>3 DEF PlaceInv, OneEncounter, IInv, TypeOK
  <1>5. CASE /\ msgs = <<[m |-> "EN"]>> /\ ~ server.battle /\ server'.battle
             /\ IsIn({"W", "EV"}, toServer)
    <2>1. ~ encount /\ ~ IsIn({"EN"}, toClient)
      BY <1>5 DEF PlaceInv, OneEncounter
    <2>2. ~ Ending
      BY <1>5 DEF IInv, EndsInBattle
    <2>3. screen # "battle"
      BY <1>5, <2>2 DEF PlaceInv, OneEncounter, Ending, IsIn
    <2>4. Len(msgs) = 1
      BY <1>5
    <2>5. \A i \in DOMAIN toClient' : toClient'[i].m = "EN" => i = Len(toClient) + 1
      <3> SUFFICES ASSUME NEW i \in 1 .. Len(toClient) + 1, i # Len(toClient) + 1
                   PROVE  toClient'[i].m # "EN"
        BY <1>3, <2>4
      <3>1. i \in 1 .. Len(toClient)
        BY <1>3
      <3> QED
        BY <1>3, <2>1, <3>1 DEF IsIn
    <2>6. \A i, j \in DOMAIN toClient' : i < j /\ toClient'[i].m = "EN" => toClient'[j].m # "EN"
      BY <1>3, <2>4, <2>5
    <2> QED
      BY <1>1, <1>5, <2>1, <2>3, <2>6 DEF PlaceInv, OneEncounter
  <1> QED
    BY <1>4, <1>5

\* A new position is told, the last one of them all.
LEMMA PositionTold ==
  ASSUME IInv, PlaceInv, NEW msgs \in Seq(ToClient), Tell(msgs), UNCHANGED client,
         IsIn({"C", "XYD"}, msgs), NEW f, NEW x,
         \A i \in DOMAIN msgs : msgs[i].m \in {"C", "XYD"} => msgs[i].at = x,
         \A i \in DOMAIN msgs : msgs[i].m = "C" => msgs[i].floor = f,
         IsIn({"C"}, msgs) \/ f = server.floor,
         server'.floor = f, server'.at = x
  PROVE  FloorKnown' /\ PlaceKnown' /\ InTouch' /\ StandsBefore'
  <1>1. UNCHANGED <<floor, walk, event>>
    BY DEF client
  <1>2. FloorKnown'
    <2>1. ASSUME NEW i \in Final({"C"}, toClient')
          PROVE  toClient'[i].floor = f
      <3>1. CASE i \in Final({"C"}, toClient) /\ toClient'[i] = toClient[i] /\ ~ IsIn({"C"}, msgs)
        BY <3>1 DEF PlaceInv, FloorKnown
      <3>2. CASE \E j \in DOMAIN msgs : toClient'[i] = msgs[j] /\ msgs[j].m \in {"C"}
        BY <3>2
      <3> QED
        BY <3>1, <3>2, FinalTold
    <2>2. ~ IsIn({"C"}, toClient') => ~ IsIn({"C"}, toClient) /\ ~ IsIn({"C"}, msgs)
      BY InTold
    <2> QED
      BY <1>1, <2>1, <2>2 DEF PlaceInv, FloorKnown
  <1>3. PlaceKnown'
    <2>1. ASSUME NEW i \in Final({"C", "XYD"}, toClient')
          PROVE  toClient'[i].at = x
      <3>1. PICK j \in DOMAIN msgs : toClient'[i] = msgs[j] /\ msgs[j].m \in {"C", "XYD"}
        BY FinalTold
      <3> QED
        BY <3>1
    <2> QED
      BY <2>1 DEF PlaceKnown
  <1>4. Corrected'
    BY InTold DEF Corrected
  <1> QED
    BY <1>1, <1>2, <1>3, <1>4 DEF InTouch, PlaceInv, StandsBefore

\* Nothing is told of a place, and a message is read.
LEMMA NoPositionTold ==
  ASSUME IInv, PlaceInv, NEW msgs \in Seq(ToClient), Tell(msgs), UNCHANGED client,
         ~ IsIn({"C", "XYD"}, msgs), server'.floor = server.floor,
         NEW kind, Reads(kind), ~ astray' => ~ astray,
         IF kind = "W"
         THEN /\ astray' = (astray \/ Corrected)
              /\ ~ server.battle /\ Head(toServer).at = server.at =>
                    server'.at = Head(toServer).at + Head(toServer).dir
              /\ ~ server'.battle => ~ server.battle
              /\ server.battle \/ Head(toServer).at # server.at => server'.at = server.at
         ELSE server'.at = server.at /\ (~ server'.battle => ~ server.battle)
  PROVE  FloorKnown' /\ PlaceKnown' /\ InTouch' /\ StandsBefore'
  <1>1. UNCHANGED <<floor, walk, event>>
    BY DEF client
  <1>2. ~ IsIn({"C"}, msgs)
    BY DEF IsIn
  <1>3. FloorKnown'
    <2>1. ASSUME NEW i \in Final({"C"}, toClient')
          PROVE  i \in Final({"C"}, toClient) /\ toClient'[i] = toClient[i]
      <3>1. ~ \E j \in DOMAIN msgs : msgs[j].m \in {"C"}
        BY <1>2 DEF IsIn
      <3> QED
        BY <3>1, FinalTold
    <2>2. ~ IsIn({"C"}, toClient') => ~ IsIn({"C"}, toClient)
      BY InTold
    <2> QED
      BY <1>1, <2>1, <2>2 DEF PlaceInv, FloorKnown
  <1>4. Corrected' <=> Corrected
    BY InTold DEF Corrected
  <1>5. PlaceKnown'
    <2> SUFFICES ASSUME ~ astray', NEW i \in Final({"C", "XYD"}, toClient')
                 PROVE  toClient'[i].at = server'.at
      BY DEF PlaceKnown
    <2>1. i \in Final({"C", "XYD"}, toClient) /\ toClient'[i] = toClient[i]
      <3>1. ~ \E j \in DOMAIN msgs : msgs[j].m \in {"C", "XYD"}
        BY DEF IsIn
      <3> QED
        BY <3>1, FinalTold
    <2>2. Corrected
      BY <2>1 DEF Corrected, Final, IsIn
    <2>3. server'.at = server.at
      BY <2>2
    <2> QED
      BY <2>1, <2>3 DEF PlaceInv, PlaceKnown
  <1>6. InTouch'
    <2> SUFFICES ASSUME ~ astray', ~ Corrected', ~ server'.battle
                 PROVE  Leads(toServer', server'.at, walk'.to)
      BY DEF InTouch
    <2>1. Leads(toServer, server.at, walk.to) /\ ~ server.battle
      BY <1>4 DEF PlaceInv, InTouch
    <2>2. /\ toServer \in Seq(ToServer) /\ toServer # <<>> /\ Head(toServer).m = kind
          /\ toServer' = Tail(toServer)
      BY DEF Reads, IInv, Messages
    <2>3. IF Head(toServer).m = "W"
          THEN /\ Head(toServer).at = server.at
               /\ Leads(Tail(toServer), Head(toServer).at + Head(toServer).dir, walk.to)
          ELSE Leads(Tail(toServer), server.at, walk.to)
      BY <2>1, <2>2, LeadsFrom
    <2> QED
      BY <1>1, <2>1, <2>2, <2>3
  <1> QED
    BY <1>1, <1>3, <1>5, <1>6 DEF PlaceInv, StandsBefore

LEMMA NewPositionTells ==
  ASSUME NEW f \in Floor, NEW x \in Square, NEW order \in BOOLEAN
  PROVE  LET msgs == NewPosition(f, x, order)
         IN /\ msgs \in Seq(ToClient) /\ IsIn({"C"}, msgs) /\ ~ IsIn({"EN"}, msgs)
            /\ \A i \in DOMAIN msgs : /\ msgs[i].m \in {"C", "XYD"} => msgs[i].at = x
                                      /\ msgs[i].m = "C" => msgs[i].floor = f
  <1> DEFINE c == [m |-> "C", floor |-> f, at |-> x]
             mc == [m |-> "MC", floor |-> f]
             own == [m |-> "OwnC"]
  <1>1. /\ c.m = "C" /\ c.floor = f /\ c.at = x /\ mc.m = "MC" /\ own.m = "OwnC"
    OBVIOUS
  <1>2. NewPosition(f, x, order) \in {<<c, mc, own>>, <<c, own, mc>>}
    BY DEF NewPosition
  <1>3. NewPosition(f, x, order) \in Seq(ToClient)
    BY MapTold
  <1> HIDE DEF c, mc, own
  <1>4. \A msgs \in {<<c, mc, own>>, <<c, own, mc>>} :
           /\ IsIn({"C"}, msgs) /\ ~ IsIn({"EN"}, msgs)
           /\ \A i \in DOMAIN msgs : /\ msgs[i].m \in {"C", "XYD"} => msgs[i].at = x
                                     /\ msgs[i].m = "C" => msgs[i].floor = f
    BY <1>1 DEF IsIn
  <1> QED
    BY <1>2, <1>3, <1>4

LEMMA ServerStepPlace ==
  ASSUME IInv, PlaceInv, NEW meets \in BOOLEAN, ServerStep(meets)
  PROVE  PlaceInv'
  <1> DEFINE x == Head(toServer).at + Head(toServer).dir
             en == [m |-> "EN"]
             msgs == IF meets THEN <<en>> ELSE <<>>
             taken == ~ server.battle /\ Head(toServer).at = server.at
  <1>1. /\ Reads("W") /\ UNCHANGED client /\ Tell(msgs) /\ astray' = (astray \/ Corrected)
        /\ meets => taken
        /\ server' = IF ~ taken THEN server ELSE [IF meets THEN Battle ELSE server EXCEPT !.at = x]
    BY DEF ServerStep
  <1>2. en \in ToClient /\ en.m = "EN"
    BY DEF ToClient
  <1>3. /\ server'.floor = server.floor
        /\ taken => server'.at = x
        /\ ~ taken => server'.at = server.at
        /\ server'.battle = (server.battle \/ meets)
    <2>1. /\ server \in [floor : Floor, at : Square, battle : BOOLEAN,
                         warps : 0 .. MaxWarps, battles : 0 .. MaxBattles]
      BY DEF IInv, TypeOK
    <2>2. CASE ~ taken
      BY <1>1, <2>1, <2>2
    <2>3. CASE taken /\ meets
      BY <1>1, <2>1, <2>3 DEF Battle
    <2>4. CASE taken /\ ~ meets
      BY <1>1, <2>1, <2>4
    <2> QED
      BY <2>2, <2>3, <2>4
  <1>4. /\ msgs \in Seq(ToClient) /\ ~ IsIn({"C", "XYD"}, msgs)
        /\ ~ meets => ~ IsIn({"EN"}, msgs)
    <2> HIDE DEF en
    <2>1. /\ <<en>> \in Seq(ToClient) /\ <<>> \in Seq(ToClient)
          /\ ~ IsIn({"C", "XYD"}, <<en>>) /\ \A K : ~ IsIn(K, <<>>)
      BY <1>2 DEF IsIn
    <2> QED
      BY <2>1
  <1>5. IsIn({"W", "EV"}, toServer)
    BY <1>1, ReadsOne
  <1>6. meets => msgs = <<[m |-> "EN"]>>
    OBVIOUS
  <1> HIDE DEF msgs, x
  <1>7. FloorKnown' /\ PlaceKnown' /\ InTouch' /\ StandsBefore'
    BY <1>1, <1>3, <1>4, NoPositionTold DEF x
  <1>8. OneEncounter'
    <2>1. CASE meets
      BY <1>1, <1>3, <1>4, <1>5, <1>6, <2>1, ToldEncounter
    <2>2. CASE ~ meets
      BY <1>1, <1>3, <1>4, <2>2, ToldEncounter
    <2> QED
      BY <2>1, <2>2
  <1> QED
    BY <1>7, <1>8 DEF PlaceInv

LEMMA ServerWarpsPlace ==
  ASSUME IInv, PlaceInv, NEW order \in BOOLEAN, ServerWarps(order)
  PROVE  PlaceInv'
  <1> DEFINE f == Behind[server.floor]
             yes == [m |-> "EV", granted |-> TRUE]
             map == NewPosition(f, Entry, order)
             msgs == IF order THEN map \o <<yes>> ELSE <<yes>> \o map
  <1>1. /\ UNCHANGED client /\ Tell(msgs) /\ ~ server.battle
        /\ server' = [server EXCEPT !.floor = f, !.at = Entry]
    BY DEF ServerWarps
  <1>2. f \in Floor /\ Entry \in Square
    BY DEF IInv, TypeOK
  <1>3. server'.floor = f /\ server'.at = Entry /\ server'.battle = server.battle
    BY <1>1 DEF IInv, TypeOK
  <1>4. yes \in ToClient /\ yes.m = "EV"
    BY DEF ToClient
  <1> HIDE DEF yes, f
  <1>5. /\ map \in Seq(ToClient) /\ IsIn({"C"}, map) /\ ~ IsIn({"EN"}, map)
        /\ \A i \in DOMAIN map : /\ map[i].m \in {"C", "XYD"} => map[i].at = Entry
                                 /\ map[i].m = "C" => map[i].floor = f
    BY <1>2, NewPositionTells
  <1> HIDE DEF map
  <1>6. /\ <<yes>> \in Seq(ToClient) /\ ~ IsIn({"EN"}, <<yes>>)
        /\ \A i \in DOMAIN <<yes>> : /\ <<yes>>[i].m \in {"C", "XYD"} => <<yes>>[i].at = Entry
                                     /\ <<yes>>[i].m = "C" => <<yes>>[i].floor = f
    BY <1>4 DEF IsIn
  <1>7. PICK s \in Seq(ToClient), t \in Seq(ToClient) :
           /\ msgs = s \o t
           /\ (s = map /\ t = <<yes>>) \/ (s = <<yes>> /\ t = map)
    <2>1. CASE order
      <3>1. msgs = map \o <<yes>>
        BY <2>1
      <3> QED
        BY <1>5, <1>6, <3>1
    <2>2. CASE ~ order
      <3>1. msgs = <<yes>> \o map
        BY <2>2
      <3> QED
        BY <1>5, <1>6, <3>1
    <2> QED
      BY <2>1, <2>2
  <1> HIDE DEF msgs
  <1>8. /\ msgs \in Seq(ToClient) /\ IsIn({"C"}, msgs) /\ ~ IsIn({"EN"}, msgs)
    <2>1. \A K : IsIn(K, msgs) <=> IsIn(K, s) \/ IsIn(K, t)
      BY <1>7, InAppended
    <2>2. msgs \in Seq(ToClient)
      BY <1>7
    <2>3. IsIn({"C"}, s) \/ IsIn({"C"}, t)
      BY <1>5, <1>7
    <2>4. ~ IsIn({"EN"}, s) /\ ~ IsIn({"EN"}, t)
      BY <1>5, <1>6, <1>7
    <2> QED
      BY <2>1, <2>2, <2>3, <2>4
  <1>9. \A i \in DOMAIN msgs : /\ msgs[i].m \in {"C", "XYD"} => msgs[i].at = Entry
                               /\ msgs[i].m = "C" => msgs[i].floor = f
    <2>1. \A u \in {s, t} : \A i \in DOMAIN u : /\ u[i].m \in {"C", "XYD"} => u[i].at = Entry
                                                /\ u[i].m = "C" => u[i].floor = f
      BY <1>5, <1>6, <1>7
    <2>2. /\ Len(s) \in Nat /\ Len(t) \in Nat /\ DOMAIN s = 1 .. Len(s) /\ DOMAIN t = 1 .. Len(t)
          /\ DOMAIN msgs = 1 .. Len(s) + Len(t)
          /\ \A k \in 1 .. Len(s) : msgs[k] = s[k]
          /\ \A k \in 1 .. Len(t) : msgs[Len(s) + k] = t[k]
      BY <1>7
    <2> SUFFICES ASSUME NEW i \in 1 .. Len(s) + Len(t)
                 PROVE  \E u \in {s, t} : \E k \in DOMAIN u : msgs[i] = u[k]
      BY <2>1, <2>2
    <2>3. CASE i =< Len(s)
      BY <2>2, <2>3
    <2>4. CASE i > Len(s)
      <3>1. i - Len(s) \in 1 .. Len(t) /\ i = Len(s) + (i - Len(s))
        BY <2>2, <2>4
      <3> QED
        BY <2>2, <3>1
    <2> QED
      BY <2>2, <2>3, <2>4
  <1>10. IsIn({"C", "XYD"}, msgs)
    BY <1>8 DEF IsIn
  <1>11. FloorKnown' /\ PlaceKnown' /\ InTouch' /\ StandsBefore'
    BY <1>1, <1>3, <1>8, <1>9, <1>10, PositionTold
  <1>12. OneEncounter'
    BY <1>1, <1>3, <1>8, ToldEncounter
  <1> QED
    BY <1>11, <1>12 DEF PlaceInv

LEMMA ServerSummonsPlace ==
  ASSUME IInv, PlaceInv, NEW f \in Floor, NEW x \in Square, NEW order \in BOOLEAN,
         ServerSummons(f, x, order)
  PROVE  PlaceInv'
  <1> DEFINE msgs == NewPosition(f, x, order)
  <1>1. /\ UNCHANGED client /\ Tell(msgs) /\ ~ server.battle
        /\ server' = [server EXCEPT !.floor = f, !.at = x, !.warps = @ + 1]
    BY DEF ServerSummons
  <1>2. server'.floor = f /\ server'.at = x /\ server'.battle = server.battle
    BY <1>1 DEF IInv, TypeOK
  <1>3. /\ msgs \in Seq(ToClient) /\ IsIn({"C"}, msgs) /\ ~ IsIn({"EN"}, msgs)
        /\ \A i \in DOMAIN msgs : /\ msgs[i].m \in {"C", "XYD"} => msgs[i].at = x
                                  /\ msgs[i].m = "C" => msgs[i].floor = f
    BY NewPositionTells
  <1> HIDE DEF msgs
  <1>4. IsIn({"C", "XYD"}, msgs)
    BY <1>3 DEF IsIn
  <1>5. FloorKnown' /\ PlaceKnown' /\ InTouch' /\ StandsBefore'
    BY <1>1, <1>2, <1>3, <1>4, PositionTold
  <1>6. OneEncounter'
    BY <1>1, <1>2, <1>3, ToldEncounter
  <1> QED
    BY <1>5, <1>6 DEF PlaceInv

LEMMA ServerEndsPlace ==
  ASSUME IInv, PlaceInv, ServerEnds
  PROVE  PlaceInv'
  <1> DEFINE xyd == [m |-> "XYD", at |-> server.at]
             last == [m |-> "Over"]
             msgs == <<xyd, last>>
  <1>1. /\ UNCHANGED client /\ Tell(msgs) /\ server.battle /\ screen = "battle"
        /\ server' = [server EXCEPT !.battle = FALSE]
    BY DEF ServerEnds
  <1>2. server'.floor = server.floor /\ server'.at = server.at /\ ~ server'.battle
    BY <1>1 DEF IInv, TypeOK
  <1>3. /\ xyd \in ToClient /\ last \in ToClient
        /\ xyd.m = "XYD" /\ last.m = "Over" /\ xyd.at = server.at
    BY DEF IInv, TypeOK, ToClient
  <1> HIDE DEF xyd, last
  <1>4. msgs \in Seq(ToClient) /\ DOMAIN msgs = {1, 2} /\ msgs[1] = xyd /\ msgs[2] = last
    BY <1>3
  <1> HIDE DEF msgs
  <1>5. /\ IsIn({"C", "XYD"}, msgs) /\ IsIn({"Over"}, msgs) /\ ~ IsIn({"EN"}, msgs)
        /\ \A i \in DOMAIN msgs : /\ msgs[i].m \in {"C", "XYD"} => msgs[i].at = server.at
                                  /\ msgs[i].m = "C" => msgs[i].floor = server.floor
    BY <1>3, <1>4 DEF IsIn
  <1>6. FloorKnown' /\ PlaceKnown' /\ InTouch' /\ StandsBefore'
    <2> DEFINE f == server.floor
               x == server.at
    <2>1. /\ \A i \in DOMAIN msgs : msgs[i].m \in {"C", "XYD"} => msgs[i].at = x
          /\ \A i \in DOMAIN msgs : msgs[i].m = "C" => msgs[i].floor = f
          /\ f = server.floor /\ server'.floor = f /\ server'.at = x
      BY <1>2, <1>5
    <2>2. Tell(msgs) /\ UNCHANGED client /\ IsIn({"C", "XYD"}, msgs) /\ msgs \in Seq(ToClient)
      BY <1>1, <1>4, <1>5
    <2> HIDE DEF f, x
    <2> QED
      BY <2>1, <2>2, PositionTold
  <1>7. OneEncounter'
    <2>1. ~ encount
      BY <1>1 DEF PlaceInv, OneEncounter
    <2> QED
      BY <1>1, <1>2, <1>4, <1>5, <2>1, ToldEncounter
  <1> QED
    BY <1>6, <1>7 DEF PlaceInv

\* The other answers: a message or two of no place, or the encounter.
LEMMA OtherAnswersPlace ==
  ASSUME IInv, PlaceInv,
         (\E map \in BOOLEAN : ServerRefuses(map)) \/ ServerFights \/ ServerMap
  PROVE  PlaceInv'
  <1>1. \E msgs \in Seq(ToClient), kind \in {"EV", "M"} :
           /\ Tell(msgs) /\ Reads(kind) /\ UNCHANGED <<client, astray>>
           /\ ~ IsIn({"C", "XYD"}, msgs)
           /\ \/ ~ IsIn({"EN"}, msgs) /\ server' = server
              \/ /\ kind = "EV" /\ msgs = <<[m |-> "EN"]>>
                 /\ server' = Battle /\ ~ server.battle
    <2>1. CASE \E map \in BOOLEAN : ServerRefuses(map)
      <3>1. PICK map \in BOOLEAN : ServerRefuses(map)
        BY <2>1
      <3> DEFINE no == [m |-> "EV", granted |-> FALSE]
                 mc == [m |-> "MC", floor |-> server.floor]
                 msgs == <<no>> \o IF map THEN <<mc>> ELSE <<>>
      <3>2. Reads("EV") /\ UNCHANGED <<client, server, astray>> /\ Tell(msgs)
        BY <3>1 DEF ServerRefuses
      <3>3. no \in ToClient /\ no.m = "EV" /\ mc \in ToClient /\ mc.m = "MC"
        BY DEF IInv, TypeOK, ToClient
      <3> HIDE DEF no, mc
      <3>4. /\ <<no>> \in Seq(ToClient) /\ <<mc>> \in Seq(ToClient) /\ <<>> \in Seq(ToClient)
            /\ \A t \in {<<no>>, <<mc>>, <<>>} : ~ IsIn({"C", "XYD"}, t) /\ ~ IsIn({"EN"}, t)
        BY <3>3 DEF IsIn
      <3>5. PICK t \in {<<mc>>, <<>>} : msgs = <<no>> \o t
        <4>1. CASE map
          BY <4>1
        <4>2. CASE ~ map
          BY <4>2
        <4> QED
          BY <4>1, <4>2
      <3> HIDE DEF msgs
      <3>6. /\ msgs \in Seq(ToClient)
            /\ \A K : IsIn(K, msgs) <=> IsIn(K, <<no>>) \/ IsIn(K, t)
        <4>1. <<no>> \in Seq(ToClient) /\ t \in Seq(ToClient)
          BY <3>4, <3>5
        <4> DEFINE s == <<no>>
        <4> HIDE DEF s
        <4>2. s \in Seq(ToClient) /\ msgs = s \o t
          BY <3>5, <4>1 DEF s
        <4>3. msgs \in Seq(ToClient) /\ \A K : IsIn(K, msgs) <=> IsIn(K, s) \/ IsIn(K, t)
          BY <4>1, <4>2, InAppended
        <4> QED
          BY <4>3 DEF s
      <3>7. /\ msgs \in Seq(ToClient) /\ ~ IsIn({"C", "XYD"}, msgs) /\ ~ IsIn({"EN"}, msgs)
        BY <3>4, <3>5, <3>6
      <3> QED
        BY <3>2, <3>7
    <2>2. CASE ServerMap
      <3> DEFINE map == [m |-> "M", floor |-> Head(toServer).floor]
      <3>1. Reads("M") /\ UNCHANGED <<client, server, astray>> /\ Tell(<<map>>)
        BY <2>2 DEF ServerMap
      <3>2. map \in ToClient /\ map.m = "M"
        BY <3>1, ReadsOne, Carried DEF ToClient
      <3> HIDE DEF map
      <3>3. <<map>> \in Seq(ToClient) /\ ~ IsIn({"C", "XYD"}, <<map>>) /\ ~ IsIn({"EN"}, <<map>>)
        BY <3>2 DEF IsIn
      <3> QED
        BY <3>1, <3>3
    <2>3. CASE ServerFights
      <3> DEFINE en == [m |-> "EN"]
      <3>1. /\ Reads("EV") /\ UNCHANGED <<client, astray>>
            /\ \/ ~ server.battle /\ server' = Battle /\ Tell(<<en>>)
               \/ UNCHANGED <<server, toClient>>
        BY <2>3 DEF ServerFights
      <3>2. en \in ToClient /\ en.m = "EN"
        BY DEF ToClient
      <3>3. CASE ~ server.battle /\ server' = Battle /\ Tell(<<en>>)
        <4> HIDE DEF en
        <4>1. <<en>> \in Seq(ToClient) /\ ~ IsIn({"C", "XYD"}, <<en>>)
          BY <3>2 DEF IsIn
        <4>2. <<en>> = <<[m |-> "EN"]>>
          BY DEF en
        <4> QED
          BY <3>1, <3>3, <4>1, <4>2
      <3>4. CASE UNCHANGED <<server, toClient>>
        <4>1. toClient' = toClient \o <<>>
          BY <3>4 DEF IInv, Messages
        <4>2. <<>> \in Seq(ToClient) /\ \A K : ~ IsIn(K, <<>>)
          BY DEF IsIn
        <4> QED
          BY <3>1, <3>4, <4>1, <4>2 DEF Tell
      <3> QED
        BY <3>1, <3>3, <3>4
    <2> QED
      BY <2>1, <2>2, <2>3
  <1>2. PICK msgs \in Seq(ToClient), kind \in {"EV", "M"} :
           /\ Tell(msgs) /\ Reads(kind) /\ UNCHANGED <<client, astray>>
           /\ ~ IsIn({"C", "XYD"}, msgs)
           /\ \/ ~ IsIn({"EN"}, msgs) /\ server' = server
              \/ /\ kind = "EV" /\ msgs = <<[m |-> "EN"]>>
                 /\ server' = Battle /\ ~ server.battle
    BY <1>1
  <1>3. /\ server'.floor = server.floor /\ server'.at = server.at
        /\ server' = Battle => server'.battle
    BY <1>2 DEF IInv, TypeOK, Battle
  <1>4. ~ server'.battle => ~ server.battle
    BY <1>2, <1>3
  <1>5. FloorKnown' /\ PlaceKnown' /\ InTouch' /\ StandsBefore'
    BY <1>2, <1>3, <1>4, NoPositionTold
  <1>6. OneEncounter'
    <2>1. kind = "EV" => IsIn({"W", "EV"}, toServer)
      BY <1>2, ReadsOne
    <2>2. CASE ~ IsIn({"EN"}, msgs) /\ server' = server
      <3>1. server'.battle = server.battle /\ (server'.battle \/ ~ server.battle)
        BY <2>2
      <3> QED
        BY <1>2, <2>2, <3>1, ToldEncounter
    <2>3. CASE ~ (~ IsIn({"EN"}, msgs) /\ server' = server)
      <3>1. msgs = <<[m |-> "EN"]>> /\ ~ server.battle /\ server'.battle /\ IsIn({"W", "EV"}, toServer)
        BY <1>2, <1>3, <2>1, <2>3
      <3> QED
        BY <1>2, <3>1, ToldEncounter
    <2> QED
      BY <2>2, <2>3
  <1> QED
    BY <1>5, <1>6 DEF PlaceInv

LEMMA PlaceInit == Init => PlaceInv
  <1> SUFFICES ASSUME Init PROVE PlaceInv
    OBVIOUS
  <1>1. /\ screen = "walk" /\ pend = "none" /\ encount = FALSE /\ toClient = <<>> /\ toServer = <<>>
        /\ floor = server.floor /\ ~ server.battle /\ server.at = Entry /\ walk.to = Entry
        /\ walk.at = Entry
    BY DEF Init
  <1>2. /\ \A K : ~ IsIn(K, toClient) /\ ~ IsIn(K, toServer)
        /\ \A K : Final(K, toClient) = {}
    BY <1>1 DEF IsIn, Final
  <1>3. Leads(toServer, Entry, Entry)
    <2>1. toServer \in Seq(ToServer) /\ Entry \in Square
      BY <1>1
    <2> QED
      BY <1>2, <2>1, LeadsNowhere
  <1>4. FloorKnown /\ PlaceKnown /\ InTouch /\ StandsBefore
    BY <1>1, <1>2, <1>3 DEF FloorKnown, PlaceKnown, InTouch, StandsBefore
  <1>5. OneEncounter
    BY <1>1, <1>2 DEF OneEncounter
  <1> QED
    BY <1>4, <1>5 DEF PlaceInv

LEMMA PlaceStep == IInv /\ PlaceInv /\ [Next]_vars => PlaceInv'
  <1> SUFFICES ASSUME IInv, PlaceInv, [Next]_vars PROVE PlaceInv'
    OBVIOUS
  <1>1. CASE Frame
    BY <1>1, WalkFramePlace, ScreenPlace DEF Frame
  <1>2. CASE Handler
    BY <1>2, C_recvPlace, XYD_recvPlace, EN_recvPlace, OtherHandlersPlace DEF Handler
  <1>3. CASE Answer
    BY <1>3, ServerStepPlace, ServerWarpsPlace, ServerEndsPlace, OtherAnswersPlace
      DEF Answer
  <1>4. CASE \E f \in Floor, x \in Square, order \in BOOLEAN : ServerSummons(f, x, order)
    BY <1>4, ServerSummonsPlace
  <1>5. CASE UNCHANGED vars
    BY <1>5
      DEF vars, link, PlaceInv, FloorKnown, PlaceKnown, OneEncounter, InTouch,
          StandsBefore, Leads, Corrected, IsIn, Final
  <1> QED
    BY <1>1, <1>2, <1>3, <1>4, <1>5 DEF Next, Idle

(* Client and server agree where the player stands once all is quiet         *)
(* (resetMap, setWarpMap, walkSendForServer and the server's answers).       *)
THEOREM StandsWithServer == Spec => []SamePlace
  <1>1. IInv /\ PlaceInv => SamePlace
    <2> SUFFICES ASSUME IInv, PlaceInv, toClient = <<>>, toServer = <<>>, walk.at = walk.to,
                        ~ server.battle, ~ astray
                 PROVE  floor = server.floor /\ walk.at = server.at
      BY DEF SamePlace
    <2>1. \A K : ~ IsIn(K, toClient)
      BY DEF IsIn
    <2>2. floor = server.floor
      BY <2>1 DEF PlaceInv, FloorKnown
    <2>3. Leads(<<>>, server.at, walk.to)
      BY <2>1 DEF PlaceInv, InTouch, Corrected
    <2>4. server.at = walk.to
      <3>1. Len(<<>>) + 1 = 1
        OBVIOUS
      <3> QED
        BY <2>3, <3>1 DEF Leads
    <2> QED
      BY <2>2, <2>4
  <1> QED
    BY <1>1, InvInit, InvStep, PlaceInit, PlaceStep, PTL DEF Spec
=============================================================================
