-------------------------------- MODULE Walk --------------------------------
(* Walking over the map, and its two interruptions: a warp (a step onto a   *)
(* warp square, or one the server decides) and an encounter.  The client is *)
(* moveProc and its helpers (map.cpp), GameProc (process.cpp) and the       *)
(* handlers of S C, C, MC, M, EV, EN and XYD (netproc.cpp); the server is   *)
(* what they expect of it.                                                  *)
(* A floor is a line of squares; the data of the map, the others on it and  *)
(* the party are left out: a player who walks alone or leads.               *)
(* networkLoop handles messages between two frames, a frame is one Process. *)
EXTENDS Integers, Sequences

CONSTANTS Floor,      \* floors
          Last,       \* squares of a floor: 0 .. Last
          EventAt,    \* [Floor -> [squares -> "none", "warp" or "enemy"]]
          Behind,     \* [Floor -> Floor]: where its warps lead
          Entry,      \* the square they lead to
          MaxWarps,   \* bound: warps the server decides by itself
          MaxBattles, \* bound: encounters
          MaxSent     \* bound: messages of the client not yet read

Square == 0 .. Last
Dir == {-1, 1}
Nowhere == -1

ASSUME WalkAssumption ==
    /\ Last \in Nat
    /\ EventAt \in [Floor -> [Square -> {"none", "warp", "enemy"}]]
    /\ Behind \in [Floor -> Floor]
    /\ Entry \in Square
    /\ MaxWarps \in Nat /\ MaxBattles \in Nat /\ MaxSent \in Nat

VARIABLES screen,     \* ProcNo and SubProcNo
          pend,       \* SubProcNo2 of ChangeProc2, "none"
          floor,      \* nowFloor
          walk,       \* the step and the route
          event,      \* what the step that is made ends with
          warp,       \* the flags of a warp
          pcShown,    \* pc.ptAct # NULL
          encount,    \* EncountFlag
          encountNow, \* encountNowFlag
          over,       \* the server's last word on the battle has come
          toClient, toServer,   \* messages on the way
          server,     \* the server's view
          refused,    \* history: an EV was refused, and no map came with the answer
          astray      \* history: a step was not sent, or crossed a position sent to the client

vars == <<screen, pend, floor, walk, event, warp, pcShown, encount, encountNow, over,
          toClient, toServer, server, refused, astray>>
link == <<toClient, toServer, server>>

Screens == {"walk",      \* GameProc 3
            "fadeOut",   \* 200, 201
            "wait",      \* 202
            "fadeIn",    \* 203, 204
            "toBattle",  \* 4, 5
            "battle",    \* PROC_BATTLE
            "start",     \* 1
            "clear"}     \* 2

(* at, to: nowX and nextGx, the same when the player stands (else he is      *)
(* between them); dir, left: moveRoute; stack: moveStackGx while             *)
(* moveStackFlag is set; goal: justGoalFlag.                                 *)
Walks == [at : Square, to : Square, dir : Dir, left : 0 .. Last,
          stack : Square \cup {Nowhere}, goal : BOOLEAN]

(* _etcEventFlag, _etcEventStep, _etcEventMode; cut: history, the player was *)
(* moved or stopped since _etcEventCheck set them.                           *)
Events == [on : BOOLEAN, step : 0 .. 1, mode : {"warp", "enemy"}, cut : BOOLEAN]

(* sent: eventWarpSendFlag; effect: warpEffectFlag; start, ok:               *)
(* warpEffectStart, warpEffectOk; change: floorChangeFlag; stale: history,   *)
(* start and ok were left over when the map began to change.                 *)
Warps == [sent : BOOLEAN, effect : BOOLEAN, start : BOOLEAN, ok : BOOLEAN,
          change : BOOLEAN, stale : BOOLEAN]

NoEvent == [on |-> FALSE, step |-> 0, mode |-> "warp", cut |-> FALSE]

Init == /\ screen = "walk"
        /\ pend = "none"
        /\ floor \in Floor
        /\ walk = [at |-> Entry, to |-> Entry, dir |-> 1, left |-> 0,
                   stack |-> Nowhere, goal |-> FALSE]
        /\ event = NoEvent
        /\ warp = [sent |-> FALSE, effect |-> FALSE, start |-> FALSE, ok |-> FALSE,
                   change |-> FALSE, stale |-> FALSE]
        /\ pcShown = TRUE
        /\ encount = FALSE
        /\ encountNow = FALSE
        /\ over = FALSE
        /\ toClient = <<>>
        /\ toServer = <<>>
        /\ server = [floor |-> floor, at |-> Entry, battle |-> FALSE, warps |-> 0, battles |-> 0]
        /\ refused = FALSE
        /\ astray = FALSE
----------------------------------------------------------------------------
(* nowGx: a position between two squares is rounded down. *)
NowGx(w) == IF w.at < w.to THEN w.at ELSE w.to

(* setWarpMap *)
PutAt(w, x) == [w EXCEPT !.at = x, !.to = x]

(* resetMap; _etcEventFlag is not touched, and tells then of another place. *)
ResetMap(w) == [PutAt(w, NowGx(w)) EXCEPT !.left = 0, !.stack = Nowhere]
Cut(e) == [e EXCEPT !.cut = e.on]

IsIn(kinds, queue) == \E i \in DOMAIN queue : queue[i].m \in kinds

(* A new position on the way: it makes up for what went astray before, and  *)
(* what a step sent before it came tells the server is of no use.           *)
Corrected == IsIn({"C", "XYD"}, toClient)
----------------------------------------------------------------------------
(* moveProc, as the outcome of a frame: what becomes of the step, the event  *)
(* and the warp, which screen is next and what is sent.  A click is taken    *)
(* when no warp is asked for.                                                *)
Outcome(w, e, p, next, out) == [walk |-> w, event |-> e, warp |-> p, screen |-> next, sent |-> out]

(* _mapMove: the step is done within the frame, or goes on. *)
Moved(w, reach) == LET done == w.at # w.to /\ reach
                   IN [w EXCEPT !.goal = done, !.at = IF done THEN w.to ELSE w.at]

\* (mutant: the arrival is not waited for)
DueEarly == event.on /\ ~ warp.sent

(* _execEtcEvent, its first half: there is an event, and the step to it is  *)
(* done.                                                                    *)
Due == event.on /\ ~ warp.sent /\ (event.step = 0 \/ walk.goal)

(* Its second half: _sendWarpEvent, _sendEnemyEvent. *)
ExecEtcEvent ==
    IF event.mode = "warp"
    THEN Outcome(ResetMap(walk), NoEvent,
                 [warp EXCEPT !.sent = TRUE, !.effect = TRUE, !.change = TRUE,
                              !.stale = warp.start /\ warp.ok],
                 "fadeOut", <<[m |-> "EV", mode |-> "warp"]>>)
    ELSE Outcome(ResetMap(walk), NoEvent, warp, "walk", <<[m |-> "EV", mode |-> "enemy"]>>)

(* getRouteMap: the way to the square clicked, once the last step is done.  *)
GetRouteMap(w) ==
    IF w.stack \in {Nowhere, w.at} THEN [w EXCEPT !.stack = Nowhere]
    ELSE [w EXCEPT !.stack = Nowhere,
                   !.dir = IF w.stack > w.at THEN 1 ELSE -1,
                   !.left = IF w.stack > w.at THEN w.stack - w.at ELSE w.at - w.stack]

(* _etcEventCheck of the next square; without an event there the flags stay *)
(* as they are.                                                             *)
EtcEventCheck(x) ==
    IF EventAt[floor][x] = "none" THEN event
    ELSE [on |-> TRUE, step |-> IF EventAt[floor][x] = "warp" THEN 1 ELSE 0,
          mode |-> EventAt[floor][x], cut |-> FALSE]

(* walkSendForServer: nothing is sent for a pc without an action. *)
StepSent(w) == IF pcShown THEN <<[m |-> "W", at |-> w.at, dir |-> w.dir]>> ELSE <<>>

(* One square of the way is sent and begun (MOVE_MAX2 is 1), the last one   *)
(* onto an event; before an enemy the player stops.                         *)
Step(w, reach) ==
    LET x == w.at + w.dir
        rest == IF EventAt[floor][x] = "none" THEN w.left - 1 ELSE 0
    IN IF EventAt[floor][x] = "enemy"
       THEN Outcome([w EXCEPT !.left = 0, !.goal = FALSE], EtcEventCheck(x), warp, "walk", <<>>)
       ELSE Outcome(Moved([w EXCEPT !.left = rest, !.to = x], reach),
                    EtcEventCheck(x), warp, "walk", StepSent(w))

MayWalk(w) == w.at = w.to /\ ~ warp.sent

MoveProc(click, reach) ==
    LET clicked == IF click # Nowhere /\ ~ warp.sent THEN [walk EXCEPT !.stack = click] ELSE walk
        w == IF MayWalk(clicked) THEN GetRouteMap(clicked) ELSE clicked
    IN IF Due THEN ExecEtcEvent
       ELSE IF MayWalk(w) /\ w.left > 0 THEN Step(w, reach)
       ELSE Outcome(Moved(w, reach), event, warp, "walk", <<>>)

(* The end of GameProc 3 when EncountFlag is set: the player is stopped, and *)
(* the screen after this one comes with the next frame; when the step began  *)
(* a warp in this very frame, that is 201.                                   *)
Encounter(o) ==
    /\ walk' = ResetMap(o.walk)
    /\ event' = Cut(o.event)
    /\ pend' = IF o.screen = "walk" THEN "toBattle" ELSE "fadeOut"
    /\ encountNow' = TRUE
    /\ pcShown' = FALSE

WalkFrame(click, reach) ==
    /\ screen = "walk"
    /\ pend = "none"
    /\ Len(toServer) < MaxSent
    /\ LET o == MoveProc(click, reach)
           stepped == o.walk.to # walk.to
       IN /\ toServer' = toServer \o o.sent
          /\ warp' = o.warp
          /\ screen' = o.screen
          /\ astray' = (astray \/ (stepped /\ ~ pcShown /\ ~ Corrected))
          /\ IF encount THEN Encounter(o)
             ELSE /\ walk' = o.walk
                  /\ event' = o.event
                  /\ UNCHANGED <<pend, encountNow, pcShown>>
    /\ UNCHANGED <<floor, encount, over, toClient, server, refused>>
----------------------------------------------------------------------------
(* The other screens.  Each stays until it is over: a frame that changes    *)
(* nothing is not a step.                                                   *)
Goto(from, to) == /\ screen = from
                  /\ pend = "none"
                  /\ screen' = to

(* Process takes the screen that is pending, whatever screen it is in.      *)
TakePending == /\ pend # "none"
               /\ screen' = pend
               /\ pend' = "none"
               /\ UNCHANGED <<floor, walk, event, warp, pcShown, encount, encountNow, over,
                              link, refused, astray>>

FadedOut == /\ Goto("fadeOut", "wait")
            /\ UNCHANGED <<pend, floor, walk, event, warp, pcShown, encount, encountNow, over,
                           link, refused, astray>>

\* (mutant: the map itself is not waited for)
NewMapEarly == /\ Goto("wait", "fadeIn")
               /\ warp.start
               /\ warp' = [warp EXCEPT !.start = FALSE, !.ok = FALSE, !.stale = FALSE]
               /\ UNCHANGED <<pend, floor, walk, event, pcShown, encount, encountNow, over,
                              link, refused, astray>>

NewMap == /\ Goto("wait", "fadeIn")
          /\ warp.start /\ warp.ok
          /\ warp' = [warp EXCEPT !.start = FALSE, !.ok = FALSE, !.stale = FALSE]
          /\ UNCHANGED <<pend, floor, walk, event, pcShown, encount, encountNow, over,
                         link, refused, astray>>

FadedIn == /\ Goto("fadeIn", "walk")
           /\ UNCHANGED <<pend, floor, walk, event, warp, pcShown, encount, encountNow, over,
                          link, refused, astray>>

(* ChangeProc(PROC_BATTLE); the first BC clears EncountFlag. *)
BattleBegins == /\ Goto("toBattle", "battle")
                /\ encount' = FALSE
                /\ UNCHANGED <<pend, floor, walk, event, warp, pcShown, encountNow, over,
                               link, refused, astray>>

(* ChangeProc(PROC_GAME, 1) at the end of the battle. *)
BattleEnds == /\ Goto("battle", "start")
              /\ over
              /\ over' = FALSE
              /\ encountNow' = FALSE
              /\ UNCHANGED <<pend, floor, walk, event, warp, pcShown, encount,
                             link, refused, astray>>

(* GameProc 1: initPc; with produceFlag the field is faded in. *)
Start(next) == /\ next \in {"clear", "walk"}
               /\ Goto("start", next)
               /\ pcShown' = TRUE
               /\ UNCHANGED <<pend, floor, walk, event, warp, encount, encountNow, over,
                              link, refused, astray>>

Clear == /\ Goto("clear", "walk")
         /\ warp' = [warp EXCEPT !.start = FALSE, !.ok = FALSE, !.stale = FALSE]
         /\ UNCHANGED <<pend, floor, walk, event, pcShown, encount, encountNow, over,
                        link, refused, astray>>

Frame == \/ \E click \in Square \cup {Nowhere}, reach \in BOOLEAN : WalkFrame(click, reach)
         \/ TakePending \/ FadedOut \/ NewMap \/ FadedIn
         \/ BattleBegins \/ BattleEnds \/ Clear
         \/ \E next \in {"clear", "walk"} : Start(next)

(* Nothing to do: the screen is drawn again. *)
Idle == UNCHANGED vars
----------------------------------------------------------------------------
(* The handlers of the client. *)
Receive(kind) == /\ toClient # <<>>
                 /\ Head(toClient).m = kind
                 /\ toClient' = Tail(toClient)

(* S C: another map.  It is faded out unless the step onto a warp did that. *)
C_recv ==
    /\ Receive("C")
    /\ LET msg == Head(toClient)
           left == [warp EXCEPT !.change = TRUE, !.stale = warp.start /\ warp.ok]
       IN /\ floor' = msg.floor
          /\ walk' = ResetMap(PutAt(walk, msg.at))
          /\ event' = Cut(event)
          /\ IF screen = "battle"
             THEN /\ warp' = left
                  /\ UNCHANGED <<screen, pcShown>>
             ELSE /\ warp' = [left EXCEPT !.effect = FALSE, !.start = TRUE]
                  /\ screen' = IF warp.effect THEN screen ELSE "fadeOut"
                  /\ pcShown' = FALSE
    /\ astray' = (astray \/ IsIn({"W"}, toServer))
    /\ UNCHANGED <<pend, encount, encountNow, over, toServer, server, refused>>

(* The map of this floor is there. *)
MapHere(f) == IF f = floor
              THEN [warp EXCEPT !.change = FALSE, !.ok = warp.ok \/ warp.start]
              ELSE warp

(* MC: the map as the client has it stored is right, or M is sent for it.   *)
MC_recv(known) ==
    /\ Receive("MC")
    /\ IF known
       THEN /\ warp' = MapHere(Head(toClient).floor)
            /\ UNCHANGED toServer
       ELSE /\ toServer' = Append(toServer, [m |-> "M", floor |-> Head(toClient).floor])
            /\ UNCHANGED warp
    /\ UNCHANGED <<screen, pend, floor, walk, event, pcShown, encount, encountNow, over,
                   server, refused, astray>>

(* M: the map itself; it counts for a warp while floorChangeFlag is set.    *)
M_recv ==
    /\ Receive("M")
    /\ warp' = IF warp.change THEN MapHere(Head(toClient).floor) ELSE warp
    /\ UNCHANGED <<screen, pend, floor, walk, event, pcShown, encount, encountNow, over,
                   toServer, server, refused, astray>>

(* C of the own character. *)
OwnC_recv ==
    /\ Receive("OwnC")
    /\ pcShown' = (pcShown \/ ~ encountNow)
    /\ UNCHANGED <<screen, pend, floor, walk, event, warp, encount, encountNow, over,
                   toServer, server, refused, astray>>

\* (mutant: the wait for the map ends with any answer)
EV_recvDone ==
    /\ Receive("EV")
    /\ warp' = IF Head(toClient).granted THEN [warp EXCEPT !.sent = FALSE, !.change = FALSE]
               ELSE [warp EXCEPT !.sent = FALSE, !.change = FALSE, !.start = TRUE]
    /\ refused' = (refused \/ ~ Head(toClient).granted)
    /\ UNCHANGED <<screen, pend, floor, walk, event, pcShown, encount, encountNow, over,
                   toServer, server, astray>>

(* EV, the answer to a step onto a warp: there is one at most on the way, so *)
(* that eventWarpSendId is its number.  A refusal lets 202 wait for a map    *)
(* that need not come.                                                       *)
EV_recv ==
    /\ Receive("EV")
    /\ warp' = IF Head(toClient).granted THEN [warp EXCEPT !.sent = FALSE]
               ELSE [warp EXCEPT !.sent = FALSE, !.change = FALSE, !.start = TRUE]
    /\ refused' = (refused \/ ~ Head(toClient).granted)
    /\ UNCHANGED <<screen, pend, floor, walk, event, pcShown, encount, encountNow, over,
                   toServer, server, astray>>

\* (mutant: an encounter counts only while the player walks)
EN_recvWalking ==
    /\ Receive("EN")
    /\ encount' = (screen = "walk")
    /\ over' = FALSE
    /\ UNCHANGED <<screen, pend, floor, walk, event, warp, pcShown, encountNow,
                   toServer, server, refused, astray>>

(* EN: an encounter; GameProc 3 sees the flag. *)
EN_recv ==
    /\ Receive("EN")
    /\ encount' = TRUE
    /\ over' = FALSE
    /\ UNCHANGED <<screen, pend, floor, walk, event, warp, pcShown, encountNow,
                   toServer, server, refused, astray>>

\* (mutant: without an action of the pc the new position is not taken)
XYD_recvPcOnly ==
    /\ Receive("XYD")
    /\ walk' = IF pcShown THEN PutAt(walk, Head(toClient).at) ELSE walk
    /\ event' = Cut(event)
    /\ astray' = (astray \/ IsIn({"W"}, toServer))
    /\ UNCHANGED <<screen, pend, floor, warp, pcShown, encount, encountNow, over,
                   toServer, server, refused>>

(* XYD: the position after a battle. *)
XYD_recv ==
    /\ Receive("XYD")
    /\ walk' = PutAt(walk, Head(toClient).at)
    /\ event' = Cut(event)
    /\ astray' = (astray \/ IsIn({"W"}, toServer))
    /\ UNCHANGED <<screen, pend, floor, warp, pcShown, encount, encountNow, over,
                   toServer, server, refused>>

(* The last of the battle's messages, which BattleProc reads. *)
Over_recv ==
    /\ Receive("Over")
    /\ over' = TRUE
    /\ UNCHANGED <<screen, pend, floor, walk, event, warp, pcShown, encount, encountNow,
                   toServer, server, refused, astray>>

Handler == \/ C_recv \/ M_recv \/ OwnC_recv \/ EV_recv \/ EN_recv \/ XYD_recv \/ Over_recv
           \/ \E known \in BOOLEAN : MC_recv(known)
----------------------------------------------------------------------------
(* The server, as the client expects it (external).  It takes a step from   *)
(* where it has the player, and leaves out any other.                       *)
client == <<screen, pend, floor, walk, event, warp, pcShown, encount, encountNow, over, refused>>

Reads(kind) == /\ toServer # <<>>
               /\ Head(toServer).m = kind
               /\ toServer' = Tail(toServer)

Tell(msgs) == toClient' = toClient \o msgs
NewPosition(f, x, order) ==
    LET c == [m |-> "C", floor |-> f, at |-> x]
        mc == [m |-> "MC", floor |-> f]
    IN IF order THEN <<c, mc, [m |-> "OwnC"]>> ELSE <<c, [m |-> "OwnC"], mc>>

Battle == [server EXCEPT !.battle = TRUE, !.battles = @ + 1]

ServerStep(meets) ==
    /\ Reads("W")
    /\ LET x == Head(toServer).at + Head(toServer).dir
           taken == ~ server.battle /\ Head(toServer).at = server.at
       IN /\ meets => taken /\ server.battles < MaxBattles
          /\ server' = IF ~ taken THEN server
                       ELSE [IF meets THEN Battle ELSE server EXCEPT !.at = x]
          /\ Tell(IF meets THEN <<[m |-> "EN"]>> ELSE <<>>)
          /\ astray' = (astray \/ Corrected)
    /\ UNCHANGED client

ServerWarps(order) ==
    /\ Reads("EV")
    /\ Head(toServer).mode = "warp"
    /\ ~ server.battle
    /\ EventAt[server.floor][server.at] = "warp"
    /\ server' = [server EXCEPT !.floor = Behind[server.floor], !.at = Entry]
    /\ LET map == NewPosition(Behind[server.floor], Entry, order)
           yes == <<[m |-> "EV", granted |-> TRUE]>>
       IN Tell(IF order THEN map \o yes ELSE yes \o map)
    /\ astray' = FALSE
    /\ UNCHANGED client

(* A refusal, with the map of the floor he is on or without. *)
ServerRefuses(map) ==
    /\ Reads("EV")
    /\ Head(toServer).mode = "warp"
    /\ server.battle \/ EventAt[server.floor][server.at] # "warp"
    /\ Tell(<<[m |-> "EV", granted |-> FALSE]>>
            \o IF map THEN <<[m |-> "MC", floor |-> server.floor]>> ELSE <<>>)
    /\ UNCHANGED <<client, server, astray>>

ServerFights ==
    /\ Reads("EV")
    /\ Head(toServer).mode = "enemy"
    /\ IF ~ server.battle /\ server.battles < MaxBattles
       THEN /\ server' = Battle
            /\ Tell(<<[m |-> "EN"]>>)
       ELSE UNCHANGED <<server, toClient>>
    /\ UNCHANGED <<client, astray>>

ServerMap ==
    /\ Reads("M")
    /\ Tell(<<[m |-> "M", floor |-> Head(toServer).floor]>>)
    /\ UNCHANGED <<client, server, astray>>

(* The battle ends when the player, in its screen, has done his part in it. *)
ServerEnds ==
    /\ server.battle
    /\ screen = "battle"
    /\ toServer = <<>>
    /\ server' = [server EXCEPT !.battle = FALSE]
    /\ Tell(<<[m |-> "XYD", at |-> server.at], [m |-> "Over"]>>)
    /\ astray' = FALSE
    /\ UNCHANGED <<client, toServer>>

(* A warp of the server's own: a guide, an item, a summons. *)
ServerSummons(f, x, order) ==
    /\ ~ server.battle
    /\ server.warps < MaxWarps
    /\ server' = [server EXCEPT !.floor = f, !.at = x, !.warps = @ + 1]
    /\ Tell(NewPosition(f, x, order))
    /\ astray' = FALSE
    /\ UNCHANGED <<client, toServer>>

Answer == \/ \E meets \in BOOLEAN : ServerStep(meets)
          \/ \E order \in BOOLEAN : ServerWarps(order)
          \/ \E map \in BOOLEAN : ServerRefuses(map)
          \/ ServerFights \/ ServerMap \/ ServerEnds

Next == \/ Frame \/ Handler \/ Answer \/ Idle
        \/ \E f \in Floor, x \in Square, order \in BOOLEAN : ServerSummons(f, x, order)

(* Frames go on and steps come to an end, messages arrive and are answered. *)
Fairness == /\ WF_vars(WalkFrame(Nowhere, TRUE))
            /\ WF_vars(TakePending) /\ WF_vars(FadedOut) /\ WF_vars(NewMap) /\ WF_vars(FadedIn)
            /\ WF_vars(BattleBegins) /\ WF_vars(BattleEnds) /\ WF_vars(Start("clear")) /\ WF_vars(Clear)
            /\ WF_vars(Handler)
            /\ WF_vars(Answer)

Spec == Init /\ [][Next]_vars /\ Fairness
----------------------------------------------------------------------------
TypeOK == /\ screen \in Screens
          /\ pend \in {"none", "toBattle", "fadeOut"}
          /\ floor \in Floor
          /\ walk \in Walks
          /\ event \in Events
          /\ warp \in Warps
          /\ {pcShown, encount, encountNow, over, refused, astray} \subseteq BOOLEAN
          /\ server \in [floor : Floor, at : Square, battle : BOOLEAN,
                         warps : 0 .. MaxWarps, battles : 0 .. MaxBattles]

(* When all is quiet the player stands where the server has him, however    *)
(* warps, encounters in the middle of a step and the positions sent after a *)
(* battle overtook one another; unless a step was not sent for want of an   *)
(* action of the pc, or crossed a new position on the way.                  *)
SamePlace ==
    /\ screen = "walk" /\ pend = "none" /\ walk.at = walk.to
    /\ toClient = <<>> /\ toServer = <<>>
    /\ ~ server.battle /\ ~ encount /\ ~ astray
    => floor = server.floor /\ walk.at = server.at

(* A warp is asked for only on a square of one: unless the player was       *)
(* stopped or moved since _etcEventCheck looked, for nothing takes its flag *)
(* back.                                                                    *)
WarpAskedWhereDue ==
    [][~ warp.sent /\ warp'.sent /\ ~ event.cut => EventAt[floor][walk'.at] = "warp"]_vars

(* The field is shown again only with the map of the new floor in place:    *)
(* unless both flags were left over from a warp before when it began.       *)
ShownWithMap == [][NewMap /\ warp.change => warp.stale]_vars

(* A warp comes to its end; unless the server refused one, when 202 may     *)
(* wait for a map for good.                                                 *)
WarpEnds == screen \in {"fadeOut", "wait"} ~> (screen \notin {"fadeOut", "wait"} \/ refused)

(* An encounter the server has begun is fought, even one that comes in the  *)
(* frame of a step onto a warp; unless a warp was refused.                  *)
BattleShown == server.battle ~> (screen = "battle" \/ refused)
=============================================================================
