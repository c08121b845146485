------------------------------- MODULE Battle -------------------------------
(***************************************************************************)
(* A player's battles from end to end: the server's messages (EN_recv and  *)
(* B_recv of system/netproc.cpp), the two receive buffers (BattleRing) and *)
(* the screens that show them (BattleProc of system/battleProc.cpp, with   *)
(* the encounter part of GameProc, system/process.cpp).                    *)
(*                                                                         *)
(* The game loop first handles the lines that have come, then runs one     *)
(* frame of the current screen; lines come in any number between two       *)
(* frames.  So receiving one line is an action, and so is a frame that     *)
(* changes something.  How the input of a turn comes to its end is the     *)
(* subject of BattleMenu; here it is one step.                             *)
(*                                                                         *)
(* The server is not part of the program.  It starts a battle only when it *)
(* has heard the end of the last one, sends a state (BC), any number of    *)
(* progress messages (BA) and a movie per turn, need not wait for the      *)
(* client, and may dismiss the player at any time (BU).                    *)
(***************************************************************************)
EXTENDS Naturals, Sequences, FiniteSets, BattleScreens

CONSTANTS BATTLE_BUF_SIZE,
          Ahead,        \* most states, and most movies, the server is ahead
          MaxBattles, MaxTurn, MaxBA    \* bounds of a behaviour

ASSUME BoundsAssumption == {BATTLE_BUF_SIZE, MaxBattles} \subseteq Nat \ {0}
                           /\ {MaxTurn, MaxBA} \subseteq Nat
                           /\ Ahead \in 0..BATTLE_BUF_SIZE - 1

Battles == 1..MaxBattles

\* ends: all of one side are dead, or the player leaves.
Shown == [battle : Battles, turn : 0..MaxTurn, ends : BOOLEAN]
NoMsg == [battle |-> 0, turn |-> 0, ends |-> FALSE]

Line == {"EN", "BC", "BA", "BM", "BU"} \X Shown

VARIABLES
    ProcNo, SubProcNo,
    EncountFlag,
    BattleEscFlag,              \* 0 is FALSE; TRUE names the battle of the BU
    BattleTurnReceiveFlag, BattleCliTurnNo,
    sBak, sRead, sWrite, sCur,  \* BattleStatusBak, its pointers, BattleStatus
    cBak, cRead, cWrite, cCur,  \* BattleCmdBak, its pointers, BattleCmd
    wire,                       \* lines on their way to the client
    eo,                         \* the EO on its way to the server
    srv,                        \* the server
    entered,    \* history: the last battle announced when one was entered
    phantom,    \* history: the screen was entered without a new announcement
    early,      \* history: a battle was left before its first state was read
    movies,     \* history: movies shown to the end in this battle
    synced,     \* history: a BA for the turn on the screen has set BattleCliTurnNo
    lost        \* history: the battle whose BU was discarded

screen == <<ProcNo, SubProcNo>>
flags == <<EncountFlag, BattleEscFlag, BattleTurnReceiveFlag, BattleCliTurnNo>>
sVars == <<sBak, sRead, sWrite, sCur>>
cVars == <<cBak, cRead, cWrite, cCur>>
net == <<wire, eo, srv>>
history == <<entered, phantom, early, movies, synced, lost>>
vars == <<screen, flags, sVars, cVars, net, history>>

Status == INSTANCE BattleRing WITH bak <- sBak, read <- sRead, write <- sWrite,
                                   cur <- sCur, Msg <- Shown
Cmd == INSTANCE BattleRing WITH bak <- cBak, read <- cRead, write <- cWrite,
                                cur <- cCur, Msg <- Shown

TypeOK ==
    /\ ProcNo \in {"GAME", "BATTLE"} /\ SubProcNo \in INIT..OUT_PRODUCE
    /\ EncountFlag \in BOOLEAN /\ BattleEscFlag \in 0..MaxBattles
    /\ BattleTurnReceiveFlag \in BOOLEAN /\ BattleCliTurnNo \in Nat
    /\ Status!TypeOK /\ Cmd!TypeOK
    /\ wire \in Seq(Line) /\ eo \in BOOLEAN
    /\ srv \in [battle : 0..MaxBattles, turn : 0..MaxTurn, ba : 0..MaxBA,
                phase : {"map", "state", "input", "over"}, bu : BOOLEAN]
    /\ entered \in 0..MaxBattles /\ phantom \in BOOLEAN /\ early \in BOOLEAN
    /\ movies \in Nat /\ synced \in BOOLEAN /\ lost \in 0..MaxBattles

\* The battle of the last EN that has come.
Announced == srv.battle - Cardinality({i \in DOMAIN wire : wire[i][1] = "EN"})

-----------------------------------------------------------------------------
(* The server.                                                             *)

ToCome(kind) ==
    LET waiting == {i \in DOMAIN wire : wire[i][1] = kind /\ wire[i][2].battle = srv.battle}
        backlog == IF Announced # srv.battle THEN 0
                   ELSE IF kind = "BC" THEN Status!Backlog ELSE Cmd!Backlog
    IN  Cardinality(waiting) + backlog

Send(kind, ends) ==
    wire' = Append(wire, <<kind, [battle |-> srv'.battle, turn |-> srv.turn, ends |-> ends]>>)

ServerUnchanged == UNCHANGED <<screen, flags, sVars, cVars, eo, history>>

ServerEncounter ==
    /\ srv.phase = "map" /\ srv.battle < MaxBattles
    /\ srv' = [battle |-> srv.battle + 1, turn |-> 0, ba |-> 0,
               phase |-> "state", bu |-> FALSE]
    /\ wire' = Append(wire, <<"EN", [battle |-> srv'.battle, turn |-> 0, ends |-> FALSE]>>)
    /\ ServerUnchanged

ServerState ==
    /\ srv.phase = "state" /\ ToCome("BC") < Ahead
    /\ \E ends \in BOOLEAN :
          /\ srv' = [srv EXCEPT !.phase = IF ends THEN "over" ELSE "input", !.ba = 0]
          /\ Send("BC", ends)
    /\ ServerUnchanged

ServerProgress ==
    /\ srv.phase = "input" /\ srv.ba < MaxBA
    /\ srv' = [srv EXCEPT !.ba = @ + 1]
    /\ Send("BA", FALSE)
    /\ ServerUnchanged

ServerMovie ==
    /\ srv.phase = "input" /\ ToCome("BM") < Ahead
    /\ \E ends \in BOOLEAN :
          /\ ~ends => srv.turn < MaxTurn
          /\ srv' = IF ends THEN [srv EXCEPT !.phase = "over"]
                            ELSE [srv EXCEPT !.phase = "state", !.turn = @ + 1]
          /\ Send("BM", ends)
    /\ ServerUnchanged

ServerDismiss ==
    /\ srv.phase # "map" /\ ~srv.bu
    /\ srv' = [srv EXCEPT !.phase = "over", !.bu = TRUE]
    /\ Send("BU", FALSE)
    /\ ServerUnchanged

ServerHearsEO ==
    /\ eo
    /\ eo' = FALSE
    /\ srv' = [srv EXCEPT !.phase = IF @ = "over" THEN "map" ELSE @]
    /\ UNCHANGED <<screen, flags, sVars, cVars, wire, history>>

-----------------------------------------------------------------------------
(* The handlers.                                                           *)

\* (mutant: the states of the last battle are kept)
EN_recvKeepsStatus ==
    /\ EncountFlag' = TRUE
    /\ Cmd!Reset /\ UNCHANGED sVars
    /\ UNCHANGED <<BattleEscFlag, BattleTurnReceiveFlag, BattleCliTurnNo, synced>>

EN_recv ==
    /\ EncountFlag' = TRUE
    /\ Status!Reset /\ Cmd!Reset
    /\ UNCHANGED <<BattleEscFlag, BattleTurnReceiveFlag, BattleCliTurnNo, synced>>

\* (mutant: every BA sets the turn)
BA_recvAlways(m) ==
    /\ BattleCliTurnNo' = m.turn
    /\ BattleTurnReceiveFlag' = FALSE
    /\ synced' = (synced \/ (m.battle = Announced /\ m.turn = movies))
    /\ UNCHANGED <<EncountFlag, BattleEscFlag, sVars, cVars>>

\* The first BA after an encounter tells the client which turn it is.
BA_recv(m) ==
    /\ IF BattleTurnReceiveFlag
       THEN /\ BattleCliTurnNo' = m.turn
            /\ BattleTurnReceiveFlag' = FALSE
            /\ synced' = (m.battle = Announced /\ m.turn = movies)
       ELSE UNCHANGED <<BattleCliTurnNo, BattleTurnReceiveFlag, synced>>
    /\ UNCHANGED <<EncountFlag, BattleEscFlag, sVars, cVars>>

BU_recv(m) ==
    /\ BattleEscFlag' = m.battle
    /\ UNCHANGED <<EncountFlag, BattleTurnReceiveFlag, BattleCliTurnNo, sVars, cVars, synced>>

Recv ==
    /\ wire # <<>>
    /\ LET kind == Head(wire)[1]
           m == Head(wire)[2]
       IN  \/ kind = "EN" /\ EN_recv
           \/ kind = "BA" /\ BA_recv(m)
           \/ kind = "BU" /\ BU_recv(m)
           \/ kind = "BC" /\ Status!Write(m) /\ UNCHANGED <<flags, cVars, synced>>
           \/ kind = "BM" /\ Cmd!Write(m) /\ UNCHANGED <<flags, sVars, synced>>
    /\ wire' = Tail(wire)
    /\ UNCHANGED <<screen, eo, srv, entered, phantom, early, movies, lost>>

-----------------------------------------------------------------------------
(* GameProc.                                                               *)

\* The way back to the map.
ReturnToMap ==
    /\ ProcNo = "GAME" /\ SubProcNo = 1
    /\ SubProcNo' = 3
    /\ UNCHANGED <<ProcNo, flags, sVars, cVars, net, history>>

Encounter ==
    /\ ProcNo = "GAME" /\ SubProcNo = 3 /\ EncountFlag
    /\ Status!Clear /\ Cmd!Clear
    /\ BattleTurnReceiveFlag' = TRUE
    /\ SubProcNo' = 4
    /\ entered' = Announced /\ phantom' = (phantom \/ Announced = entered)
    /\ movies' = 0 /\ synced' = FALSE
    /\ UNCHANGED <<ProcNo, EncountFlag, BattleEscFlag, BattleCliTurnNo, net, early, lost>>

LeaveMap ==
    /\ ProcNo = "GAME" /\ SubProcNo \in {4, 5}
    /\ IF SubProcNo = 4
       THEN SubProcNo' = 5 /\ UNCHANGED ProcNo
       ELSE ProcNo' = "BATTLE" /\ SubProcNo' = INIT
    /\ UNCHANGED <<flags, sVars, cVars, net, history>>

-----------------------------------------------------------------------------
(* BattleProc.                                                             *)

\* The tail of BattleProc looks at BattleEscFlag, unless a screen is fading.
\* EncountFlag is still set when the first state has not been read.
Tail_BattleProc(next) ==
    /\ SubProcNo' = IF BattleEscFlag # 0 THEN OUT_PRODUCE_INIT ELSE next
    /\ BattleEscFlag' = 0
    /\ early' = (early \/ (EncountFlag' /\ BattleEscFlag # 0))
    /\ UNCHANGED ProcNo

\* (mutant: InitBattleMenu keeps BattleEscFlag)
BattleInitKeepsEsc ==
    /\ ProcNo = "BATTLE" /\ SubProcNo = INIT
    /\ SubProcNo' = IN_PRODUCE
    /\ UNCHANGED <<ProcNo, flags, sVars, cVars, net, history>>

\* InitBattleMenu drops a BU that came while the map was fading.
BattleInit ==
    /\ ProcNo = "BATTLE" /\ SubProcNo = INIT
    /\ SubProcNo' = IN_PRODUCE
    /\ BattleEscFlag' = 0
    /\ lost' = IF BattleEscFlag = srv.battle THEN BattleEscFlag ELSE lost
    /\ UNCHANGED <<ProcNo, EncountFlag, BattleTurnReceiveFlag, BattleCliTurnNo,
                   sVars, cVars, net, entered, phantom, early, movies, synced>>

FrameUnchanged == UNCHANGED <<BattleTurnReceiveFlag, net, entered, phantom, synced, lost>>

InProduce ==
    /\ ProcNo = "BATTLE" /\ SubProcNo = IN_PRODUCE
    /\ UNCHANGED <<EncountFlag, BattleCliTurnNo, sVars, cVars, movies>>
    /\ Tail_BattleProc(RECEIVE_BC) /\ FrameUnchanged

\* (mutant: the encounter is not answered)
ReceiveBCKeepsEncounter ==
    /\ ProcNo = "BATTLE" /\ SubProcNo = RECEIVE_BC
    /\ Status!Take
    /\ UNCHANGED <<EncountFlag, BattleCliTurnNo, cVars, movies>>
    /\ Tail_BattleProc(CHAR_IN) /\ FrameUnchanged

ReceiveBC ==
    /\ ProcNo = "BATTLE" /\ SubProcNo = RECEIVE_BC
    /\ Status!Take
    /\ EncountFlag' = FALSE
    /\ UNCHANGED <<BattleCliTurnNo, cVars, movies>>
    /\ Tail_BattleProc(CHAR_IN) /\ FrameUnchanged

\* All are on their places; when one side is dead already, it is over.
CharIn ==
    /\ ProcNo = "BATTLE" /\ SubProcNo = CHAR_IN
    /\ UNCHANGED <<EncountFlag, BattleCliTurnNo, sVars, movies>>
    /\ \/ ~sCur.ends /\ UNCHANGED cVars /\ Tail_BattleProc(CMD_INPUT)
       \/ sCur.ends /\ (Cmd!Clear \/ UNCHANGED cVars) /\ Tail_BattleProc(OUT_PRODUCE_INIT)
    /\ FrameUnchanged

CmdInput ==
    /\ ProcNo = "BATTLE" /\ SubProcNo = CMD_INPUT
    /\ UNCHANGED <<EncountFlag, BattleCliTurnNo, sVars, cVars, movies>>
    /\ Tail_BattleProc(RECEIVE_MOVIE) /\ FrameUnchanged

ReceiveMovie ==
    /\ ProcNo = "BATTLE" /\ SubProcNo = RECEIVE_MOVIE
    /\ Cmd!Take
    /\ UNCHANGED <<EncountFlag, BattleCliTurnNo, sVars, movies>>
    /\ Tail_BattleProc(MOVIE) /\ FrameUnchanged

\* (mutant: the next turn begins with the input, on the state of the last)
MovieSkipsState ==
    /\ ProcNo = "BATTLE" /\ SubProcNo = MOVIE
    /\ UNCHANGED <<EncountFlag, sVars>> /\ FrameUnchanged
    /\ IF cCur.ends
       THEN UNCHANGED <<BattleCliTurnNo, movies>> /\ Tail_BattleProc(OUT_PRODUCE_INIT)
       ELSE BattleCliTurnNo' = BattleCliTurnNo + 1 /\ movies' = movies + 1
            /\ Tail_BattleProc(CMD_INPUT)
    /\ Cmd!Clear

\* (mutant: the last movie is taken for one with a turn to follow)
MovieNeverLast ==
    /\ ProcNo = "BATTLE" /\ SubProcNo = MOVIE
    /\ UNCHANGED <<EncountFlag, sVars>> /\ FrameUnchanged
    /\ BattleCliTurnNo' = BattleCliTurnNo + 1 /\ movies' = movies + 1
    /\ Tail_BattleProc(RECEIVE_BC)
    /\ Cmd!Clear

Movie ==
    /\ ProcNo = "BATTLE" /\ SubProcNo = MOVIE
    /\ UNCHANGED <<EncountFlag, sVars>> /\ FrameUnchanged
    /\ IF cCur.ends
       THEN UNCHANGED <<BattleCliTurnNo, movies>> /\ Tail_BattleProc(OUT_PRODUCE_INIT)
       ELSE BattleCliTurnNo' = BattleCliTurnNo + 1 /\ movies' = movies + 1
            /\ Tail_BattleProc(RECEIVE_BC)
    /\ Cmd!Clear

\* A frame in which only the tail does something.
Escape ==
    /\ ProcNo = "BATTLE" /\ SubProcNo \in RECEIVE_BC..MOVIE /\ BattleEscFlag # 0
    /\ UNCHANGED <<EncountFlag, BattleCliTurnNo, sVars, cVars, movies>>
    /\ Tail_BattleProc(SubProcNo) /\ FrameUnchanged

OutProduceInit ==
    /\ ProcNo = "BATTLE" /\ SubProcNo = OUT_PRODUCE_INIT
    /\ SubProcNo' = OUT_PRODUCE
    /\ UNCHANGED <<ProcNo, flags, sVars, cVars, net, history>>

OutProduce ==
    /\ ProcNo = "BATTLE" /\ SubProcNo = OUT_PRODUCE
    /\ ProcNo' = "GAME" /\ SubProcNo' = 1
    /\ eo' = TRUE
    /\ UNCHANGED <<flags, sVars, cVars, wire, srv, history>>

-----------------------------------------------------------------------------
Init ==
    /\ ProcNo = "GAME" /\ SubProcNo = 3
    /\ EncountFlag = FALSE /\ BattleEscFlag = 0
    /\ BattleTurnReceiveFlag = FALSE /\ BattleCliTurnNo = 0
    /\ Status!Init /\ Cmd!Init
    /\ wire = <<>> /\ eo = FALSE
    /\ srv = [battle |-> 0, turn |-> 0, ba |-> 0, phase |-> "map", bu |-> FALSE]
    /\ entered = 0 /\ phantom = FALSE /\ early = FALSE /\ movies = 0 /\ synced = FALSE /\ lost = 0

Process ==
    \/ ReturnToMap \/ Encounter \/ LeaveMap
    \/ BattleInit \/ InProduce \/ ReceiveBC \/ CharIn \/ CmdInput
    \/ ReceiveMovie \/ Movie \/ Escape \/ OutProduceInit \/ OutProduce

Server == ServerEncounter \/ ServerState \/ ServerProgress \/ ServerMovie
          \/ ServerDismiss \/ ServerHearsEO

\* Frames of the map, and of the screens that wait for a line.
Wait ==
    /\ \/ ProcNo = "GAME" /\ SubProcNo = 3
       \/ ProcNo = "BATTLE" /\ SubProcNo \in {RECEIVE_BC, RECEIVE_MOVIE}
    /\ UNCHANGED vars

Next == Recv \/ Process \/ Server \/ Wait

Spec == Init /\ [][Next]_vars

\* Lines arrive, the game loop runs, and the server hears the EO.  The server
\* need not go on with a battle, nor start one.
FairSpec == Spec /\ WF_vars(Recv) /\ WF_vars(Process) /\ WF_vars(ServerHearsEO)

-----------------------------------------------------------------------------
InBattle(screens) == ProcNo = "BATTLE" /\ SubProcNo \in screens

(* What is on the screen belongs together: the fighters are those of the   *)
(* battle announced last and of the turn the movies have reached, and the  *)
(* movie played is that of this turn, however far the server is ahead and  *)
(* whatever an earlier battle has left unread.                             *)
InStep ==
    ~phantom =>
        /\ InBattle(CHAR_IN..MOVIE) => sCur.battle = Announced /\ sCur.turn = movies
        /\ InBattle({MOVIE}) => cCur.battle = Announced /\ cCur.turn = movies

(* The client leaves a battle, and sends EO, only when the server has      *)
(* ended this very battle: a BU for an earlier one is never obeyed.        *)
LeavesOnlyEnded ==
    ~phantom => (InBattle({OUT_PRODUCE_INIT, OUT_PRODUCE}) \/ eo => srv.phase = "over")

(* EncountFlag is cleared only by reading a state.  So a battle is entered *)
(* without having been announced only after one was left by a BU that came *)
(* before its first state was read; nothing is claimed from there on.      *)
PhantomOnlyByEarlyEscape == phantom => early

(* Once a BA for the turn on the screen has set BattleCliTurnNo, it counts *)
(* the turns shown until the battle ends, even when later BAs run ahead.   *)
TurnAgrees == synced /\ ~phantom => BattleCliTurnNo = movies

(* The receive buffers stay within what BattleRing assumes of them, over   *)
(* battles that are left with messages unread.                             *)
RingsUsedAsAssumed == Status!Spec /\ Cmd!Spec

(* A battle the server has ended ends on the client too, and is reported   *)
(* with EO, unless its BU fell between the EN and the first frame of the   *)
(* battle screen and was discarded.                                        *)
BattleEnds == srv.phase = "over" ~> srv.phase # "over" \/ lost = srv.battle \/ phantom
=============================================================================
