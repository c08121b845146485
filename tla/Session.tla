------------------------------- MODULE Session -------------------------------
(***************************************************************************)
(* From the id/password screen into the game and out again: the state      *)
(* machine of the screens (Process, ChangeProc and ChangeProc2 of          *)
(* system/process.cpp), the login screens of system/login.cpp, and the     *)
(* requests they make of the server (system/netproc.cpp).                  *)
(*                                                                         *)
(* A frame of the game loop is networkLoop(), here NetStart, any number of *)
(* received lines and NetEnd, and then one Process.  NetLink has the bytes *)
(* of the connection; here a request is one message.  What a screen does   *)
(* on its own while it waits for a mouse click is one step.                *)
(*                                                                         *)
(* The server is not part of the program: it answers requests in any       *)
(* order, late or never, grants what its state allows, and may drop the    *)
(* connection.                                                             *)
(***************************************************************************)
EXTENDS FiniteSets

Kinds == {"ClientLogin", "CharList", "CreateNewChar", "CharDelete",
          "CharLogin", "CharLogout"}

CONSTANTS
    ManyGroups,         \* nGroup > 1: servers are chosen group first
    Late                \* bound: the kinds the server may answer after the
                        \* screen has given up, or on a later connection

ASSUME GroupsAssumption == ManyGroups \in BOOLEAN
ASSUME LateAssumption == Late \subseteq Kinds

\* of: whether the client still waits for the answer, has given up, or made
\* the request on an earlier connection.
Request == [kind : Kinds, of : {"own", "gaveUp", "earlier"}]

Subs == [ID_PASSWORD |-> {"0", "2", "5", "101"},
         TITLE_MENU |-> {"0", "1", "2", "3", "5", "101"},
         CHAR_SELECT |-> {"0", "1", "10", "11", "20", "22", "101", "301"},
         CHAR_MAKE |-> {"0", "3", "31", "101"},
         CHAR_LOGIN_START |-> {"0"},
         CHAR_LOGIN |-> {"0", "1", "101"},
         CHAR_LOGOUT |-> {"0", "2"},
         GAME |-> {"0", "1", "2", "3", "4", "5", "101"},
         BATTLE |-> {"0", "1"},
         DISCONNECT_SERVER |-> {"0"}]

Screens == UNION {[proc : {p}, sub : Subs[p]] : p \in DOMAIN Subs}
NoProc == [proc |-> "none", sub |-> "0"]

VARIABLES
    phase,                  \* "net", "recv" or "proc": the part of the frame
    ProcNo, SubProcNo,
    ProcNo2,                \* the screen ChangeProc2 has asked for, or NoProc
    init_net, server_choosed,
    disconnectServerFlag, oldDisconnectServerFlag,
    sock,                   \* the socket: "closed", "connecting", "open", "lost"
    outbuf,                 \* requests in net_writebuf
    netproc_sending,
    status,                 \* the charListStatus, or its like, last reset
    expired,                \* TIMEOUT has passed since start_time
    conn,                   \* how far connecGameServer is
    hPing,                  \* the ping thread runs
    EncountFlag, logOutFlag,
    wire,                   \* requests the server has not answered
    server,                 \* what this connection is to the server
    battle,                 \* the server's battle: its lines that have come
    answer,     \* history: the kind of request whose answer was accepted
    outOfStep,  \* history: a late answer was accepted on this connection
    latePing,   \* history: the ping thread was started by an answer too late
    swallowed   \* history: a battle screen has replaced the disconnect screen

screen == <<ProcNo, SubProcNo, ProcNo2>>
link == <<init_net, server_choosed, disconnectServerFlag,
          oldDisconnectServerFlag, sock>>
serverVars == <<wire, server, battle>>
requests == <<netproc_sending, status, expired>>
game == <<EncountFlag, logOutFlag, hPing>>
history == <<answer, outOfStep, latePing, swallowed>>
vars == <<phase, screen, link, outbuf, serverVars, requests, conn, game, history>>

TypeOK ==
    /\ phase \in {"net", "recv", "proc"}
    /\ [proc |-> ProcNo, sub |-> SubProcNo] \in Screens
    /\ ProcNo2 \in Screens \cup {NoProc}
    /\ {init_net, server_choosed, disconnectServerFlag, oldDisconnectServerFlag,
        status, expired, hPing, EncountFlag, logOutFlag, outOfStep, latePing,
        swallowed} \subseteq BOOLEAN
    /\ sock \in {"closed", "connecting", "open", "lost"}
    /\ outbuf \subseteq Request /\ wire \subseteq Request
    /\ netproc_sending \in {"NOTSEND", "SENDING", "RECEIVED"}
    /\ conn \in {"start", "greet", "greeted", "login", "pause"}
    /\ server \in {"none", "new", "client", "player"}
    /\ battle \in {"peace", "en", "begun", "over"}
    /\ answer \in Kinds \cup {"none"}

\* The request whose answer the current screen waits for.
Waiting ==
    CASE ProcNo = "TITLE_MENU" /\ SubProcNo = "5" /\ conn = "login" -> "ClientLogin"
      [] ProcNo = "CHAR_SELECT" /\ SubProcNo = "1" -> "CharList"
      [] ProcNo = "CHAR_SELECT" /\ SubProcNo = "22" -> "CharDelete"
      [] ProcNo = "CHAR_MAKE" /\ SubProcNo = "31" -> "CreateNewChar"
      [] ProcNo = "CHAR_LOGIN" /\ SubProcNo = "1" -> "CharLogin"
      [] OTHER -> "none"

-----------------------------------------------------------------------------
(* The connection.                                                         *)

\* What the server may still answer.
Answered(reqs) == {r \in reqs : r.of = "own" \/ r.kind \in Late}

Abandon(reqs) == {[kind |-> r.kind, of |-> "earlier"] : r \in reqs}

ServerGone == wire' = {} /\ server' = "none" /\ battle' = "peace"

\* cleanupNetwork: unsent is what net_writebuf holds, which stays.
Cleanup(unsent) ==
    IF init_net
    THEN /\ init_net' = FALSE /\ server_choosed' = FALSE
         /\ disconnectServerFlag' = FALSE /\ oldDisconnectServerFlag' = FALSE
         /\ sock' = "closed" /\ outbuf' = Abandon(unsent)
         /\ ServerGone
    ELSE outbuf' = unsent /\ UNCHANGED <<link, serverVars>>

\* initNet: the flags are reset even if the library is in use already.
initNet ==
    /\ init_net' = TRUE
    /\ disconnectServerFlag' = FALSE /\ oldDisconnectServerFlag' = FALSE

LinkUnchanged == UNCHANGED <<link, outbuf, serverVars>>

\* The peer is gone; nothing has noticed it yet.
Lose ==
    /\ phase = "net" /\ sock \in {"connecting", "open"}
    /\ sock' = "lost"
    /\ UNCHANGED <<phase, screen, init_net, server_choosed, disconnectServerFlag,
                   oldDisconnectServerFlag, outbuf, serverVars, requests, conn,
                   game, history>>

\* TimeGetTime() - start_time exceeds TIMEOUT while a screen looks at it.
Expire ==
    /\ ~expired
    /\ \/ Waiting # "none"
       \/ ProcNo = "TITLE_MENU" /\ SubProcNo = "5" /\ conn # "start"
    /\ expired' = TRUE
    /\ UNCHANGED <<phase, screen, link, outbuf, serverVars, netproc_sending,
                   status, conn, game, history>>

-----------------------------------------------------------------------------
(* networkLoop.                                                            *)

\* (mutant: the old flag is updated before it is compared)
NetStartOldFirst ==
    /\ phase = "net"
    /\ phase' = IF init_net /\ ~disconnectServerFlag /\ server_choosed
                THEN "recv" ELSE "proc"
    /\ oldDisconnectServerFlag' =
            IF init_net THEN disconnectServerFlag ELSE oldDisconnectServerFlag
    /\ UNCHANGED <<screen, init_net, server_choosed, disconnectServerFlag, sock,
                   outbuf, serverVars, requests, conn, game, history>>

NetStart ==
    /\ phase = "net"
    /\ IF ~init_net
       THEN phase' = "proc" /\ UNCHANGED <<screen, link>>
       ELSE /\ IF disconnectServerFlag /\ ~oldDisconnectServerFlag
               THEN ProcNo' = "DISCONNECT_SERVER" /\ SubProcNo' = "0"
               ELSE UNCHANGED <<ProcNo, SubProcNo>>
            /\ oldDisconnectServerFlag' = disconnectServerFlag
            /\ phase' = IF disconnectServerFlag \/ ~server_choosed THEN "proc" ELSE "recv"
            /\ UNCHANGED <<ProcNo2, init_net, server_choosed, disconnectServerFlag, sock>>
    /\ UNCHANGED <<outbuf, serverVars, requests, conn, game, history>>

\* The server's answer to r comes in.
Grants(r) == IF r.kind = "ClientLogin" THEN server = "new"
             ELSE server = "client" /\ r.of # "earlier" /\ r.kind # "CharLogout"

ServerGrants(r, ok) ==
    server' = IF ~ok THEN server
              ELSE CASE r.kind = "ClientLogin" -> "client"
                     [] r.kind = "CharLogin" -> "player"
                     [] OTHER -> server

\* The *_recv handlers but ClientLogin's refusal: all of them look only at
\* netproc_sending, and a second login is not accepted while the ping runs.
Accepted(r, ok) == ok /\ ~(r.kind = "CharLogin" /\ hPing)

Answer_recv(r, ok) ==
    /\ IF netproc_sending = "SENDING"
       THEN /\ netproc_sending' = "RECEIVED"
            /\ status' = (status \/ (r.kind = Waiting /\ Accepted(r, ok)))
            /\ hPing' = (hPing \/ (r.kind = "CharLogin" /\ ok))
            /\ latePing' = IF r.kind = "CharLogin" /\ Accepted(r, ok)
                           THEN r.of # "own" \/ Waiting # "CharLogin" ELSE latePing
            /\ answer' = r.kind /\ outOfStep' = (outOfStep \/ r.of # "own")
       ELSE UNCHANGED <<netproc_sending, status, hPing, latePing, answer, outOfStep>>
    /\ ServerGrants(r, ok)
    /\ wire' = wire \ {r}
    /\ UNCHANGED <<screen, link, outbuf, battle>>

\* The answer CANCLE to ClientLogin.
ClientLoginCancelled(r) ==
    /\ r.kind = "ClientLogin" /\ netproc_sending = "SENDING"
    /\ netproc_sending' = "RECEIVED" /\ answer' = r.kind
    /\ Cleanup(outbuf)
    /\ ProcNo' = "ID_PASSWORD" /\ SubProcNo' = "5" /\ ProcNo2' = ProcNo2
    /\ UNCHANGED <<status, hPing, outOfStep, latePing>>

Receive ==
    /\ phase = "recv" /\ init_net
    /\ \E r \in wire :
          \/ \E ok \in BOOLEAN : (ok => Grants(r)) /\ Answer_recv(r, ok)
          \/ ClientLoginCancelled(r)
    /\ UNCHANGED <<phase, expired, conn, EncountFlag, logOutFlag, swallowed>>

\* The server's lines of a battle: EN, the first state, what ends it.
BattleLine ==
    /\ phase = "recv" /\ server = "player"
    /\ \/ /\ battle = "peace" /\ battle' = "en"
          /\ EncountFlag' = (EncountFlag \/ ~logOutFlag)
       \/ battle = "en" /\ battle' = "begun" /\ UNCHANGED EncountFlag
       \/ battle = "begun" /\ battle' = "over" /\ UNCHANGED EncountFlag
    /\ UNCHANGED <<phase, screen, link, outbuf, wire, server, requests, conn,
                   logOutFlag, hPing, history>>

\* recv or send reports an error.
Notice ==
    /\ phase = "recv" /\ phase' = "proc"
    /\ init_net /\ sock \in {"lost", "closed"}
    /\ disconnectServerFlag' = TRUE /\ sock' = "closed"
    /\ outbuf' = Abandon(outbuf)
    /\ ServerGone
    /\ UNCHANGED <<screen, init_net, server_choosed, oldDisconnectServerFlag,
                   requests, conn, game, history>>

\* What is in the buffer is sent, if only into the void.
NetEnd ==
    /\ phase = "recv" /\ phase' = "proc"
    /\ \/ /\ ~init_net     \* a handler has closed the connection
          /\ disconnectServerFlag' \in {FALSE, outbuf # {}}
          /\ UNCHANGED <<outbuf, wire>>
       \/ /\ sock = "open" /\ outbuf' = {} /\ wire' = Answered(wire \cup outbuf)
          /\ UNCHANGED disconnectServerFlag
       \/ /\ sock = "lost" /\ outbuf' \in {outbuf, {}}
          /\ UNCHANGED <<disconnectServerFlag, wire>>
    /\ UNCHANGED <<screen, init_net, server_choosed, oldDisconnectServerFlag, sock,
                   server, battle, requests, conn, game, history>>

-----------------------------------------------------------------------------
(* Process: the screen of the frame is ProcNo, unless ChangeProc2 has      *)
(* asked for another.                                                      *)

Now == IF ProcNo2 = NoProc THEN [proc |-> ProcNo, sub |-> SubProcNo] ELSE ProcNo2

At(proc, sub) == Now = [proc |-> proc, sub |-> sub]

\* ChangeProc, or a step of SubProcNo.
Goto(proc, sub) == ProcNo' = proc /\ SubProcNo' = sub /\ ProcNo2' = NoProc

Stay == Goto(Now.proc, Now.sub)

\* (mutant: the result of the last request is kept)
StartKeepsStatus(kind) ==
    /\ netproc_sending' = "SENDING" /\ UNCHANGED status
    /\ outbuf' = outbuf \cup {[kind |-> kind, of |-> "own"]}

\* The requests.  A *Start function puts the request into the write buffer ...
Start(kind) ==
    /\ status' = FALSE /\ netproc_sending' = "SENDING"
    /\ outbuf' = outbuf \cup {[kind |-> kind, of |-> "own"]}

\* ... with SETSENDING ...
StartTimed(kind) == Start(kind) /\ expired' = FALSE

\* ... and a *Proc function returns 1, -2, -1 or 0 each frame.
Returned(ok) == /\ netproc_sending = "RECEIVED" /\ status = ok
                /\ netproc_sending' = "NOTSEND" /\ UNCHANGED <<status, expired>>
Ok == Returned(TRUE)
Failed == Returned(FALSE)
TimedOut == netproc_sending # "RECEIVED" /\ expired /\ UNCHANGED requests
\* (mutant: the clock is not looked at)
WaitsForGood == netproc_sending # "RECEIVED" /\ UNCHANGED requests
Waits == netproc_sending # "RECEIVED" /\ ~expired /\ UNCHANGED requests

\* (mutant: the connection is closed, and the screens do not know)
GiveUpConnection(kind) == Cleanup(outbuf)

\* The connection stays although the screen no longer waits for kind.
GiveUp(kind) ==
    LET mark(reqs) == {[r EXCEPT !.of = IF r.kind = kind /\ @ = "own"
                                        THEN "gaveUp" ELSE @] : r \in reqs}
    IN  /\ outbuf' = mark(outbuf) /\ wire' = Answered(mark(wire))
        /\ UNCHANGED <<link, server, battle>>

GameUnchanged == UNCHANGED game

idPasswordProc ==
    /\ \/ At("ID_PASSWORD", "0") /\ Goto("ID_PASSWORD", "2")
          /\ hPing' = FALSE /\ LinkUnchanged
       \/ At("ID_PASSWORD", "2") /\ UNCHANGED hPing
          /\ \/ Stay /\ LinkUnchanged
             \/ Goto("TITLE_MENU", "0") /\ LinkUnchanged
             \/ Goto("ID_PASSWORD", "101") /\ Cleanup(outbuf)
       \/ At("ID_PASSWORD", "5") /\ Goto("ID_PASSWORD", "101")
          /\ Cleanup(outbuf) /\ UNCHANGED hPing
       \/ At("ID_PASSWORD", "101") /\ UNCHANGED hPing /\ LinkUnchanged
          /\ (Stay \/ Goto("ID_PASSWORD", "2"))
    /\ UNCHANGED <<requests, conn, EncountFlag, logOutFlag>>

\* connecGameServer and connectServer, up to the greeting.
Connect ==
    \/ /\ conn' = "start" /\ UNCHANGED expired /\ Goto("TITLE_MENU", "5")
       /\ Cleanup(outbuf)
    \/ /\ conn' = "start" /\ expired' = FALSE
       /\ Goto("TITLE_MENU", "101") /\ Cleanup(outbuf)
    \/ /\ conn' = "greet" /\ expired' = FALSE /\ Goto("TITLE_MENU", "5")
       /\ initNet /\ server_choosed' = FALSE /\ sock' = "connecting"
       /\ outbuf' = (IF init_net THEN Abandon(outbuf) ELSE outbuf) /\ ServerGone

\* connectServer after its first call.
connectServer ==
    \/ /\ conn = "greet" /\ UNCHANGED requests
       /\ \/ /\ ~expired /\ Stay /\ LinkUnchanged /\ UNCHANGED conn
          \/ /\ ~expired /\ sock = "connecting" /\ Stay
             /\ conn' = "greeted" /\ server_choosed' = TRUE
             /\ sock' = "open" /\ server' = "new"
             /\ UNCHANGED <<init_net, disconnectServerFlag, oldDisconnectServerFlag,
                            outbuf, wire, battle>>
          \/ Goto("TITLE_MENU", "101") /\ Cleanup(outbuf) /\ UNCHANGED conn
    \/ /\ conn = "greeted" /\ conn' = "login" /\ UNCHANGED expired
       /\ Start("ClientLogin") /\ Stay /\ UNCHANGED <<link, serverVars>>
    \/ /\ conn = "login"
       /\ \/ Waits /\ Stay /\ LinkUnchanged /\ UNCHANGED conn
          \/ /\ netproc_sending = "RECEIVED" /\ status /\ ~expired
             /\ conn' = "pause" /\ Stay /\ LinkUnchanged /\ UNCHANGED requests
          \/ /\ \/ Failed
                \/ TimedOut
                \/ /\ netproc_sending = "RECEIVED" /\ status /\ expired
                   /\ UNCHANGED requests
             /\ Goto("TITLE_MENU", "101") /\ Cleanup(outbuf) /\ UNCHANGED conn
    \/ /\ conn = "pause" /\ UNCHANGED <<status, expired, conn>>
       /\ \/ /\ netproc_sending' = "NOTSEND"
             /\ Goto("CHAR_SELECT", "0") /\ LinkUnchanged
          \/ /\ expired /\ UNCHANGED netproc_sending
             /\ Goto("TITLE_MENU", "101") /\ Cleanup(outbuf)

titleProc ==
    /\ \/ /\ At("TITLE_MENU", "0") \/ At("TITLE_MENU", "1")
          /\ \/ /\ initNet /\ UNCHANGED <<server_choosed, sock, outbuf, serverVars>>
                /\ Goto("TITLE_MENU", IF ManyGroups THEN "2" ELSE "3")
             \/ Goto("TITLE_MENU", "101") /\ LinkUnchanged
          /\ UNCHANGED <<requests, conn>>
       \/ /\ At("TITLE_MENU", "2") /\ UNCHANGED <<requests, conn>>
          /\ \/ (Stay \/ Goto("TITLE_MENU", "3")) /\ LinkUnchanged
             \/ Goto("ID_PASSWORD", "0") /\ Cleanup(outbuf)
             \/ Goto("TITLE_MENU", "101") /\ Cleanup(outbuf)
       \/ /\ At("TITLE_MENU", "3") /\ UNCHANGED <<netproc_sending, status>>
          /\ \/ /\ IF ManyGroups THEN Stay \/ Goto("TITLE_MENU", "2")
                   ELSE Stay \/ Goto("ID_PASSWORD", "0")
                /\ LinkUnchanged /\ UNCHANGED <<expired, conn>>
             \/ Connect
       \/ /\ At("TITLE_MENU", "5") /\ conn = "start"
          /\ Connect /\ UNCHANGED <<netproc_sending, status>>
       \/ At("TITLE_MENU", "5") /\ conn # "start" /\ connectServer
       \/ /\ At("TITLE_MENU", "101") /\ LinkUnchanged /\ UNCHANGED <<requests, conn>>
          /\ (Stay \/ Goto("TITLE_MENU", "1"))
    /\ GameUnchanged

\* (mutant: the timeout is handled, and the answer may still come)
deleteCharacterGivesUp ==
    /\ At("CHAR_SELECT", "22") /\ LinkUnchanged
    /\ \/ Waits /\ Stay
       \/ (Ok \/ TimedOut) /\ Goto("CHAR_SELECT", "10")
       \/ Failed /\ Goto("CHAR_SELECT", "301")

\* The timeout that deleteCharacter returns is not looked at.
deleteCharacter ==
    /\ At("CHAR_SELECT", "22") /\ LinkUnchanged
    /\ \/ (Waits \/ TimedOut) /\ Stay
       \/ Ok /\ Goto("CHAR_SELECT", "10")
       \/ Failed /\ Goto("CHAR_SELECT", "301")

selectCharacterProc ==
    /\ \/ /\ At("CHAR_SELECT", "0") /\ Goto("CHAR_SELECT", "1")
          /\ StartTimed("CharList") /\ UNCHANGED <<link, serverVars>>
       \/ /\ At("CHAR_SELECT", "1")
          /\ \/ Waits /\ Stay /\ LinkUnchanged
             \/ Ok /\ Goto("CHAR_SELECT", "11") /\ LinkUnchanged
             \/ (Failed \/ TimedOut) /\ Goto("CHAR_SELECT", "101")
                /\ Cleanup(outbuf)
       \/ /\ At("CHAR_SELECT", "10") /\ Goto("CHAR_SELECT", "11")
          /\ LinkUnchanged /\ UNCHANGED requests
       \/ /\ At("CHAR_SELECT", "11") /\ LinkUnchanged /\ UNCHANGED requests
          /\ \/ Stay
             \/ Goto("TITLE_MENU", "1")
             \/ Goto("CHAR_MAKE", "0")
             \/ Goto("CHAR_LOGIN_START", "0")
             \/ Goto("CHAR_SELECT", "20")
       \/ /\ At("CHAR_SELECT", "20")
          /\ \/ (Stay \/ Goto("CHAR_SELECT", "10")) /\ LinkUnchanged /\ UNCHANGED requests
             \/ /\ Goto("CHAR_SELECT", "22")
                /\ StartTimed("CharDelete") /\ UNCHANGED <<link, serverVars>>
       \/ deleteCharacter
       \/ /\ At("CHAR_SELECT", "101") /\ LinkUnchanged /\ UNCHANGED requests
          /\ (Stay \/ Goto("TITLE_MENU", "1"))
       \/ /\ At("CHAR_SELECT", "301") /\ LinkUnchanged /\ UNCHANGED requests
          /\ (Stay \/ Goto("CHAR_SELECT", "10"))
    /\ GameUnchanged /\ UNCHANGED conn

\* Sub 3: the looks, the figures and the birthplace are chosen.
makeCharacterProc ==
    /\ \/ /\ At("CHAR_MAKE", "0") /\ Goto("CHAR_MAKE", "3")
          /\ LinkUnchanged /\ UNCHANGED requests
       \/ /\ At("CHAR_MAKE", "3")
          /\ \/ (Stay \/ Goto("CHAR_SELECT", "10")) /\ LinkUnchanged /\ UNCHANGED requests
             \/ /\ Goto("CHAR_MAKE", "31")
                /\ StartTimed("CreateNewChar") /\ UNCHANGED <<link, serverVars>>
       \/ /\ At("CHAR_MAKE", "31")
          /\ \/ Waits /\ Stay /\ LinkUnchanged
             \/ Ok /\ Goto("CHAR_LOGIN_START", "0") /\ LinkUnchanged
             \/ Failed /\ Goto("CHAR_MAKE", "101") /\ LinkUnchanged
             \/ TimedOut /\ Goto("CHAR_MAKE", "101") /\ GiveUp("CreateNewChar")
       \/ /\ At("CHAR_MAKE", "101") /\ LinkUnchanged /\ UNCHANGED requests
          /\ (Stay \/ Goto("CHAR_SELECT", "10"))
    /\ GameUnchanged /\ UNCHANGED conn

charLoginStart ==
    /\ At("CHAR_LOGIN_START", "0") /\ Goto("CHAR_LOGIN", "0")
    /\ EncountFlag' = FALSE /\ logOutFlag' = FALSE
    /\ LinkUnchanged /\ UNCHANGED <<requests, conn, hPing>>

\* charLoginProc waits without looking while no server is chosen.
characterLoginProc ==
    /\ \/ /\ At("CHAR_LOGIN", "0") /\ Goto("CHAR_LOGIN", "1")
          /\ StartTimed("CharLogin") /\ UNCHANGED <<link, serverVars>>
       \/ /\ At("CHAR_LOGIN", "1")
          /\ IF ~server_choosed THEN Stay /\ LinkUnchanged /\ UNCHANGED requests
             ELSE \/ Waits /\ Stay /\ LinkUnchanged
                  \/ Ok /\ Goto("GAME", "0") /\ LinkUnchanged
                  \/ Failed /\ Goto("CHAR_LOGIN", "101") /\ LinkUnchanged
                  \/ TimedOut /\ Goto("CHAR_LOGIN", "101") /\ GiveUp("CharLogin")
       \/ /\ At("CHAR_LOGIN", "101") /\ LinkUnchanged /\ UNCHANGED requests
          /\ (Stay \/ Goto("TITLE_MENU", "0"))
    /\ GameUnchanged /\ UNCHANGED conn

\* charLogout: systemWndNo is never 1 here, so the logout is put into the
\* buffer and not waited for, and the connection is closed at once.
characterLogoutProc ==
    /\ \/ /\ At("CHAR_LOGOUT", "0") /\ Goto("CHAR_LOGOUT", "2")
          /\ logOutFlag' = TRUE /\ LinkUnchanged
       \/ /\ At("CHAR_LOGOUT", "2") /\ Goto("ID_PASSWORD", "0")
          /\ Cleanup(outbuf \cup {[kind |-> "CharLogout", of |-> "own"]})
          /\ UNCHANGED logOutFlag
    /\ UNCHANGED <<requests, conn, EncountFlag, hPing>>

\* The system menu: ChangeProc2(PROC_CHAR_LOGOUT).
Logout == [proc |-> "CHAR_LOGOUT", sub |-> "0"]

GotoWithMenu(proc, sub) ==
    ProcNo' = proc /\ SubProcNo' = sub /\ ProcNo2' \in {NoProc, Logout}

\* On the map an encounter is asked for after the menu.  Sub 101 waits for
\* the map; warping (subs 200 to 204) is left out.
GameProc ==
    /\ \/ At("GAME", "0") /\ Goto("GAME", "101") /\ EncountFlag' = FALSE
       \/ At("GAME", "101") /\ (Stay \/ Goto("GAME", "3")) /\ UNCHANGED EncountFlag
       \/ At("GAME", "1") /\ Goto("GAME", "2") /\ UNCHANGED EncountFlag
       \/ At("GAME", "2") /\ Goto("GAME", "3") /\ UNCHANGED EncountFlag
       \/ /\ At("GAME", "3") /\ UNCHANGED EncountFlag
          /\ IF EncountFlag
             THEN /\ ProcNo' = "GAME" /\ SubProcNo' = "3"
                  /\ ProcNo2' = [proc |-> "GAME", sub |-> "4"]
             ELSE GotoWithMenu("GAME", "3")
       \/ At("GAME", "4") /\ Goto("GAME", "5") /\ UNCHANGED EncountFlag
       \/ At("GAME", "5") /\ GotoWithMenu("BATTLE", "0") /\ UNCHANGED EncountFlag
    /\ LinkUnchanged /\ UNCHANGED <<requests, conn, logOutFlag, hPing>>

\* Battle has the screens in detail: one waits for the first state, one for
\* the end, and then EO tells the server.
BattleProc ==
    /\ \/ /\ At("BATTLE", "0") /\ battle \in {"begun", "over"}
          /\ GotoWithMenu("BATTLE", "1") /\ EncountFlag' = FALSE /\ UNCHANGED battle
       \/ /\ At("BATTLE", "1") /\ battle = "over"
          /\ Goto("GAME", "1") /\ battle' = "peace" /\ UNCHANGED EncountFlag
       \/ /\ At("BATTLE", "0") /\ battle \in {"peace", "en"}
          /\ GotoWithMenu("BATTLE", "0") /\ UNCHANGED <<EncountFlag, battle>>
       \/ /\ At("BATTLE", "1") /\ battle # "over"
          /\ GotoWithMenu("BATTLE", "1") /\ UNCHANGED <<EncountFlag, battle>>
    /\ UNCHANGED <<link, outbuf, wire, server, requests, conn, logOutFlag, hPing>>

\* (mutant: back to the list of servers, where the ping is not stopped)
DisconnectToTitle ==
    /\ At("DISCONNECT_SERVER", "0")
    /\ \/ Stay /\ LinkUnchanged
       \/ Goto("TITLE_MENU", "0") /\ Cleanup(outbuf)
    /\ GameUnchanged /\ UNCHANGED <<requests, conn>>

\* PROC_DISCONNECT_SERVER: the box of disconnectServer waits for a click.
DisconnectProc ==
    /\ At("DISCONNECT_SERVER", "0")
    /\ \/ Stay /\ LinkUnchanged
       \/ Goto("ID_PASSWORD", "0") /\ Cleanup(outbuf)
    /\ GameUnchanged /\ UNCHANGED <<requests, conn>>

\* What the history keeps after the screen's step.
Remembered ==
    /\ swallowed' = /\ init_net'
                    /\ \/ swallowed
                       \/ ProcNo = "DISCONNECT_SERVER" /\ ProcNo2.proc = "GAME"
    /\ outOfStep' = (outOfStep /\ init_net' /\ sock' # "connecting")
    /\ answer' = IF netproc_sending' = "RECEIVED" THEN answer ELSE "none"
    /\ latePing' = (latePing /\ hPing')

Process ==
    /\ phase = "proc" /\ phase' = "net"
    /\ \/ idPasswordProc \/ titleProc \/ selectCharacterProc \/ makeCharacterProc
       \/ charLoginStart \/ characterLoginProc \/ characterLogoutProc
       \/ GameProc \/ BattleProc \/ DisconnectProc
    /\ Remembered

-----------------------------------------------------------------------------

Init ==
    /\ phase = "net" /\ ProcNo = "ID_PASSWORD" /\ SubProcNo = "0" /\ ProcNo2 = NoProc
    /\ init_net = FALSE /\ server_choosed = FALSE /\ sock = "closed" /\ outbuf = {}
    /\ disconnectServerFlag = FALSE /\ oldDisconnectServerFlag = FALSE
    /\ netproc_sending = "NOTSEND" /\ status = FALSE
    /\ expired = FALSE /\ conn = "start" /\ hPing = FALSE
    /\ EncountFlag = FALSE /\ logOutFlag = FALSE
    /\ wire = {} /\ server = "none" /\ battle = "peace"
    /\ answer = "none" /\ outOfStep = FALSE /\ latePing = FALSE /\ swallowed = FALSE

Next == \/ NetStart \/ Receive \/ BattleLine \/ Notice \/ NetEnd
        \/ Process \/ Lose \/ Expire

\* The game loop runs, time passes, and a dead connection is noticed
\* (NetLink).  Nothing is assumed of the user or the server.
Fairness == /\ WF_vars(NetStart) /\ WF_vars(NetEnd \/ Notice) /\ WF_vars(Process)
            /\ WF_vars(Expire) /\ SF_vars(Notice)

Spec == Init /\ [][Next]_vars /\ Fairness

-----------------------------------------------------------------------------
(* Properties.                                                             *)

\* A screen that works with the server has a connection, or one whose loss
\* is about to be reported: selectCharacterProc, makeCharacterProc,
\* characterLoginProc, GameProc and BattleProc never run on a connection that
\* cleanupNetwork has closed.
ScreenHasServer ==
    /\ ProcNo \in {"CHAR_SELECT", "CHAR_MAKE", "CHAR_LOGIN_START", "CHAR_LOGIN",
                   "GAME", "BATTLE"}
    /\ ~(ProcNo = "CHAR_SELECT" /\ SubProcNo = "101")
    => init_net /\ server_choosed

\* All requests share netproc_sending: a screen takes the answer to another
\* request for its own only on a connection on which an answer has come late,
\* to a request given up or left in net_writebuf by an earlier connection.
CreditedOwn ==
    Waiting # "none" /\ netproc_sending = "RECEIVED" /\ answer # Waiting
    => outOfStep

\* The player is in the game only if the server has let this very connection
\* in, whatever answers came late on the way.
InGameAccepted ==
    ProcNo \in {"GAME", "BATTLE"} => server = "player" \/ sock = "closed"

\* A login meets a running ping thread, and is then refused by
\* lssproto_CharLogin_recv whatever the server says, only if that thread was
\* started by the late answer to a login given up.
BlockedOnlyByLate ==
    Waiting = "CharLogin" /\ hPing /\ ~status => latePing

\* The connection is dead.
Dead == init_net /\ (sock = "lost" \/ disconnectServerFlag)

\* The loss of the connection is reported, or ended by a new connection, on
\* every screen; only a pending encounter can replace the disconnect screen.
LossReportedOrSwallowed ==
    Dead ~> (~Dead \/ ProcNo = "DISCONNECT_SERVER" \/ swallowed)

\* No screen waits for an answer forever, except the deletion of a character.
WaitsEnd ==
    \A kind \in {"ClientLogin", "CharList", "CreateNewChar", "CharLogin"} :
        Waiting = kind ~> Waiting # kind

\* What the box of disconnectServer says (field.cpp 4606): the player is told
\* when the connection has ended.
LossReported == Dead ~> (~Dead \/ ProcNo = "DISCONNECT_SERVER")

\* What NET_ERRMSG_DELETECHARTIMEOUT says (netmain.h 91): the time for
\* deleting a character runs out.
DeletionTimesOut == Waiting = "CharDelete" ~> Waiting # "CharDelete"
=============================================================================
