---------------------------- MODULE Session_proof ----------------------------
(***************************************************************************)
(* Which screens have a connection, whose answers they take, and that the  *)
(* game is entered only when the server has let this connection in: for    *)
(* one group of servers or many, and any answers that come late.           *)
(***************************************************************************)
EXTENDS Session, TLAPS

Encounter == [proc |-> "GAME", sub |-> "4"]

\* A screen is pending only in the game, or where the loss of the connection
\* has just replaced the game.
Pending ==
    /\ ProcNo2 \in {NoProc, Encounter, Logout}
    /\ ProcNo2 # NoProc => ProcNo \in {"GAME", "BATTLE", "DISCONNECT_SERVER"}

\* What a connection that is closed, or not yet greeted, leaves behind.
Own(reqs) == {r \in reqs : r.of = "own"}
Closed ==
    /\ ~init_net => ~server_choosed /\ sock = "closed"
    /\ sock = "connecting" => ~server_choosed
    /\ ~server_choosed => wire = {} /\ server = "none" /\ Own(outbuf) = {}
    /\ phase = "recv" /\ init_net => ~disconnectServerFlag /\ server_choosed
    /\ ProcNo = "DISCONNECT_SERVER" => disconnectServerFlag /\ init_net

\* The screens that need the server, those of connectServer and the logout
\* included.
Connecting(stages) == ProcNo = "TITLE_MENU" /\ SubProcNo = "5" /\ conn \in stages
Playing == ProcNo \in {"GAME", "BATTLE", "CHAR_LOGOUT"} \/ ProcNo2 # NoProc
Connected ==
    /\ ScreenHasServer
    /\ Connecting({"greet"}) => init_net
    /\ Connecting({"greeted", "login", "pause"}) \/ Playing => init_net /\ server_choosed

\* A login that is answered has been granted on this connection.
LetIn == server = "player" \/ sock = "closed"
Granted ==
    /\ Waiting = "CharLogin" /\ status => netproc_sending = "RECEIVED" /\ LetIn
    /\ ProcNo \in {"GAME", "BATTLE"} \/ ProcNo2 = Encounter => LetIn
    /\ Playing => netproc_sending = "NOTSEND"

\* A request of the screen's own is on its way once, and the screen waits for
\* it: unless an answer came late, or the loss is on the screen.
OneOwn ==
    ~outOfStep =>
        /\ \A r \in Own(outbuf \cup wire) :
              \/ Waiting = r.kind /\ netproc_sending = "SENDING"
              \/ ProcNo = "DISCONNECT_SERVER" /\ ProcNo2 = NoProc
        /\ Own(outbuf) \cap wire = {}

\* The ping thread runs from a login in time to the next id and password.
PingInTime ==
    hPing /\ ~latePing =>
        \/ Waiting = "CharLogin" /\ status
        \/ Playing \/ ProcNo = "DISCONNECT_SERVER"
        \/ ProcNo = "ID_PASSWORD" /\ SubProcNo = "0" /\ ~init_net

\* The type invariant, variable by variable.
Placed ==
    /\ phase \in {"net", "recv", "proc"}
    /\ ProcNo \in DOMAIN Subs /\ SubProcNo \in Subs[ProcNo]
    /\ ProcNo2 \in Screens \cup {NoProc}
Flags ==
    /\ init_net \in BOOLEAN /\ server_choosed \in BOOLEAN
    /\ disconnectServerFlag \in BOOLEAN /\ oldDisconnectServerFlag \in BOOLEAN
    /\ status \in BOOLEAN /\ expired \in BOOLEAN /\ hPing \in BOOLEAN
    /\ EncountFlag \in BOOLEAN /\ logOutFlag \in BOOLEAN
    /\ outOfStep \in BOOLEAN /\ latePing \in BOOLEAN /\ swallowed \in BOOLEAN
Carried == outbuf \in SUBSET Request /\ wire \in SUBSET Request
Stages ==
    /\ sock \in {"closed", "connecting", "open", "lost"}
    /\ netproc_sending \in {"NOTSEND", "SENDING", "RECEIVED"}
    /\ conn \in {"start", "greet", "greeted", "login", "pause"}
    /\ server \in {"none", "new", "client", "player"}
    /\ battle \in {"peace", "en", "begun", "over"}
    /\ answer \in Kinds \cup {"none"}
Types == Placed /\ Flags /\ Carried /\ Stages

IInv == TypeOK /\ Pending /\ Closed /\ Connected /\ Granted /\ OneOwn /\ CreditedOwn /\ PingInTime

LEMMA Typed == TypeOK <=> Types
  <1>1. [proc |-> ProcNo, sub |-> SubProcNo] \in Screens
        <=> ProcNo \in DOMAIN Subs /\ SubProcNo \in Subs[ProcNo]
    BY DEF Screens
  <1> QED
    BY <1>1 DEF TypeOK, Types, Placed, Flags, Carried, Stages

LEMMA TypedNext == TypeOK' <=> Types'
  BY Typed, PTL

LEMMA Sets ==
  ASSUME NEW reqs \in SUBSET Request
  PROVE  /\ Abandon(reqs) \in SUBSET Request /\ Own(Abandon(reqs)) = {}
         /\ Answered(reqs) \in SUBSET reqs /\ Own(Answered(reqs)) = Own(reqs)
  BY DEF Abandon, Request, Own, Answered

\* What each action does to the invariant.
LEMMA NetStartKeeps ==
  ASSUME IInv, NetStart
  PROVE  IInv'
  <1>0. Types
    BY Typed DEF IInv
  <1>1. Types'
    BY <1>0
      DEF NetStart, screen, link, serverVars, requests, game, history, Types, Placed,
          Flags, Carried, Stages, Subs, Screens
  <1>2. Pending'
    BY <1>0 DEF NetStart, screen, Pending, IInv
  <1>3. Closed'
    BY <1>0 DEF NetStart, screen, link, serverVars, Closed, IInv
  <1>4. Connected'
    BY <1>0
      DEF NetStart, screen, Connected, ScreenHasServer, Connecting, Playing, IInv, Pending
  <1>5. Granted'
    BY <1>0
      DEF NetStart, screen, link, serverVars, requests, Granted, Waiting, LetIn,
          Encounter, Playing, NoProc, IInv
  <1>6. OneOwn'
    BY <1>0
      DEF NetStart, serverVars, requests, history, OneOwn, Own, Waiting, NoProc, IInv,
          Pending, Closed
  <1>7. CreditedOwn'
    BY <1>0 DEF NetStart, screen, requests, history, CreditedOwn, Waiting, IInv
  <1>8. PingInTime'
    BY <1>0
      DEF NetStart, screen, link, requests, game, history, PingInTime, Waiting, Playing,
          NoProc, IInv
  <1> QED
    BY TypedNext, <1>1, <1>2, <1>3, <1>4, <1>5, <1>6, <1>7, <1>8 DEF IInv

LEMMA BattleLineKeeps ==
  ASSUME IInv, BattleLine
  PROVE  IInv'
  <1>0. Types
    BY Typed DEF IInv
  <1>1. Types'
    BY <1>0
      DEF BattleLine, screen, link, requests, history, Types, Placed, Flags, Carried,
          Stages, IInv, Pending, Closed, Connected
  <1>2. Pending'
    BY <1>0 DEF BattleLine, screen, Pending, IInv
  <1>3. Closed'
    BY <1>0 DEF BattleLine, screen, link, Closed, IInv
  <1>4. Connected'
    BY <1>0
      DEF BattleLine, link, Connected, ScreenHasServer, IInv, Pending, Closed, Granted
  <1>5. Granted'
    BY <1>0
      DEF BattleLine, screen, requests, Granted, Waiting, LetIn, Encounter, Playing,
          NoProc, IInv
  <1>6. OneOwn'
    BY <1>0 DEF BattleLine, screen, requests, history, OneOwn, Waiting, IInv
  <1>7. CreditedOwn'
    BY <1>0 DEF BattleLine, screen, requests, history, CreditedOwn, Waiting, IInv
  <1>8. PingInTime'
    BY <1>0
      DEF BattleLine, screen, link, requests, history, PingInTime, Waiting, Playing, IInv
  <1> QED
    BY TypedNext, <1>1, <1>2, <1>3, <1>4, <1>5, <1>6, <1>7, <1>8 DEF IInv

LEMMA NoticeKeeps ==
  ASSUME IInv, Notice
  PROVE  IInv'
  <1>0. Types
    BY Typed DEF IInv
  <1>1. Types'
    BY <1>0
      DEF Notice, Abandon, ServerGone, screen, requests, game, history, Types, Placed,
          Flags, Carried, Stages, NoProc, Request
  <1>2. Pending'
    BY <1>0 DEF Notice, screen, Pending, IInv
  <1>3. Closed'
    BY <1>0 DEF Notice, Closed, IInv
  <1>4. Connected'
    BY <1>0 DEF Notice, Connected, ScreenHasServer, IInv, Closed
  <1>5. Granted'
    BY <1>0
      DEF Notice, screen, requests, Granted, Waiting, LetIn, Encounter, Playing, NoProc,
          IInv
  <1>6. OneOwn'
    BY <1>0 DEF Notice, Abandon, ServerGone, OneOwn, Own
  <1>7. CreditedOwn'
    BY <1>0 DEF Notice, screen, requests, history, CreditedOwn, Waiting, IInv
  <1>8. PingInTime'
    BY <1>0
      DEF Notice, screen, requests, game, history, PingInTime, Waiting, Playing, NoProc,
          IInv
  <1> QED
    BY TypedNext, <1>1, <1>2, <1>3, <1>4, <1>5, <1>6, <1>7, <1>8 DEF IInv

LEMMA NetEndKeeps ==
  ASSUME IInv, NetEnd
  PROVE  IInv'
  <1>0. Types
    BY Typed DEF IInv
  <1>1. Placed'
    BY <1>0 DEF NetEnd, screen, Placed, Types
  <1>2. Flags'
    BY <1>0
      DEF NetEnd, Answered, screen, requests, game, history, Flags, IInv, Pending, Closed,
          Connected, Granted, OneOwn, CreditedOwn, PingInTime, Types, NoProc, Encounter,
          Logout, Own, ScreenHasServer, Connecting, Playing, Waiting, LetIn, Placed,
          Carried, Stages, Subs, Screens, Request, Kinds
  <1>3. Carried'
    BY <1>0
      DEF NetEnd, Answered, screen, requests, game, history, Carried, Request, Kinds,
          IInv, Pending, Closed, Connected, Granted, OneOwn, CreditedOwn, PingInTime,
          Types, NoProc, Encounter, Logout, Own, ScreenHasServer, Connecting, Playing,
          Waiting, LetIn, Placed, Flags, Stages, Subs, Screens
  <1>4. Stages'
    BY <1>0 DEF NetEnd, requests, history, Stages, PingInTime, Types
  <1>5. Pending'
    BY <1>0 DEF NetEnd, screen, Pending, IInv
  <1>6. Closed'
    BY <1>0
      DEF NetEnd, Answered, screen, requests, game, history, Closed, Own, IInv, Pending,
          Connected, Granted, OneOwn, CreditedOwn, PingInTime, Types, NoProc, Encounter,
          Logout, ScreenHasServer, Connecting, Playing, Waiting, LetIn, Placed, Flags,
          Carried, Stages, Subs, Screens, Request, Kinds
  <1>7. Connected'
    BY <1>0
      DEF NetEnd, screen, Connected, ScreenHasServer, Connecting, Playing, NoProc, IInv
  <1>8. Granted'
    BY <1>0
      DEF NetEnd, screen, requests, Granted, Waiting, LetIn, Playing, NoProc, IInv,
          Pending
  <1>9. OneOwn'
    BY <1>0
      DEF NetEnd, Answered, screen, requests, game, history, OneOwn, Own, Waiting, NoProc,
          IInv, Pending, Closed, Connected, Granted, CreditedOwn, PingInTime, Types,
          Encounter, Logout, ScreenHasServer, Connecting, Playing, LetIn, Placed, Flags,
          Carried, Stages, Subs, Screens, Request, Kinds
  <1>10. CreditedOwn'
    BY <1>0 DEF NetEnd, screen, requests, history, CreditedOwn, Waiting, IInv
  <1>11. PingInTime'
    BY <1>0
      DEF NetEnd, screen, requests, game, history, PingInTime, Waiting, Playing, NoProc,
          IInv, Pending
  <1> QED
    BY TypedNext, <1>1, <1>2, <1>3, <1>4, <1>5, <1>6, <1>7, <1>8, <1>9, <1>10, <1>11
      DEF IInv, Types

LEMMA LoseKeeps ==
  ASSUME IInv, Lose
  PROVE  IInv'
  <1>0. Types
    BY Typed DEF IInv
  <1>1. Types'
    BY <1>0
      DEF Lose, screen, serverVars, requests, game, history, Types, Placed, Flags,
          Carried, Stages, Subs
  <1>2. Pending'
    BY <1>0 DEF Lose, screen, Pending, IInv
  <1>3. Closed'
    BY <1>0 DEF Lose, screen, serverVars, Closed, IInv
  <1>4. Connected'
    BY <1>0 DEF Lose, screen, Connected, ScreenHasServer, Connecting, Playing, IInv
  <1>5. Granted'
    BY <1>0
      DEF Lose, screen, serverVars, requests, Granted, Waiting, LetIn, Playing, NoProc,
          IInv, Pending
  <1>6. OneOwn'
    BY <1>0
      DEF Lose, screen, serverVars, requests, history, OneOwn, Waiting, NoProc, IInv,
          Pending
  <1>7. CreditedOwn'
    BY <1>0 DEF Lose, screen, requests, history, CreditedOwn, Waiting, IInv
  <1>8. PingInTime'
    BY <1>0
      DEF Lose, screen, requests, game, history, PingInTime, Waiting, Playing, NoProc,
          IInv, Pending
  <1> QED
    BY TypedNext, <1>1, <1>2, <1>3, <1>4, <1>5, <1>6, <1>7, <1>8 DEF IInv

LEMMA ExpireKeeps ==
  ASSUME IInv, Expire
  PROVE  IInv'
  <1>0. Types
    BY Typed DEF IInv
  <1>1. Types'
    BY <1>0
      DEF Expire, screen, link, serverVars, game, history, Types, Placed, Flags, Carried,
          Stages
  <1>2. Pending'
    BY <1>0 DEF Expire, screen, Pending, IInv
  <1>3. Closed'
    BY <1>0 DEF Expire, screen, link, serverVars, Closed, IInv
  <1>4. Connected'
    BY <1>0
      DEF Expire, screen, link, Connected, ScreenHasServer, Connecting, Playing, NoProc,
          IInv, Pending
  <1>5. Granted'
    BY <1>0
      DEF Expire, Waiting, screen, link, serverVars, Granted, LetIn, Encounter, Playing,
          NoProc, IInv, Pending
  <1>6. OneOwn'
    BY <1>0
      DEF Expire, Waiting, screen, serverVars, history, OneOwn, IInv, Pending, Closed,
          Connected
  <1>7. CreditedOwn'
    BY <1>0 DEF Expire, Waiting, screen, history, CreditedOwn, IInv
  <1>8. PingInTime'
    BY <1>0
      DEF Expire, Waiting, screen, game, history, PingInTime, Playing, NoProc, IInv,
          Pending
  <1> QED
    BY TypedNext, <1>1, <1>2, <1>3, <1>4, <1>5, <1>6, <1>7, <1>8 DEF IInv

LEMMA Answer_recvKeeps ==
  ASSUME IInv, NEW r \in wire, phase = "recv", init_net,
         UNCHANGED <<phase, expired, conn, EncountFlag, logOutFlag, swallowed>>,
         NEW ok \in BOOLEAN, ok => Grants(r), Answer_recv(r, ok)
  PROVE  IInv'
  <1>0. Types
    BY Typed DEF IInv
  <1>1. Placed'
    BY <1>0 DEF Answer_recv, screen, Placed, Types
  <1>2. Flags'
    BY <1>0
      DEF Answer_recv, Grants, Waiting, Accepted, ServerGrants, screen, link, Flags, IInv,
          Pending, Closed, Connected, Granted, OneOwn, CreditedOwn, PingInTime, Types,
          NoProc, Encounter, Logout, Own, ScreenHasServer, Connecting, Playing, LetIn,
          Placed, Carried, Stages, Subs, Screens, Request, Kinds
  <1>3. Carried'
    BY <1>0 DEF Answer_recv, Carried, Types
  <1>4. Stages'
    BY <1>0
      DEF Answer_recv, ServerGrants, screen, link, Stages, Types, NoProc, Carried, Subs,
          Screens, Request
  <1>5. Pending'
    BY <1>0 DEF Answer_recv, screen, Pending, IInv
  <1>6. Closed'
    BY <1>0 DEF Answer_recv, screen, link, Closed, IInv
  <1>7. Connected'
    BY <1>0 DEF Answer_recv, link, Connected, ScreenHasServer, IInv, Closed
  <1>8. Granted'
    BY <1>0
      DEF Answer_recv, Grants, Waiting, Accepted, ServerGrants, screen, link, Granted,
          LetIn, Encounter, Playing, NoProc, IInv, Pending, PingInTime, Types, Flags,
          Carried
  <1>9. OneOwn'
    <2> SUFFICES ASSUME netproc_sending = "SENDING", r.of = "own", ~outOfStep
                 PROVE  Own(outbuf \cup wire') = {}
      BY <1>0
        DEF Answer_recv, Grants, Waiting, Accepted, ServerGrants, screen, link, OneOwn,
            Own, NoProc, IInv, Pending, Closed, Connected, Granted, CreditedOwn,
            PingInTime, Types, Encounter, Logout, ScreenHasServer, Connecting, Playing,
            LetIn, Placed, Flags, Carried, Stages, Subs, Screens, Request, Kinds
    <2>1. outbuf' = outbuf /\ wire' = wire \ {r} /\ UNCHANGED <<ProcNo, SubProcNo, ProcNo2, conn>>
      BY DEF Answer_recv, screen
    <2>2. r \in Own(outbuf \cup wire) /\ r \in Request /\ r \notin outbuf
      BY <1>0 DEF Types, Carried, IInv, OneOwn, Own
    <2>3. Waiting = r.kind
      BY <1>0, <2>2 DEF OneOwn, IInv, Closed
    <2>4. ASSUME NEW q \in Own(outbuf \cup wire) PROVE q = r
      <3>1. q \in Request /\ q.of = r.of
        BY <1>0 DEF Own, Types, Carried
      <3>2. q.kind = r.kind
        BY <1>0, <2>3, <2>4 DEF OneOwn, IInv, Closed
      <3> QED
        BY <2>2, <3>1, <3>2 DEF Request
    <2> QED
      BY <2>1, <2>2, <2>4 DEF Own
  <1>10. CreditedOwn'
    BY <1>0
      DEF Answer_recv, Grants, Waiting, Accepted, ServerGrants, screen, link, CreditedOwn,
          IInv, Pending, Closed, Connected, Granted, OneOwn, PingInTime, Types, NoProc,
          Encounter, Logout, Own, ScreenHasServer, Connecting, Playing, LetIn, Placed,
          Flags, Carried, Stages, Subs, Screens, Request, Kinds
  <1>11. PingInTime'
    BY <1>0
      DEF Answer_recv, Grants, Waiting, Accepted, ServerGrants, screen, link, PingInTime,
          Playing, NoProc, IInv, Pending, Closed, Connected, Granted, OneOwn, CreditedOwn,
          Types, Encounter, Logout, Own, ScreenHasServer, Connecting, LetIn, Placed,
          Flags, Carried, Stages, Subs, Screens, Request, Kinds
  <1> QED
    BY TypedNext, <1>1, <1>2, <1>3, <1>4, <1>5, <1>6, <1>7, <1>8, <1>9, <1>10, <1>11
      DEF IInv, Types

LEMMA ClientLoginCancelledKeeps ==
  ASSUME IInv, NEW r \in wire, phase = "recv", init_net,
         UNCHANGED <<phase, expired, conn, EncountFlag, logOutFlag, swallowed>>,
         ClientLoginCancelled(r)
  PROVE  IInv'
  <1>0. Types
    BY Typed DEF IInv
  <1>1. Placed'
    BY <1>0 DEF ClientLoginCancelled, Placed, Subs, Types
  <1>2. Flags'
    BY <1>0
      DEF ClientLoginCancelled, Cleanup, Abandon, ServerGone, link, serverVars, Flags,
          IInv, Pending, Closed, Connected, Granted, OneOwn, CreditedOwn, PingInTime,
          Types, NoProc, Encounter, Logout, Own, ScreenHasServer, Connecting, Playing,
          Waiting, LetIn, Placed, Carried, Stages, Subs, Screens, Request, Kinds
  <1>3. Carried'
    BY <1>0
      DEF ClientLoginCancelled, Cleanup, Abandon, ServerGone, Carried, Request, Types
  <1>4. Stages'
    BY <1>0 DEF ClientLoginCancelled, Cleanup, ServerGone, Stages, Kinds, Types
  <1>5. Pending'
    BY <1>0
      DEF ClientLoginCancelled, Pending, IInv, Closed, Connected, Granted, Playing,
          Waiting
  <1>6. Closed'
    BY <1>0 DEF ClientLoginCancelled, Cleanup, Abandon, ServerGone, Closed, Own
  <1>7. Connected'
    BY <1>0
      DEF ClientLoginCancelled, Connected, ScreenHasServer, Connecting, Playing, IInv,
          Granted
  <1>8. Granted'
    BY <1>0
      DEF ClientLoginCancelled, Granted, Waiting, Encounter, Playing, NoProc, IInv,
          Pending
  <1>9. OneOwn'
    BY <1>0 DEF ClientLoginCancelled, Cleanup, Abandon, ServerGone, OneOwn, Own
  <1>10. CreditedOwn'
    BY <1>0 DEF ClientLoginCancelled, CreditedOwn, Waiting
  <1>11. PingInTime'
    BY <1>0 DEF ClientLoginCancelled, PingInTime, IInv, Closed, Granted
  <1> QED
    BY TypedNext, <1>1, <1>2, <1>3, <1>4, <1>5, <1>6, <1>7, <1>8, <1>9, <1>10, <1>11
      DEF IInv, Types

LEMMA idPasswordProcKeeps ==
  ASSUME IInv, idPasswordProc,
         phase = "proc", phase' = "net", Remembered
  PROVE  IInv'
  <1>0. Types
    BY Typed DEF IInv
  <1>1. Placed'
    BY <1>0 DEF idPasswordProc, At, Goto, Stay, Placed, Subs
  <1>2. Flags'
    BY <1>0
      DEF idPasswordProc, Remembered, At, Goto, LinkUnchanged, Stay, Cleanup, requests,
          Now, NoProc, link, serverVars, Abandon, ServerGone, Flags, IInv, Pending,
          Closed, Connected, Granted, OneOwn, CreditedOwn, PingInTime, Types, Encounter,
          Logout, Own, ScreenHasServer, Connecting, Playing, Waiting, LetIn, Placed,
          Carried, Stages, Subs, Screens, Request, Kinds
  <1>3. Carried'
    BY <1>0
      DEF idPasswordProc, LinkUnchanged, Cleanup, NoProc, link, serverVars, Abandon,
          ServerGone, Carried, Request, Kinds, IInv, PingInTime, Types
  <1>4. Stages'
    BY <1>0
      DEF idPasswordProc, Remembered, LinkUnchanged, Cleanup, requests, NoProc, link,
          serverVars, Abandon, ServerGone, Stages, Types, Encounter
  <1>5. Pending'
    BY <1>0 DEF idPasswordProc, Goto, Stay, Pending
  <1>6. Closed'
    BY <1>0
      DEF idPasswordProc, At, Goto, LinkUnchanged, Stay, Cleanup, link, serverVars,
          Abandon, ServerGone, Closed, Own, IInv, Pending
  <1>7. Connected'
    BY <1>0
      DEF idPasswordProc, At, Goto, Stay, Connected, ScreenHasServer, Connecting, Playing
  <1>8. Granted'
    BY <1>0
      DEF idPasswordProc, At, Goto, Stay, NoProc, serverVars, Abandon, ServerGone,
          Granted, Waiting, LetIn, Encounter, Playing, IInv, Pending
  <1>9. OneOwn'
    BY <1>0
      DEF idPasswordProc, Remembered, At, Goto, LinkUnchanged, Stay, Cleanup, requests,
          Now, NoProc, link, serverVars, Abandon, ServerGone, OneOwn, Own, Waiting, IInv,
          Pending, Closed, Connected, Types, Encounter, Logout, LetIn, Placed, Flags
  <1>10. CreditedOwn'
    BY <1>0 DEF idPasswordProc, At, Goto, Stay, CreditedOwn, Waiting
  <1>11. PingInTime'
    <2> SUFFICES ASSUME hPing', ~latePing' PROVE FALSE
      BY DEF PingInTime
    <2>1. hPing' = hPing /\ \E sub \in {"2", "5", "101"} : At("ID_PASSWORD", sub)
      BY DEF idPasswordProc
    <2>2. ProcNo2 = NoProc /\ ProcNo = "ID_PASSWORD" /\ SubProcNo # "0"
      BY <2>1 DEF At, Now, IInv, Pending, Encounter, Logout
    <2>3. hPing /\ ~latePing
      BY <1>0, <2>1 DEF Remembered, Types, Flags
    <2> QED
      BY <2>2, <2>3 DEF IInv, PingInTime, Playing, Waiting
  <1> QED
    BY TypedNext, <1>1, <1>2, <1>3, <1>4, <1>5, <1>6, <1>7, <1>8, <1>9, <1>10, <1>11
      DEF IInv, Types

LEMMA titleProcKeeps ==
  ASSUME IInv, titleProc,
         phase = "proc", phase' = "net", Remembered
  PROVE  IInv'
  <1>0. Types
    BY Typed DEF IInv
  <1>1. Placed'
    BY <1>0
      DEF titleProc, At, initNet, serverVars, Goto, Stay, Cleanup, Connect, connectServer,
          Placed, Subs
  <1>2. Flags'
    <2>1. init_net' \in BOOLEAN /\ server_choosed' \in BOOLEAN
          /\ disconnectServerFlag' \in BOOLEAN /\ oldDisconnectServerFlag' \in BOOLEAN
      BY <1>0
        DEF titleProc, Remembered, At, initNet, serverVars, Goto, LinkUnchanged, requests,
            Stay, Cleanup, Connect, connectServer, GameUnchanged, Now, NoProc, link,
            Abandon, ServerGone, Start, Waits, Failed, TimedOut, game, Returned, Flags,
            IInv, Pending, Closed, Connected, Granted, OneOwn, CreditedOwn, PingInTime,
            Types, Encounter, Logout, Own, ScreenHasServer, Connecting, Playing, Waiting,
            LetIn, Placed, Carried, Stages, Subs, Screens, Request, Kinds
    <2>2. expired' \in BOOLEAN /\ status' \in BOOLEAN
      BY <1>0
        DEF titleProc, Remembered, At, initNet, serverVars, Goto, LinkUnchanged, requests,
            Stay, Cleanup, Connect, connectServer, GameUnchanged, Now, NoProc, link,
            Abandon, ServerGone, Start, Waits, Failed, TimedOut, game, Returned, Flags,
            IInv, Pending, Closed, Connected, Granted, OneOwn, CreditedOwn, PingInTime,
            Types, Encounter, Logout, Own, ScreenHasServer, Connecting, Playing, Waiting,
            LetIn, Placed, Carried, Stages, Subs, Screens, Request, Kinds
    <2>3. hPing' \in BOOLEAN /\ EncountFlag' \in BOOLEAN /\ logOutFlag' \in BOOLEAN
      BY <1>0
        DEF titleProc, Remembered, GameUnchanged, Now, Failed, TimedOut, game, Returned,
            Flags, IInv, Pending, Closed, PingInTime, Types, Encounter, Logout
    <2>4. outOfStep' \in BOOLEAN /\ swallowed' \in BOOLEAN /\ latePing' \in BOOLEAN
      BY <1>0, <2>1 DEF Remembered
    <2> QED
      BY <2>1, <2>2, <2>3, <2>4 DEF Flags
  <1>3. Carried'
    BY <1>0
      DEF titleProc, Remembered, serverVars, Goto, LinkUnchanged, requests, Stay, Cleanup,
          Connect, connectServer, Abandon, ServerGone, Start, Waits, Carried, Request,
          Kinds, IInv, OneOwn, CreditedOwn, PingInTime, Types
  <1>4. Stages'
    BY <1>0
      DEF titleProc, Remembered, serverVars, Goto, LinkUnchanged, requests, Stay, Cleanup,
          Connect, connectServer, GameUnchanged, Now, NoProc, link, Abandon, ServerGone,
          Start, Waits, Failed, TimedOut, game, Returned, Stages, Kinds, IInv, Pending,
          CreditedOwn, PingInTime, Types, Encounter
  <1>5. Pending'
    BY <1>0
      DEF titleProc, serverVars, Goto, Stay, Cleanup, Connect, connectServer, Pending,
          Encounter
  <1>6. Closed'
    BY <1>0
      DEF titleProc, Remembered, At, initNet, serverVars, Goto, LinkUnchanged, requests,
          Stay, Cleanup, Connect, connectServer, GameUnchanged, Now, NoProc, link,
          Abandon, ServerGone, Start, Waits, Closed, Own, IInv, Pending, Connected,
          Granted, OneOwn, CreditedOwn, ScreenHasServer, Connecting, Playing, Waiting
  <1>7. Connected'
    BY <1>0
      DEF titleProc, Remembered, At, initNet, serverVars, Goto, LinkUnchanged, requests,
          Stay, Cleanup, Connect, connectServer, GameUnchanged, Now, NoProc, link,
          Connected, ScreenHasServer, Connecting, Playing, IInv, Pending, Closed, Granted
  <1>8. Granted'
    BY <1>0
      DEF titleProc, Remembered, At, initNet, serverVars, Goto, Stay, Cleanup, Connect,
          connectServer, NoProc, link, Granted, Waiting, LetIn, Encounter, Playing, IInv,
          Pending, Closed
  <1>9. OneOwn'
    BY <1>0
      DEF titleProc, Remembered, At, initNet, serverVars, Goto, LinkUnchanged, requests,
          Stay, Cleanup, Connect, connectServer, GameUnchanged, Now, NoProc, link,
          Abandon, ServerGone, Start, Waits, OneOwn, Own, Waiting, IInv, Pending, Closed,
          Connected, Granted, CreditedOwn, PingInTime, Types, Encounter, LetIn, Placed,
          Flags, Carried, Stages, Subs, Screens, Request, Kinds
  <1>10. CreditedOwn'
    BY <1>0
      DEF titleProc, Remembered, At, initNet, serverVars, Goto, LinkUnchanged, requests,
          Stay, Cleanup, Connect, connectServer, Start, Waits, CreditedOwn, Waiting, IInv,
          Pending
  <1>11. PingInTime'
    BY <1>0
      DEF titleProc, Remembered, At, initNet, GameUnchanged, Now, NoProc, link, Failed,
          TimedOut, game, Returned, PingInTime, Waiting, Playing, IInv, Pending, Closed,
          Connected, Granted, OneOwn, CreditedOwn, Types, Encounter, Logout, Own,
          ScreenHasServer, Connecting, LetIn, Placed, Flags, Carried
  <1> QED
    BY TypedNext, <1>1, <1>2, <1>3, <1>4, <1>5, <1>6, <1>7, <1>8, <1>9, <1>10, <1>11
      DEF IInv, Types

LEMMA selectCharacterProcKeeps ==
  ASSUME IInv, selectCharacterProc,
         phase = "proc", phase' = "net", Remembered
  PROVE  IInv'
  <1>0. Types
    BY Typed DEF IInv
  <1>1. Placed'
    BY <1>0
      DEF selectCharacterProc, Remembered, At, Goto, Stay, LinkUnchanged, requests,
          deleteCharacter, Placed, Subs, Screens, IInv
  <1>2. Flags'
    BY <1>0
      DEF selectCharacterProc, Remembered, At, Goto, StartTimed, link, serverVars, Waits,
          Stay, LinkUnchanged, Ok, Failed, TimedOut, Cleanup, requests, deleteCharacter,
          GameUnchanged, Now, NoProc, Start, Returned, Abandon, ServerGone, game, Flags,
          IInv, Pending, Closed, Connected, Granted, OneOwn, CreditedOwn, PingInTime,
          Types, Encounter, Logout, Own, ScreenHasServer, Connecting, Playing, Waiting,
          LetIn, Placed, Carried, Stages, Subs, Screens, Request, Kinds
  <1>3. Carried'
    BY <1>0
      DEF selectCharacterProc, Remembered, StartTimed, link, serverVars, Waits, Stay,
          LinkUnchanged, Ok, Failed, TimedOut, Cleanup, requests, deleteCharacter,
          GameUnchanged, Now, NoProc, Start, Returned, Abandon, ServerGone, game, Carried,
          Request, Kinds, IInv, OneOwn, CreditedOwn, PingInTime, Types
  <1>4. Stages'
    BY <1>0
      DEF selectCharacterProc, Remembered, StartTimed, link, serverVars, Waits, Stay,
          LinkUnchanged, Ok, Failed, TimedOut, Cleanup, requests, deleteCharacter,
          GameUnchanged, Now, NoProc, Start, Returned, Abandon, ServerGone, game, Stages,
          Kinds, IInv, Pending, CreditedOwn, PingInTime, Types, Encounter
  <1>5. Pending'
    BY <1>0
      DEF selectCharacterProc, Remembered, At, Goto, Stay, LinkUnchanged, requests,
          deleteCharacter, Pending, Encounter, Logout, IInv
  <1>6. Closed'
    BY <1>0
      DEF selectCharacterProc, Remembered, At, Goto, StartTimed, link, serverVars, Waits,
          Stay, LinkUnchanged, Ok, Failed, TimedOut, Cleanup, requests, deleteCharacter,
          GameUnchanged, Now, NoProc, Start, Returned, Abandon, ServerGone, game, Closed,
          Own, IInv, Pending, Connected, Granted, OneOwn, CreditedOwn, ScreenHasServer,
          Connecting, Playing, Waiting
  <1>7. Connected'
    BY <1>0
      DEF selectCharacterProc, Remembered, At, Goto, StartTimed, link, Stay,
          LinkUnchanged, requests, deleteCharacter, GameUnchanged, Now, NoProc, Start,
          Returned, Abandon, ServerGone, game, Connected, ScreenHasServer, Connecting,
          Playing, IInv, Pending, Closed, Granted
  <1>8. Granted'
    BY <1>0
      DEF selectCharacterProc, Remembered, At, Goto, Stay, LinkUnchanged, requests,
          deleteCharacter, NoProc, Start, Returned, Abandon, ServerGone, game, Granted,
          Waiting, LetIn, Encounter, Playing, IInv, Pending, Closed
  <1>9. OneOwn'
    BY <1>0
      DEF selectCharacterProc, Remembered, At, Goto, StartTimed, link, serverVars, Waits,
          Stay, LinkUnchanged, Ok, Failed, TimedOut, Cleanup, requests, deleteCharacter,
          GameUnchanged, Now, NoProc, Start, Returned, Abandon, ServerGone, game, OneOwn,
          Own, Waiting, IInv, Pending, Closed, Connected, Granted, CreditedOwn,
          PingInTime, Types, Encounter, LetIn, Placed, Flags, Carried, Stages, Subs,
          Screens, Request, Kinds
  <1>10. CreditedOwn'
    BY <1>0
      DEF selectCharacterProc, Remembered, At, Goto, StartTimed, link, serverVars, Waits,
          Stay, LinkUnchanged, TimedOut, Cleanup, requests, deleteCharacter,
          GameUnchanged, Now, NoProc, Start, Returned, Abandon, ServerGone, game,
          CreditedOwn, Waiting, IInv, Pending
  <1>11. PingInTime'
    BY <1>0
      DEF selectCharacterProc, Remembered, At, Goto, TimedOut, Cleanup, requests,
          deleteCharacter, GameUnchanged, Now, NoProc, Start, Returned, Abandon,
          ServerGone, game, PingInTime, Waiting, Playing, IInv, Pending, Closed,
          Connected, Granted, OneOwn, CreditedOwn, Types, Encounter, Logout, Own,
          ScreenHasServer, Connecting, LetIn, Placed, Flags, Carried
  <1> QED
    BY TypedNext, <1>1, <1>2, <1>3, <1>4, <1>5, <1>6, <1>7, <1>8, <1>9, <1>10, <1>11
      DEF IInv, Types

LEMMA makeCharacterProcKeeps ==
  ASSUME IInv, makeCharacterProc,
         phase = "proc", phase' = "net", Remembered
  PROVE  IInv'
  <1>0. Types
    BY Typed DEF IInv
  <1>1. Placed'
    BY <1>0 DEF makeCharacterProc, At, Goto, Stay, Placed, Subs, Screens, IInv
  <1>2. Flags'
    BY <1>0
      DEF makeCharacterProc, Remembered, At, Goto, LinkUnchanged, requests, Stay,
          StartTimed, link, serverVars, Waits, Ok, Failed, TimedOut, GiveUp,
          GameUnchanged, Now, NoProc, Start, Returned, Answered, game, Flags, IInv,
          Pending, Closed, Connected, Granted, OneOwn, CreditedOwn, PingInTime, Types,
          Encounter, Logout, Own, ScreenHasServer, Connecting, Playing, Waiting, LetIn,
          Placed, Carried, Stages, Subs, Screens, Request, Kinds
  <1>3. Carried'
    BY <1>0
      DEF makeCharacterProc, Remembered, At, Goto, LinkUnchanged, requests, Stay,
          StartTimed, link, serverVars, Waits, Ok, Failed, TimedOut, GiveUp, Start,
          Returned, Answered, game, Carried, Request, Kinds, IInv, Pending, Types,
          Encounter
  <1>4. Stages'
    BY <1>0
      DEF makeCharacterProc, Remembered, At, Goto, LinkUnchanged, requests, Stay,
          StartTimed, link, serverVars, Waits, Ok, Failed, TimedOut, GiveUp, Start,
          Returned, Answered, game, Stages, Kinds, CreditedOwn, PingInTime, Types
  <1>5. Pending'
    BY <1>0 DEF makeCharacterProc, Goto, Stay, Pending
  <1>6. Closed'
    BY <1>0
      DEF makeCharacterProc, Remembered, At, Goto, LinkUnchanged, requests, Stay,
          StartTimed, link, Failed, TimedOut, GiveUp, GameUnchanged, Now, NoProc, Start,
          Returned, Answered, game, Closed, Own, IInv, Pending, Connected, PingInTime,
          Types, Encounter, Logout, ScreenHasServer
  <1>7. Connected'
    BY <1>0
      DEF makeCharacterProc, At, LinkUnchanged, requests, Stay, StartTimed, link, Failed,
          TimedOut, GiveUp, GameUnchanged, Now, NoProc, Start, Returned, Answered, game,
          Connected, ScreenHasServer, Connecting, Playing, IInv
  <1>8. Granted'
    BY <1>0
      DEF makeCharacterProc, At, Goto, Stay, GameUnchanged, Now, NoProc, Start, Granted,
          Waiting, LetIn, Encounter, Playing, IInv
  <1>9. OneOwn'
    BY <1>0
      DEF makeCharacterProc, Remembered, At, Goto, LinkUnchanged, requests, Stay,
          StartTimed, link, serverVars, Waits, Ok, Failed, TimedOut, GiveUp,
          GameUnchanged, Now, NoProc, Start, Returned, Answered, game, OneOwn, Own,
          Waiting, IInv, Pending, Closed, Connected, Granted, CreditedOwn, PingInTime,
          Types, Placed, Flags, Carried, Stages, Subs, Screens, Request, Kinds
  <1>10. CreditedOwn'
    BY <1>0
      DEF makeCharacterProc, At, Goto, requests, Stay, StartTimed, link, serverVars,
          Waits, Ok, Start, Returned, Answered, game, CreditedOwn, Waiting
  <1>11. PingInTime'
    BY <1>0
      DEF makeCharacterProc, Remembered, At, Stay, GiveUp, GameUnchanged, Now, NoProc,
          Start, Returned, Answered, game, PingInTime, Waiting, Playing, IInv, Pending,
          Closed, CreditedOwn, Types, Encounter, Logout, Own, ScreenHasServer, Flags,
          Carried
  <1> QED
    BY TypedNext, <1>1, <1>2, <1>3, <1>4, <1>5, <1>6, <1>7, <1>8, <1>9, <1>10, <1>11
      DEF IInv, Types

LEMMA charLoginStartKeeps ==
  ASSUME IInv, charLoginStart,
         phase = "proc", phase' = "net", Remembered
  PROVE  IInv'
  <1>0. Types
    BY Typed DEF IInv
  <1>1. Placed'
    BY <1>0 DEF charLoginStart, Goto, Placed, Subs
  <1>2. Flags'
    BY <1>0
      DEF charLoginStart, Remembered, At, Goto, LinkUnchanged, requests, Now, NoProc,
          link, serverVars, Flags, IInv, Pending, Closed, Connected, Granted, OneOwn,
          CreditedOwn, PingInTime, Types, Encounter, Logout, Own, ScreenHasServer,
          Connecting, Playing, Waiting, LetIn, Placed, Carried, Stages, Subs, Screens,
          Request, Kinds
  <1>3. Carried'
    BY <1>0 DEF charLoginStart, LinkUnchanged, serverVars, Carried, Request, Types
  <1>4. Stages'
    BY <1>0
      DEF charLoginStart, Remembered, LinkUnchanged, requests, link, serverVars, Stages,
          Kinds, Closed, Types
  <1>5. Pending'
    BY <1>0 DEF charLoginStart, Goto, Pending
  <1>6. Closed'
    BY <1>0
      DEF charLoginStart, Goto, LinkUnchanged, link, serverVars, Closed, Own, IInv,
          Pending
  <1>7. Connected'
    BY <1>0
      DEF charLoginStart, At, LinkUnchanged, Now, NoProc, link, serverVars, Connected,
          ScreenHasServer, Connecting, Playing, IInv
  <1>8. Granted'
    BY <1>0 DEF charLoginStart, Goto, NoProc, Granted, Waiting, LetIn, Encounter, Playing
  <1>9. OneOwn'
    BY <1>0
      DEF charLoginStart, Remembered, At, Goto, LinkUnchanged, requests, Now, NoProc,
          link, serverVars, OneOwn, Own, Waiting, IInv, Pending, Closed, Types, Encounter,
          LetIn, Placed, Flags, Carried
  <1>10. CreditedOwn'
    BY <1>0 DEF charLoginStart, Goto, CreditedOwn, Waiting
  <1>11. PingInTime'
    BY <1>0
      DEF charLoginStart, Remembered, At, Goto, Now, NoProc, PingInTime, Waiting, Playing,
          IInv, Pending, Types, Encounter, Logout, Placed, Flags
  <1> QED
    BY TypedNext, <1>1, <1>2, <1>3, <1>4, <1>5, <1>6, <1>7, <1>8, <1>9, <1>10, <1>11
      DEF IInv, Types

LEMMA characterLoginProcKeeps ==
  ASSUME IInv, characterLoginProc,
         phase = "proc", phase' = "net", Remembered
  PROVE  IInv'
  <1>0. Types
    BY Typed DEF IInv
  <1>1. Placed'
    BY <1>0
      DEF characterLoginProc, At, Goto, link, serverVars, Stay, LinkUnchanged, game,
          Placed, Subs
  <1>2. Flags'
    BY <1>0
      DEF characterLoginProc, Remembered, At, Goto, StartTimed, link, serverVars, Stay,
          LinkUnchanged, requests, Waits, Ok, Failed, TimedOut, GiveUp, GameUnchanged,
          Now, NoProc, Start, Returned, Answered, game, Flags, IInv, Pending, Closed,
          Connected, Granted, OneOwn, CreditedOwn, PingInTime, Types, Encounter, Logout,
          Own, ScreenHasServer, Connecting, Playing, Waiting, LetIn, Placed, Carried,
          Stages, Subs, Screens, Request, Kinds
  <1>3. Carried'
    BY <1>0
      DEF characterLoginProc, Remembered, At, Goto, StartTimed, link, serverVars, Stay,
          LinkUnchanged, Failed, TimedOut, GiveUp, Start, Returned, Answered, game,
          Carried, Request, Kinds, IInv, Pending, Types, Encounter
  <1>4. Stages'
    BY <1>0
      DEF characterLoginProc, Remembered, At, Goto, StartTimed, link, serverVars, Stay,
          LinkUnchanged, requests, Waits, Ok, Failed, TimedOut, GiveUp, Start, Returned,
          Answered, game, Stages, Kinds, CreditedOwn, PingInTime, Types
  <1>5. Pending'
    BY <1>0
      DEF characterLoginProc, Goto, link, serverVars, Stay, LinkUnchanged, game, Pending,
          Encounter
  <1>6. Closed'
    BY <1>0
      DEF characterLoginProc, Remembered, At, Goto, StartTimed, link, serverVars, Stay,
          LinkUnchanged, Failed, TimedOut, GiveUp, GameUnchanged, Now, NoProc, Start,
          Returned, Answered, game, Closed, Own, IInv, Pending, Connected, PingInTime,
          Types, Encounter, Logout, ScreenHasServer
  <1>7. Connected'
    BY <1>0
      DEF characterLoginProc, At, link, serverVars, Stay, LinkUnchanged, Failed, TimedOut,
          GiveUp, GameUnchanged, Now, NoProc, Start, Returned, Answered, game, Connected,
          ScreenHasServer, Connecting, Playing, IInv
  <1>8. Granted'
    BY <1>0
      DEF characterLoginProc, Remembered, At, Goto, StartTimed, link, serverVars, Stay,
          LinkUnchanged, requests, Waits, Ok, GameUnchanged, Now, NoProc, Start, Returned,
          Answered, game, Granted, Waiting, LetIn, Encounter, Playing, IInv, Pending,
          Closed, PingInTime, Types, Logout, Placed, Flags, Carried
  <1>9. OneOwn'
    BY <1>0
      DEF characterLoginProc, Remembered, At, Goto, StartTimed, link, serverVars, Stay,
          LinkUnchanged, requests, Waits, Ok, Failed, TimedOut, GiveUp, GameUnchanged,
          Now, NoProc, Start, Returned, Answered, game, OneOwn, Own, Waiting, IInv,
          Pending, Closed, Connected, Granted, CreditedOwn, PingInTime, Types, Placed,
          Flags, Carried, Stages, Subs, Screens, Request, Kinds
  <1>10. CreditedOwn'
    BY <1>0
      DEF characterLoginProc, Remembered, At, Goto, StartTimed, link, serverVars, Stay,
          LinkUnchanged, requests, Waits, Ok, GameUnchanged, Now, NoProc, Start, Returned,
          Answered, game, CreditedOwn, Waiting, IInv, Pending, Closed, Connected,
          ScreenHasServer, Connecting, Playing, LetIn, Placed
  <1>11. PingInTime'
    BY <1>0
      DEF characterLoginProc, Remembered, At, Goto, StartTimed, link, requests, Waits, Ok,
          Failed, TimedOut, GiveUp, GameUnchanged, Now, NoProc, Start, Returned, Answered,
          game, PingInTime, Waiting, Playing, IInv, Pending, Closed, Connected, Granted,
          OneOwn, CreditedOwn, Types, Encounter, Logout, Own, ScreenHasServer, Connecting,
          LetIn, Placed, Flags, Carried
  <1> QED
    BY TypedNext, <1>1, <1>2, <1>3, <1>4, <1>5, <1>6, <1>7, <1>8, <1>9, <1>10, <1>11
      DEF IInv, Types

LEMMA characterLogoutProcKeeps ==
  ASSUME IInv, characterLogoutProc,
         phase = "proc", phase' = "net", Remembered
  PROVE  IInv'
  <1>0. Types
    BY Typed DEF IInv
  <1>1. Placed'
    BY <1>0 DEF characterLogoutProc, Goto, Placed, Subs
  <1>2. Flags'
    BY <1>0
      DEF characterLogoutProc, Remembered, At, Goto, LinkUnchanged, Cleanup, requests,
          Now, NoProc, link, serverVars, Abandon, ServerGone, Flags, IInv, Pending,
          Closed, Connected, Granted, OneOwn, CreditedOwn, PingInTime, Types, Encounter,
          Logout, Own, ScreenHasServer, Connecting, Playing, Waiting, LetIn, Placed,
          Carried, Stages, Subs, Screens, Request, Kinds
  <1>3. Carried'
    BY <1>0
      DEF characterLogoutProc, LinkUnchanged, Cleanup, link, serverVars, Abandon,
          ServerGone, Carried, Request, Kinds, IInv, Pending, Types, Encounter, Logout
  <1>4. Stages'
    BY <1>0
      DEF characterLogoutProc, Remembered, LinkUnchanged, Cleanup, requests, NoProc, link,
          serverVars, Abandon, ServerGone, Stages, Kinds, CreditedOwn, PingInTime, Types
  <1>5. Pending'
    BY <1>0 DEF characterLogoutProc, Goto, Pending
  <1>6. Closed'
    BY <1>0
      DEF characterLogoutProc, At, Goto, LinkUnchanged, Cleanup, requests, Now, NoProc,
          link, serverVars, Abandon, ServerGone, Closed, Own, IInv, Pending, Connected,
          Playing, Waiting, LetIn
  <1>7. Connected'
    BY <1>0
      DEF characterLogoutProc, At, Goto, LinkUnchanged, Now, link, serverVars, Abandon,
          ServerGone, Connected, ScreenHasServer, Connecting, Playing, IInv
  <1>8. Granted'
    BY <1>0
      DEF characterLogoutProc, At, Goto, requests, Now, NoProc, ServerGone, Granted,
          Waiting, LetIn, Encounter, Playing, IInv, Pending, Closed
  <1>9. OneOwn'
    BY <1>0
      DEF characterLogoutProc, Remembered, At, Goto, LinkUnchanged, Cleanup, requests,
          Now, NoProc, link, serverVars, Abandon, ServerGone, OneOwn, Own, Waiting, IInv,
          Pending, Closed, Connected, Granted, CreditedOwn, PingInTime, Types, Connecting,
          Playing, LetIn, Placed, Flags, Carried
  <1>10. CreditedOwn'
    BY <1>0 DEF characterLogoutProc, Goto, CreditedOwn, Waiting
  <1>11. PingInTime'
    BY <1>0
      DEF characterLogoutProc, Goto, Cleanup, link, PingInTime, Waiting, Playing, IInv,
          Pending
  <1> QED
    BY TypedNext, <1>1, <1>2, <1>3, <1>4, <1>5, <1>6, <1>7, <1>8, <1>9, <1>10, <1>11
      DEF IInv, Types

LEMMA GameProcKeeps ==
  ASSUME IInv, GameProc,
         phase = "proc", phase' = "net", Remembered
  PROVE  IInv'
  <1>0. Types
    BY Typed DEF IInv
  <1>1. Placed'
    BY <1>0
      DEF GameProc, At, Goto, Stay, GotoWithMenu, Logout, Placed, Subs, Screens, IInv,
          Pending
  <1>2. Flags'
    BY <1>0
      DEF GameProc, Remembered, At, Goto, Stay, GotoWithMenu, LinkUnchanged, requests,
          Now, NoProc, Logout, link, serverVars, Flags, IInv, Pending, Closed, Connected,
          Granted, OneOwn, CreditedOwn, PingInTime, Types, Encounter, Own,
          ScreenHasServer, Connecting, Playing, Waiting, LetIn, Placed, Carried, Stages,
          Subs, Screens, Request, Kinds
  <1>3. Carried'
    BY <1>0
      DEF GameProc, LinkUnchanged, serverVars, Carried, Request, Types, Encounter, Own
  <1>4. Stages'
    BY <1>0
      DEF GameProc, Remembered, LinkUnchanged, requests, link, serverVars, Stages, Kinds,
          CreditedOwn, PingInTime, Types
  <1>5. Pending'
    BY <1>0 DEF GameProc, Goto, Stay, GotoWithMenu, Pending, Encounter
  <1>6. Closed'
    BY <1>0
      DEF GameProc, At, Goto, Stay, GotoWithMenu, LinkUnchanged, Logout, link, serverVars,
          Closed, Own, IInv, Pending, Connected
  <1>7. Connected'
    BY <1>0
      DEF GameProc, At, LinkUnchanged, Now, link, Connected, ScreenHasServer, Connecting,
          Playing, IInv
  <1>8. Granted'
    BY <1>0
      DEF GameProc, At, Goto, Stay, GotoWithMenu, LinkUnchanged, requests, Now, NoProc,
          Logout, link, serverVars, Granted, Waiting, LetIn, Encounter, Playing, IInv,
          Pending, Closed
  <1>9. OneOwn'
    BY <1>0
      DEF GameProc, Remembered, At, Goto, Stay, GotoWithMenu, LinkUnchanged, requests,
          Now, NoProc, Logout, link, serverVars, OneOwn, Own, Waiting, IInv, Pending,
          Closed, Connected, Granted, CreditedOwn, PingInTime, Types, Flags, Carried,
          Stages
  <1>10. CreditedOwn'
    BY <1>0 DEF GameProc, At, Goto, Stay, GotoWithMenu, CreditedOwn, Waiting
  <1>11. PingInTime'
    BY <1>0 DEF GameProc, At, Goto, Stay, GotoWithMenu, PingInTime, Playing
  <1> QED
    BY TypedNext, <1>1, <1>2, <1>3, <1>4, <1>5, <1>6, <1>7, <1>8, <1>9, <1>10, <1>11
      DEF IInv, Types

LEMMA BattleProcKeeps ==
  ASSUME IInv, BattleProc,
         phase = "proc", phase' = "net", Remembered
  PROVE  IInv'
  <1>0. Types
    BY Typed DEF IInv
  <1>1. Placed'
    BY <1>0 DEF BattleProc, GotoWithMenu, Goto, Logout, Placed, Subs, Screens, IInv
  <1>2. Flags'
    BY <1>0
      DEF BattleProc, Remembered, At, GotoWithMenu, Goto, link, requests, Now, NoProc,
          Logout, Flags, IInv, Pending, Closed, Connected, Granted, OneOwn, CreditedOwn,
          PingInTime, Types, Encounter, Own, ScreenHasServer, Connecting, Playing,
          Waiting, LetIn, Placed, Carried, Stages, Subs, Screens, Request, Kinds
  <1>3. Carried'
    BY <1>0 DEF BattleProc, Carried, Types
  <1>4. Stages'
    BY <1>0 DEF BattleProc, Remembered, link, requests, Stages, Kinds, Closed, Types
  <1>5. Pending'
    BY <1>0 DEF BattleProc, GotoWithMenu, Goto, Pending
  <1>6. Closed'
    BY <1>0 DEF BattleProc, GotoWithMenu, Goto, link, Closed, Own, IInv, Pending
  <1>7. Connected'
    BY <1>0
      DEF BattleProc, At, link, Now, Connected, ScreenHasServer, Connecting, Playing, IInv
  <1>8. Granted'
    BY <1>0
      DEF BattleProc, At, GotoWithMenu, Goto, link, requests, Now, NoProc, Logout,
          Granted, Waiting, LetIn, Encounter, Playing, IInv, Pending, Closed
  <1>9. OneOwn'
    BY <1>0
      DEF BattleProc, Remembered, At, GotoWithMenu, Goto, link, requests, Now, OneOwn,
          Own, Waiting, IInv, Pending, Closed, Types, Encounter, Placed, Flags, Carried,
          Stages
  <1>10. CreditedOwn'
    BY <1>0 DEF BattleProc, GotoWithMenu, Goto, CreditedOwn, Waiting
  <1>11. PingInTime'
    BY <1>0 DEF BattleProc, GotoWithMenu, Goto, PingInTime, Playing
  <1> QED
    BY TypedNext, <1>1, <1>2, <1>3, <1>4, <1>5, <1>6, <1>7, <1>8, <1>9, <1>10, <1>11
      DEF IInv, Types

LEMMA DisconnectProcKeeps ==
  ASSUME IInv, DisconnectProc,
         phase = "proc", phase' = "net", Remembered
  PROVE  IInv'
  <1>0. Types
    BY Typed DEF IInv
  <1>1. Placed'
    BY <1>0 DEF DisconnectProc, At, Stay, Goto, Placed, Subs
  <1>2. Flags'
    BY <1>0
      DEF DisconnectProc, Remembered, At, Stay, LinkUnchanged, Goto, Cleanup,
          GameUnchanged, requests, Now, link, serverVars, NoProc, Abandon, ServerGone,
          game, Flags, IInv, Pending, Closed, Connected, Granted, OneOwn, CreditedOwn,
          PingInTime, Types, Encounter, Logout, Own, ScreenHasServer, Connecting, Playing,
          Waiting, LetIn, Placed, Carried, Stages, Subs, Screens, Request, Kinds
  <1>3. Carried'
    BY <1>0
      DEF DisconnectProc, LinkUnchanged, Goto, Cleanup, GameUnchanged, requests, Now,
          link, serverVars, NoProc, Abandon, ServerGone, game, Carried, Request, Types,
          Encounter, Logout
  <1>4. Stages'
    BY <1>0
      DEF DisconnectProc, Remembered, LinkUnchanged, Goto, Cleanup, GameUnchanged,
          requests, Now, link, serverVars, NoProc, Abandon, ServerGone, game, Stages,
          Kinds, CreditedOwn, PingInTime, Types
  <1>5. Pending'
    BY <1>0 DEF DisconnectProc, Stay, Goto, Pending
  <1>6. Closed'
    BY <1>0
      DEF DisconnectProc, Stay, LinkUnchanged, Goto, Cleanup, GameUnchanged, requests,
          Now, link, serverVars, NoProc, Abandon, ServerGone, game, Closed, Own, IInv,
          Pending, Connected, PingInTime, Types, Encounter, Logout, ScreenHasServer,
          Connecting
  <1>7. Connected'
    BY <1>0
      DEF DisconnectProc, At, Stay, Goto, Connected, ScreenHasServer, Connecting, Playing,
          IInv
  <1>8. Granted'
    BY <1>0
      DEF DisconnectProc, At, Stay, Goto, NoProc, game, Granted, Waiting, LetIn,
          Encounter, Playing
  <1>9. OneOwn'
    BY <1>0
      DEF DisconnectProc, Remembered, At, Stay, LinkUnchanged, Goto, Cleanup,
          GameUnchanged, requests, Now, link, serverVars, NoProc, Abandon, ServerGone,
          game, OneOwn, Own, Waiting, IInv, Pending, Closed, Connected, Granted,
          CreditedOwn, PingInTime, Types, Placed, Flags, Carried
  <1>10. CreditedOwn'
    BY <1>0 DEF DisconnectProc, At, Stay, Goto, CreditedOwn, Waiting
  <1>11. PingInTime'
    BY <1>0
      DEF DisconnectProc, At, Stay, Goto, Cleanup, Now, link, serverVars, game,
          PingInTime, Waiting
  <1> QED
    BY TypedNext, <1>1, <1>2, <1>3, <1>4, <1>5, <1>6, <1>7, <1>8, <1>9, <1>10, <1>11
      DEF IInv, Types

\* Every step keeps the invariant, the screens' steps one by one.
LEMMA ProcessKeeps ==
  ASSUME IInv, Process
  PROVE  IInv'
  <1>1. CASE idPasswordProc
    BY <1>1, idPasswordProcKeeps DEF Process
  <1>2. CASE titleProc
    BY <1>2, titleProcKeeps DEF Process
  <1>3. CASE selectCharacterProc
    BY <1>3, selectCharacterProcKeeps DEF Process
  <1>4. CASE makeCharacterProc
    BY <1>4, makeCharacterProcKeeps DEF Process
  <1>5. CASE charLoginStart
    BY <1>5, charLoginStartKeeps DEF Process
  <1>6. CASE characterLoginProc
    BY <1>6, characterLoginProcKeeps DEF Process
  <1>7. CASE characterLogoutProc
    BY <1>7, characterLogoutProcKeeps DEF Process
  <1>8. CASE GameProc
    BY <1>8, GameProcKeeps DEF Process
  <1>9. CASE BattleProc
    BY <1>9, BattleProcKeeps DEF Process
  <1>10. CASE DisconnectProc
    BY <1>10, DisconnectProcKeeps DEF Process
  <1> QED
    BY <1>1, <1>2, <1>3, <1>4, <1>5, <1>6, <1>7, <1>8, <1>9, <1>10 DEF Process

LEMMA ReceiveKeeps ==
  ASSUME IInv, Receive
  PROVE  IInv'
  <1>1. PICK r \in wire :
            \/ \E ok \in BOOLEAN : (ok => Grants(r)) /\ Answer_recv(r, ok)
            \/ ClientLoginCancelled(r)
    BY DEF Receive
  <1>2. /\ phase = "recv" /\ init_net
        /\ UNCHANGED <<phase, expired, conn, EncountFlag, logOutFlag, swallowed>>
    BY DEF Receive
  <1>3. CASE ClientLoginCancelled(r)
    BY <1>2, <1>3, ClientLoginCancelledKeeps
  <1>4. CASE \E ok \in BOOLEAN : (ok => Grants(r)) /\ Answer_recv(r, ok)
    BY <1>2, <1>4, Answer_recvKeeps
  <1> QED
    BY <1>1, <1>3, <1>4

LEMMA InitHolds == Init => IInv
  <1> SUFFICES ASSUME Init PROVE IInv
    OBVIOUS
  <1>1. Types
    BY DEF Init, Types, Placed, Flags, Carried, Stages, Subs, NoProc
  <1>2. Pending /\ Closed /\ Granted /\ OneOwn
    BY DEF Init, Pending, Closed, Own, Granted, Playing, OneOwn, Waiting, NoProc,
           Encounter
  <1>3. Connected /\ CreditedOwn /\ PingInTime
    BY DEF Init, Connected, ScreenHasServer, Connecting, Playing, CreditedOwn, PingInTime,
           NoProc
  <1> QED
    BY <1>1, <1>2, <1>3, Typed DEF IInv

LEMMA StutterKeeps ==
  ASSUME IInv, UNCHANGED vars
  PROVE  IInv'
  <1>1. UNCHANGED <<phase, screen, link, outbuf, serverVars, requests, conn, game, history>>
    BY DEF vars
  <1> QED
    BY <1>1, Typed, TypedNext
      DEF IInv, screen, link, serverVars, requests, game, history, Types, Placed, Flags,
          Carried, Stages, Pending, Closed, Own, Connected, ScreenHasServer, Connecting,
          Playing, Granted, LetIn, OneOwn, CreditedOwn, PingInTime, Waiting

THEOREM Inductive == Spec => []IInv
  <1>1. IInv /\ [Next]_vars => IInv'
    BY NetStartKeeps, ReceiveKeeps, BattleLineKeeps, NoticeKeeps, NetEndKeeps,
       ProcessKeeps, LoseKeeps, ExpireKeeps, StutterKeeps DEF Next
  <1> QED
    BY InitHolds, <1>1, PTL DEF Spec

\* Every variable stays within its type: the screens only reach the steps
\* that Process has code for.
THEOREM TypeCorrect == Spec => []TypeOK
  <1>1. IInv => TypeOK
    BY DEF IInv
  <1> QED
    BY Inductive, <1>1, PTL

\* No screen that works with the server is shown on a connection that
\* cleanupNetwork has closed, or before a server was chosen.
THEOREM ServerThere == Spec => []ScreenHasServer
  <1>1. IInv => ScreenHasServer
    BY DEF IInv, Connected
  <1> QED
    BY Inductive, <1>1, PTL

\* netproc_sending is shared by all requests, and still a screen takes another
\* request's answer for its own only after an answer that came too late.
THEOREM Credited == Spec => []CreditedOwn
  <1>1. IInv => CreditedOwn
    BY DEF IInv
  <1> QED
    BY Inductive, <1>1, PTL

\* The game and its battles are entered only when the server has let this
\* connection in, or the connection is gone.
THEOREM LetInFirst == Spec => []InGameAccepted
  <1>1. IInv => InGameAccepted
    BY DEF IInv, Granted, LetIn, InGameAccepted
  <1> QED
    BY Inductive, <1>1, PTL

\* A login that lssproto_CharLogin_recv refuses because the ping thread runs
\* has met the thread of a login given up.
THEOREM BlockedByLate == Spec => []BlockedOnlyByLate
  <1>1. IInv => BlockedOnlyByLate
    BY DEF IInv, PingInTime, Playing, Pending, BlockedOnlyByLate, Waiting
  <1> QED
    BY Inductive, <1>1, PTL

=============================================================================
