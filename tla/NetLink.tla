------------------------------ MODULE NetLink ------------------------------
(***************************************************************************)
(* The TCP link of the client (system/netmain.cpp): the connection flags,  *)
(* the read and the write buffer, and networkLoop(), which the game loop   *)
(* calls once per frame before Process().                                  *)
(*                                                                         *)
(* One call of networkLoop() is split at the points where the socket can   *)
(* change under it: pc walks "frame" -> "recv" -> "drain"* -> "send" ->    *)
(* "echo" -> "frame".  In "frame" the rest of the client runs, and may     *)
(* open, close or write to the link.                                       *)
(*                                                                         *)
(* A byte is abstracted to what the properties tell apart: the connection  *)
(* it belongs to, its position in its line and how many bytes of that line *)
(* follow it.  The byte that nothing follows is the '\n'.                  *)
(***************************************************************************)
EXTENDS Naturals, Sequences, SequencesExt

CONSTANTS
    ReadCap,    \* NETBUFSIZ, the size of net_readbuf
    WriteCap,   \* NETBUFSIZ, the size of net_writebuf
    MaxRecv,    \* most bytes one recv returns (NETBUFSIZ/2 - 1)
    MaxLine,    \* sizeof(rpc_linebuffer), the maxlen of getLineFromReadBuf
    LineLen,    \* longest line the server sends, '\n' included
    PacketLen,  \* longest packet the client sends, '\n' included
    MaxWire,    \* bound: bytes of the server in flight
    MaxConn     \* bound: connections opened in one run of the program

Budget(c) == c * (LineLen - 1)

ASSUME SizesAreNat ==
    /\ ReadCap \in Nat /\ WriteCap \in Nat
    /\ MaxRecv \in Nat \ {0} /\ MaxLine \in Nat /\ MaxWire \in Nat
    /\ LineLen \in Nat \ {0} /\ PacketLen \in Nat \ {0}
    /\ MaxConn \in Nat \ {0}

(***************************************************************************)
(* Every aborted connection may leave an unfinished line in net_readbuf,   *)
(* which nothing ever clears: the buffers must have room for one residue   *)
(* per connection, and the line the residues end up in must fit maxlen.    *)
(***************************************************************************)
ASSUME RoomForResidue ==
    /\ Budget(MaxConn) + MaxRecv =< ReadCap
    /\ Budget(MaxConn) + 1 < MaxLine

Byte == [from : 1..MaxConn, pos : Nat \ {0}, left : Nat]
IsNL(b) == b.left = 0
NoNL(buf) == \A i \in 1..Len(buf) : ~IsNL(buf[i])
Line(c, n) == [i \in 1..n |-> [from |-> c, pos |-> i, left |-> n - i]]

VARIABLES
    pc,                         \* where the main thread is in networkLoop()
    init_net, server_choosed, dwServer,
    disconnectServerFlag, oldDisconnectServerFlag,
    net_readbuf, net_writebuf,
    sock,       \* the socket: "closed", "up", "fin" (peer closed), "rst"
    wire,       \* bytes the server has sent and the client not received
    quiet,      \* writetime + 30 s is over
    conn,       \* number of connections opened
    \* history, read by properties only
    line,       \* the last line dispatched, the connection it was dispatched
                \* on, and whether it was the first one there
    served,     \* a line has been dispatched on this connection
    overrun,    \* a received chunk did not fit and was thrown away
    sending,    \* bytes handed to this socket since its last '\n'
    lineSent,   \* a '\n' has been handed to this socket
    failed,     \* the current socket has returned an error
    reported    \* ChangeProc(PROC_DISCONNECT_SERVER) calls for this socket

flags == <<init_net, server_choosed, dwServer,
           disconnectServerFlag, oldDisconnectServerFlag>>
reading == <<net_readbuf, line, served, overrun>>
sent == <<sending, lineSent>>
writing == <<net_writebuf, sent, quiet>>
peer == <<sock, wire, conn>>
verdict == <<failed, reported>>
vars == <<pc, flags, reading, writing, peer, verdict>>

GS == "GS"      \* the game server; "none" is NULL, served by the WGS parser

TypeOK ==
    /\ pc \in {"frame", "recv", "drain", "send", "echo"}
    /\ init_net \in BOOLEAN /\ server_choosed \in BOOLEAN
    /\ dwServer \in {GS, "none"}
    /\ disconnectServerFlag \in BOOLEAN /\ oldDisconnectServerFlag \in BOOLEAN
    /\ net_readbuf \in Seq(Byte) /\ Len(net_readbuf) =< ReadCap
    /\ net_writebuf \in Seq(Byte) /\ Len(net_writebuf) =< WriteCap
    /\ sock \in {"closed", "up", "fin", "rst"}
    /\ wire \in Seq(Byte)
    /\ conn \in 0..MaxConn
    /\ quiet \in BOOLEAN /\ served \in BOOLEAN /\ overrun \in BOOLEAN
    /\ line \in [bytes : Seq(Byte), on : 0..MaxConn, first : BOOLEAN]
    /\ sending \in Seq(Byte) /\ lineSent \in BOOLEAN
    /\ failed \in BOOLEAN /\ reported \in Nat

Init ==
    /\ pc = "frame"
    /\ init_net = FALSE /\ server_choosed = FALSE /\ dwServer = "none"
    /\ disconnectServerFlag = FALSE /\ oldDisconnectServerFlag = FALSE
    /\ net_readbuf = <<>> /\ net_writebuf = <<>>
    /\ sock = "closed" /\ wire = <<>> /\ quiet = FALSE /\ conn = 0
    /\ line = [bytes |-> <<>>, on |-> 0, first |-> TRUE]
    /\ served = FALSE /\ overrun = FALSE /\ sending = <<>> /\ lineSent = FALSE
    /\ failed = FALSE /\ reported = 0

-----------------------------------------------------------------------------
(* The buffers.                                                            *)

\* appendWriteBuf: all of the packet or nothing; lssproto_Send ignores which.
AppendWriteBuf(packet) ==
    net_writebuf' = IF server_choosed /\ Len(net_writebuf) + Len(packet) =< WriteCap
                    THEN net_writebuf \o packet
                    ELSE net_writebuf

\* (mutants: the shift is one byte short)
ShiftReadBufShort(size) == net_readbuf' = SubSeq(net_readbuf, size, Len(net_readbuf))
ShiftWriteBufShort(size) == net_writebuf' = SubSeq(net_writebuf, size, Len(net_writebuf))

ShiftReadBuf(size) == net_readbuf' = SubSeq(net_readbuf, size + 1, Len(net_readbuf))
ShiftWriteBuf(size) == net_writebuf' = SubSeq(net_writebuf, size + 1, Len(net_writebuf))

\* getLineFromReadBuf looks for '\n' at the indices below maxlen - 1; it takes
\* the first one.
LineEnds(buf) == {i \in 1..Len(buf) : i < MaxLine /\ IsNL(buf[i])}
IsFirstLineEnd(buf, k) == k \in LineEnds(buf) /\ \A j \in 1..k - 1 : ~IsNL(buf[j])

\* (mutant: initNet leaves the flag of the last connection)
InitNetKeepsFlag ==
    /\ init_net' = TRUE
    /\ UNCHANGED <<disconnectServerFlag, oldDisconnectServerFlag>>

InitNet ==
    /\ init_net' = TRUE
    /\ disconnectServerFlag' = FALSE /\ oldDisconnectServerFlag' = FALSE

\* (mutant: dwServer is not reset)
CleanupKeepsServer ==
    IF init_net
    THEN /\ init_net' = FALSE /\ server_choosed' = FALSE
         /\ disconnectServerFlag' = FALSE /\ oldDisconnectServerFlag' = FALSE
         /\ sock' = "closed" /\ wire' = <<>>
         /\ UNCHANGED dwServer
    ELSE UNCHANGED <<flags, sock, wire>>

\* cleanupNetwork; both buffers keep what they hold.
CleanupNetwork ==
    IF init_net
    THEN /\ init_net' = FALSE /\ server_choosed' = FALSE /\ dwServer' = "none"
         /\ disconnectServerFlag' = FALSE /\ oldDisconnectServerFlag' = FALSE
         /\ sock' = "closed" /\ wire' = <<>>
    ELSE UNCHANGED <<flags, sock, wire>>

\* a socket call failed for another reason than WSAEWOULDBLOCK
SocketError ==
    /\ sock' = "closed" /\ wire' = <<>>
    /\ dwServer' = "none"
    /\ disconnectServerFlag' = TRUE
    /\ failed' = TRUE
    /\ UNCHANGED <<init_net, server_choosed, oldDisconnectServerFlag>>

-----------------------------------------------------------------------------
(* networkLoop()                                                           *)

\* The head of networkLoop: report a disconnect once, and go on only with a
\* live connection.
LoopStart ==
    /\ pc = "frame"
    /\ reported' = IF init_net /\ disconnectServerFlag /\ ~oldDisconnectServerFlag
                   THEN reported + 1 ELSE reported
    /\ oldDisconnectServerFlag' =
           IF init_net THEN disconnectServerFlag ELSE oldDisconnectServerFlag
    /\ pc' = IF init_net /\ ~disconnectServerFlag /\ server_choosed
             THEN "recv" ELSE "frame"
    /\ UNCHANGED <<init_net, server_choosed, dwServer, disconnectServerFlag,
                   reading, writing, peer, failed>>

\* Nothing to read: len stays SOCKET_ERROR and the drain loop is skipped.
RecvNothing ==
    /\ pc = "recv" /\ sock = "up" /\ wire = <<>>
    /\ pc' = "send"
    /\ UNCHANGED <<flags, reading, writing, peer, verdict>>

\* recv returns n bytes (0 after the peer's orderly close) and appendReadBuf
\* takes the chunk whole or, its result ignored, not at all.
RecvBytes ==
    /\ pc = "recv" /\ sock \in {"up", "fin"}
    /\ \E n \in IF wire = <<>> THEN {0} ELSE 1..Len(wire) :
         /\ n =< MaxRecv /\ (n = 0 => sock = "fin")
         /\ IF Len(net_readbuf) + n =< ReadCap
            THEN /\ net_readbuf' = net_readbuf \o SubSeq(wire, 1, n)
                 /\ UNCHANGED overrun
            ELSE overrun' = TRUE /\ UNCHANGED net_readbuf
         /\ wire' = SubSeq(wire, n + 1, Len(wire))
    /\ pc' = "drain"
    /\ UNCHANGED <<flags, line, served, writing, sock, conn, verdict>>

RecvError ==
    /\ pc = "recv" /\ sock \in {"rst", "closed"}
    /\ SocketError
    /\ pc' = "send"
    /\ UNCHANGED <<reading, writing, conn, reported>>

\* The first complete line leaves the buffer and goes to its handler.
TakeLine ==
    /\ dwServer = GS /\ server_choosed
    /\ \E k \in 1..Len(net_readbuf) :
         /\ IsFirstLineEnd(net_readbuf, k)
         /\ ShiftReadBuf(k)
         /\ line' = [bytes |-> SubSeq(net_readbuf, 1, k),
                     on |-> conn, first |-> ~served]
    /\ served' = TRUE

\* A handler that answers with nothing or with one packet.
Dispatch ==
    /\ pc = "drain"
    /\ TakeLine
    /\ \/ UNCHANGED net_writebuf
       \/ \E n \in 1..PacketLen : AppendWriteBuf(Line(conn, n))
    /\ UNCHANGED <<pc, flags, overrun, sent, quiet, peer, verdict>>

\* lssproto_ClientLogin_recv on "cancle": the link is closed in mid-drain.  (Any
\* line may be the one; the code ignores it unless a login is pending.)
DispatchCancel ==
    /\ pc = "drain"
    /\ TakeLine
    /\ CleanupNetwork
    /\ UNCHANGED <<pc, overrun, writing, conn, verdict>>

\* dwServer is no longer GS: ReadWGSMessage eats what is left.
DrainWGS ==
    /\ pc = "drain" /\ dwServer # GS /\ net_readbuf # <<>>
    /\ net_readbuf' = <<>>
    /\ UNCHANGED <<pc, flags, line, served, overrun, writing, peer, verdict>>

\* The buffer is empty, or getLineFromReadBuf finds no line (or no connection).
DrainDone ==
    /\ pc = "drain"
    /\ \/ net_readbuf = <<>>
       \/ dwServer = GS /\ (LineEnds(net_readbuf) = {} \/ ~server_choosed)
    /\ pc' = "send"
    /\ UNCHANGED <<flags, reading, writing, peer, verdict>>

\* Nothing to send, or the socket is not writable (only while the peer is up).
SendNothing ==
    /\ pc = "send"
    /\ net_writebuf = <<>> \/ sock = "up"
    /\ pc' = "echo"
    /\ UNCHANGED <<flags, reading, writing, peer, verdict>>

\* The first n bytes go to the socket (k: where their last packet ends).
HandOver(n) ==
    LET out == sending \o SubSeq(net_writebuf, 1, n)
    IN  \E k \in 0..Len(out) :
          /\ k # 0 => IsNL(out[k])
          /\ NoNL(SubSeq(out, k + 1, Len(out)))
          /\ sending' = SubSeq(out, k + 1, Len(out))
          /\ lineSent' = (lineSent \/ k # 0)

\* send takes a prefix; what a closed peer receives is answered with a reset.
SendBytes ==
    /\ pc = "send" /\ sock \in {"up", "fin"} /\ net_writebuf # <<>>
    /\ \E n \in 1..Len(net_writebuf) : HandOver(n) /\ ShiftWriteBuf(n)
    /\ quiet' = FALSE
    /\ sock' = IF sock = "fin" THEN "rst" ELSE sock
    /\ wire' = IF sock = "fin" THEN <<>> ELSE wire
    /\ pc' = "echo"
    /\ UNCHANGED <<flags, reading, conn, verdict>>

SendError ==
    /\ pc = "send" /\ sock \in {"rst", "closed"} /\ net_writebuf # <<>>
    /\ SocketError
    /\ pc' = "echo"
    /\ UNCHANGED <<reading, writing, conn, reported>>

\* (mutant: the clock is compared the wrong way round)
KeepAliveNever ==
    /\ pc = "echo" /\ pc' = "frame"
    /\ IF dwServer = GS /\ ~quiet
       THEN AppendWriteBuf(Line(conn, 1))
       ELSE UNCHANGED net_writebuf
    /\ UNCHANGED <<flags, reading, sent, quiet, peer, verdict>>

\* The tail of networkLoop: lssproto_Echo_send after 30 s without a send.
KeepAlive ==
    /\ pc = "echo"
    /\ IF dwServer = GS /\ quiet
       THEN AppendWriteBuf(Line(conn, 1))
       ELSE UNCHANGED net_writebuf
    /\ pc' = "frame"
    /\ UNCHANGED <<flags, reading, sent, quiet, peer, verdict>>

-----------------------------------------------------------------------------
(* The rest of the client, between two calls of networkLoop().             *)

\* connecGameServer: cleanupNetwork, initNet, dwServer = GS, then connect.
Open ==
    /\ pc = "frame" /\ conn < MaxConn
    /\ InitNet
    /\ server_choosed' = FALSE /\ dwServer' = GS
    /\ sock' = "up" /\ wire' = <<>> /\ conn' = conn + 1
    /\ served' = FALSE /\ failed' = FALSE /\ reported' = 0
    /\ sending' = <<>> /\ lineSent' = FALSE
    /\ UNCHANGED <<pc, net_readbuf, line, overrun, net_writebuf, quiet>>

\* connectServer: the greeting, read straight from the socket, is accepted.
Greeted ==
    /\ pc = "frame" /\ init_net /\ ~server_choosed /\ sock = "up"
    /\ server_choosed' = TRUE
    /\ UNCHANGED <<pc, init_net, dwServer, disconnectServerFlag,
                   oldDisconnectServerFlag, reading, writing, peer, verdict>>

\* every exit of the login and of the game that ends the connection
Close ==
    /\ pc = "frame" /\ init_net
    /\ CleanupNetwork
    /\ UNCHANGED <<pc, reading, writing, conn, verdict>>

\* lssproto_Send from menus, the battle, the map...
Submit ==
    /\ pc = "frame" /\ server_choosed
    /\ \E n \in 1..PacketLen : AppendWriteBuf(Line(conn, n))
    /\ UNCHANGED <<pc, flags, reading, sent, quiet, peer, verdict>>

-----------------------------------------------------------------------------
(* The server and the network.                                             *)

ServerSend ==
    /\ sock = "up" /\ server_choosed
    /\ \E n \in 1..LineLen :
         /\ Len(wire) + n =< MaxWire
         /\ wire' = wire \o Line(conn, n)
    /\ UNCHANGED <<pc, flags, reading, writing, sock, conn, verdict>>

ServerClose ==
    /\ sock = "up" /\ sock' = "fin"
    /\ UNCHANGED <<pc, flags, reading, writing, wire, conn, verdict>>

\* a reset, a link timeout, a crash of the server: what was in flight is gone
ServerReset ==
    /\ sock \in {"up", "fin"} /\ sock' = "rst" /\ wire' = <<>>
    /\ UNCHANGED <<pc, flags, reading, writing, conn, verdict>>

\* 30 s pass without a successful send
Tick ==
    /\ ~quiet /\ quiet' = TRUE
    /\ UNCHANGED <<pc, flags, reading, net_writebuf, sent, peer, verdict>>

Loop ==
    \/ LoopStart
    \/ RecvNothing \/ RecvBytes \/ RecvError
    \/ Dispatch \/ DispatchCancel \/ DrainWGS \/ DrainDone
    \/ SendNothing \/ SendBytes \/ SendError
    \/ KeepAlive

Client == Open \/ Greeted \/ Close \/ Submit

World == ServerSend \/ ServerClose \/ ServerReset \/ Tick

Next == Loop \/ Client \/ World

Spec == Init /\ [][Next]_vars

\* The game loop calls networkLoop() every frame, and the clock goes on.
Fairness == WF_vars(Loop) /\ WF_vars(Tick)

FairSpec == Spec /\ Fairness
-----------------------------------------------------------------------------
(* Properties                                                              *)

\* b may directly follow a in a buffer: the next byte of the same line, or the
\* start of a line when a's line is complete or its connection is gone.
Follows(a, b) ==
    /\ a.from =< b.from
    /\ IF a.from = b.from /\ ~IsNL(a)
       THEN b.pos = a.pos + 1 /\ b.left + 1 = a.left
       ELSE b.pos = 1

Framed(buf) == \A i \in 1..Len(buf) - 1 : Follows(buf[i], buf[i + 1])

\* What the server sent reaches the parser without a gap, a repetition or a
\* swap: the read buffer and the bytes still on the wire are one stream of
\* lines, broken off only where a connection broke off.  (recv, appendReadBuf
\* and getLineFromReadBuf with partial reads.)
ReadFraming ==
    /\ Framed(net_readbuf \o wire)
    /\ net_readbuf # <<>> => net_readbuf[1].pos = 1

\* Packets one after the other, the first perhaps without its beginning: later
\* ones are not of earlier connections.
Chained(a, b) ==
    IF IsNL(a) THEN b.pos = 1 /\ a.from =< b.from
    ELSE b.from = a.from /\ b.pos = a.pos + 1 /\ b.left + 1 = a.left

Packets(s) ==
    /\ \A i \in 1..Len(s) - 1 : Chained(s[i], s[i + 1])
    /\ s # <<>> => IsNL(Last(s))

\* What each server is sent are whole packets, over partial sends and refused
\* packets, with one exception: cleanupNetwork keeps net_writebuf, so that a
\* packet half sent on a lost connection is torn, and its rest may be the first
\* line, and only the first, of a later connection.  (lssproto_Send,
\* appendWriteBuf, shiftWriteBuf; out begins with the line this connection is in.)
WriteFraming ==
    LET out == sending \o net_writebuf
    IN  /\ Packets(out)
        /\ out # <<>> /\ out[1].pos # 1 => out[1].from < conn /\ ~lineSent

\* appendReadBuf, whose result networkLoop ignores, never refuses a chunk:
\* the residues of the earlier connections leave room for one recv.
NoOverrun == ~overrun

\* Between two frames no complete line waits in the read buffer: the drain
\* loop takes all of them, whatever the handlers did to the link.
Drained == pc \in {"frame", "recv"} => NoNL(net_readbuf)

\* A handler sees bytes of an earlier connection only at the head of the first
\* line of a connection, and the rest of every line is one whole line.
StaleOnlyFirst ==
    \A i \in 1..Len(line.bytes) :
        line.bytes[i].from # line.on =>
            /\ line.first
            /\ \A j \in 1..i : line.bytes[j].from < line.on /\ ~IsNL(line.bytes[j])

\* The disconnect is reported once per connection, and only when a call on
\* the socket of that very connection has failed: a flag raised after
\* cleanupNetwork (a send on the closed socket in the same networkLoop) never
\* ends the next session.
ReportedOnce == reported =< 1 /\ (reported = 1 => failed)

\* A dead peer is noticed: recv does not see an orderly close (it returns 0),
\* the keep-alive Echo of networkLoop's tail runs into the error.
DeadPeerNoticed ==
    (server_choosed /\ dwServer = GS /\ sock \in {"fin", "rst"})
        ~> (disconnectServerFlag \/ ~init_net \/ ~server_choosed)
-----------------------------------------------------------------------------
(* The inductive invariant behind the properties of the read side: what is *)
(* in the buffer and on the wire, seen as one stream.                      *)

\* Every stretch without a '\n' fits the budget of the connections before it.
Runs(s) ==
    \A h, i \in 1..Len(s) :
        h =< i /\ (\A j \in h..i - 1 : ~IsNL(s[j]))
            => (i - h) + s[i].left =< Budget(s[i].from)

GoodStream(s, c) ==
    /\ \A i \in 1..Len(s) : s[i].from =< c /\ (IsNL(s[i]) => s[i].from = c)
    /\ \A i, j \in 1..Len(s) : i =< j => s[i].from =< s[j].from
    /\ s # <<>> => s[1].pos = 1
    /\ Framed(s)
    /\ Runs(s)

\* The last line of the stream is complete or of an earlier connection.
Ended(s, c) == s # <<>> => IsNL(s[Len(s)]) \/ s[Len(s)].from < c

Stream == net_readbuf \o wire

StreamInv ==
    /\ GoodStream(Stream, conn)
    /\ sock = "up" => Ended(Stream, conn)
    /\ served => \A i \in 1..Len(Stream) : Stream[i].from = conn
    /\ pc # "drain" => NoNL(net_readbuf)
    /\ sock = "closed" => wire = <<>>
    /\ dwServer # GS => sock = "closed"
    /\ pc \in {"recv", "drain"} /\ dwServer = GS => server_choosed
    /\ conn = 0 => ~init_net /\ ~server_choosed /\ dwServer # GS
=============================================================================
