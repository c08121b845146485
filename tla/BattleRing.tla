----------------------------- MODULE BattleRing -----------------------------
(***************************************************************************)
(* One of the two receive buffers of a battle: BattleStatusBak ("BC", the  *)
(* state of all fighters) or BattleCmdBak (the movie of a turn), with its  *)
(* read and write pointer, and the copy the battle screen works on         *)
(* (BattleStatus, BattleCmd).  B_recv writes, BattleProc reads.            *)
(*                                                                         *)
(* Neither side checks for a full buffer: BATTLE_BUF_SIZE unread messages  *)
(* look like none.  The buffer is a queue (BattleQueue) only while the     *)
(* server is less than BATTLE_BUF_SIZE messages ahead.                     *)
(***************************************************************************)
EXTENDS Naturals, Sequences

CONSTANTS BATTLE_BUF_SIZE,
          Ahead,    \* most messages the server is ahead of the screen
          Msg, NoMsg

ASSUME SizeAssumption == BATTLE_BUF_SIZE \in Nat \ {0}
ASSUME AheadAssumption == Ahead \in Nat /\ Ahead < BATTLE_BUF_SIZE

VARIABLES bak, read, write, cur
vars == <<bak, read, write, cur>>

Slots == 0..BATTLE_BUF_SIZE - 1

TypeOK ==
    /\ bak \in [Slots -> Msg \cup {NoMsg}]
    /\ read \in Slots /\ write \in Slots
    /\ cur \in Msg \cup {NoMsg}

Init ==
    /\ bak = [s \in Slots |-> NoMsg]
    /\ read = 0 /\ write = 0
    /\ cur = NoMsg

\* ( p + 1 ) & ( BATTLE_BUF_SIZE - 1 ), for a power of two.
Succ(p) == IF p = BATTLE_BUF_SIZE - 1 THEN 0 ELSE p + 1

Backlog == IF read =< write THEN write - read ELSE write + BATTLE_BUF_SIZE - read
SlotOf(r, i) == IF r + i - 1 < BATTLE_BUF_SIZE
                THEN r + i - 1
                ELSE r + i - 1 - BATTLE_BUF_SIZE
Unread == [i \in 1..Backlog |-> bak[SlotOf(read, i)]]

\* EN_recv: a new battle drops what the last one left unread.
Reset == read' = 0 /\ write' = 0 /\ UNCHANGED <<bak, cur>>

\* (mutant: the pointer moves before the message is stored)
WriteAfterMove(m) ==
    /\ write' = Succ(write)
    /\ bak' = [bak EXCEPT ![write'] = m]
    /\ UNCHANGED <<read, cur>>

\* B_recv: store, then move.  Nothing looks at the read pointer.
Write(m) ==
    /\ bak' = [bak EXCEPT ![write] = m]
    /\ write' = Succ(write)
    /\ UNCHANGED <<read, cur>>

NonEmpty == read # write

\* (mutant: the message is copied but stays in the buffer)
TakeKeeping == NonEmpty /\ cur' = bak[read] /\ UNCHANGED <<bak, read, write>>

\* BattleProc copies the next message and moves the read pointer.
Take ==
    /\ NonEmpty
    /\ cur' = bak[read]
    /\ read' = Succ(read)
    /\ UNCHANGED <<bak, write>>

\* BattleCmd[ 0 ] = NULL, BattleStatus[ 0 ] = NULL
Clear == cur' = NoMsg /\ UNCHANGED <<bak, read, write>>

Receive == Backlog < Ahead /\ \E m \in Msg : Write(m)

Next == Reset \/ Receive \/ Take \/ Clear

Spec == Init /\ [][Next]_vars

-----------------------------------------------------------------------------
(* Every unread message is one that was received: no slot between the two  *)
(* pointers is stale or empty, however the pointers wrap and reset.        *)
UnreadReceived == \A i \in DOMAIN Unread : Unread[i] \in Msg

(* The two pointers and four slots behave as a queue: messages leave in    *)
(* the order B_recv stored them, none lost and none twice, and EN_recv     *)
(* empties it.                                                             *)
Queue == INSTANCE BattleQueue WITH queue <- Unread, shown <- cur
IsQueue == Queue!Spec
=============================================================================
