---------------------------- MODULE BattleQueue ----------------------------
(***************************************************************************)
(* What the receive buffers of the battle promise: a queue.  Messages are  *)
(* shown in the order they came in, each once; the start of a battle       *)
(* throws away what an earlier battle left.                                *)
(***************************************************************************)
EXTENDS Naturals, Sequences

CONSTANTS Msg,      \* the messages of one kind
          NoMsg     \* the message shown when there is none (a leading NUL)

VARIABLES queue,    \* received and not yet shown
          shown     \* the message the battle screen works on

TypeOK == queue \in Seq(Msg) /\ shown \in Msg \cup {NoMsg}

Init == queue = <<>> /\ shown = NoMsg

Restart == queue' = <<>> /\ UNCHANGED shown
Receive(m) == queue' = Append(queue, m) /\ UNCHANGED shown
Show == queue # <<>> /\ shown' = Head(queue) /\ queue' = Tail(queue)
Forget == shown' = NoMsg /\ UNCHANGED queue

Next == Restart \/ (\E m \in Msg : Receive(m)) \/ Show \/ Forget

Spec == Init /\ [][Next]_<<queue, shown>>
=============================================================================
