-------------------------- MODULE BattleRing_proof --------------------------
(***************************************************************************)
(* The receive buffers of a battle are a queue, for every size and every   *)
(* bound below it on how far the server is ahead.                          *)
(***************************************************************************)
EXTENDS BattleRing, SequenceTheorems, TLAPS

\* The inductive invariant: as many messages unread as the server may be
\* ahead, and all of them received.
IInv == TypeOK /\ Backlog =< Ahead /\ UnreadReceived

USE SizeAssumption, AheadAssumption

(* The pointers stay within the buffer. *)
LEMMA SuccInSlots == \A p \in Slots : Succ(p) \in Slots
  BY DEF Slots, Succ

(* The unread slots are slots, and there are fewer than the buffer has. *)
LEMMA BacklogBound ==
  ASSUME TypeOK
  PROVE  /\ Backlog \in 0..BATTLE_BUF_SIZE - 1
         /\ \A i \in 1..Backlog : SlotOf(read, i) \in Slots
  BY DEF TypeOK, Backlog, SlotOf, Slots

(* Unread is a sequence, of length Backlog, of what the slots hold. *)
LEMMA UnreadIsSeq ==
  ASSUME IInv
  PROVE  /\ Unread \in Seq(Msg)
         /\ Len(Unread) = Backlog
         /\ DOMAIN Unread = 1..Backlog
         /\ Backlog \in Nat
         /\ \A i \in 1..Backlog : Unread[i] = bak[SlotOf(read, i)]
  <1>1. Backlog \in Nat
    BY BacklogBound DEF IInv
  <1>2. \A i \in 1..Backlog : Unread[i] = bak[SlotOf(read, i)] /\ Unread[i] \in Msg
    BY DEF IInv, UnreadReceived, Unread
  <1>3. Unread = [i \in 1..Backlog |-> Unread[i]]
    BY DEF Unread
  <1>4. Unread \in [1..Backlog -> Msg]
    BY <1>2, <1>3
  <1> QED
    BY <1>1, <1>2, <1>4

(* Append and Tail, place by place. *)
LEMMA AppendByPlace ==
  ASSUME NEW S, NEW s \in Seq(S), NEW m \in S
  PROVE  Append(s, m) = [i \in 1..Len(s) + 1 |-> IF i = Len(s) + 1 THEN m ELSE s[i]]
  <1> DEFINE t == [i \in 1..Len(s) + 1 |-> IF i = Len(s) + 1 THEN m ELSE s[i]]
  <1>1. Len(s) \in Nat /\ \A i \in 1..Len(s) : s[i] \in S
    OBVIOUS
  <1>2. t \in Seq(S) /\ Len(t) = Len(s) + 1
    BY <1>1
  <1>3. \A i \in 1..Len(t) : t[i] = Append(s, m)[i]
    BY <1>1, <1>2, AppendProperties
  <1>4. Append(s, m) \in Seq(S) /\ Len(Append(s, m)) = Len(t)
    BY <1>2, AppendProperties
  <1> HIDE DEF t
  <1>5. t = Append(s, m)
    BY <1>2, <1>3, <1>4, SeqEqual
  <1> QED
    BY <1>5 DEF t

LEMMA TailByPlace ==
  ASSUME NEW S, NEW s \in Seq(S), s # <<>>
  PROVE  Tail(s) = [i \in 1..Len(s) - 1 |-> s[i + 1]]
  <1> DEFINE t == [i \in 1..Len(s) - 1 |-> s[i + 1]]
  <1>1. Len(s) \in Nat \ {0} /\ \A i \in 1..Len(s) : s[i] \in S
    OBVIOUS
  <1>2. t \in Seq(S) /\ Len(t) = Len(s) - 1
    BY <1>1
  <1>3. \A i \in 1..Len(t) : t[i] = Tail(s)[i]
    BY <1>1, <1>2, HeadTailProperties
  <1>4. Tail(s) \in Seq(S) /\ Len(Tail(s)) = Len(t)
    BY <1>2, HeadTailProperties
  <1> HIDE DEF t
  <1>5. t = Tail(s)
    BY <1>2, <1>3, <1>4, SeqEqual
  <1> QED
    BY <1>5 DEF t

(* Writing appends to the queue. *)
LEMMA WriteAppends ==
  ASSUME IInv, NEW m \in Msg, Backlog < Ahead, Write(m)
  PROVE  /\ TypeOK'
         /\ Backlog' = Backlog + 1
         /\ Unread' = Append(Unread, m)
  <1>1. TypeOK'
    BY SuccInSlots DEF IInv, TypeOK, Write
  <1>2. Backlog' = Backlog + 1
    BY DEF IInv, TypeOK, Write, Backlog, Succ, Slots
  <1>3. Backlog \in Nat
    BY UnreadIsSeq
  <1>4. \A i \in 1..Backlog : SlotOf(read', i) = SlotOf(read, i) /\ SlotOf(read, i) # write
    BY DEF IInv, TypeOK, Write, Backlog, SlotOf, Slots
  <1>5. SlotOf(read', Backlog + 1) = write
    BY DEF IInv, TypeOK, Write, Backlog, SlotOf, Slots
  <1>6. \A i \in 1..Backlog : bak'[SlotOf(read', i)] = bak[SlotOf(read, i)]
    BY <1>4, BacklogBound DEF IInv, TypeOK, Write
  <1>7. bak'[write] = m
    BY DEF IInv, TypeOK, Write
  <1>8. Unread' = [i \in 1..Backlog + 1 |-> bak'[SlotOf(read', i)]]
    BY <1>2 DEF Unread
  <1>9. Append(Unread, m) = [i \in 1..Backlog + 1 |->
                               IF i = Backlog + 1 THEN m ELSE Unread[i]]
    BY UnreadIsSeq, AppendByPlace
  <1>10. ASSUME NEW i \in 1..Backlog + 1
         PROVE  bak'[SlotOf(read', i)] = IF i = Backlog + 1 THEN m ELSE Unread[i]
    <2>1. CASE i = Backlog + 1
      BY <2>1, <1>5, <1>7
    <2>2. CASE i # Backlog + 1
      <3>1. i \in 1..Backlog
        BY <2>2, <1>3
      <3> QED
        BY <2>2, <3>1, <1>6, UnreadIsSeq
    <2> QED
      BY <2>1, <2>2
  <1> QED
    BY <1>1, <1>2, <1>8, <1>9, <1>10

(* Taking shows the head and leaves the tail. *)
LEMMA TakeShows ==
  ASSUME IInv, Take
  PROVE  /\ Unread # <<>>
         /\ cur' = Head(Unread)
         /\ Unread' = Tail(Unread)
         /\ Backlog' = Backlog - 1
         /\ TypeOK'
  <1>1. Backlog \in Nat \ {0}
    BY UnreadIsSeq DEF IInv, TypeOK, Take, NonEmpty, Backlog, Slots
  <1>2. SlotOf(read, 1) = read
    BY DEF IInv, TypeOK, SlotOf, Slots
  <1>3. cur' = Unread[1]
    BY <1>1, <1>2, UnreadIsSeq DEF Take
  <1>4. Backlog' = Backlog - 1
    BY DEF IInv, TypeOK, Take, NonEmpty, Backlog, Succ, Slots
  <1>5. \A i \in 1..Backlog - 1 : SlotOf(read', i) = SlotOf(read, i + 1)
    BY <1>1 DEF IInv, TypeOK, Take, NonEmpty, Backlog, SlotOf, Succ, Slots
  <1>6. Unread' = [i \in 1..Backlog - 1 |-> bak[SlotOf(read', i)]]
    BY <1>4 DEF Unread, Take
  <1>7. Tail(Unread) = [i \in 1..Backlog - 1 |-> Unread[i + 1]]
    BY <1>1, UnreadIsSeq, TailByPlace
  <1>8. \A i \in 1..Backlog - 1 : bak[SlotOf(read', i)] = Unread[i + 1]
    BY <1>1, <1>5, UnreadIsSeq
  <1>9. Unread' = Tail(Unread)
    BY <1>6, <1>7, <1>8
  <1>10. TypeOK'
    BY SuccInSlots DEF IInv, TypeOK, Take
  <1> QED
    BY <1>1, <1>3, <1>4, <1>9, <1>10, UnreadIsSeq

(* The invariant holds at first and every step preserves it. *)
LEMMA InvInit == Init => IInv
  BY DEF Init, IInv, TypeOK, UnreadReceived, Unread, Backlog, Slots

LEMMA InvStep == IInv /\ [Next]_vars => IInv'
  <1> SUFFICES ASSUME IInv, [Next]_vars PROVE IInv'
    OBVIOUS
  <1>1. CASE Reset
    BY <1>1 DEF Reset, IInv, TypeOK, UnreadReceived, Unread, Backlog, Slots
  <1>2. CASE Receive
    <2>1. PICK m \in Msg : Backlog < Ahead /\ Write(m)
      BY <1>2 DEF Receive
    <2>2. Unread' = Append(Unread, m) /\ TypeOK' /\ Backlog' = Backlog + 1
      BY <2>1, WriteAppends
    <2>3. Unread' \in Seq(Msg)
      BY <2>2, UnreadIsSeq
    <2>4. UnreadReceived'
      BY <2>3 DEF UnreadReceived
    <2> QED
      BY <2>1, <2>2, <2>4, UnreadIsSeq DEF IInv
  <1>3. CASE Take
    <2>1. Unread' = Tail(Unread) /\ TypeOK' /\ Backlog' = Backlog - 1 /\ Unread # <<>>
      BY <1>3, TakeShows
    <2>2. Unread' \in Seq(Msg)
      BY <2>1, UnreadIsSeq
    <2>3. UnreadReceived'
      BY <2>2 DEF UnreadReceived
    <2> QED
      BY <2>1, <2>3, UnreadIsSeq DEF IInv
  <1>4. CASE Clear
    BY <1>4 DEF Clear, IInv, TypeOK, UnreadReceived, Unread, Backlog, SlotOf
  <1>5. CASE UNCHANGED vars
    BY <1>5 DEF vars, IInv, TypeOK, UnreadReceived, Unread, Backlog, SlotOf
  <1> QED
    BY <1>1, <1>2, <1>3, <1>4, <1>5 DEF Next

(* Type correctness: the pointers never leave the buffer (battlemenu.h). *)
THEOREM TypeCorrect == Spec => []TypeOK
  BY InvInit, InvStep, PTL DEF Spec, IInv

(* No slot between the pointers is stale (B_recv, EN_recv, BattleProc). *)
THEOREM NothingStale == Spec => []UnreadReceived
  BY InvInit, InvStep, PTL DEF Spec, IInv

(* The buffer implements BattleQueue: order kept, nothing lost or doubled. *)
THEOREM RingIsQueue == Spec => IsQueue
  <1>1. Init => Queue!Init
    BY DEF Init, Queue!Init, Unread, Backlog, Slots
  <1>2. IInv /\ [Next]_vars => [Queue!Next]_<<Unread, cur>>
    <2> SUFFICES ASSUME IInv, [Next]_vars
                 PROVE  [Queue!Next]_<<Unread, cur>>
      OBVIOUS
    <2>1. CASE Reset
      <3>1. Unread' = <<>> /\ cur' = cur
        BY <2>1 DEF Reset, Unread, Backlog, IInv, TypeOK, Slots
      <3> QED
        BY <3>1 DEF Queue!Next, Queue!Restart
    <2>2. CASE Receive
      <3>1. PICK m \in Msg : Backlog < Ahead /\ Write(m)
        BY <2>2 DEF Receive
      <3>2. Unread' = Append(Unread, m) /\ cur' = cur
        BY <3>1, WriteAppends DEF Write
      <3> QED
        BY <3>2 DEF Queue!Next, Queue!Receive
    <2>3. CASE Take
      BY <2>3, TakeShows DEF Queue!Next, Queue!Show
    <2>4. CASE Clear
      <3>1. Unread' = Unread /\ cur' = NoMsg
        BY <2>4 DEF Clear, Unread, Backlog, SlotOf
      <3> QED
        BY <3>1 DEF Queue!Next, Queue!Forget
    <2>5. CASE UNCHANGED vars
      BY <2>5 DEF vars, Unread, Backlog, SlotOf
    <2> QED
      BY <2>1, <2>2, <2>3, <2>4, <2>5 DEF Next
  <1> QED
    BY <1>1, <1>2, InvInit, InvStep, PTL DEF Spec, IsQueue, Queue!Spec
=============================================================================
