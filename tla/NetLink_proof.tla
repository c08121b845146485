--------------------------- MODULE NetLink_proof ---------------------------
(***************************************************************************)
(* Theorems about NetLink for every size of the buffers, every line length *)
(* and every number of connections that RoomForResidue allows.             *)
(***************************************************************************)
EXTENDS NetLink, SequenceTheorems, TLAPS

-----------------------------------------------------------------------------
(* Arithmetic of the budget, and the shape of the streams.                 *)

LEMMA BudgetFacts ==
    ASSUME NEW c \in Nat
    PROVE  /\ Budget(c) \in Nat
           /\ Budget(c + 1) = Budget(c) + (LineLen - 1)
           /\ \A d \in Nat : c =< d => Budget(c) =< Budget(d)
<1> DEFINE L == LineLen - 1
<1>1. L \in Nat
  BY SizesAreNat
<1>2. Budget(c) = c * L /\ Budget(c + 1) = (c + 1) * L
  BY DEF Budget
<1>3. \A d \in Nat : c =< d => c * L =< d * L
  <2>1. SUFFICES ASSUME NEW d \in Nat, c =< d PROVE c * L =< d * L
    OBVIOUS
  <2>2. PICK e \in Nat : d = c + e
    BY <2>1, d - c \in Nat
  <2>3. d * L = c * L + e * L /\ e * L \in Nat /\ c * L \in Nat
    BY <1>1, <2>2
  <2> QED BY <2>3
<1>4. (c + 1) * L = c * L + L /\ c * L \in Nat
  BY <1>1
<1> QED BY <1>1, <1>2, <1>3, <1>4 DEF Budget

LEMMA LineType ==
    ASSUME NEW c \in 1..MaxConn, NEW n \in Nat
    PROVE  /\ Line(c, n) \in Seq(Byte) /\ Len(Line(c, n)) = n
           /\ \A i \in 1..n : Line(c, n)[i] = [from |-> c, pos |-> i, left |-> n - i]
BY DEF Line, Byte

\* A prefix moved from the wire to the buffer leaves the stream as it is.
LEMMA MovePrefix ==
    ASSUME NEW r \in Seq(Byte), NEW w \in Seq(Byte), NEW n \in 0..Len(w)
    PROVE  (r \o SubSeq(w, 1, n)) \o SubSeq(w, n + 1, Len(w)) = r \o w
<1>1. SubSeq(w, 1, n) \o SubSeq(w, n + 1, Len(w)) = SubSeq(w, 1, Len(w))
  <2>1. 1 \in 1..Len(w) + 1 /\ n \in 1 - 1..Len(w) /\ Len(w) \in n..Len(w)
    OBVIOUS
  <2> QED BY <2>1, ConcatAdjacentSubSeq
<1>2. SubSeq(w, 1, Len(w)) = w
  BY SubSeqFull
<1>3. SubSeq(w, 1, n) \in Seq(Byte) /\ SubSeq(w, n + 1, Len(w)) \in Seq(Byte)
  OBVIOUS
<1>4. (r \o SubSeq(w, 1, n)) \o SubSeq(w, n + 1, Len(w))
        = r \o (SubSeq(w, 1, n) \o SubSeq(w, n + 1, Len(w)))
  <2> DEFINE a == SubSeq(w, 1, n)
             b == SubSeq(w, n + 1, Len(w))
  <2> HIDE DEF a, b
  <2>1. a \in Seq(Byte) /\ b \in Seq(Byte)
    BY <1>3 DEF a, b
  <2>2. (r \o a) \o b = r \o (a \o b)
    BY <2>1, ConcatAssociative
  <2> QED BY <2>2 DEF a, b
<1> QED BY <1>1, <1>2, <1>4

\* A line taken off the buffer is taken off the stream.
LEMMA DropPrefix ==
    ASSUME NEW r \in Seq(Byte), NEW w \in Seq(Byte), NEW k \in 1..Len(r)
    PROVE  SubSeq(r, k + 1, Len(r)) \o w = SubSeq(r \o w, k + 1, Len(r \o w))
<1> DEFINE a == SubSeq(r, k + 1, Len(r))
           s == r \o w
           u == a \o w
           v == SubSeq(s, k + 1, Len(s))
<1>1. /\ a \in Seq(Byte) /\ Len(a) = Len(r) - k
      /\ \A i \in 1..Len(a) : a[i] = r[k + i]
  OBVIOUS
<1>2. /\ s \in Seq(Byte) /\ Len(s) = Len(r) + Len(w)
      /\ \A i \in 1..Len(s) : s[i] = IF i =< Len(r) THEN r[i] ELSE w[i - Len(r)]
  OBVIOUS
<1> HIDE DEF a
<1>3. /\ u \in Seq(Byte) /\ Len(u) = Len(a) + Len(w)
      /\ \A i \in 1..Len(u) : u[i] = IF i =< Len(a) THEN a[i] ELSE w[i - Len(a)]
  <2>1. a \in Seq(Byte)
    BY <1>1
  <2> QED BY <2>1
<1> HIDE DEF s
<1>4. /\ v \in Seq(Byte) /\ Len(v) = Len(s) - k
      /\ \A i \in 1..Len(v) : v[i] = s[k + i]
  BY <1>2
<1> HIDE DEF u, v
<1>5. Len(u) = Len(v)
  BY <1>1, <1>2, <1>3, <1>4
<1>6. ASSUME NEW i \in 1..Len(u) PROVE u[i] = v[i]
  <2>1. i \in 1..Len(v) /\ k + i \in 1..Len(s) /\ v[i] = s[k + i]
    BY <1>1, <1>2, <1>3, <1>4, <1>5
  <2>2. CASE i =< Len(a)
    BY <1>1, <1>2, <1>3, <2>1, <2>2
  <2>3. CASE ~(i =< Len(a))
    <3>1. (k + i) - Len(r) = i - Len(a) /\ ~(k + i =< Len(r))
      BY <1>1, <1>3, <2>3
    <3> QED BY <1>2, <1>3, <2>1, <2>3, <3>1
  <2> QED BY <2>2, <2>3
<1>7. u = v
  BY <1>3, <1>4, <1>5, <1>6, SeqEqual
<1> QED BY <1>7 DEF a, s, u, v

\* A prefix of a good stream is one.
LEMMA GoodPrefix ==
    ASSUME NEW c \in 0..MaxConn, NEW r \in Seq(Byte), NEW w \in Seq(Byte),
           GoodStream(r \o w, c)
    PROVE  GoodStream(r, c)
<1> DEFINE s == r \o w
<1>1. /\ s \in Seq(Byte) /\ Len(s) >= Len(r) /\ Len(r) \in Nat /\ Len(s) \in Nat
      /\ \A i \in 1..Len(r) : s[i] = r[i]
  OBVIOUS
<1>2. Framed(r)
  BY <1>1 DEF GoodStream, Framed
<1>3. Runs(r)
  <2> SUFFICES ASSUME NEW h \in 1..Len(r), NEW i \in 1..Len(r), h =< i,
                      \A j \in h..i - 1 : ~IsNL(r[j])
               PROVE  (i - h) + r[i].left =< Budget(r[i].from)
    BY DEF Runs
  <2>1. \A j \in h..i - 1 : ~IsNL(s[j])
    BY <1>1
  <2>2. h \in 1..Len(s) /\ i \in 1..Len(s)
    BY <1>1
  <2>3. Runs(s)
    BY DEF GoodStream
  <2> QED BY <1>1, <2>1, <2>2, <2>3 DEF Runs
<1>4. /\ \A i \in 1..Len(r) : r[i].from =< c /\ (IsNL(r[i]) => r[i].from = c)
      /\ \A i, j \in 1..Len(r) : i =< j => r[i].from =< r[j].from
  BY <1>1 DEF GoodStream
<1>5. r # <<>> => r[1].pos = 1
  <2>1. r # <<>> => s # <<>> /\ 1 \in 1..Len(r)
    BY <1>1
  <2> QED BY <1>1, <2>1 DEF GoodStream
<1> QED BY <1>2, <1>3, <1>4, <1>5 DEF GoodStream

\* What is left of a good stream after a complete line is one.
LEMMA GoodSuffix ==
    ASSUME NEW c \in 0..MaxConn, NEW s \in Seq(Byte), GoodStream(s, c),
           NEW k \in 1..Len(s), IsNL(s[k])
    PROVE  GoodStream(SubSeq(s, k + 1, Len(s)), c)
<1> DEFINE t == SubSeq(s, k + 1, Len(s))
<1>1. /\ t \in Seq(Byte) /\ Len(t) = Len(s) - k /\ Len(s) \in Nat
      /\ \A i \in 1..Len(t) : t[i] = s[i + k] /\ i + k \in 1..Len(s)
  OBVIOUS
<1>2. Framed(t)
  <2> SUFFICES ASSUME NEW i \in 1..Len(t) - 1 PROVE Follows(t[i], t[i + 1])
    BY DEF Framed
  <2>1. t[i] = s[i + k] /\ t[i + 1] = s[(i + k) + 1] /\ i + k \in 1..Len(s) - 1
    BY <1>1
  <2> QED BY <2>1 DEF GoodStream, Framed
<1>3. Runs(t)
  <2> SUFFICES ASSUME NEW h \in 1..Len(t), NEW i \in 1..Len(t), h =< i,
                      \A j \in h..i - 1 : ~IsNL(t[j])
               PROVE  (i - h) + t[i].left =< Budget(t[i].from)
    BY DEF Runs
  <2>1. \A j \in (h + k)..(i + k) - 1 : ~IsNL(s[j])
    <3> SUFFICES ASSUME NEW j \in (h + k)..(i + k) - 1 PROVE ~IsNL(s[j])
      OBVIOUS
    <3>1. j - k \in h..i - 1 /\ j - k \in 1..Len(t) /\ (j - k) + k = j
      BY <1>1
    <3> QED BY <1>1, <3>1
  <2>2. h + k \in 1..Len(s) /\ i + k \in 1..Len(s) /\ h + k =< i + k
    BY <1>1
  <2>3. Runs(s)
    BY DEF GoodStream
  <2>4. ((i + k) - (h + k)) + s[i + k].left =< Budget(s[i + k].from)
    BY <2>1, <2>2, <2>3 DEF Runs
  <2>5. (i + k) - (h + k) = i - h
    OBVIOUS
  <2> QED BY <1>1, <2>4, <2>5
<1>4. \A i \in 1..Len(t) : t[i].from =< c /\ (IsNL(t[i]) => t[i].from = c)
  BY <1>1 DEF GoodStream
<1>5. \A i, j \in 1..Len(t) : i =< j => t[i].from =< t[j].from
  <2> SUFFICES ASSUME NEW i \in 1..Len(t), NEW j \in 1..Len(t), i =< j
               PROVE  t[i].from =< t[j].from
    OBVIOUS
  <2>1. i + k \in 1..Len(s) /\ j + k \in 1..Len(s) /\ i + k =< j + k
    BY <1>1
  <2> QED BY <1>1, <2>1 DEF GoodStream
<1>6. t # <<>> => t[1].pos = 1
  <2> SUFFICES ASSUME t # <<>> PROVE t[1].pos = 1
    OBVIOUS
  <2>1. 1 \in 1..Len(t) /\ k \in 1..Len(s) - 1 /\ t[1] = s[k + 1]
    BY <1>1
  <2>2. Follows(s[k], s[k + 1])
    BY <2>1 DEF GoodStream, Framed
  <2> QED BY <2>1, <2>2 DEF Follows
<1> QED BY <1>2, <1>3, <1>4, <1>5, <1>6 DEF GoodStream

\* The server appends a line to a stream whose last line has ended.
LEMMA GoodAppend ==
    ASSUME NEW c \in 1..MaxConn, NEW s \in Seq(Byte), GoodStream(s, c), Ended(s, c),
           NEW n \in 1..LineLen
    PROVE  GoodStream(s \o Line(c, n), c) /\ Ended(s \o Line(c, n), c)
<1> DEFINE l == Line(c, n)
           t == s \o l
           p == Len(s)
<1>0. n \in Nat /\ n >= 1 /\ n =< LineLen /\ p \in Nat /\ LineLen \in Nat \ {0}
  BY SizesAreNat
<1>1. /\ t \in Seq(Byte) /\ Len(t) = p + n
      /\ \A i \in 1..p : t[i] = s[i] /\ s[i] \in Byte
      /\ \A i \in 1..Len(t) : ~(i =< p) => /\ i - p \in 1..n
                                           /\ t[i] = [from |-> c, pos |-> i - p, left |-> n - (i - p)]
  <2>1. l \in Seq(Byte) /\ Len(l) = n
        /\ \A i \in 1..n : l[i] = [from |-> c, pos |-> i, left |-> n - i]
    BY <1>0, LineType
  <2>2. t \in Seq(Byte) /\ Len(t) = p + n
    BY <2>1
  <2>3. \A i \in 1..Len(t) : ~(i =< p) => i - p \in 1..n /\ t[i] = l[i - p]
    BY <1>0, <2>1, <2>2
  <2>4. \A i \in 1..p : t[i] = s[i] /\ s[i] \in Byte
    BY <2>1
  <2> HIDE DEF t, l
  <2> QED BY <2>1, <2>2, <2>3, <2>4
<1> HIDE DEF t, l
<1>2. \A i \in 1..Len(t) : t[i].from =< c /\ (IsNL(t[i]) => t[i].from = c)
  BY <1>0, <1>1 DEF GoodStream
<1>3. \A i, j \in 1..Len(t) : i =< j => t[i].from =< t[j].from
  <2> SUFFICES ASSUME NEW i \in 1..Len(t), NEW j \in 1..Len(t), i =< j
               PROVE  t[i].from =< t[j].from
    OBVIOUS
  <2>1. CASE j =< p
    BY <1>0, <1>1, <2>1 DEF GoodStream
  <2>2. CASE ~(j =< p)
    BY <1>0, <1>1, <1>2, <2>2
  <2> QED BY <2>1, <2>2
<1>4. t # <<>> => t[1].pos = 1
  <2>1. CASE p = 0
    BY <1>0, <1>1, <2>1
  <2>2. CASE p # 0
    <3>1. s # <<>> /\ 1 \in 1..p
      BY <1>0, <2>2
    <3> QED BY <1>1, <3>1 DEF GoodStream
  <2> QED BY <2>1, <2>2
<1>5. Framed(t)
  <2> SUFFICES ASSUME NEW i \in 1..Len(t) - 1 PROVE Follows(t[i], t[i + 1])
    BY DEF Framed
  <2>1. CASE i < p
    <3>1. i \in 1..Len(s) - 1 /\ i \in 1..p /\ i + 1 \in 1..p
      BY <1>0, <1>1, <2>1
    <3> QED BY <1>1, <3>1 DEF GoodStream, Framed
  <2>2. CASE i = p
    <3>1. p \in 1..Len(s) /\ s # <<>> /\ t[p] = s[p]
      BY <1>0, <1>1, <2>2
    <3>2. t[p + 1] = [from |-> c, pos |-> 1, left |-> n - 1]
      BY <1>0, <1>1, <2>2
    <3>3. s[p].from =< c /\ (IsNL(s[p]) \/ s[p].from < c)
      BY <3>1 DEF GoodStream, Ended
    <3> QED BY <1>1, <2>2, <3>1, <3>2, <3>3 DEF Follows, Byte
  <2>3. CASE i > p
    <3>1. /\ t[i] = [from |-> c, pos |-> i - p, left |-> n - (i - p)]
          /\ t[i + 1] = [from |-> c, pos |-> (i + 1) - p, left |-> n - ((i + 1) - p)]
          /\ n - (i - p) # 0 /\ i - p \in 1..n
      BY <1>0, <1>1, <2>3
    <3> QED BY <1>0, <3>1, <2>3 DEF Follows, IsNL
  <2> QED BY <1>0, <1>1, <2>1, <2>2, <2>3
<1>6. Runs(t)
  <2> SUFFICES ASSUME NEW h \in 1..Len(t), NEW i \in 1..Len(t), h =< i,
                      \A j \in h..i - 1 : ~IsNL(t[j])
               PROVE  (i - h) + t[i].left =< Budget(t[i].from)
    BY DEF Runs
  <2>1. Runs(s)
    BY DEF GoodStream
  <2>2. CASE i =< p
    <3>1. \A j \in h..i - 1 : ~IsNL(s[j])
      BY <1>0, <1>1, <2>2
    <3>2. h \in 1..Len(s) /\ i \in 1..Len(s)
      BY <1>0, <2>2
    <3>3. (i - h) + s[i].left =< Budget(s[i].from)
      BY <2>1, <3>1, <3>2 DEF Runs
    <3> QED BY <1>1, <3>2, <3>3
  <2>3. ASSUME ~(i =< p) PROVE (i - h) + t[i].left =< Budget(t[i].from)
    <3>1. t[i].from = c /\ t[i].left = n - (i - p)
      BY <1>1, <2>3
    <3>2. (i - h) + t[i].left = n + p - h
      BY <1>0, <1>1, <3>1
    <3>3. c - 1 \in Nat /\ (c - 1) + 1 = c
      OBVIOUS
    <3>4. /\ Budget(c - 1) \in Nat /\ Budget(c) \in Nat
          /\ Budget(c) = Budget(c - 1) + (LineLen - 1)
          /\ \A d \in Nat : d =< c - 1 => Budget(d) =< Budget(c - 1)
      <4>1. /\ Budget(c - 1) \in Nat
            /\ Budget((c - 1) + 1) = Budget(c - 1) + (LineLen - 1)
        BY <3>3, BudgetFacts
      <4>2. \A d \in Nat : d =< c - 1 => Budget(d) =< Budget(c - 1)
        BY <3>3, BudgetFacts
      <4> QED BY <1>0, <3>3, <4>1, <4>2
    <3>5. CASE h > p
      <4>1. n + p - h =< LineLen - 1
        BY <1>0, <1>1, <3>5
      <4> QED BY <1>0, <3>1, <3>2, <3>4, <4>1
    <3>6. CASE ~(h > p)
      <4>1. h \in 1..p /\ p \in h..i - 1 /\ p \in 1..p /\ p \in 1..Len(s)
        BY <1>0, <1>1, <2>3, <3>6
      <4>2. ~IsNL(s[p]) /\ s[p] \in Byte
        BY <1>1, <4>1
      <4>3. s[p].from < c
        BY <4>1, <4>2 DEF Ended
      <4>4. \A j \in h..p - 1 : ~IsNL(s[j])
        BY <1>0, <1>1, <2>3, <4>1
      <4>5. (p - h) + s[p].left =< Budget(s[p].from)
        <5>1. p \in 1..Len(s) /\ h \in 1..Len(s) /\ h =< p
          BY <1>0, <4>1
        <5> HIDE DEF p
        <5> QED BY <2>1, <4>4, <5>1 DEF Runs
      <4>6. s[p].left \in Nat /\ s[p].left # 0 /\ s[p].from \in Nat /\ s[p].from =< c - 1
        BY <4>2, <4>3 DEF IsNL, Byte
      <4>7. Budget(s[p].from) =< Budget(c - 1) /\ Budget(s[p].from) \in Nat
        BY <3>4, <4>6, BudgetFacts
      <4>8. p - h + 1 =< Budget(c - 1)
        BY <1>0, <4>1, <4>5, <4>6, <4>7, <3>4
      <4> QED BY <1>0, <3>1, <3>2, <3>4, <4>1, <4>8
    <3> QED BY <3>5, <3>6
  <2> QED BY <2>2, <2>3
<1>7. Ended(t, c)
  <2>1. t[Len(t)] = [from |-> c, pos |-> n, left |-> n - n]
    BY <1>0, <1>1
  <2> QED BY <1>0, <2>1 DEF Ended, IsNL
<1>8. GoodStream(t, c)
  BY <1>2, <1>3, <1>4, <1>5, <1>6 DEF GoodStream
<1> QED BY <1>7, <1>8 DEF t, l

\* A new connection inherits an unfinished stream.
LEMMA GoodReopen ==
    ASSUME NEW c \in 0..MaxConn, NEW s \in Seq(Byte), GoodStream(s, c), NoNL(s)
    PROVE  GoodStream(s, c + 1) /\ Ended(s, c + 1)
<1>1. \A i \in 1..Len(s) : s[i].from =< c + 1 /\ ~IsNL(s[i]) /\ s[i].from < c + 1
  <2>1. \A i \in 1..Len(s) : s[i] \in Byte
    OBVIOUS
  <2> QED BY <2>1 DEF GoodStream, NoNL, Byte
<1>2. s # <<>> => Len(s) \in 1..Len(s)
  OBVIOUS
<1> QED BY <1>1, <1>2 DEF GoodStream, Ended

\* An unfinished stream is short.
LEMMA UnfinishedFits ==
    ASSUME NEW c \in 0..MaxConn, NEW s \in Seq(Byte), GoodStream(s, c),
           NEW k \in 1..Len(s), \A j \in 1..k : ~IsNL(s[j])
    PROVE  k =< Budget(MaxConn)
<1>1. 1 \in 1..Len(s) /\ 1 =< k /\ k \in 1..k
  OBVIOUS
<1>2. s[k] \in Byte /\ ~IsNL(s[k])
  BY <1>1
<1>3. (k - 1) + s[k].left =< Budget(s[k].from)
  BY <1>1 DEF GoodStream, Runs
<1>4. s[k].left \in Nat /\ s[k].left # 0 /\ s[k].from \in Nat /\ s[k].from =< MaxConn
  BY <1>2, SizesAreNat DEF IsNL, Byte
<1>5. Budget(s[k].from) =< Budget(MaxConn) /\ Budget(s[k].from) \in Nat
      /\ Budget(MaxConn) \in Nat
  BY <1>4, BudgetFacts, SizesAreNat
<1> QED BY <1>3, <1>4, <1>5

-----------------------------------------------------------------------------
(* The invariant is inductive.                                             *)

IInv == TypeOK /\ StreamInv

LEMMA InitIInv == Init => IInv
<1> SUFFICES ASSUME Init PROVE IInv
  OBVIOUS
<1>1. <<>> \o <<>> = <<>>
  OBVIOUS
<1>2. Stream = <<>>
  BY <1>1 DEF Init, Stream
<1>3. \A c : GoodStream(<<>>, c) /\ Ended(<<>>, c)
  BY DEF GoodStream, Framed, Runs, Ended
<1>4. StreamInv
  <2>1. GoodStream(Stream, conn) /\ Ended(Stream, conn)
    BY <1>2, <1>3
  <2>2. NoNL(net_readbuf)
    BY DEF Init, NoNL
  <2> QED BY <2>1, <2>2 DEF Init, StreamInv, GS
<1>5. TypeOK
  <2>1. <<>> \in Seq(Byte) /\ Len(<<>>) = 0
    OBVIOUS
  <2>2. line \in [bytes : Seq(Byte), on : 0..MaxConn, first : BOOLEAN] /\ conn \in 0..MaxConn
    BY <2>1, SizesAreNat DEF Init
  <2>3. Len(net_readbuf) =< ReadCap /\ Len(net_writebuf) =< WriteCap
    BY <2>1, SizesAreNat DEF Init
  <2> QED BY <2>1, <2>2, <2>3 DEF Init, TypeOK, GS
<1> QED BY <1>4, <1>5 DEF IInv

LEMMA StreamType ==
    ASSUME TypeOK
    PROVE  /\ Stream \in Seq(Byte) /\ conn \in 0..MaxConn
           /\ net_readbuf \in Seq(Byte) /\ wire \in Seq(Byte)
           /\ (net_readbuf = <<>> => Stream = wire)
           /\ (wire = <<>> => Stream = net_readbuf)
           /\ \A i \in 1..Len(net_readbuf) : i \in 1..Len(Stream) /\ Stream[i] = net_readbuf[i]
BY DEF TypeOK, Stream

\* Only the actions that move bytes, open a connection or leave the drain
\* loop touch what StreamInv speaks of.
LEMMA StreamUntouched ==
    ASSUME StreamInv, UNCHANGED <<net_readbuf, wire, conn, served>>,
           pc' # "drain" => NoNL(net_readbuf),
           sock' = "up" => sock = "up",
           sock' = "closed" => wire = <<>>,
           dwServer' # GS => sock' = "closed",
           pc' \in {"recv", "drain"} /\ dwServer' = GS => server_choosed',
           conn = 0 => ~init_net' /\ ~server_choosed' /\ dwServer' # GS
    PROVE  StreamInv'
BY DEF StreamInv, Stream, NoNL, GoodStream, Ended, Framed, Runs

\* The last residue and a chunk fit the buffer.
LEMMA RoomForChunk ==
    ASSUME TypeOK, StreamInv, NoNL(net_readbuf)
    PROVE  Len(net_readbuf) + MaxRecv =< ReadCap
<1>1. Len(net_readbuf) \in Nat /\ net_readbuf \in Seq(Byte) /\ conn \in 0..MaxConn
      /\ wire \in Seq(Byte)
  BY DEF TypeOK
<1>2. Budget(MaxConn) \in Nat /\ MaxRecv \in Nat /\ ReadCap \in Nat
  BY BudgetFacts, SizesAreNat
<1>3. GoodStream(net_readbuf, conn)
  BY <1>1, GoodPrefix DEF StreamInv, Stream
<1>4. CASE Len(net_readbuf) = 0
  BY <1>2, <1>4, RoomForResidue
<1>5. CASE Len(net_readbuf) # 0
  <2>1. Len(net_readbuf) \in 1..Len(net_readbuf)
    BY <1>1, <1>5
  <2>2. Len(net_readbuf) =< Budget(MaxConn)
    BY <1>1, <1>3, <2>1, UnfinishedFits DEF NoNL
  <2> QED BY <1>1, <1>2, <2>2, RoomForResidue
<1> QED BY <1>4, <1>5

\* getLineFromReadBuf misses no line: what it cannot find is not there.
LEMMA NoLineHidden ==
    ASSUME TypeOK, StreamInv, LineEnds(net_readbuf) = {}
    PROVE  NoNL(net_readbuf)
<1> DEFINE m == Budget(MaxConn) + 1
<1>1. Len(net_readbuf) \in Nat /\ net_readbuf \in Seq(Byte) /\ conn \in 0..MaxConn
      /\ wire \in Seq(Byte)
  BY DEF TypeOK
<1>2. Budget(MaxConn) \in Nat /\ m < MaxLine /\ MaxLine \in Nat
  BY BudgetFacts, SizesAreNat, RoomForResidue
<1>3. GoodStream(net_readbuf, conn)
  BY <1>1, GoodPrefix DEF StreamInv, Stream
<1>4. \A i \in 1..Len(net_readbuf) : i < MaxLine => ~IsNL(net_readbuf[i])
  BY DEF LineEnds
<1>5. Len(net_readbuf) < m
  <2> SUFFICES ASSUME m =< Len(net_readbuf) PROVE FALSE
    BY <1>1, <1>2
  <2>1. m \in 1..Len(net_readbuf) /\ \A j \in 1..m : ~IsNL(net_readbuf[j])
    BY <1>1, <1>2, <1>4
  <2>2. m =< Budget(MaxConn)
    BY <1>1, <1>3, <2>1, UnfinishedFits
  <2> QED BY <1>2, <2>2
<1> QED BY <1>1, <1>2, <1>4, <1>5 DEF NoNL

\* The line a handler is given, and what stays behind.
LEMMA TakeLineFacts ==
    ASSUME TypeOK, StreamInv, TakeLine
    PROVE  /\ line' \in [bytes : Seq(Byte), on : 0..MaxConn, first : BOOLEAN]
           /\ net_readbuf' \in Seq(Byte) /\ Len(net_readbuf') =< ReadCap
           /\ served' = TRUE
           /\ GoodStream(net_readbuf' \o wire, conn)
           /\ Ended(Stream, conn) => Ended(net_readbuf' \o wire, conn)
           /\ \A i \in 1..Len(net_readbuf' \o wire) : (net_readbuf' \o wire)[i].from = conn
           /\ StaleOnlyFirst'
<1>1. PICK k \in 1..Len(net_readbuf) :
        /\ IsFirstLineEnd(net_readbuf, k)
        /\ net_readbuf' = SubSeq(net_readbuf, k + 1, Len(net_readbuf))
        /\ line' = [bytes |-> SubSeq(net_readbuf, 1, k), on |-> conn, first |-> ~served]
  BY DEF TakeLine, ShiftReadBuf
<1>2. /\ net_readbuf \in Seq(Byte) /\ wire \in Seq(Byte) /\ Stream \in Seq(Byte)
      /\ conn \in 0..MaxConn /\ served \in BOOLEAN
      /\ Len(net_readbuf) =< ReadCap /\ ReadCap \in Nat
      /\ \A i \in 1..Len(net_readbuf) : i \in 1..Len(Stream) /\ Stream[i] = net_readbuf[i]
  BY StreamType, SizesAreNat DEF TypeOK
<1>3. GoodStream(Stream, conn)
  BY DEF StreamInv
<1>4. /\ k \in 1..Len(Stream) /\ IsNL(Stream[k]) /\ Stream[k] = net_readbuf[k]
      /\ \A j \in 1..k - 1 : ~IsNL(net_readbuf[j])
  BY <1>1, <1>2 DEF IsFirstLineEnd, LineEnds
<1>5. /\ net_readbuf' \in Seq(Byte) /\ Len(net_readbuf') =< ReadCap
      /\ net_readbuf' \o wire = SubSeq(Stream, k + 1, Len(Stream))
  <2>1. net_readbuf' \in Seq(Byte) /\ Len(net_readbuf') = Len(net_readbuf) - k
    BY <1>1, <1>2
  <2>2. net_readbuf' \o wire = SubSeq(Stream, k + 1, Len(Stream))
    BY <1>1, <1>2, DropPrefix DEF Stream
  <2> QED BY <1>2, <2>1, <2>2
<1> DEFINE t == SubSeq(Stream, k + 1, Len(Stream))
<1>6. GoodStream(t, conn)
  BY <1>2, <1>3, <1>4, GoodSuffix
<1>7. /\ Len(t) = Len(Stream) - k /\ Len(Stream) \in Nat
      /\ \A i \in 1..Len(t) : t[i] = Stream[i + k] /\ i + k \in 1..Len(Stream)
      /\ t # <<>> => Len(t) \in 1..Len(t) /\ Stream # <<>>
  BY <1>2, <1>4
<1>8. Stream[k].from = conn
  BY <1>3, <1>4 DEF GoodStream
<1>9. \A i \in 1..Len(t) : t[i].from = conn
  <2> SUFFICES ASSUME NEW i \in 1..Len(t) PROVE t[i].from = conn
    OBVIOUS
  <2>1. t[i] = Stream[i + k] /\ i + k \in 1..Len(Stream) /\ k =< i + k
    BY <1>7
  <2>2. Stream[k].from =< Stream[i + k].from /\ Stream[i + k].from =< conn
    BY <1>3, <1>4, <2>1 DEF GoodStream
  <2>3. Stream[i + k] \in Byte
    BY <1>2, <2>1
  <2>4. Stream[i + k].from \in Nat /\ conn \in Nat
    <3>1. \A b \in Byte : b.from \in Nat
      BY SizesAreNat DEF Byte
    <3> QED BY <2>3, <3>1, SizesAreNat DEF TypeOK
  <2>5. Stream[i + k].from = conn
    BY <1>8, <2>2, <2>4
  <2> QED BY <2>1, <2>5
<1>10. Ended(Stream, conn) => Ended(t, conn)
  <2> SUFFICES ASSUME Ended(Stream, conn), t # <<>>
               PROVE  IsNL(t[Len(t)]) \/ t[Len(t)].from < conn
    BY DEF Ended
  <2>1. t[Len(t)] = Stream[Len(Stream)] /\ Stream # <<>>
    <3>1. Len(t) \in 1..Len(t) /\ Len(t) + k = Len(Stream) /\ Stream # <<>>
      BY <1>4, <1>7
    <3> HIDE DEF t
    <3> QED BY <1>7, <3>1
  <2> QED BY <2>1 DEF Ended
<1>11. SubSeq(net_readbuf, 1, k) \in Seq(Byte) /\ Len(SubSeq(net_readbuf, 1, k)) = k
       /\ \A i \in 1..k : SubSeq(net_readbuf, 1, k)[i] = net_readbuf[i]
  BY <1>2
<1>12. line' \in [bytes : Seq(Byte), on : 0..MaxConn, first : BOOLEAN]
  BY <1>1, <1>2, <1>11
<1>13. StaleOnlyFirst'
  <2> SUFFICES ASSUME NEW i \in 1..k, net_readbuf[i].from # conn
               PROVE  /\ ~served
                      /\ \A j \in 1..i : net_readbuf[j].from < conn /\ ~IsNL(net_readbuf[j])
    <3>1. /\ line'.bytes = SubSeq(net_readbuf, 1, k) /\ line'.on = conn
          /\ line'.first = ~served /\ Len(line'.bytes) = k
          /\ \A j \in 1..k : line'.bytes[j] = net_readbuf[j]
      BY <1>1, <1>11
    <3>2. k \in Nat /\ \A i \in 1..k : \A j \in 1..i : j \in 1..k
      BY <1>2
    <3> QED BY <3>1, <3>2 DEF StaleOnlyFirst
  <2>1. i \in 1..Len(net_readbuf) /\ i \in 1..Len(Stream) /\ Stream[i] = net_readbuf[i]
    BY <1>2
  <2>2. ~served
    BY <2>1 DEF StreamInv
  <2>3. i # k
    BY <1>4, <1>8
  <2>4. ASSUME NEW j \in 1..i PROVE net_readbuf[j].from < conn /\ ~IsNL(net_readbuf[j])
    <3>1. j \in 1..Len(net_readbuf) /\ j \in 1..Len(Stream) /\ j =< i
          /\ Stream[j] = net_readbuf[j] /\ j \in 1..k - 1
      BY <1>2, <2>1, <2>3
    <3>2. Stream[j].from =< Stream[i].from /\ Stream[i].from =< conn
      BY <1>3, <2>1, <3>1 DEF GoodStream
    <3>3. Stream[j] \in Byte /\ Stream[i] \in Byte
      BY <1>2, <2>1, <3>1
    <3>4. Stream[j].from \in Nat /\ Stream[i].from \in Nat /\ conn \in Nat
      <4>1. \A b \in Byte : b.from \in Nat
        BY SizesAreNat DEF Byte
      <4> QED BY <3>3, <4>1, SizesAreNat DEF TypeOK
    <3>5. Stream[i].from < conn
      BY <2>1, <3>2, <3>4
    <3>6. ~IsNL(net_readbuf[j])
      BY <1>4, <3>1
    <3> QED BY <3>1, <3>2, <3>4, <3>5, <3>6
  <2> QED BY <2>2, <2>4
<1>14. served' = TRUE
  BY DEF TakeLine
<1> QED BY <1>5, <1>6, <1>9, <1>10, <1>12, <1>13, <1>14

LEMMA NextIInv == IInv /\ [Next]_vars => IInv'
<1> SUFFICES ASSUME IInv, [Next]_vars PROVE IInv'
  OBVIOUS
<1> USE DEF IInv
<1>0. UNCHANGED vars => IInv'
  <2> SUFFICES ASSUME UNCHANGED vars PROVE IInv'
    OBVIOUS
  <2>1. TypeOK'
    BY DEF vars, flags, reading, writing, sent, peer, verdict, TypeOK
  <2>2. StreamInv'
    BY StreamUntouched DEF vars, flags, reading, writing, peer, verdict, StreamInv
  <2> QED BY <2>1, <2>2
<1>1. LoopStart => IInv'
  <2> SUFFICES ASSUME LoopStart PROVE IInv'
    OBVIOUS
  <2>1. TypeOK'
    BY DEF LoopStart, TypeOK, reading, writing, sent, peer
  <2>2. StreamInv'
    BY StreamUntouched DEF LoopStart, StreamInv, reading, peer
  <2> QED BY <2>1, <2>2
<1>2. RecvNothing => IInv'
  <2> SUFFICES ASSUME RecvNothing PROVE IInv'
    OBVIOUS
  <2>1. TypeOK'
    BY DEF RecvNothing, TypeOK, flags, reading, writing, sent, peer, verdict
  <2>2. StreamInv'
    BY StreamUntouched DEF RecvNothing, StreamInv, flags, reading, peer
  <2> QED BY <2>1, <2>2
<1>3. RecvBytes => IInv'
  <2> SUFFICES ASSUME RecvBytes PROVE IInv'
    OBVIOUS
  <2>1. PICK n \in IF wire = <<>> THEN {0} ELSE 1..Len(wire) :
          /\ n =< MaxRecv /\ (n = 0 => sock = "fin")
          /\ IF Len(net_readbuf) + n =< ReadCap
             THEN /\ net_readbuf' = net_readbuf \o SubSeq(wire, 1, n)
                  /\ UNCHANGED overrun
             ELSE overrun' = TRUE /\ UNCHANGED net_readbuf
          /\ wire' = SubSeq(wire, n + 1, Len(wire))
    BY DEF RecvBytes
  <2>2. net_readbuf \in Seq(Byte) /\ wire \in Seq(Byte) /\ n \in 0..Len(wire)
        /\ MaxRecv \in Nat /\ ReadCap \in Nat
    BY SizesAreNat DEF TypeOK
  <2>3. Len(net_readbuf) + n =< ReadCap
    <3>1. Len(net_readbuf) + MaxRecv =< ReadCap
      BY RoomForChunk DEF RecvBytes, StreamInv
    <3> QED BY <2>1, <2>2, <3>1
  <2>4. net_readbuf' = net_readbuf \o SubSeq(wire, 1, n) /\ overrun' = overrun
    BY <2>1, <2>3
  <2>5. /\ SubSeq(wire, 1, n) \in Seq(Byte) /\ Len(SubSeq(wire, 1, n)) = n
        /\ wire' \in Seq(Byte)
    BY <2>1, <2>2
  <2>6. net_readbuf' \in Seq(Byte) /\ Len(net_readbuf') =< ReadCap /\ Stream' = Stream
    <3>1. Stream' = (net_readbuf \o SubSeq(wire, 1, n)) \o SubSeq(wire, n + 1, Len(wire))
      BY <2>1, <2>4 DEF Stream
    <3>2. Stream' = Stream
      BY <2>2, <3>1, MovePrefix DEF Stream
    <3> QED BY <2>2, <2>3, <2>4, <2>5, <3>2
  <2>7. TypeOK'
    BY <2>4, <2>5, <2>6 DEF RecvBytes, TypeOK, flags, writing, sent, verdict
  <2>8. StreamInv'
    BY <2>1, <2>6 DEF RecvBytes, StreamInv, flags, GoodStream, Ended, Framed, Runs
  <2> QED BY <2>4, <2>7, <2>8
<1>4. ASSUME SocketError, RecvError \/ SendError PROVE IInv'
  <2>1. TypeOK'
    BY <1>4 DEF SocketError, RecvError, SendError, TypeOK, reading, writing, sent
  <2>2. net_readbuf \in Seq(Byte) /\ wire \in Seq(Byte) /\ conn \in 0..MaxConn
    BY DEF TypeOK
  <2>3. GoodStream(net_readbuf, conn)
    BY <2>2, GoodPrefix DEF StreamInv, Stream
  <2>4. Stream' = net_readbuf /\ conn' = conn /\ served' = served /\ net_readbuf' = net_readbuf
    BY <1>4, <2>2 DEF SocketError, RecvError, SendError, reading, Stream
  <2>5. served => \A i \in 1..Len(net_readbuf) : net_readbuf[i].from = conn
    BY StreamType DEF StreamInv
  <2>6. NoNL(net_readbuf)
    BY <1>4 DEF RecvError, SendError, StreamInv
  <2>7. sock' = "closed" /\ wire' = <<>> /\ dwServer' # GS
    BY <1>4 DEF SocketError, GS
  <2>8. conn = 0 => ~init_net' /\ ~server_choosed' /\ dwServer' # GS
    BY <1>4 DEF SocketError, StreamInv, GS
  <2>9. GoodStream(Stream, conn)'
    BY <2>3, <2>4
  <2>10. NoNL(net_readbuf)'
    BY <2>4, <2>6
  <2>11. StreamInv'
    BY <2>4, <2>5, <2>7, <2>8, <2>9, <2>10 DEF StreamInv
  <2> QED BY <2>1, <2>11
<1>6. ASSUME NEW packet \in Seq(Byte), AppendWriteBuf(packet)
      PROVE  net_writebuf' \in Seq(Byte) /\ Len(net_writebuf') =< WriteCap
  BY <1>6, SizesAreNat DEF AppendWriteBuf, TypeOK
<1>7. ASSUME conn > 0, NEW n \in 1..PacketLen PROVE Line(conn, n) \in Seq(Byte)
  <2>1. conn \in 1..MaxConn /\ n \in Nat
    BY <1>7, SizesAreNat DEF TypeOK
  <2> QED BY <2>1, LineType
<1>8. Dispatch => IInv'
  <2> SUFFICES ASSUME Dispatch PROVE IInv'
    OBVIOUS
  <2>1. TakeLine /\ pc = "drain" /\ pc' = "drain"
        /\ UNCHANGED <<flags, overrun, sent, quiet, peer, verdict>>
    BY DEF Dispatch
  <2>2. conn > 0
    BY <2>1 DEF TakeLine, StreamInv, TypeOK
  <2>3. net_writebuf' \in Seq(Byte) /\ Len(net_writebuf') =< WriteCap
    BY <2>2, <1>6, <1>7 DEF Dispatch, TypeOK
  <2>4. TypeOK'
    BY TakeLineFacts, <2>1, <2>3 DEF TypeOK, flags, peer, verdict, sent
  <2>5. StreamInv'
    BY TakeLineFacts, <2>1 DEF StreamInv, Stream, flags, peer
  <2> QED BY <2>4, <2>5
<1>9. ASSUME CleanupNetwork, UNCHANGED conn, conn > 0,
             net_readbuf' \in Seq(Byte),
             GoodStream(net_readbuf' \o wire, conn),
             served' => \A i \in 1..Len(net_readbuf' \o wire) : (net_readbuf' \o wire)[i].from = conn,
             pc' # "drain" => NoNL(net_readbuf)',
             init_net, sock # "closed" \/ wire = <<>>
      PROVE  StreamInv'
  <2>1. wire' = <<>> /\ sock' = "closed" /\ dwServer' = "none"
    BY <1>9 DEF CleanupNetwork
  <2>2. wire \in Seq(Byte) /\ conn \in 0..MaxConn
    BY DEF TypeOK
  <2>3. GoodStream(net_readbuf', conn)
    BY <1>9, <2>2, GoodPrefix
  <2>4. Stream' = net_readbuf' /\ conn' = conn
    BY <1>9, <2>1 DEF Stream
  <2>5. \A i \in 1..Len(net_readbuf') : /\ i \in 1..Len(net_readbuf' \o wire)
                                        /\ (net_readbuf' \o wire)[i] = net_readbuf'[i]
    BY <1>9, <2>2
  <2>6. GoodStream(Stream, conn)'
    BY <2>3, <2>4
  <2>7. conn # 0
    BY <1>9, <2>2
  <2> QED BY <1>9, <2>1, <2>4, <2>5, <2>6, <2>7 DEF StreamInv, GS
<1>10. DispatchCancel => IInv'
  <2> SUFFICES ASSUME DispatchCancel PROVE IInv'
    OBVIOUS
  <2>1. TakeLine /\ CleanupNetwork /\ pc = "drain" /\ pc' = "drain"
        /\ UNCHANGED <<overrun, writing, conn, verdict>>
    BY DEF DispatchCancel
  <2>2. conn > 0
    BY <2>1 DEF TakeLine, StreamInv, TypeOK
  <2>3. TypeOK'
    BY TakeLineFacts, <2>1, EmptySeq DEF TypeOK, CleanupNetwork, flags, writing, sent, verdict
  <2>4. CASE init_net
    BY TakeLineFacts, <1>9, <2>1, <2>2, <2>3, <2>4 DEF StreamInv
  <2>5. CASE ~init_net
    <3>1. UNCHANGED <<init_net, server_choosed, dwServer, sock, wire, conn>>
      BY <2>1, <2>5 DEF CleanupNetwork, flags
    <3>2. GoodStream(Stream, conn)' /\ (Ended(Stream, conn) => Ended(Stream, conn)')
      BY TakeLineFacts, <2>1, <3>1 DEF Stream
    <3>3. (\A i \in 1..Len(Stream) : Stream[i].from = conn)'
      BY TakeLineFacts, <2>1, <3>1 DEF Stream
    <3>4. /\ sock' = "up" => Ended(Stream, conn)'
          /\ sock' = "closed" => wire' = <<>>
          /\ dwServer' # GS => sock' = "closed"
          /\ conn' = 0 => ~init_net' /\ ~server_choosed' /\ dwServer' # GS
      BY <3>1, <3>2 DEF StreamInv
    <3>5. pc' = "drain" /\ GoodStream(Stream, conn)'
      BY <2>1, <3>2
    <3>6. server_choosed'
      BY <2>1, <3>1 DEF TakeLine
    <3> QED BY <2>3, <3>3, <3>4, <3>5, <3>6 DEF StreamInv
  <2> QED BY <2>3, <2>4, <2>5
<1>11. DrainWGS => IInv'
  <2> SUFFICES ASSUME DrainWGS PROVE IInv'
    OBVIOUS
  <2>1. TypeOK'
    <3>1. net_readbuf' \in Seq(Byte) /\ Len(net_readbuf') =< ReadCap
      BY SizesAreNat DEF DrainWGS
    <3> QED BY <3>1 DEF DrainWGS, TypeOK, flags, writing, sent, peer, verdict
  <2>2. net_readbuf' = <<>> /\ wire' = <<>> /\ sock' = "closed"
    BY DEF DrainWGS, StreamInv, peer
  <2>3. Stream' = <<>>
    BY <2>2 DEF Stream
  <2>4. \A c : GoodStream(<<>>, c)
    BY DEF GoodStream, Framed, Runs
  <2>5. GoodStream(Stream, conn)'
    BY <2>3, <2>4
  <2>6. NoNL(net_readbuf)'
    BY <2>2 DEF NoNL
  <2>7. StreamInv'
    BY <2>2, <2>3, <2>5, <2>6 DEF DrainWGS, StreamInv, flags, peer
  <2> QED BY <2>1, <2>7
<1>12. DrainDone => IInv'
  <2> SUFFICES ASSUME DrainDone PROVE IInv'
    OBVIOUS
  <2>1. TypeOK'
    BY DEF DrainDone, TypeOK, flags, reading, writing, sent, peer, verdict
  <2>2. NoNL(net_readbuf)
    <3>1. CASE net_readbuf = <<>>
      BY <3>1 DEF NoNL
    <3>2. CASE LineEnds(net_readbuf) = {}
      BY <3>2, NoLineHidden
    <3> QED BY <3>1, <3>2 DEF DrainDone, StreamInv
  <2>3. StreamInv'
    BY <2>2, StreamUntouched DEF DrainDone, StreamInv, flags, reading, peer
  <2> QED BY <2>1, <2>3
<1>13. SendNothing => IInv'
  <2> SUFFICES ASSUME SendNothing PROVE IInv'
    OBVIOUS
  <2>1. TypeOK'
    BY DEF SendNothing, TypeOK, flags, reading, writing, sent, peer, verdict
  <2>2. StreamInv'
    BY StreamUntouched DEF SendNothing, StreamInv, flags, reading, peer
  <2> QED BY <2>1, <2>2
<1>14. SendBytes => IInv'
  <2> SUFFICES ASSUME SendBytes PROVE IInv'
    OBVIOUS
  <2>1. PICK n \in 1..Len(net_writebuf) :
           /\ HandOver(n)
           /\ net_writebuf' = SubSeq(net_writebuf, n + 1, Len(net_writebuf))
    BY DEF SendBytes, ShiftWriteBuf
  <2>2. net_writebuf \in Seq(Byte) /\ Len(net_writebuf) =< WriteCap /\ WriteCap \in Nat
    BY SizesAreNat DEF TypeOK
  <2>3. /\ sending' \in Seq(Byte) /\ lineSent' \in BOOLEAN
        /\ net_writebuf' \in Seq(Byte) /\ Len(net_writebuf') =< WriteCap
    <3>1. SubSeq(net_writebuf, 1, n) \in Seq(Byte) /\ sending \in Seq(Byte)
      BY <2>2 DEF TypeOK
    <3>2. sending \o SubSeq(net_writebuf, 1, n) \in Seq(Byte)
      BY <3>1
    <3>3. sending' \in Seq(Byte) /\ lineSent' \in BOOLEAN
      BY <2>1, <3>2 DEF HandOver, TypeOK
    <3> QED BY <2>1, <2>2, <3>3
  <2>4. TypeOK'
    BY <2>3, EmptySeq DEF SendBytes, TypeOK, flags, reading, verdict
  <2>5. CASE sock = "up"
    <3>1. /\ UNCHANGED <<net_readbuf, wire, conn, served, sock>>
          /\ UNCHANGED <<init_net, server_choosed, dwServer>>
      BY <2>5 DEF SendBytes, flags, reading
    <3>2. NoNL(net_readbuf)
      BY DEF SendBytes, StreamInv
    <3>3. StreamInv'
      BY <2>5, <3>1, <3>2, StreamUntouched DEF SendBytes, StreamInv
    <3> QED BY <2>4, <3>3
  <2>6. CASE sock = "fin"
    <3>1. net_readbuf \in Seq(Byte) /\ wire \in Seq(Byte) /\ conn \in 0..MaxConn
      BY DEF TypeOK
    <3>2. GoodStream(net_readbuf, conn)
      BY <3>1, GoodPrefix DEF StreamInv, Stream
    <3>3. Stream' = net_readbuf /\ conn' = conn /\ served' = served /\ net_readbuf' = net_readbuf
          /\ sock' = "rst" /\ wire' = <<>>
      BY <2>6, <3>1 DEF SendBytes, reading, Stream
    <3>4. served => \A i \in 1..Len(net_readbuf) : net_readbuf[i].from = conn
      BY StreamType DEF StreamInv
    <3>5. GoodStream(Stream, conn)'
      BY <3>2, <3>3
    <3>6. NoNL(net_readbuf)'
      BY <3>3 DEF SendBytes, StreamInv
    <3>7. UNCHANGED <<init_net, server_choosed, dwServer>> /\ dwServer = GS /\ pc' = "echo"
      BY <2>6 DEF SendBytes, StreamInv, flags
    <3>8. StreamInv'
      BY <3>3, <3>4, <3>5, <3>6, <3>7 DEF StreamInv
    <3> QED BY <2>4, <3>8
  <2> QED BY <2>4, <2>5, <2>6 DEF SendBytes
<1>15. KeepAlive => IInv'
  <2> SUFFICES ASSUME KeepAlive PROVE IInv'
    OBVIOUS
  <2>1. net_writebuf' \in Seq(Byte) /\ Len(net_writebuf') =< WriteCap
    <3>1. CASE dwServer = GS /\ quiet
      <4>1. conn > 0 /\ 1 \in 1..PacketLen
        BY <3>1, SizesAreNat DEF StreamInv, TypeOK
      <4> QED BY <1>6, <1>7, <3>1, <4>1 DEF KeepAlive
    <3>2. CASE ~(dwServer = GS /\ quiet)
      BY <3>2 DEF KeepAlive, TypeOK
    <3> QED BY <3>1, <3>2
  <2>2. TypeOK'
    BY <2>1 DEF KeepAlive, TypeOK, flags, reading, peer, verdict, sent
  <2>3. StreamInv'
    BY StreamUntouched DEF KeepAlive, StreamInv, flags, reading, peer
  <2> QED BY <2>2, <2>3
<1>16. Open => IInv'
  <2> SUFFICES ASSUME Open PROVE IInv'
    OBVIOUS
  <2>1. TypeOK'
    <3>1. conn' \in 0..MaxConn /\ wire' \in Seq(Byte) /\ reported' \in Nat
      BY EmptySeq, SizesAreNat DEF Open, TypeOK
    <3> QED BY <3>1 DEF Open, InitNet, TypeOK, writing, sent, GS
  <2>2. net_readbuf \in Seq(Byte) /\ wire \in Seq(Byte) /\ conn \in 0..MaxConn
    BY DEF TypeOK
  <2>3. GoodStream(net_readbuf, conn) /\ NoNL(net_readbuf)
    BY <2>2, GoodPrefix DEF Open, StreamInv, Stream
  <2>4. GoodStream(net_readbuf, conn + 1) /\ Ended(net_readbuf, conn + 1)
    BY <2>2, <2>3, GoodReopen
  <2>5. Stream' = net_readbuf /\ conn' = conn + 1 /\ net_readbuf' = net_readbuf /\ conn + 1 # 0
        /\ wire' = <<>>
    BY <2>2 DEF Open, InitNet, Stream
  <2>6. GoodStream(Stream, conn)' /\ Ended(Stream, conn)'
    BY <2>4, <2>5
  <2>7. NoNL(net_readbuf)'
    BY <2>3, <2>5
  <2>8. StreamInv'
    BY <2>5, <2>6, <2>7 DEF Open, InitNet, StreamInv
  <2> QED BY <2>1, <2>8
<1>17. Greeted => IInv'
  <2> SUFFICES ASSUME Greeted PROVE IInv'
    OBVIOUS
  <2>1. TypeOK'
    BY DEF Greeted, TypeOK, reading, writing, sent, peer, verdict
  <2>2. StreamInv'
    BY StreamUntouched DEF Greeted, StreamInv, reading, peer
  <2> QED BY <2>1, <2>2
<1>18. Close => IInv'
  <2> SUFFICES ASSUME Close PROVE IInv'
    OBVIOUS
  <2>1. TypeOK'
    BY EmptySeq DEF Close, CleanupNetwork, TypeOK, reading, writing, sent, verdict
  <2>2. net_readbuf' = net_readbuf /\ served' = served /\ conn' = conn /\ pc' = pc
    BY DEF Close, reading
  <2>3. conn > 0
    BY DEF Close, StreamInv, TypeOK
  <2>4. NoNL(net_readbuf)'
    BY <2>2 DEF Close, StreamInv
  <2>5. /\ net_readbuf' \in Seq(Byte)
        /\ GoodStream(net_readbuf' \o wire, conn)
        /\ served' => \A i \in 1..Len(net_readbuf' \o wire) : (net_readbuf' \o wire)[i].from = conn
    BY <2>2 DEF StreamInv, Stream, TypeOK
  <2>6. init_net /\ CleanupNetwork /\ (sock # "closed" \/ wire = <<>>)
    BY DEF Close, StreamInv
  <2>7. StreamInv'
    BY <1>9, <2>2, <2>3, <2>4, <2>5, <2>6
  <2> QED BY <2>1, <2>7
<1>19. Submit => IInv'
  <2> SUFFICES ASSUME Submit PROVE IInv'
    OBVIOUS
  <2>1. net_writebuf' \in Seq(Byte) /\ Len(net_writebuf') =< WriteCap
    <3>1. conn > 0
      BY DEF Submit, StreamInv, TypeOK
    <3> QED BY <1>6, <1>7, <3>1 DEF Submit
  <2>2. TypeOK'
    BY <2>1 DEF Submit, TypeOK, flags, reading, peer, verdict, sent
  <2>3. StreamInv'
    BY StreamUntouched DEF Submit, StreamInv, flags, reading, peer
  <2> QED BY <2>2, <2>3
<1>20. ServerSend => IInv'
  <2> SUFFICES ASSUME ServerSend PROVE IInv'
    OBVIOUS
  <2>1. PICK n \in 1..LineLen : wire' = wire \o Line(conn, n)
    BY DEF ServerSend
  <2>2. /\ conn \in 1..MaxConn /\ n \in Nat
        /\ net_readbuf \in Seq(Byte) /\ wire \in Seq(Byte) /\ Stream \in Seq(Byte)
    BY StreamType, SizesAreNat DEF ServerSend, StreamInv, TypeOK
  <2>3. Line(conn, n) \in Seq(Byte) /\ Len(Line(conn, n)) = n
        /\ \A i \in 1..n : Line(conn, n)[i].from = conn
    <3>1. Line(conn, n) \in Seq(Byte) /\ Len(Line(conn, n)) = n
      BY <2>2, LineType
    <3>2. \A i \in 1..n : Line(conn, n)[i].from = conn
      BY DEF Line
    <3> QED BY <3>1, <3>2
  <2>4. wire' \in Seq(Byte) /\ net_readbuf' = net_readbuf /\ conn' = conn
        /\ served' = served /\ pc' = pc /\ sock' = sock
    BY <2>1, <2>2, <2>3 DEF ServerSend, reading
  <2>5. Stream' = Stream \o Line(conn, n)
    <3> DEFINE l == Line(conn, n)
    <3> HIDE DEF l
    <3>1. l \in Seq(Byte)
      BY <2>3 DEF l
    <3>2. net_readbuf \o (wire \o l) = (net_readbuf \o wire) \o l
      <4>1. net_readbuf \in Seq(Byte) /\ wire \in Seq(Byte)
        BY <2>2
      <4> QED BY <3>1, <4>1, ConcatAssociative
    <3> QED BY <2>1, <2>4, <3>2 DEF Stream, l
  <2>6. GoodStream(Stream, conn)' /\ Ended(Stream, conn)'
    BY <2>2, <2>4, <2>5, GoodAppend DEF ServerSend, StreamInv
  <2>7. ASSUME served, NEW i \in 1..Len(Stream \o Line(conn, n))
        PROVE  (Stream \o Line(conn, n))[i].from = conn
    <3>1. CASE i =< Len(Stream)
      BY <2>2, <2>3, <2>7, <3>1 DEF StreamInv
    <3>2. CASE ~(i =< Len(Stream))
      <4>1. i - Len(Stream) \in 1..n
            /\ (Stream \o Line(conn, n))[i] = Line(conn, n)[i - Len(Stream)]
        BY <2>2, <2>3, <3>2
      <4> QED BY <2>3, <4>1
    <3> QED BY <3>1, <3>2
  <2>8. NoNL(net_readbuf)' <=> NoNL(net_readbuf)
    BY <2>4
  <2>9. StreamInv'
    BY <2>4, <2>5, <2>6, <2>7, <2>8 DEF ServerSend, StreamInv, flags
  <2>10. TypeOK'
    BY <2>4 DEF ServerSend, TypeOK, flags, reading, writing, sent, verdict
  <2> QED BY <2>9, <2>10
<1>21. ServerClose => IInv'
  <2> SUFFICES ASSUME ServerClose PROVE IInv'
    OBVIOUS
  <2>1. TypeOK'
    BY DEF ServerClose, TypeOK, flags, reading, writing, sent, verdict
  <2>2. StreamInv'
    BY StreamUntouched DEF ServerClose, StreamInv, flags, reading
  <2> QED BY <2>1, <2>2
<1>22. ServerReset => IInv'
  <2> SUFFICES ASSUME ServerReset PROVE IInv'
    OBVIOUS
  <2>1. TypeOK'
    BY EmptySeq DEF ServerReset, TypeOK, flags, reading, writing, sent, verdict
  <2>2. net_readbuf \in Seq(Byte) /\ wire \in Seq(Byte) /\ conn \in 0..MaxConn
    BY DEF TypeOK
  <2>3. GoodStream(net_readbuf, conn)
    BY <2>2, GoodPrefix DEF StreamInv, Stream
  <2>4. Stream' = net_readbuf /\ conn' = conn /\ served' = served /\ net_readbuf' = net_readbuf
        /\ sock' = "rst" /\ wire' = <<>> /\ pc' = pc
    BY <2>2 DEF ServerReset, reading, Stream
  <2>5. served => \A i \in 1..Len(net_readbuf) : net_readbuf[i].from = conn
    BY StreamType DEF StreamInv
  <2>6. GoodStream(Stream, conn)'
    BY <2>3, <2>4
  <2>7. NoNL(net_readbuf)' <=> NoNL(net_readbuf)
    BY <2>4
  <2>8. dwServer' = dwServer /\ dwServer = GS
    BY DEF ServerReset, StreamInv, flags
  <2>9. StreamInv'
    BY <2>4, <2>5, <2>6, <2>7, <2>8 DEF ServerReset, StreamInv, flags
  <2> QED BY <2>1, <2>9
<1>23. Tick => IInv'
  <2> SUFFICES ASSUME Tick PROVE IInv'
    OBVIOUS
  <2>1. TypeOK'
    BY DEF Tick, TypeOK, flags, reading, peer, verdict, sent
  <2>2. StreamInv'
    BY StreamUntouched DEF Tick, StreamInv, flags, reading, peer
  <2> QED BY <2>1, <2>2
<1> QED
  BY <1>0, <1>1, <1>2, <1>3, <1>4, <1>8, <1>10, <1>11, <1>12, <1>13, <1>14, <1>15,
     <1>16, <1>17, <1>18, <1>19, <1>20, <1>21, <1>22, <1>23
     DEF Next, Loop, Client, World, RecvError, SendError

-----------------------------------------------------------------------------
(* The theorems.                                                           *)

LEMMA Invariance == Spec => []IInv
BY InitIInv, NextIInv, PTL DEF Spec

\* The buffers never exceed their arrays and every variable keeps its type.
THEOREM TypeCorrect == Spec => []TypeOK
<1>1. IInv => TypeOK
  BY DEF IInv
<1> QED BY <1>1, Invariance, PTL

\* The read buffer and the wire are one unbroken stream of lines
\* (appendReadBuf, getLineFromReadBuf, shiftReadBuf).
THEOREM ReadFramed == Spec => []ReadFraming
<1>1. IInv => ReadFraming
  <2> SUFFICES ASSUME IInv PROVE ReadFraming
    OBVIOUS
  <2>1. net_readbuf # <<>> => /\ Stream # <<>> /\ Stream[1] = net_readbuf[1]
    <3>1. net_readbuf \in Seq(Byte) /\ wire \in Seq(Byte)
      BY DEF IInv, TypeOK
    <3> QED BY <3>1 DEF Stream
  <2> QED BY <2>1 DEF IInv, StreamInv, GoodStream, ReadFraming, Stream
<1> QED BY <1>1, Invariance, PTL

\* Between two frames no complete line waits in the buffer (the drain loop of
\* networkLoop, getLineFromReadBuf's maxlen).
THEOREM AlwaysDrained == Spec => []Drained
<1>1. IInv => Drained
  BY DEF IInv, StreamInv, Drained
<1> QED BY <1>1, Invariance, PTL

\* appendReadBuf never refuses a chunk.
THEOREM NeverOverrun == Spec => []NoOverrun
<1>1. Init => NoOverrun
  BY DEF Init, NoOverrun
<1>2. IInv /\ NoOverrun /\ [Next]_vars => NoOverrun'
  <2> SUFFICES ASSUME IInv, NoOverrun, [Next]_vars PROVE NoOverrun'
    OBVIOUS
  <2>1. CASE RecvBytes
    <3>1. PICK n \in IF wire = <<>> THEN {0} ELSE 1..Len(wire) :
            /\ n =< MaxRecv
            /\ (Len(net_readbuf) + n =< ReadCap) => UNCHANGED overrun
      BY <2>1 DEF RecvBytes
    <3>2. n \in Nat /\ Len(net_readbuf) \in Nat /\ MaxRecv \in Nat /\ ReadCap \in Nat
      BY SizesAreNat DEF IInv, TypeOK
    <3>3. Len(net_readbuf) + MaxRecv =< ReadCap
      BY <2>1, RoomForChunk DEF RecvBytes, IInv, StreamInv
    <3> QED BY <3>1, <3>2, <3>3 DEF NoOverrun
  <2>2. CASE ~RecvBytes
    BY <2>2 DEF NoOverrun, Next, Loop, Client, World, vars, reading,
       LoopStart, RecvNothing, RecvError, Dispatch, DispatchCancel, DrainWGS, DrainDone,
       SendNothing, SendBytes, SendError, KeepAlive, Open, Greeted, Close, Submit,
       ServerSend, ServerClose, ServerReset, Tick
  <2> QED BY <2>1, <2>2
<1> QED BY <1>1, <1>2, Invariance, PTL DEF Spec

\* A handler sees residue of an earlier connection only in the first line of a
\* connection, in front of one whole line (the buffers survive cleanupNetwork).
THEOREM StaleFirstLineOnly == Spec => []StaleOnlyFirst
<1>1. Init => StaleOnlyFirst
  BY DEF Init, StaleOnlyFirst
<1>2. IInv /\ StaleOnlyFirst /\ [Next]_vars => StaleOnlyFirst'
  <2> SUFFICES ASSUME IInv, StaleOnlyFirst, [Next]_vars PROVE StaleOnlyFirst'
    OBVIOUS
  <2>1. CASE TakeLine
    BY <2>1, TakeLineFacts DEF IInv
  <2>2. CASE UNCHANGED line
    BY <2>2 DEF StaleOnlyFirst
  <2>3. TakeLine \/ UNCHANGED line
    BY DEF Next, Loop, Client, World, vars, reading,
       LoopStart, RecvNothing, RecvBytes, RecvError, Dispatch, DispatchCancel, DrainWGS,
       DrainDone, SendNothing, SendBytes, SendError, KeepAlive, Open, Greeted, Close,
       Submit, ServerSend, ServerClose, ServerReset, Tick
  <2> QED BY <2>1, <2>2, <2>3
<1> QED BY <1>1, <1>2, Invariance, PTL DEF Spec

\* A disconnect is reported once, while the flag that networkLoop compares
\* with is up; and the flag of a live link comes from its own socket.
ReportInv ==
    /\ reported \in {0, 1}
    /\ reported = 1 => failed
    /\ reported = 1 /\ init_net => disconnectServerFlag /\ oldDisconnectServerFlag
    /\ disconnectServerFlag /\ init_net => failed

\* The disconnect is reported at most once per connection, after an error of
\* its own socket (LoopStart, SocketError, cleanupNetwork and initNet).
THEOREM OneReport == Spec => []ReportedOnce
<1>1. Init => ReportInv
  BY DEF Init, ReportInv
<1>2. IInv /\ ReportInv /\ [Next]_vars => ReportInv'
  <2> SUFFICES ASSUME TypeOK, ReportInv, [Next]_vars PROVE ReportInv'
    BY DEF IInv
  <2>1. CASE LoopStart
    BY <2>1 DEF LoopStart, ReportInv, TypeOK
  <2>2. CASE SocketError /\ UNCHANGED reported
    BY <2>2 DEF SocketError, ReportInv
  <2>3. CASE CleanupNetwork /\ UNCHANGED verdict
    BY <2>3 DEF CleanupNetwork, ReportInv, flags, verdict
  <2>4. CASE Open
    BY <2>4 DEF Open, InitNet, ReportInv
  <2>5. CASE UNCHANGED <<init_net, disconnectServerFlag, oldDisconnectServerFlag, verdict>>
    BY <2>5 DEF ReportInv, verdict
  <2> QED
    BY <2>1, <2>2, <2>3, <2>4, <2>5
       DEF Next, Loop, Client, World, vars, flags, verdict,
       RecvNothing, RecvBytes, RecvError, Dispatch, DispatchCancel, DrainWGS, DrainDone,
       SendNothing, SendBytes, SendError, KeepAlive, Greeted, Close, Submit,
       ServerSend, ServerClose, ServerReset, Tick
<1>3. ReportInv => ReportedOnce
  BY DEF ReportInv, ReportedOnce
<1> QED BY <1>1, <1>2, <1>3, Invariance, PTL DEF Spec

-----------------------------------------------------------------------------
(* The write side.                                                         *)

\* What is left of the packets begun on this connection or not yet begun.
Unsent == sending \o net_writebuf
Whole(s, c) == Packets(s) /\ \A i \in 1..Len(s) : s[i].from =< c

\* A rest is of an earlier connection, and in front of the first line.
RestFirst ==
    Unsent # <<>> /\ Unsent[1].pos # 1 => Unsent[1].from < conn /\ ~lineSent

WriteInv == Whole(Unsent, conn) /\ RestFirst

\* A packet of the present connection may follow whole packets.
LEMMA WholeAppend ==
    ASSUME NEW c \in 1..MaxConn, NEW s \in Seq(Byte), Whole(s, c), NEW n \in Nat \ {0}
    PROVE  /\ Whole(s \o Line(c, n), c)
           /\ (s \o Line(c, n))[1] = IF s # <<>> THEN s[1] ELSE Line(c, n)[1]
<1> DEFINE p == Line(c, n)
           t == s \o p
<1>1. /\ p \in Seq(Byte) /\ Len(p) = n
      /\ \A i \in 1..n : p[i] = [from |-> c, pos |-> i, left |-> n - i]
  BY LineType
<1> HIDE DEF p
<1>2. /\ t \in Seq(Byte) /\ Len(t) = Len(s) + n /\ Len(s) \in Nat
      /\ \A i \in 1..Len(s) : t[i] = s[i]
      /\ \A i \in Len(s) + 1..Len(t) : t[i] = p[i - Len(s)]
  <2>1. /\ Len(s) \in Nat /\ t \in Seq(Byte) /\ Len(t) = Len(s) + Len(p)
        /\ \A i \in 1..Len(t) : t[i] = IF i =< Len(s) THEN s[i] ELSE p[i - Len(s)]
    <3>1. p \in Seq(Byte)
      BY <1>1
    <3> QED BY <3>1
  <2> HIDE DEF t
  <2> QED BY <1>1, <2>1
<1> HIDE DEF t
<1>3. \A i \in Len(s) + 1..Len(t) :
          t[i].from = c /\ t[i].pos = i - Len(s) /\ t[i].left = n - (i - Len(s))
  <2>1. \A i \in Len(s) + 1..Len(t) :
            t[i] = [from |-> c, pos |-> i - Len(s), left |-> n - (i - Len(s))]
    BY <1>1, <1>2
  <2> TAKE i \in Len(s) + 1..Len(t)
  <2>2. t[i] = [from |-> c, pos |-> i - Len(s), left |-> n - (i - Len(s))]
    BY <2>1
  <2> QED BY <2>2
<1>4. ASSUME NEW i \in 1..Len(s) PROVE s[i].from =< c /\ s[i].from \in Nat
  <2>1. s[i] \in Byte
    OBVIOUS
  <2> QED BY <2>1 DEF Whole, Byte
<1>5. ASSUME NEW i \in 1..Len(t) - 1 PROVE Chained(t[i], t[i + 1])
  <2>1. CASE i < Len(s)
    <3>1. i \in 1..Len(s) - 1 /\ i + 1 \in 1..Len(s) /\ i \in 1..Len(s)
      BY <1>2, <2>1
    <3>2. Chained(s[i], s[i + 1])
      BY <3>1 DEF Whole, Packets
    <3> QED BY <1>2, <3>1, <3>2
  <2>2. CASE i = Len(s)
    <3>1. s # <<>> /\ Len(s) \in 1..Len(s)
      BY <1>2, <2>2
    <3>2. t[i] = s[i] /\ IsNL(s[i]) /\ s[i].from =< c
      BY <1>2, <1>4, <2>2, <3>1 DEF Whole, Packets, Last
    <3>3. t[i + 1].from = c /\ t[i + 1].pos = 1
      <4> DEFINE j == i + 1
      <4>1. j \in Len(s) + 1..Len(t) /\ j - Len(s) = 1
        BY <1>2, <2>2
      <4> HIDE DEF j
      <4>2. t[j].from = c /\ t[j].pos = 1
        BY <1>3, <4>1
      <4> QED BY <4>2 DEF j
    <3> QED BY <3>2, <3>3 DEF Chained
  <2>3. CASE i > Len(s)
    <3>1. i \in Len(s) + 1..Len(t) /\ i + 1 \in Len(s) + 1..Len(t)
      BY <1>2, <2>3
    <3>2. ~IsNL(t[i])
      <4>1. t[i].left # 0
        BY <1>2, <1>3, <3>1
      <4> QED BY <4>1 DEF IsNL
    <3>3. t[i].from = c /\ t[i].pos = i - Len(s) /\ t[i].left = n - (i - Len(s))
      BY <1>3, <3>1
    <3>4. /\ t[i + 1].from = c /\ t[i + 1].pos = (i + 1) - Len(s)
          /\ t[i + 1].left = n - ((i + 1) - Len(s))
      BY <1>3, <3>1
    <3>5. /\ (i + 1) - Len(s) = (i - Len(s)) + 1
          /\ (n - ((i + 1) - Len(s))) + 1 = n - (i - Len(s))
      BY <1>2
    <3>6. t[i + 1].pos = t[i].pos + 1 /\ t[i + 1].left + 1 = t[i].left
      BY <3>3, <3>4, <3>5
    <3> QED BY <3>2, <3>3, <3>4, <3>6 DEF Chained
  <2> QED BY <1>2, <2>1, <2>2, <2>3
<1>6. t # <<>> /\ IsNL(t[Len(t)])
  <2>1. Len(t) \in Len(s) + 1..Len(t) /\ n - (Len(t) - Len(s)) = 0 /\ Len(t) # 0
    BY <1>2
  <2>2. t[Len(t)].left = 0
    BY <1>3, <2>1
  <2> QED BY <2>1, <2>2 DEF IsNL
<1>7. ASSUME NEW i \in 1..Len(t) PROVE t[i].from =< c
  <2>1. CASE i =< Len(s)
    BY <1>2, <1>4, <2>1
  <2>2. CASE i > Len(s)
    <3>1. i \in Len(s) + 1..Len(t)
      BY <1>2, <2>2
    <3> QED BY <1>3, <3>1
  <2> QED BY <1>2, <2>1, <2>2
<1>8. t[1] = IF s # <<>> THEN s[1] ELSE p[1]
  <2>1. CASE s # <<>>
    <3>1. 1 \in 1..Len(s)
      BY <2>1
    <3> QED BY <1>2, <2>1, <3>1
  <2>2. CASE s = <<>>
    <3>1. Len(s) = 0
      BY <2>2
    <3>2. 1 \in Len(s) + 1..Len(t) /\ 1 - Len(s) = 1
      BY <1>2, <3>1
    <3> QED BY <1>2, <2>2, <3>2
  <2> QED BY <2>1, <2>2
<1>9. Whole(t, c)
  BY <1>5, <1>6, <1>7 DEF Whole, Packets, Last
<1> QED BY <1>8, <1>9 DEF t, p

\* What is left when whole lines are taken off.
LEMMA WholeSuffix ==
    ASSUME NEW c \in 0..MaxConn, NEW s \in Seq(Byte), Whole(s, c), NEW k \in 1..Len(s),
           IsNL(s[k])
    PROVE  LET t == SubSeq(s, k + 1, Len(s))
           IN  Whole(t, c) /\ (t # <<>> => t[1].pos = 1)
<1> DEFINE t == SubSeq(s, k + 1, Len(s))
<1>1. /\ t \in Seq(Byte) /\ Len(t) = Len(s) - k /\ Len(s) \in Nat /\ Len(t) \in Nat
      /\ \A i \in 1..Len(t) : t[i] = s[k + i]
  OBVIOUS
<1> HIDE DEF t
<1>2. ASSUME NEW i \in 1..Len(t) - 1 PROVE Chained(t[i], t[i + 1])
  <2>1. k + i \in 1..Len(s) - 1 /\ i \in 1..Len(t) /\ i + 1 \in 1..Len(t)
    BY <1>1
  <2>2. t[i] = s[k + i] /\ t[i + 1] = s[(k + i) + 1]
    <3>1. k + (i + 1) = (k + i) + 1
      BY <1>1
    <3>2. t[i] = s[k + i] /\ t[i + 1] = s[k + (i + 1)]
      BY <1>1, <2>1
    <3> QED BY <3>1, <3>2
  <2> QED BY <2>1, <2>2 DEF Whole, Packets
<1>3. t # <<>> => IsNL(t[Len(t)]) /\ t[1].pos = 1
  <2> SUFFICES ASSUME t # <<>> PROVE IsNL(t[Len(t)]) /\ t[1].pos = 1
    OBVIOUS
  <2>1. Len(t) \in 1..Len(t) /\ 1 \in 1..Len(t) /\ k + Len(t) = Len(s) /\ s # <<>>
    BY <1>1
  <2>2. IsNL(s[Len(s)])
    BY <2>1 DEF Whole, Packets, Last
  <2>3. t[Len(t)] = s[Len(s)] /\ t[1] = s[k + 1]
    BY <1>1, <2>1
  <2>4. k \in 1..Len(s) - 1
    BY <1>1, <2>1
  <2>5. Chained(s[k], s[k + 1])
    BY <2>4 DEF Whole, Packets
  <2> QED BY <2>2, <2>3, <2>5 DEF Chained
<1>4. ASSUME NEW i \in 1..Len(t) PROVE t[i].from =< c
  <2>1. k + i \in 1..Len(s)
    BY <1>1
  <2> QED BY <1>1, <2>1 DEF Whole
<1>5. Whole(t, c) /\ (t # <<>> => t[1].pos = 1)
  BY <1>2, <1>3, <1>4 DEF Whole, Packets, Last
<1> QED BY <1>5 DEF t

\* send and shiftWriteBuf: the lines that are complete are taken off.
LEMMA HandOverDrops ==
    ASSUME IInv, NEW n \in 1..Len(net_writebuf), HandOver(n), ShiftWriteBuf(n)
    PROVE  \E k \in 0..Len(Unsent) :
              /\ k # 0 => IsNL(Unsent[k])
              /\ Unsent' = SubSeq(Unsent, k + 1, Len(Unsent))
              /\ lineSent' = (lineSent \/ k # 0)
<1> DEFINE out == sending \o SubSeq(net_writebuf, 1, n)
           rest == SubSeq(net_writebuf, n + 1, Len(net_writebuf))
<1>1. net_writebuf \in Seq(Byte) /\ sending \in Seq(Byte) /\ Unsent \in Seq(Byte)
  BY DEF IInv, TypeOK, Unsent
<1>2. out \in Seq(Byte) /\ rest \in Seq(Byte)
  BY <1>1
<1>3. out \o rest = Unsent
  <2>1. n \in 0..Len(net_writebuf)
    BY <1>1
  <2> QED BY <1>1, <2>1, MovePrefix DEF Unsent
<1>4. PICK k \in 0..Len(out) :
         /\ k # 0 => IsNL(out[k])
         /\ sending' = SubSeq(out, k + 1, Len(out))
         /\ lineSent' = (lineSent \/ k # 0)
  BY DEF HandOver
<1>5. Unsent' = SubSeq(out, k + 1, Len(out)) \o rest
  BY <1>4 DEF ShiftWriteBuf, Unsent
<1> HIDE DEF out, rest
<1>6. /\ Len(out) \in Nat /\ k \in 0..Len(Unsent)
      /\ \A i \in 1..Len(out) : Unsent[i] = out[i]
  <2>1. /\ Len(out \o rest) = Len(out) + Len(rest) /\ Len(out) \in Nat /\ Len(rest) \in Nat
        /\ \A i \in 1..Len(out) : (out \o rest)[i] = out[i]
    BY <1>2
  <2> QED BY <1>3, <1>4, <2>1
<1>7. Unsent' = SubSeq(Unsent, k + 1, Len(Unsent))
  <2>1. CASE k = 0
    <3>1. SubSeq(out, k + 1, Len(out)) = out
      BY <1>2, <2>1, SubSeqFull
    <3>2. SubSeq(Unsent, k + 1, Len(Unsent)) = Unsent
      BY <1>1, <2>1, SubSeqFull
    <3> QED BY <1>3, <1>5, <3>1, <3>2
  <2>2. CASE k # 0
    <3>1. k \in 1..Len(out)
      BY <1>4, <1>6, <2>2
    <3> QED BY <1>2, <1>3, <1>5, <3>1, DropPrefix
  <2> QED BY <2>1, <2>2
<1> QED BY <1>4, <1>6, <1>7

\* appendWriteBuf keeps the packets whole.
LEMMA AppendKeepsWhole ==
    ASSUME IInv, WriteInv, NEW n \in 1..PacketLen,
           AppendWriteBuf(Line(conn, n)), UNCHANGED <<sent, conn>>
    PROVE  WriteInv'
<1>1. net_writebuf \in Seq(Byte) /\ sending \in Seq(Byte) /\ Unsent \in Seq(Byte)
  BY DEF IInv, TypeOK, Unsent
<1>2. CASE net_writebuf' = net_writebuf
  <2>1. Unsent' = Unsent
    BY <1>2 DEF Unsent, sent
  <2> QED BY <2>1 DEF WriteInv, RestFirst, sent
<1>3. CASE server_choosed /\ net_writebuf' = net_writebuf \o Line(conn, n)
  <2>1. conn \in 1..MaxConn /\ n \in Nat \ {0}
    BY <1>3, SizesAreNat DEF IInv, TypeOK, StreamInv
  <2>2. Line(conn, n) \in Seq(Byte) /\ Line(conn, n)[1].pos = 1
    <3>1. /\ Line(conn, n) \in Seq(Byte)
          /\ Line(conn, n)[1] = [from |-> conn, pos |-> 1, left |-> n - 1]
      <4>1. 1 \in 1..n
        BY <2>1
      <4> QED BY <2>1, <4>1, LineType
    <3> QED BY <3>1
  <2>3. Unsent' = Unsent \o Line(conn, n)
    BY <1>1, <1>3, <2>2, ConcatAssociative DEF Unsent, sent
  <2>4. /\ Whole(Unsent \o Line(conn, n), conn)
        /\ (Unsent \o Line(conn, n))[1] = IF Unsent # <<>> THEN Unsent[1] ELSE Line(conn, n)[1]
    BY <1>1, <2>1, WholeAppend DEF WriteInv
  <2>5. Whole(Unsent', conn')
    BY <2>3, <2>4
  <2>6. RestFirst'
    BY <2>2, <2>3, <2>4 DEF WriteInv, RestFirst, sent
  <2> QED BY <2>5, <2>6 DEF WriteInv
<1> QED BY <1>2, <1>3 DEF AppendWriteBuf

\* A new socket: what the old one got is out of sight, the rest is a rest.
LEMMA OpenKeepsWhole ==
    ASSUME IInv, WriteInv, Open
    PROVE  WriteInv'
<1>1. net_writebuf \in Seq(Byte) /\ sending \in Seq(Byte) /\ conn \in 0..MaxConn
  BY DEF IInv, TypeOK
<1>2. net_writebuf' = net_writebuf /\ sending' = <<>> /\ ~lineSent' /\ conn' = conn + 1
  BY DEF Open
<1>3. /\ Len(sending) \in Nat /\ Len(net_writebuf) \in Nat /\ Unsent \in Seq(Byte)
      /\ Len(Unsent) = Len(sending) + Len(net_writebuf)
      /\ \A i \in 1..Len(net_writebuf) : Unsent[Len(sending) + i] = net_writebuf[i]
  BY <1>1 DEF Unsent
<1>4. Unsent' = net_writebuf
  BY <1>1, <1>2 DEF Unsent
<1>5. ASSUME NEW i \in 1..Len(net_writebuf)
      PROVE  net_writebuf[i].from < conn + 1 /\ net_writebuf[i].from =< conn + 1
  <2>1. Len(sending) + i \in 1..Len(Unsent) /\ Unsent[Len(sending) + i] = net_writebuf[i]
    BY <1>3
  <2>2. net_writebuf[i].from =< conn
    BY <2>1 DEF WriteInv, Whole
  <2>3. net_writebuf[i] \in Byte
    BY <1>1
  <2> QED BY <1>1, <2>2, <2>3 DEF Byte
<1>6. ASSUME NEW i \in 1..Len(net_writebuf) - 1
      PROVE  Chained(net_writebuf[i], net_writebuf[i + 1])
  <2>1. /\ Len(sending) + i \in 1..Len(Unsent) - 1 /\ i \in 1..Len(net_writebuf)
        /\ i + 1 \in 1..Len(net_writebuf) /\ (Len(sending) + i) + 1 = Len(sending) + (i + 1)
    BY <1>3
  <2>2. Chained(Unsent[Len(sending) + i], Unsent[(Len(sending) + i) + 1])
    BY <2>1 DEF WriteInv, Whole, Packets
  <2>3. /\ Unsent[Len(sending) + i] = net_writebuf[i]
        /\ Unsent[Len(sending) + (i + 1)] = net_writebuf[i + 1]
    BY <1>3, <2>1
  <2> QED BY <2>1, <2>2, <2>3
<1>7. net_writebuf # <<>> => IsNL(Last(net_writebuf)) /\ 1 \in 1..Len(net_writebuf)
  <2> SUFFICES ASSUME net_writebuf # <<>>
               PROVE  IsNL(Last(net_writebuf)) /\ 1 \in 1..Len(net_writebuf)
    OBVIOUS
  <2>1. Len(net_writebuf) \in Nat \ {0}
    BY <1>1
  <2>2. Unsent # <<>> /\ Unsent[Len(Unsent)] = net_writebuf[Len(net_writebuf)]
    BY <1>3, <2>1
  <2> QED BY <2>1, <2>2 DEF WriteInv, Whole, Packets, Last
<1>8. Whole(Unsent', conn')
  BY <1>2, <1>4, <1>5, <1>6, <1>7 DEF Whole, Packets
<1>9. RestFirst'
  BY <1>2, <1>4, <1>5, <1>7 DEF RestFirst
<1> QED BY <1>8, <1>9 DEF WriteInv

\* Each server is sent whole packets: partial sends and packets refused by a
\* full buffer tear none.  Only the first line of a connection may be the rest
\* of a packet, one of an earlier connection (lssproto_Send, appendWriteBuf,
\* shiftWriteBuf, cleanupNetwork).
THEOREM WriteFramed == Spec => []WriteFraming
<1>1. Init => WriteInv
  <2> SUFFICES ASSUME Init PROVE WriteInv
    OBVIOUS
  <2>1. Unsent = <<>> /\ Len(Unsent) = 0
    BY DEF Init, Unsent
  <2> QED BY <2>1 DEF WriteInv, RestFirst, Whole, Packets
<1>2. IInv /\ WriteInv /\ [Next]_vars => WriteInv'
  <2> SUFFICES ASSUME IInv, WriteInv, [Next]_vars PROVE WriteInv'
    OBVIOUS
  <2>1. CASE \E n \in 1..PacketLen : AppendWriteBuf(Line(conn, n)) /\ UNCHANGED <<sent, conn>>
    BY <2>1, AppendKeepsWhole
  <2>2. CASE UNCHANGED <<net_writebuf, sent, conn>>
    <3>1. Unsent' = Unsent
      BY <2>2 DEF Unsent, sent
    <3> QED BY <2>2, <3>1 DEF WriteInv, RestFirst, sent
  <2>3. CASE SendBytes
    <3>1. PICK n \in 1..Len(net_writebuf) : HandOver(n) /\ ShiftWriteBuf(n)
      BY <2>3 DEF SendBytes
    <3>2. PICK k \in 0..Len(Unsent) :
              /\ k # 0 => IsNL(Unsent[k])
              /\ Unsent' = SubSeq(Unsent, k + 1, Len(Unsent))
              /\ lineSent' = (lineSent \/ k # 0)
      BY <3>1, HandOverDrops
    <3>3. Unsent \in Seq(Byte) /\ conn' = conn /\ conn \in 0..MaxConn
      BY <2>3 DEF IInv, TypeOK, Unsent, SendBytes
    <3>4. CASE k = 0
      <4>1. Unsent' = Unsent /\ lineSent' = lineSent
        BY <3>2, <3>3, <3>4, SubSeqFull DEF IInv, TypeOK
      <4> QED BY <3>3, <4>1 DEF WriteInv, RestFirst
    <3>5. CASE k # 0
      <4>1. k \in 1..Len(Unsent) /\ IsNL(Unsent[k])
        BY <3>2, <3>3, <3>5
      <4>2. Whole(Unsent', conn) /\ (Unsent' # <<>> => Unsent'[1].pos = 1)
        BY <3>2, <3>3, <4>1, WholeSuffix DEF WriteInv
      <4> QED BY <3>3, <4>2 DEF WriteInv, RestFirst
    <3> QED BY <3>4, <3>5
  <2> QED
    <3>1. Dispatch => \/ UNCHANGED <<net_writebuf, sent, conn>>
                      \/ \E n \in 1..PacketLen :
                            AppendWriteBuf(Line(conn, n)) /\ UNCHANGED <<sent, conn>>
      BY DEF Dispatch, peer
    <3>2. Submit => \E n \in 1..PacketLen :
                        AppendWriteBuf(Line(conn, n)) /\ UNCHANGED <<sent, conn>>
      BY DEF Submit, peer
    <3>3. KeepAlive => \/ UNCHANGED <<net_writebuf, sent, conn>>
                       \/ AppendWriteBuf(Line(conn, 1)) /\ UNCHANGED <<sent, conn>>
      BY DEF KeepAlive, peer
    <3>4. KeepAlive => \/ UNCHANGED <<net_writebuf, sent, conn>>
                       \/ \E n \in 1..PacketLen :
                            AppendWriteBuf(Line(conn, n)) /\ UNCHANGED <<sent, conn>>
      <4>1. 1 \in 1..PacketLen
        BY SizesAreNat
      <4> QED BY <3>3, <4>1
    <3>5. \/ Dispatch \/ Submit \/ KeepAlive \/ Open \/ SendBytes
          \/ UNCHANGED <<net_writebuf, sent, conn>>
      BY DEF Next, Loop, Client, World, vars, peer, writing,
         LoopStart, RecvNothing, RecvBytes, RecvError, DispatchCancel, DrainWGS,
         DrainDone, SendNothing, SendError, Greeted, Close, ServerSend, ServerClose,
         ServerReset, Tick
    <3> QED BY <2>1, <2>2, <2>3, <3>1, <3>2, <3>4, <3>5, OpenKeepsWhole
<1>3. WriteInv => WriteFraming
  BY DEF WriteInv, Whole, RestFirst, Unsent, WriteFraming
<1> QED BY <1>1, <1>2, <1>3, Invariance, PTL DEF Spec
=============================================================================
