-------------------------- MODULE Characters_proof --------------------------
(***************************************************************************)
(* That a pass over the list of actions is sound however the functions and *)
(* the messages change it, and that objects, the pc and the party agree    *)
(* with the actions they own: for any number of characters, of slots, of   *)
(* places in the party and of addresses.                                   *)
(***************************************************************************)
EXTENDS Characters, FiniteSetTheorems, SequenceTheorems, WellFoundedInduction, TLAPS

\* The least and the greatest of some numbers.
LEMMA MinOf ==
  ASSUME NEW S, S \subseteq Nat, S # {}
  PROVE  Min(S) \in S /\ \A y \in S : Min(S) =< y
  <1> DEFINE R == {ss \in Nat \X Nat : ss[1] < ss[2]}
  <1>1. R = OpToRel(<, Nat)
    BY Zenon DEF OpToRel
  <1>2. IsWellFoundedOn(R, Nat)
    BY <1>1, NatLessThanWellFounded, Zenon
  <1>3. \A a, b \in Nat : a < b => <<a, b>> \in R
    OBVIOUS
  <1> HIDE DEF R
  <1>4. PICK x \in S : \A y \in S : ~ (<<y, x>> \in R)
    BY <1>2, WFMin, Zenon
  <1>5. ASSUME NEW y \in S
        PROVE  x =< y
    <2>1. x \in Nat /\ y \in Nat /\ ~ (<<y, x>> \in R)
      BY <1>4
    <2>2. ~ (y < x)
      BY <1>3, <2>1
    <2> QED
      BY <2>1, <2>2
  <1> QED
    BY <1>5 DEF Min

LEMMA MaxOf ==
  ASSUME NEW S, NEW m \in Nat, S \subseteq 0..m, S # {}
  PROVE  Max(S) \in S /\ \A y \in S : y =< Max(S)
  <1> DEFINE T == {n \in 0..m : m - n \in S}
  <1>1. T \subseteq Nat
    OBVIOUS
  <1>2. T # {}
    <2>1. PICK y \in S : TRUE
      OBVIOUS
    <2>2. m - y \in 0..m /\ m - (m - y) = y
      OBVIOUS
    <2> QED
      BY <2>1, <2>2
  <1>3. Min(T) \in T /\ \A z \in T : Min(T) =< z
    BY <1>1, <1>2, MinOf
  <1>4. ASSUME NEW y \in S
        PROVE  y =< m - Min(T)
    <2>1. m - y \in 0..m /\ m - (m - y) = y
      OBVIOUS
    <2>2. m - y \in T
      BY <2>1
    <2>3. Min(T) =< m - y /\ Min(T) \in 0..m
      BY <1>3, <2>2
    <2> QED
      BY <2>1, <2>3
  <1>5. m - Min(T) \in S
    BY <1>3
  <1> QED
    BY <1>4, <1>5 DEF Max

\* What stands in the list, and where.
LEMMA Lies ==
  ASSUME NEW l \in Seq(Action)
  PROVE  /\ Len(l) \in Nat /\ DOMAIN l = 1..Len(l)
         /\ Range(l) = {l[i] : i \in 1..Len(l)} /\ Range(l) \subseteq Action
         /\ \A i \in 1..Len(l) : l[i] \in Action
  BY DEF Range

LEMMA IndexIs ==
  ASSUME NEW l \in Seq(Action), IsInjective(l), NEW i \in 1..Len(l)
  PROVE  Index(l, l[i]) = i
  BY DEF IsInjective, Index

LEMMA SuccessorIs ==
  ASSUME NEW l \in Seq(Action), IsInjective(l), NEW i \in 1..Len(l)
  PROVE  /\ i = Len(l) => Successor(l, l[i]) = NULL
         /\ i # Len(l) => i + 1 \in 1..Len(l) /\ Successor(l, l[i]) = l[i + 1]
  BY IndexIs DEF Successor

LEMMA Appended ==
  ASSUME NEW l \in Seq(Action), IsInjective(l), NEW a \in Action \ Range(l)
  PROVE  /\ GetAction(a) = Append(list, a)
         /\ Append(l, a) \in Seq(Action) /\ IsInjective(Append(l, a))
         /\ Len(Append(l, a)) = Len(l) + 1
         /\ Range(Append(l, a)) = Range(l) \cup {a}
         /\ \A i \in 1..Len(l) : Append(l, a)[i] = l[i]
         /\ Append(l, a)[Len(l) + 1] = a
  <1> DEFINE m == Append(l, a)
  <1>1. /\ m \in Seq(Action) /\ Len(m) = Len(l) + 1 /\ Len(l) \in Nat
        /\ \A i \in 1..Len(l) : m[i] = l[i]
        /\ m[Len(l) + 1] = a
    OBVIOUS
  <1> HIDE DEF m
  <1>2. \A i \in 1..Len(m) : i \in 1..Len(l) \/ i = Len(l) + 1
    BY <1>1
  <1>3. IsInjective(m)
    BY <1>1, <1>2, Lies DEF IsInjective
  <1>4. Range(m) = Range(l) \cup {a}
    BY <1>1, <1>2, Lies
  <1> QED
    BY <1>1, <1>3, <1>4 DEF m, GetAction

LEMMA Joins ==
  ASSUME NEW l \in Seq(Action), NEW m \in Seq(Action), IsInjective(l), IsInjective(m),
         Range(l) \cap Range(m) = {}
  PROVE  /\ l \o m \in Seq(Action) /\ IsInjective(l \o m)
         /\ Range(l \o m) = Range(l) \cup Range(m)
  <1> DEFINE b == l \o m
  <1>1. /\ b \in Seq(Action) /\ Len(b) = Len(l) + Len(m) /\ Len(l) \in Nat /\ Len(m) \in Nat
        /\ \A i \in 1..Len(b) : b[i] = IF i =< Len(l) THEN l[i] ELSE m[i - Len(l)]
    OBVIOUS
  <1> HIDE DEF b
  <1>2. ASSUME NEW i \in 1..Len(b)
        PROVE  \/ i \in 1..Len(l) /\ b[i] = l[i]
               \/ i - Len(l) \in 1..Len(m) /\ b[i] = m[i - Len(l)]
    BY <1>1
  <1>3. /\ \A i \in 1..Len(l) : i \in 1..Len(b) /\ b[i] = l[i]
        /\ \A i \in 1..Len(m) : i + Len(l) \in 1..Len(b) /\ b[i + Len(l)] = m[i]
    BY <1>1
  <1>4. IsInjective(b)
    <2> SUFFICES ASSUME NEW i \in 1..Len(b), NEW j \in 1..Len(b), b[i] = b[j]
                 PROVE  i = j
      BY <1>1, Lies DEF IsInjective
    <2>1. CASE i \in 1..Len(l) /\ b[i] = l[i] /\ j \in 1..Len(l) /\ b[j] = l[j]
      BY <2>1, Lies DEF IsInjective
    <2>2. CASE i - Len(l) \in 1..Len(m) /\ b[i] = m[i - Len(l)]
               /\ j - Len(l) \in 1..Len(m) /\ b[j] = m[j - Len(l)]
      <3>1. i - Len(l) = j - Len(l)
        BY <2>2, Lies DEF IsInjective
      <3> QED
        BY <1>1, <3>1
    <2>3. CASE i \in 1..Len(l) /\ b[i] = l[i]
               /\ j - Len(l) \in 1..Len(m) /\ b[j] = m[j - Len(l)]
      BY <2>3, Lies
    <2>4. CASE i - Len(l) \in 1..Len(m) /\ b[i] = m[i - Len(l)]
               /\ j \in 1..Len(l) /\ b[j] = l[j]
      BY <2>4, Lies
    <2> QED
      BY <1>2, <2>1, <2>2, <2>3, <2>4
  <1>5. Range(b) = Range(l) \cup Range(m)
    <2>1. Range(b) \subseteq Range(l) \cup Range(m)
      BY <1>1, <1>2, Lies
    <2>2. Range(l) \subseteq Range(b)
      BY <1>1, <1>3, Lies
    <2>3. \A i \in 1..Len(m) : m[i] \in Range(b)
      BY <1>1, <1>3, Lies
    <2>4. Range(m) \subseteq Range(b)
      BY <2>3, Lies
    <2> QED
      BY <2>1, <2>2, <2>4
  <1> QED
    BY <1>1, <1>4, <1>5 DEF b

LEMMA Unlinks ==
  ASSUME NEW l \in Seq(Action), IsInjective(l), NEW k \in 1..Len(l)
  PROVE  LET m == Unlinked(l, l[k])
         IN /\ m \in Seq(Action) /\ IsInjective(m) /\ Len(m) = Len(l) - 1
            /\ \A i \in 1..Len(m) : m[i] = l[IF i < k THEN i ELSE i + 1]
            /\ Range(m) = Range(l) \ {l[k]}
  <1> DEFINE m == Unlinked(l, l[k])
  <1>1. m = [j \in 1..Len(l) - 1 |-> l[IF j < k THEN j ELSE j + 1]]
    BY IndexIs DEF Unlinked
  <1>2. /\ m \in Seq(Action) /\ Len(m) = Len(l) - 1 /\ Len(l) \in Nat /\ DOMAIN m = 1..Len(m)
        /\ \A i \in 1..Len(m) : m[i] = l[IF i < k THEN i ELSE i + 1]
    <2>1. \A j \in 1..Len(l) - 1 : l[IF j < k THEN j ELSE j + 1] \in Action
      BY Lies
    <2>2. Len(l) - 1 \in Nat
      BY Lies
    <2> QED
      BY <1>1, <2>1, <2>2
  <1> HIDE DEF m
  <1>3. IsInjective(m)
    <2> SUFFICES ASSUME NEW i \in 1..Len(m), NEW j \in 1..Len(m), m[i] = m[j]
                 PROVE  i = j
      BY <1>2 DEF IsInjective
    <2> DEFINE at(n) == IF n < k THEN n ELSE n + 1
    <2>1. /\ at(i) \in 1..Len(l) /\ at(j) \in 1..Len(l)
          /\ m[i] = l[at(i)] /\ m[j] = l[at(j)]
      BY <1>2
    <2>2. at(i) = at(j)
      BY <2>1, Lies DEF IsInjective
    <2> QED
      BY <2>2
  <1>4. ASSUME NEW i \in 1..Len(m)
        PROVE  m[i] \in Range(l) \ {l[k]}
    <2> DEFINE n == IF i < k THEN i ELSE i + 1
    <2>1. n \in 1..Len(l) /\ n # k /\ m[i] = l[n]
      BY <1>2
    <2> QED
      BY <2>1, Lies DEF IsInjective
  <1>5. ASSUME NEW j \in 1..Len(l), j # k
        PROVE  l[j] \in Range(m)
    <2>1. CASE j < k
      BY <1>2, <2>1 DEF Range
    <2>2. CASE j > k
      <3>1. j - 1 \in 1..Len(m) /\ m[j - 1] = l[j]
        BY <1>2, <2>2
      <3> QED
        BY <1>2, <3>1 DEF Range
    <2> QED
      BY <1>5, <2>1, <2>2
  <1>6. Range(m) = Range(l) \ {l[k]}
    <2>1. Range(m) \subseteq Range(l) \ {l[k]}
      BY <1>2, <1>4 DEF Range
    <2>2. Range(l) \ {l[k]} \subseteq Range(m)
      BY <1>5, Lies
    <2> QED
      BY <2>1, <2>2
  <1> QED
    BY <1>2, <1>3, <1>6 DEF m

\* The list of actions and the pass over it.
Linked ==
    /\ list \in Seq(Action) /\ IsInjective(list)
    /\ cursor \in Action \cup {NULL} /\ ran \subseteq Range(list)
    /\ cursor = NULL => ran = {}
    /\ PassSound

LEMMA Stands ==
  ASSUME Linked, cursor # NULL
  PROVE  \E k \in 1..Len(list) : /\ cursor = list[k]
                                 /\ \A i \in 1..Len(list) : list[i] \in ran <=> i < k
  <1>1. list \in Seq(Action) /\ IsInjective(list) /\ cursor \in Range(list)
    BY DEF Linked, PassSound
  <1>2. PICK k \in 1..Len(list) : cursor = list[k]
    BY <1>1, Lies
  <1>3. Index(list, cursor) = k
    BY <1>1, <1>2, IndexIs
  <1>4. DOMAIN list = 1..Len(list)
    BY <1>1, Lies
  <1> QED
    BY <1>2, <1>3, <1>4 DEF Linked, PassSound

LEMMA StandsSound ==
  ASSUME NEW k, list' \in Seq(Action), IsInjective(list'), k \in 1..Len(list'),
         cursor' = list'[k], ran' \subseteq Range(list'),
         \A i \in 1..Len(list') : list'[i] \in ran' <=> i < k
  PROVE  Linked'
  <1>1. Index(list', cursor') = k
    BY IndexIs
  <1>2. /\ DOMAIN list' = 1..Len(list') /\ cursor' \in Range(list')
        /\ Range(list') \subseteq Action
    BY Lies
  <1>3. cursor' # NULL
    BY <1>2, ActionAssumption
  <1> QED
    BY <1>1, <1>2, <1>3 DEF Linked, PassSound

LEMMA EndsSound ==
  ASSUME list' \in Seq(Action), IsInjective(list'), cursor' = NULL, ran' = {}
  PROVE  Linked'
  BY DEF Linked, PassSound

LEMMA RestLinked ==
  ASSUME Linked, cursor = NULL, UNCHANGED <<cursor, ran>>, list' \in Seq(Action),
         IsInjective(list')
  PROVE  Linked'
  BY EndsSound DEF Linked

LEMMA BeginLinked ==
  ASSUME Linked, StartPass
  PROVE  Linked'
  <1>1. list' \in Seq(Action) /\ IsInjective(list') /\ ran' = {} /\ Len(list) \in Nat
    BY DEF Linked, StartPass
  <1>2. 1 \in 1..Len(list') /\ cursor' = list'[1]
    BY DEF Linked, StartPass
  <1>3. \A i \in 1..Len(list') : list'[i] \in ran' <=> i < 1
    BY <1>1
  <1> QED
    BY <1>1, <1>2, <1>3, StandsSound

\* The list that a function called in the pass leaves.
LEMMA AdvanceLinked ==
  ASSUME Linked, cursor # NULL, Advance,
         \/ list' = list
         \/ \E a \in Action \ Range(list) : list' = Append(list, a)
  PROVE  Linked'
  <1>1. PICK k \in 1..Len(list) : /\ cursor = list[k]
                                  /\ \A i \in 1..Len(list) : list[i] \in ran <=> i < k
    BY Stands
  <1>2. list \in Seq(Action) /\ IsInjective(list) /\ ran \subseteq Range(list) /\ Len(list) \in Nat
    BY Lies DEF Linked
  <1>3. /\ list' \in Seq(Action) /\ IsInjective(list') /\ Range(list) \subseteq Range(list')
        /\ Len(list') \in Nat /\ Len(list') >= Len(list)
        /\ \A i \in 1..Len(list) : list'[i] = list[i]
        /\ \A i \in 1..Len(list') :
              i \in 1..Len(list) \/ (i > Len(list) /\ list'[i] \notin Range(list))
    <2>1. CASE list' = list
      BY <1>2, <2>1
    <2>2. CASE \E a \in Action \ Range(list) : list' = Append(list, a)
      <3>1. PICK a \in Action \ Range(list) : list' = Append(list, a)
        BY <2>2
      <3> QED
        BY <1>2, <3>1, Appended
    <2> QED
      BY <2>1, <2>2
  <1>4. cursor = list'[k] /\ k \in 1..Len(list') /\ cursor' = Successor(list', list'[k])
    BY <1>1, <1>3 DEF Advance
  <1>5. CASE k = Len(list')
    <2>1. cursor' = NULL
      BY <1>3, <1>4, <1>5, SuccessorIs
    <2> QED
      BY <1>3, <2>1, EndsSound DEF Advance
  <1>6. CASE k # Len(list')
    <2>1. k + 1 \in 1..Len(list') /\ cursor' = list'[k + 1]
      BY <1>3, <1>4, <1>6, SuccessorIs
    <2>2. cursor' # NULL
      BY <1>3, <2>1, Lies, ActionAssumption
    <2>3. ran' = ran \cup {cursor}
      BY <2>2 DEF Advance
    <2>4. cursor \in Range(list)
      BY <1>1, <1>2, Lies
    <2>5. ASSUME NEW i \in 1..Len(list')
          PROVE  list'[i] \in ran' <=> i < k + 1
      <3>1. CASE i \in 1..Len(list)
        <4>1. list[i] = cursor <=> i = k
          BY <1>1, <1>2, <3>1, Lies DEF IsInjective
        <4> QED
          BY <1>1, <1>3, <2>3, <3>1, <4>1
      <3>2. CASE i > Len(list) /\ list'[i] \notin Range(list)
        BY <1>1, <1>2, <2>3, <2>4, <3>2
      <3> QED
        BY <1>3, <3>1, <3>2
    <2>6. ran' \subseteq Range(list')
      BY <1>2, <1>3, <2>3, <2>4
    <2> QED
      BY <1>3, <2>1, <2>5, <2>6, StandsSound
  <1> QED
    BY <1>5, <1>6

LEMMA FreeLinked ==
  ASSUME Linked, dead \subseteq Range(list), Free
  PROVE  Linked' /\ Range(list)' = Range(list) \ {cursor} /\ cursor \in Range(list)
  <1>1. list \in Seq(Action) /\ IsInjective(list) /\ ran \subseteq Range(list) /\ Len(list) \in Nat
    BY Lies DEF Linked
  <1>2. cursor \in Range(list) /\ cursor # NULL
    BY <1>1, Lies, ActionAssumption DEF Free
  <1>3. PICK k \in 1..Len(list) : /\ cursor = list[k]
                                  /\ \A i \in 1..Len(list) : list[i] \in ran <=> i < k
    BY <1>2, Stands
  <1>4. /\ list' \in Seq(Action) /\ IsInjective(list') /\ Len(list') = Len(list) - 1
        /\ \A i \in 1..Len(list') : list'[i] = list[IF i < k THEN i ELSE i + 1]
        /\ Range(list') = Range(list) \ {cursor}
    BY <1>1, <1>3, Unlinks DEF Free
  <1>5. Linked'
    <2>1. CASE k = Len(list)
      BY <1>1, <1>3, <1>4, <2>1, SuccessorIs, EndsSound DEF Free
    <2>2. CASE k # Len(list)
      <3>1. k + 1 \in 1..Len(list) /\ cursor' = list[k + 1]
        BY <1>1, <1>3, <2>2, SuccessorIs DEF Free
      <3>2. cursor' # NULL
        BY <1>1, <3>1, Lies, ActionAssumption
      <3>3. ran' = ran
        BY <3>2 DEF Free
      <3>4. k \in 1..Len(list') /\ cursor' = list'[k]
        BY <1>1, <1>4, <3>1
      <3>5. ran' \subseteq Range(list')
        BY <1>1, <1>3, <1>4, <3>3
      <3>6. ASSUME NEW i \in 1..Len(list')
            PROVE  list'[i] \in ran' <=> i < k
        <4>1. CASE i < k
          BY <1>1, <1>3, <1>4, <3>3, <4>1
        <4>2. CASE ~ (i < k)
          <5>1. i + 1 \in 1..Len(list) /\ list'[i] = list[i + 1] /\ ~ (i + 1 < k)
            BY <1>1, <1>4, <4>2
          <5> QED
            BY <1>3, <3>3, <4>2, <5>1
        <4> QED
          BY <4>1, <4>2
      <3> QED
        BY <1>4, <3>4, <3>5, <3>6, StandsSound
    <2> QED
      BY <2>1, <2>2
  <1> QED
    BY <1>2, <1>4, <1>5

\* What the table, the party and the functions of actions hold.
Object == [use : BOOLEAN, id : Id \cup {NoId}, ptAct : Action \cup {NULL}, party : BOOLEAN]
Member == [use : BOOLEAN, id : Id \cup {PcId, NoId}, ptAct : Action \cup {NULL}]
Funcs == {NoFunc, PcProc} \cup {CharProc(s, w) : s \in Slot, w \in BOOLEAN}
         \cup {PetProc(id, n) : id \in Id \cup {NoId}, n \in Nat}

LEMMA Objects ==
  /\ NoObject \in Object /\ Nobody \in Member /\ 0 \in Slot
  /\ \A o \in Object : /\ o.use \in BOOLEAN /\ o.id \in Id \cup {NoId} /\ o.party \in BOOLEAN
                       /\ o.ptAct \in Action \cup {NULL}
  /\ \A m \in Member : /\ m.use \in BOOLEAN /\ m.id \in Id \cup {PcId, NoId}
                       /\ m.ptAct \in Action \cup {NULL}
  /\ ~ NoObject.use /\ NoObject.id = NoId /\ NoObject.ptAct = NULL /\ ~ NoObject.party
  /\ ~ Nobody.use /\ Nobody.id = NoId /\ Nobody.ptAct = NULL
  /\ NULL \notin Action
  <1>1. NoObject \in Object /\ Nobody \in Member
    BY Zenon DEF NoObject, Nobody, Object, Member
  <1>2. 0 \in Slot
    BY CharactersAssumption DEF Slot
  <1> QED
    BY <1>1, <1>2, ActionAssumption DEF NoObject, Nobody, Object, Member

LEMMA ObjectWith ==
  ASSUME NEW o \in Object
  PROVE  /\ \A a \in Action \cup {NULL} :
               LET n == [o EXCEPT !.ptAct = a]
               IN n \in Object /\ n.use = o.use /\ n.id = o.id /\ n.party = o.party /\ n.ptAct = a
         /\ \A b \in BOOLEAN :
               LET n == [o EXCEPT !.party = b]
               IN n \in Object /\ n.use = o.use /\ n.id = o.id /\ n.party = b /\ n.ptAct = o.ptAct
  BY DEF Object

LEMMA MemberWith ==
  ASSUME NEW m \in Member, NEW a \in Action \cup {NULL}
  PROVE  LET n == [m EXCEPT !.ptAct = a]
         IN n \in Member /\ n.use = m.use /\ n.id = m.id /\ n.ptAct = a
  BY DEF Member

LEMMA NewObject ==
  ASSUME NEW id \in Id, NEW a \in Action \cup {NULL}, NEW b \in BOOLEAN
  PROVE  LET n == [use |-> TRUE, id |-> id, ptAct |-> a, party |-> b]
         IN n \in Object /\ n.use /\ n.id = id /\ n.party = b /\ n.ptAct = a
  BY DEF Object

LEMMA Does ==
  /\ NoFunc \in Funcs /\ PcProc \in Funcs /\ NoFunc.does = "nothing" /\ PcProc.does = "pcProc"
  /\ \A s \in Slot, w \in BOOLEAN :
        /\ CharProc(s, w) \in Funcs /\ CharProc(s, w).does = "charProc"
        /\ CharProc(s, w).slot = s /\ CharProc(s, w).item = w
  /\ \A id \in Id \cup {NoId}, n \in Nat :
        /\ PetProc(id, n) \in Funcs /\ PetProc(id, n).does = "petProc"
        /\ PetProc(id, n).id = id /\ PetProc(id, n).left = n
  /\ \A f \in Funcs : /\ f.does \in {"nothing", "charProc", "pcProc", "petProc"}
                      /\ f.does = "charProc" => f.slot \in Slot /\ f.item \in BOOLEAN
                      /\ f.does = "petProc" => f.id \in Id \cup {NoId} /\ f.left \in Nat
  <1>1. NoFunc.does = "nothing" /\ PcProc.does = "pcProc"
    BY DEF NoFunc, PcProc
  <1>2. \A s \in Slot, w \in BOOLEAN :
           /\ CharProc(s, w) \in Funcs /\ CharProc(s, w).does = "charProc"
           /\ CharProc(s, w).slot = s /\ CharProc(s, w).item = w
    BY DEF CharProc, Funcs
  <1>3. \A id \in Id \cup {NoId}, n \in Nat :
           /\ PetProc(id, n) \in Funcs /\ PetProc(id, n).does = "petProc"
           /\ PetProc(id, n).id = id /\ PetProc(id, n).left = n
    BY DEF PetProc, Funcs
  <1>4. ASSUME NEW f \in Funcs
        PROVE  /\ f.does \in {"nothing", "charProc", "pcProc", "petProc"}
               /\ f.does = "charProc" => f.slot \in Slot /\ f.item \in BOOLEAN
               /\ f.does = "petProc" => f.id \in Id \cup {NoId} /\ f.left \in Nat
    <2>1. \/ f \in {NoFunc, PcProc}
          \/ \E s \in Slot, w \in BOOLEAN : f = CharProc(s, w)
          \/ \E id \in Id \cup {NoId}, n \in Nat : f = PetProc(id, n)
      BY DEF Funcs
    <2>2. CASE f \in {NoFunc, PcProc}
      BY <1>1, <2>2
    <2>3. CASE \E s \in Slot, w \in BOOLEAN : f = CharProc(s, w)
      <3>1. PICK s \in Slot, w \in BOOLEAN : f = CharProc(s, w)
        BY <2>3
      <3>2. f.does = "charProc" /\ f.slot = s /\ f.item = w
        BY <1>2, <3>1
      <3> QED
        BY <3>2
    <2>4. CASE \E id \in Id \cup {NoId}, n \in Nat : f = PetProc(id, n)
      <3>1. PICK id \in Id \cup {NoId}, n \in Nat : f = PetProc(id, n)
        BY <2>4
      <3>2. f.does = "petProc" /\ f.id = id /\ f.left = n
        BY <1>3, <3>1
      <3> QED
        BY <3>2
    <2> QED
      BY <2>1, <2>2, <2>3, <2>4
  <1>5. NoFunc \in Funcs /\ PcProc \in Funcs
    BY DEF Funcs
  <1> QED
    BY <1>1, <1>2, <1>3, <1>4, <1>5

\* The table between the two halves of a handler; full: some time since the
\* last reset it had no free slot.
TableOK(t) == /\ t.obj \in [Slot -> Object]
              /\ t.count \in 0..MAX_CHAROBJ /\ t.tail \in 0..MAX_CHAROBJ
              /\ t.free \in Slot
Single(t, full) ==
    /\ \A s \in Slot : t.obj[s].use => s < t.tail /\ t.obj[s].id \in Id
    /\ \A s \in Slot : ~ t.obj[s].use => t.obj[s] = NoObject
    /\ \A s, u \in Slot : t.obj[s].use /\ t.obj[u].use /\ t.obj[s].id = t.obj[u].id => s = u
    /\ t.count = Cardinality(Used(t))
    /\ ~ full => ~ t.obj[t.free].use

LEMMA SlotsFinite ==
  /\ IsFiniteSet(Slot) /\ Cardinality(Slot) = MAX_CHAROBJ
  /\ \A S \in SUBSET Slot : IsFiniteSet(S) /\ Cardinality(S) \in 0..MAX_CHAROBJ
  <1>1. IsFiniteSet(Slot) /\ Cardinality(Slot) = MAX_CHAROBJ
    BY FS_Interval, CharactersAssumption DEF Slot
  <1>2. ASSUME NEW S \in SUBSET Slot
        PROVE  IsFiniteSet(S) /\ Cardinality(S) \in 0..MAX_CHAROBJ
    <2>1. IsFiniteSet(S) /\ Cardinality(S) <= MAX_CHAROBJ
      BY <1>1, FS_Subset
    <2>2. Cardinality(S) \in Nat
      BY <2>1, FS_CardinalityType
    <2> QED
      BY <2>1, <2>2, CharactersAssumption
  <1> QED
    BY <1>1, <1>2

LEMMA DeletedTable ==
  ASSUME NEW t, TableOK(t), NEW s \in Slot
  PROVE  /\ TableOK(Deleted(t, s))
         /\ Deleted(t, s).obj = [t.obj EXCEPT ![s] = NoObject]
         /\ \A full \in BOOLEAN : Single(t, full) /\ t.obj[s].use => Single(Deleted(t, s), full)
  <1> DEFINE o == [t.obj EXCEPT ![s] = NoObject]
             left == {i \in Slot : i < t.tail /\ o[i].use}
             d == Deleted(t, s)
  <1>1. /\ d.obj = o
        /\ d.count = IF t.count > 0 THEN t.count - 1 ELSE 0
        /\ d.free = IF t.free > s THEN s ELSE t.free
        /\ d.tail = IF left = {} THEN t.tail ELSE Max(left) + 1
    BY DEF Deleted
  <1>2. o \in [Slot -> Object] /\ o[s] = NoObject /\ \A i \in Slot : i # s => o[i] = t.obj[i]
    BY Objects DEF TableOK
  <1>3. t.count \in 0..MAX_CHAROBJ /\ t.tail \in 0..MAX_CHAROBJ /\ t.free \in Slot
    BY DEF TableOK
  <1>4. MAX_CHAROBJ \in Nat \ {0} /\ Slot = 0..MAX_CHAROBJ - 1
    BY CharactersAssumption DEF Slot
  <1>5. ASSUME left # {}
        PROVE  Max(left) \in left /\ \A i \in left : i =< Max(left)
    <2>1. left \subseteq 0..MAX_CHAROBJ /\ MAX_CHAROBJ \in Nat
      BY <1>4
    <2> HIDE DEF left
    <2> QED
      BY <1>5, <2>1, MaxOf
  <1> HIDE DEF o, d
  <1>6. TableOK(d)
    <2>1. d.tail \in 0..MAX_CHAROBJ
      BY <1>1, <1>3, <1>4, <1>5
    <2>2. d.count \in 0..MAX_CHAROBJ /\ d.free \in Slot
      BY <1>1, <1>3, <1>4
    <2> QED
      BY <1>1, <1>2, <2>1, <2>2 DEF TableOK
  <1>7. ASSUME NEW full \in BOOLEAN, Single(t, full), t.obj[s].use
        PROVE  Single(d, full)
    <2>1. \A i \in Slot : d.obj[i].use => i # s /\ d.obj[i] = t.obj[i]
      BY <1>1, <1>2, Objects
    <2>2. \A i \in Slot : d.obj[i].use => i < d.tail /\ d.obj[i].id \in Id
      <3> SUFFICES ASSUME NEW i \in Slot, d.obj[i].use
                   PROVE  i < d.tail /\ d.obj[i].id \in Id
        OBVIOUS
      <3>1. i \in left /\ d.obj[i].id \in Id
        BY <1>1, <1>7, <2>1 DEF Single
      <3>2. Max(left) \in left /\ i =< Max(left)
        BY <1>5, <3>1
      <3>3. d.tail = Max(left) + 1
        BY <1>1, <3>1
      <3> QED
        BY <1>4, <3>1, <3>2, <3>3
    <2>3. \A i \in Slot : ~ d.obj[i].use => d.obj[i] = NoObject
      BY <1>1, <1>2, <1>7 DEF Single
    <2>4. \A i, j \in Slot : d.obj[i].use /\ d.obj[j].use /\ d.obj[i].id = d.obj[j].id => i = j
      BY <1>7, <2>1 DEF Single
    <2>5. d.count = Cardinality(Used(d))
      <3>1. Used(d) = Used(t) \ {s} /\ s \in Used(t)
        BY <1>1, <1>2, <1>7, Objects DEF Used
      <3>2. IsFiniteSet(Used(t)) /\ Cardinality(Used(t)) \in Nat
        BY SlotsFinite DEF Used
      <3>3. Cardinality(Used(d)) = Cardinality(Used(t)) - 1 /\ IsFiniteSet(Used(d))
        BY <3>1, <3>2, FS_RemoveElement
      <3>4. Cardinality(Used(d)) \in Nat
        BY <3>3, FS_CardinalityType
      <3> QED
        BY <1>1, <1>7, <3>2, <3>3, <3>4 DEF Single
    <2>6. ~ full => ~ d.obj[d.free].use
      BY <1>1, <1>2, <1>3, <1>7, Objects DEF Single
    <2> QED
      BY <2>2, <2>3, <2>4, <2>5, <2>6 DEF Single
  <1> QED
    BY <1>1, <1>6, <1>7 DEF d, o

LEMMA NextFreeIs ==
  ASSUME NEW t, TableOK(t)
  PROVE  /\ NextFree(t) \in Slot
         /\ (\E i \in Slot : i # t.free /\ ~ t.obj[i].use)
               => NextFree(t) # t.free /\ ~ t.obj[NextFree(t)].use
  <1> DEFINE ahead == {i \in Slot : i > t.free /\ ~ t.obj[i].use}
             behind == {i \in Slot : i < t.free /\ ~ t.obj[i].use}
  <1>1. NextFree(t) = IF ahead # {} THEN Min(ahead)
                      ELSE IF behind # {} THEN Min(behind) ELSE t.free
    BY DEF NextFree
  <1>2. t.free \in Slot /\ Slot \subseteq Nat
    BY DEF TableOK, Slot
  <1>3. \A i \in Slot : i # t.free <=> i > t.free \/ i < t.free
    <2>1. \A i, j \in Nat : i # j <=> i > j \/ i < j
      OBVIOUS
    <2> QED
      BY <1>2, <2>1, Zenon
  <1>4. \A i \in ahead : i \in Slot /\ i # t.free /\ ~ t.obj[i].use
    BY <1>3, Zenon
  <1>5. \A i \in behind : i \in Slot /\ i # t.free /\ ~ t.obj[i].use
    BY <1>3, Zenon
  <1>6. \A i \in Slot : i # t.free /\ ~ t.obj[i].use => i \in ahead \/ i \in behind
    BY <1>3, Zenon
  <1>7. ahead \subseteq Nat /\ behind \subseteq Nat
    BY <1>2
  <1> HIDE DEF ahead, behind
  <1>8. (ahead # {} => Min(ahead) \in ahead) /\ (behind # {} => Min(behind) \in behind)
    BY <1>7, MinOf
  <1> QED
    BY <1>1, <1>2, <1>4, <1>5, <1>6, <1>8

LEMMA AddedTable ==
  ASSUME NEW t, TableOK(t), ~ Full(t), NEW id \in Id, NEW a \in Action \cup {NULL},
         NEW b \in BOOLEAN
  PROVE  LET u == Added(t, id, a, b)
         IN /\ TableOK(u) /\ t.free \in Slot
            /\ u.obj = [t.obj EXCEPT ![t.free] =
                          [use |-> TRUE, id |-> id, ptAct |-> a,
                           party |-> t.obj[t.free].party \/ b]]
  <1> DEFINE u == Added(t, id, a, b)
             n == [use |-> TRUE, id |-> id, ptAct |-> a, party |-> t.obj[t.free].party \/ b]
  <1>1. /\ u.obj = [t.obj EXCEPT ![t.free] = n]
        /\ u.count = t.count + 1
        /\ u.free = NextFree(t)
        /\ u.tail = IF t.free + 1 > t.tail THEN t.free + 1 ELSE t.tail
    BY DEF Added
  <1>2. t.count \in 0..MAX_CHAROBJ /\ t.tail \in 0..MAX_CHAROBJ /\ t.free \in Slot
    BY DEF TableOK
  <1>3. MAX_CHAROBJ \in Nat \ {0} /\ Slot = 0..MAX_CHAROBJ - 1
    BY CharactersAssumption DEF Slot
  <1>4. n \in Object /\ n.use /\ n.id = id
    <2>1. t.obj[t.free] \in Object
      BY <1>2 DEF TableOK
    <2>2. (t.obj[t.free].party \/ b) \in BOOLEAN
      OBVIOUS
    <2> HIDE DEF n
    <2> QED
      BY <2>2, NewObject DEF n
  <1> HIDE DEF u, n
  <1>5. /\ u.obj \in [Slot -> Object] /\ u.obj[t.free] = n
        /\ \A i \in Slot : i # t.free => u.obj[i] = t.obj[i]
    BY <1>1, <1>2, <1>4 DEF TableOK
  <1>6. TableOK(u)
    <2>1. u.count \in 0..MAX_CHAROBJ
      BY <1>1, <1>2, <1>3 DEF Full
    <2>2. u.tail \in 0..MAX_CHAROBJ
      BY <1>1, <1>2, <1>3
    <2> QED
      BY <1>1, <1>5, <2>1, <2>2, NextFreeIs DEF TableOK
  <1> QED
    BY <1>1, <1>2, <1>6 DEF u, n

LEMMA AddedSingle ==
  ASSUME NEW t, TableOK(t), ~ Full(t), NEW id \in Id, NEW a \in Action \cup {NULL},
         NEW b \in BOOLEAN, NEW full \in BOOLEAN, Single(t, full), ~ t.obj[t.free].use,
         \A s \in Slot : t.obj[s].use => t.obj[s].id # id
  PROVE  Single(Added(t, id, a, b), full \/ Used(Added(t, id, a, b)) = Slot)
  <1> DEFINE u == Added(t, id, a, b)
             n == [use |-> TRUE, id |-> id, ptAct |-> a, party |-> t.obj[t.free].party \/ b]
  <1>1. /\ u.obj = [t.obj EXCEPT ![t.free] = n]
        /\ u.count = t.count + 1
        /\ u.free = NextFree(t)
        /\ u.tail = IF t.free + 1 > t.tail THEN t.free + 1 ELSE t.tail
    BY DEF Added
  <1>2. t.count \in 0..MAX_CHAROBJ /\ t.tail \in 0..MAX_CHAROBJ /\ t.free \in Slot
    BY DEF TableOK
  <1>3. MAX_CHAROBJ \in Nat \ {0} /\ Slot = 0..MAX_CHAROBJ - 1
    BY CharactersAssumption DEF Slot
  <1>4. n \in Object /\ n.use /\ n.id = id
    <2>1. t.obj[t.free] \in Object
      BY <1>2 DEF TableOK
    <2>2. (t.obj[t.free].party \/ b) \in BOOLEAN
      OBVIOUS
    <2> HIDE DEF n
    <2> QED
      BY <2>2, NewObject DEF n
  <1> HIDE DEF u, n
  <1>5. /\ u.obj \in [Slot -> Object] /\ u.obj[t.free] = n
        /\ \A i \in Slot : i # t.free => u.obj[i] = t.obj[i]
    BY <1>1, <1>2, <1>4 DEF TableOK
  <1>6. \A i \in Slot : u.obj[i].use => i < u.tail /\ u.obj[i].id \in Id
    BY <1>1, <1>2, <1>3, <1>4, <1>5 DEF Single
  <1>7. \A i \in Slot : ~ u.obj[i].use => u.obj[i] = NoObject
    BY <1>4, <1>5 DEF Single
  <1>8. \A i, j \in Slot : u.obj[i].use /\ u.obj[j].use /\ u.obj[i].id = u.obj[j].id => i = j
    BY <1>4, <1>5 DEF Single
  <1>9. u.count = Cardinality(Used(u))
    <2>1. Used(u) = Used(t) \cup {t.free} /\ t.free \notin Used(t)
      BY <1>2, <1>4, <1>5 DEF Used
    <2>2. IsFiniteSet(Used(t))
      BY SlotsFinite DEF Used
    <2> QED
      BY <1>1, <2>1, <2>2, FS_AddElement DEF Single
  <1>10. Used(u) # Slot => ~ u.obj[u.free].use
    <2> SUFFICES ASSUME Used(u) # Slot
                 PROVE  ~ u.obj[u.free].use
      OBVIOUS
    <2>1. PICK i \in Slot : ~ u.obj[i].use
      BY DEF Used
    <2>2. i # t.free /\ ~ t.obj[i].use
      BY <1>4, <1>5, <2>1
    <2>3. NextFree(t) \in Slot /\ NextFree(t) # t.free /\ ~ t.obj[NextFree(t)].use
      BY <2>2, NextFreeIs
    <2> QED
      BY <1>1, <1>5, <2>3
  <1>11. Single(u, full \/ Used(u) = Slot)
    BY <1>6, <1>7, <1>8, <1>9, <1>10 DEF Single
  <1> QED
    BY <1>11 DEF u

\* The places of the party that hold id, and what they learn of its action.
Places(q) ==
    /\ \A p \in Place : ~ q[p].use => q[p] = Nobody
    /\ \A p \in Place : q[p].use => q[p].id \in Player \cup {PcId}
    /\ \A p, r \in Place : q[p].use /\ q[r].use /\ q[p].id = q[r].id => p = r
Renamed(q, id, a) ==
    [p \in Place |-> IF q[p].use /\ q[p].id = id THEN [q[p] EXCEPT !.ptAct = a] ELSE q[p]]

LEMMA RenamedPlaces ==
  ASSUME NEW q \in [Place -> Member], Places(q), NEW id, NEW a \in Action \cup {NULL}
  PROVE  LET r == Renamed(q, id, a)
         IN /\ r \in [Place -> Member] /\ Places(r)
            /\ \A p \in Place :
                  /\ r[p].use = q[p].use /\ r[p].id = q[p].id
                  /\ r[p].ptAct = IF q[p].use /\ q[p].id = id THEN a ELSE q[p].ptAct
            /\ \A c \in Action \cup {NULL} : Renamed(r, id, c) = Renamed(q, id, c)
  <1> DEFINE r == Renamed(q, id, a)
  <1>1. \A p \in Place : q[p] \in Member
    OBVIOUS
  <1>2. ASSUME NEW p \in Place
        PROVE  /\ r[p] \in Member /\ r[p].use = q[p].use /\ r[p].id = q[p].id
               /\ r[p].ptAct = IF q[p].use /\ q[p].id = id THEN a ELSE q[p].ptAct
               /\ ~ q[p].use => r[p] = q[p]
               /\ \A c \in Action \cup {NULL} : Renamed(r, id, c)[p] = Renamed(q, id, c)[p]
    <2>1. CASE q[p].use /\ q[p].id = id
      <3>1. r[p] = [q[p] EXCEPT !.ptAct = a]
        BY <2>1 DEF Renamed
      <3>2. r[p] \in Member /\ r[p].use = q[p].use /\ r[p].id = q[p].id /\ r[p].ptAct = a
        BY <1>1, <3>1, MemberWith
      <3>3. ASSUME NEW c \in Action \cup {NULL}
            PROVE  Renamed(r, id, c)[p] = Renamed(q, id, c)[p]
        <4>1. Renamed(q, id, c)[p] = [q[p] EXCEPT !.ptAct = c]
          BY <2>1 DEF Renamed
        <4>2. Renamed(r, id, c)[p] = [r[p] EXCEPT !.ptAct = c]
          BY <2>1, <3>2 DEF Renamed
        <4> QED
          BY <3>1, <4>1, <4>2, <1>1 DEF Member
      <3> QED
        BY <2>1, <3>2, <3>3
    <2>2. CASE ~ (q[p].use /\ q[p].id = id)
      <3>1. r[p] = q[p]
        BY <2>2 DEF Renamed
      <3>2. \A c \in Action \cup {NULL} : Renamed(r, id, c)[p] = Renamed(q, id, c)[p]
        BY <2>2, <3>1 DEF Renamed
      <3> QED
        BY <1>1, <2>2, <3>1, <3>2
    <2> QED
      BY <2>1, <2>2
  <1>3. r \in [Place -> Member]
    BY <1>2 DEF Renamed
  <1>4. Places(r)
    BY <1>2 DEF Places
  <1>5. ASSUME NEW c \in Action \cup {NULL}
        PROVE  Renamed(r, id, c) = Renamed(q, id, c)
    BY <1>2 DEF Renamed
  <1> QED
    BY <1>2, <1>3, <1>4, <1>5

LEMMA AliasedIs ==
  ASSUME party \in [Place -> Member], Places(party), NEW id, NEW a \in Action \cup {NULL}
  PROVE  Aliased(id, a) = Renamed(party, id, a)
  <1>1. CASE PlacesOf(id) = {}
    <2>1. Renamed(party, id, a) = party
      BY <1>1 DEF Renamed, PlacesOf
    <2> QED
      BY <1>1, <2>1 DEF Aliased
  <1>2. CASE PlacesOf(id) # {}
    <2>1. PlacesOf(id) \subseteq Nat
      BY DEF PlacesOf, Place
    <2>2. Min(PlacesOf(id)) \in PlacesOf(id)
      BY <1>2, <2>1, MinOf
    <2>3. PICK p \in Place : p = Min(PlacesOf(id)) /\ party[p].use /\ party[p].id = id
      BY <2>2 DEF PlacesOf
    <2>4. \A r \in Place : party[r].use /\ party[r].id = id <=> r = p
      BY <2>3 DEF Places
    <2>5. Aliased(id, a) = [party EXCEPT ![p].ptAct = a]
      BY <1>2, <2>3 DEF Aliased
    <2>6. \A r \in Place : Renamed(party, id, a)[r] = IF r = p THEN [party[r] EXCEPT !.ptAct = a]
                                                      ELSE party[r]
      BY <2>4 DEF Renamed
    <2> QED
      BY <2>5, <2>6 DEF Renamed
  <1> QED
    BY <1>1, <1>2

\* Objects o and the pc own living actions, each its own; the actions' functions
\* f say so; and the places q of the party point to the actions of their own.
Owned(o, pc, live) ==
    /\ \A s \in Slot : o[s].ptAct # NULL => o[s].ptAct \in live /\ o[s].ptAct # pc
    /\ pc # NULL => pc \in live
    /\ \A s, u \in Slot : o[s].ptAct # NULL /\ o[s].ptAct = o[u].ptAct => s = u
Named(o, pc, live, f) ==
    /\ \A a \in live : f[a].does = "charProc" => o[f[a].slot].ptAct = a
    /\ \A s \in Slot : o[s].ptAct # NULL =>
          /\ f[o[s].ptAct].does = "charProc" /\ f[o[s].ptAct].slot = s
          /\ f[o[s].ptAct].item => o[s].id \in Item
    /\ \A a \in live : f[a].does = "pcProc" => pc = a
    /\ pc # NULL => f[pc].does = "pcProc"
Member1(o, s, q) ==
    o[s].ptAct # NULL /\ \E p \in Place : q[p].use /\ q[p].id = o[s].id /\ q[p].ptAct = o[s].ptAct
Together(o, pc, q) ==
    /\ \A s \in Slot : o[s].party <=> Member1(o, s, q)
    /\ \A p \in Place : q[p].ptAct # NULL =>
          /\ q[p].use
          /\ q[p].id = PcId => q[p].ptAct = pc
          /\ q[p].id # PcId => \E s \in Slot : /\ o[s].use /\ o[s].id = q[p].id
                                               /\ o[s].ptAct = q[p].ptAct

LEMMA DeletedOwners ==
  ASSUME NEW o \in [Slot -> Object], NEW s \in Slot, NEW pc, NEW live, NEW f,
         Owned(o, pc, live)
  PROVE  LET n == [o EXCEPT ![s] = NoObject]
         IN /\ Owned(n, pc, live \ {o[s].ptAct})
            /\ f \in [Action -> Funcs] /\ live \subseteq Action /\ Named(o, pc, live, f)
                  => Named(n, pc, live \ {o[s].ptAct}, f)
  <1> DEFINE n == [o EXCEPT ![s] = NoObject]
             rest == live \ {o[s].ptAct}
  <1>1. n[s] = NoObject /\ n[s].ptAct = NULL /\ \A u \in Slot : u # s => n[u] = o[u]
    BY Objects
  <1> HIDE DEF n
  <1>2. pc # NULL => pc # o[s].ptAct
    BY DEF Owned
  <1>3. Owned(n, pc, rest)
    BY <1>1, <1>2 DEF Owned
  <1>4. ASSUME f \in [Action -> Funcs], live \subseteq Action, Named(o, pc, live, f)
        PROVE  Named(n, pc, rest, f)
    <2>1. ASSUME NEW a \in rest, f[a].does = "charProc"
          PROVE  n[f[a].slot].ptAct = a
      <3>1. f[a].slot \in Slot /\ o[f[a].slot].ptAct = a
        BY <1>4, <2>1, Does DEF Named
      <3>2. f[a].slot # s
        BY <2>1, <3>1
      <3> QED
        BY <1>1, <3>1, <3>2
    <2>2. \A u \in Slot : n[u].ptAct # NULL => n[u] = o[u]
      BY <1>1
    <2> QED
      BY <1>4, <2>1, <2>2 DEF Named
  <1> QED
    BY <1>3, <1>4 DEF n

LEMMA DeletedTogether ==
  ASSUME NEW o \in [Slot -> Object], NEW s \in Slot, NEW pc, NEW q \in [Place -> Member],
         Places(q), Together(o, pc, q), o[s].id \in Id,
         \A u \in Slot : o[u].ptAct # NULL /\ o[u].id = o[s].id => u = s
  PROVE  Together([o EXCEPT ![s] = NoObject], pc, Renamed(q, o[s].id, NULL))
  <1> DEFINE n == [o EXCEPT ![s] = NoObject]
             r == Renamed(q, o[s].id, NULL)
  <1>1. n[s] = NoObject /\ n[s].ptAct = NULL /\ ~ n[s].party /\ \A u \in Slot : u # s => n[u] = o[u]
    BY Objects
  <1>2. \A p \in Place : /\ r[p].use = q[p].use /\ r[p].id = q[p].id
                         /\ r[p].ptAct = IF q[p].use /\ q[p].id = o[s].id THEN NULL ELSE q[p].ptAct
    BY RenamedPlaces
  <1> HIDE DEF n, r
  <1>3. ASSUME NEW u \in Slot
        PROVE  n[u].party <=> Member1(n, u, r)
    <2>1. CASE u = s
      BY <1>1, <2>1 DEF Member1
    <2>2. CASE u # s
      <3>1. Member1(n, u, r) <=> Member1(o, u, q)
        BY <1>1, <1>2, <2>2 DEF Member1
      <3> QED
        BY <1>1, <2>2, <3>1 DEF Together
    <2> QED
      BY <2>1, <2>2
  <1>4. ASSUME NEW p \in Place, r[p].ptAct # NULL
        PROVE  /\ r[p].use
               /\ r[p].id = PcId => r[p].ptAct = pc
               /\ r[p].id # PcId => \E u \in Slot : /\ n[u].use /\ n[u].id = r[p].id
                                                    /\ n[u].ptAct = r[p].ptAct
    <2>1. q[p].use /\ q[p].ptAct = r[p].ptAct /\ q[p].ptAct # NULL /\ q[p].id # o[s].id
      BY <1>2, <1>4 DEF Together
    <2>2. CASE q[p].id # PcId
      <3>1. PICK u \in Slot : o[u].use /\ o[u].id = q[p].id /\ o[u].ptAct = q[p].ptAct
        BY <2>1, <2>2 DEF Together
      <3> QED
        BY <1>1, <1>2, <2>1, <2>2, <3>1
    <2> QED
      BY <1>2, <2>1, <2>2 DEF Together
  <1> QED
    BY <1>3, <1>4 DEF Together, n, r

LEMMA AddedOwners ==
  ASSUME NEW o \in [Slot -> Object], NEW s \in Slot, NEW n \in Object, NEW pc, NEW live, NEW f,
         Owned(o, pc, live), live \subseteq Action, n.ptAct \in (Action \ live) \cup {NULL}
  PROVE  LET m == [o EXCEPT ![s] = n]
             more == live \cup ({n.ptAct} \ {NULL})
         IN /\ Owned(m, pc, more)
            /\ /\ f \in [Action -> Funcs] /\ Named(o, pc, live, f) /\ o[s].ptAct = NULL
               => /\ n.ptAct = NULL => Named(m, pc, more, f)
                  /\ \A w \in BOOLEAN : n.ptAct # NULL /\ (w => n.id \in Item)
                        => Named(m, pc, more, [f EXCEPT ![n.ptAct] = CharProc(s, w)])
  <1> DEFINE m == [o EXCEPT ![s] = n]
             more == live \cup ({n.ptAct} \ {NULL})
  <1>1. m[s] = n /\ \A u \in Slot : u # s => m[u] = o[u]
    OBVIOUS
  <1>2. NULL \notin live
    BY ActionAssumption
  <1> HIDE DEF m
  <1>3. Owned(m, pc, more)
    BY <1>1, <1>2 DEF Owned
  <1>4. ASSUME f \in [Action -> Funcs], Named(o, pc, live, f), o[s].ptAct = NULL, n.ptAct = NULL
        PROVE  Named(m, pc, more, f)
    <2>1. more = live
      BY <1>4
    <2>2. ASSUME NEW a \in live, f[a].does = "charProc"
          PROVE  m[f[a].slot].ptAct = a
      <3>1. f[a].slot \in Slot /\ o[f[a].slot].ptAct = a
        BY <1>4, <2>2, Does DEF Named
      <3>2. f[a].slot # s
        BY <1>2, <1>4, <2>2, <3>1
      <3> QED
        BY <1>1, <3>1, <3>2
    <2>3. \A u \in Slot : m[u].ptAct # NULL => m[u] = o[u]
      BY <1>1, <1>4
    <2> QED
      BY <1>4, <2>1, <2>2, <2>3 DEF Named
  <1>5. ASSUME f \in [Action -> Funcs], Named(o, pc, live, f), o[s].ptAct = NULL,
               NEW w \in BOOLEAN, n.ptAct # NULL, w => n.id \in Item
        PROVE  Named(m, pc, more, [f EXCEPT ![n.ptAct] = CharProc(s, w)])
    <2> DEFINE g == [f EXCEPT ![n.ptAct] = CharProc(s, w)]
    <2>1. /\ g[n.ptAct].does = "charProc" /\ g[n.ptAct].slot = s /\ g[n.ptAct].item = w
          /\ \A a \in Action : a # n.ptAct => g[a] = f[a]
      BY <1>5, Does
    <2>2. n.ptAct \in Action \ live
      BY <1>5
    <2> HIDE DEF g
    <2>3. ASSUME NEW a \in more, g[a].does = "charProc"
          PROVE  m[g[a].slot].ptAct = a
      <3>1. CASE a = n.ptAct
        BY <1>1, <2>1, <3>1
      <3>2. CASE a # n.ptAct
        <4>1. a \in live /\ g[a] = f[a] /\ f[a].slot \in Slot /\ o[f[a].slot].ptAct = a
          BY <1>5, <2>1, <2>3, <3>2, Does DEF Named
        <4>2. f[a].slot # s
          BY <1>2, <1>5, <4>1
        <4> QED
          BY <1>1, <4>1, <4>2
      <3> QED
        BY <3>1, <3>2
    <2>4. ASSUME NEW u \in Slot, m[u].ptAct # NULL
          PROVE  /\ g[m[u].ptAct].does = "charProc" /\ g[m[u].ptAct].slot = u
                 /\ g[m[u].ptAct].item => m[u].id \in Item
      <3>1. CASE u = s
        BY <1>1, <1>5, <2>1, <3>1
      <3>2. CASE u # s
        <4>1. m[u] = o[u] /\ o[u].ptAct \in live
          BY <1>1, <2>4, <3>2 DEF Owned
        <4>2. g[o[u].ptAct] = f[o[u].ptAct]
          BY <2>1, <2>2, <4>1
        <4> QED
          BY <1>5, <2>4, <4>1, <4>2 DEF Named
      <3> QED
        BY <3>1, <3>2
    <2>5. ASSUME NEW a \in more, g[a].does = "pcProc"
          PROVE  pc = a
      BY <1>5, <2>1, <2>2, <2>5 DEF Named
    <2>6. pc # NULL => g[pc].does = "pcProc"
      BY <1>5, <2>1, <2>2 DEF Named, Owned
    <2> QED
      BY <2>3, <2>4, <2>5, <2>6 DEF Named, g
  <1> QED
    BY <1>3, <1>4, <1>5 DEF m

\* An object that has just got its action, and its place in the party told.
LEMMA AddedTogether ==
  ASSUME NEW o \in [Slot -> Object], NEW s \in Slot, NEW n \in Object, NEW pc,
         NEW q \in [Place -> Member], Places(q), Together(o, pc, q), o[s].ptAct = NULL,
         n.use, n.id \in Id, n.ptAct # NULL,
         \A u \in Slot : o[u].ptAct # NULL => o[u].id # n.id,
         n.party <=> \E p \in Place : q[p].use /\ q[p].id = n.id
  PROVE  Together([o EXCEPT ![s] = n], pc, Renamed(q, n.id, n.ptAct))
  <1> DEFINE m == [o EXCEPT ![s] = n]
             r == Renamed(q, n.id, n.ptAct)
  <1>1. m[s] = n /\ \A u \in Slot : u # s => m[u] = o[u]
    OBVIOUS
  <1>2. \A p \in Place : /\ r[p].use = q[p].use /\ r[p].id = q[p].id
                         /\ r[p].ptAct = IF q[p].use /\ q[p].id = n.id THEN n.ptAct ELSE q[p].ptAct
    BY RenamedPlaces, Objects
  <1>3. n.id # PcId
    BY CharactersAssumption
  <1> HIDE DEF m, r
  <1>4. ASSUME NEW u \in Slot
        PROVE  m[u].party <=> Member1(m, u, r)
    <2>1. CASE u = s
      <3>1. Member1(m, u, r) <=> \E p \in Place : q[p].use /\ q[p].id = n.id
        BY <1>1, <1>2, <2>1 DEF Member1
      <3> QED
        BY <1>1, <2>1, <3>1
    <2>2. CASE u # s
      <3>1. Member1(m, u, r) <=> Member1(o, u, q)
        BY <1>1, <1>2, <2>2 DEF Member1
      <3> QED
        BY <1>1, <2>2, <3>1 DEF Together
    <2> QED
      BY <2>1, <2>2
  <1>5. ASSUME NEW p \in Place, r[p].ptAct # NULL
        PROVE  /\ r[p].use
               /\ r[p].id = PcId => r[p].ptAct = pc
               /\ r[p].id # PcId => \E u \in Slot : /\ m[u].use /\ m[u].id = r[p].id
                                                    /\ m[u].ptAct = r[p].ptAct
    <2>1. CASE q[p].use /\ q[p].id = n.id
      BY <1>1, <1>2, <1>3, <2>1
    <2>2. CASE ~ (q[p].use /\ q[p].id = n.id)
      <3>1. q[p].use /\ q[p].ptAct = r[p].ptAct /\ q[p].ptAct # NULL
        BY <1>2, <1>5, <2>2 DEF Together
      <3>2. CASE q[p].id # PcId
        <4>1. PICK u \in Slot : o[u].use /\ o[u].id = q[p].id /\ o[u].ptAct = q[p].ptAct
          BY <3>1, <3>2 DEF Together
        <4>2. u # s
          BY <3>1, <4>1
        <4> QED
          BY <1>1, <1>2, <3>1, <3>2, <4>1, <4>2
      <3> QED
        BY <1>2, <3>1, <3>2 DEF Together
    <2> QED
      BY <2>1, <2>2
  <1> QED
    BY <1>4, <1>5 DEF Together, m, r

\* One that is no member of the party, or waits for its action.
LEMMA AddedAlone ==
  ASSUME NEW o \in [Slot -> Object], NEW s \in Slot, NEW n \in Object, NEW pc,
         NEW q \in [Place -> Member], Together(o, pc, q), o[s].ptAct = NULL, ~ n.party,
         \A p \in Place : q[p].ptAct # NULL => q[p].id # n.id
  PROVE  Together([o EXCEPT ![s] = n], pc, q)
  <1> DEFINE m == [o EXCEPT ![s] = n]
  <1>1. m[s] = n /\ \A u \in Slot : u # s => m[u] = o[u]
    OBVIOUS
  <1> HIDE DEF m
  <1>2. ASSUME NEW u \in Slot
        PROVE  m[u].party <=> Member1(m, u, q)
    <2>1. CASE u = s
      BY <1>1, <2>1 DEF Member1
    <2>2. CASE u # s
      BY <1>1, <2>2 DEF Member1, Together
    <2> QED
      BY <2>1, <2>2
  <1>3. ASSUME NEW p \in Place, q[p].ptAct # NULL, q[p].id # PcId
        PROVE  \E u \in Slot : m[u].use /\ m[u].id = q[p].id /\ m[u].ptAct = q[p].ptAct
    <2>1. PICK u \in Slot : o[u].use /\ o[u].id = q[p].id /\ o[u].ptAct = q[p].ptAct
      BY <1>3 DEF Together
    <2> QED
      BY <1>1, <1>3, <2>1
  <1> QED
    BY <1>2, <1>3 DEF Together, m

\* The pc's own action, made or gone: c is what it points to then.
LEMMA PcOwners ==
  ASSUME NEW o, NEW pc, NEW live, NEW f, NEW c \in Action,
         Owned(o, pc, live), live \subseteq Action, c \notin live
  PROVE  /\ pc = NULL => Owned(o, c, live \cup {c})
         /\ pc = NULL /\ f \in [Action -> Funcs] /\ Named(o, pc, live, f)
               => Named(o, c, live \cup {c}, [f EXCEPT ![c] = PcProc])
         /\ Owned(o, NULL, live \ {pc})
         /\ Named(o, pc, live, f) => Named(o, NULL, live \ {pc}, f)
  <1>1. pc = NULL => Owned(o, c, live \cup {c})
    BY DEF Owned
  <1>2. ASSUME pc = NULL, f \in [Action -> Funcs], Named(o, pc, live, f)
        PROVE  Named(o, c, live \cup {c}, [f EXCEPT ![c] = PcProc])
    <2> DEFINE g == [f EXCEPT ![c] = PcProc]
    <2>1. g[c].does = "pcProc" /\ \A a \in Action : a # c => g[a] = f[a]
      BY <1>2, Does
    <2> HIDE DEF g
    <2>2. \A a \in live : g[a] = f[a] /\ a # NULL
      BY <2>1, ActionAssumption
    <2>3. \A s \in Slot : o[s].ptAct # NULL => o[s].ptAct \in live
      BY DEF Owned
    <2> QED
      BY <1>2, <2>1, <2>2, <2>3 DEF Named, g
  <1>3. Owned(o, NULL, live \ {pc})
    BY DEF Owned
  <1>4. Named(o, pc, live, f) => Named(o, NULL, live \ {pc}, f)
    BY DEF Named
  <1> QED
    BY <1>1, <1>2, <1>3, <1>4

LEMMA PcTogether ==
  ASSUME NEW o \in [Slot -> Object], NEW pc, NEW q \in [Place -> Member],
         Places(q), Together(o, pc, q), NEW c \in Action \cup {NULL}
  PROVE  Together(o, c, Renamed(q, PcId, c))
  <1> DEFINE r == Renamed(q, PcId, c)
  <1>1. \A p \in Place : /\ r[p].use = q[p].use /\ r[p].id = q[p].id
                         /\ r[p].ptAct = IF q[p].use /\ q[p].id = PcId THEN c ELSE q[p].ptAct
    BY RenamedPlaces
  <1> HIDE DEF r
  <1>2. ASSUME NEW s \in Slot
        PROVE  Member1(o, s, r) <=> Member1(o, s, q)
    <2>1. o[s].id # PcId
      BY Objects, CharactersAssumption
    <2> QED
      BY <1>1, <2>1 DEF Member1
  <1>3. ASSUME NEW p \in Place, r[p].ptAct # NULL
        PROVE  /\ r[p].use
               /\ r[p].id = PcId => r[p].ptAct = c
               /\ r[p].id # PcId => \E u \in Slot : /\ o[u].use /\ o[u].id = r[p].id
                                                    /\ o[u].ptAct = r[p].ptAct
    <2>1. CASE q[p].use /\ q[p].id = PcId
      BY <1>1, <2>1
    <2>2. CASE ~ (q[p].use /\ q[p].id = PcId)
      BY <1>1, <1>3, <2>2 DEF Together
    <2> QED
      BY <2>1, <2>2
  <1> QED
    BY <1>2, <1>3 DEF Together, r

\* A place in the party that nobody's action goes by learns that there is none.
LEMMA Unnamed ==
  ASSUME NEW q \in [Place -> Member], NEW id,
         \A p \in Place : q[p].use /\ q[p].id = id => q[p].ptAct = NULL
  PROVE  Renamed(q, id, NULL) = q
  <1>1. ASSUME NEW p \in Place
        PROVE  Renamed(q, id, NULL)[p] = q[p]
    <2>1. q[p] \in Member
      OBVIOUS
    <2> QED
      BY <2>1 DEF Renamed, Member
  <1> QED
    BY <1>1 DEF Renamed

\* Other functions, other living actions: what is owned stays the same.
LEMMA OwnersKept ==
  ASSUME NEW o, NEW pc, NEW live, NEW rest, NEW f, NEW g, NEW n,
         Owned(o, pc, live), pc # NULL => pc \in rest,
         \A s \in Slot : /\ o[s].ptAct # NULL => o[s].ptAct \in rest
                         /\ n[s].ptAct = o[s].ptAct /\ n[s].id = o[s].id
  PROVE  /\ Owned(n, pc, rest)
         /\ /\ Named(o, pc, live, f)
            /\ \A a \in live \cap rest : g[a].does = f[a].does
            /\ \A a \in live \cap rest : f[a].does = "charProc" => g[a] = f[a] /\ f[a].slot \in Slot
            /\ \A a \in rest \ live : g[a].does \notin {"charProc", "pcProc"}
            => Named(n, pc, rest, g)
  <1>1. Owned(n, pc, rest)
    BY DEF Owned
  <1>2. ASSUME Named(o, pc, live, f),
               \A a \in live \cap rest : g[a].does = f[a].does,
               \A a \in live \cap rest : f[a].does = "charProc" => g[a] = f[a] /\ f[a].slot \in Slot,
               \A a \in rest \ live : g[a].does \notin {"charProc", "pcProc"}
        PROVE  Named(n, pc, rest, g)
    <2>1. ASSUME NEW a \in rest
          PROVE  /\ g[a].does = "charProc" => n[g[a].slot].ptAct = a
                 /\ g[a].does = "pcProc" => pc = a
      BY <1>2 DEF Named
    <2>2. ASSUME NEW s \in Slot, n[s].ptAct # NULL
          PROVE  /\ g[n[s].ptAct].does = "charProc" /\ g[n[s].ptAct].slot = s
                 /\ g[n[s].ptAct].item => n[s].id \in Item
      <3>1. n[s].ptAct = o[s].ptAct /\ n[s].id = o[s].id /\ o[s].ptAct \in live \cap rest
        BY <2>2 DEF Owned
      <3>2. g[o[s].ptAct] = f[o[s].ptAct]
        BY <1>2, <2>2, <3>1 DEF Named
      <3> QED
        BY <1>2, <2>2, <3>1, <3>2 DEF Named
    <2>3. pc # NULL => g[pc].does = "pcProc"
      BY <1>2 DEF Named, Owned
    <2> QED
      BY <2>1, <2>2, <2>3 DEF Named
  <1> QED
    BY <1>1, <1>2

\* Nothing on the map, and a pc that stays or goes.
LEMMA EmptiedOwners ==
  ASSUME NEW o, NEW pc, NEW live, NEW f, NEW rest, NEW c, NEW n, Owned(o, pc, live),
         rest \subseteq live, c = pc \/ c = NULL, c # NULL => c \in rest,
         pc \in rest => c = pc,
         \A s \in Slot : o[s].ptAct \notin rest /\ n[s].ptAct = NULL
  PROVE  /\ Owned(n, c, rest)
         /\ /\ Named(o, pc, live, f)
            /\ \A a \in live : f[a].does = "charProc" => f[a].slot \in Slot
            => Named(n, c, rest, f)
  <1>1. Owned(n, c, rest)
    BY DEF Owned
  <1>2. ASSUME Named(o, pc, live, f),
               \A a \in live : f[a].does = "charProc" => f[a].slot \in Slot
        PROVE  Named(n, c, rest, f)
    <2>1. \A a \in rest : f[a].does # "charProc"
      BY <1>2 DEF Named
    <2>2. \A a \in rest : f[a].does = "pcProc" => c = a
      BY <1>2 DEF Named
    <2> QED
      BY <1>2, <2>1, <2>2 DEF Named
  <1> QED
    BY <1>1, <1>2

\* An address that is free for each pet that may still turn up.
Reach == Range(list) \cup Pointers
Reserve == Cardinality(Unused(Pointers)) >= Cardinality(Pets \ dead)

\* The living actions of characters: all but those of the pets that walk.
Bodies == {a \in Live : func[a].does # "petProc"}

\* The type invariant, with what functions may be called.
Typed ==
    /\ TableOK(Table) /\ wasFull \in BOOLEAN /\ taken \in BOOLEAN
    /\ pcAct \in Action \cup {NULL} /\ party \in [Place -> Member] /\ screen \in Screens
    /\ func \in [Action -> Funcs] /\ \A a \in Range(list) : func[a].does # "nothing"
    /\ dead \subseteq Range(list)

\* From an encounter to the end of the battle, and logged out, nothing is on
\* the map.
Hidden == screen \in {"encounter", "battle", "out"} =>
    pcAct = NULL /\ \A s \in Slot : ~ obj[s].use /\ obj[s].ptAct = NULL

Agreed ==
    ~ taken =>
        /\ Single(Table, wasFull)
        /\ Named(obj, pcAct, Bodies, func)
        /\ screen # "out" => Together(obj, pcAct, party)

IInv ==
    /\ Linked /\ Typed /\ Owned(obj, pcAct, Bodies) /\ Hidden /\ Reserve /\ Places(party)
    /\ Agreed

LEMMA Facts ==
  ASSUME IInv
  PROVE  /\ list \in Seq(Action) /\ IsInjective(list) /\ Range(list) \subseteq Action
         /\ dead \subseteq Range(list)
         /\ func \in [Action -> Funcs] /\ obj \in [Slot -> Object] /\ party \in [Place -> Member]
         /\ pcAct \in Action \cup {NULL}
         /\ Bodies \subseteq Live /\ Live \subseteq Action
         /\ \A s \in Slot : obj[s] \in Object /\ obj[s].ptAct \in Action \cup {NULL}
         /\ \A a \in Action : func[a] \in Funcs
         /\ \A a \in Action : func[a].does = "charProc" => func[a].slot \in Slot
         /\ \A a \in Action : func[a].does \in {"nothing", "charProc", "pcProc", "petProc"}
         /\ Owned(obj, pcAct, Bodies)
  <1>1. list \in Seq(Action) /\ IsInjective(list)
    BY DEF IInv, Linked
  <1>2. Range(list) \subseteq Action
    BY <1>1, Lies
  <1>3. /\ func \in [Action -> Funcs] /\ obj \in [Slot -> Object] /\ party \in [Place -> Member]
        /\ pcAct \in Action \cup {NULL} /\ dead \subseteq Range(list)
    BY DEF IInv, Typed, TableOK, Table
  <1>4. \A s \in Slot : obj[s] \in Object /\ obj[s].ptAct \in Action \cup {NULL}
    BY <1>3, Objects
  <1>5. \A a \in Action : func[a] \in Funcs
    BY <1>3
  <1>6. Bodies \subseteq Live /\ Live \subseteq Action
    BY <1>2 DEF Bodies, Live
  <1>7. Owned(obj, pcAct, Bodies)
    BY DEF IInv
  <1> QED
    BY <1>1, <1>2, <1>3, <1>4, <1>5, <1>6, <1>7, Does

LEMMA Counts ==
  ASSUME IInv
  PROVE  /\ IsFiniteSet(Action) /\ IsFiniteSet(Unused(Pointers)) /\ IsFiniteSet(Pets)
         /\ Unused(Pointers) = Action \ Reach
         /\ Cardinality(Unused(Pointers)) \in Nat /\ Cardinality(Pets) \in Nat
         /\ IsFiniteSet(Pets \ dead)
         /\ Cardinality(Pets \ dead) \in Nat /\ Cardinality(Pets \ dead) =< Cardinality(Pets)
  <1>1. Unused(Pointers) \subseteq Action /\ Pets \subseteq Action /\ Pets \ dead \subseteq Pets
    BY Facts DEF Unused, Pets
  <1>2. IsFiniteSet(Action)
    BY ActionAssumption
  <1>3. IsFiniteSet(Unused(Pointers)) /\ IsFiniteSet(Pets)
    BY <1>1, <1>2, FS_Subset
  <1>4. IsFiniteSet(Pets \ dead) /\ Cardinality(Pets \ dead) =< Cardinality(Pets)
    BY <1>1, <1>3, FS_Subset
  <1>5. Unused(Pointers) = Action \ Reach
    BY DEF Unused, Reach
  <1> QED
    BY <1>2, <1>3, <1>4, <1>5, FS_CardinalityType

\* A free address, where there is one.
LEMMA NewIs ==
  ASSUME IInv, Cardinality(Unused(Pointers)) > 0
  PROVE  /\ New \in Unused(Pointers) /\ New \in Action /\ New # NULL
         /\ New \notin Range(list) /\ New \notin Pointers /\ New \notin Reach
         /\ New \notin Live /\ New \notin Bodies /\ New \notin dead
  <1>1. Unused(Pointers) # {}
    BY FS_EmptySet
  <1>2. Unused(Pointers) \subseteq Nat
    BY Counts, ActionAssumption
  <1>3. New \in Unused(Pointers)
    BY <1>1, <1>2, MinOf DEF New
  <1>4. New \in Action /\ New \notin Reach /\ New # NULL
    BY <1>3, Counts, ActionAssumption
  <1> QED
    BY <1>3, <1>4, Facts DEF Reach, Live

LEMMA RoomNew ==
  ASSUME IInv, Room
  PROVE  /\ Cardinality(Unused(Pointers)) > 0
         /\ Cardinality(Unused(Pointers)) >= Cardinality(Pets) + 1
  BY Counts DEF Room

\* The addresses a step uses up, and the pets it leaves.
LEMMA Reserved ==
  ASSUME IInv, NEW spent, IsFiniteSet(spent), NEW pets, IsFiniteSet(pets),
         Reach' \subseteq Reach \cup spent \cup {NULL}, (Pets \ dead)' \subseteq pets,
         Cardinality(pets) + Cardinality(spent) =< Cardinality(Unused(Pointers))
  PROVE  Reserve'
  <1> DEFINE U == Unused(Pointers)
             V == Unused(Pointers)'
  <1>1. IsFiniteSet(U) /\ Cardinality(U) \in Nat /\ U = Action \ Reach /\ IsFiniteSet(Action)
    BY Counts
  <1>2. V = Action \ Reach'
    BY DEF Unused, Reach
  <1>3. U \ spent \subseteq V /\ V \subseteq Action
    BY <1>1, <1>2, ActionAssumption
  <1>4. IsFiniteSet(V) /\ Cardinality(V) \in Nat
    BY <1>1, <1>3, FS_Subset, FS_CardinalityType
  <1>5. IsFiniteSet(U \ spent) /\ Cardinality(U \ spent) = Cardinality(U) - Cardinality(U \cap spent)
    BY <1>1, FS_Difference
  <1>6. /\ Cardinality(U \cap spent) \in Nat /\ Cardinality(spent) \in Nat
        /\ Cardinality(U \cap spent) =< Cardinality(spent)
    <2>1. U \cap spent \subseteq spent
      OBVIOUS
    <2> QED
      BY <2>1, FS_Subset, FS_CardinalityType
  <1>7. Cardinality(U \ spent) =< Cardinality(V)
    BY <1>3, <1>4, FS_Subset
  <1>8. Cardinality((Pets \ dead)') =< Cardinality(pets) /\ Cardinality((Pets \ dead)') \in Nat
        /\ Cardinality(pets) \in Nat
    BY FS_Subset, FS_CardinalityType
  <1>9. Cardinality((Pets \ dead)') =< Cardinality(V)
    BY <1>1, <1>4, <1>5, <1>6, <1>7, <1>8
  <1> QED
    BY <1>9 DEF Reserve

LEMMA ReservedAsWas ==
  ASSUME IInv, Reach' \subseteq Reach \cup {NULL}, (Pets \ dead)' \subseteq Pets \ dead
  PROVE  Reserve'
  <1>1. IsFiniteSet({}) /\ Cardinality({}) = 0
    BY FS_EmptySet
  <1>2. IsFiniteSet(Pets \ dead) /\ Cardinality(Pets \ dead) \in Nat
        /\ Cardinality(Pets \ dead) + 0 =< Cardinality(Unused(Pointers))
    BY Counts DEF IInv, Reserve
  <1> QED
    BY <1>1, <1>2, Reserved

LEMMA ReservedNew ==
  ASSUME IInv, NEW pets, IsFiniteSet(pets), Reach' \subseteq Reach \cup {New} \cup {NULL},
         (Pets \ dead)' \subseteq pets,
         Cardinality(pets) + 1 =< Cardinality(Unused(Pointers))
  PROVE  Reserve'
  <1>1. IsFiniteSet({New}) /\ Cardinality({New}) = 1
    BY FS_Singleton
  <1> QED
    BY <1>1, Reserved

\* What a pass does that leaves the owners alone.
LEMMA PassKeeps ==
  ASSUME IInv, UNCHANGED <<table, pcAct, party, screen>>, Linked', Live' \subseteq Live,
         \A a \in Live \ Live' : func[a].does = "petProc",
         dead' \subseteq Range(list)', Range(list)' \subseteq Range(list),
         func' \in [Action -> Funcs], \A a \in Range(list)' : func'[a].does # "nothing",
         \A a \in Live' : func'[a].does = func[a].does,
         \A a \in Live' : func[a].does = "charProc" => func'[a] = func[a]
  PROVE  IInv'
  <1>1. Typed'
    <2>1. UNCHANGED <<Table, wasFull, taken, pcAct, party, screen>>
      BY DEF table, Table
    <2> QED
      BY <2>1 DEF IInv, Typed, TableOK
  <1>2. Bodies' = Bodies
    BY DEF Bodies
  <1>3. Reserve'
    <2>1. Reach' \subseteq Reach
      BY DEF Reach, Pointers, table
    <2>2. (Pets \ dead)' \subseteq Pets \ dead
      BY DEF Pets, Live
    <2> QED
      BY <2>1, <2>2, ReservedAsWas
  <1>4. Hidden' /\ Places(party)' /\ Owned(obj, pcAct, Bodies)'
    BY <1>2 DEF IInv, Hidden, Owned, Places, table
  <1>5. Agreed'
    <2> SUFFICES ASSUME ~ taken
                 PROVE  /\ Single(Table, wasFull)'
                        /\ Named(obj, pcAct, Bodies, func)'
                        /\ (screen # "out" => Together(obj, pcAct, party))'
      BY DEF Agreed, table
    <2>1. /\ Single(Table, wasFull) /\ Named(obj, pcAct, Bodies, func)
          /\ screen # "out" => Together(obj, pcAct, party)
      BY DEF IInv, Agreed
    <2>2. Single(Table, wasFull)'
      BY <2>1 DEF table, Table, Single, Used
    <2>3. (screen # "out" => Together(obj, pcAct, party))'
      BY <2>1 DEF table, Together, Member1
    <2>4. Named(obj, pcAct, Bodies, func')
      <3>1. Bodies \subseteq Live' /\ Bodies \subseteq Action
        BY <1>2, Facts DEF Bodies
      <3>2. \A a \in Bodies : func[a].does = "charProc" => func[a].slot \in Slot
        BY <3>1, Facts
      <3>3. pcAct # NULL => pcAct \in Bodies
        BY Facts DEF Owned
      <3>4. \A s \in Slot : obj[s].ptAct # NULL => obj[s].ptAct \in Bodies
        BY Facts DEF Owned
      <3> QED
        BY <2>1, <3>1, <3>2, <3>3, <3>4, Facts, OwnersKept
    <2> QED
      BY <1>2, <2>2, <2>3, <2>4 DEF table, Named
  <1> QED
    BY <1>1, <1>3, <1>4, <1>5 DEF IInv

LEMMA BeginKeeps ==
  ASSUME IInv, Begin
  PROVE  IInv'
  <1>1. UNCHANGED <<table, pcAct, party, screen, func, list, dead>>
    BY DEF Begin, StartPass
  <1>2. Linked'
    BY BeginLinked DEF IInv, Begin
  <1>3. Live' = Live /\ Range(list)' = Range(list)
    BY <1>1 DEF Live
  <1>4. func' = func /\ dead' = dead
    BY <1>1
  <1>5. \A a \in Range(list) : func[a].does # "nothing"
    BY DEF IInv, Typed
  <1> QED
    BY <1>1, <1>2, <1>3, <1>4, <1>5, Facts, PassKeeps

LEMMA CallPcKeeps ==
  ASSUME IInv, CallPc
  PROVE  IInv'
  <1>1. UNCHANGED <<table, pcAct, party, screen>> /\ UNCHANGED <<func, list, dead>>
    BY DEF CallPc
  <1>2. Linked'
    BY AdvanceLinked DEF IInv, CallPc, Called
  <1>3. Live' = Live /\ Range(list)' = Range(list)
    BY <1>1 DEF Live
  <1>4. func' = func /\ dead' = dead
    BY <1>1
  <1>5. \A a \in Range(list) : func[a].does # "nothing"
    BY DEF IInv, Typed
  <1> QED
    BY <1>1, <1>2, <1>3, <1>4, <1>5, Facts, PassKeeps

LEMMA CallPetKeeps ==
  ASSUME IInv, CallPet
  PROVE  IInv'
  <1>1. UNCHANGED <<table, pcAct, party, screen>> /\ UNCHANGED <<list, dead>>
    BY DEF CallPet
  <1>2. Linked'
    BY AdvanceLinked DEF IInv, CallPet, Called
  <1>3. Live' = Live /\ Range(list)' = Range(list) /\ dead' = dead
    BY <1>1 DEF Live
  <1>4. cursor \in Action /\ func[cursor].does = "petProc" /\ func[cursor].left > 0
    BY Facts, ActionAssumption DEF CallPet, Called, IInv, Linked
  <1>5. func' = [func EXCEPT ![cursor] = [func[cursor] EXCEPT !.left = @ - 1]]
    BY DEF CallPet
  <1>6. [func[cursor] EXCEPT !.left = @ - 1] \in Funcs
        /\ [func[cursor] EXCEPT !.left = @ - 1].does = "petProc"
    <2>1. func[cursor] \in Funcs
      BY <1>4, Facts
    <2>2. PICK id \in Id \cup {NoId}, n \in Nat : func[cursor] = PetProc(id, n)
      BY <1>4, <2>1, Does DEF Funcs
    <2>3. func[cursor].left = n /\ n > 0
      BY <1>4, <2>2, Does
    <2>4. [func[cursor] EXCEPT !.left = @ - 1] = PetProc(id, n - 1) /\ n - 1 \in Nat
      BY <2>2, <2>3 DEF PetProc
    <2>5. PetProc(id, n - 1) \in Funcs /\ PetProc(id, n - 1).does = "petProc"
      BY <2>4, Does
    <2> QED
      BY <2>4, <2>5
  <1>7. func' \in [Action -> Funcs] /\ func'[cursor].does = "petProc"
        /\ \A a \in Action : a # cursor => func'[a] = func[a]
    BY <1>4, <1>5, <1>6, Facts
  <1>8. \A a \in Range(list) : func'[a].does # "nothing"
    BY <1>4, <1>7, Facts DEF IInv, Typed
  <1>9. \A a \in Live : /\ func'[a].does = func[a].does
                        /\ func[a].does = "charProc" => func'[a] = func[a]
    BY <1>4, <1>7, Facts
  <1> QED
    BY <1>1, <1>2, <1>3, <1>7, <1>8, <1>9, Facts, PassKeeps

LEMMA FreeActionKeeps ==
  ASSUME IInv, FreeAction
  PROVE  IInv'
  <1>1. UNCHANGED <<table, pcAct, party, screen>> /\ Free
        /\ func' = [func EXCEPT ![cursor] = NoFunc] /\ dead' = dead \ {cursor} /\ cursor \in dead
    BY DEF FreeAction, Free
  <1>2. Linked' /\ Range(list)' = Range(list) \ {cursor} /\ cursor \in Range(list)
    BY <1>1, Facts, FreeLinked DEF IInv
  <1>3. Live' = Live
    BY <1>1, <1>2 DEF Live
  <1>4. func' \in [Action -> Funcs] /\ \A a \in Action : a # cursor => func'[a] = func[a]
    BY <1>1, <1>2, Facts, Does
  <1>5. \A a \in Live : a \in Action /\ a # cursor
    BY <1>1, Facts DEF Live
  <1>6. \A a \in Range(list)' : func'[a].does # "nothing"
    BY <1>2, <1>4, Facts DEF IInv, Typed
  <1>7. dead' \subseteq Range(list)' /\ Range(list)' \subseteq Range(list)
    BY <1>1, <1>2, Facts
  <1> QED
    BY <1>1, <1>2, <1>3, <1>4, <1>5, <1>6, <1>7, Facts, PassKeeps

\* An object deleted, its action marked; the table is searched below tail.
LEMMA Found ==
  ASSUME IInv, NEW id, SlotsOf(id) # {}
  PROVE  /\ SlotOf(id) \in Slot /\ obj[SlotOf(id)].use /\ obj[SlotOf(id)].id = id
         /\ ActOf(id) = obj[SlotOf(id)].ptAct
  BY DEF SlotOf, SlotsOf, ActOf

LEMMA NotFound ==
  ASSUME IInv, NEW id, SlotsOf(id) = {}
  PROVE  /\ ActOf(id) = NULL
         /\ ~ taken => \A s \in Slot : obj[s].use => obj[s].id # id
  <1>1. ASSUME ~ taken, NEW s \in Slot, obj[s].use
        PROVE  obj[s].id # id
    <2>1. s < tail
      BY <1>1 DEF IInv, Agreed, Single, Table
    <2> QED
      BY <1>1, <2>1 DEF SlotsOf
  <1> QED
    BY <1>1 DEF ActOf

\* Above all, of the objects that are not in use nothing points anywhere.
LEMMA InUse ==
  ASSUME IInv, ~ taken, NEW s \in Slot
  PROVE  /\ ~ obj[s].use => obj[s] = NoObject
         /\ obj[s].ptAct # NULL \/ obj[s].party => obj[s].use
         /\ obj[s].use => obj[s].id \in Id
         /\ \A u \in Slot : obj[s].use /\ obj[u].use /\ obj[s].id = obj[u].id => s = u
  <1>1. Single(Table, wasFull) /\ Table.obj = obj
    BY DEF IInv, Agreed, Table
  <1> QED
    BY <1>1, Objects DEF Single

\* A handler between its halves: what id names is off the table t, its action
\* is marked.
Halfway(t, id, marked) ==
    /\ TableOK(t) /\ marked \subseteq Range(list)
    /\ Owned(t.obj, pcAct, Bodies \ marked)
    /\ \A s \in Slot : /\ t.obj[s].ptAct \in {obj[s].ptAct, NULL}
                       /\ t.obj[s].use => obj[s].use
    /\ ~ taken => /\ Single(t, wasFull)
                  /\ Named(t.obj, pcAct, Bodies \ marked, func)
                  /\ \A s \in Slot : t.obj[s].use => t.obj[s].id # id
                  /\ screen # "out" => Together(t.obj, pcAct, Renamed(party, id, NULL))

LEMMA Untouched ==
  ASSUME IInv, NEW id \in Id \cup {NoId}, ~ taken, screen # "out", SlotsOf(id) = {}
  PROVE  Renamed(party, id, NULL) = party
  <1>1. Together(obj, pcAct, party)
    BY DEF IInv, Agreed
  <1>2. ASSUME NEW p \in Place, party[p].use, party[p].id = id, party[p].ptAct # NULL
        PROVE  FALSE
    <2>1. \E s \in Slot : obj[s].use /\ obj[s].id = id
      BY <1>1, <1>2, CharactersAssumption DEF Together
    <2> QED
      BY <2>1, NotFound
  <1> QED
    BY <1>2, Facts, Unnamed

LEMMA Deletion ==
  ASSUME IInv, NEW id \in Id \cup {NoId}
  PROVE  Halfway(IF SlotsOf(id) = {} THEN Table ELSE Deleted(Table, SlotOf(id)), id,
                 {ActOf(id)} \ {NULL})
  <1> DEFINE t == IF SlotsOf(id) = {} THEN Table ELSE Deleted(Table, SlotOf(id))
             s == SlotOf(id)
             marked == {ActOf(id)} \ {NULL}
  <1>1. TableOK(Table) /\ Table.obj = obj /\ wasFull \in BOOLEAN
    BY DEF IInv, Typed, Table
  <1>2. TableOK(t)
    BY <1>1, Found, DeletedTable
  <1>3. marked \subseteq Range(list)
    BY Found, NotFound, Facts DEF Owned, Live
  <1>4. CASE SlotsOf(id) = {}
    <2>1. t = Table /\ marked = {} /\ Bodies \ marked = Bodies
      BY <1>4, NotFound
    <2> HIDE DEF t, marked
    <2>2. \A u \in Slot : t.obj[u].use => obj[u].use
      BY <1>1, <2>1
    <2>3. ASSUME ~ taken
          PROVE  /\ Single(t, wasFull) /\ Named(t.obj, pcAct, Bodies \ marked, func)
                 /\ \A u \in Slot : t.obj[u].use => t.obj[u].id # id
                 /\ screen # "out" => Together(t.obj, pcAct, Renamed(party, id, NULL))
      BY <1>1, <1>4, <2>1, <2>3, NotFound, Untouched DEF IInv, Agreed
    <2> QED
      BY <1>1, <1>2, <1>3, <2>1, <2>2, <2>3, Facts DEF Halfway, t, marked
  <1>5. CASE SlotsOf(id) # {}
    <2>1. s \in Slot /\ obj[s].use /\ obj[s].id = id /\ ActOf(id) = obj[s].ptAct
      BY <1>5, Found
    <2>2. t.obj = [obj EXCEPT ![s] = NoObject]
      BY <1>1, <1>5, <2>1, DeletedTable
    <2>3. Bodies \ marked = Bodies \ {obj[s].ptAct}
      BY <2>1, Facts, ActionAssumption
    <2>4. t = Deleted(Table, s)
      BY <1>5
    <2> HIDE DEF t, s, marked
    <2>5. \A u \in Slot : /\ t.obj[u].ptAct \in {obj[u].ptAct, NULL}
                          /\ t.obj[u].use => obj[u].use /\ u # s /\ t.obj[u] = obj[u]
      BY <2>1, <2>2, Facts, Objects
    <2>6. Owned(t.obj, pcAct, Bodies \ marked)
      <3>1. Owned([obj EXCEPT ![s] = NoObject], pcAct, Bodies \ {obj[s].ptAct})
        BY <2>1, Facts, DeletedOwners
      <3> QED
        BY <2>2, <2>3, <3>1
    <2>7. ASSUME ~ taken
          PROVE  /\ Single(t, wasFull) /\ Named(t.obj, pcAct, Bodies \ marked, func)
                 /\ \A u \in Slot : t.obj[u].use => t.obj[u].id # id
                 /\ screen # "out" => Together(t.obj, pcAct, Renamed(party, id, NULL))
      <3>1. /\ Single(Table, wasFull) /\ Named(obj, pcAct, Bodies, func)
            /\ screen # "out" => Together(obj, pcAct, party)
        BY <2>7 DEF IInv, Agreed
      <3>2. Single(t, wasFull)
        BY <1>1, <2>1, <2>4, <3>1, DeletedTable
      <3>3. Named(t.obj, pcAct, Bodies \ marked, func)
        <4>1. Named([obj EXCEPT ![s] = NoObject], pcAct, Bodies \ {obj[s].ptAct}, func)
          BY <2>1, <3>1, Facts, DeletedOwners
        <4> QED
          BY <2>2, <2>3, <4>1
      <3>4. ASSUME NEW u \in Slot, t.obj[u].use
            PROVE  t.obj[u].id # id
        <4>1. obj[u].use /\ u # s /\ t.obj[u] = obj[u]
          BY <2>5, <3>4
        <4>2. obj[s].id = obj[u].id => s = u
          BY <2>1, <2>7, <4>1, InUse
        <4> QED
          BY <2>1, <4>1, <4>2
      <3>5. ASSUME screen # "out"
            PROVE  Together(t.obj, pcAct, Renamed(party, id, NULL))
        <4>1. id \in Id /\ \A u \in Slot : obj[u].ptAct # NULL /\ obj[u].id = id => u = s
          BY <2>1, <2>7, InUse
        <4>2. Together([obj EXCEPT ![s] = NoObject], pcAct, Renamed(party, obj[s].id, NULL))
          BY <2>1, <3>1, <3>5, <4>1, Facts, DeletedTogether DEF IInv
        <4> QED
          BY <2>1, <2>2, <4>2
      <3> QED
        BY <3>2, <3>3, <3>4, <3>5
    <2>8. \A u \in Slot : t.obj[u].ptAct \in {obj[u].ptAct, NULL} /\ (t.obj[u].use => obj[u].use)
      BY <2>5
    <2>9. Halfway(t, id, marked)
      BY <1>2, <1>3, <2>6, <2>7, <2>8 DEF Halfway
    <2> QED
      BY <2>9 DEF t, marked
  <1> QED
    BY <1>4, <1>5

\* Nothing but that.
LEMMA DeletionKeeps ==
  ASSUME IInv, NEW id \in Id \cup {NoId}, Mark({ActOf(id)}),
         Becomes(IF SlotsOf(id) = {} THEN Table ELSE Deleted(Table, SlotOf(id))),
         UNCHANGED <<list, func, pcAct, screen>>, Linked',
         party' \in [Place -> Member], Places(party'),
         \A p \in Place : party'[p].ptAct \in {party[p].ptAct, NULL},
         ~ taken => party' = Renamed(party, id, NULL)
  PROVE  IInv'
  <1> DEFINE t == IF SlotsOf(id) = {} THEN Table ELSE Deleted(Table, SlotOf(id))
             marked == {ActOf(id)} \ {NULL}
  <1>1. Halfway(t, id, marked)
    BY Deletion
  <1>2. /\ obj' = t.obj /\ count' = t.count /\ freeSlot' = t.free /\ tail' = t.tail
        /\ wasFull' = (wasFull \/ Used(t) = Slot) /\ taken' = taken
    BY DEF Becomes
  <1>3. dead' = dead \cup marked /\ Range(list)' = Range(list)
    BY DEF Mark
  <1> HIDE DEF t, marked
  <1>4. /\ Table'.obj = t.obj /\ Table'.count = t.count /\ Table'.free = t.free
        /\ Table'.tail = t.tail
    BY <1>2 DEF Table
  <1>5. Live' = Live \ marked /\ Bodies' = Bodies \ marked
    BY <1>3 DEF Live, Bodies
  <1>6. Typed'
    <2>1. TableOK(Table)'
      BY <1>1, <1>4 DEF Halfway, TableOK
    <2>2. wasFull' \in BOOLEAN /\ taken' \in BOOLEAN
      BY <1>2 DEF IInv, Typed
    <2>3. dead' \subseteq Range(list)'
      BY <1>1, <1>3, Facts DEF Halfway
    <2> QED
      BY <1>3, <2>1, <2>2, <2>3 DEF IInv, Typed
  <1>7. Owned(obj, pcAct, Bodies)'
    BY <1>1, <1>2, <1>5 DEF Halfway, Owned
  <1>8. Hidden'
    BY <1>1, <1>2 DEF Halfway, IInv, Hidden
  <1>9. Reserve'
    <2>1. \A s \in Slot : obj'[s].ptAct \in {obj[s].ptAct, NULL}
      BY <1>1, <1>2 DEF Halfway
    <2>2. Pointers' \subseteq Pointers \cup {NULL}
      BY <2>1 DEF Pointers
    <2>3. Reach' \subseteq Reach \cup {NULL}
      BY <1>3, <2>2 DEF Reach
    <2>4. (Pets \ dead)' \subseteq Pets \ dead
      BY <1>3 DEF Pets
    <2> QED
      BY <2>3, <2>4, ReservedAsWas
  <1>10. Agreed'
    <2> SUFFICES ASSUME ~ taken
                 PROVE  /\ Single(Table, wasFull)'
                        /\ Named(obj, pcAct, Bodies, func)'
                        /\ (screen # "out" => Together(obj, pcAct, party))'
      BY <1>2 DEF Agreed
    <2>1. /\ Single(t, wasFull) /\ Named(t.obj, pcAct, Bodies \ marked, func)
          /\ screen # "out" => Together(t.obj, pcAct, party')
      BY <1>1 DEF Halfway
    <2>2. Used(Table)' = Used(t)
      BY <1>4 DEF Used
    <2>3. Single(Table, wasFull)'
      BY <1>2, <1>4, <2>1, <2>2 DEF Single
    <2> QED
      BY <1>2, <1>5, <2>1, <2>3 DEF Named, Together, Member1
  <1> QED
    BY <1>6, <1>7, <1>8, <1>9, <1>10 DEF IInv

LEMMA CallCharKeeps ==
  ASSUME IInv, CallChar
  PROVE  IInv'
  <1>1. /\ cursor # NULL /\ cursor \notin dead /\ func[cursor].does = "charProc"
        /\ UNCHANGED <<list, func, pcAct, party, screen>> /\ Advance
    BY DEF CallChar, Called
  <1>2. Linked'
    BY <1>1, AdvanceLinked DEF IInv
  <1>3. CASE UNCHANGED <<dead, table>>
    <2>1. Live' = Live /\ Range(list)' = Range(list) /\ func' = func /\ dead' = dead
      BY <1>1, <1>3 DEF Live
    <2>2. \A a \in Range(list) : func[a].does # "nothing"
      BY DEF IInv, Typed
    <2>3. UNCHANGED <<table, pcAct, party, screen>>
      BY <1>1, <1>3
    <2> QED
      BY <1>2, <2>1, <2>2, <2>3, Facts, PassKeeps
  <1>4. ASSUME NEW id, id = obj[func[cursor].slot].id, func[cursor].item, Mark({ActOf(id)}),
               Becomes(IF SlotsOf(id) = {} THEN Table ELSE Deleted(Table, SlotOf(id)))
        PROVE  IInv'
    <2>1. cursor \in Bodies /\ cursor \in Action
      <3>1. cursor \in Range(list)
        BY <1>1 DEF IInv, Linked, PassSound
      <3> QED
        BY <1>1, <3>1, Facts DEF Bodies, Live
    <2>2. func[cursor].slot \in Slot
      BY <1>1, <2>1, Facts
    <2>3. id \in Id \cup {NoId}
      BY <1>4, <2>2, Facts, Objects
    <2>4. ASSUME ~ taken
          PROVE  party' = Renamed(party, id, NULL)
      <3>1. id \in Item
        <4>1. /\ obj[func[cursor].slot].ptAct = cursor
              /\ obj[func[cursor].slot].ptAct # NULL
          BY <1>1, <2>1, <2>4 DEF IInv, Agreed, Named
        <4> QED
          BY <1>4, <2>2, <2>4, <4>1 DEF IInv, Agreed, Named
      <3>2. \A p \in Place : party[p].use => party[p].id # id
        BY <3>1, CharactersAssumption DEF IInv, Places, Id
      <3>3. Renamed(party, id, NULL) = party
        BY <3>2, Facts, Unnamed
      <3> QED
        BY <1>1, <3>3
    <2>5. /\ party' \in [Place -> Member] /\ Places(party')
          /\ \A p \in Place : party'[p].ptAct \in {party[p].ptAct, NULL}
      BY <1>1, Facts DEF IInv
    <2>6. UNCHANGED <<list, func, pcAct, screen>>
      BY <1>1
    <2> QED
      BY <1>2, <1>4, <2>3, <2>4, <2>5, <2>6, DeletionKeeps
  <1> QED
    BY <1>3, <1>4 DEF CallChar

\* The own character: its action is made or marked, the party told.
LEMMA PcGoesKeeps ==
  ASSUME IInv, cursor = NULL, Mark({pcAct}), pcAct' = NULL, party' = Aliased(PcId, NULL),
         UNCHANGED <<table, list, cursor, ran, func, screen>>
  PROVE  IInv'
  <1>1. party' = Renamed(party, PcId, NULL)
    BY Facts, AliasedIs DEF IInv
  <1>2. /\ party' \in [Place -> Member] /\ Places(party')
        /\ \A p \in Place : party'[p].ptAct \in {party[p].ptAct, NULL}
    BY <1>1, Facts, RenamedPlaces DEF IInv
  <1>3. UNCHANGED <<list, cursor, ran, func, screen, obj, Table, wasFull, taken>>
    BY DEF table, Table
  <1>4. dead' = dead \cup ({pcAct} \ {NULL}) /\ Range(list)' = Range(list)
    BY <1>3 DEF Mark
  <1>5. pcAct # NULL => pcAct \in Bodies /\ pcAct \in Range(list)
    BY Facts DEF Owned, Live
  <1>6. Bodies' = Bodies \ {pcAct}
    <2>1. NULL \notin Live
      BY Facts, ActionAssumption
    <2> QED
      BY <1>3, <1>4, <2>1 DEF Live, Bodies
  <1>7. Linked'
    <2>1. list' \in Seq(Action) /\ IsInjective(list')
      BY <1>3, Facts
    <2> QED
      BY <1>3, <2>1, RestLinked DEF IInv
  <1>8. Typed'
    <2>1. dead' \subseteq Range(list)'
      BY <1>4, <1>5, Facts
    <2> QED
      BY <1>2, <1>3, <1>4, <2>1 DEF IInv, Typed, TableOK
  <1>9. Hidden'
    BY <1>3 DEF IInv, Hidden
  <1>10. Reserve'
    <2>1. Pointers' \subseteq Pointers \cup {NULL}
      BY <1>2, <1>3 DEF Pointers
    <2>2. Reach' \subseteq Reach \cup {NULL}
      BY <1>4, <2>1 DEF Reach
    <2>3. (Pets \ dead)' \subseteq Pets \ dead
      BY <1>3, <1>4 DEF Pets
    <2> QED
      BY <2>2, <2>3, ReservedAsWas
  <1>11. /\ Owned(obj, NULL, Bodies \ {pcAct})
         /\ Named(obj, pcAct, Bodies, func) => Named(obj, NULL, Bodies \ {pcAct}, func)
    BY Facts DEF Owned, Named
  <1>12. Owned(obj, pcAct, Bodies)'
    BY <1>3, <1>6, <1>11 DEF Owned
  <1>13. Agreed'
    <2> SUFFICES ASSUME ~ taken
                 PROVE  /\ Single(Table, wasFull)'
                        /\ Named(obj, pcAct, Bodies, func)'
                        /\ (screen # "out" => Together(obj, pcAct, party))'
      BY <1>3 DEF Agreed
    <2>1. /\ Single(Table, wasFull) /\ Named(obj, pcAct, Bodies, func)
          /\ screen # "out" => Together(obj, pcAct, party)
      BY DEF IInv, Agreed
    <2>2. Single(Table, wasFull)'
      BY <1>3, <2>1 DEF Single, Used
    <2>3. Named(obj', pcAct', Bodies', func')
      BY <1>3, <1>6, <1>11, <2>1
    <2>4. screen # "out" => Together(obj, NULL, party')
      BY <1>1, <2>1, Facts, PcTogether DEF IInv
    <2> QED
      BY <1>3, <2>2, <2>3, <2>4 DEF Named, Together, Member1
  <1> QED
    BY <1>2, <1>7, <1>8, <1>9, <1>10, <1>12, <1>13 DEF IInv

LEMMA CD_recvKeeps ==
  ASSUME IInv, NEW id \in Id \cup {PcId}, CD_recv(id)
  PROVE  IInv'
  <1>1. cursor = NULL /\ UNCHANGED <<list, cursor, ran, func, screen>>
    BY DEF CD_recv, Handling
  <1>2. CASE id = PcId
    <2>1. /\ Mark({pcAct}) /\ pcAct' = NULL /\ party' = Aliased(PcId, NULL) /\ UNCHANGED table
      BY <1>2 DEF CD_recv
    <2> QED
      BY <1>1, <2>1, PcGoesKeeps
  <1>3. CASE id # PcId
    <2>1. /\ Mark({ActOf(id)}) /\ party' = Aliased(id, NULL) /\ pcAct' = pcAct
          /\ Becomes(IF SlotsOf(id) = {} THEN Table ELSE Deleted(Table, SlotOf(id)))
      BY <1>3 DEF CD_recv
    <2>2. party' = Renamed(party, id, NULL)
      BY <2>1, Facts, AliasedIs DEF IInv
    <2>3. /\ party' \in [Place -> Member] /\ Places(party')
          /\ \A p \in Place : party'[p].ptAct \in {party[p].ptAct, NULL}
      BY <2>2, Facts, RenamedPlaces DEF IInv
    <2>4. Linked'
      <3>1. list' \in Seq(Action) /\ IsInjective(list')
        BY <1>1, Facts
      <3> QED
        BY <1>1, <3>1, RestLinked DEF IInv
    <2>5. id \in Id \cup {NoId} /\ UNCHANGED <<list, func, pcAct, screen>>
      BY <1>1, <1>3, <2>1
    <2> QED
      BY <2>1, <2>2, <2>3, <2>4, <2>5, DeletionKeeps
  <1> QED
    BY <1>2, <1>3

\* A new action at the end of the list, between two passes.
LEMMA Hired ==
  ASSUME IInv, cursor = NULL, UNCHANGED <<cursor, ran>>, Cardinality(Unused(Pointers)) > 0,
         list' = GetAction(New), NEW marked, marked \subseteq Range(list),
         dead' = dead \cup marked, NEW f \in Funcs, f.does # "nothing",
         func' = [func EXCEPT ![New] = f]
  PROVE  /\ Linked' /\ Range(list)' = Range(list) \cup {New} /\ dead' \subseteq Range(list)'
         /\ func' \in [Action -> Funcs] /\ \A a \in Range(list)' : func'[a].does # "nothing"
         /\ f.does # "petProc" => /\ Bodies' = (Bodies \ marked) \cup {New}
                                  /\ (Pets \ dead)' \subseteq Pets
         /\ f.does = "petProc" => /\ Bodies' = Bodies \ marked
                                  /\ (Pets \ dead)' \subseteq Pets \cup {New}
         /\ \A a \in Range(list) : func'[a] = func[a]
  <1>1. New \in Action /\ New \notin Range(list)
    BY NewIs
  <1>2. list' \in Seq(Action) /\ IsInjective(list') /\ Range(list)' = Range(list) \cup {New}
    <2>1. list' = Append(list, New)
      BY DEF GetAction
    <2> QED
      BY <1>1, <2>1, Facts, Appended
  <1>3. Linked'
    BY <1>2, RestLinked DEF IInv
  <1>4. /\ func' \in [Action -> Funcs] /\ func'[New] = f
        /\ \A a \in Action : a # New => func'[a] = func[a]
    BY <1>1, Facts
  <1>5. \A a \in Range(list) : func'[a] = func[a]
    BY <1>1, <1>4, Facts
  <1>6. \A a \in Range(list)' : func'[a].does # "nothing"
    BY <1>2, <1>4, <1>5 DEF IInv, Typed
  <1>7. dead' \subseteq Range(list)' /\ New \notin dead'
    BY <1>1, <1>2, Facts
  <1>8. Live' = (Live \ marked) \cup {New}
    BY <1>2, <1>7 DEF Live
  <1>9. Bodies' = {a \in Live' : func'[a].does # "petProc"}
    BY DEF Bodies
  <1>10. \A a \in Live : func'[a] = func[a]
    BY <1>5 DEF Live
  <1>11. (Pets \ dead)' = {a \in Live' : func'[a].does = "petProc"}
    BY DEF Pets, Live
  <1>12. {a \in Live : func[a].does = "petProc"} \subseteq Pets
    BY DEF Pets, Live
  <1>13. ASSUME f.does # "petProc"
         PROVE  Bodies' = (Bodies \ marked) \cup {New} /\ (Pets \ dead)' \subseteq Pets
    BY <1>4, <1>8, <1>9, <1>10, <1>11, <1>12, <1>13 DEF Bodies
  <1>14. ASSUME f.does = "petProc"
         PROVE  Bodies' = Bodies \ marked /\ (Pets \ dead)' \subseteq Pets \cup {New}
    BY <1>4, <1>8, <1>9, <1>10, <1>11, <1>12, <1>14 DEF Bodies
  <1> QED
    BY <1>2, <1>3, <1>4, <1>5, <1>6, <1>7, <1>13, <1>14

\* A new object with its action, what was there before deleted.
LEMMA AdditionKeeps ==
  ASSUME IInv, Seeing, Room, NEW id \in Id, NEW b \in BOOLEAN, NEW w \in BOOLEAN, NEW t, NEW marked,
         Halfway(t, id, marked), ~ Full(t), dead' = dead \cup marked,
         BecomesWith(t, id, New, b), list' = GetAction(New),
         func' = [func EXCEPT ![New] = CharProc(t.free, w)], w => id \in Item,
         UNCHANGED <<cursor, ran, pcAct, screen>>,
         party' \in [Place -> Member], Places(party'),
         \A p \in Place : party'[p].ptAct \in {party[p].ptAct, New},
         ~ taken => /\ party' = Renamed(party, id, New)
                    /\ b <=> \E p \in Place : party[p].use /\ party[p].id = id
  PROVE  IInv'
  <1> DEFINE u == Added(t, id, New, b)
             n == [use |-> TRUE, id |-> id, ptAct |-> New, party |-> t.obj[t.free].party \/ b]
             rest == Bodies \ marked
  <1>1. /\ obj' = u.obj /\ count' = u.count /\ freeSlot' = u.free /\ tail' = u.tail
        /\ wasFull' = (wasFull \/ Used(u) = Slot) /\ taken' = (taken \/ t.obj[t.free].use)
    BY DEF BecomesWith
  <1>2. TableOK(t) /\ t.free \in Slot /\ t.obj \in [Slot -> Object]
    BY DEF Halfway, TableOK
  <1>3. New \in Action /\ New # NULL /\ New \notin Bodies /\ Cardinality(Unused(Pointers)) > 0
    BY RoomNew, NewIs
  <1>4. TableOK(u) /\ obj' = [t.obj EXCEPT ![t.free] = n]
    BY <1>1, <1>2, <1>3, AddedTable
  <1>5. n \in Object /\ n.use /\ n.id = id /\ n.ptAct = New /\ n.party = (t.obj[t.free].party \/ b)
    <2>1. (t.obj[t.free].party \/ b) \in BOOLEAN
      OBVIOUS
    <2> QED
      BY <1>3, <2>1, NewObject
  <1>6. /\ CharProc(t.free, w) \in Funcs /\ CharProc(t.free, w).does = "charProc"
    BY <1>2, Does
  <1>7. marked \subseteq Range(list)
    BY DEF Halfway
  <1>8. /\ Linked' /\ Range(list)' = Range(list) \cup {New} /\ dead' \subseteq Range(list)'
        /\ func' \in [Action -> Funcs] /\ \A a \in Range(list)' : func'[a].does # "nothing"
        /\ Bodies' = rest \cup {New} /\ (Pets \ dead)' \subseteq Pets
    BY <1>3, <1>6, <1>7, Hired DEF Seeing, Handling
  <1> HIDE DEF u, n
  <1>9. /\ Table'.obj = u.obj /\ Table'.count = u.count /\ Table'.free = u.free
        /\ Table'.tail = u.tail
    BY <1>1 DEF Table
  <1>10. Typed'
    <2>1. TableOK(Table)'
      BY <1>4, <1>9 DEF TableOK
    <2>2. wasFull' \in BOOLEAN /\ taken' \in BOOLEAN
      <3>1. t.obj[t.free].use \in BOOLEAN /\ wasFull \in BOOLEAN /\ taken \in BOOLEAN
        BY <1>2, Objects DEF IInv, Typed
      <3> QED
        BY <1>1, <3>1
    <2> QED
      BY <1>8, <2>1, <2>2 DEF IInv, Typed
  <1>11. rest \subseteq Action /\ Owned(t.obj, pcAct, rest) /\ n.ptAct \in (Action \ rest) \cup {NULL}
         /\ rest \cup ({n.ptAct} \ {NULL}) = rest \cup {New}
    BY <1>3, <1>5, Facts DEF Halfway
  <1> HIDE DEF rest
  <1>12. Owned([t.obj EXCEPT ![t.free] = n], pcAct, rest \cup ({n.ptAct} \ {NULL}))
    BY <1>2, <1>5, <1>11, AddedOwners
  <1>13. Owned(obj, pcAct, Bodies)'
    BY <1>4, <1>8, <1>11, <1>12 DEF Owned
  <1>14. Hidden'
    BY DEF Seeing, Handling, Hidden
  <1>15. Reserve'
    <2>1. \A s \in Slot : t.obj[s].ptAct \in {obj[s].ptAct, NULL}
      BY DEF Halfway
    <2>2. \A s \in Slot : obj'[s].ptAct \in {obj[s].ptAct, NULL, New}
      BY <1>2, <1>4, <1>5, <2>1
    <2>3. Pointers' \subseteq Pointers \cup {New} \cup {NULL}
      BY <2>2 DEF Pointers
    <2>4. Reach' \subseteq Reach \cup {New} \cup {NULL}
      BY <1>8, <2>3 DEF Reach
    <2>5. Cardinality(Pets) + 1 =< Cardinality(Unused(Pointers)) /\ IsFiniteSet(Pets)
      BY RoomNew, Counts
    <2> QED
      BY <1>8, <2>4, <2>5, ReservedNew
  <1>16. Agreed'
    <2> SUFFICES ASSUME ~ taken, ~ t.obj[t.free].use
                 PROVE  /\ Single(Table, wasFull)'
                        /\ Named(obj, pcAct, Bodies, func)'
                        /\ Together(obj, pcAct, party)'
      BY <1>1 DEF Agreed
    <2>1. /\ Single(t, wasFull) /\ Named(t.obj, pcAct, rest, func)
          /\ \A s \in Slot : t.obj[s].use => t.obj[s].id # id
          /\ Together(t.obj, pcAct, Renamed(party, id, NULL))
      BY DEF Halfway, Seeing, Handling, rest
    <2>2. t.obj[t.free] = NoObject /\ t.obj[t.free].ptAct = NULL /\ ~ t.obj[t.free].party
      BY <1>2, <2>1, Objects DEF Single
    <2>3. Single(Table, wasFull)'
      <3>1. Single(u, wasFull \/ Used(u) = Slot)
        <4>1. wasFull \in BOOLEAN
          BY DEF IInv, Typed
        <4>2. New \in Action \cup {NULL} /\ TableOK(t)
          BY <1>2, <1>3
        <4>3. Single(Added(t, id, New, b), wasFull \/ Used(Added(t, id, New, b)) = Slot)
          BY <2>1, <4>1, <4>2, AddedSingle
        <4> QED
          BY <4>3 DEF u
      <3>2. Used(Table)' = Used(u)
        BY <1>9 DEF Used
      <3> QED
        BY <1>1, <1>9, <3>1, <3>2 DEF Single
    <2>4. Named([t.obj EXCEPT ![t.free] = n], pcAct, rest \cup ({n.ptAct} \ {NULL}),
                [func EXCEPT ![n.ptAct] = CharProc(t.free, w)])
      BY <1>2, <1>3, <1>5, <1>11, <2>1, <2>2, Facts, AddedOwners
    <2>5. Named(obj', pcAct, Bodies', func')
      BY <1>4, <1>5, <1>8, <1>11, <2>4
    <2>6. Together(obj', pcAct, party')
      <3> DEFINE q == Renamed(party, id, NULL)
      <3>1. /\ q \in [Place -> Member] /\ Places(q)
            /\ \A p \in Place : q[p].use = party[p].use /\ q[p].id = party[p].id
            /\ Renamed(q, id, New) = Renamed(party, id, New)
        BY <1>3, Facts, RenamedPlaces DEF IInv
      <3>2. Together(t.obj, pcAct, q)
        BY <2>1
      <3> HIDE DEF q
      <3>3. n.party <=> \E p \in Place : q[p].use /\ q[p].id = n.id
        BY <1>5, <2>2, <3>1
      <3>4. \A s \in Slot : t.obj[s].ptAct # NULL => t.obj[s].id # n.id
        BY <1>5, <2>1, Objects DEF Single
      <3>5. Together([t.obj EXCEPT ![t.free] = n], pcAct, Renamed(q, n.id, n.ptAct))
        BY <1>2, <1>3, <1>5, <2>2, <3>1, <3>2, <3>3, <3>4, AddedTogether
      <3> QED
        BY <1>4, <1>5, <3>1, <3>5
    <2> QED
      BY <2>3, <2>5, <2>6 DEF Named, Together, Member1
  <1> QED
    BY <1>8, <1>10, <1>13, <1>14, <1>15, <1>16 DEF IInv

LEMMA ItemC_recvKeeps ==
  ASSUME IInv, NEW id \in Item, ItemC_recv(id)
  PROVE  IInv'
  <1>1. /\ Seeing /\ Room /\ SlotsOf(id) = {} /\ ~ Full(Table)
        /\ list' = GetAction(New) /\ func' = [func EXCEPT ![New] = CharProc(Table.free, TRUE)]
        /\ BecomesWith(Table, id, New, FALSE)
        /\ UNCHANGED <<dead, cursor, ran, pcAct, party, screen>>
    BY DEF ItemC_recv, Table
  <1>2. id \in Id
    BY DEF Id
  <1>3. Halfway(Table, id, {}) /\ dead' = dead \cup {}
    <2>1. {ActOf(id)} \ {NULL} = {}
      BY <1>1, NotFound
    <2>2. Halfway(IF SlotsOf(id) = {} THEN Table ELSE Deleted(Table, SlotOf(id)), id, {})
      BY <1>2, <2>1, Deletion
    <2> QED
      BY <1>1, <2>2
  <1>4. ~ \E p \in Place : party[p].use /\ party[p].id = id
    BY CharactersAssumption DEF IInv, Places, Id
  <1>5. party' = Renamed(party, id, New)
    BY <1>1, <1>4, Facts DEF Renamed
  <1>6. /\ party' \in [Place -> Member] /\ Places(party')
        /\ \A p \in Place : party'[p].ptAct \in {party[p].ptAct, New}
    BY <1>1, Facts DEF IInv
  <1> QED
    BY <1>1, <1>2, <1>3, <1>4, <1>5, <1>6, AdditionKeeps

LEMMA ObjC_recvKeeps ==
  ASSUME IInv, NEW id \in Player, ObjC_recv(id)
  PROVE  IInv'
  <1> DEFINE t == IF SlotsOf(id) = {} THEN Table ELSE Deleted(Table, SlotOf(id))
             marked == {ActOf(id)} \ {NULL}
  <1>1. /\ Seeing /\ Room /\ Mark({ActOf(id)}) /\ UNCHANGED <<cursor, ran, pcAct, screen>>
        /\ IF Full(t)
           THEN Becomes(t) /\ UNCHANGED <<list, func, party>>
           ELSE /\ list' = GetAction(New)
                /\ func' = [func EXCEPT ![New] = CharProc(t.free, FALSE)]
                /\ BecomesWith(t, id, New, PlacesOf(id) # {})
                /\ party' = Aliased(id, New)
    BY DEF ObjC_recv
  <1>2. id \in Id /\ id \in Id \cup {NoId} /\ cursor = NULL /\ screen # "out"
    BY <1>1 DEF Id, Seeing, Handling
  <1>3. CASE Full(t)
    <2>1. SlotsOf(id) = {}
      <3> SUFFICES ASSUME SlotsOf(id) # {}
                   PROVE  FALSE
        OBVIOUS
      <3>1. t.count = IF Table.count > 0 THEN Table.count - 1 ELSE 0
        BY DEF Deleted
      <3>2. Table.count \in 0..MAX_CHAROBJ /\ MAX_CHAROBJ \in Nat \ {0}
        BY CharactersAssumption DEF IInv, Typed, TableOK
      <3> QED
        BY <1>3, <3>1, <3>2 DEF Full
    <2>2. /\ party' \in [Place -> Member] /\ Places(party')
          /\ \A p \in Place : party'[p].ptAct \in {party[p].ptAct, NULL}
      BY <1>1, <1>3, Facts DEF IInv
    <2>3. ~ taken => party' = Renamed(party, id, NULL)
      BY <1>1, <1>2, <1>3, <2>1, Untouched
    <2>4. Becomes(t) /\ UNCHANGED <<list, func, pcAct, screen>> /\ UNCHANGED <<cursor, ran>>
      BY <1>1, <1>3
    <2>5. Linked'
      <3>1. list' \in Seq(Action) /\ IsInjective(list')
        BY <2>4, Facts
      <3> QED
        BY <1>2, <2>4, <3>1, RestLinked DEF IInv
    <2> QED
      BY <1>1, <1>2, <2>2, <2>3, <2>4, <2>5, DeletionKeeps
  <1>4. CASE ~ Full(t)
    <2>1. Halfway(t, id, marked) /\ dead' = dead \cup marked
      BY <1>1, <1>2, Deletion DEF Mark
    <2>2. New \in Action
      BY <1>1, RoomNew, NewIs
    <2>3. /\ list' = GetAction(New)
          /\ func' = [func EXCEPT ![New] = CharProc(t.free, FALSE)]
          /\ BecomesWith(t, id, New, PlacesOf(id) # {})
          /\ party' = Aliased(id, New)
      BY <1>1, <1>4
    <2>4. party' = Renamed(party, id, New)
      BY <2>2, <2>3, Facts, AliasedIs DEF IInv
    <2>5. /\ party' \in [Place -> Member] /\ Places(party')
          /\ \A p \in Place : party'[p].ptAct \in {party[p].ptAct, New}
      BY <2>2, <2>4, Facts, RenamedPlaces DEF IInv
    <2>6. (PlacesOf(id) # {}) \in BOOLEAN
          /\ ((PlacesOf(id) # {}) <=> \E p \in Place : party[p].use /\ party[p].id = id)
      BY DEF PlacesOf
    <2> HIDE DEF t, marked
    <2> QED
      BY <1>1, <1>2, <1>4, <2>1, <2>3, <2>4, <2>5, <2>6, AdditionKeeps
  <1> QED
    BY <1>3, <1>4

\* A pet that comes: its object waits for an action, the new one is not its own.
LEMMA PetIn_recvKeeps ==
  ASSUME IInv, NEW id \in Pet, PetIn_recv(id)
  PROVE  IInv'
  <1> DEFINE u == Added(Table, id, NULL, FALSE)
             n == [use |-> TRUE, id |-> id, ptAct |-> NULL, party |-> obj[freeSlot].party \/ FALSE]
  <1>1. /\ Seeing /\ Room /\ SlotsOf(id) = {} /\ ~ Full(Table)
        /\ Cardinality(Unused(Pointers)) > Cardinality(Pets) + 1
        /\ list' = GetAction(New) /\ func' = [func EXCEPT ![New] = PetProc(id, PetLife)]
        /\ BecomesWith(Table, id, NULL, FALSE)
        /\ UNCHANGED <<dead, cursor, ran, pcAct, party, screen>>
    BY DEF PetIn_recv
  <1>2. id \in Id /\ cursor = NULL /\ screen # "out"
    BY <1>1 DEF Id, Seeing, Handling
  <1>3. New \in Action /\ New # NULL /\ Cardinality(Unused(Pointers)) > 0
    BY <1>1, RoomNew, NewIs
  <1>4. TableOK(Table) /\ Table.obj = obj /\ Table.free = freeSlot
    BY DEF IInv, Typed, Table
  <1>5. freeSlot \in Slot /\ TableOK(u) /\ u.obj = [obj EXCEPT ![freeSlot] = n]
    <2>1. /\ Table.free \in Slot /\ NULL \in Action \cup {NULL} /\ FALSE \in BOOLEAN
          /\ TableOK(Table) /\ id \in Id /\ ~ Full(Table)
      BY <1>1, <1>2, <1>4 DEF TableOK
    <2>2. \A b \in BOOLEAN :
             /\ TableOK(Added(Table, id, NULL, b))
             /\ Added(Table, id, NULL, b).obj =
                  [Table.obj EXCEPT ![Table.free] =
                     [use |-> TRUE, id |-> id, ptAct |-> NULL,
                      party |-> Table.obj[Table.free].party \/ b]]
      BY <2>1, AddedTable
    <2>3. /\ TableOK(u)
          /\ u.obj = [Table.obj EXCEPT ![Table.free] =
                        [use |-> TRUE, id |-> id, ptAct |-> NULL,
                         party |-> Table.obj[Table.free].party \/ FALSE]]
      BY <2>1, <2>2, Zenon
    <2> QED
      BY <1>4, <2>1, <2>3
  <1>6. /\ obj' = u.obj /\ count' = u.count /\ freeSlot' = u.free /\ tail' = u.tail
        /\ wasFull' = (wasFull \/ Used(u) = Slot) /\ taken' = (taken \/ obj[freeSlot].use)
    BY <1>1, <1>4 DEF BecomesWith
  <1>7. /\ PetProc(id, PetLife) \in Funcs /\ PetProc(id, PetLife).does = "petProc"
    BY <1>2, CharactersAssumption, Does
  <1>8. /\ Linked' /\ Range(list)' = Range(list) \cup {New} /\ dead' \subseteq Range(list)'
        /\ func' \in [Action -> Funcs] /\ \A a \in Range(list)' : func'[a].does # "nothing"
        /\ Bodies' = Bodies /\ (Pets \ dead)' \subseteq Pets \cup {New}
        /\ \A a \in Range(list) : func'[a] = func[a]
    <2>1. dead' = dead \cup {} /\ Bodies \ {} = Bodies /\ {} \subseteq Range(list)
      BY <1>1
    <2> QED
      BY <1>1, <1>2, <1>3, <1>7, <2>1, Hired
  <1>9. n \in Object /\ n.use /\ n.id = id /\ n.ptAct = NULL /\ n.party = obj[freeSlot].party
    <2>1. obj[freeSlot].party \in BOOLEAN
      BY <1>5, Facts, Objects
    <2>2. (obj[freeSlot].party \/ FALSE) = obj[freeSlot].party
      BY <2>1
    <2> QED
      BY <1>2, <2>1, <2>2, NewObject
  <1> HIDE DEF u, n
  <1>10. /\ Table'.obj = u.obj /\ Table'.count = u.count /\ Table'.free = u.free
         /\ Table'.tail = u.tail
    BY <1>6 DEF Table
  <1>11. Typed'
    <2>1. TableOK(Table)'
      BY <1>5, <1>10 DEF TableOK
    <2>2. wasFull' \in BOOLEAN /\ taken' \in BOOLEAN
      <3>1. obj[freeSlot].use \in BOOLEAN /\ wasFull \in BOOLEAN /\ taken \in BOOLEAN
        BY <1>5, Facts, Objects DEF IInv, Typed
      <3> QED
        BY <1>6, <3>1
    <2> QED
      BY <1>1, <1>8, <2>1, <2>2 DEF IInv, Typed
  <1>12. Bodies \subseteq Action /\ n.ptAct \in (Action \ Bodies) \cup {NULL}
         /\ Bodies \cup ({n.ptAct} \ {NULL}) = Bodies
    BY <1>9, Facts
  <1>13. Owned([obj EXCEPT ![freeSlot] = n], pcAct, Bodies)
    <2>1. Owned([obj EXCEPT ![freeSlot] = n], pcAct, Bodies \cup ({n.ptAct} \ {NULL}))
      BY <1>5, <1>9, <1>12, Facts, AddedOwners
    <2> QED
      BY <1>12, <2>1
  <1>14. Owned(obj, pcAct, Bodies)'
    BY <1>1, <1>5, <1>6, <1>8, <1>13 DEF Owned
  <1>15. Hidden' /\ Places(party)'
    BY <1>1 DEF IInv, Seeing, Handling, Hidden, Places
  <1>16. Reserve'
    <2>1. \A s \in Slot : obj'[s].ptAct \in {obj[s].ptAct, NULL}
      BY <1>5, <1>6, <1>9, Facts
    <2>2. Pointers' \subseteq Pointers \cup {NULL}
      BY <1>1, <2>1 DEF Pointers
    <2>3. Reach' \subseteq Reach \cup {New} \cup {NULL}
      BY <1>8, <2>2 DEF Reach
    <2>4. IsFiniteSet(Pets \cup {New}) /\ Cardinality(Pets \cup {New}) =< Cardinality(Pets) + 1
          /\ Cardinality(Pets \cup {New}) \in Nat
      <3>1. IsFiniteSet(Pets) /\ Cardinality(Pets) \in Nat
        BY Counts
      <3>2. /\ IsFiniteSet(Pets \cup {New})
            /\ \/ Cardinality(Pets \cup {New}) = Cardinality(Pets)
               \/ Cardinality(Pets \cup {New}) = Cardinality(Pets) + 1
        BY <3>1, FS_AddElement
      <3> QED
        BY <3>1, <3>2
    <2>5. Cardinality(Pets \cup {New}) + 1 =< Cardinality(Unused(Pointers))
      BY <1>1, <2>4, Counts
    <2> QED
      BY <1>8, <2>3, <2>4, <2>5, ReservedNew
  <1>17. Agreed'
    <2> SUFFICES ASSUME ~ taken, ~ obj[freeSlot].use
                 PROVE  /\ Single(Table, wasFull)'
                        /\ Named(obj, pcAct, Bodies, func)'
                        /\ Together(obj, pcAct, party)'
      BY <1>6 DEF Agreed
    <2>1. /\ Single(Table, wasFull) /\ Named(obj, pcAct, Bodies, func)
          /\ Together(obj, pcAct, party)
          /\ \A s \in Slot : obj[s].use => obj[s].id # id
      BY <1>1, <1>2, NotFound DEF IInv, Agreed
    <2>2. obj[freeSlot].ptAct = NULL /\ ~ n.party
      BY <1>5, <1>9, InUse, Objects
    <2>3. Single(Table, wasFull)'
      <3>1. Single(u, wasFull \/ Used(u) = Slot)
        <4>1. wasFull \in BOOLEAN
          BY DEF IInv, Typed
        <4>2. Single(Added(Table, id, NULL, FALSE),
                     wasFull \/ Used(Added(Table, id, NULL, FALSE)) = Slot)
          BY <1>1, <1>2, <1>4, <2>1, <4>1, AddedSingle
        <4> QED
          BY <4>2 DEF u
      <3>2. Used(Table)' = Used(u)
        BY <1>10 DEF Used
      <3> QED
        BY <1>6, <1>10, <3>1, <3>2 DEF Single
    <2>4. Named(obj', pcAct, Bodies, func')
      <3>1. Named([obj EXCEPT ![freeSlot] = n], pcAct, Bodies, func)
        <4>1. Named([obj EXCEPT ![freeSlot] = n], pcAct, Bodies \cup ({n.ptAct} \ {NULL}), func)
          BY <1>5, <1>9, <1>12, <2>1, <2>2, Facts, AddedOwners
        <4> QED
          BY <1>12, <4>1
      <3>2. Bodies \subseteq Range(list)
        BY DEF Bodies, Live
      <3>3. Named(obj', pcAct, Bodies, func)
        BY <1>5, <1>6, <3>1
      <3>4. Owned(obj', pcAct, Bodies)
        BY <1>5, <1>6, <1>13
      <3>5. \A a \in Bodies : func'[a] = func[a]
        BY <1>8, <3>2
      <3> QED
        BY <3>3, <3>4, <3>5 DEF Named, Owned
    <2>5. Together(obj', pcAct, party)
      <3>1. ASSUME NEW p \in Place, party[p].ptAct # NULL
            PROVE  party[p].id # n.id
        BY <1>2, <1>9, <2>1, <3>1, CharactersAssumption DEF Together
      <3>2. Together([obj EXCEPT ![freeSlot] = n], pcAct, party)
        BY <1>5, <1>9, <2>1, <2>2, <3>1, Facts, AddedAlone
      <3> QED
        BY <1>5, <1>6, <3>2
    <2> QED
      BY <1>1, <1>8, <2>3, <2>4, <2>5 DEF Named, Together, Member1
  <1> QED
    BY <1>8, <1>11, <1>14, <1>15, <1>16, <1>17 DEF IInv

\* A step that changes who is of the party, and nothing that exists.
LEMMA PartyKeeps ==
  ASSUME IInv, UNCHANGED <<listVars, count, freeSlot, tail, wasFull, taken, pcAct, func, screen>>,
         obj' \in [Slot -> Object], party' \in [Place -> Member], Places(party'),
         \A s \in Slot : /\ obj'[s].use = obj[s].use /\ obj'[s].id = obj[s].id
                         /\ obj'[s].ptAct = obj[s].ptAct,
         \A p \in Place : party'[p].ptAct \in Pointers \cup {NULL},
         ~ taken => /\ \A s \in Slot : ~ obj[s].use => obj'[s] = obj[s]
                    /\ screen # "out" => Together(obj', pcAct, party')
  PROVE  IInv'
  <1>1. /\ UNCHANGED <<list, dead, cursor, ran, Range(list), Live, Bodies, Pets>>
        /\ UNCHANGED <<count, freeSlot, tail, wasFull, taken, pcAct, func, screen>>
    BY DEF listVars, Live, Bodies, Pets
  <1>2. Linked'
    BY <1>1 DEF IInv, Linked, PassSound
  <1>3. /\ Table'.obj = obj' /\ Table'.count = count /\ Table'.free = freeSlot /\ Table'.tail = tail
        /\ Table.obj = obj /\ Table.count = count /\ Table.free = freeSlot /\ Table.tail = tail
    BY <1>1 DEF Table
  <1>4. Typed'
    <2>1. TableOK(Table)'
      BY <1>3 DEF IInv, Typed, TableOK
    <2> QED
      BY <1>1, <2>1 DEF IInv, Typed
  <1>5. Owned(obj, pcAct, Bodies)'
    BY <1>1 DEF IInv, Owned
  <1>6. Hidden'
    BY <1>1 DEF IInv, Hidden
  <1>7. Reserve'
    <2>1. Pointers' \subseteq Pointers \cup {NULL}
      BY <1>1 DEF Pointers
    <2>2. Reach' \subseteq Reach \cup {NULL}
      BY <1>1, <2>1 DEF Reach
    <2>3. (Pets \ dead)' \subseteq Pets \ dead
      BY <1>1
    <2> QED
      BY <2>2, <2>3, ReservedAsWas
  <1>8. Agreed'
    <2> SUFFICES ASSUME ~ taken
                 PROVE  /\ Single(Table, wasFull)'
                        /\ Named(obj, pcAct, Bodies, func)'
                        /\ (screen # "out" => Together(obj, pcAct, party))'
      BY <1>1 DEF Agreed
    <2>1. Single(Table, wasFull) /\ Named(obj, pcAct, Bodies, func)
      BY DEF IInv, Agreed
    <2>2. Single(Table, wasFull)'
      <3>1. Used(Table)' = Used(Table)
        BY <1>3 DEF Used
      <3>2. freeSlot \in Slot
        BY <1>3 DEF IInv, Typed, TableOK
      <3>3. \A s \in Slot : ~ obj'[s].use => obj'[s] = NoObject
        BY <1>3, <2>1 DEF Single
      <3> QED
        BY <1>1, <1>3, <2>1, <3>1, <3>2, <3>3 DEF Single
    <2>3. Named(obj', pcAct, Bodies, func)
      <3>1. \A a \in Bodies : func[a].does = "charProc" => func[a].slot \in Slot
        BY Facts
      <3> QED
        BY <2>1, <3>1 DEF Named
    <2> QED
      BY <1>1, <2>2, <2>3 DEF Named, Together, Member1
  <1> QED
    BY <1>2, <1>4, <1>5, <1>6, <1>7, <1>8 DEF IInv

\* Objects that are members no more.
LEMMA LeftIs ==
  ASSUME NEW o \in [Slot -> Object], NEW acts
  PROVE  LET n == Left(o, acts)
             slots == {func[a].slot : a \in acts \ {NULL}}
         IN /\ n \in [Slot -> Object]
            /\ \A s \in Slot : /\ n[s].use = o[s].use /\ n[s].id = o[s].id /\ n[s].ptAct = o[s].ptAct
                               /\ n[s].party <=> (o[s].party /\ s \notin slots)
                               /\ ~ o[s].party => n[s] = o[s]
  <1> DEFINE n == Left(o, acts)
             slots == {func[a].slot : a \in acts \ {NULL}}
  <1>1. n = [s \in Slot |-> IF s \in slots THEN [o[s] EXCEPT !.party = FALSE] ELSE o[s]]
    BY DEF Left
  <1> HIDE DEF n, slots
  <1>2. ASSUME NEW s \in Slot
        PROVE  /\ n[s] \in Object
               /\ n[s].use = o[s].use /\ n[s].id = o[s].id /\ n[s].ptAct = o[s].ptAct
               /\ n[s].party <=> (o[s].party /\ s \notin slots)
               /\ ~ o[s].party => n[s] = o[s]
    <2>1. o[s] \in Object
      OBVIOUS
    <2>2. CASE s \in slots
      <3>1. n[s] = [o[s] EXCEPT !.party = FALSE]
        BY <1>1, <2>2
      <3>2. /\ n[s] \in Object
            /\ n[s].use = o[s].use /\ n[s].id = o[s].id /\ n[s].ptAct = o[s].ptAct
            /\ n[s].party = FALSE
        BY <2>1, <3>1 DEF Object
      <3>3. ~ o[s].party => n[s] = o[s]
        BY <2>1, <3>1 DEF Object
      <3> QED
        BY <2>2, <3>2, <3>3
    <2>3. CASE s \notin slots
      BY <1>1, <2>1, <2>3
    <2> QED
      BY <2>2, <2>3
  <1>3. n \in [Slot -> Object]
    BY <1>1, <1>2
  <1> QED
    BY <1>2, <1>3 DEF n, slots

LEMMA DissolvedIs ==
  ASSUME NEW o \in [Slot -> Object], NEW q \in [Place -> Member], NEW live,
         Together(o, pcAct, q), Named(o, pcAct, live, func)
  PROVE  /\ \A s \in Slot : ~ Dissolved(o, q)[s].party
         /\ Together(Dissolved(o, q), pcAct, NoParty)
  <1> DEFINE acts == {q[p].ptAct : p \in {r \in Place : q[r].use /\ q[r].id # PcId}}
             n == Left(o, acts)
  <1>1. ASSUME NEW s \in Slot, o[s].party
        PROVE  s \in {func[a].slot : a \in acts \ {NULL}}
    <2>1. PICK p \in Place : /\ o[s].ptAct # NULL /\ q[p].use /\ q[p].id = o[s].id
                             /\ q[p].ptAct = o[s].ptAct
      BY <1>1 DEF Together, Member1
    <2>2. q[p].id # PcId
      BY <2>1, Objects, CharactersAssumption
    <2>3. o[s].ptAct \in acts \ {NULL} /\ func[o[s].ptAct].slot = s
      BY <2>1, <2>2 DEF Named
    <2> QED
      BY <2>3
  <1>2. n = Dissolved(o, q)
    BY DEF Dissolved
  <1>3. \A s \in Slot : /\ n[s].party <=> (o[s].party /\ s \notin {func[a].slot : a \in acts \ {NULL}})
    BY LeftIs
  <1> HIDE DEF acts, n
  <1>4. \A s \in Slot : ~ n[s].party
    BY <1>1, <1>3
  <1>5. \A p \in Place : NoParty[p].ptAct = NULL /\ ~ NoParty[p].use
    BY Objects DEF NoParty
  <1> QED
    BY <1>2, <1>4, <1>5 DEF Together, Member1

LEMMA NoPartyIs ==
  NoParty \in [Place -> Member] /\ Places(NoParty) /\ \A p \in Place : NoParty[p].ptAct = NULL
  BY Objects DEF NoParty, Places

LEMMA PR_recvKeeps ==
  ASSUME IInv, PR_recv
  PROVE  IInv'
  <1>1. /\ obj' = Dissolved(obj, party) /\ party' = NoParty
        /\ UNCHANGED <<listVars, count, freeSlot, tail, wasFull, taken, pcAct, func, screen>>
    BY DEF PR_recv
  <1>2. /\ obj' \in [Slot -> Object]
        /\ \A s \in Slot : /\ obj'[s].use = obj[s].use /\ obj'[s].id = obj[s].id
                           /\ obj'[s].ptAct = obj[s].ptAct
                           /\ ~ obj[s].party => obj'[s] = obj[s]
    BY <1>1, Facts, LeftIs DEF Dissolved
  <1>3. ~ taken => /\ \A s \in Slot : ~ obj[s].use => obj'[s] = obj[s]
                   /\ screen # "out" => Together(obj', pcAct, party')
    BY <1>1, <1>2, Facts, InUse, DissolvedIs DEF IInv, Agreed
  <1>4. party' \in [Place -> Member] /\ Places(party')
        /\ \A p \in Place : party'[p].ptAct \in Pointers \cup {NULL}
    BY <1>1, NoPartyIs
  <1> QED
    BY <1>1, <1>2, <1>3, <1>4, PartyKeeps

LEMMA Leave_recvKeeps ==
  ASSUME IInv, NEW p \in Place, Leave_recv(p)
  PROVE  IInv'
  <1> DEFINE acts == IF party[p].use /\ party[p].id # PcId THEN {ActOf(party[p].id)} ELSE {}
             o == Left(obj, acts)
             q == [party EXCEPT ![p] = Nobody]
  <1>1. \/ obj' = Dissolved(o, q) /\ party' = NoParty
        \/ obj' = o /\ party' = q
    <2>1. IF party[p].use /\ party[p].id # PcId THEN TRUE ELSE o = obj
      BY Facts DEF Left
    <2> QED
      BY <2>1 DEF Leave_recv
  <1>2. /\ UNCHANGED <<listVars, count, freeSlot, tail, wasFull, taken, pcAct, func, screen>>
        /\ screen # "out"
    BY DEF Leave_recv, Handling
  <1>3. /\ o \in [Slot -> Object]
        /\ \A s \in Slot : /\ o[s].use = obj[s].use /\ o[s].id = obj[s].id
                           /\ o[s].ptAct = obj[s].ptAct
                           /\ ~ obj[s].party => o[s] = obj[s]
                           /\ o[s].party <=> (obj[s].party
                                                /\ s \notin {func[a].slot : a \in acts \ {NULL}})
    BY Facts, LeftIs
  <1>4. /\ q[p] = Nobody /\ q[p].ptAct = NULL /\ ~ q[p].use
        /\ \A r \in Place : r # p => q[r] = party[r]
        /\ q \in [Place -> Member] /\ Places(q)
    <2>1. /\ q[p] = Nobody /\ \A r \in Place : r # p => q[r] = party[r]
          /\ q \in [Place -> Member]
      BY Facts, Objects
    <2> QED
      BY <2>1, Objects DEF IInv, Places
  <1>5. ASSUME NEW s \in Slot
        PROVE  /\ Dissolved(o, q)[s].use = obj[s].use /\ Dissolved(o, q)[s].id = obj[s].id
               /\ Dissolved(o, q)[s].ptAct = obj[s].ptAct
               /\ ~ obj[s].party => Dissolved(o, q)[s] = obj[s]
    <2> HIDE DEF o, q, acts
    <2>1. /\ Dissolved(o, q)[s].use = o[s].use /\ Dissolved(o, q)[s].id = o[s].id
          /\ Dissolved(o, q)[s].ptAct = o[s].ptAct
          /\ ~ o[s].party => Dissolved(o, q)[s] = o[s]
      <3> DEFINE gone == {q[r].ptAct : r \in {r \in Place : q[r].use /\ q[r].id # PcId}}
      <3>1. Dissolved(o, q) = Left(o, gone)
        BY DEF Dissolved
      <3>2. o \in [Slot -> Object]
        BY <1>3
      <3> HIDE DEF gone
      <3> QED
        BY <3>1, <3>2, LeftIs
    <2> QED
      BY <1>3, <2>1
  <1>6. Dissolved(o, q) \in [Slot -> Object]
    BY <1>3, LeftIs DEF Dissolved
  <1> HIDE DEF o, q
  <1>7. ASSUME ~ taken
        PROVE  Together(o, pcAct, q) /\ Named(o, pcAct, Bodies, func)
    <2>1. Together(obj, pcAct, party) /\ Named(obj, pcAct, Bodies, func)
      BY <1>2, <1>7 DEF IInv, Agreed
    <2>2. Named(o, pcAct, Bodies, func)
      <3>1. \A a \in Bodies : func[a].does = "charProc" => func[a].slot \in Slot
        BY Facts
      <3> QED
        BY <1>3, <2>1, <3>1 DEF Named
    <2>3. ASSUME NEW s \in Slot
          PROVE  o[s].party <=> Member1(o, s, q)
      <3>1. CASE party[p].use /\ party[p].id = obj[s].id /\ obj[s].ptAct # NULL
        <4>1. party[p].id # PcId
          BY <3>1, Facts, Objects, CharactersAssumption
        <4>2. obj[s].use /\ SlotsOf(obj[s].id) # {}
          BY <1>7, <3>1, InUse, NotFound
        <4>3. SlotOf(obj[s].id) = s /\ ActOf(obj[s].id) = obj[s].ptAct
          BY <1>7, <4>2, Found, InUse
        <4>4. acts = {obj[s].ptAct}
          BY <3>1, <4>1, <4>3
        <4>5. s \in {func[a].slot : a \in acts \ {NULL}}
          BY <2>1, <3>1, <4>4 DEF Named
        <4>6. ~ o[s].party
          BY <1>3, <4>5
        <4>7. \A r \in Place : q[r].use => q[r].id # obj[s].id
          BY <1>4, <3>1 DEF IInv, Places
        <4> QED
          BY <1>3, <4>6, <4>7 DEF Member1
      <3>2. CASE ~ (party[p].use /\ party[p].id = obj[s].id /\ obj[s].ptAct # NULL)
        <4>1. Member1(o, s, q) <=> Member1(obj, s, party)
          BY <1>3, <1>4, <3>2 DEF Member1
        <4>2. ASSUME obj[s].party, NEW a \in acts \ {NULL}, func[a].slot = s
              PROVE  FALSE
          <5>1. party[p].use /\ party[p].id # PcId /\ a = ActOf(party[p].id) /\ a # NULL
            BY <4>2
          <5>2. SlotsOf(party[p].id) # {}
            BY <5>1, NotFound
          <5> DEFINE u == SlotOf(party[p].id)
          <5>3. u \in Slot /\ obj[u].id = party[p].id /\ obj[u].ptAct = a
            BY <5>1, <5>2, Found
          <5> HIDE DEF u
          <5>4. u = s
            BY <2>1, <4>2, <5>1, <5>3 DEF Named
          <5> QED
            BY <3>2, <5>1, <5>3, <5>4
        <4>3. o[s].party <=> obj[s].party
          BY <1>3, <4>2
        <4> QED
          BY <2>1, <4>1, <4>3 DEF Together
      <3> QED
        BY <3>1, <3>2
    <2>4. ASSUME NEW r \in Place, q[r].ptAct # NULL
          PROVE  /\ q[r].use
                 /\ q[r].id = PcId => q[r].ptAct = pcAct
                 /\ q[r].id # PcId => \E s \in Slot : /\ o[s].use /\ o[s].id = q[r].id
                                                      /\ o[s].ptAct = q[r].ptAct
      <3>1. r # p /\ q[r] = party[r]
        BY <1>4, <2>4
      <3> QED
        BY <1>3, <2>1, <2>4, <3>1 DEF Together
    <2> QED
      BY <2>2, <2>3, <2>4 DEF Together
  <1>8. /\ obj' \in [Slot -> Object] /\ party' \in [Place -> Member] /\ Places(party')
        /\ \A s \in Slot : /\ obj'[s].use = obj[s].use /\ obj'[s].id = obj[s].id
                           /\ obj'[s].ptAct = obj[s].ptAct
                           /\ ~ obj[s].party => obj'[s] = obj[s]
    BY <1>1, <1>3, <1>4, <1>5, <1>6, NoPartyIs
  <1>9. \A r \in Place : party'[r].ptAct \in Pointers \cup {NULL}
    BY <1>1, <1>4, NoPartyIs DEF Pointers
  <1>10. ~ taken => /\ \A s \in Slot : ~ obj[s].use => obj'[s] = obj[s]
                    /\ screen # "out" => Together(obj', pcAct, party')
    BY <1>1, <1>3, <1>4, <1>7, <1>8, InUse, DissolvedIs
  <1> QED
    BY <1>2, <1>8, <1>9, <1>10, PartyKeeps

LEMMA OwnC_recvKeeps ==
  ASSUME IInv, OwnC_recv
  PROVE  IInv'
  <1>1. /\ Seeing /\ Room /\ cursor = NULL /\ screen # "out"
        /\ party' = Aliased(PcId, pcAct') /\ UNCHANGED <<dead, cursor, ran, table, screen>>
    BY DEF OwnC_recv, Seeing, Handling
  <1>2. UNCHANGED <<obj, count, freeSlot, tail, wasFull, taken, Table>>
    BY <1>1 DEF table, Table
  <1>3. CASE pcAct = NULL
    <2>1. pcAct' = New /\ list' = GetAction(New) /\ func' = [func EXCEPT ![New] = PcProc]
      BY <1>3 DEF OwnC_recv
    <2>2. New \in Action /\ New # NULL /\ New \notin Bodies /\ Cardinality(Unused(Pointers)) > 0
      BY <1>1, RoomNew, NewIs
    <2>3. party' = Renamed(party, PcId, New)
      BY <1>1, <2>1, <2>2, Facts, AliasedIs DEF IInv
    <2>4. /\ party' \in [Place -> Member] /\ Places(party')
          /\ \A p \in Place : party'[p].ptAct \in {party[p].ptAct, New}
      BY <2>2, <2>3, Facts, RenamedPlaces DEF IInv
    <2>5. /\ Linked' /\ Range(list)' = Range(list) \cup {New} /\ dead' \subseteq Range(list)'
          /\ func' \in [Action -> Funcs] /\ \A a \in Range(list)' : func'[a].does # "nothing"
          /\ Bodies' = Bodies \cup {New} /\ (Pets \ dead)' \subseteq Pets
      <3> DEFINE none == {}
      <3>1. dead' = dead \cup none /\ none \subseteq Range(list) /\ Bodies \ none = Bodies
        BY <1>1
      <3> HIDE DEF none
      <3>2. PcProc \in Funcs /\ PcProc.does = "pcProc"
        BY Does
      <3>3. /\ IInv /\ cursor = NULL /\ UNCHANGED <<cursor, ran>>
            /\ Cardinality(Unused(Pointers)) > 0 /\ list' = GetAction(New)
            /\ func' = [func EXCEPT ![New] = PcProc]
        BY <1>1, <2>1, <2>2
      <3>4. Bodies' = (Bodies \ none) \cup {New} /\ (Pets \ dead)' \subseteq Pets
        BY <3>1, <3>2, <3>3, Hired
      <3>5. /\ Linked' /\ Range(list)' = Range(list) \cup {New} /\ dead' \subseteq Range(list)'
            /\ func' \in [Action -> Funcs] /\ \A a \in Range(list)' : func'[a].does # "nothing"
        BY <3>1, <3>2, <3>3, Hired
      <3> QED
        BY <3>1, <3>4, <3>5
    <2>6. Typed'
      BY <1>1, <1>2, <2>1, <2>2, <2>4, <2>5 DEF IInv, Typed, TableOK
    <2>7. /\ Owned(obj, New, Bodies \cup {New})
          /\ Named(obj, pcAct, Bodies, func) => Named(obj, New, Bodies \cup {New}, func')
      BY <1>3, <2>1, <2>2, Facts, PcOwners
    <2>8. Owned(obj, pcAct, Bodies)'
      BY <1>2, <2>1, <2>5, <2>7 DEF Owned
    <2>9. Hidden'
      BY <1>1 DEF Seeing, Handling, Hidden
    <2>10. Reserve'
      <3>1. Pointers' \subseteq Pointers \cup {New}
        BY <1>2, <2>1, <2>4 DEF Pointers
      <3>2. Reach' \subseteq Reach \cup {New} \cup {NULL}
        BY <2>5, <3>1 DEF Reach
      <3>3. Cardinality(Pets) + 1 =< Cardinality(Unused(Pointers)) /\ IsFiniteSet(Pets)
        BY <1>1, RoomNew, Counts
      <3> QED
        BY <2>5, <3>2, <3>3, ReservedNew
    <2>11. Agreed'
      <3> SUFFICES ASSUME ~ taken
                   PROVE  /\ Single(Table, wasFull)'
                          /\ Named(obj, pcAct, Bodies, func)'
                          /\ Together(obj, pcAct, party)'
        BY <1>2 DEF Agreed
      <3>1. /\ Single(Table, wasFull) /\ Named(obj, pcAct, Bodies, func)
            /\ Together(obj, pcAct, party)
        BY <1>1 DEF IInv, Agreed
      <3>2. Single(Table, wasFull)'
        BY <1>2, <3>1 DEF Single, Used
      <3>3. Together(obj, New, party')
        BY <2>2, <2>3, <3>1, Facts, PcTogether DEF IInv
      <3> QED
        BY <1>2, <2>1, <2>5, <2>7, <3>1, <3>2, <3>3 DEF Named, Together, Member1
    <2> QED
      BY <2>4, <2>5, <2>6, <2>8, <2>9, <2>10, <2>11 DEF IInv
  <1>4. CASE pcAct # NULL
    <2>1. pcAct' = pcAct /\ list' = list /\ func' = func
      BY <1>4 DEF OwnC_recv
    <2>2. party' = Renamed(party, PcId, pcAct)
      BY <1>1, <2>1, Facts, AliasedIs DEF IInv
    <2>3. /\ party' \in [Place -> Member] /\ Places(party')
          /\ \A p \in Place : party'[p].ptAct \in {party[p].ptAct, pcAct}
      BY <2>2, Facts, RenamedPlaces DEF IInv
    <2>4. \A p \in Place : party'[p].ptAct \in Pointers \cup {NULL}
      BY <2>3 DEF Pointers
    <2>5. ~ taken => Together(obj, pcAct, party')
      BY <1>1, <2>2, Facts, PcTogether DEF IInv, Agreed
    <2>6. UNCHANGED <<listVars, count, freeSlot, tail, wasFull, taken, pcAct, func, screen>>
      BY <1>1, <1>2, <2>1 DEF listVars
    <2> QED
      BY <1>2, <2>3, <2>4, <2>5, <2>6, Facts, PartyKeeps
  <1> QED
    BY <1>3, <1>4

\* A pet that goes off: it moves, nothing on the map is its object.
LEMMA PetOut_recvKeeps ==
  ASSUME IInv, PetOut_recv
  PROVE  IInv'
  <1>1. /\ Seeing /\ Room /\ cursor = NULL /\ screen # "out"
        /\ Cardinality(Unused(Pointers)) > Cardinality(Pets) + 1
        /\ list' = GetAction(New) /\ func' = [func EXCEPT ![New] = PetProc(NoId, PetLife)]
        /\ UNCHANGED <<dead, cursor, ran, table, pcAct, party, screen>>
    BY DEF PetOut_recv, Seeing, Handling
  <1>2. UNCHANGED <<obj, count, freeSlot, tail, wasFull, taken, Table>>
    BY <1>1 DEF table, Table
  <1>3. New \in Action /\ New \notin Range(list) /\ Cardinality(Unused(Pointers)) > 0
    BY <1>1, RoomNew, NewIs
  <1>4. /\ Linked' /\ Range(list)' = Range(list) \cup {New} /\ dead' \subseteq Range(list)'
        /\ func' \in [Action -> Funcs] /\ \A a \in Range(list)' : func'[a].does # "nothing"
        /\ Bodies' = Bodies /\ (Pets \ dead)' \subseteq Pets \cup {New}
        /\ \A a \in Range(list) : func'[a] = func[a]
    <2> DEFINE none == {}
    <2>1. dead' = dead \cup none /\ none \subseteq Range(list) /\ Bodies \ none = Bodies
      BY <1>1
    <2> HIDE DEF none
    <2>2. PetProc(NoId, PetLife) \in Funcs /\ PetProc(NoId, PetLife).does = "petProc"
      BY Does, CharactersAssumption
    <2>3. /\ IInv /\ cursor = NULL /\ UNCHANGED <<cursor, ran>>
          /\ Cardinality(Unused(Pointers)) > 0 /\ list' = GetAction(New)
          /\ func' = [func EXCEPT ![New] = PetProc(NoId, PetLife)]
      BY <1>1, <1>3
    <2>4. Bodies' = Bodies \ none /\ (Pets \ dead)' \subseteq Pets \cup {New}
      BY <2>1, <2>2, <2>3, Hired
    <2>5. /\ Linked' /\ Range(list)' = Range(list) \cup {New} /\ dead' \subseteq Range(list)'
          /\ func' \in [Action -> Funcs] /\ \A a \in Range(list)' : func'[a].does # "nothing"
          /\ \A a \in Range(list) : func'[a] = func[a]
      BY <2>1, <2>2, <2>3, Hired
    <2> QED
      BY <2>1, <2>4, <2>5
  <1>5. Typed'
    BY <1>1, <1>2, <1>4 DEF IInv, Typed, TableOK
  <1>6. Owned(obj, pcAct, Bodies)'
    BY <1>1, <1>2, <1>4, Facts DEF Owned
  <1>7. Hidden' /\ Places(party)'
    BY <1>1 DEF IInv, Seeing, Handling, Hidden, Places
  <1>8. Reserve'
    <2>1. Reach' \subseteq Reach \cup {New} \cup {NULL}
      BY <1>1, <1>2, <1>4 DEF Reach, Pointers
    <2>2. /\ IsFiniteSet(Pets \cup {New}) /\ Cardinality(Pets \cup {New}) \in Nat
          /\ Cardinality(Pets \cup {New}) =< Cardinality(Pets) + 1
      <3>1. IsFiniteSet(Pets) /\ Cardinality(Pets) \in Nat
        BY Counts
      <3>2. /\ IsFiniteSet(Pets \cup {New})
            /\ \/ Cardinality(Pets \cup {New}) = Cardinality(Pets)
               \/ Cardinality(Pets \cup {New}) = Cardinality(Pets) + 1
        BY <3>1, FS_AddElement
      <3> QED
        BY <3>1, <3>2
    <2>3. Cardinality(Pets \cup {New}) + 1 =< Cardinality(Unused(Pointers))
      BY <1>1, <2>2, Counts
    <2> QED
      BY <1>4, <2>1, <2>2, <2>3, ReservedNew
  <1>9. Agreed'
    <2> SUFFICES ASSUME ~ taken
                 PROVE  /\ Single(Table, wasFull)'
                        /\ Named(obj, pcAct, Bodies, func)'
                        /\ Together(obj, pcAct, party)'
      BY <1>2 DEF Agreed
    <2>1. /\ Single(Table, wasFull) /\ Named(obj, pcAct, Bodies, func)
          /\ Together(obj, pcAct, party)
      BY <1>1 DEF IInv, Agreed
    <2>2. Single(Table, wasFull)'
      BY <1>2, <2>1 DEF Single, Used
    <2>3. \A a \in Bodies : func'[a] = func[a]
      BY <1>4 DEF Bodies, Live
    <2>4. Named(obj, pcAct, Bodies, func')
      BY <2>1, <2>3, Facts DEF Named, Owned
    <2> QED
      BY <1>1, <1>2, <1>4, <2>1, <2>2, <2>4 DEF Named, Together, Member1
  <1> QED
    BY <1>4, <1>5, <1>6, <1>7, <1>8, <1>9 DEF IInv

LEMMA Join_recvKeeps ==
  ASSUME IInv, NEW p \in Place, NEW id \in Player \cup {PcId}, Join_recv(p, id)
  PROVE  IInv'
  <1> DEFINE a == IF id = PcId THEN pcAct ELSE ActOf(id)
             m == [use |-> TRUE, id |-> id, ptAct |-> a]
             s == SlotOf(id)
  <1>1. /\ screen # "out" /\ (party[p].id = id \/ (~ party[p].use /\ PlacesOf(id) = {}))
        /\ party' = [party EXCEPT ![p] = m]
        /\ obj' = IF id = PcId \/ a = NULL THEN obj ELSE Joined(a)
        /\ UNCHANGED <<listVars, count, freeSlot, tail, wasFull, taken, pcAct, func, screen>>
    BY DEF Join_recv, Handling
  <1>2. id # NoId /\ id \in Id \cup {PcId} /\ (id # PcId => id \in Id)
    BY CharactersAssumption DEF Id
  <1>3. a \in Action \cup {NULL} /\ a \in Pointers \cup {NULL}
    BY Facts, Found, NotFound DEF Pointers
  <1> HIDE DEF a
  <1>4. m \in Member /\ m.use /\ m.id = id /\ m.ptAct = a
    BY <1>2, <1>3, Zenon DEF Member
  <1> HIDE DEF m
  <1>5. /\ party' \in [Place -> Member] /\ party'[p] = m
        /\ \A r \in Place : r # p => party'[r] = party[r]
    BY <1>1, <1>4, Facts
  <1>6. \A r \in Place : r # p /\ party[r].use => party[r].id # id
    <2>1. ASSUME NEW r \in Place, r # p, party[r].use, party[r].id = id
          PROVE  FALSE
      <3>1. party[p].id = id
        BY <1>1, <2>1 DEF PlacesOf
      <3>2. ~ party[p].use
        BY <2>1, <3>1 DEF IInv, Places
      <3>3. party[p].id = NoId
        BY <3>2, Objects DEF IInv, Places
      <3> QED
        BY <1>2, <3>1, <3>3
    <2> QED
      BY <2>1
  <1>7. Places(party')
    BY <1>4, <1>5, <1>6 DEF IInv, Places
  <1>8. \A r \in Place : party'[r].ptAct \in Pointers \cup {NULL}
    BY <1>3, <1>4, <1>5 DEF Pointers
  <1>9. /\ obj' \in [Slot -> Object]
        /\ \A u \in Slot : /\ obj'[u].use = obj[u].use /\ obj'[u].id = obj[u].id
                           /\ obj'[u].ptAct = obj[u].ptAct
                           /\ obj'[u].party <=> \/ obj[u].party
                                                \/ id # PcId /\ a # NULL /\ u = func[a].slot
                           /\ ~ (id # PcId /\ a # NULL /\ u = func[a].slot) => obj'[u] = obj[u]
    <2>1. CASE id = PcId \/ a = NULL
      <3>1. obj' = obj
        BY <1>1, <2>1
      <3> QED
        BY <2>1, <3>1, Facts
    <2>2. CASE id # PcId /\ a # NULL
      <3> DEFINE k == func[a].slot
      <3>1. obj' = [obj EXCEPT ![k] = [obj[k] EXCEPT !.party = TRUE]]
        BY <1>1, <2>2 DEF Joined
      <3> HIDE DEF k
      <3>2. ASSUME NEW u \in Slot, u = k
            PROVE  /\ obj'[u] \in Object /\ obj'[u].use = obj[u].use /\ obj'[u].id = obj[u].id
                   /\ obj'[u].ptAct = obj[u].ptAct /\ obj'[u].party
        <4>1. obj'[u] = [obj[u] EXCEPT !.party = TRUE] /\ obj[u] \in Object
          BY <3>1, <3>2, Facts
        <4> QED
          BY <4>1 DEF Object
      <3>3. \A u \in Slot : u # k => obj'[u] = obj[u]
        BY <3>1, Facts
      <3>4. DOMAIN obj' = Slot /\ obj' = [u \in Slot |-> obj'[u]]
        BY <3>1, Facts
      <3> QED
        BY <2>2, <3>2, <3>3, <3>4, Facts DEF k
    <2> QED
      BY <2>1, <2>2
  <1>10. ASSUME ~ taken
         PROVE  /\ \A u \in Slot : ~ obj[u].use => obj'[u] = obj[u]
                /\ Together(obj', pcAct, party')
    <2>1. Together(obj, pcAct, party) /\ Named(obj, pcAct, Bodies, func)
      BY <1>1, <1>10 DEF IInv, Agreed
    <2>2. ASSUME id # PcId, NEW u \in Slot, obj[u].ptAct # NULL, obj[u].id = id
          PROVE  a = obj[u].ptAct
      <3>1. obj[u].use /\ SlotsOf(id) # {}
        BY <1>10, <2>2, InUse, NotFound
      <3>2. SlotOf(id) = u
        BY <1>10, <2>2, <3>1, Found, InUse
      <3> QED
        BY <2>2, <3>1, <3>2, Found DEF a
    <2>3. ASSUME id # PcId, a # NULL
          PROVE  \E u \in Slot : /\ obj[u].use /\ obj[u].id = id /\ obj[u].ptAct = a
                                 /\ func[a].slot = u
      <3>1. SlotsOf(id) # {}
        BY <2>3, NotFound DEF a
      <3>2. SlotOf(id) \in Slot /\ obj[SlotOf(id)].use /\ obj[SlotOf(id)].id = id
            /\ obj[SlotOf(id)].ptAct = a
        BY <2>3, <3>1, Found DEF a
      <3>3. func[a].slot = SlotOf(id)
        BY <2>1, <2>3, <3>2 DEF Named
      <3> QED
        BY <3>2, <3>3
    <2>4. ASSUME NEW u \in Slot
          PROVE  (id # PcId /\ a # NULL /\ u = func[a].slot)
                    <=> (obj[u].ptAct # NULL /\ obj[u].id = id)
      <3>1. obj[u].id # PcId
        BY Objects, Facts, CharactersAssumption
      <3>2. ASSUME id # PcId, a # NULL, u = func[a].slot
            PROVE  obj[u].ptAct # NULL /\ obj[u].id = id
        BY <2>3, <3>2
      <3>3. ASSUME obj[u].ptAct # NULL, obj[u].id = id
            PROVE  id # PcId /\ a # NULL /\ u = func[a].slot
        BY <2>1, <2>2, <3>1, <3>3 DEF Named
      <3> QED
        BY <3>2, <3>3
    <2>5. ASSUME NEW u \in Slot
          PROVE  Member1(obj', u, party')
                    <=> (Member1(obj, u, party) \/ (obj[u].ptAct # NULL /\ obj[u].id = id))
      <3>1. obj[u].id # PcId
        BY Objects, Facts, CharactersAssumption
      <3>2. CASE obj[u].id = id
        <4>1. obj[u].ptAct # NULL => m.ptAct = obj[u].ptAct
          BY <1>4, <2>2, <3>1, <3>2
        <4>2. obj[u].ptAct # NULL => party'[p].use /\ party'[p].id = obj[u].id
                                     /\ party'[p].ptAct = obj[u].ptAct
          BY <1>4, <1>5, <3>2, <4>1
        <4> QED
          BY <1>9, <3>2, <4>2 DEF Member1
      <3>3. CASE obj[u].id # id
        <4>1. ASSUME NEW r \in Place
              PROVE  party'[r].use /\ party'[r].id = obj[u].id
                        <=> party[r].use /\ party[r].id = obj[u].id
          <5>1. party[p].use => party[p].id = id
            BY <1>1
          <5> QED
            BY <1>4, <1>5, <3>3, <5>1
        <4>2. \A r \in Place : party'[r].use /\ party'[r].id = obj[u].id => party'[r] = party[r]
          BY <1>4, <1>5, <3>3
        <4> QED
          BY <1>9, <3>3, <4>1, <4>2 DEF Member1
      <3> QED
        BY <3>2, <3>3
    <2>6. ASSUME NEW r \in Place, party'[r].ptAct # NULL
          PROVE  /\ party'[r].use
                 /\ party'[r].id = PcId => party'[r].ptAct = pcAct
                 /\ party'[r].id # PcId => \E u \in Slot : /\ obj'[u].use /\ obj'[u].id = party'[r].id
                                                           /\ obj'[u].ptAct = party'[r].ptAct
      <3>1. CASE r = p
        <4>1. party'[r].use /\ party'[r].id = id /\ party'[r].ptAct = a
          BY <1>4, <1>5, <3>1
        <4>2. id = PcId => a = pcAct
          BY DEF a
        <4> QED
          BY <1>9, <2>3, <2>6, <4>1, <4>2
      <3>2. CASE r # p
        BY <1>5, <1>9, <2>1, <2>6, <3>2 DEF Together
      <3> QED
        BY <3>1, <3>2
    <2>7. \A u \in Slot : obj'[u].party <=> Member1(obj', u, party')
      BY <1>9, <2>1, <2>4, <2>5 DEF Together
    <2>8. \A u \in Slot : ~ obj[u].use => obj'[u] = obj[u]
      BY <1>9, <1>10, <2>4, InUse
    <2> QED
      BY <2>6, <2>7, <2>8 DEF Together
  <1>11. \A u \in Slot : /\ obj'[u].use = obj[u].use /\ obj'[u].id = obj[u].id
                         /\ obj'[u].ptAct = obj[u].ptAct
    BY <1>9
  <1> QED
    BY <1>1, <1>5, <1>7, <1>8, <1>9, <1>10, <1>11, PartyKeeps

LEMMA EmptyIs ==
  ASSUME EmptyTable
  PROVE  /\ obj' \in [Slot -> Object] /\ \A s \in Slot : obj'[s] = NoObject
         /\ TableOK(Table)' /\ Single(Table, wasFull)' /\ wasFull' = FALSE /\ taken' = taken
  <1>1. /\ obj' = [s \in Slot |-> NoObject] /\ count' = 0 /\ freeSlot' = 0 /\ tail' = 0
        /\ wasFull' = FALSE /\ taken' = taken
    BY DEF EmptyTable
  <1>2. /\ Table'.obj = obj' /\ Table'.count = 0 /\ Table'.free = 0 /\ Table'.tail = 0
    BY <1>1 DEF Table
  <1>3. /\ obj' \in [Slot -> Object]
        /\ \A s \in Slot : obj'[s] = NoObject /\ ~ obj'[s].use
    BY <1>1, Objects
  <1>4. 0 \in Slot /\ 0 \in 0..MAX_CHAROBJ
    BY Objects, CharactersAssumption
  <1>5. Used(Table)' = {} /\ Cardinality({}) = 0
    BY <1>2, <1>3, FS_EmptySet DEF Used
  <1>6. TableOK(Table)'
    BY <1>2, <1>3, <1>4 DEF TableOK
  <1>7. Single(Table, wasFull)'
    BY <1>2, <1>3, <1>4, <1>5 DEF Single
  <1> QED
    BY <1>1, <1>3, <1>6, <1>7

LEMMA UnseenIs ==
  ASSUME party \in [Place -> Member], Places(party)
  PROVE  /\ PartyUnseen \in [Place -> Member] /\ Places(PartyUnseen)
         /\ \A p \in Place : PartyUnseen[p].ptAct = NULL
  <1>1. ASSUME NEW p \in Place
        PROVE  /\ PartyUnseen[p] \in Member /\ PartyUnseen[p].use = party[p].use
               /\ PartyUnseen[p].id = party[p].id /\ PartyUnseen[p].ptAct = NULL
               /\ ~ party[p].use => PartyUnseen[p] = Nobody
    <2>1. PartyUnseen[p] = [party[p] EXCEPT !.ptAct = NULL] /\ party[p] \in Member
      BY DEF PartyUnseen
    <2> HIDE DEF PartyUnseen
    <2>2. /\ PartyUnseen[p] \in Member /\ PartyUnseen[p].use = party[p].use
          /\ PartyUnseen[p].id = party[p].id /\ PartyUnseen[p].ptAct = NULL
      BY <2>1 DEF Member
    <2>3. ASSUME ~ party[p].use
          PROVE  PartyUnseen[p] = Nobody
      <3>1. party[p] = Nobody
        BY <2>3 DEF Places
      <3>2. party[p].ptAct = NULL
        BY <3>1, Objects
      <3>3. [party[p] EXCEPT !.ptAct = NULL] = party[p]
        BY <2>1, <3>2 DEF Member
      <3> QED
        BY <2>1, <3>1, <3>3
    <2> QED
      BY <2>2, <2>3
  <1>2. PartyUnseen \in [Place -> Member]
    BY <1>1 DEF PartyUnseen
  <1>3. Places(PartyUnseen)
    BY <1>1 DEF Places
  <1> QED
    BY <1>1, <1>2, <1>3

\* Everything on the map goes, and perhaps the pc.
LEMMA EmptiedKeeps ==
  ASSUME IInv, cursor = NULL, UNCHANGED <<list, cursor, ran, func>>, EmptyTable,
         NEW gone, gone \subseteq Range(list), dead' = dead \cup gone,
         \A s \in Slot : obj[s].ptAct # NULL => obj[s].ptAct \in gone,
         pcAct' = pcAct \/ pcAct' = NULL, pcAct # NULL => (pcAct' = NULL <=> pcAct \in gone),
         screen' \in Screens, screen' \in {"encounter", "battle", "out"} => pcAct' = NULL,
         party' \in [Place -> Member], Places(party'),
         \A p \in Place : party'[p].ptAct \in {party[p].ptAct, NULL},
         screen' # "out" => \A p \in Place : party'[p].ptAct = NULL
  PROVE  IInv'
  <1> DEFINE rest == Bodies \ gone
  <1>1. /\ obj' \in [Slot -> Object]
        /\ \A s \in Slot : obj'[s] = NoObject /\ ~ obj'[s].use /\ obj'[s].ptAct = NULL
                           /\ ~ obj'[s].party
        /\ TableOK(Table)' /\ Single(Table, wasFull)' /\ wasFull' = FALSE /\ taken' = taken
    BY EmptyIs, Objects
  <1>2. Linked'
    BY Facts, RestLinked DEF IInv
  <1>3. Range(list)' = Range(list) /\ Live' = Live \ gone /\ Bodies' = rest
    BY DEF Live, Bodies
  <1>4. pcAct' \in Action \cup {NULL}
    BY Facts
  <1>5. dead' \subseteq Range(list)'
    BY <1>3, Facts
  <1>6. Typed'
    BY <1>1, <1>3, <1>4, <1>5 DEF IInv, Typed
  <1>7. Hidden'
    BY <1>1 DEF Hidden
  <1>8. Reserve'
    <2>1. Pointers' \subseteq Pointers \cup {NULL}
      BY <1>1 DEF Pointers
    <2>2. Reach' \subseteq Reach \cup {NULL}
      BY <1>3, <2>1 DEF Reach
    <2>3. (Pets \ dead)' \subseteq Pets \ dead
      BY <1>3 DEF Pets
    <2> QED
      BY <2>2, <2>3, ReservedAsWas
  <1>9. NULL \notin Bodies
    BY Facts, ActionAssumption
  <1>10. /\ rest \subseteq Bodies /\ (pcAct' = pcAct \/ pcAct' = NULL)
         /\ pcAct' # NULL => pcAct' \in rest
         /\ pcAct \in rest => pcAct' = pcAct
         /\ \A s \in Slot : obj[s].ptAct \notin rest /\ obj'[s].ptAct = NULL
         /\ \A a \in Bodies : func[a].does = "charProc" => func[a].slot \in Slot
    BY <1>1, <1>9, Facts DEF Owned
  <1>11. /\ Owned(obj', pcAct', rest)
         /\ Named(obj, pcAct, Bodies, func) => Named(obj', pcAct', rest, func)
    <2> DEFINE c == pcAct'
               n == obj'
    <2>1. /\ rest \subseteq Bodies /\ (c = pcAct \/ c = NULL)
          /\ c # NULL => c \in rest
          /\ pcAct \in rest => c = pcAct
          /\ \A s \in Slot : obj[s].ptAct \notin rest /\ n[s].ptAct = NULL
      BY <1>10
    <2>2. \A a \in Bodies : func[a].does = "charProc" => func[a].slot \in Slot
      BY <1>10
    <2>3. Owned(obj, pcAct, Bodies)
      BY Facts
    <2> HIDE DEF c, n, rest
    <2>4. Owned(n, c, rest)
      BY <2>1, <2>3, EmptiedOwners
    <2>5. Named(obj, pcAct, Bodies, func) => Named(n, c, rest, func)
      BY <2>1, <2>2, <2>3, EmptiedOwners
    <2> QED
      BY <2>4, <2>5 DEF n, c
  <1> HIDE DEF rest
  <1>12. Owned(obj, pcAct, Bodies)'
    BY <1>3, <1>11 DEF Owned
  <1>13. Agreed'
    <2> SUFFICES ASSUME ~ taken
                 PROVE  /\ Single(Table, wasFull)'
                        /\ Named(obj, pcAct, Bodies, func)'
                        /\ (screen # "out" => Together(obj, pcAct, party))'
      BY <1>1 DEF Agreed
    <2>1. Named(obj', pcAct', rest, func')
      BY <1>11 DEF IInv, Agreed
    <2>2. screen' # "out" => Together(obj', pcAct', party')
      BY <1>1 DEF Together, Member1
    <2> QED
      BY <1>1, <1>3, <2>1, <2>2 DEF Named, Together, Member1
  <1> QED
    BY <1>2, <1>6, <1>7, <1>8, <1>12, <1>13 DEF IInv

LEMMA AnotherMapKeeps ==
  ASSUME IInv, MapC_recv
  PROVE  IInv'
  <1> DEFINE gone == (ObjectActs \cup (IF screen = "login" THEN {} ELSE {pcAct})) \ {NULL}
  <1>1. /\ cursor = NULL /\ screen \in {"login", "field", "back"}
        /\ dead' = dead \cup gone
        /\ pcAct' = IF screen = "login" THEN pcAct ELSE NULL
        /\ EmptyTable /\ party' = PartyUnseen
        /\ screen' = IF screen = "login" THEN "login" ELSE "field"
        /\ UNCHANGED <<list, cursor, ran, func>>
    BY DEF MapC_recv, Handling, Mark
  <1>2. /\ gone \subseteq Range(list)
        /\ \A s \in Slot : obj[s].ptAct # NULL => obj[s].ptAct \in gone
        /\ pcAct # NULL => (pcAct' = NULL <=> pcAct \in gone)
    BY <1>1, Facts DEF ObjectActs, Owned, Live
  <1>3. /\ screen' \in Screens /\ (screen' \in {"encounter", "battle", "out"} => pcAct' = NULL)
        /\ (pcAct' = pcAct \/ pcAct' = NULL)
    BY <1>1 DEF Screens
  <1>4. /\ party' \in [Place -> Member] /\ Places(party')
        /\ \A p \in Place : party'[p].ptAct = NULL
    BY <1>1, Facts, UnseenIs DEF IInv
  <1>5. cursor = NULL /\ dead' = dead \cup gone /\ EmptyTable /\ UNCHANGED <<list, cursor, ran, func>>
    BY <1>1
  <1> HIDE DEF gone
  <1>6. \A p \in Place : party'[p].ptAct \in {party[p].ptAct, NULL}
    BY <1>4
  <1>7. screen' # "out" => \A p \in Place : party'[p].ptAct = NULL
    BY <1>4
  <1>8. pcAct' = pcAct \/ pcAct' = NULL
    BY <1>3
  <1> QED
    <2>1. CASE pcAct' = pcAct
      BY <1>2, <1>3, <1>4, <1>5, <1>6, <1>7, <2>1, EmptiedKeeps
    <2>2. CASE pcAct' = NULL
      BY <1>2, <1>3, <1>4, <1>5, <1>6, <1>7, <2>2, EmptiedKeeps
    <2> QED
      BY <1>8, <2>1, <2>2

LEMMA EncounterKeeps ==
  ASSUME IInv, Encounter
  PROVE  IInv'
  <1> DEFINE gone == (ObjectActs \cup {pcAct}) \ {NULL}
  <1>1. /\ cursor = NULL /\ dead' = dead \cup gone /\ pcAct' = NULL
        /\ EmptyTable /\ party' = PartyUnseen /\ screen' = "encounter"
        /\ UNCHANGED <<list, cursor, ran, func>>
    BY DEF Encounter, Mark
  <1>2. /\ gone \subseteq Range(list)
        /\ \A s \in Slot : obj[s].ptAct # NULL => obj[s].ptAct \in gone
        /\ pcAct # NULL => (pcAct' = NULL <=> pcAct \in gone)
    BY <1>1, Facts DEF ObjectActs, Owned, Live
  <1>3. screen' \in Screens
    BY <1>1 DEF Screens
  <1>4. /\ party' \in [Place -> Member] /\ Places(party')
        /\ \A p \in Place : party'[p].ptAct = NULL
    BY <1>1, Facts, UnseenIs DEF IInv
  <1> HIDE DEF gone
  <1> QED
    BY <1>1, <1>2, <1>3, <1>4, EmptiedKeeps

LEMMA LogoutKeeps ==
  ASSUME IInv, Logout
  PROVE  IInv'
  <1> DEFINE gone == Range(list)
  <1>1. /\ cursor = NULL /\ dead' = dead \cup gone /\ pcAct' = NULL
        /\ EmptyTable /\ party' = party /\ screen' = "out"
        /\ UNCHANGED <<list, cursor, ran, func>>
    BY Facts DEF Logout
  <1>2. /\ gone \subseteq Range(list)
        /\ \A s \in Slot : obj[s].ptAct # NULL => obj[s].ptAct \in gone
        /\ pcAct # NULL => (pcAct' = NULL <=> pcAct \in gone)
    BY <1>1, Facts DEF Owned, Live
  <1>3. screen' \in Screens /\ party' \in [Place -> Member] /\ Places(party')
        /\ \A p \in Place : party'[p].ptAct \in {party[p].ptAct, NULL}
    BY <1>1, Facts DEF Screens, IInv
  <1> HIDE DEF gone
  <1> QED
    BY <1>1, <1>2, <1>3, EmptiedKeeps

LEMMA LoginKeeps ==
  ASSUME IInv, Login
  PROVE  IInv'
  <1> DEFINE gone == {}
  <1>1. /\ cursor = NULL /\ dead' = dead \cup gone /\ pcAct' = NULL
        /\ EmptyTable /\ party' = NoParty /\ screen = "out" /\ screen' = "login"
        /\ UNCHANGED <<list, cursor, ran, func>>
    BY DEF Login, listVars
  <1>2. /\ gone \subseteq Range(list) /\ pcAct = NULL
        /\ \A s \in Slot : obj[s].ptAct = NULL
    BY <1>1 DEF IInv, Hidden
  <1>3. screen' \in Screens /\ party' \in [Place -> Member] /\ Places(party')
        /\ \A p \in Place : party'[p].ptAct = NULL
    BY <1>1, NoPartyIs DEF Screens
  <1> HIDE DEF gone
  <1> QED
    BY <1>1, <1>2, <1>3, EmptiedKeeps

\* DeathAllAction with nothing on the map.
LEMMA DeathAllKeeps ==
  ASSUME IInv, cursor = NULL, UNCHANGED <<list, cursor, ran, table, pcAct, party, func>>,
         dead' = Range(list), screen \in {"encounter", "battle"}, screen' \in {"battle", "back"}
  PROVE  IInv'
  <1>1. UNCHANGED <<obj, count, freeSlot, tail, wasFull, taken, Table>>
    BY DEF table, Table
  <1>2. Linked'
    BY Facts, RestLinked DEF IInv
  <1>3. Bodies' = {} /\ (Pets \ dead)' = {} /\ Range(list)' = Range(list)
    BY DEF Bodies, Live, Pets
  <1>4. pcAct = NULL /\ \A s \in Slot : ~ obj[s].use /\ obj[s].ptAct = NULL
    BY DEF IInv, Hidden
  <1>5. Typed'
    BY <1>1, <1>3 DEF IInv, Typed, TableOK, Screens
  <1>6. Owned(obj, pcAct, Bodies)'
    BY <1>1, <1>4 DEF Owned
  <1>7. Hidden' /\ Places(party)'
    BY <1>1, <1>4 DEF Hidden, IInv, Places
  <1>8. Reserve'
    BY <1>1, <1>3, ReservedAsWas DEF Reach, Pointers
  <1>9. Agreed'
    <2> SUFFICES ASSUME ~ taken
                 PROVE  /\ Single(Table, wasFull)'
                        /\ Named(obj, pcAct, Bodies, func)'
                        /\ Together(obj, pcAct, party)'
      BY <1>1 DEF Agreed
    <2>1. Single(Table, wasFull) /\ Together(obj, pcAct, party)
      BY DEF IInv, Agreed
    <2>2. Single(Table, wasFull)'
      BY <1>1, <2>1 DEF Single, Used
    <2>3. Named(obj, pcAct, Bodies, func)'
      BY <1>1, <1>3, <1>4 DEF Named
    <2> QED
      BY <1>1, <2>1, <2>2, <2>3 DEF Together, Member1
  <1> QED
    BY <1>2, <1>5, <1>6, <1>7, <1>8, <1>9 DEF IInv

LEMMA BattleStartKeeps ==
  ASSUME IInv, BattleStart
  PROVE  IInv'
  BY DeathAllKeeps DEF BattleStart

LEMMA BattleEndKeeps ==
  ASSUME IInv, BattleEnd
  PROVE  IInv'
  <1>1. /\ screen = "battle" /\ obj' = [s \in Slot |-> [obj[s] EXCEPT !.ptAct = NULL]]
        /\ UNCHANGED <<count, freeSlot, tail, wasFull, taken>>
    BY DEF BattleEnd
  <1>2. ASSUME NEW s \in Slot
        PROVE  obj'[s] = obj[s]
    <2>1. obj[s].ptAct = NULL /\ obj[s] \in Object
      BY <1>1, Facts DEF IInv, Hidden
    <2>2. obj'[s] = [obj[s] EXCEPT !.ptAct = NULL]
      BY <1>1
    <2> QED
      BY <2>1, <2>2 DEF Object
  <1>3. obj' = obj
    BY <1>1, <1>2, Facts
  <1>4. UNCHANGED table
    BY <1>1, <1>3 DEF table
  <1> QED
    BY <1>4, DeathAllKeeps DEF BattleEnd

LEMMA InitInv ==
  ASSUME Init
  PROVE  IInv
  <1>1. /\ list = <<>> /\ dead = {} /\ cursor = NULL /\ ran = {}
        /\ obj = [s \in Slot |-> NoObject] /\ count = 0 /\ freeSlot = 0 /\ tail = 0 /\ pcAct = NULL
        /\ party = [p \in Place |-> Nobody] /\ func = [a \in Action |-> NoFunc] /\ screen = "out"
        /\ wasFull = FALSE /\ taken = FALSE
    BY DEF Init, ListInit
  <1>2. Linked
    <2>1. list \in Seq(Action) /\ IsInjective(list) /\ Range(list) = {}
      BY <1>1 DEF IsInjective, Range
    <2> QED
      BY <1>1, <2>1 DEF Linked, PassSound
  <1>3. Range(list) = {}
    BY <1>1 DEF Range
  <1>4. /\ Table.obj = obj /\ Table.count = 0 /\ Table.free = 0 /\ Table.tail = 0
    BY <1>1 DEF Table
  <1>5. /\ obj \in [Slot -> Object]
        /\ \A s \in Slot : obj[s] = NoObject /\ ~ obj[s].use /\ obj[s].ptAct = NULL /\ ~ obj[s].party
    BY <1>1, Objects
  <1>6. 0 \in Slot /\ 0 \in 0..MAX_CHAROBJ
    BY Objects, CharactersAssumption
  <1>7. party = NoParty /\ party \in [Place -> Member] /\ Places(party)
    BY <1>1, NoPartyIs DEF NoParty
  <1>8. Typed
    <2>1. TableOK(Table)
      BY <1>4, <1>5, <1>6 DEF TableOK
    <2>2. func \in [Action -> Funcs]
      BY <1>1, Does
    <2> QED
      BY <1>1, <1>3, <1>7, <2>1, <2>2 DEF Typed, Screens
  <1>9. Bodies = {} /\ Pets \ dead = {}
    BY <1>3 DEF Bodies, Live, Pets
  <1>10. Owned(obj, pcAct, Bodies) /\ Hidden
    BY <1>1, <1>5 DEF Owned, Hidden
  <1>11. Reserve
    <2>1. Unused(Pointers) \subseteq Action
      BY DEF Unused
    <2>2. IsFiniteSet(Unused(Pointers)) /\ Cardinality(Unused(Pointers)) \in Nat
      BY <2>1, ActionAssumption, FS_Subset, FS_CardinalityType
    <2> QED
      BY <1>9, <2>2, FS_EmptySet DEF Reserve
  <1>12. Agreed
    <2>1. Used(Table) = {} /\ Cardinality({}) = 0
      BY <1>4, <1>5, FS_EmptySet DEF Used
    <2>2. Single(Table, wasFull)
      BY <1>4, <1>5, <1>6, <2>1 DEF Single
    <2>3. Named(obj, pcAct, Bodies, func)
      BY <1>1, <1>5, <1>9 DEF Named
    <2> QED
      BY <1>1, <2>2, <2>3 DEF Agreed
  <1> QED
    BY <1>2, <1>7, <1>8, <1>10, <1>11, <1>12 DEF IInv

\* The pet has come: its object gets its action, in the midst of the pass.
LEMMA Restored ==
  ASSUME IInv, Called("petProc"), Advance, NEW s \in Slot, obj[s].use, obj[s].ptAct = NULL,
         Mark({cursor}), list' = GetAction(New),
         func' = [func EXCEPT ![New] = CharProc(s, FALSE)], obj' = [obj EXCEPT ![s].ptAct = New],
         UNCHANGED <<count, freeSlot, tail, wasFull, taken, pcAct, party, screen>>
  PROVE  IInv'
  <1> DEFINE n == [obj[s] EXCEPT !.ptAct = New]
             pets == (Pets \ dead) \ {cursor}
  <1>1. /\ cursor # NULL /\ cursor \in Range(list) /\ cursor \notin dead /\ cursor \in Action
        /\ func[cursor].does = "petProc" /\ cursor \in Pets \ dead /\ cursor \in Live
    BY Facts DEF Called, IInv, Linked, PassSound, Pets, Live
  <1>2. /\ IsFiniteSet(pets) /\ Cardinality(Pets \ dead) \in Nat /\ Cardinality(pets) \in Nat
        /\ Cardinality(pets) + 1 =< Cardinality(Unused(Pointers))
    <2>1. IsFiniteSet(Pets \ dead) /\ Cardinality(Pets \ dead) \in Nat
      BY Counts
    <2>2. IsFiniteSet(pets) /\ Cardinality(pets) = Cardinality(Pets \ dead) - 1
      BY <1>1, <2>1, FS_RemoveElement
    <2>3. Cardinality(pets) \in Nat
      BY <2>2, FS_CardinalityType
    <2>4. Cardinality(Unused(Pointers)) >= Cardinality(Pets \ dead)
      BY DEF IInv, Reserve
    <2> HIDE DEF pets
    <2> QED
      BY <2>1, <2>2, <2>3, <2>4, Counts
  <1> HIDE DEF pets
  <1>3. /\ New \in Action /\ New # NULL /\ New \notin Range(list) /\ New \notin Bodies
        /\ New \notin dead /\ New \notin Live
    <2>1. Cardinality(Unused(Pointers)) > 0
      BY <1>2, Counts
    <2> QED
      BY <2>1, NewIs
  <1>4. /\ list' = Append(list, New) /\ list' \in Seq(Action)
        /\ Range(list)' = Range(list) \cup {New}
    <2>1. list' = Append(list, New)
      BY DEF GetAction
    <2> QED
      BY <1>3, <2>1, Facts, Appended
  <1>5. Linked'
    BY <1>1, <1>3, <1>4, AdvanceLinked DEF IInv
  <1>6. /\ func' \in [Action -> Funcs] /\ func'[New] = CharProc(s, FALSE)
        /\ func'[New].does = "charProc" /\ \A a \in Action : a # New => func'[a] = func[a]
    <2>1. CharProc(s, FALSE) \in Funcs /\ CharProc(s, FALSE).does = "charProc"
      BY Does
    <2> QED
      BY <1>3, <2>1, Facts
  <1>7. dead' = dead \cup {cursor} /\ Live' = (Live \ {cursor}) \cup {New}
    BY <1>1, <1>3, <1>4 DEF Mark, Live
  <1>8. \A a \in Range(list) : func'[a] = func[a]
    BY <1>3, <1>6, Facts
  <1>9. Bodies' = Bodies \cup {New}
    <2>1. Bodies' = {a \in Live' : func'[a].does # "petProc"}
      BY DEF Bodies
    <2>2. \A a \in Live : func'[a] = func[a]
      BY <1>8 DEF Live
    <2> QED
      BY <1>1, <1>6, <1>7, <2>1, <2>2 DEF Bodies
  <1>10. (Pets \ dead)' \subseteq pets
    BY <1>4, <1>6, <1>7, <1>8 DEF Pets, pets
  <1>11. n \in Object /\ n.use /\ n.id = obj[s].id /\ n.party = obj[s].party /\ n.ptAct = New
    <2>1. obj[s] \in Object
      BY Facts
    <2> QED
      BY <1>3, <2>1 DEF Object
  <1>12. obj' = [obj EXCEPT ![s] = n]
    OBVIOUS
  <1> HIDE DEF n
  <1>13. obj' \in [Slot -> Object] /\ obj'[s] = n /\ \A u \in Slot : u # s => obj'[u] = obj[u]
    BY <1>11, <1>12, Facts
  <1>14. /\ Table'.obj = obj' /\ Table'.count = count /\ Table'.free = freeSlot /\ Table'.tail = tail
         /\ Table.obj = obj /\ Table.count = count /\ Table.free = freeSlot /\ Table.tail = tail
    BY DEF Table
  <1>15. Typed'
    <2>1. TableOK(Table)'
      BY <1>13, <1>14 DEF IInv, Typed, TableOK
    <2>2. dead' \subseteq Range(list)'
      BY <1>1, <1>4, <1>7, Facts
    <2>3. \A a \in Range(list)' : func'[a].does # "nothing"
      BY <1>4, <1>6, <1>8 DEF IInv, Typed
    <2> QED
      BY <1>6, <2>1, <2>2, <2>3 DEF IInv, Typed
  <1>16. /\ n.ptAct \in (Action \ Bodies) \cup {NULL} /\ Bodies \subseteq Action
         /\ Bodies \cup ({n.ptAct} \ {NULL}) = Bodies \cup {New}
    BY <1>3, <1>11, Facts
  <1>17. Owned([obj EXCEPT ![s] = n], pcAct, Bodies \cup ({n.ptAct} \ {NULL}))
    BY <1>11, <1>16, Facts, AddedOwners
  <1>18. Owned(obj, pcAct, Bodies)'
    BY <1>9, <1>12, <1>16, <1>17 DEF Owned
  <1>19. screen \notin {"encounter", "battle", "out"}
    BY DEF IInv, Hidden
  <1>20. Hidden' /\ Places(party)'
    BY <1>19 DEF Hidden, IInv, Places
  <1>21. Reserve'
    <2>1. \A u \in Slot : obj'[u].ptAct \in {obj[u].ptAct, New}
      BY <1>11, <1>13
    <2>2. Pointers' \subseteq Pointers \cup {New}
      BY <2>1 DEF Pointers
    <2>3. Reach' \subseteq Reach \cup {New} \cup {NULL}
      BY <1>4, <2>2 DEF Reach
    <2> QED
      BY <1>2, <1>10, <2>3, ReservedNew
  <1>22. Agreed'
    <2> SUFFICES ASSUME ~ taken
                 PROVE  /\ Single(Table, wasFull)'
                        /\ Named(obj, pcAct, Bodies, func)'
                        /\ Together(obj, pcAct, party)'
      BY DEF Agreed
    <2>1. /\ Single(Table, wasFull) /\ Named(obj, pcAct, Bodies, func)
          /\ Together(obj, pcAct, party)
      BY <1>19 DEF IInv, Agreed
    <2>2. Single(Table, wasFull)'
      <3>1. \A u \in Slot : /\ obj'[u].use = obj[u].use /\ obj'[u].id = obj[u].id
                            /\ ~ obj[u].use => obj'[u] = obj[u]
        BY <1>11, <1>13
      <3>2. Used(Table)' = Used(Table)
        BY <1>14, <3>1 DEF Used
      <3>3. freeSlot \in Slot
        BY <1>14 DEF IInv, Typed, TableOK
      <3> QED
        BY <1>14, <2>1, <3>1, <3>2, <3>3 DEF Single
    <2>3. Named([obj EXCEPT ![s] = n], pcAct, Bodies \cup ({n.ptAct} \ {NULL}),
                [func EXCEPT ![n.ptAct] = CharProc(s, FALSE)])
      BY <1>3, <1>11, <1>16, <2>1, Facts, AddedOwners
    <2>4. Named(obj', pcAct, Bodies', func')
      BY <1>9, <1>11, <1>12, <1>16, <2>3
    <2>5. Together([obj EXCEPT ![s] = n], pcAct, party)
      <3>1. ~ n.party
        BY <1>11, <2>1 DEF Together, Member1
      <3>2. ASSUME NEW p \in Place, party[p].ptAct # NULL, party[p].id = n.id
            PROVE  FALSE
        <4>1. party[p].id # PcId
          BY <1>11, <3>2, Facts, Objects, CharactersAssumption
        <4>2. PICK u \in Slot : obj[u].use /\ obj[u].id = party[p].id /\ obj[u].ptAct = party[p].ptAct
          BY <2>1, <3>2, <4>1 DEF Together
        <4>3. u = s
          BY <1>11, <3>2, <4>2, InUse
        <4> QED
          BY <3>2, <4>2, <4>3
      <3> QED
        BY <1>11, <2>1, <3>1, <3>2, Facts, AddedAlone
    <2>6. Together(obj', pcAct, party)
      BY <1>12, <2>5
    <2>7. pcAct' = pcAct /\ party' = party
      OBVIOUS
    <2>8. Together(obj, pcAct, party)'
      BY <2>6, <2>7 DEF Together, Member1
    <2>9. Named(obj, pcAct, Bodies, func)'
      BY <2>4, <2>7 DEF Named
    <2> QED
      BY <2>2, <2>8, <2>9
  <1> QED
    BY <1>5, <1>15, <1>18, <1>20, <1>21, <1>22 DEF IInv

LEMMA EndPetKeeps ==
  ASSUME IInv, EndPet
  PROVE  IInv'
  <1> DEFINE id == func[cursor].id
  <1>1. /\ Called("petProc") /\ Mark({cursor}) /\ Advance
        /\ UNCHANGED <<count, freeSlot, tail, wasFull, taken, pcAct, party, screen>>
        /\ IF SlotsOf(id) # {} /\ ActOf(id) = NULL
           THEN /\ list' = GetAction(New)
                /\ func' = [func EXCEPT ![New] = CharProc(SlotOf(id), FALSE)]
                /\ obj' = [obj EXCEPT ![SlotOf(id)].ptAct = New]
           ELSE UNCHANGED <<list, func, obj>>
    BY DEF EndPet
  <1> HIDE DEF id
  <1>2. CASE SlotsOf(id) # {} /\ ActOf(id) = NULL
    <2> DEFINE s == SlotOf(id)
    <2>1. s \in Slot /\ obj[s].use /\ obj[s].ptAct = NULL
      BY <1>2, Found
    <2>2. /\ list' = GetAction(New) /\ func' = [func EXCEPT ![New] = CharProc(s, FALSE)]
          /\ obj' = [obj EXCEPT ![s].ptAct = New]
      BY <1>1, <1>2
    <2> HIDE DEF s
    <2> QED
      BY <1>1, <2>1, <2>2, Restored
  <1>3. CASE ~ (SlotsOf(id) # {} /\ ActOf(id) = NULL)
    <2>1. UNCHANGED <<list, func, obj>>
      BY <1>1, <1>3
    <2>2. /\ cursor # NULL /\ cursor \in Range(list) /\ cursor \notin dead
          /\ func[cursor].does = "petProc"
      BY <1>1 DEF Called, IInv, Linked, PassSound
    <2>3. /\ Range(list)' = Range(list) /\ func' = func /\ dead' = dead \cup {cursor}
          /\ Live' = Live \ {cursor}
      BY <1>1, <2>1, <2>2, Facts, ActionAssumption DEF Mark, Live
    <2>4. Linked'
      BY <1>1, <2>1, <2>2, AdvanceLinked DEF IInv
    <2>5. UNCHANGED <<table, pcAct, party, screen>>
      BY <1>1, <2>1 DEF table
    <2>6. dead' \subseteq Range(list)' /\ \A a \in Range(list) : func[a].does # "nothing"
      BY <2>2, <2>3, Facts DEF IInv, Typed
    <2> QED
      BY <2>2, <2>3, <2>4, <2>5, <2>6, Facts, PassKeeps
  <1> QED
    BY <1>2, <1>3

\* What counts off n of the members of S in their order, each once.
CountsOff(f, n, S) ==
    /\ f \in [1..n -> S] /\ f \in Seq(S) /\ Len(f) = n /\ DOMAIN f = 1..n
    /\ \A i, j \in 1..n : f[i] = f[j] => i = j
    /\ IsInjective(f) /\ Range(f) \subseteq S
    /\ \A i \in 1..n : f[i] \in Range(f)
    /\ \A x \in Range(f) : \E i \in 1..n : f[i] = x
    /\ IsFiniteSet(Range(f)) /\ Cardinality(Range(f)) =< n
    /\ IsFiniteSet(S) /\ Cardinality(S) = n => Range(f) = S

LEMMA AscendingIs ==
  ASSUME NEW S, S \subseteq Nat, NEW k \in Nat, NEW f \in Ascending(k, S)
  PROVE  CountsOff(f, k, S)
  <1>1. f \in [1..k -> S] /\ \A i, j \in 1..k : i < j => f[i] < f[j]
    BY DEF Ascending
  <1>2. f \in Seq(S) /\ Len(f) = k /\ DOMAIN f = 1..k
    BY <1>1
  <1>3. ASSUME NEW i \in 1..k, NEW j \in 1..k, f[i] = f[j]
        PROVE  i = j
    <2>1. f[i] \in Nat /\ f[j] \in Nat
      BY <1>1
    <2>2. ~ (i < j) /\ ~ (j < i)
      BY <1>1, <1>3, <2>1
    <2> QED
      BY <2>2
  <1>4. IsInjective(f)
    BY <1>2, <1>3 DEF IsInjective
  <1>5. /\ Range(f) \subseteq S /\ \A i \in 1..k : f[i] \in Range(f)
        /\ \A x \in Range(f) : \E i \in 1..k : f[i] = x
    BY <1>1, <1>2 DEF Range
  <1>6. IsFiniteSet(1..k) /\ Cardinality(1..k) = k
    BY FS_Interval
  <1>7. IsFiniteSet(Range(f)) /\ Cardinality(Range(f)) =< k
    <2>1. f \in Surjection(1..k, Range(f))
      BY <1>1, <1>5 DEF Surjection
    <2> QED
      BY <1>6, <2>1, FS_Surjection
  <1>8. ASSUME IsFiniteSet(S), Cardinality(S) = k
        PROVE  Range(f) = S
    <2>1. f \in Injection(1..k, S)
      BY <1>1, <1>4 DEF Injection
    <2>2. f \in Surjection(1..k, S)
      BY <1>6, <1>8, <2>1, FS_Injection
    <2> QED
      BY <1>2, <1>5, <2>2 DEF Surjection, Range
  <1> QED
    BY <1>1, <1>2, <1>3, <1>4, <1>5, <1>7, <1>8 DEF CountsOff

\* The objects get their actions back, the pc its own if it has none; h: who
\* gets which.
GivesBack(h, more, extra) ==
    /\ h \in [Unseen -> more] /\ \A a \in more : \E s \in Unseen : h[s] = a
    /\ more \subseteq Unused(Pointers) /\ pcAct' \notin more
    /\ IsFiniteSet(more) /\ Cardinality(more) =< Cardinality(Unseen)
    /\ extra = (IF pcAct = NULL THEN {New} ELSE {})
    /\ pcAct' = (IF pcAct = NULL THEN New ELSE pcAct)
    /\ obj' = [s \in Slot |-> IF s \in Unseen THEN [obj[s] EXCEPT !.ptAct = h[s]] ELSE obj[s]]
    /\ \A s \in Unseen : func'[h[s]] = CharProc(s, FALSE)
    /\ \A a \in extra : func'[a] = PcProc
    /\ \A a \in Action \ (more \cup extra) : func'[a] = func[a]
    /\ list' \in Seq(Action) /\ IsInjective(list')
    /\ Range(list') = Range(list) \cup more \cup extra
    /\ func' = [a \in Action |-> func'[a]]

LEMMA GameStartGives ==
  ASSUME IInv, GameStart
  PROVE  \E h, more, extra : GivesBack(h, more, extra)
  <1> DEFINE k == Cardinality(Unseen)
             free == Unused(Pointers) \ {pcAct'}
             extra == IF pcAct = NULL THEN {New} ELSE {}
  <1>1. PICK slots \in Ascending(k, Unseen), acts \in Ascending(k, free) :
          LET at(s) == CHOOSE n \in DOMAIN slots : slots[n] = s
          IN /\ obj' = [s \in Slot |-> IF s \in Unseen THEN [obj[s] EXCEPT !.ptAct = acts[at(s)]]
                                       ELSE obj[s]]
             /\ list' = list \o (IF pcAct = NULL THEN <<New>> ELSE <<>>) \o acts
             /\ func' = [a \in Action |->
                           IF pcAct = NULL /\ a = New THEN PcProc
                           ELSE IF a \in Range(acts)
                           THEN CharProc(slots[Index(acts, a)], FALSE) ELSE func[a]]
    BY DEF GameStart
  <1> DEFINE at(s) == CHOOSE n \in DOMAIN slots : slots[n] = s
             more == Range(acts)
             h == [s \in Unseen |-> acts[at(s)]]
  <1>2. /\ pcAct' = (IF pcAct = NULL THEN New ELSE pcAct)
        /\ Cardinality(Unused(Pointers)) > k + Cardinality(Pets)
    BY DEF GameStart
  <1>3. /\ Unseen \subseteq Nat /\ IsFiniteSet(Unseen) /\ k \in Nat
        /\ free \subseteq Action /\ Action \subseteq Nat /\ free \subseteq Unused(Pointers)
    <2>1. Unseen \in SUBSET Slot
      BY DEF Unseen
    <2>2. IsFiniteSet(Unseen) /\ k \in 0..MAX_CHAROBJ
      BY <2>1, SlotsFinite
    <2>3. k \in Nat
      BY <2>2, CharactersAssumption
    <2> QED
      BY <2>1, <2>2, <2>3, ActionAssumption DEF Slot, Unused
  <1>4. Cardinality(Unused(Pointers)) > 0
    BY <1>2, <1>3, Counts
  <1>5. New \in Action /\ New \notin Range(list) /\ New # NULL
    BY <1>4, NewIs
  <1> HIDE DEF k, free
  <1>6. /\ slots \in [1..k -> Unseen] /\ DOMAIN slots = 1..k
        /\ \A i, j \in 1..k : slots[i] = slots[j] => i = j
        /\ \A s \in Unseen : \E i \in 1..k : slots[i] = s
    <2>1. CountsOff(slots, k, Unseen)
      BY <1>3, AscendingIs
    <2>2. Range(slots) = Unseen
      BY <1>3, <2>1 DEF CountsOff, k
    <2> QED
      BY <2>1, <2>2 DEF CountsOff
  <1>7. /\ acts \in [1..k -> free] /\ acts \in Seq(free) /\ DOMAIN acts = 1..k /\ Len(acts) = k
        /\ \A i, j \in 1..k : acts[i] = acts[j] => i = j
        /\ IsInjective(acts) /\ more \subseteq free
        /\ \A i \in 1..k : acts[i] \in more
        /\ \A x \in more : \E i \in 1..k : acts[i] = x
        /\ IsFiniteSet(more) /\ Cardinality(more) =< k
    <2>1. free \subseteq Nat
      BY <1>3
    <2>2. CountsOff(acts, k, free)
      BY <1>3, <2>1, AscendingIs
    <2> QED
      BY <2>2 DEF CountsOff
  <1>8. \A s \in Unseen : at(s) \in 1..k /\ slots[at(s)] = s
    BY <1>6
  <1>9. \A i \in 1..k : Index(acts, acts[i]) = i
    BY <1>7 DEF Index
  <1>10. \A i \in 1..k : slots[i] \in Unseen /\ at(slots[i]) = i
    BY <1>6, <1>8
  <1>11. obj' = [s \in Slot |-> IF s \in Unseen THEN [obj[s] EXCEPT !.ptAct = acts[at(s)]]
                                ELSE obj[s]]
    BY <1>1
  <1>12. list' = list \o (IF pcAct = NULL THEN <<New>> ELSE <<>>) \o acts
    BY <1>1
  <1>13. func' = [a \in Action |->
                    IF pcAct = NULL /\ a = New THEN PcProc
                    ELSE IF a \in more
                    THEN CharProc(slots[Index(acts, a)], FALSE) ELSE func[a]]
    BY <1>1
  <1> HIDE DEF at, more
  <1>14. h \in [Unseen -> more] /\ \A a \in more : \E s \in Unseen : h[s] = a
    <2>1. \A s \in Unseen : h[s] = acts[at(s)] /\ h[s] \in more
      BY <1>7, <1>8
    <2>2. ASSUME NEW a \in more
          PROVE  \E s \in Unseen : h[s] = a
      <3>1. PICK i \in 1..k : acts[i] = a
        BY <1>7
      <3>2. slots[i] \in Unseen /\ h[slots[i]] = a
        BY <1>10, <2>1, <3>1
      <3> QED
        BY <3>2
    <2> QED
      BY <2>1, <2>2
  <1>15. \A s \in Unseen : h[s] = acts[at(s)]
    OBVIOUS
  <1> HIDE DEF h
  <1>16. obj' = [s \in Slot |-> IF s \in Unseen THEN [obj[s] EXCEPT !.ptAct = h[s]] ELSE obj[s]]
    BY <1>11, <1>15
  <1>17. more \subseteq Unused(Pointers) /\ pcAct' \notin more /\ more \subseteq Action
    BY <1>3, <1>7 DEF free
  <1>18. ASSUME NEW s \in Unseen
         PROVE  func'[h[s]] = CharProc(s, FALSE)
    <2>1. Index(acts, h[s]) = at(s) /\ slots[at(s)] = s
      BY <1>8, <1>9, <1>15
    <2>2. h[s] \in more /\ h[s] \in Action
      BY <1>14, <1>17
    <2>3. ~ (pcAct = NULL /\ h[s] = New)
      BY <1>2, <1>17, <2>2
    <2> QED
      BY <1>13, <2>1, <2>2, <2>3
  <1>19. \A a \in extra : func'[a] = PcProc
    BY <1>5, <1>13
  <1>20. \A a \in Action \ (more \cup extra) : func'[a] = func[a]
    BY <1>13
  <1>21. func' = [a \in Action |-> func'[a]]
    BY <1>13
  <1>22. /\ list' \in Seq(Action) /\ IsInjective(list')
         /\ Range(list') = Range(list) \cup more \cup extra
    <2> DEFINE mid == IF pcAct = NULL THEN <<New>> ELSE <<>>
               m == list \o mid
    <2>1. m \in Seq(Action) /\ IsInjective(m) /\ Range(m) = Range(list) \cup extra
      <3>1. CASE pcAct = NULL
        <4>1. m = Append(list, New)
          BY <3>1, Facts, <1>5
        <4>2. /\ list \in Seq(Action) /\ IsInjective(list) /\ New \in Action \ Range(list)
              /\ extra = {New}
          BY <1>5, <3>1, Facts
        <4> HIDE DEF extra, m
        <4>3. /\ Append(list, New) \in Seq(Action) /\ IsInjective(Append(list, New))
              /\ Range(Append(list, New)) = Range(list) \cup {New}
          BY <4>2, Appended
        <4> QED
          BY <4>1, <4>2, <4>3
      <3>2. CASE pcAct # NULL
        <4>1. m = list
          BY <3>2, Facts
        <4> QED
          BY <3>2, <4>1, Facts
      <3> QED
        BY <3>1, <3>2
    <2>2. list' = m \o acts
      BY <1>12
    <2>3. acts \in Seq(Action)
      <3>1. acts \in [1..k -> Action] /\ k \in Nat
        BY <1>3, <1>7
      <3> QED
        BY <3>1
    <2>4. Range(m) \cap Range(acts) = {}
      <3>1. Range(list) \cap more = {}
        BY <1>17 DEF Unused
      <3>2. extra \cap more = {}
        BY <1>2, <1>17
      <3> QED
        BY <2>1, <3>1, <3>2 DEF more
    <2> HIDE DEF m
    <2> QED
      BY <1>7, <2>1, <2>2, <2>3, <2>4, Joins DEF more
  <1> HIDE DEF extra
  <1>23. extra = (IF pcAct = NULL THEN {New} ELSE {})
    BY DEF extra
  <1>24. IsFiniteSet(more) /\ Cardinality(more) =< Cardinality(Unseen)
    BY <1>7 DEF k
  <1>25. GivesBack(h, more, extra)
    BY <1>2, <1>14, <1>16, <1>17, <1>18, <1>19, <1>20, <1>21, <1>22, <1>23, <1>24
      DEF GivesBack
  <1> QED
    BY <1>25

LEMMA GameStartKeeps ==
  ASSUME IInv, GameStart
  PROVE  IInv'
  <1>1. PICK h, more, extra : GivesBack(h, more, extra)
    BY GameStartGives
  <1> DEFINE c == pcAct'
  <1>2. /\ cursor = NULL /\ screen \in {"login", "back"} /\ screen' = "field"
        /\ party' = Aliased(PcId, c)
        /\ Cardinality(Unused(Pointers)) > Cardinality(Unseen) + Cardinality(Pets)
        /\ UNCHANGED <<dead, cursor, ran, count, freeSlot, tail, wasFull, taken>>
    BY DEF GameStart
  <1>3. /\ h \in [Unseen -> more] /\ more \subseteq Unused(Pointers) /\ c \notin more
        /\ IsFiniteSet(more) /\ Cardinality(more) =< Cardinality(Unseen)
        /\ extra = (IF pcAct = NULL THEN {New} ELSE {}) /\ c = (IF pcAct = NULL THEN New ELSE pcAct)
    BY <1>1 DEF GivesBack
  <1>4. \A a \in more : \E s \in Unseen : h[s] = a
    BY <1>1 DEF GivesBack
  <1>5. obj' = [s \in Slot |-> IF s \in Unseen THEN [obj[s] EXCEPT !.ptAct = h[s]] ELSE obj[s]]
    BY <1>1 DEF GivesBack
  <1>6. /\ \A s \in Unseen : func'[h[s]] = CharProc(s, FALSE)
        /\ \A a \in extra : func'[a] = PcProc
        /\ \A a \in Action \ (more \cup extra) : func'[a] = func[a]
        /\ func' = [a \in Action |-> func'[a]]
    BY <1>1 DEF GivesBack
  <1>7. list' \in Seq(Action) /\ IsInjective(list')
        /\ Range(list)' = Range(list) \cup more \cup extra
    BY <1>1 DEF GivesBack
  <1>8. /\ Unseen \subseteq Slot /\ \A s \in Slot : s \in Unseen <=> obj[s].use /\ obj[s].ptAct = NULL
        /\ Cardinality(Unseen) \in Nat
    <2>1. Unseen \in SUBSET Slot
      BY DEF Unseen
    <2>2. Cardinality(Unseen) \in 0..MAX_CHAROBJ
      BY <2>1, SlotsFinite
    <2> QED
      BY <2>1, <2>2, CharactersAssumption DEF Unseen
  <1>9. /\ New \in Action /\ New # NULL /\ New \notin Range(list) /\ New \notin Live
        /\ New \notin Bodies /\ New \notin dead
    <2>1. Cardinality(Unused(Pointers)) > 0
      BY <1>2, <1>8, Counts
    <2> QED
      BY <2>1, NewIs
  <1> HIDE DEF c
  <1>10. /\ c \in Action /\ c # NULL /\ c \notin more /\ c \in Bodies \cup extra
         /\ more \subseteq Action /\ extra \subseteq Action
         /\ more \cap (Range(list) \cup extra) = {} /\ more \cap Pointers = {}
         /\ extra \cap Range(list) = {} /\ NULL \notin more
    <2>1. pcAct # NULL => pcAct \in Bodies /\ pcAct \in Action
      BY Facts DEF Owned
    <2>2. more \subseteq Action /\ more \cap Range(list) = {} /\ more \cap Pointers = {}
      BY <1>3 DEF Unused
    <2> QED
      BY <1>3, <1>9, <2>1, <2>2, ActionAssumption
  <1>11. \A a \in Range(list) : func'[a] = func[a]
    BY <1>6, <1>10, Facts
  <1>12. \A s \in Unseen : /\ h[s] \in more /\ h[s] \in Action /\ h[s] # NULL /\ h[s] # c
                           /\ h[s] \notin Range(list)
                           /\ func'[h[s]].does = "charProc" /\ func'[h[s]].slot = s
                           /\ func'[h[s]].item = FALSE /\ func'[h[s]] \in Funcs
    <2> SUFFICES ASSUME NEW s \in Unseen
                 PROVE  /\ h[s] \in more /\ h[s] \in Action /\ h[s] # NULL /\ h[s] # c
                        /\ h[s] \notin Range(list)
                        /\ func'[h[s]].does = "charProc" /\ func'[h[s]].slot = s
                        /\ func'[h[s]].item = FALSE /\ func'[h[s]] \in Funcs
      OBVIOUS
    <2>1. h[s] \in more
      BY <1>3
    <2>2. s \in Slot
      BY <1>8
    <2>3. /\ CharProc(s, FALSE) \in Funcs /\ CharProc(s, FALSE).does = "charProc"
          /\ CharProc(s, FALSE).slot = s /\ CharProc(s, FALSE).item = FALSE
      BY <2>2, Does
    <2>4. func'[h[s]] = CharProc(s, FALSE)
      BY <1>6
    <2> QED
      BY <1>10, <2>1, <2>3, <2>4
  <1>13. \A a \in extra : func'[a].does = "pcProc" /\ func'[a] \in Funcs /\ a = c
    BY <1>3, <1>6, Does
  <1>14. \A a \in more : \E s \in Unseen : a = h[s] /\ func'[a].does = "charProc" /\ func'[a].slot = s
    BY <1>4, <1>12
  <1>15. func' \in [Action -> Funcs]
    <2>1. \A a \in Action : func'[a] \in Funcs
      BY <1>6, <1>12, <1>13, <1>14, Facts
    <2> QED
      BY <1>6, <2>1
  <1>16. /\ obj' \in [Slot -> Object]
         /\ \A s \in Slot : obj'[s].use = obj[s].use /\ obj'[s].id = obj[s].id
                            /\ obj'[s].party = obj[s].party
         /\ \A s \in Unseen : obj'[s].ptAct = h[s]
         /\ \A s \in Slot \ Unseen : obj'[s] = obj[s]
    <2>1. ASSUME NEW s \in Unseen
          PROVE  /\ obj'[s] \in Object /\ obj'[s].use = obj[s].use /\ obj'[s].id = obj[s].id
                 /\ obj'[s].party = obj[s].party /\ obj'[s].ptAct = h[s]
      <3>1. obj'[s] = [obj[s] EXCEPT !.ptAct = h[s]] /\ obj[s] \in Object /\ h[s] \in Action
        BY <1>5, <1>8, <1>12, Facts
      <3> QED
        BY <3>1 DEF Object
    <2>2. \A s \in Slot \ Unseen : obj'[s] = obj[s]
      BY <1>5
    <2>3. \A s \in Slot : obj'[s] \in Object
      BY <2>1, <2>2, Facts
    <2>4. obj' = [s \in Slot |-> obj'[s]]
      BY <1>5
    <2>5. obj' \in [Slot -> Object]
      BY <2>3, <2>4
    <2> QED
      BY <2>1, <2>2, <2>5
  <1>17. Live' = Live \cup more \cup extra /\ dead' = dead
    BY <1>2, <1>7, <1>9, <1>10, Facts, <1>3 DEF Live
  <1>18. Bodies' = Bodies \cup more \cup extra
    <2>1. Bodies' = {a \in Live' : func'[a].does # "petProc"}
      BY DEF Bodies
    <2>2. \A a \in Live : func'[a] = func[a]
      BY <1>11 DEF Live
    <2> QED
      BY <1>13, <1>14, <1>17, <2>1, <2>2 DEF Bodies
  <1>19. party' = Renamed(party, PcId, c)
    BY <1>2, <1>10, Facts, AliasedIs DEF IInv
  <1>20. /\ party' \in [Place -> Member] /\ Places(party')
         /\ \A p \in Place : party'[p].ptAct \in {party[p].ptAct, c}
    BY <1>10, <1>19, Facts, RenamedPlaces DEF IInv
  <1>21. Linked'
    BY <1>2, <1>7, RestLinked DEF IInv
  <1>22. /\ Table'.obj = obj' /\ Table'.count = count /\ Table'.free = freeSlot /\ Table'.tail = tail
         /\ Table.obj = obj /\ Table.count = count /\ Table.free = freeSlot /\ Table.tail = tail
    BY <1>2 DEF Table
  <1>23. Typed'
    <2>1. TableOK(Table)'
      BY <1>16, <1>22 DEF IInv, Typed, TableOK
    <2>2. dead' \subseteq Range(list)'
      BY <1>7, <1>17, Facts
    <2>3. \A a \in Range(list)' : func'[a].does # "nothing"
      BY <1>7, <1>11, <1>13, <1>14 DEF IInv, Typed
    <2>4. c \in Action \cup {NULL} /\ screen' \in Screens
      BY <1>2, <1>10 DEF Screens
    <2> QED
      BY <1>2, <1>15, <1>20, <2>1, <2>2, <2>3, <2>4 DEF IInv, Typed, c
  <1>24. Hidden'
    BY <1>2 DEF Hidden
  <1>25. Owned(obj', c, Bodies')
    <2>1. \A s \in Slot : obj[s].ptAct # NULL => obj[s].ptAct \in Bodies /\ obj[s].ptAct # c
      <3>1. \A s \in Slot : obj[s].ptAct # NULL => obj[s].ptAct \in Bodies /\ obj[s].ptAct # pcAct
        BY Facts DEF Owned
      <3> QED
        BY <1>3, <1>9, <3>1
    <2>2. Bodies \subseteq Range(list)
      BY DEF Bodies, Live
    <2>3. ASSUME NEW s \in Slot, obj'[s].ptAct # NULL
          PROVE  obj'[s].ptAct \in Bodies' /\ obj'[s].ptAct # c
      BY <1>12, <1>16, <1>18, <2>1, <2>3
    <2>4. ASSUME NEW s \in Slot, NEW u \in Slot, obj'[s].ptAct # NULL, obj'[s].ptAct = obj'[u].ptAct
          PROVE  s = u
      <3>1. CASE s \in Unseen /\ u \in Unseen
        BY <1>12, <1>16, <2>4, <3>1
      <3>2. CASE s \notin Unseen /\ u \notin Unseen
        BY <1>16, <2>4, <3>2, Facts DEF Owned
      <3>3. CASE (s \in Unseen /\ u \notin Unseen) \/ (s \notin Unseen /\ u \in Unseen)
        BY <1>12, <1>16, <2>1, <2>2, <2>4, <3>3
      <3> QED
        BY <3>1, <3>2, <3>3
    <2>5. c \in Bodies'
      BY <1>10, <1>18
    <2> QED
      BY <2>3, <2>4, <2>5 DEF Owned
  <1>26. Reserve'
    <2> DEFINE spent == more \cup {New}
    <2>1. /\ IsFiniteSet(spent) /\ Cardinality(spent) \in Nat
          /\ Cardinality(spent) =< Cardinality(Unseen) + 1
      <3>1. Cardinality(more) \in Nat
        BY <1>3, FS_CardinalityType
      <3>2. /\ IsFiniteSet(more \cup {New})
            /\ \/ Cardinality(more \cup {New}) = Cardinality(more)
               \/ Cardinality(more \cup {New}) = Cardinality(more) + 1
        BY <1>3, <3>1, FS_AddElement
      <3> QED
        BY <1>3, <1>8, <3>1, <3>2
    <2>2. extra \subseteq {New} /\ c \in Pointers \cup {New}
      BY <1>3 DEF Pointers
    <2>3. \A s \in Slot : obj'[s].ptAct \in {obj[s].ptAct} \cup more
      BY <1>12, <1>16
    <2>4. Pointers' = {obj'[s].ptAct : s \in Slot} \cup {c} \cup {party'[p].ptAct : p \in Place}
      BY DEF Pointers, c
    <2>5. Pointers' \subseteq Pointers \cup more \cup {New}
      BY <1>20, <2>2, <2>3, <2>4 DEF Pointers
    <2>6. Reach' \subseteq Reach \cup spent \cup {NULL}
      BY <1>7, <2>2, <2>5 DEF Reach
    <2>7. (Pets \ dead)' \subseteq Pets
      BY <1>7, <1>11, <1>13, <1>14 DEF Pets
    <2>8. IsFiniteSet(Pets) /\ Cardinality(Pets) \in Nat /\ Cardinality(Unused(Pointers)) \in Nat
      BY Counts
    <2> HIDE DEF spent
    <2>9. Cardinality(Pets) + Cardinality(spent) =< Cardinality(Unused(Pointers))
      BY <1>2, <1>8, <2>1, <2>8
    <2> QED
      BY <2>1, <2>6, <2>7, <2>8, <2>9, Reserved
  <1>27. Agreed'
    <2> SUFFICES ASSUME ~ taken
                 PROVE  /\ Single(Table, wasFull)'
                        /\ Named(obj, pcAct, Bodies, func)'
                        /\ Together(obj, pcAct, party)'
      BY <1>2 DEF Agreed
    <2>1. /\ Single(Table, wasFull) /\ Named(obj, pcAct, Bodies, func)
          /\ Together(obj, pcAct, party)
      BY <1>2 DEF IInv, Agreed
    <2>2. Single(Table, wasFull)'
      <3>1. \A u \in Slot : ~ obj[u].use => obj'[u] = obj[u]
        BY <1>8, <1>16
      <3>2. Used(Table)' = Used(Table)
        BY <1>16, <1>22 DEF Used
      <3>3. freeSlot \in Slot
        BY <1>22 DEF IInv, Typed, TableOK
      <3> QED
        BY <1>2, <1>16, <1>22, <2>1, <3>1, <3>2, <3>3 DEF Single
    <2>3. Bodies \subseteq Range(list) /\ NULL \notin Bodies
      BY Facts, ActionAssumption DEF Bodies, Live
    <2>4. Named(obj', c, Bodies', func')
      <3>1. ASSUME NEW a \in Bodies', func'[a].does = "charProc"
            PROVE  obj'[func'[a].slot].ptAct = a
        <4>1. CASE a \in more
          BY <1>14, <1>16, <4>1
        <4>2. CASE a \in Bodies
          <5>1. func'[a] = func[a] /\ func[a].slot \in Slot /\ obj[func[a].slot].ptAct = a
            BY <1>11, <2>1, <2>3, <3>1, <4>2, Facts DEF Named
          <5> QED
            BY <1>8, <1>16, <2>3, <4>2, <5>1
        <4> QED
          BY <1>13, <1>18, <3>1, <4>1, <4>2
      <3>2. ASSUME NEW s \in Slot, obj'[s].ptAct # NULL
            PROVE  /\ func'[obj'[s].ptAct].does = "charProc" /\ func'[obj'[s].ptAct].slot = s
                   /\ func'[obj'[s].ptAct].item => obj'[s].id \in Item
        <4>1. CASE s \in Unseen
          BY <1>12, <1>16, <4>1
        <4>2. CASE s \notin Unseen
          <5>1. obj'[s] = obj[s] /\ obj[s].ptAct \in Bodies
            BY <1>16, <3>2, <4>2, Facts DEF Owned
          <5> QED
            BY <1>11, <2>1, <2>3, <3>2, <5>1 DEF Named
        <4> QED
          BY <4>1, <4>2
      <3>3. ASSUME NEW a \in Bodies', func'[a].does = "pcProc"
            PROVE  c = a
        <4>1. CASE a \in Bodies
          <5>1. pcAct = a /\ a # NULL
            BY <1>11, <2>1, <2>3, <3>3, <4>1 DEF Named
          <5> QED
            BY <1>3, <5>1
        <4> QED
          BY <1>13, <1>14, <1>18, <3>3, <4>1
      <3>4. func'[c].does = "pcProc"
        <4>1. CASE c \in extra
          BY <1>13, <4>1
        <4>2. CASE c \notin extra
          <5>1. c = pcAct /\ pcAct # NULL /\ c \in Bodies
            BY <1>3, <1>10, <4>2
          <5> QED
            BY <1>11, <2>1, <2>3, <5>1 DEF Named
        <4> QED
          BY <4>1, <4>2
      <3> QED
        BY <3>1, <3>2, <3>3, <3>4 DEF Named
    <2>5. Together(obj, c, party')
      BY <1>10, <1>19, <2>1, Facts, PcTogether DEF IInv
    <2>6. Together(obj', c, party')
      <3>1. ASSUME NEW s \in Slot
            PROVE  obj'[s].party <=> Member1(obj', s, party')
        <4>1. CASE s \in Unseen
          <5>1. ~ obj[s].party
            BY <1>8, <2>1, <4>1 DEF Together, Member1
          <5>2. ASSUME NEW p \in Place, party'[p].use, party'[p].id = obj[s].id,
                       party'[p].ptAct = h[s]
                PROVE  FALSE
            <6>1. party'[p].id # PcId /\ party'[p].ptAct # NULL
              BY <1>12, <4>1, <5>2, Facts, Objects, CharactersAssumption
            <6>2. PICK u \in Slot : obj[u].use /\ obj[u].id = obj[s].id /\ obj[u].ptAct = h[s]
              BY <2>5, <5>2, <6>1 DEF Together
            <6>3. u = s
              BY <1>8, <4>1, <6>2, InUse
            <6> QED
              BY <1>8, <1>12, <4>1, <6>2, <6>3
          <5> QED
            BY <1>16, <4>1, <5>1, <5>2 DEF Member1
        <4>2. CASE s \notin Unseen
          BY <1>16, <2>5, <4>2 DEF Together, Member1
        <4> QED
          BY <4>1, <4>2
      <3>2. ASSUME NEW p \in Place, party'[p].ptAct # NULL, party'[p].id # PcId
            PROVE  \E s \in Slot : obj'[s].use /\ obj'[s].id = party'[p].id
                                   /\ obj'[s].ptAct = party'[p].ptAct
        <4>1. PICK s \in Slot : obj[s].use /\ obj[s].id = party'[p].id
                                /\ obj[s].ptAct = party'[p].ptAct
          BY <2>5, <3>2 DEF Together
        <4> QED
          BY <1>8, <1>16, <3>2, <4>1
      <3> QED
        BY <2>5, <3>1, <3>2 DEF Together
    <2>7. Named(obj, pcAct, Bodies, func)'
      BY <2>4 DEF Named, c
    <2>8. Together(obj, pcAct, party)'
      BY <2>6 DEF Together, Member1, c
    <2> QED
      BY <2>2, <2>7, <2>8
  <1>28. Owned(obj, pcAct, Bodies)'
    BY <1>25 DEF Owned, c
  <1> QED
    BY <1>20, <1>21, <1>23, <1>24, <1>26, <1>27, <1>28 DEF IInv

LEMMA NextKeeps ==
  ASSUME IInv, [Next]_vars
  PROVE  IInv'
  <1>1. CASE Next
    <2>1. ASSUME RunAction
          PROVE  IInv'
      BY <2>1, BeginKeeps, CallPcKeeps, CallCharKeeps, CallPetKeeps, EndPetKeeps,
         FreeActionKeeps
        DEF RunAction
    <2>2. ASSUME Receive
          PROVE  IInv'
      BY <2>2, ObjC_recvKeeps, ItemC_recvKeeps, OwnC_recvKeeps, CD_recvKeeps,
         Join_recvKeeps, Leave_recvKeeps, PR_recvKeeps, PetOut_recvKeeps, PetIn_recvKeeps,
         AnotherMapKeeps
        DEF Receive
    <2>3. ASSUME Change
          PROVE  IInv'
      BY <2>3, EncounterKeeps, BattleStartKeeps, BattleEndKeeps, GameStartKeeps,
         LogoutKeeps, LoginKeeps
        DEF Change
    <2> QED
      BY <1>1, <2>1, <2>2, <2>3 DEF Next
  <1>2. CASE UNCHANGED vars
    <2>1. /\ UNCHANGED <<list, dead, cursor, ran, table, pcAct, party, func, screen>>
          /\ UNCHANGED <<obj, count, freeSlot, tail, wasFull, taken>>
      BY <1>2 DEF vars, listVars, table
    <2>2. Linked'
      BY <2>1 DEF IInv, Linked, PassSound
    <2>3. Live' = Live /\ Range(list)' = Range(list) /\ func' = func /\ dead' = dead
      BY <2>1 DEF Live
    <2>4. \A a \in Range(list) : func[a].does # "nothing"
      BY DEF IInv, Typed
    <2>5. UNCHANGED <<table, pcAct, party, screen>>
      BY <2>1
    <2> QED
      BY <2>2, <2>3, <2>4, <2>5, Facts, PassKeeps
  <1> QED
    BY <1>1, <1>2

\* The invariant holds, and is inductive.
THEOREM Inductive == Spec => []IInv
  <1>1. Init => IInv
    BY InitInv
  <1>2. IInv /\ [Next]_vars => IInv'
    BY NextKeeps
  <1> QED
    BY <1>1, <1>2, PTL DEF Spec

\* Every variable keeps its type; what is linked has a function to be called.
THEOREM TypeCorrect == Spec => []TypeOK
  <1>1. IInv => TypeOK
    <2> SUFFICES ASSUME IInv
                 PROVE  TypeOK
      OBVIOUS
    <2>1. ListTypeOK
      BY Facts DEF ListTypeOK, IInv, Linked
    <2>2. /\ obj \in [Slot -> Object] /\ party \in [Place -> Member]
          /\ count \in 0..MAX_CHAROBJ /\ freeSlot \in Slot /\ tail \in 0..MAX_CHAROBJ
          /\ pcAct \in Action \cup {NULL} /\ screen \in Screens
      BY DEF IInv, Typed, TableOK, Table
    <2>3. \A a \in Range(list) : func[a].does \in {"charProc", "pcProc", "petProc"}
      BY Facts DEF IInv, Typed
    <2> QED
      BY <2>1, <2>2, <2>3 DEF TypeOK, Object, Member
  <1> QED
    BY <1>1, Inductive, PTL

\* RunAction stands on a linked action, has called those before it, each once,
\* and none from it on, however the handlers and the functions change the list.
THEOREM PassIsSound == Spec => []PassSound
  <1>1. IInv => PassSound
    BY DEF IInv, Linked
  <1> QED
    BY <1>1, Inductive, PTL

\* No pointer of the table, the pc or the party is left behind when the action
\* it names is marked: charProc and partyMoveProc may follow it unchecked.
THEOREM NoneDangles == Spec => []OwnersAlive
  <1>1. IInv => OwnersAlive
    <2> SUFFICES ASSUME IInv, ~ taken
                 PROVE  /\ \A s \in Slot : obj[s].ptAct # NULL => obj[s].ptAct \in Live
                        /\ pcAct # NULL => pcAct \in Live
                        /\ screen # "out" =>
                             \A p \in Place : party[p].ptAct # NULL => party[p].ptAct \in Live
      BY DEF OwnersAlive
    <2>1. /\ \A s \in Slot : obj[s].ptAct # NULL => obj[s].ptAct \in Live
          /\ pcAct # NULL => pcAct \in Live
      BY Facts DEF Owned
    <2>2. ASSUME screen # "out", NEW p \in Place, party[p].ptAct # NULL
          PROVE  party[p].ptAct \in Live
      <3>1. Together(obj, pcAct, party)
        BY <2>2 DEF IInv, Agreed
      <3> QED
        BY <2>1, <2>2, <3>1 DEF Together
    <2> QED
      BY <2>1, <2>2
  <1> QED
    BY <1>1, Inductive, PTL

\* The table holds an id once, where searchCharObjId finds it, counts what it
\* holds, and has a free slot ready unless it has been full.
THEOREM TableIsSound == Spec => []OneSlotEach
  <1>1. IInv => OneSlotEach
    <2> SUFFICES ASSUME IInv, ~ taken
                 PROVE  /\ \A s, u \in Used(Table) : obj[s].id = obj[u].id => s = u
                        /\ \A s \in Used(Table) : s < tail
                        /\ count = Cardinality(Used(Table))
                        /\ ~ wasFull => ~ obj[freeSlot].use
      BY DEF OneSlotEach
    <2>1. Single(Table, wasFull)
      BY DEF IInv, Agreed
    <2>2. /\ Table.obj = obj /\ Table.count = count /\ Table.free = freeSlot /\ Table.tail = tail
      BY DEF Table
    <2>3. \A s \in Used(Table) : s \in Slot /\ obj[s].use
      BY <2>2 DEF Used
    <2> QED
      BY <2>1, <2>2, <2>3 DEF Single
  <1> QED
    BY <1>1, Inductive, PTL

\* A character's action and its slot name each other, the pc's action is the
\* pc's: whatever order messages, passes and screens come in.
THEOREM NoneIsOrphan == Spec => []NoOrphan
  <1>1. IInv => NoOrphan
    <2> SUFFICES ASSUME IInv, ~ taken
                 PROVE  /\ \A a \in Live : func[a].does = "charProc" => obj[func[a].slot].ptAct = a
                        /\ \A s \in Slot : obj[s].ptAct # NULL =>
                              func[obj[s].ptAct].does = "charProc" /\ func[obj[s].ptAct].slot = s
                        /\ \A a \in Live : func[a].does = "pcProc" => pcAct = a
      BY DEF NoOrphan
    <2>1. Named(obj, pcAct, Bodies, func)
      BY DEF IInv, Agreed
    <2>2. \A a \in Live : func[a].does # "petProc" => a \in Bodies
      BY DEF Bodies
    <2> QED
      BY <2>1, <2>2 DEF Named
  <1> QED
    BY <1>1, Inductive, PTL

\* A member on the map has the status of one exactly when his place in the
\* party points to his action: nobody stands still, or moves himself, for good.
THEOREM MembersWalk == Spec => []WalksWithParty
  <1>1. IInv => WalksWithParty
    <2> SUFFICES ASSUME IInv, ~ taken, screen # "out"
                 PROVE  /\ \A s \in Slot : obj[s].use /\ obj[s].ptAct # NULL =>
                              (obj[s].party
                                 <=> \E p \in PlacesOf(obj[s].id) : party[p].ptAct = obj[s].ptAct)
                        /\ \A p \in Place : party[p].ptAct # NULL =>
                              party[p].ptAct = (IF party[p].id = PcId THEN pcAct
                                                ELSE ActOf(party[p].id))
      BY DEF WalksWithParty
    <2>1. Together(obj, pcAct, party)
      BY DEF IInv, Agreed
    <2>2. \A s \in Slot : obj[s].ptAct # NULL =>
             (obj[s].party <=> \E p \in PlacesOf(obj[s].id) : party[p].ptAct = obj[s].ptAct)
      BY <2>1 DEF Together, Member1, PlacesOf
    <2>3. ASSUME NEW p \in Place, party[p].ptAct # NULL, party[p].id # PcId
          PROVE  party[p].ptAct = ActOf(party[p].id)
      <3>1. PICK s \in Slot : obj[s].use /\ obj[s].id = party[p].id
                              /\ obj[s].ptAct = party[p].ptAct
        BY <2>1, <2>3 DEF Together
      <3>2. SlotsOf(party[p].id) # {}
        BY <3>1, NotFound
      <3>3. SlotOf(party[p].id) = s
        BY <3>1, <3>2, Found, InUse
      <3> QED
        BY <3>1, <3>2, <3>3, Found
    <2> QED
      BY <2>1, <2>2, <2>3 DEF Together
  <1> QED
    BY <1>1, Inductive, PTL
=============================================================================
