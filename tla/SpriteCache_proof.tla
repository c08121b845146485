------------------------- MODULE SpriteCache_proof -------------------------
(***************************************************************************)
(* The cache of bitmaps keeps whole pictures, for any number of surfaces   *)
(* and any cutting of the bitmaps: unless a load came out short, every     *)
(* chain is that of one bitmap, the drawing loops see no other, and what   *)
(* was drawn lately stays.                                                 *)
(***************************************************************************)
EXTENDS SpriteCache, TLAPS

\* A loop of LoadBmp runs; the surfaces its search has passed; the bitmap
\* whose chain is being given up.
Loading == doing \in {"search", "free"}
Passed(s) == IF job.bak =< point THEN job.bak =< s /\ s < point
                                 ELSE job.bak =< s \/ s < point
Evicted(b) == doing = "free" /\ job.walk # NULL /\ bmpNo[job.walk] = b

\* The chains: each piece points to the next, except the last placed so far.
Heads == \A b \in Sprite : head[b] # NULL => Holds(head[b], b, 1)
Chains ==
    \A s \in Surface : bmpNo[s] # NoSprite =>
        /\ part[s] \in 1..Pieces[bmpNo[s]]
        /\ head[bmpNo[s]] = NULL => Evicted(bmpNo[s])
        /\ \/ part[s] = Pieces[bmpNo[s]] /\ pNext[s] = NULL
           \/ part[s] < Pieces[bmpNo[s]] /\ Holds(pNext[s], bmpNo[s], part[s] + 1)
           \/ Loading /\ bmpNo[s] = job.want /\ part[s] = job.got
OneEach ==
    \A s, t \in Surface :
        bmpNo[s] # NoSprite /\ bmpNo[s] = bmpNo[t] /\ part[s] = part[t] => s = t

\* LoadBmp has placed its pieces on surfaces it has passed, and none else.
Placing ==
    Loading =>
        /\ job.got < Pieces[job.want]
        /\ \A s \in Surface : bmpNo[s] = job.want => Passed(s) /\ part[s] =< job.got
        /\ IF job.got = 0 THEN head[job.want] = NULL
           ELSE head[job.want] # NULL /\ Holds(job.prev, job.want, job.got)
        /\ drawn[job.want] > SURACE_BMP_DEATH_DATE

\* The chain is given up from its head, and holds the surface that is wanted.
Freeing ==
    doing = "free" =>
        /\ Old(point)
        /\ job.walk = NULL => bmpNo[point] = NoSprite
        /\ job.walk # NULL =>
              /\ bmpNo[job.walk] \in Sprite \ {job.want} /\ head[bmpNo[job.walk]] = NULL
              /\ bmpNo[point] \in {NoSprite, bmpNo[job.walk]}
              /\ \A s \in Surface : bmpNo[s] = bmpNo[job.walk] => part[job.walk] =< part[s]

\* A drawing loop has dated the pieces before the one it is at.
Drawing ==
    doing = "draw" =>
        /\ job.walk # NULL => bmpNo[job.walk] = job.want
        /\ job.whole => \A s \in Surface :
              bmpNo[s] = job.want /\ (job.walk # NULL => part[s] < part[job.walk]) => age[s] = 0

\* The surfaces of a bitmap are not older than its last drawing.
Dated ==
    \A b \in Sprite : drawn[b] =< SURACE_BMP_DEATH_DATE =>
        head[b] # NULL /\ \A s \in Surface : bmpNo[s] = b => age[s] =< drawn[b]

Sound == Heads /\ Chains /\ OneEach /\ Placing /\ Freeing /\ Drawing /\ Dated
IInv == TypeOK /\ (~short => Sound)

USE CacheAssumption

-----------------------------------------------------------------------------
(* The locals of the loops.                                                *)

LEMMA Ranges ==
  ASSUME IInv
  PROVE  /\ TypeOK /\ SurfaceCnt \in Nat \ {0} /\ NULL \notin Surface /\ point \in Surface
         /\ job.want \in Sprite \cup {NoSprite} /\ job.got \in Nat
         /\ job.prev \in Surface \cup {NULL} /\ job.bak \in Surface
         /\ job.walk \in Surface \cup {NULL} /\ job.draws \in BOOLEAN /\ job.whole \in BOOLEAN
         /\ \A b \in Sprite : Pieces[b] \in Nat \ {0} /\ b # NoSprite
  <1>1. TypeOK /\ job \in Jobs
    BY DEF IInv, TypeOK
  <1> QED
    BY <1>1 DEF TypeOK, Jobs, NULL, Surface

LEMMA NoJobIsJob == NoJob \in Jobs
  BY DEF NoJob, Jobs, NULL, Surface

LEMMA FollowingInRange ==
  ASSUME NEW s \in Surface
  PROVE  Following(s) \in Surface
  BY DEF Following, Surface

LEMMA SearchOnJob ==
  ASSUME IInv, doing \in {"search", "free"}, NEW n \in Nat, NEW last \in Surface \cup {NULL},
         SearchOn(n, last), head' \in [Sprite -> Surface \cup {NULL}]
  PROVE  /\ point' \in Surface /\ doing' \in {"idle", "search", "draw"} /\ job' \in Jobs
         /\ short' \in BOOLEAN /\ (~short' => ~short)
         /\ (doing' # "idle" => job'.want = job.want /\ job.want \in Sprite)
         /\ doing' = "search" => /\ job'.got = n /\ job'.prev = last /\ job'.bak = job.bak
                                 /\ job'.walk = NULL /\ point' # job.bak
         /\ doing' # "search" /\ ~short' => n = 0
         /\ doing' = "draw" => job'.walk = head'[job.want]
  <1>1. job \in Jobs /\ job.want \in Sprite /\ point' \in Surface /\ short \in BOOLEAN
    BY Ranges, FollowingInRange DEF IInv, TypeOK, SearchOn
  <1>2. short' = (short \/ n > 0) => /\ short' \in BOOLEAN
                                     /\ ~short' => ~short /\ n = 0
    <2>1. n > 0 \/ n = 0
      OBVIOUS
    <2>2. short' = (short \/ n > 0) => /\ short' \in BOOLEAN
                                       /\ ~short' => ~short /\ ~(n > 0)
      BY <1>1
    <2> QED
      BY <2>1, <2>2
  <1>3. CASE point' = job.bak /\ job.draws
    <2>1. doing' = "draw" /\ short' = (short \/ n > 0)
          /\ job' = [NoJob EXCEPT !.want = job.want, !.draws = TRUE, !.walk = head'[job.want]]
      BY <1>3 DEF SearchOn, Return
    <2>2. /\ job' = [want |-> job.want, got |-> 0, prev |-> NULL, bak |-> 0,
                     walk |-> head'[job.want], draws |-> TRUE, whole |-> TRUE]
          /\ head'[job.want] \in Surface \cup {NULL}
      BY <1>1, <2>1 DEF NoJob
    <2>3. job' \in Jobs
      BY <1>1, <2>2 DEF Jobs, NULL, Surface
    <2> QED
      BY <1>1, <1>3, <1>2, <2>1, <2>2, <2>3
  <1>4. CASE point' = job.bak /\ ~job.draws
    <2>1. doing' = "idle" /\ job' = NoJob /\ short' = (short \/ n > 0)
      BY <1>4 DEF SearchOn, Return
    <2> QED
      BY <1>1, <1>4, <1>2, <2>1, NoJobIsJob
  <1>5. CASE point' # job.bak
    <2>1. /\ doing' = "search" /\ short' = short
          /\ job' = [job EXCEPT !.got = n, !.prev = last, !.walk = NULL]
      BY <1>5 DEF SearchOn
    <2>2. job' = [want |-> job.want, got |-> n, prev |-> last, bak |-> job.bak,
                  walk |-> NULL, draws |-> job.draws, whole |-> job.whole]
      BY <1>1, <2>1 DEF Jobs
    <2>3. job' \in Jobs
      BY <1>1, <2>2, Ranges DEF Jobs
    <2> QED
      BY <1>1, <1>5, <2>1, <2>2, <2>3
  <1> QED
    BY <1>3, <1>4, <1>5, Ranges

-----------------------------------------------------------------------------
(* LoadBmp.                                                                *)

LEMMA LoadBmpKeeps ==
  ASSUME IInv, NEW b \in Sprite, NEW draws \in BOOLEAN, LoadBmp(b, draws)
  PROVE  IInv'
  <1>1. /\ UNCHANGED <<bmpNo, part, pNext, age, head, point, drawn, short>> /\ doing = "idle"
    BY DEF LoadBmp, surfaces
  <1>2. /\ job' \in Jobs /\ job'.want = b /\ doing' \in {"search", "draw"}
        /\ doing' = "search" => /\ head[b] = NULL /\ job'.got = 0 /\ job'.bak = point
                                /\ job'.walk = NULL
        /\ doing' = "draw" => job'.walk = head[b]
    <2>1. point \in Surface /\ head[b] \in Surface \cup {NULL}
      BY Ranges DEF TypeOK
    <2>2. CASE head[b] = NULL
      <3>1. /\ doing' = "search"
            /\ job' = [want |-> b, got |-> 0, prev |-> NULL, bak |-> point,
                       walk |-> NULL, draws |-> draws, whole |-> TRUE]
        BY <2>2 DEF LoadBmp, NoJob
      <3> QED
        BY <2>1, <2>2, <3>1 DEF Jobs
    <2>3. CASE head[b] # NULL
      <3>1. /\ doing' = "draw"
            /\ job' = [want |-> b, got |-> 0, prev |-> NULL, bak |-> 0,
                       walk |-> head[b], draws |-> TRUE, whole |-> TRUE]
        BY <2>3 DEF LoadBmp, NoJob
      <3>2. 0 \in Surface
        BY DEF Surface
      <3> QED
        BY <2>1, <2>3, <3>1, <3>2 DEF Jobs
    <2> QED
      BY <2>2, <2>3
  <1>3. TypeOK'
    BY <1>1, <1>2, Ranges DEF TypeOK
  <1> SUFFICES ASSUME ~short' PROVE Sound'
    BY <1>3 DEF IInv
  <1>4. Sound
    BY <1>1 DEF IInv
  <1>5. Heads' /\ OneEach' /\ Dated'
    BY <1>1, <1>4 DEF Sound, Heads, OneEach, Dated, Holds
  <1>6. Chains'
    BY <1>1, <1>4 DEF Sound, Chains, Holds, Evicted, Loading
  <1>7. \A s \in Surface : bmpNo[s] = b => head[b] # NULL
    BY <1>1, <1>4, Ranges DEF Sound, Chains, Evicted
  <1>8. Placing'
    BY <1>1, <1>2, <1>4, <1>7, Ranges DEF Sound, Placing, Loading, Dated, TypeOK,
       Age, SURACE_BMP_DEATH_DATE
  <1>9. Freeing'
    BY <1>2 DEF Freeing
  <1>10. Drawing'
    BY <1>1, <1>2, <1>4, <1>7, Ranges DEF Sound, Drawing, Heads, Holds, Chains, TypeOK
  <1> QED
    BY <1>5, <1>6, <1>8, <1>9, <1>10 DEF Sound

LEMMA SkipKeeps ==
  ASSUME IInv, Skip
  PROVE  IInv'
  <1>1. /\ UNCHANGED <<bmpNo, part, pNext, age, head, drawn>> /\ doing = "search"
        /\ SearchOn(job.got, job.prev) /\ point' = Following(point)
    BY DEF Skip, surfaces, SearchOn
  <1>2. /\ point' \in Surface /\ doing' \in {"idle", "search", "draw"} /\ job' \in Jobs
        /\ short' \in BOOLEAN /\ (~short' => ~short)
        /\ (doing' # "idle" => job'.want = job.want /\ job.want \in Sprite)
        /\ doing' = "search" => /\ job'.got = job.got /\ job'.prev = job.prev
                                /\ job'.bak = job.bak /\ job'.walk = NULL /\ point' # job.bak
        /\ doing' # "search" /\ ~short' => job.got = 0
        /\ doing' = "draw" => job'.walk = head'[job.want]
    BY <1>1, Ranges, SearchOnJob DEF TypeOK
  <1>3. TypeOK'
    BY <1>1, <1>2, Ranges DEF TypeOK
  <1> SUFFICES ASSUME ~short' PROVE Sound'
    BY <1>3 DEF IInv
  <1>4. Sound
    BY <1>2 DEF IInv
  <1>5. Heads' /\ OneEach' /\ Dated'
    BY <1>1, <1>4 DEF Sound, Heads, OneEach, Dated, Holds
  <1>6. /\ job.got < Pieces[job.want] /\ drawn[job.want] > SURACE_BMP_DEATH_DATE
        /\ \A s \in Surface : bmpNo[s] = job.want => Passed(s) /\ part[s] =< job.got
        /\ \A s \in Surface : bmpNo[s] # NoSprite => part[s] >= 1 /\ head[bmpNo[s]] # NULL
        /\ job.want \in Sprite
    BY <1>1, <1>4, Ranges DEF Sound, Placing, Chains, Evicted, Loading, TypeOK
  <1>7. Chains'
    BY <1>1, <1>2, <1>4, <1>6, Ranges DEF Sound, Chains, Holds, Evicted, Loading
  <1>8. Placing'
    <2>1. CASE doing' = "search"
      <3>1. \A s \in Surface : Passed(s) => Passed(s)'
        BY <1>1, <1>2, <2>1, Ranges DEF Passed, Following, Surface
      <3> QED
        BY <1>1, <1>2, <1>4, <1>6, <2>1, <3>1, Ranges DEF Sound, Placing, Loading, Holds
    <2>2. CASE doing' # "search"
      BY <1>2, <2>2 DEF Placing, Loading
    <2> QED
      BY <2>1, <2>2
  <1>9. Freeing'
    BY <1>2 DEF Freeing
  <1>10. Drawing'
    BY <1>1, <1>2, <1>4, <1>6, Ranges
      DEF Sound, Drawing, Heads, Holds, Placing, Loading, TypeOK
  <1> QED
    BY <1>5, <1>7, <1>8, <1>9, <1>10 DEF Sound

LEMMA EvictKeeps ==
  ASSUME IInv, Evict
  PROVE  IInv'
  <1> DEFINE v == bmpNo[point]
  <1>1. /\ UNCHANGED <<bmpNo, part, pNext, age, point, drawn, short>>
        /\ doing = "search" /\ doing' = "free" /\ Old(point) /\ v # NoSprite
        /\ head' = [head EXCEPT ![v] = NULL] /\ job' = [job EXCEPT !.walk = head[v]]
    BY DEF Evict, surfaces
  <1>2. /\ v \in Sprite /\ job \in Jobs /\ head \in [Sprite -> Surface \cup {NULL}]
        /\ job.want \in Sprite /\ point \in Surface
    BY <1>1, Ranges DEF TypeOK
  <1>3. /\ job' \in Jobs /\ job'.want = job.want /\ job'.got = job.got /\ job'.prev = job.prev
        /\ job'.bak = job.bak /\ job'.walk = head[v]
    <2>1. job' = [want |-> job.want, got |-> job.got, prev |-> job.prev, bak |-> job.bak,
                  walk |-> head[v], draws |-> job.draws, whole |-> job.whole]
      BY <1>1, <1>2 DEF Jobs
    <2> QED
      BY <1>2, <2>1 DEF Jobs
  <1>4. TypeOK'
    BY <1>1, <1>2, <1>3, Ranges DEF TypeOK
  <1> SUFFICES ASSUME ~short' PROVE Sound'
    BY <1>4 DEF IInv
  <1>5. Sound
    BY <1>1 DEF IInv
  <1>6. \A s \in Surface : bmpNo[s] = job.want => Passed(s) /\ part[s] =< job.got
    BY <1>1, <1>5 DEF Sound, Placing, Loading
  <1>7. v # job.want /\ head[v] # NULL /\ Holds(head[v], v, 1)
    <2>1. ~Passed(point)
      BY <1>2, Ranges DEF Passed, Surface
    <2>2. head[v] # NULL
      BY <1>1, <1>2, <1>5 DEF Sound, Chains, Evicted
    <2> QED
      BY <1>2, <1>5, <1>6, <2>1, <2>2 DEF Sound, Heads
  <1>8. head'[v] = NULL /\ \A b \in Sprite : b # v => head'[b] = head[b]
    BY <1>1, <1>2
  <1> HIDE DEF v
  <1>9. Heads' /\ OneEach'
    BY <1>1, <1>2, <1>5, <1>8 DEF Sound, Heads, OneEach, Holds
  <1>10. Chains'
    BY <1>1, <1>2, <1>3, <1>5, <1>7, <1>8, Ranges
    DEF Sound, Chains, Holds, Evicted, Loading, TypeOK
  <1>11. Placing'
    BY <1>1, <1>2, <1>3, <1>5, <1>7, <1>8 DEF Sound, Placing, Loading, Holds, Passed
  <1>12. Freeing'
    <2>1. \A s \in Surface : bmpNo[s] = v => 1 =< part[s]
      BY <1>1, <1>2, <1>5, Ranges DEF Sound, Chains
    <2> QED
      BY <1>1, <1>2, <1>3, <1>7, <1>8, <2>1, Ranges DEF Freeing, Holds, Old, v
  <1>13. Drawing'
    BY <1>1 DEF Drawing
  <1>14. Dated'
    <2>1. ~(drawn[v] =< SURACE_BMP_DEATH_DATE)
      BY <1>1, <1>2, <1>5, Ranges
      DEF Sound, Dated, Old, v, TypeOK, Age, SURACE_BMP_DEATH_DATE
    <2> QED
      BY <1>1, <1>2, <1>5, <1>8, <2>1 DEF Sound, Dated
  <1> QED
    BY <1>9, <1>10, <1>11, <1>12, <1>13, <1>14 DEF Sound

LEMMA FreePieceKeeps ==
  ASSUME IInv, FreePiece
  PROVE  IInv'
  <1> DEFINE w == job.walk
             v == bmpNo[w]
  <1>1. /\ UNCHANGED <<pNext, age, head, point, doing, drawn, short>>
        /\ doing = "free" /\ w # NULL
        /\ bmpNo' = [bmpNo EXCEPT ![w] = NoSprite] /\ part' = [part EXCEPT ![w] = 0]
        /\ job' = [job EXCEPT !.walk = pNext[w]]
    BY DEF FreePiece
  <1>2. /\ w \in Surface /\ job \in Jobs /\ job.want \in Sprite /\ point \in Surface
        /\ bmpNo \in [Surface -> Sprite \cup {NoSprite}] /\ part \in [Surface -> Nat]
        /\ pNext \in [Surface -> Surface \cup {NULL}]
    BY <1>1, Ranges DEF TypeOK
  <1>3. /\ job' \in Jobs /\ job'.want = job.want /\ job'.got = job.got /\ job'.prev = job.prev
        /\ job'.bak = job.bak /\ job'.walk = pNext[w]
    <2>1. job' = [want |-> job.want, got |-> job.got, prev |-> job.prev, bak |-> job.bak,
                  walk |-> pNext[w], draws |-> job.draws, whole |-> job.whole]
      BY <1>1, <1>2 DEF Jobs
    <2> QED
      BY <1>2, <2>1 DEF Jobs
  <1>4. TypeOK'
    BY <1>1, <1>2, <1>3, Ranges DEF TypeOK
  <1> SUFFICES ASSUME ~short' PROVE Sound'
    BY <1>4 DEF IInv
  <1>5. Sound
    BY <1>1 DEF IInv
  <1>6. /\ v \in Sprite \ {job.want} /\ head[v] = NULL /\ Old(point)
        /\ bmpNo[point] \in {NoSprite, v}
        /\ \A s \in Surface : bmpNo[s] = v => part[w] =< part[s]
    BY <1>1, <1>5 DEF Sound, Freeing
  <1>7. /\ bmpNo'[w] = NoSprite /\ part'[w] = 0
        /\ \A s \in Surface : s # w => bmpNo'[s] = bmpNo[s] /\ part'[s] = part[s]
    BY <1>1, <1>2
  <1>8. \* The next piece of the bitmap is the one with the next number.
        \/ pNext[w] = NULL /\ \A s \in Surface : s # w => bmpNo[s] # v
        \/ /\ pNext[w] # NULL /\ pNext[w] # w /\ Holds(pNext[w], v, part[w] + 1)
           /\ \A s \in Surface : s # w /\ bmpNo[s] = v => part[w] + 1 =< part[s]
    <2>1. \A s \in Surface : s # w /\ bmpNo[s] = v => part[s] # part[w]
      BY <1>2, <1>5, <1>6, Ranges DEF Sound, OneEach
    <2>2. /\ part[w] \in 1..Pieces[v] /\ \A s \in Surface : bmpNo[s] = v => part[s] \in 1..Pieces[v]
          /\ \/ part[w] = Pieces[v] /\ pNext[w] = NULL
             \/ part[w] < Pieces[v] /\ Holds(pNext[w], v, part[w] + 1)
      BY <1>2, <1>5, <1>6, Ranges DEF Sound, Chains
    <2> QED
      BY <1>2, <1>6, <2>1, <2>2, Ranges DEF Holds
  <1> HIDE DEF w, v
  <1>9. Heads'
    BY <1>1, <1>2, <1>5, <1>6, <1>7, Ranges DEF Sound, Heads, Holds, v
  <1>10. OneEach'
    BY <1>2, <1>5, <1>7 DEF Sound, OneEach
  <1>11. Chains'
    <2> SUFFICES ASSUME NEW s \in Surface, bmpNo'[s] # NoSprite
                 PROVE  /\ part'[s] \in 1..Pieces[bmpNo'[s]]
                        /\ head[bmpNo'[s]] = NULL =>
                              pNext[w] # NULL /\ bmpNo'[pNext[w]] = bmpNo'[s]
                        /\ \/ part'[s] = Pieces[bmpNo'[s]] /\ pNext[s] = NULL
                           \/ /\ part'[s] < Pieces[bmpNo'[s]]
                              /\ pNext[s] \in Surface /\ bmpNo'[pNext[s]] = bmpNo'[s]
                              /\ part'[pNext[s]] = part'[s] + 1
                           \/ bmpNo'[s] = job.want /\ part'[s] = job.got
      BY <1>1, <1>3 DEF Chains, Holds, Evicted, Loading
    <2>1. /\ s # w /\ bmpNo'[s] = bmpNo[s] /\ part'[s] = part[s] /\ part[s] \in Nat
          /\ bmpNo[s] \in Sprite /\ Pieces[bmpNo[s]] \in Nat
      BY <1>2, <1>7, Ranges
    <2>2. /\ part[s] \in 1..Pieces[bmpNo[s]]
          /\ head[bmpNo[s]] = NULL => bmpNo[s] = v
          /\ \/ part[s] = Pieces[bmpNo[s]] /\ pNext[s] = NULL
             \/ part[s] < Pieces[bmpNo[s]] /\ Holds(pNext[s], bmpNo[s], part[s] + 1)
             \/ bmpNo[s] = job.want /\ part[s] = job.got
      BY <1>5, <2>1 DEF Sound, Chains, Evicted, v, w
    <2>3. bmpNo[s] = v => pNext[w] # NULL /\ pNext[w] # w /\ bmpNo[pNext[w]] = v /\ pNext[w] \in Surface
      BY <1>8, <2>1 DEF Holds
    <2>4. head[bmpNo[s]] = NULL => pNext[w] # NULL /\ bmpNo'[pNext[w]] = bmpNo'[s]
      BY <1>2, <1>7, <2>1, <2>2, <2>3
    <2>5. ASSUME Holds(pNext[s], bmpNo[s], part[s] + 1)
          PROVE  /\ pNext[s] \in Surface /\ bmpNo'[pNext[s]] = bmpNo'[s]
                 /\ part'[pNext[s]] = part'[s] + 1
      <3>1. pNext[s] # w
        <4>1. CASE bmpNo[s] = v
          BY <1>2, <1>6, <1>8, <2>1, <2>5, <4>1 DEF Holds, v
        <4>2. CASE bmpNo[s] # v
          BY <2>1, <2>5, <4>2 DEF Holds, v
        <4> QED
          BY <4>1, <4>2
      <3> QED
        BY <1>1, <1>7, <2>1, <2>5, <3>1 DEF Holds
    <2> QED
      BY <2>1, <2>2, <2>4, <2>5
  <1>12. Placing'
    BY <1>1, <1>2, <1>3, <1>5, <1>6, <1>7, Ranges
    DEF Sound, Placing, Loading, Holds, Passed, v
  <1>13. Freeing'
    BY <1>1, <1>2, <1>3, <1>6, <1>7, <1>8, Ranges DEF Freeing, Holds, Old, v
  <1>14. Drawing'
    BY <1>1 DEF Drawing
  <1>15. Dated'
    BY <1>1, <1>2, <1>5, <1>7, Ranges DEF Sound, Dated
  <1> QED
    BY <1>9, <1>10, <1>11, <1>12, <1>13, <1>14, <1>15 DEF Sound

\* The surface that is taken is free, and no chain is being given up any more.
LEMMA TakingFree ==
  ASSUME IInv, ~short, Taking
  PROVE  /\ Loading /\ job.want \in Sprite /\ Old(point) /\ bmpNo[point] = NoSprite
         /\ \A b : ~Evicted(b)
         /\ \A s \in Surface : bmpNo[s] # NoSprite => s # point /\ head[bmpNo[s]] # NULL
         /\ job.got > 0 => /\ head[job.want] # NULL /\ job.prev \in Surface \ {point}
                           /\ bmpNo[job.prev] = job.want /\ part[job.prev] = job.got
         /\ job.got = 0 => head[job.want] = NULL
  <1>1. Loading /\ job.want \in Sprite /\ Sound /\ \A b : ~Evicted(b)
    BY Ranges DEF IInv, TypeOK, Taking, Loading, Evicted
  <1>2. Old(point) /\ bmpNo[point] = NoSprite
    BY <1>1 DEF Sound, Freeing, Taking
  <1>3. \A s \in Surface : bmpNo[s] # NoSprite => s # point /\ head[bmpNo[s]] # NULL
    BY <1>1, <1>2 DEF Sound, Chains
  <1>4. /\ job.got > 0 => /\ head[job.want] # NULL /\ job.prev \in Surface \ {point}
                          /\ bmpNo[job.prev] = job.want /\ part[job.prev] = job.got
        /\ job.got = 0 => head[job.want] = NULL
    BY <1>1, <1>2, Ranges DEF Sound, Placing, Holds
  <1> QED
    BY <1>1, <1>2, <1>3, <1>4

\* What is on the surfaces after the next piece was placed.
LEMMA PlaceFields ==
  ASSUME IInv, job.want \in Sprite, Place
  PROVE  /\ bmpNo' \in [Surface -> Sprite \cup {NoSprite}] /\ part' \in [Surface -> Nat]
         /\ head' \in [Sprite -> Surface \cup {NULL}]
         /\ Linked \in [Surface -> Surface \cup {NULL}]
         /\ bmpNo'[point] = job.want /\ part'[point] = job.got + 1
         /\ \A s \in Surface : s # point => bmpNo'[s] = bmpNo[s] /\ part'[s] = part[s]
         /\ head'[job.want] = IF head[job.want] = NULL THEN point ELSE head[job.want]
         /\ \A b \in Sprite : b # job.want => head'[b] = head[b]
         /\ \A s \in Surface :
                Linked[s] = IF head[job.want] # NULL /\ s = job.prev THEN point ELSE pNext[s]
  <1>1. /\ bmpNo \in [Surface -> Sprite \cup {NoSprite}] /\ part \in [Surface -> Nat]
        /\ head \in [Sprite -> Surface \cup {NULL}] /\ pNext \in [Surface -> Surface \cup {NULL}]
        /\ point \in Surface /\ job.got + 1 \in Nat /\ job.prev \in Surface \cup {NULL}
    BY Ranges DEF TypeOK
  <1>2. /\ Linked \in [Surface -> Surface \cup {NULL}]
        /\ \A s \in Surface :
               Linked[s] = IF head[job.want] # NULL /\ s = job.prev THEN point ELSE pNext[s]
    BY <1>1, Ranges DEF Linked
  <1> QED
    BY <1>1, <1>2 DEF Place

\* The chains with one more piece of the bitmap that is loaded, when it is not
\* the last one, and when it is (next is the pNext there is then).
LEMMA PlaceKeeps ==
  ASSUME IInv, ~short, Taking, Place, UNCHANGED <<age, drawn>>, job.want \in Sprite,
         pNext' \in [Surface -> Surface \cup {NULL}],
         \A s \in Surface \ {point} : pNext'[s] = Linked[s],
         \/ Loading' /\ doing' = "search" /\ job'.want = job.want /\ job'.got = job.got + 1
         \/ job.got + 1 = Pieces[job.want] /\ pNext'[point] = NULL
  PROVE  Heads' /\ OneEach' /\ Chains' /\ Dated'
  <1> DEFINE b == job.want
             n == job.got + 1
  <1>1. Sound
    BY DEF IInv
  <1>2. /\ bmpNo'[point] = b /\ part'[point] = n
        /\ \A s \in Surface : s # point => bmpNo'[s] = bmpNo[s] /\ part'[s] = part[s]
        /\ head'[b] = (IF head[b] = NULL THEN point ELSE head[b])
        /\ \A c \in Sprite : c # b => head'[c] = head[c]
        /\ \A s \in Surface :
               s # point => pNext'[s] = IF head[b] # NULL /\ s = job.prev THEN point ELSE pNext[s]
        /\ b \in Sprite /\ b # NoSprite /\ point \in Surface /\ point # NULL
    BY PlaceFields, Ranges
  <1>3. /\ n \in Nat /\ n >= 1 /\ job.got \in Nat /\ n =< Pieces[b] /\ Pieces[b] \in Nat
        /\ bmpNo[point] = NoSprite /\ \A c : ~Evicted(c)
        /\ \A s \in Surface : bmpNo[s] # NoSprite => s # point /\ head[bmpNo[s]] # NULL
        /\ \A s \in Surface : bmpNo[s] = b => part[s] =< job.got
        /\ \A s \in Surface : bmpNo[s] \in Sprite \cup {NoSprite} /\ part[s] \in Nat
        /\ n > 1 => /\ head[b] # NULL /\ job.prev \in Surface \ {point}
                    /\ bmpNo[job.prev] = b /\ part[job.prev] = job.got
        /\ n = 1 => head[b] = NULL
    BY <1>1, TakingFree, Ranges DEF Sound, Placing, TypeOK
  <1> HIDE DEF b, n
  <1>4. Heads'
    <2> SUFFICES ASSUME NEW c \in Sprite, head'[c] # NULL
                 PROVE  head'[c] \in Surface /\ bmpNo'[head'[c]] = c /\ part'[head'[c]] = 1
      BY DEF Heads, Holds
    <2>1. CASE c = b /\ head[b] = NULL
      BY <1>2, <1>3, <2>1
    <2>2. CASE ~(c = b /\ head[b] = NULL)
      <3>1. head'[c] = head[c] /\ Holds(head[c], c, 1)
        BY <1>1, <1>2, <2>2 DEF Sound, Heads
      <3> QED
        BY <1>2, <1>3, <3>1, CacheAssumption DEF Holds
    <2> QED
      BY <2>1, <2>2
  <1>5. OneEach'
    <2> SUFFICES ASSUME NEW s \in Surface, NEW t \in Surface, bmpNo'[s] # NoSprite,
                        bmpNo'[s] = bmpNo'[t], part'[s] = part'[t]
                 PROVE  s = t
      BY DEF OneEach
    <2>1. CASE s # point /\ t # point
      BY <1>1, <1>2, <2>1 DEF Sound, OneEach
    <2>2. \A u \in Surface : u # point /\ bmpNo'[u] = b => part'[u] < n
      BY <1>2, <1>3 DEF n
    <2> QED
      BY <1>2, <1>3, <2>1, <2>2
  <1>6. Chains'
    <2> SUFFICES ASSUME NEW s \in Surface, bmpNo'[s] # NoSprite
                 PROVE  /\ part'[s] \in 1..Pieces[bmpNo'[s]] /\ head'[bmpNo'[s]] # NULL
                        /\ \/ part'[s] = Pieces[bmpNo'[s]] /\ pNext'[s] = NULL
                           \/ /\ part'[s] < Pieces[bmpNo'[s]]
                              /\ pNext'[s] \in Surface /\ bmpNo'[pNext'[s]] = bmpNo'[s]
                              /\ part'[pNext'[s]] = part'[s] + 1
                           \/ Loading' /\ bmpNo'[s] = job'.want /\ part'[s] = job'.got
      BY DEF Chains, Holds
    <2>1. CASE s = point
      BY <1>2, <1>3, <2>1 DEF b, n
    <2>2. CASE s # point
      <3>1. /\ bmpNo'[s] = bmpNo[s] /\ part'[s] = part[s] /\ bmpNo[s] \in Sprite
            /\ part[s] \in 1..Pieces[bmpNo[s]] /\ head'[bmpNo[s]] # NULL
        BY <1>1, <1>2, <1>3, <2>2 DEF Sound, Chains
      <3>2. CASE bmpNo[s] = b /\ part[s] = job.got
        <4>1. n > 1 /\ s = job.prev
          BY <1>1, <1>3, <3>1, <3>2 DEF Sound, OneEach, n
        <4>2. pNext'[s] = point
          BY <1>2, <1>3, <2>2, <4>1
        <4> QED
          BY <1>2, <1>3, <3>1, <3>2, <4>2 DEF n
      <3>3. CASE ~(bmpNo[s] = b /\ part[s] = job.got)
        <4>1. pNext'[s] = pNext[s]
          BY <1>2, <1>3, <2>2, <3>3
        <4>2. \/ part[s] = Pieces[bmpNo[s]] /\ pNext[s] = NULL
              \/ part[s] < Pieces[bmpNo[s]] /\ Holds(pNext[s], bmpNo[s], part[s] + 1)
          BY <1>1, <2>2, <3>1, <3>3, CacheAssumption DEF Sound, Chains, b
        <4> QED
          BY <1>2, <1>3, <3>1, <4>1, <4>2, CacheAssumption DEF Holds
      <3> QED
        BY <3>2, <3>3
    <2> QED
      BY <2>1, <2>2
  <1>7. Dated'
    <2>1. ~(drawn[b] =< SURACE_BMP_DEATH_DATE)
      BY <1>1, TakingFree, Ranges
        DEF Sound, Placing, b, TypeOK, Age, SURACE_BMP_DEATH_DATE
    <2> SUFFICES ASSUME NEW c \in Sprite, drawn[c] =< SURACE_BMP_DEATH_DATE
                 PROVE  head'[c] # NULL /\ \A s \in Surface : bmpNo'[s] = c => age[s] =< drawn[c]
      BY DEF Dated
    <2> QED
      BY <1>1, <1>2, <2>1 DEF Sound, Dated
  <1> QED
    BY <1>4, <1>5, <1>6, <1>7

LEMMA TakePieceKeeps ==
  ASSUME IInv, TakePiece
  PROVE  IInv'
  <1>1. /\ Taking /\ Place /\ pNext' = Linked /\ SearchOn(job.got + 1, point)
        /\ UNCHANGED <<age, drawn>> /\ job.got + 1 < Pieces[job.want]
        /\ point' = Following(point)
    BY DEF TakePiece, SearchOn
  <1>2. /\ job.want \in Sprite /\ doing \in {"search", "free"} /\ point \in Surface
        /\ job.got + 1 \in Nat /\ job.got \in Nat
    BY <1>1, Ranges DEF Taking, TypeOK
  <1>3. /\ bmpNo' \in [Surface -> Sprite \cup {NoSprite}] /\ part' \in [Surface -> Nat]
        /\ head' \in [Sprite -> Surface \cup {NULL}] /\ pNext' \in [Surface -> Surface \cup {NULL}]
    BY <1>1, <1>2, PlaceFields
  <1>4. /\ point' \in Surface /\ doing' \in {"idle", "search", "draw"} /\ job' \in Jobs
        /\ short' \in BOOLEAN /\ (~short' => ~short)
        /\ (doing' # "idle" => job'.want = job.want)
        /\ doing' = "search" => /\ job'.got = job.got + 1 /\ job'.prev = point
                                /\ job'.bak = job.bak /\ job'.walk = NULL /\ point' # job.bak
        /\ doing' # "search" /\ ~short' => job.got + 1 = 0
    BY <1>1, <1>2, <1>3, SearchOnJob
  <1>5. TypeOK'
    BY <1>1, <1>2, <1>3, <1>4, Ranges DEF TypeOK
  <1> SUFFICES ASSUME ~short' PROVE Sound'
    BY <1>5 DEF IInv
  <1>6. doing' = "search" /\ Sound /\ ~short
    BY <1>2, <1>4 DEF IInv
  <1>7. Heads' /\ OneEach' /\ Chains' /\ Dated'
    BY <1>1, <1>2, <1>3, <1>4, <1>6, PlaceKeeps DEF Loading
  <1>8. Placing'
    <2>1. \A s \in Surface : Passed(s) \/ s = point => Passed(s)'
      BY <1>1, <1>2, <1>4, <1>6, Ranges DEF Passed, Following, Surface
    <2>2. \A s \in Surface : bmpNo[s] = job.want => Passed(s) /\ part[s] =< job.got /\ part[s] \in Nat
      BY <1>2, <1>6, Ranges DEF Sound, Placing, Loading, TypeOK
    <2>3. \A s \in Surface : bmpNo'[s] = job.want => Passed(s)' /\ part'[s] =< job.got + 1
      BY <1>1, <1>2, <2>1, <2>2, PlaceFields
    <2>4. head'[job.want] # NULL /\ bmpNo'[point] = job.want /\ part'[point] = job.got + 1
      BY <1>1, <1>2, PlaceFields, Ranges
    <2>5. drawn[job.want] > SURACE_BMP_DEATH_DATE
      BY <1>2, <1>6 DEF Sound, Placing, Loading
    <2> QED
      BY <1>1, <1>2, <1>4, <1>6, <2>3, <2>4, <2>5 DEF Placing, Holds
  <1>9. Freeing' /\ Drawing'
    BY <1>6 DEF Freeing, Drawing
  <1> QED
    BY <1>7, <1>8, <1>9 DEF Sound

LEMMA TakeLastKeeps ==
  ASSUME IInv, TakeLast
  PROVE  IInv'
  <1>1. /\ Taking /\ Place /\ pNext' = [Linked EXCEPT ![point] = NULL] /\ Return
        /\ UNCHANGED <<age, drawn, short>> /\ job.got + 1 >= Pieces[job.want]
        /\ point' = Following(point)
    BY DEF TakeLast
  <1>2. /\ job.want \in Sprite /\ doing \in {"search", "free"} /\ point \in Surface
        /\ job.got + 1 \in Nat /\ job.got \in Nat /\ Pieces[job.want] \in Nat
    BY <1>1, Ranges DEF Taking, TypeOK
  <1>3. /\ bmpNo' \in [Surface -> Sprite \cup {NoSprite}] /\ part' \in [Surface -> Nat]
        /\ head' \in [Sprite -> Surface \cup {NULL}]
        /\ Linked \in [Surface -> Surface \cup {NULL}]
    BY <1>1, <1>2, PlaceFields
  <1>4. /\ pNext' \in [Surface -> Surface \cup {NULL}] /\ pNext'[point] = NULL
        /\ \A s \in Surface \ {point} : pNext'[s] = Linked[s]
    BY <1>1, <1>2, <1>3
  <1>5. /\ job' \in Jobs /\ doing' \in {"idle", "draw"}
        /\ doing' = "draw" => job'.want = job.want /\ job'.walk = head'[job.want]
    <2>1. CASE job.draws
      <3>1. doing' = "draw"
            /\ job' = [want |-> job.want, got |-> 0, prev |-> NULL, bak |-> 0,
                       walk |-> head'[job.want], draws |-> TRUE, whole |-> TRUE]
        BY <1>1, <2>1 DEF Return, NoJob
      <3>2. head'[job.want] \in Surface \cup {NULL} /\ 0 \in Surface
        BY <1>2, <1>3 DEF Surface
      <3> QED
        BY <1>2, <3>1, <3>2 DEF Jobs
    <2>2. CASE ~job.draws
      BY <1>1, <2>2, NoJobIsJob DEF Return
    <2> QED
      BY <2>1, <2>2
  <1>6. TypeOK'
    BY <1>1, <1>2, <1>3, <1>4, <1>5, Ranges, FollowingInRange DEF TypeOK
  <1> SUFFICES ASSUME ~short' PROVE Sound'
    BY <1>6 DEF IInv
  <1>7. Sound /\ ~short /\ job.got + 1 = Pieces[job.want]
    <2>1. Sound /\ ~short
      BY <1>1 DEF IInv
    <2> QED
      BY <1>1, <1>2, <2>1 DEF Sound, Placing, Loading
  <1>8. Heads' /\ OneEach' /\ Chains' /\ Dated'
    BY <1>1, <1>2, <1>4, <1>7, PlaceKeeps
  <1>9. Placing' /\ Freeing'
    BY <1>5 DEF Placing, Freeing, Loading
  <1>10. Drawing'
    <2> SUFFICES ASSUME doing' = "draw" PROVE Drawing'
      BY DEF Drawing
    <2>1. job'.want = job.want /\ job'.walk = head'[job.want] /\ head'[job.want] # NULL
      BY <1>1, <1>2, <1>5, PlaceFields, Ranges
    <2>2. /\ bmpNo'[head'[job.want]] = job.want /\ part'[head'[job.want]] = 1
          /\ \A s \in Surface : bmpNo'[s] # NoSprite => part'[s] >= 1 /\ part'[s] \in Nat
      BY <1>2, <1>3, <1>8, <2>1, Ranges DEF Heads, Holds, Chains
    <2> QED
      BY <1>2, <2>1, <2>2, Ranges DEF Drawing
  <1> QED
    BY <1>8, <1>9, <1>10 DEF Sound

-----------------------------------------------------------------------------
(* The drawing loops, and the end of a frame.                              *)

LEMMA DrawPieceKeeps ==
  ASSUME IInv, NEW dated \in BOOLEAN, DrawPiece(dated)
  PROVE  IInv'
  <1> DEFINE w == job.walk
  <1>1. /\ UNCHANGED <<bmpNo, part, pNext, head, point, doing, drawn, short>>
        /\ doing = "draw" /\ w # NULL
        /\ age' = (IF dated THEN [age EXCEPT ![w] = 0] ELSE age)
        /\ job' = [job EXCEPT !.walk = pNext[w], !.whole = job.whole /\ dated]
    BY DEF DrawPiece
  <1>2. /\ w \in Surface /\ job \in Jobs /\ job.want \in Sprite
        /\ age \in [Surface -> Age] /\ pNext \in [Surface -> Surface \cup {NULL}]
        /\ part \in [Surface -> Nat]
    BY <1>1, Ranges DEF TypeOK
  <1>3. /\ job' \in Jobs /\ job'.want = job.want /\ job'.walk = pNext[w]
        /\ job'.whole = (job.whole /\ dated)
    <2>1. job' = [want |-> job.want, got |-> job.got, prev |-> job.prev, bak |-> job.bak,
                  walk |-> pNext[w], draws |-> job.draws, whole |-> job.whole /\ dated]
      BY <1>1, <1>2 DEF Jobs
    <2>2. (job.whole /\ dated) \in BOOLEAN
      OBVIOUS
    <2> HIDE DEF w
    <2> QED
      BY <1>2, <2>1, <2>2 DEF Jobs
  <1>4. /\ age' \in [Surface -> Age] /\ \A s \in Surface : age'[s] =< age[s]
        /\ \A s \in Surface : age[s] = 0 => age'[s] = 0
        /\ dated => age'[w] = 0
    BY <1>1, <1>2 DEF Age, SURACE_BMP_DEATH_DATE
  <1>5. TypeOK'
    BY <1>1, <1>2, <1>3, <1>4, Ranges DEF TypeOK
  <1> SUFFICES ASSUME ~short' PROVE Sound'
    BY <1>5 DEF IInv
  <1>6. Sound
    BY <1>1 DEF IInv
  <1>7. Heads' /\ OneEach'
    BY <1>1, <1>6 DEF Sound, Heads, OneEach, Holds
  <1>8. Chains'
    BY <1>1, <1>6 DEF Sound, Chains, Holds, Evicted, Loading
  <1>9. Placing' /\ Freeing'
    BY <1>1 DEF Placing, Freeing, Loading
  <1>10. Dated'
    BY <1>1, <1>2, <1>4, <1>6, Ranges DEF Sound, Dated, TypeOK, Age, SURACE_BMP_DEATH_DATE
  <1>11. /\ bmpNo[w] = job.want /\ job.want # NoSprite
         /\ \A s \in Surface : bmpNo[s] = job.want /\ part[s] = part[w] => s = w
         /\ \A s \in Surface : bmpNo[s] = job.want => part[s] \in 1..Pieces[job.want]
         /\ \/ part[w] = Pieces[job.want] /\ pNext[w] = NULL
            \/ Holds(pNext[w], job.want, part[w] + 1)
    BY <1>1, <1>2, <1>6, Ranges DEF Sound, Drawing, OneEach, Chains, Loading
  <1>12. Drawing'
    <2>1. job'.walk # NULL => bmpNo[job'.walk] = job.want
      BY <1>3, <1>11, Ranges DEF Holds
    <2>2. ASSUME job'.whole, NEW s \in Surface, bmpNo[s] = job.want,
                 job'.walk # NULL => part[s] < part[job'.walk]
          PROVE  age'[s] = 0
      <3>1. job.whole /\ dated
        BY <1>3, <2>2
      <3>2. CASE s = w
        BY <1>4, <3>1, <3>2
      <3>3. CASE s # w
        <4>1. part[s] < part[w]
          BY <1>2, <1>3, <1>11, <2>2, <3>3, Ranges DEF Holds
        <4>2. age[s] = 0
          BY <1>1, <1>6, <2>2, <3>1, <4>1 DEF Sound, Drawing
        <4> QED
          BY <1>4, <4>2
      <3> QED
        BY <3>2, <3>3
    <2> HIDE DEF w
    <2> QED
      BY <1>1, <1>3, <2>1, <2>2 DEF Drawing
  <1> QED
    BY <1>7, <1>8, <1>9, <1>10, <1>12 DEF Sound

LEMMA DrawEndKeeps ==
  ASSUME IInv, DrawEnd
  PROVE  IInv'
  <1>1. /\ UNCHANGED <<bmpNo, part, pNext, age, head, point, short>>
        /\ doing = "draw" /\ job.walk = NULL /\ doing' = "idle" /\ job' = NoJob
        /\ drawn' = IF job.whole /\ head[job.want] # NULL
                    THEN [drawn EXCEPT ![job.want] = 0] ELSE drawn
    BY DEF DrawEnd, surfaces
  <1>2. job.want \in Sprite /\ drawn \in [Sprite -> Age] /\ age \in [Surface -> Age]
    BY <1>1, Ranges DEF TypeOK
  <1>3. /\ drawn' \in [Sprite -> Age]
        /\ \A b \in Sprite :
              \/ drawn'[b] = drawn[b]
              \/ b = job.want /\ drawn'[b] = 0 /\ job.whole /\ head[b] # NULL
    <2>1. 0 \in Age
      BY DEF Age, SURACE_BMP_DEATH_DATE
    <2>2. CASE job.whole /\ head[job.want] # NULL
      <3>1. drawn' = [drawn EXCEPT ![job.want] = 0]
        BY <1>1, <2>2
      <3> QED
        BY <3>1, <2>1, <2>2, <1>2
    <2>3. CASE ~(job.whole /\ head[job.want] # NULL)
      <3>1. drawn' = drawn
        BY <1>1, <2>3
      <3> QED
        BY <3>1, <1>2
    <2> QED
      BY <2>2, <2>3
  <1>4. TypeOK'
    BY <1>1, <1>2, <1>3, Ranges, NoJobIsJob DEF TypeOK
  <1> SUFFICES ASSUME ~short' PROVE Sound'
    BY <1>4 DEF IInv
  <1>5. Sound
    BY <1>1 DEF IInv
  <1>6. Heads' /\ OneEach'
    BY <1>1, <1>5 DEF Sound, Heads, OneEach, Holds
  <1>7. Chains'
    BY <1>1, <1>5 DEF Sound, Chains, Holds, Evicted, Loading
  <1>8. Placing' /\ Freeing' /\ Drawing'
    BY <1>1 DEF Placing, Freeing, Drawing, Loading
  <1>9. Dated'
    <2> SUFFICES ASSUME NEW b \in Sprite, drawn'[b] =< SURACE_BMP_DEATH_DATE
                 PROVE  head[b] # NULL /\ \A s \in Surface : bmpNo[s] = b => age[s] =< drawn'[b]
      BY <1>1 DEF Dated
    <2>1. CASE drawn'[b] = drawn[b]
      BY <1>5, <2>1 DEF Sound, Dated
    <2>2. CASE b = job.want /\ drawn'[b] = 0 /\ job.whole /\ head[b] # NULL
      <3>1. \A s \in Surface : bmpNo[s] = b => age[s] = 0
        BY <1>1, <1>5, <2>2 DEF Sound, Drawing
      <3> QED
        BY <2>2, <3>1
    <2> QED
      BY <1>3, <2>1, <2>2
  <1> QED
    BY <1>6, <1>7, <1>8, <1>9 DEF Sound

LEMMA NextFrameKeeps ==
  ASSUME IInv, NextFrame
  PROVE  IInv'
  <1>1. /\ UNCHANGED <<bmpNo, part, pNext, head, point, doing, job, short>> /\ doing = "idle"
        /\ age' = [s \in Surface |-> Older(age[s])]
        /\ drawn' = [b \in Sprite |-> Older(drawn[b])]
    BY DEF NextFrame
  <1>2. \A a \in Age : Older(a) \in Age
    BY DEF Older, Age, SURACE_BMP_DEATH_DATE
  <1>3. \A a, d \in Age : a =< d => Older(a) =< Older(d)
    BY DEF Older, Age, SURACE_BMP_DEATH_DATE
  <1>4. \A d \in Age : Older(d) =< SURACE_BMP_DEATH_DATE => d =< SURACE_BMP_DEATH_DATE
    BY DEF Older, Age, SURACE_BMP_DEATH_DATE
  <1>5. age \in [Surface -> Age] /\ drawn \in [Sprite -> Age]
    BY Ranges DEF TypeOK
  <1>6. TypeOK'
    BY <1>1, <1>2, <1>5, Ranges DEF TypeOK
  <1> SUFFICES ASSUME ~short' PROVE Sound'
    BY <1>6 DEF IInv
  <1>7. Sound
    BY <1>1 DEF IInv
  <1>8. Heads' /\ OneEach'
    BY <1>1, <1>7 DEF Sound, Heads, OneEach, Holds
  <1>9. Chains'
    BY <1>1, <1>7 DEF Sound, Chains, Holds, Evicted, Loading
  <1>10. Placing' /\ Freeing' /\ Drawing'
    BY <1>1 DEF Placing, Freeing, Drawing, Loading
  <1>11. Dated'
    BY <1>1, <1>3, <1>4, <1>5, <1>7 DEF Sound, Dated
  <1> QED
    BY <1>8, <1>9, <1>10, <1>11 DEF Sound

\* A cache with no bitmap in it, at the start and after the palette changed.
LEMMA EmptyIsSound ==
  /\ NoBitmaps \in [Surface -> Sprite \cup {NoSprite}] /\ NoParts \in [Surface -> Nat]
  /\ NoLinks \in [Surface -> Surface \cup {NULL}] /\ NoDates \in [Surface -> Age]
  /\ NoHeads \in [Sprite -> Surface \cup {NULL}] /\ NotDrawn \in [Sprite -> Age]
  /\ 0 \in Surface
  /\ \A s \in Surface : NoBitmaps[s] = NoSprite
  /\ \A b \in Sprite : NoHeads[b] = NULL /\ ~(NotDrawn[b] =< SURACE_BMP_DEATH_DATE)
  BY DEF NoBitmaps, NoParts, NoLinks, NoDates, NoHeads, NotDrawn, Surface, NULL, Age,
     SURACE_BMP_DEATH_DATE

LEMMA ResetKeeps ==
  ASSUME IInv, Reset
  PROVE  IInv'
  <1>1. TypeOK'
    BY EmptyIsSound, Ranges DEF Reset, TypeOK
  <1>2. doing' = "idle"
    BY DEF Reset
  <1>3. Heads' /\ Chains' /\ OneEach' /\ Dated'
    BY EmptyIsSound DEF Reset, Heads, Chains, OneEach, Dated
  <1>4. Placing' /\ Freeing' /\ Drawing'
    BY <1>2 DEF Placing, Freeing, Drawing, Loading
  <1> QED
    BY <1>1, <1>3, <1>4 DEF IInv, Sound

-----------------------------------------------------------------------------
(* The invariant, and what follows from it.                                *)

LEMMA IInvInit == Init => IInv
  <1> SUFFICES ASSUME Init PROVE IInv
    OBVIOUS
  <1>1. TypeOK
    BY EmptyIsSound, NoJobIsJob DEF Init, TypeOK
  <1>2. doing = "idle"
    BY DEF Init
  <1>3. Heads /\ Chains /\ OneEach /\ Dated
    BY EmptyIsSound DEF Init, Heads, Chains, OneEach, Dated
  <1>4. Placing /\ Freeing /\ Drawing
    BY <1>2 DEF Placing, Freeing, Drawing, Loading
  <1> QED
    BY <1>1, <1>3, <1>4 DEF IInv, Sound

LEMMA StutterKeeps ==
  ASSUME IInv, UNCHANGED vars
  PROVE  IInv'
  <1> USE DEF vars
  <1>1. TypeOK'
    BY DEF IInv, TypeOK
  <1>2. ~short => Heads' /\ OneEach' /\ Dated'
    BY DEF IInv, Sound, Heads, OneEach, Dated, Holds
  <1>3. ~short => Chains' /\ Placing'
    BY DEF IInv, Sound, Chains, Placing, Holds, Evicted, Loading, Passed
  <1>4. ~short => Freeing' /\ Drawing'
    BY DEF IInv, Sound, Freeing, Drawing, Old
  <1> QED
    BY <1>1, <1>2, <1>3, <1>4 DEF IInv, Sound

LEMMA IInvStep == IInv /\ [Next]_vars => IInv'
  BY LoadBmpKeeps, SkipKeeps, EvictKeeps, FreePieceKeeps, TakePieceKeeps, TakeLastKeeps,
     DrawPieceKeeps, DrawEndKeeps, NextFrameKeeps, ResetKeeps, StutterKeeps DEF Next, Loop

(* What holds of every reachable state of the cache.                       *)
THEOREM Inductive == Spec => []IInv
  BY IInvInit, IInvStep, PTL DEF Spec

(* Every pointer of the tables is NULL or points to a surface, and every   *)
(* surface holds a bitmap there is or none (SurfaceInfo, SpriteInfo).      *)
THEOREM TypeCorrect == Spec => []TypeOK
  <1>1. IInv => TypeOK
    BY DEF IInv
  <1> QED
    BY <1>1, Inductive, PTL

(* Unless a load came out short, the chain of every bitmap in the cache    *)
(* holds its pieces, all of them, in order and once (AllocateBmpToSurface).*)
THEOREM PicturesWhole == Spec => []WholePicture
  <1>1. IInv => WholePicture
    <2> SUFFICES ASSUME IInv, doing = "idle", ~short PROVE WholePicture
      BY DEF WholePicture
    <2>1. Heads /\ Chains /\ OneEach /\ ~Loading /\ \A b : ~Evicted(b)
      BY DEF IInv, Sound, Loading, Evicted
    <2>2. ASSUME NEW s \in Surface, bmpNo[s] # NoSprite
          PROVE  /\ part[s] \in 1..Pieces[bmpNo[s]] /\ head[bmpNo[s]] # NULL
                 /\ IF part[s] = Pieces[bmpNo[s]] THEN pNext[s] = NULL
                    ELSE Holds(pNext[s], bmpNo[s], part[s] + 1)
      BY <2>1, <2>2, Ranges DEF Chains, TypeOK
    <2> QED
      BY <2>1, <2>2 DEF WholePicture, Heads, OneEach
  <1> QED
    BY <1>1, Inductive, PTL

(* A drawing loop meets only pieces of the bitmap it draws (Sprdisp.cpp).  *)
THEOREM OwnPixels == Spec => []DrawsOwnPixels
  <1>1. IInv => DrawsOwnPixels
    BY DEF IInv, Sound, Drawing, DrawsOwnPixels
  <1> QED
    BY <1>1, Inductive, PTL

(* A bitmap drawn in full within SURACE_BMP_DEATH_DATE frames is still in  *)
(* the cache (the test of SurfaceInfo[].date in AllocateBmpToSurface).     *)
THEOREM LatelyDrawnStays == Spec => []StaysLoaded
  <1>1. IInv => StaysLoaded
    BY DEF IInv, Sound, Dated, StaysLoaded
  <1> QED
    BY <1>1, Inductive, PTL

=============================================================================
