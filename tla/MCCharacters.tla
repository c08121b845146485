------------------------- MODULE MCCharacters -------------------------
EXTENDS Characters

CONSTANTS friend, dog, stone, me

(* Once a slot in use was given away nothing is followed: the properties    *)
(* say nothing of the states after it.                                      *)
UntilTaken == ~ taken

(* The addresses of actions are arbitrary, and nobody calls a marked one:   *)
(* states that differ in nothing else are the same.  An address stands for  *)
(* its place in the list, one not in the list for what lies behind it.      *)
At(a) == IF a = NULL THEN 0
         ELSE IF a \in Range(list) THEN Index(list, a) ELSE Len(list) + 1

UpToAddresses ==
    << [i \in DOMAIN list |-> IF list[i] \in dead THEN NoFunc ELSE func[list[i]]],
       {At(a) : a \in dead}, At(cursor), {At(a) : a \in ran},
       [s \in Slot |-> [obj[s] EXCEPT !.ptAct = At(@)]],
       [p \in Place |-> [party[p] EXCEPT !.ptAct = At(@)]],
       At(pcAct), count, freeSlot, tail, screen, wasFull, taken >>
=======================================================================
