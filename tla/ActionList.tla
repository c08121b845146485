---------------------------- MODULE ActionList ----------------------------
(* The list of actions (system/action.cpp): every thing that moves or is    *)
(* drawn by itself has an ACTION, and RunAction calls their functions once  *)
(* a frame.  DeathAction only marks: an action is unlinked and freed when   *)
(* RunAction next comes to it.  Between its calls the list is changed by    *)
(* the handlers of messages and screens, and during a pass by the functions *)
(* themselves: they are actions of the modules that extend this one.        *)
(* Of the priorities only PRIO_CHR is here, the one of all that walks.      *)
EXTENDS Naturals, Sequences, FiniteSetsExt, Functions

CONSTANTS Action,     \* the addresses an action can have
          NULL        \* no action

ASSUME ActionAssumption == Action \subseteq Nat /\ IsFiniteSet(Action) /\ NULL \notin Action

VARIABLES list,       \* the actions between pActTop and pActBtm
          dead,       \* those with deathFlag set
          cursor,     \* pActLoop of RunAction; NULL: it does not run
          ran         \* history: the actions this pass has called

listVars == <<list, dead, cursor, ran>>

Live == Range(list) \ dead

ListInit == /\ list = <<>>
            /\ dead = {}
            /\ cursor = NULL
            /\ ran = {}

(* CALLOC gives an address nobody holds: not of the list and, so that a     *)
(* pointer left behind is seen as such, not one still pointed to.           *)
Unused(pointers) == Action \ (Range(list) \cup pointers)

\* (mutant: a new action comes before those of its priority)
GetActionFirst(a) == <<a>> \o list

(* GetAction: behind the actions of its priority. *)
GetAction(a) == Append(list, a)

Index(l, a) == CHOOSE i \in DOMAIN l : l[i] = a

Successor(l, a) == LET i == Index(l, a)
                   IN IF i = Len(l) THEN NULL ELSE l[i + 1]

(* RunAction begins: between messages and screens. *)
StartPass == /\ cursor = NULL
             /\ list # <<>>
             /\ cursor' = Head(list)
             /\ UNCHANGED <<list, dead, ran>>

(* It goes on, with what the function it called made of the list.           *)
Advance == /\ cursor' = Successor(list', cursor)
           /\ ran' = IF cursor' = NULL THEN {} ELSE ran \cup {cursor}

(* ClearAction *)
Unlinked(l, a) == LET i == Index(l, a)
                  IN [j \in 1 .. Len(l) - 1 |-> l[IF j < i THEN j ELSE j + 1]]

(* A marked action is unlinked and freed, and not called.                   *)
Free == /\ cursor \in dead
        /\ list' = Unlinked(list, cursor)
        /\ dead' = dead \ {cursor}
        /\ cursor' = Successor(list, cursor)
        /\ ran' = IF cursor' = NULL THEN {} ELSE ran
----------------------------------------------------------------------------
ListTypeOK == /\ list \in Seq(Action)
              /\ IsInjective(list)
              /\ dead \subseteq Range(list)
              /\ cursor \in Action \cup {NULL}
              /\ ran \subseteq Action

(* However the functions change the list under RunAction, it stands on an   *)
(* action that is still linked, has called every action before it exactly   *)
(* once in this pass and none of those from it on.                          *)
PassSound == cursor # NULL =>
    /\ cursor \in Range(list)
    /\ \A i \in DOMAIN list : list[i] \in ran <=> i < Index(list, cursor)
============================================================================
