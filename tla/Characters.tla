---------------------------- MODULE Characters ----------------------------
(* What stands on the map: the table of objects charObj (character.cpp),    *)
(* the player's own character and the party (pc.cpp), and the actions that  *)
(* move and draw them, as the messages C, CD, S C, S N, PR and PME          *)
(* (netproc.cpp), the functions charProc and petProc and the changes of the *)
(* screen (process.cpp, battleProc.cpp, login.cpp) create and delete them.  *)
(* An action has up to three owners: its object or the pc, and the place in *)
(* the party; charProc and partyMoveProc follow the pointers unchecked.     *)
EXTENDS ActionList

CONSTANTS Player, Pet, Item,   \* ids of the other objects, by what they are
          PcId, NoId,          \* pc.id; the id 0
          MAX_CHAROBJ,         \* size of charObj
          MAX_PARTY,           \* size of party
          PetLife              \* passes a pet that comes or goes stays at most

Id == Player \cup Pet \cup Item

ASSUME CharactersAssumption == /\ PcId \notin Id /\ NoId \notin Id \cup {PcId}
                               /\ Player \cap Item = {}
                               /\ MAX_CHAROBJ \in Nat \ {0}
                               /\ MAX_PARTY \in Nat \ {0}
                               /\ PetLife \in Nat

Slot == 0 .. MAX_CHAROBJ - 1
Place == 0 .. MAX_PARTY - 1

VARIABLES obj,       \* charObj: [use, id, ptAct, party] by slot
          count,     \* maxCharObj
          freeSlot,  \* freeCharObj
          tail,      \* tailCharObj
          pcAct,     \* pc.ptAct
          party,     \* party: [use, id, ptAct] by place
          func,      \* what an action calls, with its pYobi
          screen,    \* where the program is
          wasFull,   \* history: since the last reset every slot was in use
          taken      \* history: a slot in use was given away

table == <<obj, count, freeSlot, tail, wasFull, taken>>
vars == <<listVars, table, pcAct, party, func, screen>>

(* party: CHR_STATUS_PARTY. *)
NoObject == [use |-> FALSE, id |-> NoId, ptAct |-> NULL, party |-> FALSE]
Nobody == [use |-> FALSE, id |-> NoId, ptAct |-> NULL]

NoFunc == [does |-> "nothing"]
CharProc(slot, what) == [does |-> "charProc", slot |-> slot, item |-> what]
PcProc == [does |-> "pcProc"]
PetProc(id, left) == [does |-> "petProc", id |-> id, left |-> left]

Screens == {"login",    \* PROC_CHAR_LOGIN_START is over, GameProc 100 to come
            "field",    \* GameProc 3, and the warps 200 to 204
            "encounter",\* GameProc 4 and 5, encountNowFlag is set
            "battle",   \* BattleProc, after its DeathAllAction
            "back",     \* after BattleProc, GameProc 1 to come
            "out"}      \* logged out or disconnected

Init == /\ ListInit
        /\ obj = [s \in Slot |-> NoObject]
        /\ count = 0
        /\ freeSlot = 0
        /\ tail = 0
        /\ pcAct = NULL
        /\ party = [p \in Place |-> Nobody]
        /\ func = [a \in Action |-> NoFunc]
        /\ screen = "out"
        /\ wasFull = FALSE
        /\ taken = FALSE
----------------------------------------------------------------------------
(* Messages are handled between two passes of RunAction, unless logged out; *)
(* C and PME are dropped from an encounter to the end of the battle.        *)
Handling == cursor = NULL /\ screen # "out"
Seeing == Handling /\ screen \notin {"encounter", "battle"}

Pointers == {obj[s].ptAct : s \in Slot} \cup {pcAct} \cup {party[p].ptAct : p \in Place}

(* Bound: an action that stays free for each pet that may still turn up.    *)
Pets == {a \in Range(list) : func[a].does = "petProc"}
Room == Cardinality(Unused(Pointers)) > Cardinality(Pets)

New == Min(Unused(Pointers))

(* searchCharObjId: the slots that hold id, at most one (see OneSlotEach). *)
SlotsOf(id) == {s \in Slot : s < tail /\ obj[s].use /\ obj[s].id = id}
SlotOf(id) == CHOOSE s \in SlotsOf(id) : TRUE

(* getCharObjAct *)
ActOf(id) == IF SlotsOf(id) = {} THEN NULL ELSE obj[SlotOf(id)].ptAct

(* The places in the party that hold id. *)
PlacesOf(id) == {p \in Place : party[p].use /\ party[p].id = id}

(* The state of charObj between the two halves of a handler: what delCharObj *)
(* and getCharObjBuf make of it.                                             *)
Table == [obj |-> obj, count |-> count, free |-> freeSlot, tail |-> tail]

Used(t) == {s \in Slot : t.obj[s].use}

(* delCharObj, of an object in slot s *)
Deleted(t, s) ==
    LET o == [t.obj EXCEPT ![s] = NoObject]
        left == {i \in Slot : i < t.tail /\ o[i].use}
    IN [obj |-> o,
        count |-> IF t.count > 0 THEN t.count - 1 ELSE 0,
        free |-> IF t.free > s THEN s ELSE t.free,
        tail |-> IF left = {} THEN t.tail ELSE Max(left) + 1]

\* (mutant: the slot after the one taken, free or not)
NextFreeBlind(t) == IF t.free + 1 < MAX_CHAROBJ THEN t.free + 1 ELSE t.free

(* The next free slot after the one taken, else the first before it: when   *)
(* there is none freeCharObj stays at the slot just given away.             *)
NextFree(t) ==
    LET ahead == {i \in Slot : i > t.free /\ ~ t.obj[i].use}
        behind == {i \in Slot : i < t.free /\ ~ t.obj[i].use}
    IN IF ahead # {} THEN Min(ahead)
       ELSE IF behind # {} THEN Min(behind) ELSE t.free

(* getCharObjBuf, and what its caller puts into the slot; the status of a   *)
(* slot given away a second time is kept.                                   *)
Added(t, id, a, inParty) ==
    [obj |-> [t.obj EXCEPT ![t.free] = [use |-> TRUE, id |-> id, ptAct |-> a,
                                        party |-> t.obj[t.free].party \/ inParty]],
     count |-> t.count + 1,
     free |-> NextFree(t),
     tail |-> IF t.free + 1 > t.tail THEN t.free + 1 ELSE t.tail]

Full(t) == t.count >= MAX_CHAROBJ

(* The table after a handler that deleted, and after one that added. *)
Becomes(t) == /\ obj' = t.obj
              /\ count' = t.count
              /\ freeSlot' = t.free
              /\ tail' = t.tail
              /\ wasFull' = (wasFull \/ Used(t) = Slot)
              /\ UNCHANGED taken

BecomesWith(t, id, a, inParty) ==
    LET u == Added(t, id, a, inParty)
    IN /\ obj' = u.obj
       /\ count' = u.count
       /\ freeSlot' = u.free
       /\ tail' = u.tail
       /\ wasFull' = (wasFull \/ Used(u) = Slot)
       /\ taken' = (taken \/ t.obj[t.free].use)

(* resetCharObj and initCharObj *)
EmptyTable == /\ obj' = [s \in Slot |-> NoObject]
              /\ count' = 0
              /\ freeSlot' = 0
              /\ tail' = 0
              /\ wasFull' = FALSE
              /\ UNCHANGED taken

(* DeathAction, of the actions that exist *)
Mark(acts) == dead' = dead \cup (acts \ {NULL})

ObjectActs == {obj[s].ptAct : s \in Slot}
NoParty == [p \in Place |-> Nobody]
----------------------------------------------------------------------------
(* setPcParty and setPcLeader change no pointer; the place in the party     *)
(* learns the new action.                                                   *)
Aliased(id, a) == IF PlacesOf(id) = {} THEN party
                  ELSE [party EXCEPT ![Min(PlacesOf(id))].ptAct = a]

(* C of another character: an object of this id is deleted and made anew    *)
(* (setNpcCharObj); a place of the party that holds the id gets the action. *)
ObjC_recv(id) ==
    /\ Seeing /\ Room
    /\ LET found == SlotsOf(id)
           t == IF found = {} THEN Table ELSE Deleted(Table, SlotOf(id))
       IN /\ Mark({ActOf(id)})
          /\ IF Full(t)
             THEN /\ Becomes(t)
                  /\ UNCHANGED <<list, func, party>>
             ELSE /\ list' = GetAction(New)
                  /\ func' = [func EXCEPT ![New] = CharProc(t.free, FALSE)]
                  /\ BecomesWith(t, id, New, PlacesOf(id) # {})
                  /\ party' = Aliased(id, New)
    /\ UNCHANGED <<cursor, ran, pcAct, screen>>

(* C of an item or of money: one that exists is kept. *)
ItemC_recv(id) ==
    /\ Seeing /\ Room
    /\ SlotsOf(id) = {}
    /\ ~ Full(Table)
    /\ list' = GetAction(New)
    /\ func' = [func EXCEPT ![New] = CharProc(freeSlot, TRUE)]
    /\ BecomesWith(Table, id, New, FALSE)
    /\ UNCHANGED <<dead, cursor, ran, pcAct, party, screen>>

(* C of the player's own character: createPc. *)
OwnC_recv ==
    /\ Seeing /\ Room
    /\ IF pcAct = NULL
       THEN /\ pcAct' = New
            /\ list' = GetAction(New)
            /\ func' = [func EXCEPT ![New] = PcProc]
       ELSE UNCHANGED <<pcAct, list, func>>
    /\ party' = Aliased(PcId, pcAct')
    /\ UNCHANGED <<dead, cursor, ran, table, screen>>

(* CD: delCharObj, which for the own id is resetPc. *)
CD_recv(id) ==
    /\ Handling
    /\ IF id = PcId
       THEN /\ Mark({pcAct})
            /\ pcAct' = NULL
            /\ UNCHANGED table
       ELSE /\ Mark({ActOf(id)})
            /\ Becomes(IF SlotsOf(id) = {} THEN Table ELSE Deleted(Table, SlotOf(id)))
            /\ UNCHANGED pcAct
    /\ party' = Aliased(id, NULL)
    /\ UNCHANGED <<list, cursor, ran, func, screen>>

(* setCharParty, delCharParty: through the action to the slot it names. *)
Joined(a) == [obj EXCEPT ![func[a].slot].party = TRUE]
Left(o, acts) == LET slots == {func[a].slot : a \in acts \ {NULL}}
                 IN [s \in Slot |-> IF s \in slots THEN [o[s] EXCEPT !.party = FALSE] ELSE o[s]]

(* S N: somebody is at place p of the party.  The server gives a place that *)
(* is free, or tells again who has it.                                      *)
Join_recv(p, id) ==
    /\ Handling
    /\ party[p].id = id \/ (~ party[p].use /\ PlacesOf(id) = {})
    /\ LET a == IF id = PcId THEN pcAct ELSE ActOf(id)
       IN /\ party' = [party EXCEPT ![p] = [use |-> TRUE, id |-> id, ptAct |-> a]]
          /\ obj' = IF id = PcId \/ a = NULL THEN obj ELSE Joined(a)
    /\ UNCHANGED <<listVars, count, freeSlot, tail, wasFull, taken, pcAct, func, screen>>

(* clearPartyParam, for the party q and the objects o. *)
Dissolved(o, q) == Left(o, {q[p].ptAct : p \in {r \in Place : q[r].use /\ q[r].id # PcId}})

\* (mutant: he goes, his object stays a member of the party)
Leave_recvSilent(p) ==
    /\ Handling
    /\ LET q == [party EXCEPT ![p] = Nobody]
       IN IF Cardinality({r \in Place : q[r].use}) <= 1
          THEN /\ obj' = Dissolved(obj, q)
               /\ party' = NoParty
          ELSE /\ party' = q
               /\ UNCHANGED obj
    /\ UNCHANGED <<listVars, count, freeSlot, tail, wasFull, taken, pcAct, func, screen>>

(* S N with nobody: the member at place p has gone; the last one left is no *)
(* party (clearPartyParam).                                                 *)
Leave_recv(p) ==
    /\ Handling
    /\ LET o == IF party[p].use /\ party[p].id # PcId THEN Left(obj, {ActOf(party[p].id)}) ELSE obj
           q == [party EXCEPT ![p] = Nobody]
       IN IF Cardinality({r \in Place : q[r].use}) <= 1
          THEN /\ obj' = Dissolved(o, q)
               /\ party' = NoParty
          ELSE /\ obj' = o
               /\ party' = q
    /\ UNCHANGED <<listVars, count, freeSlot, tail, wasFull, taken, pcAct, func, screen>>

(* PR: the server lets the player leave the party. *)
PR_recv ==
    /\ Handling
    /\ obj' = Dissolved(obj, party)
    /\ party' = NoParty
    /\ UNCHANGED <<listVars, count, freeSlot, tail, wasFull, taken, pcAct, func, screen>>

(* PME, a pet goes off: createPetAction without an id. *)
PetOut_recv ==
    /\ Seeing /\ Room
    /\ Cardinality(Unused(Pointers)) > Cardinality(Pets) + 1
    /\ list' = GetAction(New)
    /\ func' = [func EXCEPT ![New] = PetProc(NoId, PetLife)]
    /\ UNCHANGED <<dead, cursor, ran, table, pcAct, party, screen>>

\* (mutant: the action of the pet does not know its object)
PetIn_recvNameless(id) ==
    /\ Seeing /\ Room
    /\ Cardinality(Unused(Pointers)) > Cardinality(Pets) + 1
    /\ SlotsOf(id) = {}
    /\ ~ Full(Table)
    /\ BecomesWith(Table, id, NULL, FALSE)
    /\ list' = GetAction(New)
    /\ func' = [func EXCEPT ![New] = PetProc(NoId, PetLife)]
    /\ UNCHANGED <<dead, cursor, ran, pcAct, party, screen>>

(* PME, a pet comes: its object has no action (setReturnPetObj) until the   *)
(* action that brings it has ended.                                         *)
PetIn_recv(id) ==
    /\ Seeing /\ Room
    /\ Cardinality(Unused(Pointers)) > Cardinality(Pets) + 1
    /\ SlotsOf(id) = {}
    /\ ~ Full(Table)
    /\ BecomesWith(Table, id, NULL, FALSE)
    /\ list' = GetAction(New)
    /\ func' = [func EXCEPT ![New] = PetProc(id, PetLife)]
    /\ UNCHANGED <<dead, cursor, ran, pcAct, party, screen>>

(* clearPtActPartyParam *)
PartyUnseen == [p \in Place |-> [party[p] EXCEPT !.ptAct = NULL]]

\* (mutant: the party keeps its pointers over a change of the map)
MapC_recvKeeps ==
    /\ Handling
    /\ screen \in {"login", "field", "back"}
    /\ Mark(ObjectActs \cup (IF screen = "login" THEN {} ELSE {pcAct}))
    /\ pcAct' = IF screen = "login" THEN pcAct ELSE NULL
    /\ EmptyTable
    /\ screen' = IF screen = "login" THEN "login" ELSE "field"
    /\ UNCHANGED <<list, cursor, ran, func, party>>

(* S C, another map: everything on the old one goes (resetPc, resetCharObj). *)
MapC_recv ==
    /\ Handling
    /\ screen \in {"login", "field", "back"}
    /\ Mark(ObjectActs \cup (IF screen = "login" THEN {} ELSE {pcAct}))
    /\ pcAct' = IF screen = "login" THEN pcAct ELSE NULL
    /\ EmptyTable
    /\ party' = PartyUnseen
    /\ screen' = IF screen = "login" THEN "login" ELSE "field"
    /\ UNCHANGED <<list, cursor, ran, func>>
----------------------------------------------------------------------------
(* GameProc sub 3 finds EncountFlag set. *)
Encounter ==
    /\ cursor = NULL
    /\ screen = "field"
    /\ screen' = "encounter"
    /\ Mark(ObjectActs \cup {pcAct})
    /\ pcAct' = NULL
    /\ EmptyTable
    /\ party' = PartyUnseen
    /\ UNCHANGED <<list, cursor, ran, func>>

(* BattleProc begins: DeathAllAction. *)
BattleStart ==
    /\ cursor = NULL
    /\ screen = "encounter"
    /\ screen' = "battle"
    /\ dead' = Range(list)
    /\ UNCHANGED <<list, cursor, ran, table, pcAct, party, func>>

(* BattleProc ends: DeathAllAction and clearPtActCharObj. *)
BattleEnd ==
    /\ cursor = NULL
    /\ screen = "battle"
    /\ screen' = "back"
    /\ dead' = Range(list)
    /\ obj' = [s \in Slot |-> [obj[s] EXCEPT !.ptAct = NULL]]
    /\ UNCHANGED <<list, cursor, ran, count, freeSlot, tail, wasFull, taken, pcAct, party, func>>

Unseen == {s \in Slot : obj[s].use /\ obj[s].ptAct = NULL}

Ascending(n, S) == {f \in [1 .. n -> S] : \A i, j \in 1 .. n : i < j => f[i] < f[j]}

(* GameProc 100 or 1: initPc (which tells the party) and                    *)
(* restorePtActCharObjAll, slot after slot.                                 *)
GameStart ==
    /\ cursor = NULL
    /\ screen \in {"login", "back"}
    /\ Cardinality(Unused(Pointers)) > Cardinality(Unseen) + Cardinality(Pets)
    /\ screen' = "field"
    /\ pcAct' = IF pcAct = NULL THEN New ELSE pcAct
    /\ party' = Aliased(PcId, pcAct')
    /\ \E slots \in Ascending(Cardinality(Unseen), Unseen),
          acts \in Ascending(Cardinality(Unseen), Unused(Pointers) \ {pcAct'}) :
         LET at(s) == CHOOSE n \in DOMAIN slots : slots[n] = s
         IN /\ obj' = [s \in Slot |-> IF s \in Unseen THEN [obj[s] EXCEPT !.ptAct = acts[at(s)]]
                                      ELSE obj[s]]
            /\ list' = list \o (IF pcAct = NULL THEN <<New>> ELSE <<>>) \o acts
            /\ func' = [a \in Action |->
                          IF pcAct = NULL /\ a = New THEN PcProc
                          ELSE IF a \in Range(acts)
                          THEN CharProc(slots[Index(acts, a)], FALSE) ELSE func[a]]
    /\ UNCHANGED <<dead, cursor, ran, count, freeSlot, tail, wasFull, taken>>

(* characterLogoutProc, or the screen of a lost connection: resetPc,        *)
(* initCharObj, DeathAllAction.                                             *)
Logout ==
    /\ cursor = NULL
    /\ screen # "out"
    /\ screen' = "out"
    /\ dead' = Range(list)
    /\ pcAct' = NULL
    /\ EmptyTable
    /\ UNCHANGED <<list, cursor, ran, party, func>>

(* PROC_CHAR_LOGIN_START: initPcAll, initCharObj. *)
Login ==
    /\ cursor = NULL
    /\ screen = "out"
    /\ screen' = "login"
    /\ pcAct' = NULL
    /\ party' = NoParty
    /\ EmptyTable
    /\ UNCHANGED <<listVars, func>>
----------------------------------------------------------------------------
(* RunAction calls the action at the cursor. *)
Called(does) == /\ cursor # NULL
                /\ cursor \notin dead
                /\ func[cursor].does = does

CallPc == /\ Called("pcProc")
          /\ UNCHANGED <<list, dead, func, table, pcAct, party, screen>>
          /\ Advance

(* charProc; an item far off deletes what its slot holds, itself. *)
CallChar ==
    /\ Called("charProc")
    /\ \/ UNCHANGED <<dead, table>>
       \/ /\ func[cursor].item
          /\ LET id == obj[func[cursor].slot].id
             IN /\ Mark({ActOf(id)})
                /\ Becomes(IF SlotsOf(id) = {} THEN Table ELSE Deleted(Table, SlotOf(id)))
    /\ UNCHANGED <<list, func, pcAct, party, screen>>
    /\ Advance

(* petProc: the pet moves on. *)
CallPet == /\ Called("petProc")
           /\ func[cursor].left > 0
           /\ func' = [func EXCEPT ![cursor].left = @ - 1]
           /\ UNCHANGED <<list, dead, table, pcAct, party, screen>>
           /\ Advance

\* (mutant: the object is given an action though it has one)
EndPetAgain ==
    /\ Called("petProc")
    /\ Mark({cursor})
    /\ LET id == func[cursor].id
       IN IF SlotsOf(id) # {}
          THEN /\ list' = GetAction(New)
               /\ func' = [func EXCEPT ![New] = CharProc(SlotOf(id), FALSE)]
               /\ obj' = [obj EXCEPT ![SlotOf(id)].ptAct = New]
          ELSE UNCHANGED <<list, func, obj>>
    /\ UNCHANGED <<count, freeSlot, tail, wasFull, taken, pcAct, party, screen>>
    /\ Advance

(* Its time is over or it is out of sight: restorePtActCharObj gives the    *)
(* object that waits for it an action, behind all others of this pass.      *)
EndPet ==
    /\ Called("petProc")
    /\ Mark({cursor})
    /\ LET id == func[cursor].id
       IN IF SlotsOf(id) # {} /\ ActOf(id) = NULL
          THEN /\ list' = GetAction(New)
               /\ func' = [func EXCEPT ![New] = CharProc(SlotOf(id), FALSE)]
               /\ obj' = [obj EXCEPT ![SlotOf(id)].ptAct = New]
          ELSE UNCHANGED <<list, func, obj>>
    /\ UNCHANGED <<count, freeSlot, tail, wasFull, taken, pcAct, party, screen>>
    /\ Advance

FreeAction == /\ Free
              /\ func' = [func EXCEPT ![cursor] = NoFunc]
              /\ UNCHANGED <<table, pcAct, party, screen>>

Begin == StartPass /\ UNCHANGED <<table, pcAct, party, func, screen>>

RunAction == Begin \/ CallPc \/ CallChar \/ CallPet \/ EndPet \/ FreeAction

Receive == \/ \E id \in Player : ObjC_recv(id)
           \/ \E id \in Item : ItemC_recv(id)
           \/ OwnC_recv
           \/ \E id \in Id \cup {PcId} : CD_recv(id)
           \/ \E p \in Place, id \in Player \cup {PcId} : Join_recv(p, id)
           \/ \E p \in Place : Leave_recv(p)
           \/ PR_recv
           \/ PetOut_recv
           \/ \E id \in Pet : PetIn_recv(id)
           \/ MapC_recv

Change == Encounter \/ BattleStart \/ BattleEnd \/ GameStart \/ Logout \/ Login

Next == RunAction \/ Receive \/ Change

(* Every frame runs the actions, to the end of the list. *)
Spec == Init /\ [][Next]_vars /\ WF_vars(RunAction)
----------------------------------------------------------------------------
TypeOK == /\ ListTypeOK
          /\ obj \in [Slot -> [use : BOOLEAN, id : Id \cup {NoId},
                               ptAct : Action \cup {NULL}, party : BOOLEAN]]
          /\ count \in 0 .. MAX_CHAROBJ
          /\ freeSlot \in Slot
          /\ tail \in 0 .. MAX_CHAROBJ
          /\ pcAct \in Action \cup {NULL}
          /\ party \in [Place -> [use : BOOLEAN, id : Id \cup {PcId, NoId},
                                  ptAct : Action \cup {NULL}]]
          /\ screen \in Screens
          /\ \A a \in Range(list) : func[a].does \in {"charProc", "pcProc", "petProc"}

(* Who follows a pointer to an action finds one that is alive: the table,   *)
(* the pc and, unless the player is logged out, the party, whose pointers   *)
(* name actions that belong to others; as long as no slot in use was given  *)
(* away.                                                                    *)
OwnersAlive ==
    ~ taken =>
        /\ \A s \in Slot : obj[s].ptAct # NULL => obj[s].ptAct \in Live
        /\ pcAct # NULL => pcAct \in Live
        /\ screen # "out" =>
             \A p \in Place : party[p].ptAct # NULL => party[p].ptAct \in Live

(* charObj holds an id once; the slots in use are those counted and lie     *)
(* below tail, where searchCharObjId looks; and the next object gets a slot *)
(* that is free, as long as the table has not once been full.               *)
OneSlotEach ==
    ~ taken =>
        /\ \A s, u \in Used(Table) : obj[s].id = obj[u].id => s = u
        /\ \A s \in Used(Table) : s < tail
        /\ count = Cardinality(Used(Table))
        /\ ~ wasFull => ~ obj[freeSlot].use

(* Each character and its slot name each other: no action is left on the    *)
(* screen without an object, and charProc finds its own slot.               *)
NoOrphan ==
    ~ taken =>
        /\ \A a \in Live : func[a].does = "charProc" => obj[func[a].slot].ptAct = a
        /\ \A s \in Slot : LET a == obj[s].ptAct
                           IN a # NULL => func[a].does = "charProc" /\ func[a].slot = s
        /\ \A a \in Live : func[a].does = "pcProc" => pcAct = a

(* A member of the party that is on the map walks with it: he has the       *)
(* status that stops charMove exactly when his place points to his action,  *)
(* by which partyMoveProc moves him.                                        *)
WalksWithParty ==
    ~ taken /\ screen # "out" =>
        /\ \A s \in Slot : obj[s].use /\ obj[s].ptAct # NULL =>
              (obj[s].party <=> \E p \in PlacesOf(obj[s].id) : party[p].ptAct = obj[s].ptAct)
        /\ \A p \in Place : party[p].ptAct # NULL =>
              party[p].ptAct = (IF party[p].id = PcId THEN pcAct ELSE ActOf(party[p].id))

(* A pet that came is seen in the end, or it is gone again: whatever ends   *)
(* the action that brings it has given its object one, or deleted it.       *)
PetShown == \A s \in Slot : (obj[s].use /\ obj[s].ptAct = NULL)
                            ~> (~ obj[s].use \/ obj[s].ptAct # NULL \/ taken)
============================================================================
