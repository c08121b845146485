----------------------------- MODULE BattleMenu -----------------------------
(***************************************************************************)
(* The command input of a battle turn: BattleMenuProc, the countdown and   *)
(* the AI (system/battleMenu.cpp, AI_Setting.cpp), as BattleProc runs them *)
(* once per frame while SubProcNo is BATTLE_SUBPROC_CMD_INPUT.             *)
(*                                                                         *)
(* One frame is one action.  BattleMenuProc is a sequence of blocks that   *)
(* all run in one call and test what the block before has left, so each    *)
(* block is an operator on the record of the menu's variables, and Frame   *)
(* composes them.  The drawing of the buttons is left out; their position  *)
(* buttonA is kept, because a menu is closed when they are out of sight.   *)
(***************************************************************************)
EXTENDS Naturals, Integers, BattleScreens

CONSTANTS ButtonSteps,  \* 25: frames the buttons take to come and to go
          MaxIdle,      \* bound: clicks that let a pet without skills idle, per turn
          Situations    \* the turns that occur, among Turns

ASSUME StepsAssumption == ButtonSteps \in Nat \ {0} /\ MaxIdle \in Nat

VARIABLES
    menu,       \* the variables of battleMenu.cpp, see Menu
    AI,
    turn,       \* what the server and the last movie say of this turn
    expired,    \* BattleCntDown is over
    sent,       \* history: commands sent in this turn
    mixed       \* history: AI was switched during an input of this battle

inputVars == <<menu, AI, turn, expired, sent, mixed>>

Menu == [SubProcNo : CMD_INPUT..OUT_PRODUCE_INIT,
         battleMenuFlag : SUBSET {"MENU", "PET"},
         battleMenuReturn : BOOLEAN,
         battleMenuFlag2 : BOOLEAN,         \* a turn begins
         battlePetMenuFlag : BOOLEAN,       \* the player's command is given
         BattleCntDownFlag : BOOLEAN,
         battlePlayerEscFlag : BOOLEAN,
         battlePetNoBak : {-2, -1, 0},
         battleTargetSelectFlag : BOOLEAN,
         BattleCmdNo : {"none", "player", "waza"},
         hitBox : BOOLEAN,                  \* ACT_ATR_HIT_BOX of the targets
         BattleBpFlag : SUBSET {"PLAYER_MENU_NON", "PET_MENU_NON"},
         buttonA : 0..ButtonSteps + 1]

\* watch: BattleMyNo >= 20.  skills: the pet has one that battles allow.
\* petNon: PET_MENU_NON has been set since the turn began.
Turn == [watch : BOOLEAN, alive : BOOLEAN, battlePetNo : {-1, 0},
         petAlive : BOOLEAN, skills : BOOLEAN, petNon : BOOLEAN]

\* A fighter that is not there has no attributes.
NoTurn == [watch |-> FALSE, alive |-> FALSE, battlePetNo |-> -1,
           petAlive |-> FALSE, skills |-> TRUE, petNon |-> FALSE]
Turns == {t \in Turn : /\ t.watch => t = [NoTurn EXCEPT !.watch = TRUE, !.petNon = t.petNon]
                       /\ t.battlePetNo = -1 => ~t.petAlive
                       /\ ~t.petAlive => t.skills}

ASSUME SituationsAssumption == Situations \subseteq Turns

\* player and pet count the commands, esc: the player's was "E",
\* idle: the pet's was "W|FF|FF", late: it was the countdown that sent it,
\* ai: the AI chose.
Sent == [player : Nat, pet : Nat, esc : BOOLEAN,
         idle : BOOLEAN, late : BOOLEAN, ai : BOOLEAN]

NothingSent == [player |-> 0, pet |-> 0, esc |-> FALSE,
                idle |-> FALSE, late |-> FALSE, ai |-> FALSE]

InputTypeOK ==
    /\ menu \in Menu /\ AI \in {"AI_NONE", "AI_SELECT"}
    /\ turn \in Turn /\ sent \in Sent
    /\ expired \in BOOLEAN /\ mixed \in BOOLEAN

PetCanAct == turn.battlePetNo = 0 /\ turn.petAlive

-----------------------------------------------------------------------------
(* The blocks work on [m |-> menu, s |-> sent].                            *)

Non(x, who) == who \in x.m.BattleBpFlag
Says(x, who) == [x EXCEPT !.s[who] = @ + 1]
PetIdles(x) == [Says(x, "pet") EXCEPT !.s.idle = TRUE]

\* ClearBoxFlag
ClearBox(x) == [x EXCEPT !.m.hitBox = FALSE]

\* BattleButtonOff
ButtonOff(x) == [ClearBox(x) EXCEPT !.m.battleTargetSelectFlag = FALSE,
                                    !.m.BattleCmdNo = "none"]

\* A button or a skill that asks for a target.
AskTarget(x, cmd) == [ButtonOff(x) EXCEPT !.m.battleTargetSelectFlag = TRUE,
                                          !.m.BattleCmdNo = cmd,
                                          !.m.hitBox = TRUE]

Advance(x) == [x EXCEPT !.m.SubProcNo = @ + 1]
Return(x) == [x EXCEPT !.m.battleMenuReturn = TRUE]

\* BattleTargetSelect, called while a target is asked for.
TargetSelect(x, click) ==
    IF /\ turn.alive /\ x.m.battleTargetSelectFlag
       /\ ~(Non(x, "PLAYER_MENU_NON") /\ Non(x, "PET_MENU_NON"))
       /\ click = "target" /\ x.m.hitBox
    THEN Return([(CASE x.m.BattleCmdNo = "player" -> Says(x, "player")
                    [] x.m.BattleCmdNo = "waza" -> Says(x, "pet")
                    [] OTHER -> x)
                 EXCEPT !.m.battleTargetSelectFlag = FALSE])
    ELSE x

\* (mutant: the turn begins again every frame)
TurnStartAlways(x) ==
    IF x.m.battleMenuFlag2
    THEN [x EXCEPT !.m.battleMenuFlag = @ \cup {"MENU"}, !.m.battleMenuReturn = FALSE,
                   !.m.battlePlayerEscFlag = FALSE, !.m.BattleCntDownFlag = TRUE,
                   !.m.battlePetNoBak = turn.battlePetNo,
                   !.m.hitBox = FALSE, !.m.buttonA = ButtonSteps]
    ELSE x

\* (mutant: the escape of an earlier turn is not forgotten)
TurnStartKeepsEsc(x) ==
    IF x.m.battleMenuFlag2
    THEN LET y == [x EXCEPT !.m.BattleCntDownFlag = TRUE, !.m.buttonA = ButtonSteps,
                            !.m.battlePetNoBak = turn.battlePetNo,
                            !.m.battleMenuFlag2 = FALSE,
                            !.m.BattleBpFlag = @ \ {"PLAYER_MENU_NON"}]
         IN  IF Non(x, "PLAYER_MENU_NON")
             THEN [Says(y, "player") EXCEPT !.m.battlePetMenuFlag = TRUE]
             ELSE IF ~turn.alive
             THEN [y EXCEPT !.m.battlePetMenuFlag = TRUE]
             ELSE [ClearBox(y) EXCEPT !.m.battleMenuFlag = @ \cup {"MENU"},
                                      !.m.battleMenuReturn = FALSE]
    ELSE x

\* The first frame of a turn: start the countdown and open the player's menu,
\* or go to the pet's at once when the player cannot choose.
TurnStart(x) ==
    IF x.m.battleMenuFlag2
    THEN LET y == [x EXCEPT !.m.battlePlayerEscFlag = FALSE,
                            !.m.BattleCntDownFlag = TRUE, !.m.buttonA = ButtonSteps,
                            !.m.battlePetNoBak = turn.battlePetNo,
                            !.m.battleMenuFlag2 = FALSE,
                            !.m.BattleBpFlag = @ \ {"PLAYER_MENU_NON"}]
         IN  IF Non(x, "PLAYER_MENU_NON")
             THEN [Says(y, "player") EXCEPT !.m.battlePetMenuFlag = TRUE]
             ELSE IF ~turn.alive
             THEN [y EXCEPT !.m.battlePetMenuFlag = TRUE]
             ELSE [ClearBox(y) EXCEPT !.m.battleMenuFlag = @ \cup {"MENU"},
                                      !.m.battleMenuReturn = FALSE]
    ELSE x

Opening(x) == [x EXCEPT !.m.buttonA = IF @ > 0 THEN @ - 1 ELSE @]
Closing(x) == [x EXCEPT !.m.buttonA = @ + 1]

\* The buttons of the player's menu.  "command" stands for all that ask for a
\* target, "now" for guard, pet, and the items that need none.
PlayerClick(x, click) ==
    CASE click = "command" -> AskTarget(x, "player")
      [] click = "off" -> ButtonOff(x)
      [] click = "now" -> Return(Says(ButtonOff(x), "player"))
      [] click = "escape" -> [Return(Says(ButtonOff(x), "player"))
                              EXCEPT !.m.battlePlayerEscFlag = TRUE, !.s.esc = TRUE]
      [] OTHER -> x

\* The player's menu: its buttons while it is open, then the way out.  When the
\* countdown has already answered for the pet, the pet's menu is skipped.
PlayerMenu(x, click) ==
    IF "MENU" \notin x.m.battleMenuFlag THEN x
    ELSE IF ~x.m.battleMenuReturn THEN PlayerClick(Opening(x), click)
    ELSE IF x.m.buttonA =< ButtonSteps THEN Closing(x)
    ELSE LET y == [ButtonOff(x) EXCEPT !.m.battleMenuFlag = {}]
         IN  IF y.m.BattleCntDownFlag
             THEN [y EXCEPT !.m.battlePetMenuFlag = TRUE]
             ELSE Advance(y)

\* The pet's menu opens, unless there is no pet to command or none that may be.
OpenPetMenu(x) ==
    IF ~x.m.battlePetMenuFlag THEN x
    ELSE [(CASE x.m.battlePetNoBak =< -1 \/ ~turn.petAlive ->
                  Advance([x EXCEPT !.m.BattleCntDownFlag = FALSE])
             [] /\ x.m.battlePetNoBak > -1 /\ turn.petAlive
                /\ Non(x, "PET_MENU_NON") \/ ~turn.alive \/ x.m.battlePlayerEscFlag ->
                  Advance([PetIdles(x) EXCEPT !.m.BattleCntDownFlag = FALSE])
             [] OTHER ->
                  [ClearBox(x) EXCEPT !.m.battleMenuFlag = @ \cup {"PET"},
                                      !.m.battleMenuReturn = FALSE])
          EXCEPT !.m.BattleBpFlag = @ \ {"PET_MENU_NON"},
                 !.m.battlePetMenuFlag = FALSE, !.m.buttonA = ButtonSteps]

\* The pet's skills: one that asks for a target, one that does not, and, for a
\* pet whose skills are all for the map, the click that lets it idle.  That
\* last one leaves the menu open.
PetClick(x, click) ==
    CASE click = "waza" /\ turn.skills -> AskTarget(x, "waza")
      [] click = "wazaNow" /\ turn.skills -> Return(Says(ButtonOff(x), "pet"))
      [] click = "wazaMap" /\ ~turn.skills /\ x.s.pet < MaxIdle -> PetIdles(ButtonOff(x))
      [] click = "off" -> ButtonOff(x)
      [] OTHER -> x

\* (mutant: a closed pet menu does not end the input)
PetMenuStays(x, click) ==
    IF "PET" \notin x.m.battleMenuFlag THEN x
    ELSE IF ~x.m.battleMenuReturn THEN PetClick(Opening(x), click)
    ELSE IF x.m.buttonA =< ButtonSteps THEN Closing(x)
    ELSE [ClearBox(x) EXCEPT !.m.battleMenuFlag = {},
                             !.m.battleTargetSelectFlag = FALSE]

PetMenu(x, click) ==
    IF "PET" \notin x.m.battleMenuFlag THEN x
    ELSE IF ~x.m.battleMenuReturn THEN PetClick(Opening(x), click)
    ELSE IF x.m.buttonA =< ButtonSteps THEN Closing(x)
    ELSE Advance([ClearBox(x) EXCEPT !.m.battleMenuFlag = {},
                                     !.m.battleTargetSelectFlag = FALSE])

\* (mutant: the countdown does not look whether the menu is closing)
CountDownAgain(x) ==
    IF ~x.m.BattleCntDownFlag \/ ~expired THEN x
    ELSE LET player == IF "MENU" \in x.m.battleMenuFlag THEN Says(x, "player") ELSE x
             all == IF x.m.battleMenuFlag # {} /\ x.m.battlePetNoBak # -1 /\ turn.petAlive
                    THEN [PetIdles(player) EXCEPT !.s.late = TRUE] ELSE player
         IN  Return([ClearBox(all) EXCEPT !.m.BattleCntDownFlag = FALSE,
                                          !.m.battleTargetSelectFlag = FALSE])

\* (mutant: the countdown forgets the pet)
CountDownPlayerOnly(x) ==
    IF ~x.m.BattleCntDownFlag \/ ~expired THEN x
    ELSE Return([ClearBox(IF "MENU" \in x.m.battleMenuFlag /\ ~x.m.battleMenuReturn
                          THEN Says(x, "player") ELSE x)
                 EXCEPT !.m.BattleCntDownFlag = FALSE,
                        !.m.battleTargetSelectFlag = FALSE])

\* BattleCntDownDisp: when the time is over, "N" for a player who has not
\* chosen and "W|FF|FF" for a pet that has not.
CountDown(x) ==
    IF ~x.m.BattleCntDownFlag \/ ~expired THEN x
    ELSE LET chosen == "MENU" \in x.m.battleMenuFlag /\ x.m.battleMenuReturn
             choosing == "MENU" \in x.m.battleMenuFlag /\ ~x.m.battleMenuReturn
             petChoosing == "PET" \in x.m.battleMenuFlag /\ ~x.m.battleMenuReturn
             player == IF choosing THEN Says(x, "player") ELSE x
             all == IF /\ choosing \/ chosen \/ petChoosing
                       /\ x.m.battlePetNoBak # -1 /\ turn.petAlive
                    THEN [PetIdles(player) EXCEPT !.s.late = TRUE] ELSE player
         IN  Return([ClearBox(all) EXCEPT !.m.BattleCntDownFlag = FALSE,
                                          !.m.battleTargetSelectFlag = FALSE])

\* BattleMenuProc.  Who only watches says "N" and goes on.
BattleMenuProc(x, click) ==
    IF turn.watch
    THEN Advance(Says(x, "player"))
    ELSE CountDown(PetMenu(OpenPetMenu(
            PlayerMenu(TurnStart(TargetSelect(x, click)), click)), click))

\* AI_ChooseAction: a command for the player and one for the pet at once,
\* whatever the menus have sent before.  battlePlayerEscFlag is never reset.
AI_ChooseAction(x, escape) ==
    IF turn.watch
    THEN Advance(Says(x, "player"))
    ELSE LET free == turn.alive /\ ~Non(x, "PLAYER_MENU_NON")
             player == CASE free /\ escape -> [Says(x, "player") EXCEPT
                                                 !.m.battlePlayerEscFlag = TRUE,
                                                 !.s.esc = TRUE]
                         [] (free /\ ~escape) \/ Non(x, "PLAYER_MENU_NON") -> Says(x, "player")
                         [] OTHER -> x
             fights == /\ PetCanAct /\ turn.skills /\ turn.alive
                       /\ ~Non(x, "PET_MENU_NON") /\ ~player.m.battlePlayerEscFlag
         IN  [Advance(IF fights THEN Says(player, "pet") ELSE PetIdles(player))
              EXCEPT !.s.ai = TRUE]

-----------------------------------------------------------------------------
Clicks == {"none", "target", "command", "now", "escape", "off",
           "waza", "wazaNow", "wazaMap"}

\* BATTLE_SUBPROC_CMD_INPUT of BattleProc, with one of some clicks.
FrameWith(clicks) ==
    /\ menu.SubProcNo = CMD_INPUT
    /\ \E y \in IF AI = "AI_SELECT"
                THEN {AI_ChooseAction([m |-> menu, s |-> sent], e) : e \in BOOLEAN}
                ELSE {BattleMenuProc([m |-> menu, s |-> sent], c) : c \in clicks} :
          menu' = y.m /\ sent' = y.s
    /\ UNCHANGED <<AI, turn, expired, mixed>>

Frame == FrameWith(Clicks)

\* Time passes; the 31 s of the countdown are over at some point.
CountDownOver ==
    /\ menu.BattleCntDownFlag /\ ~expired
    /\ expired' = TRUE
    /\ UNCHANGED <<menu, AI, turn, sent, mixed>>

\* The key that switches the AI works in every screen.
SwitchAI ==
    /\ AI' = IF AI = "AI_SELECT" THEN "AI_NONE" ELSE "AI_SELECT"
    /\ mixed' = (mixed \/ (menu.SubProcNo = CMD_INPUT /\ ~menu.battleMenuFlag2))
    /\ UNCHANGED <<menu, turn, expired, sent>>

\* A "BP" of B_recv: this turn's, late, or already the next turn's.
BPArrives ==
    /\ menu.SubProcNo = CMD_INPUT
    /\ \E bp \in SUBSET {"PLAYER_MENU_NON", "PET_MENU_NON"} :
          /\ menu' = [menu EXCEPT !.BattleBpFlag = bp]
          /\ turn' = [turn EXCEPT !.petNon = @ \/ "PET_MENU_NON" \in bp]
    /\ UNCHANGED <<AI, expired, sent, mixed>>

\* RECEIVE_MOVIE reads a movie; the turn's inputs are not looked at any more.
MovieBegins ==
    /\ menu.SubProcNo = RECEIVE_MOVIE
    /\ menu' = [menu EXCEPT !.SubProcNo = MOVIE]
    /\ turn' = NoTurn /\ sent' = NothingSent /\ expired' = FALSE
    /\ UNCHANGED <<AI, mixed>>

BeginTurn(m) ==
    \E t \in Situations, non \in BOOLEAN :
        /\ menu' = [m EXCEPT !.SubProcNo = CMD_INPUT, !.battleMenuFlag2 = TRUE,
                             !.BattleBpFlag = (IF non THEN {"PLAYER_MENU_NON"} ELSE {})
                                  \cup (IF t.petNon THEN {"PET_MENU_NON"} ELSE {})]
        /\ turn' = t
        /\ expired' = FALSE
        /\ UNCHANGED sent

\* The movie is over, the next state of the fighters has been shown and the
\* input begins again; battleMenuFlag2 is set on the way.
NextTurn ==
    /\ menu.SubProcNo = MOVIE
    /\ BeginTurn(menu)
    /\ UNCHANGED <<AI, mixed>>

\* The tail of BattleProc: a "BU" ends the battle in any screen.
BU_Escape ==
    /\ menu.SubProcNo # OUT_PRODUCE_INIT
    /\ menu' = [menu EXCEPT !.SubProcNo = OUT_PRODUCE_INIT]
    /\ turn' = NoTurn /\ sent' = NothingSent /\ expired' = FALSE
    /\ UNCHANGED <<AI, mixed>>

\* InitBattleMenu, with what BATTLE_SUBPROC_INIT does around it: the fighters
\* are made anew, so no target is marked.
InitBattleMenu ==
    [menu EXCEPT !.battleMenuFlag = {}, !.battleMenuReturn = TRUE, !.hitBox = FALSE]

NextBattle ==
    /\ menu.SubProcNo = OUT_PRODUCE_INIT
    /\ BeginTurn(InitBattleMenu)
    /\ mixed' = FALSE
    /\ UNCHANGED AI

InputInit ==
    /\ menu = [SubProcNo |-> OUT_PRODUCE_INIT, battleMenuFlag |-> {},
               battleMenuReturn |-> FALSE, battleMenuFlag2 |-> FALSE,
               battlePetMenuFlag |-> FALSE, BattleCntDownFlag |-> FALSE,
               battlePlayerEscFlag |-> FALSE, battlePetNoBak |-> -2,
               battleTargetSelectFlag |-> FALSE, BattleCmdNo |-> "none",
               hitBox |-> FALSE, BattleBpFlag |-> {}, buttonA |-> 0]
    /\ AI = "AI_NONE"
    /\ turn = NoTurn
    /\ expired = FALSE /\ sent = NothingSent /\ mixed = FALSE

InputNext == \/ Frame \/ CountDownOver \/ SwitchAI \/ BPArrives
             \/ MovieBegins \/ NextTurn \/ BU_Escape \/ NextBattle

InputSpec == InputInit /\ [][InputNext]_inputVars

\* The game loop runs frame after frame, and time passes; nobody has to click.
FairInput == InputSpec /\ WF_inputVars(FrameWith({"none"})) /\ WF_inputVars(CountDownOver)

-----------------------------------------------------------------------------
(* At most one command for the player and one for the pet in a turn, from  *)
(* whichever of click, countdown and turn start comes first, whatever an   *)
(* escape from the last battle has left in the flags.  Excepted are a pet  *)
(* without a skill for battles, whose menu stays open after "W|FF|FF", and *)
(* a battle in which the AI was switched in the middle of an input.        *)
OneCommand ==
    ~mixed => sent.player =< 1 /\ (turn.skills => sent.pet =< 1)

(* When the input is left for the movie, the player who could choose and   *)
(* the pet that can act have their command: the server is not kept waiting.*)
InputComplete ==
    menu.SubProcNo = RECEIVE_MOVIE /\ ~mixed =>
        /\ turn.watch \/ turn.alive => sent.player = 1
        /\ ~turn.watch /\ PetCanAct => sent.pet >= 1

(* A pet that could fight idles only because its master escapes in this    *)
(* very turn, or because the time was over.                                *)
IdleForAReason ==
    /\ sent.idle /\ turn.alive /\ turn.skills /\ ~turn.petNon
    /\ ~sent.late /\ ~sent.ai /\ ~mixed
    => sent.esc

(* The input of a turn always ends, also when the player does nothing and  *)
(* when the AI is switched in between.                                     *)
InputEnds == menu.SubProcNo = CMD_INPUT ~> menu.SubProcNo # CMD_INPUT

(* What battlemenu.h:97 and gamemain.cpp:540 say of switching from the AI  *)
(* to the player: the battle is repaired.  Then switching cannot make a    *)
(* second command.                                                         *)
SwitchingRepaired == sent.player =< 1
=============================================================================
