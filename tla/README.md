# Verification of the StoneAge client

This directory holds TLA+ models of the game client in `src/`, the TLC
configurations that check them on small instances, and the theorems TLAPS proves
about them for every instance.  `PROJECT.json` is the index: components, runs,
mutants, the source lines each definition stands for, hazards and theorems.

## 1. The system

The program is a Win32 client.  One thread runs the game loop of
`system/gamemain.cpp`: every frame it handles the Windows messages, then calls
`networkLoop()` (`system/netmain.cpp`), which dispatches every complete line the
server has sent to its handler, then `Process()` (`system/process.cpp`), which
runs one step of the state machine of the current screen, then draws.  The only
other threads are the ping thread of the relogin (`PingFunc`) and the sound.
There is no locking: what makes the code hard is the *order* in which a frame's
handlers, screen steps and key strokes meet, not preemption.

### Inventory

| component | source | state | operations |
|---|---|---|---|
| network link | `system/netmain.cpp` | connection flags, read/write buffer | `initNet`, `cleanupNetwork`, `networkLoop`, buffer append/shift/getLine |
| server handshakes | `system/netproc.cpp` 1-860, 3072-3190 | `netproc_sending`, `connectServerCounter`, `charListStatus`, `charDelStatus`... | connect, ClientLogin, CharList, CharLogin, CharLogout, CreateNewChar, CharDelete and their `_recv` |
| process machine | `system/process.cpp` | `ProcNo`, `ProcNo2`, `SubProcNo`, `palNo` | `Process`, `ChangeProc`, `ChangeProc2`, `GameProc`, disconnect box |
| login screens | `system/login.cpp` 200-4262 | `SubProcNo`, per-screen counters | id/password, title, server choice, character choice/creation/deletion, login, logout |
| battle screens | `system/battleProc.cpp`, `battleMenu.cpp` | `SubProcNo`, `BattleCliTurnNo`, menu flags, countdown | `BattleProc`, `BattleMenuProc`, `BattleCntDownDisp` |
| battle messages | `netproc.cpp` 3796-3913 | `BattleStatus`/`BattleCmd` rings, `BattleSvTurnNo`, flags | `EN`, `B`, `EO`, `XYD`... |
| battle AI | `system/AI_Setting.cpp`, `other/JL_func.cpp` | `AI`, the AI tables | `AI_ChooseAction`, auto battle |
| action list | `system/action.cpp` | priority-sorted doubly linked list | `GetAction`, `RunAction`, `DeathAction`, `DeathAllAction` |
| sprite surfaces | `system/sprmgr.cpp` | `SurfaceInfo`, `SpriteInfo`, `SurfaceSearchPoint` | `AllocateBmpToSurface`, `LoadBmp`, `InitSurfaceInfo` |
| login message parser | `wgs/message.cpp`, `wgs/Common.cpp` | parser state, message list | `AnalyzeMessage`, `ReadWGSMessage` |
| packet codec | `newproto/autil.cpp`, `protocol.cpp` | `MesgSlice`, `SliceCount` | split, encode, decode, checksum, dispatch |
| map and walking | `system/map.cpp`, `process.cpp`, `netproc.cpp` | position, move route, event and warp flags | `moveProc`, the warp screens of `GameProc`, `S C`, `M`, `MC`, `EV`, `EN`, `XYD` |
| characters, pc, pets | `system/character.cpp`, `pc.cpp` | object table, party, pointers to actions | `setNpcCharObj`, `delCharObj`, `createPc`, `C`, `CD`, `S N`, `PR`, `PME` |
| trade | `system/menu.cpp` 17493-18867, 19110-19452 | `tradeStatus`, `pc.trade_confirm`, the lists of both offers | the window, its keys, `lssproto_TD_recv` |
| chat | `system/chat.cpp`, `talkwindow.cpp` | chat ring, history | input, scroll, send |
| menus, party, vendor | `system/menu.cpp`, `login.cpp` 4262- | window state | one routine per window |
| keyboard and mouse | `system/key.cpp`, `mouse.cpp` | input state | |
| drawing, sound, files | `Sprdisp`, `directDraw`, `t_music`, `loadrealbin`, `unpack`, ... | surfaces, palettes | |
| script engine | `mylua/` | Lua state | bindings; LuaJIT itself is vendored |

### What is hard here, and what correctness means

* **network link** - partial receives and sends, resets, reconnects over buffers
  that are never cleared, handlers that close the link while it is drained.  Correct:
  no byte lost or attributed to the wrong line, whole packets for every server
  but for the rest of one that a lost connection tore; a dead connection is noticed
  and reported exactly once.
* **handshakes and process machine** - all requests share one flag, answers may come
  late or never, a timeout starts the next request; `networkLoop` and `Process` both
  assign the next screen.  Correct: an answer is credited to the request it belongs
  to; a screen that needs the server has one; a lost connection always ends in the
  login screen.
* **battle** - messages of a battle arrive in bursts, while the client still shows the
  last turn; the rings have four places and no full check; commands may come from the
  player, the countdown or the AI.  Correct: movies are shown in the order sent, one
  command per turn and fighter, every battle ends with `EO`.
* **walking** - a step onto a warp, a warp of the server's and an encounter may meet in
  one frame, and the position is assigned by both sides.  Correct: client and server
  agree where the player stands once all is quiet; a map is shown when it is there; a
  warp and an encounter come to their end.
* **sprite surfaces**, **action list** and **characters** - objects are reclaimed while
  others still refer to them.  Correct: a sprite drawn this frame keeps its surfaces and
  shows its own pixels; every action runs at most once per frame, none after it was
  freed; an object on the map has one slot and one action, which lives as long as it.
* **trade** - two clients and no number of the trade in any message.  Correct: what a
  player is asked to confirm is what the other offers and cannot change any more; a
  cancel ends both sides.
* **parser and codec** - input arrives in arbitrary chunks; encoding must round-trip.

## 2. Plan

Most important behaviour first: the link everything depends on, then the battle
(the longest and most asynchronous protocol of the game), then the session around
them, then the helpers.

| | module | composes | abstract specification | state |
|---|---|---|---|---|
| 1 | `NetLink` | | the stream invariant | done, safety proved |
| 2 | `BattleRing` | | `BattleQueue` (refinement) | done, proved |
| 3 | `Battle` | two instances of `BattleRing` | `BattleRing` (`RingsUsedAsAssumed`) | done, safety proved |
| 4 | `BattleMenu` | | | done, safety proved |
| 5 | `Session` | | | done, safety proved |
| 6 | `ActionList`, `Characters` | `Characters` extends `ActionList` | | done, safety proved |
| 7 | `SpriteCache` | | | done, safety proved |
| 8 | `Walk` | | | done, safety proved |
| 9 | `Trade` | two clients and a server | | done, safety proved |
| 10 | `Codec` | | reference definitions on bounded input | planned, low priority |
| 11 | `Chat`, `WgsParser` | | a bounded history; any split of the input | planned, low priority |

Runs: one per module, safety and liveness together, with the smallest bounds in which
buffers wrap, connections follow each other, the server runs ahead and messages cross;
and a run that ends in a counterexample for each place where code and documentation
disagree.

Theorems: the invariants of `NetLink`, `Battle`, `BattleMenu`, `Session`, `SpriteCache` and
`Characters`, the safety of `Trade` and of `Walk` and the refinement of `BattleRing` are
proved (section 4): every safety property a passing run checks is a theorem.  No module
declares a `RECURSIVE` operator, so what is added can be proved about as well.

## 3. The modules

A definition has the name of the function or variable it stands for wherever
there is one; `PROJECT.json` gives the lines.  Operators marked `(mutant: ...)` are
plausible bugs; each property is shown to fail when one of them takes the place of
the definition that follows it.  Each module has a type invariant, and each is proved.

### NetLink

`NetLink` models `netmain.cpp`.  `pc` is the place of the main thread inside
`networkLoop()`; the socket and the server are a second actor that may send, close
or reset between any two of its steps.  A byte is `[from, pos, left]`: the
connection it was sent on, its place in its line and the number of bytes after it;
`left = 0` is the newline.  With that, "the stream is unbroken" is a condition on
neighbouring bytes and needs no history.

`cleanupNetwork` keeps `net_readbuf` and `net_writebuf`, and so does the model.  What
follows is not that reconnecting is harmless, but exactly how far the damage goes:
`StaleOnlyFirst` says that the first line of a connection may be preceded by the
unfinished lines of earlier ones (and is then unreadable), and no other line.
`RoomForResidue` is the assumption under which the buffers cannot overflow or wedge:
one unfinished line per connection and one `recv` fit into `NETBUFSIZ`.

The other direction is not harmless either: a packet half sent when the connection is
lost is torn, and its rest, which `net_writebuf` still holds, is the first thing the
next server is sent; after it come the whole packets of the session that ended.
`WriteFraming` is about each connection by itself: `sending` is the line this socket is
being sent, and with what waits in the buffer it must make whole packets; only the first
line of a connection may lack its beginning, and then it is of an earlier connection.
Nothing in the repository says that a reconnect tears no packet, so this is recorded as
what the code does and not as a finding.

Fairness: the game loop calls `networkLoop()` each frame (`WF(Loop)`) and time passes
(`WF(Tick)`).  Nothing is assumed of the server or of the user.

`MCNetLink` has lines of one to three bytes, two connections, a `recv` of up to two
bytes and packets of up to two bytes against a write buffer of two: lines are split,
joined and left unfinished by a lost connection, sends are partial, packets refused, and
the rest of a packet that a reconnect tore is the second server's first line.  Two
connections are enough for everything that looks back: the properties relate a byte to
the connection before it.  A rest that is itself sent in parts, or torn again by the next
reconnect, needs packets of three bytes and a third connection; `WriteFraming` passed
there too, with a buffer of four and less to receive, and is proved for all sizes.
`NoOverrun` and `Drained` are proved for all sizes and not run.

### BattleQueue, BattleRing

`BattleRing` is `BattleStatusBak` or `BattleCmdBak` with its pointers: `Write` is the
tail of `lssproto_B_recv`, `Take` the copy in `BattleProc`, `Reset` what
`lssproto_EN_recv` does, `Clear` the `BattleCmd[0] = NULL` of the screens.  Nobody
looks whether the ring is full, so `Ahead`, how many messages the server may be in
front of the screen, is an assumption about the server; `Ahead < BATTLE_BUF_SIZE` is
what the ring needs, and then it is a queue (`IsQueue`, a refinement).  With `Ahead`
equal to the size, four unread messages look like none.

### Battle

A player's battles: `lssproto_EN_recv`, `lssproto_B_recv` (`BC`, `BA`, the movie, `BU`), the
encounter of `GameProc` and the sub-screens of `BattleProc`, over two instances of
`BattleRing`.  Receiving a line is an action (`Recv`), and so is a frame that changes
something; lines come in any number between two frames.  A screen that shows an
animation is one step.  The fighters (`oft.cpp`) and the input of the turn
(`BattleMenu`) are abstracted to the fact that they end.  The names of the sub-screens,
which `BattleMenu` uses as well, are in `BattleScreens`.

The server is external: it announces a battle only after it has heard the `EO` of the
last one, then sends a state, any number of progress messages and a movie for each
turn, does not wait for the client, is at most `Ahead` states and movies in front, and
may dismiss the player (`BU`) at any time.  `MCBattle` plays two battles of up to three
turns with the server three ahead: the rings wrap, and a battle is left with messages
unread; it also checks that battles end.  Two battles are enough for what one leaves
behind for the next.

`RingsUsedAsAssumed` closes the gap to `BattleRing`: every step of `Battle` is a step of
both rings, so what is proved of the ring holds in the battle.

Three ways in which the code falls short are visible in the model and stated as
exceptions of the properties rather than hidden:

* `BU` before the first state was read leaves `EncountFlag` set; the map then enters a
  battle that does not exist (`PhantomOnlyByEarlyEscape`: only then).
* `InitBattleMenu` forgets a `BU` that came between `EN` and the first frame of the
  battle screen; the client waits for a movie that never comes (`BattleEnds` excepts
  exactly this battle).
* `BattleCliTurnNo` counts only once a `BA` has set it (`TurnAgrees`).

Fairness (`FairSpec`): lines arrive, the game loop runs, the server hears the `EO`.
The server need not go on with a battle.

### BattleMenu

One turn's input: `BattleMenuProc`, the buttons, the targets, the countdown and
`AI_ChooseAction`.  `BattleMenuProc` is one long sequence of blocks that test what the
block before has left, so a frame is one action and each block an operator on the
record of the menu's variables.  `BPArrives`, `CountDownOver`, `SwitchAI` and `BU_Escape`
happen between any two frames.  `ButtonSteps` stands for the 25 frames a button needs
to slide out of sight: 2 is enough to be in the middle of it.  `MaxIdle` bounds the
clicks on a pet without skills, each of which sends a command.

`MCBattleMenu` meets every combination of player, pet, skills and forbidden menus, and
checks that an input ends (`InputEnds`): fairness (`FairInput`) is that frames go on and the
countdown runs out (`WF` of a frame without a click, and of `CountDownOver`), so the
player need not do anything.  `MCBattleMenuSwitch` ends in a counterexample (below).

### Session

The screens from the id/password screen into the game and back: `Process` and its
pending screen, all of `login.cpp` up to the logout, and the six requests.  A frame is
`NetStart` (the head of `networkLoop`, where the disconnect screen is asked for), any
number of `Receive` and `BattleLine`, `NetEnd` or `Notice` (the socket reports an
error), and one `Process`.  `Now` is the screen that runs: the one `ChangeProc2` has
asked for, if any.  A screen's sub numbers are those of the code, without those that
are passed within a frame.

A request is in `outbuf` (`net_writebuf`) until it is sent and on `wire` until it is
answered.  The code does not remember which request it made: there is one
`netproc_sending` for all of them.  Only the model knows, by `of`, whether the screen
still waits, has given up, or made the request on an earlier connection whose write
buffer was never cleared.  `status` stands for `charListStatus` and its like: each is
reset by the `Start` function of its request before it is looked at, so only the
latest is kept.

The server is external: it answers in any order, late or never, grants what its state
allows, and the connection may be lost at any time.  The state space is finite
without a bound; `Late` limits the kinds of requests that are answered after the
client has turned away (a server may always stay silent).  `MCSession` has all of them
but the creation of a character, which is answered in the way of the deletion.

Fairness: the game loop runs (`NetStart`, `NetEnd \/ Notice`, `Process`), time passes
(`Expire`), and a dead connection is noticed: `SF(Notice)` is what `DeadPeerNoticed` of
`NetLink` gives.  Neither clicks nor answers are assumed, so a screen that waits for a
click may stay for good.

What `Session` leaves out: the warp screens of `GameProc` (they are in `Walk`), the
opening and ending, the checking of names, the saved settings.  `BattleProc` is a
summary of `Battle`.

### ActionList, Characters

`ActionList` is `action.cpp`: the list of actions sorted by priority, `RunAction` with
its cursor, and the deferred freeing of dead actions.  One call of an action's function
is one step, and the functions create and delete other actions meanwhile.
`Characters` extends it by what the actions belong to: `charObj` with its counters,
`pc.ptAct` and the party, the handlers of `C`, `CD`, `S C`, `S N`, `PR` and `PME`,
`charProc` and `petProc`, and the changes of the screen that call `DeathAllAction`.
An action's address may be used again as soon as it was freed, so a pointer that is
left behind is a pointer to a stranger.  `OwnersAlive` does not speak of the party once
the player is logged out: `characterLogoutProc` leaves its pointers, and the next login
sets them before anything follows them.

`MCCharacters` has one other player, one pet, one item, three slots, a party of two
and four addresses: the table gets full, slots are reused, and an object that is
deleted by one message is made anew by the next.  Its `VIEW` renames the addresses in the
order of the list and the owners; no guard, no value and no property depends on which
address an action has, so the view is an exact quotient.  When the table is full the
code gives a slot in use away (`getCharObjBuf` does not look); `UntilTaken` stops there,
and the properties speak of what comes before.  Fairness: the game loop runs the actions
(`WF(RunAction)`).

`WalksWithParty` is violated by the code as it was before the source's fix of
2017.9.22, which is the mutant `MapC_recvKeeps`.

### SpriteCache

`SpriteCache` is `sprmgr.cpp`.  A bitmap is cut into pieces of the size of a surface,
chained through `pNext`; a surface nobody dated for two frames may be taken, and the
whole chain it belongs to is given up.  One pass of a loop is one action, because the
loops are where the pointers are followed; the loops exclude each other (`doing`).
`part` is the piece a surface holds, `age` what `SurfaceDate - date` is, up to "old".

`MCSpriteCache` has bitmaps of two and of three pieces over four surfaces: both never fit,
so each is loaded over pieces of the other or comes out short.  A pool that cannot hold all the
pieces leaves an old `pNext` in the last piece, which may lead back into the chain:
`short` records it, the properties except it, and `ResetWhenShort` lets only a change of
the palette follow.  That this cannot happen is not claimed: the code does not look.
Fairness: a loop runs until its condition ends it (`WF(Loop)`).

### Walk

`Walk` is the player on the map: `moveProc` with the route and the event of the next
square, the screens 200 to 204 of a warp, the encounter at the end of `GameProc` 3 with
the pending screen of `ChangeProc2`, and the handlers of `S C`, `MC`, `M`, `EV`, `EN` and
`XYD`.  A floor is a line of squares, which is enough to have a route, its end, a
warp and an enemy on it; the data of the map, the others and walking behind a party's
leader are left out, and `bNewServer` is true.

The server is external: it takes a step from where it has the player, grants or
refuses warps, decides warps by itself, and ends a battle only when the client is in its
screen.  `MCWalk` has two floors of three squares, one warp of the server's own (those of
the player are not bounded), one encounter and two unread messages; with two warps and
three messages it passed as well and takes too long to be kept.

Four ways in which the code falls short are stated as exceptions, each of them
reachable: `_etcEventFlag` is not taken back when the player is moved (`cut`); flags of
a warp before are left over when the next begins (`stale`); a refused `EV` lets screen
202 wait for a map for good (`refused`); a step without a pc's action is made and not
sent, or crosses a new position (`astray`).

Fairness: frames go on, a step comes to its end, messages arrive and are answered.  No
click is assumed.

### Trade

`Trade` has two clients, each with the trade window (`WindowDisp`), its keys
(`MenuProc`), what shuts windows (`InitMenu`) and `lssproto_TD_recv`, and a server that
relays.  A frame handles messages first and draws the menu afterwards; the model keeps
the two apart, so that any number of messages comes between two frames.  Goods are gold,
which may be offered once (a second time is taken for a fraud and cancels), and a pile of
items, of which more may be offered; pets go as gold does.  The second window, the talk
box and the kind `S` of `TD`, which nothing in the client asks for, are left out.

The server is external.  That an agreed trade ends with `W` to both is inferred:
nothing else ends it on the client.

`MCTrade` has one player with two items and one with gold, two trades, and two messages on
the way each way; `MaxMoves` bounds what a player can do again and again (requests,
cancels, keys, other windows).  A player may do nothing, so the run may stop
(`CHECK_DEADLOCK FALSE`).  With four moves and one item it passed as well.  Two trades
are enough for what one leaves behind for the next.

Three lapses are recorded and excepted, each of them reachable and needed: an offer that
is handled before the first frame of the window is wiped by its set-up (`early`); a
message of an earlier trade with the same partner counts for the next, for a trade has
no number (`crossed`); Ctrl+T calls `tradeInit` before the cancel is sent, which then names
the partner -1, and after an interruption it opens the window of a trade that no longer
knows its partner (`forgotten`).  `W` switches the window instead of shutting it, so a window
that an interruption has shut already comes up again without a trade; the model keeps
this, and no property is about it.

Fairness: frames, messages arrive and are answered.  No click is assumed.

### Runs that end in a counterexample

| run | property | what it shows |
|---|---|---|
| `MCBattleMenuSwitch` | `SwitchingRepaired` | switching the AI on while the player's menu closes makes a second command in the turn; the repair the comments speak of is compiled out and empty |
| `MCSessionLoss` | `LossReported` | an encounter asked for with `ChangeProc2` in the frame in which the connection is lost replaces the disconnect screen for good |
| `MCSessionDelete` | `DeletionTimesOut` | the timeout of a deletion is returned and not looked at |

## 4. What is proved

Every theorem holds for all values of the constants that satisfy the named assumptions
of its module, none of which says more than the code does.  Hardly any property is
inductive alone; each proof module defines an `IInv` that is, which TLC has checked on
the instances of section 3 as well, and proves that every action keeps it, one lemma
for each action.

`NetLink_proof` proves `TypeOK` and every invariant of `NetLink`.  For what is received,
`IInv == TypeOK /\ StreamInv` looks at the read buffer and the wire as one stream: it is
framed, its connections are in order, and every stretch without a newline fits the
budget of the connections before it.  A `recv` moves a prefix of the wire to the end of
the buffer and leaves the stream as it is; taking a line drops a prefix; only a
reconnect changes it, and the budget grows by one unfinished line (`GoodReopen`).
For what is sent, `WriteInv` looks at `Unsent`, the line this socket is in followed by
`net_writebuf`: it is whole packets of no later connection (`Whole`), and where it begins
inside a packet, that packet is of an earlier connection and no line has ended here yet
(`RestFirst`).  A refused packet is refused whole (`WholeAppend`), a partial send moves
the boundary and drops the lines that are complete (`HandOverDrops`, `WholeSuffix`), and
a new socket loses sight of what the old one got (`OpenKeepsWhole`).  `ReportedOnce` needs that a report leaves both flags up
until the next `initNet` (`ReportInv`).

`BattleRing_proof` proves, for every size and every `Ahead` below it, `TypeOK`,
`UnreadReceived`, and that the ring implements `BattleQueue`.  The invariant is
`Backlog =< Ahead`; from it, a write goes to a slot outside of the unread ones and
appends to the queue (`WriteAppends`), and a take removes its head (`TakeShows`).

`Battle_proof` proves the five safety properties of `Battle` for every `BATTLE_BUF_SIZE`,
every `Ahead` below it and any number of turns and battles.  The client looks at no
number of a battle and counts no turns it can trust, so that what it shows fits together
follows only from what the wire can hold: an `EN` begins the next battle and no line of
an earlier one comes after it (`Ordered`), of each battle there are never more states or
movies under way and in the buffers than `Ahead` (`Room`), and over the screen, the
buffer and the wire the turns of a battle follow each other without a gap (`TurnByTurn`).
`Abreast` is the handshake: unless a phantom battle was entered, the server is in the
battle the client was in last, or has announced the next because it has heard the `EO`.
From `Room` follows what `BattleRing` only assumes, that a buffer is not full when
`lssproto_B_recv` writes (`RingsUsedAsAssumed`); from it and `Abreast` that the `EO` is
not sent too early (`LeavesOnlyEnded`).  `Answered` says for which `EN` the `EncountFlag`
may still be up, and with it `PhantomOnlyByEarlyEscape`.

Its second part proves `OneCommand`, `InputComplete` and `IdleForAReason` of `BattleMenu` for
every `ButtonSteps` and every set of situations.  The invariant says in which stage an
input is: it begins (`Begins`), the player's or the pet's menu is open (`PlayerChooses`,
`PetChooses`) or closing (`PlayerChose`, `PetChose`), or all is given (`Given`); each stage
says which menu flags are up and which commands have gone out.  `BattleMenuProc` may pass
through several stages in one frame, so each of its blocks has a lemma of its own that
says from which stage to which it leads, with one more stage, the pet's menu being due
(`PetIsNext`), that is seen between two blocks only; `MenuProcKeeps` puts them together.
What makes the countdown safe is that `PlayerChose` knows whether it has already answered for
the pet.  `IdleExcused` ties an idle pet to its reason: at the end of a stage
`battlePlayerEscFlag` can only stem from this turn, because `TurnStart` takes it back, and
`BattleBpFlag` only says what has been noted since the turn began (`Noted`).  Battles in
which the AI was switched in the middle of an input (`mixed`) are excepted: there
`SwitchingRepaired` shows a second command; but they too leave the pet's menu not due and
nothing sent, so that the next battle starts from `Begins`.

`Session_proof` proves the four safety properties of `Session`.  They hold together or
not at all.  A screen is pending only in the game or where the loss has just replaced
it (`Pending`), and a closed connection leaves nothing behind that a later screen could
take for its own (`Closed`); so the screens that need the server have one (`Connected`).
A request of the screen's own is under way only while the screen waits for it with
`SENDING`, or under the message box of the loss, and never twice (`OneOwn`): without that
the shared `netproc_sending` could credit an answer to the wrong screen.  An answered
login was granted on this connection (`Granted`).  In the game `netproc_sending` is
`NOTSEND`, so that no late cancel can close the link there; and the ping thread of a login
in time ends before the id and password are asked for again (`PingInTime`).

`SpriteCache_proof` proves the three properties of the cache for any number of surfaces
and any cutting of the bitmaps into pieces.  They are stated between two calls, the
invariant speaks of the middle of a call: the pieces `LoadBmp` has placed lie on surfaces
its search has passed, and `SurfaceSearchPoint` is not one of them, so that it never takes
back its own (`Placing`); a chain is given up from its head, until the surface that is
wanted is free (`Freeing`); the drawing loop has dated the pieces before the one it is
at (`Drawing`); and no surface of a bitmap is older than the bitmap's last drawing in
full, which is why `AllocateBmpToSurface` finds none of them old enough (`Dated`).
After a load that ran out of surfaces (`short`) only the types are promised.

`Walk_proof` proves, for every map, number of floors and squares and every bound,
`TypeOK`, `WarpAskedWhereDue`, `ShownWithMap`, `SamePlace`, and that the end of a battle
reaches the player in its screen (`ToldInBattle`).  The first two need more than they say.
The position a message brings while a route is left could lead the route off the floor,
so `IInv` says which messages are on the way (`Messages`), that the route lies on the
floor (`Way`), that `XYD` arrives in the battle screen only (`EndsInBattle`) and that no
route is left there (`StopsForBattle`).  The event of a warp belongs to the square of
the step under way, and is dealt with in the frame after the arrival (`Pending`): without
that, `_etcEventFlag` could name a square the player has left.  `Awaited` is that
`warpEffectOk` implies `warpEffectStart`, and implies while the map changes that both
were left over.
`SamePlace` speaks of a moment without messages only; `PlaceInv` says what holds at every
other.  The last floor on the way is the server's, or there is none and the client shows it
(`FloorKnown`); the last position on the way is the server's (`PlaceKnown`); and with none on
the way the steps the client has sent lead, one after the other, from where the server has
the player to where his step under way ends (`InTouch`, `Leads`).  A position or a battle that
meets steps in between is what breaks this: the first is `astray`; for the second,
`OneEncounter` says that an encounter is told once and only its end takes it back, so that the
`resetMap` in mid-step that begins it is made good by the `XYD` the battle ends with.
Before an enemy the player stands (`StandsBefore`), or the `resetMap` of the question
would lose a step that was sent.

`Trade_proof` proves `SameGoods` and `Sealed` for any goods, any number of trades and any
number of messages on the way.  `IInv` is `Sound` as long as no message of an earlier trade
has been taken for one of the trade under way, which is the exception both properties make.
The messages carry no number in the code; the number in the model is a history that shows
what the order of the lines alone gives: no message belongs to a trade its sender has not
entered (`Numbers`), and behind the begin of a trade come its offers and its end before
the begin of the next (`InOrder`), so that what a player hears in a trade belongs to it
(`OwnTrade`).  A player in a trade has said nothing that ends it (`Engaged`).  Behind his
`Confirm` no offer of his is on the way, on either half of it, and whoever has heard it
will hear no more (`LockLast`: this is `Sealed`); gold is in one place only (`GoldOnce`), or a
second one would be taken for a fraud.  `Matched` is the heart of it: what the other has
seen and what is still on the way, in the order it was offered, make up what a player
has offered, from the frame his window is set up.  With a lock on both sides nothing is on
the way, and what is seen is what was offered (`Agreed`).  Each action is shown to be one
of seven kinds of step (`Quiet`, `Opens`, `Offers`, `Hears`; `Starts`, `Passes` and an answer of
the server), and each kind keeps `Sound`.

`Characters_proof` proves the five safety properties of `ActionList` and `Characters` for
any finite set of addresses and any number of characters, slots and places in the party.
`Linked` is the pass: `PassSound`, with an injective list and no memory of a pass that is
over.  An insertion at the end and the freeing of the action the cursor stands on keep it
(`Stands`); what the functions do in between marks actions and appends them, no more.
Who owns what is said of the actions that are not those of walking pets (`Bodies`): the
slots and the pc own living ones, each its own (`Owned`), the functions name their owners
(`Named`), and the status of a member and the place in the party go together
(`Together`).  The last two, and that the table holds an id once (`Single`), are promised as
long as no slot in use was given away; `Owned` holds also after that, for the table and the
pc.  Most handlers first remove an object and then make one, of the same id or
another; `Halfway` is what holds between the two, and the lemmas of the table and of the
party are about each half.  From an encounter to the end of a battle nothing is on the
map (`Hidden`), so that the `DeathAllAction` of `BattleProc` leaves no pointer behind.  `Reserve`
says that there is always a free address for each pet that may still turn up; it is what
the guards of the model keep to stand for an allocation that succeeds.  The assumptions
are that the addresses are finite in number, and that an id is not both a player's
and an item's: the server numbers its objects once.

Only model-checked: all liveness (`DeadPeerNoticed`, `BattleEnds`, `InputEnds`, `WaitsEnd`,
`LossReportedOrSwallowed`, `LoopsEnd`, `PetShown`, `WarpEnds`, `BattleShown`,
`CancelEndsBoth`) and the three counterexamples.
Liveness under fairness and `ENABLED` are outside of what the provers handle, and stay
so; so does induction over data, which no theorem here needs.

## 5. What is not modelled

See the components with status `not_modelled` in `PROJECT.json`.  Drawing, sound, file
formats and the vendored script engine are output or data without a state that
outlives a frame; the fighters' animation enters `Battle` as the end of a movie; the
windows other than the trade window are independent of each other, one routine per
button; the parser of the old login server is compiled but no longer reached.  Chat
and the codec are in the plan, at low priority: the one keeps a ring of lines nobody else
reads, the other is a fixed transformation whose framing is in `NetLink`.

A few things that could go wrong are in none of the models, because what they need is
not modelled: a movie with an unknown command, which no screen handles
(`oft.cpp:6143`); the turn of a pet without skills for battles, which sends a command for
every click (`battleMenu.cpp:2653`, bounded by `MaxIdle`, no property); the pointer to an
effect that outlives its character (`character.cpp:3056`); and a change of the fighting
pet in the middle of the input (`netproc.cpp:3937`), which the countdown and the pet's
menu read differently.  In an AI turn the pet's command reads
`battlePlayerEscFlag` (`AI_Setting.cpp:1957`), which only the player's input resets
(`battleMenu.cpp:3491`; the reset at the head of `AI_ChooseAction` is commented out): once
the AI has escaped, its pet idles in all later AI turns.  The choice of the AI's
actions is not modelled, and `IdleForAReason` is stated for turns the player commands.
