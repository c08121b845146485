---------------------------- MODULE SpriteCache ----------------------------
(* The cache of decoded bitmaps (system/sprmgr.cpp), filled by LoadBmp and  *)
(* read by the drawing loops (system/Sprdisp.cpp).                          *)
(*                                                                          *)
(* A bitmap is cut into pieces of the size of one surface; the pieces hang  *)
(* on SpriteInfo[bmpNo].lpSurfaceInfo as a chain through pNext.  A surface  *)
(* nobody dated for two frames may be taken for another bitmap, and with it *)
(* the whole chain it belongs to is given up.  One pass of a loop of the    *)
(* code is one action: LoadBmp and the drawing that may follow it are jobs  *)
(* (doing), and nothing else happens until the job is done.                 *)
EXTENDS Naturals

CONSTANTS Sprite,      \* the numbers of bitmaps
          NoSprite,    \* bmpNo = -1
          Pieces,      \* [Sprite -> Nat]: surfaces a bitmap needs (totalSurface)
          SurfaceCnt   \* surfaces there are

ASSUME CacheAssumption == /\ NoSprite \notin Sprite
                          /\ SurfaceCnt \in Nat \ {0}
                          /\ Pieces \in [Sprite -> Nat \ {0}]

SURACE_BMP_DEATH_DATE == 2

Surface == 0 .. SurfaceCnt - 1
NULL == SurfaceCnt                         \* the pointer to no surface
Age == 0 .. SURACE_BMP_DEATH_DATE + 1      \* SurfaceDate - date, the last for "or more"

VARIABLES bmpNo,    \* SurfaceInfo[].bmpNo
          part,     \* which piece of it: SurfaceInfo[].offsetX, offsetY
          pNext,    \* SurfaceInfo[].pNext
          age,      \* SurfaceDate - SurfaceInfo[].date
          head,     \* SpriteInfo[].lpSurfaceInfo
          point,    \* SurfaceSearchPoint
          doing,    \* "idle", or the loop that runs: "search", "free", "draw"
          job,      \* the locals of that loop
          drawn,    \* history: frames since every piece of the sprite was dated
          short     \* history: a bitmap got some of its surfaces and not all

vars == <<bmpNo, part, pNext, age, head, point, doing, job, drawn, short>>
surfaces == <<bmpNo, part, pNext, age>>

(* want: the bitmap to load or draw; got: totalSurfaceCnt; prev: prevSurfaceInfo; *)
(* bak: SurfaceSearchPointBak; walk: lpSurfaceInfo; draws: a drawing loop called  *)
(* LoadBmp; whole: every piece so far was dated.                                  *)
NoJob == [want |-> NoSprite, got |-> 0, prev |-> NULL, bak |-> 0,
          walk |-> NULL, draws |-> FALSE, whole |-> TRUE]

Jobs == [want : Sprite \cup {NoSprite}, got : Nat, prev : Surface \cup {NULL},
         bak : Surface, walk : Surface \cup {NULL}, draws : BOOLEAN, whole : BOOLEAN]

(* InitSurfaceInfo and InitSpriteInfo: what is in the tables after them. *)
NoBitmaps == [s \in Surface |-> NoSprite]
NoParts == [s \in Surface |-> 0]
NoLinks == [s \in Surface |-> NULL]
NoDates == [s \in Surface |-> SURACE_BMP_DEATH_DATE + 1]
NoHeads == [b \in Sprite |-> NULL]
NotDrawn == [b \in Sprite |-> SURACE_BMP_DEATH_DATE + 1]

Init == /\ bmpNo = NoBitmaps
        /\ part = NoParts
        /\ pNext = NoLinks
        /\ age = NoDates
        /\ head = NoHeads
        /\ point = 0
        /\ doing = "idle"
        /\ job = NoJob
        /\ drawn = NotDrawn
        /\ short = FALSE
----------------------------------------------------------------------------
\* (mutant: a surface may be taken one frame too early)
OldTooEarly(s) == age[s] >= SURACE_BMP_DEATH_DATE

Old(s) == age[s] > SURACE_BMP_DEATH_DATE

Following(s) == IF s + 1 >= SurfaceCnt THEN 0 ELSE s + 1

(* The call of LoadBmp returns: the drawing loop starts at the chain's head. *)
Return == IF job.draws
          THEN /\ doing' = "draw"
               /\ job' = [NoJob EXCEPT !.want = job.want, !.draws = TRUE,
                                       !.walk = head'[job.want]]
          ELSE /\ doing' = "idle"
               /\ job' = NoJob

(* LoadBmp, called to draw or (a hit test, a fight to come) only to load: it *)
(* has something to do when the bitmap has no surface.                       *)
LoadBmp(b, draws) ==
    /\ doing = "idle"
    /\ IF head[b] = NULL
       THEN /\ doing' = "search"
            /\ job' = [NoJob EXCEPT !.want = b, !.bak = point, !.draws = draws]
       ELSE /\ draws
            /\ doing' = "draw"
            /\ job' = [NoJob EXCEPT !.want = b, !.draws = TRUE, !.walk = head[b]]
    /\ UNCHANGED <<surfaces, head, point, drawn, short>>

(* The end of a pass of the search loop, after n of the pieces were placed: *)
(* the search goes on until it is back where it began.                      *)
SearchOn(n, last) ==
    /\ point' = Following(point)
    /\ IF point' = job.bak
       THEN /\ Return
            /\ short' = (short \/ n > 0)
       ELSE /\ doing' = "search"
            /\ job' = [job EXCEPT !.got = n, !.prev = last, !.walk = NULL]
            /\ UNCHANGED short

(* The surface at the search point was in use lately. *)
Skip == /\ doing = "search"
        /\ ~ Old(point)
        /\ UNCHANGED head
        /\ SearchOn(job.got, job.prev)
        /\ UNCHANGED <<surfaces, drawn>>

\* (mutant: the sprite that loses its surfaces keeps the pointer to them)
EvictKeepsHead == /\ doing = "search"
                  /\ Old(point)
                  /\ bmpNo[point] # NoSprite
                  /\ doing' = "free"
                  /\ job' = [job EXCEPT !.walk = head[bmpNo[point]]]
                  /\ UNCHANGED <<surfaces, head, point, drawn, short>>

(* It is old and holds a piece of some sprite: that sprite leaves the cache. *)
Evict == /\ doing = "search"
         /\ Old(point)
         /\ bmpNo[point] # NoSprite
         /\ doing' = "free"
         /\ job' = [job EXCEPT !.walk = head[bmpNo[point]]]
         /\ head' = [head EXCEPT ![bmpNo[point]] = NULL]
         /\ UNCHANGED <<surfaces, point, drawn, short>>

(* One pass of the loop that gives up the pieces of the evicted sprite. *)
FreePiece == /\ doing = "free"
             /\ job.walk # NULL
             /\ bmpNo' = [bmpNo EXCEPT ![job.walk] = NoSprite]
             /\ part' = [part EXCEPT ![job.walk] = 0]
             /\ job' = [job EXCEPT !.walk = pNext[job.walk]]
             /\ UNCHANGED <<pNext, age, head, point, doing, drawn, short>>

(* The surface at the search point is free by now and takes the next piece. *)
Taking == \/ /\ doing = "search"
             /\ Old(point)
             /\ bmpNo[point] = NoSprite
          \/ /\ doing = "free"
             /\ job.walk = NULL

(* Hung on the sprite when it has none yet, else behind the piece before. *)
Linked == IF head[job.want] = NULL \/ job.prev = NULL THEN pNext
          ELSE [pNext EXCEPT ![job.prev] = point]

Place == /\ bmpNo' = [bmpNo EXCEPT ![point] = job.want]
         /\ part' = [part EXCEPT ![point] = job.got + 1]
         /\ head' = IF head[job.want] = NULL
                    THEN [head EXCEPT ![job.want] = point] ELSE head

TakePiece == /\ Taking
             /\ job.got + 1 < Pieces[job.want]
             /\ Place
             /\ pNext' = Linked
             /\ SearchOn(job.got + 1, point)
             /\ UNCHANGED <<age, drawn>>

\* (mutant: the chain of the new bitmap is not closed)
TakeLastOpen == /\ Taking
                /\ job.got + 1 >= Pieces[job.want]
                /\ Place
                /\ pNext' = Linked
                /\ point' = Following(point)
                /\ Return
                /\ UNCHANGED <<age, drawn, short>>

TakeLast == /\ Taking
            /\ job.got + 1 >= Pieces[job.want]
            /\ Place
            /\ pNext' = [Linked EXCEPT ![point] = NULL]
            /\ point' = Following(point)
            /\ Return
            /\ UNCHANGED <<age, drawn, short>>

(* One pass of a drawing loop.  A piece is dated, except when it is drawn    *)
(* grey or saturated, or when it is off the screen and the bitmap has an     *)
(* alpha channel.                                                            *)
DrawPiece(dated) ==
    /\ doing = "draw"
    /\ job.walk # NULL
    /\ age' = IF dated THEN [age EXCEPT ![job.walk] = 0] ELSE age
    /\ job' = [job EXCEPT !.walk = pNext[job.walk], !.whole = job.whole /\ dated]
    /\ UNCHANGED <<bmpNo, part, pNext, head, point, doing, drawn, short>>

DrawEnd == /\ doing = "draw"
           /\ job.walk = NULL
           /\ doing' = "idle"
           /\ job' = NoJob
           /\ drawn' = IF job.whole /\ head[job.want] # NULL
                       THEN [drawn EXCEPT ![job.want] = 0] ELSE drawn
           /\ UNCHANGED <<surfaces, head, point, short>>

Older(a) == IF a > SURACE_BMP_DEATH_DATE THEN a ELSE a + 1

(* SurfaceDate++ at the end of a frame. *)
NextFrame == /\ doing = "idle"
             /\ age' = [s \in Surface |-> Older(age[s])]
             /\ drawn' = [b \in Sprite |-> Older(drawn[b])]
             /\ UNCHANGED <<bmpNo, part, pNext, head, point, doing, job, short>>

(* The palette changed: every bitmap has to be decoded again. *)
Reset == /\ doing = "idle"
         /\ bmpNo' = NoBitmaps
         /\ part' = NoParts
         /\ pNext' = NoLinks
         /\ age' = NoDates
         /\ head' = NoHeads
         /\ point' = 0
         /\ drawn' = NotDrawn
         /\ short' = FALSE
         /\ UNCHANGED <<doing, job>>

Loop == Skip \/ Evict \/ FreePiece \/ TakePiece \/ TakeLast
        \/ (\E dated \in BOOLEAN : DrawPiece(dated)) \/ DrawEnd

Next == \/ \E b \in Sprite, draws \in BOOLEAN : LoadBmp(b, draws)
        \/ Loop
        \/ NextFrame
        \/ Reset

(* A loop of the code runs until its condition ends it. *)
Spec == Init /\ [][Next]_vars /\ WF_vars(Loop)
----------------------------------------------------------------------------
TypeOK == /\ bmpNo \in [Surface -> Sprite \cup {NoSprite}]
          /\ part \in [Surface -> Nat]
          /\ pNext \in [Surface -> Surface \cup {NULL}]
          /\ age \in [Surface -> Age]
          /\ head \in [Sprite -> Surface \cup {NULL}]
          /\ point \in Surface
          /\ doing \in {"idle", "search", "free", "draw"}
          /\ job \in Jobs
          /\ (doing # "idle" => job.want \in Sprite)
          /\ drawn \in [Sprite -> Age]
          /\ short \in BOOLEAN

(* The surface t holds the piece p of b. *)
Holds(t, b, p) == t \in Surface /\ bmpNo[t] = b /\ part[t] = p

(* Whatever was evicted and reused before, a bitmap in the cache hangs       *)
(* together: its chain starts with its first piece, goes on with the next    *)
(* and ends after the last, and no surface outside the chain claims to be a  *)
(* piece of it.  Only a pool without room for all the pieces breaks this     *)
(* (AllocateBmpToSurface then leaves the old pNext in the last piece).       *)
WholePicture ==
    doing = "idle" /\ ~ short =>
        /\ \A b \in Sprite : head[b] # NULL => Holds(head[b], b, 1)
        /\ \A s \in Surface : bmpNo[s] # NoSprite =>
              /\ part[s] \in 1 .. Pieces[bmpNo[s]]
              /\ head[bmpNo[s]] # NULL
              /\ IF part[s] = Pieces[bmpNo[s]] THEN pNext[s] = NULL
                 ELSE Holds(pNext[s], bmpNo[s], part[s] + 1)
        /\ \A s, t \in Surface : bmpNo[s] # NoSprite /\ bmpNo[s] = bmpNo[t] /\ part[s] = part[t]
                                 => s = t

(* A drawing loop finds only pieces of the bitmap it draws on the chain it   *)
(* follows, though it follows pNext without looking at bmpNo.                *)
DrawsOwnPixels ==
    doing = "draw" /\ job.walk # NULL /\ ~ short => bmpNo[job.walk] = job.want

(* A bitmap all of whose pieces were drawn in this frame or one of the two   *)
(* before is still in the cache, however many others were loaded since.      *)
StaysLoaded ==
    ~ short => \A b \in Sprite : drawn[b] <= SURACE_BMP_DEATH_DATE => head[b] # NULL

(* No call of LoadBmp and no drawing loop runs for ever, for a chain that    *)
(* leads back into itself: unless the pool once was short.                   *)
LoopsEnd == doing # "idle" ~> (doing = "idle" \/ short)
============================================================================
