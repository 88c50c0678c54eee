--------------------------- MODULE ChronicleStudio ---------------------------
(***************************************************************************)
(* The timelapse studio of the map (ChronicleStudio.tsx) and the runner it *)
(* builds with (lib/map/chronicleBuild.ts). A visitor composes looks,      *)
(* picks days, and starts a build: day files are fetched ahead of a paint  *)
(* cursor, each day is painted or takes over the picture of the day        *)
(* before, and the finished frames are put on the screen. Frames hold      *)
(* bitmaps, which must be closed by hand exactly once.                     *)
(*                                                                         *)
(* The session can change under the page, by a login or a logout in        *)
(* another tab. Then the index is fetched again, and when it arrives the   *)
(* days go back to the default, whatever the page is doing. What the days  *)
(* hold, and which there are, is taken not to change during a visit. If    *)
(* the index is refused (403), a gate hides the studio until the session   *)
(* changes again: then nobody can click, which needs no state of its own,  *)
(* for nobody ever has to.                                                 *)
(*                                                                         *)
(* A promise that settles, a click and a page change are steps; the code   *)
(* between two awaits is one step. An optional value is a set of at most   *)
(* one element.                                                            *)
(***************************************************************************)
EXTENDS Naturals, Sequences, FiniteSets

CONSTANTS
    LastDay,     \* days of the chronicle index, numbered in order
    Hashes,      \* contents a stored day file can have
    NoFile,      \* the day has no such file: the fetch answers 404
    Histories,   \* what the server may have stored, day by day
    Toggles,     \* layer sets a visitor composes, "off" among them
    Realms,      \* realms the focus picker offers
    DefaultDays, \* DEFAULT_RANGE_DAYS
    Ranges,      \* bound: first and last days a visitor picks
    MaxClips,    \* bound: looks that can be queued
    MaxBuilds,   \* bound: builds started on one visit
    Window,      \* CHRONICLE_FETCH_CONCURRENCY
    MaxFrames    \* frames under CHRONICLE_MEMORY_CEILING_BYTES

Days == 1 .. LastDay

\* The days picked when the index arrives: the last of them.
Default == <<IF LastDay > DefaultDays THEN LastDay + 1 - DefaultDays ELSE 1,
             LastDay>>
Kinds == {"off", "fill", "names", "leagues", "pins"}

ASSUME StudioAssumption ==
    /\ LastDay \in Nat /\ DefaultDays \in Nat \ {0} /\ MaxClips \in Nat /\ MaxBuilds \in Nat
    /\ Window \in Nat \ {0} /\ MaxFrames \in Nat
    /\ NoFile \notin Hashes
    /\ Histories \subseteq [Days -> Hashes \cup {NoFile}]
    /\ Toggles \subseteq Kinds /\ "off" \in Toggles
    /\ Ranges \subseteq Days \X Days /\ Default \in Ranges

VARIABLES
    stored,      \* the day files on the server
    draft,       \* toggles: the look being composed
    clips,       \* queued looks
    focus,       \* focusNationId
    range,       \* <<rangeStart, rangeEnd>>
    stage,       \* compose, range, build or play
    shown,       \* framesRef: slot -> the bitmap of that frame, if any
    building,    \* buildingRef, and the state of that name
    buildError,  \* an error is shown
    grid,        \* gridRef holds the province grid
    runs,        \* startBuild calls not yet returned: number -> its locals
    owner,       \* abortRef: the number of the run holding it, 0 if null
    builds,      \* startBuild calls so far
    open,        \* bitmaps allocated and not closed
    lost,        \* bitmaps whose layers could not be computed
    index,       \* indexLoading
    mounted

choices == <<draft, clips, focus, range>>
vars == <<stored, choices, stage, shown, building, buildError, grid, runs,
          owner, builds, open, lost, index, mounted>>

-----------------------------------------------------------------------------
(* A day, seen through a look.                                             *)

NeedsNation(look) == look \in {"fill", "names"}
PaintsFill(look) == look \in {"fill", "leagues"}
NeedsGrid(look) == PaintsFill(look) \/ NeedsNation(look)

\* A day without its nation file is skipped; the other files are optional.
Recorded(look, day) == NeedsNation(look) => stored[day] # NoFile

\* imageFingerprint: the hash of every file fetched for the look, or null.
Fingerprint(look, day) ==
    IF NeedsNation(look) \/ look = "leagues" THEN {stored[day]} ELSE {}

\* What renderDay paints: nothing when the colour table comes out empty.
Painted(look, day, realm) ==
    IF PaintsFill(look) /\ stored[day] # NoFile
    THEN {<<stored[day], look, realm>>} ELSE {}

(* What is asked for.                                                      *)

LooksOf(d, c) == IF c = <<>> THEN <<d>> ELSE c
FocusWanted(d, c) ==
    NeedsNation(d) \/ \E k \in DOMAIN c : NeedsNation(c[k])
ActiveFocus(d, c, f) == IF FocusWanted(d, c) THEN f ELSE {}

Asked == [looks |-> LooksOf(draft, clips),
          focus |-> ActiveFocus(draft, clips, focus),
          first |-> range[1], last |-> range[2]]

SlotsOf(a) == (1 .. Len(a.looks)) \X (a.first .. a.last)

\* The film, painted a day at a time with no reuse: the reference.
Film(a) ==
    [s \in {t \in SlotsOf(a) : Recorded(a.looks[t[1]], t[2])} |->
        Painted(a.looks[s[1]], s[2], a.focus)]

Nothing == [s \in {} |-> s]
Images(frames) == UNION {frames[s] : s \in DOMAIN frames}
Shows(bitmaps) == {b.shows : b \in bitmaps}
Pictures(frames) == [s \in DOMAIN frames |-> Shows(frames[s])]

FrameCount(a) == (a.last + 1 - a.first) * Len(a.looks)
BlockReason == \/ building
               \/ Asked.first > Asked.last
               \/ FrameCount(Asked) > MaxFrames

-----------------------------------------------------------------------------
(* The runner.                                                             *)

FirstLoads(a) == [d \in {e \in a.first .. a.last : e < a.first + Window} |->
                    "flight"]

\* runChronicleBuild for one look, up to its first await.
Begun(r) == [r EXCEPT !.phase = "await", !.day = r.asked.first,
                      !.loads = FirstLoads(r.asked), !.previous = {}]

GridWanted(a) == \E k \in DOMAIN a.looks : NeedsGrid(a.looks[k])

\* startBuild up to its first await, on the grid or in the runner.
NewRun(a) ==
    LET r == [asked |-> a, phase |-> "grid", look |-> 1, day |-> a.first,
              loads |-> Nothing, previous |-> {}, frames |-> Nothing,
              aborted |-> FALSE]
    IN IF GridWanted(a) /\ ~grid THEN r ELSE Begun(r)

LookEnds(r) == r.day = r.asked.last
BuildEnds(r) == LookEnds(r) /\ r.look = Len(r.asked.looks)

\* The loop goes on to the next day, or the studio to the next look.
Advanced(r) ==
    IF LookEnds(r)
    THEN Begun([r EXCEPT !.look = @ + 1])
    ELSE [r EXCEPT !.phase = "await", !.day = @ + 1]

\* The awaited day is taken from the window and one more is asked for.
Taken(r) ==
    LET next == r.day + Window
        kept == DOMAIN r.loads \ {r.day}
        more == IF next <= r.asked.last THEN {next} ELSE {}
    IN [r EXCEPT !.loads = [d \in kept \cup more |->
                              IF d \in kept THEN r.loads[d] ELSE "flight"]]

Look(r) == r.asked.looks[r.look]

\* frames.push, and the frame the next day compares with.
Pushed(r, image) ==
    LET slot == <<r.look, r.day>>
    IN [r EXCEPT !.frames = [s \in DOMAIN r.frames \cup {slot} |->
                               IF s = slot THEN image ELSE r.frames[s]],
                 !.previous = {r.day}]

\* Mutant: any frame of this look is taken over.
CanReuseAnything(r) == r.previous # {}

\* The previous frame of this look shows the same files.
CanReuse(r) ==
    \E p \in r.previous :
        /\ Fingerprint(Look(r), r.day) # {}
        /\ Fingerprint(Look(r), r.day) = Fingerprint(Look(r), p)

Reused(r) == UNION {r.frames[<<r.look, p>>] : p \in r.previous}

-----------------------------------------------------------------------------
(* How a startBuild call leaves an await: it goes on, it is done, or it    *)
(* fails. "made" are the bitmaps allocated on the way.                     *)

Without(n) == [m \in DOMAIN runs \ {n} |-> runs[m]]
\* Mutant: the lock is kept.
ReturnedLocked(n) == /\ runs' = Without(n)
                     /\ UNCHANGED building
                     /\ owner' = IF owner = n THEN 0 ELSE owner

Returned(n) == /\ runs' = Without(n)
               /\ building' = FALSE
               /\ owner' = IF owner = n THEN 0 ELSE owner

\* Mutant: a cancelled build leaves its screen up.
FailsQuietly(n, frames, made, cancelled) ==
    /\ Returned(n)
    /\ open' = (open \cup made) \ Images(frames)
    /\ buildError' = IF owner = n /\ ~cancelled THEN TRUE ELSE buildError
    /\ UNCHANGED <<shown, stage>>

Fails(n, frames, made, cancelled) ==
    /\ Returned(n)
    /\ open' = (open \cup made) \ Images(frames)
    /\ buildError' = IF owner = n /\ ~cancelled THEN TRUE ELSE buildError
    /\ stage' = IF owner = n /\ cancelled THEN "range" ELSE stage
    /\ UNCHANGED shown

Finishes(n, r, made) ==
    /\ Returned(n)
    /\ IF owner = n
       THEN /\ shown' = r.frames
            /\ open' = open \cup made
            /\ stage' = IF r.frames = Nothing THEN "range" ELSE "play"
            /\ buildError' = IF r.frames = Nothing THEN TRUE ELSE buildError
       ELSE /\ open' = (open \cup made) \ Images(r.frames)
            /\ UNCHANGED <<shown, stage, buildError>>

Proceeds(n, r, made) ==
    IF BuildEnds(r) \/ (LookEnds(r) /\ owner # n)
    THEN Finishes(n, r, made)
    ELSE /\ runs' = [runs EXCEPT ![n] = Advanced(r)]
         /\ open' = open \cup made
         /\ UNCHANGED <<shown, building, owner, stage, buildError>>

OutsideRun == <<stored, choices, grid, builds, index, mounted>>

\* The grid the preview asked for is there.
GridArrives ==
    /\ ~grid
    /\ NeedsGrid(draft) \/ FocusWanted(draft, clips)
    /\ grid' = TRUE
    /\ UNCHANGED <<stored, choices, stage, shown, building, buildError, runs,
                   owner, builds, open, lost, index, mounted>>

\* ensureGrid: the promise the build waits for, its own or the preview's. It
\* stores the grid whoever is signed in by then; the loop's first statement
\* looks at the signal.
Begin(n) ==
    /\ runs[n].phase = "grid"
    /\ grid' = TRUE
    /\ IF runs[n].aborted
       THEN Fails(n, Nothing, {}, TRUE)
       ELSE /\ runs' = [runs EXCEPT ![n] = Begun(runs[n])]
            /\ UNCHANGED <<stage, shown, building, buildError, owner, open>>
    /\ UNCHANGED <<stored, choices, builds, lost, index, mounted>>

GridFails(n) ==
    /\ runs[n].phase = "grid"
    /\ \E cancelled \in BOOLEAN :
          /\ cancelled => runs[n].aborted
          /\ Fails(n, Nothing, {}, cancelled)
    /\ UNCHANGED <<OutsideRun, lost>>

\* A day's files arrive or fail, in any order; an abort makes them fail.
Settled(r, day, result) == [r EXCEPT !.loads[day] = result]
Settle(n, day) ==
    /\ day \in DOMAIN runs[n].loads
    /\ runs[n].loads[day] = "flight"
    /\ \E result \in {"ok", "failed"} :
          runs' = [runs EXCEPT ![n] = Settled(runs[n], day, result)]
    /\ UNCHANGED <<stored, choices, stage, shown, building, buildError, grid,
                   owner, builds, open, lost, index, mounted>>

Awaited(r, result) == r.phase = "await" /\ r.loads[r.day] = result

\* The runner resumes with the day it waits for: it failed, or came too late.
DayFails(n) ==
    /\ \/ /\ Awaited(runs[n], "failed")
          /\ Fails(n, runs[n].frames, {}, runs[n].aborted)
       \/ /\ Awaited(runs[n], "ok") /\ runs[n].aborted
          /\ Fails(n, runs[n].frames, {}, TRUE)
    /\ UNCHANGED <<OutsideRun, lost>>

Arrived(r) == Awaited(r, "ok") /\ ~r.aborted

SkipDay(n) ==
    /\ Arrived(runs[n]) /\ ~Recorded(Look(runs[n]), runs[n].day)
    /\ Proceeds(n, Taken(runs[n]), {})
    /\ UNCHANGED <<OutsideRun, lost>>

\* The day takes over the last picture, unless its data break buildLayers.
ReuseDay(n) ==
    /\ Arrived(runs[n]) /\ Recorded(Look(runs[n]), runs[n].day)
    /\ CanReuse(runs[n])
    /\ \/ Proceeds(n, Pushed(Taken(runs[n]), Reused(runs[n])), {})
       \/ Fails(n, runs[n].frames, {}, FALSE)
    /\ UNCHANGED <<OutsideRun, lost>>

RenderDay(n) ==
    /\ Arrived(runs[n]) /\ Recorded(Look(runs[n]), runs[n].day)
    /\ ~CanReuse(runs[n])
    /\ runs' = [runs EXCEPT ![n] = [Taken(runs[n]) EXCEPT !.phase = "render"]]
    /\ UNCHANGED <<stored, choices, stage, shown, building, buildError, grid,
                   owner, builds, open, lost, index, mounted>>

\* The bitmap the day in hand is painted on, if it is.
Made(n, r) == {[build |-> n, slot |-> <<r.look, r.day>>, shows |-> p] :
                 p \in Painted(Look(r), r.day, r.asked.focus)}

\* Mutant: the signal is looked at before the frame is registered.
PaintDayLate(n) ==
    LET r == runs[n]
    IN /\ r.phase = "render"
       /\ IF r.aborted
          THEN Fails(n, r.frames, Made(n, r), TRUE)
          ELSE Proceeds(n, Pushed(r, Made(n, r)), Made(n, r))
       /\ UNCHANGED <<OutsideRun, lost>>

\* Mutant: the signal is not looked at again after the paint.
PaintDayDeaf(n) ==
    /\ runs[n].phase = "render"
    /\ Proceeds(n, Pushed(runs[n], Made(n, runs[n])), Made(n, runs[n]))
    /\ UNCHANGED <<OutsideRun, lost>>

\* renderDay is done: the frame is registered before the signal is looked at.
PaintDay(n) ==
    LET r == runs[n]
        p == Pushed(r, Made(n, r))
    IN /\ r.phase = "render"
       /\ IF r.aborted THEN Fails(n, p.frames, Made(n, r), TRUE)
                       ELSE Proceeds(n, p, Made(n, r))
       /\ UNCHANGED <<OutsideRun, lost>>

\* The canvas refuses, or the day's data break buildLayers: then the bitmap
\* just painted is in no frame yet and nobody closes it.
PaintFails(n) ==
    LET r == runs[n]
    IN /\ r.phase = "render"
       /\ \E made \in {{}, Made(n, r)} :
             /\ Fails(n, r.frames, made, FALSE)
             /\ lost' = lost \cup made
       /\ UNCHANGED OutsideRun

-----------------------------------------------------------------------------
(* The visitor.                                                            *)

\* discardFrames
Discards == /\ shown' = Nothing
            /\ open' = open \ Images(shown)

\* Mutant: no effect watches the realm in focus.
ChooseUnfocused(d, c, f, g) ==
    /\ draft' = d /\ clips' = c /\ focus' = f /\ range' = g
    /\ IF (d # draft /\ c = <<>>) \/ c # clips \/ g # range
       THEN Discards
       ELSE UNCHANGED <<shown, open>>
    /\ UNCHANGED <<stored, stage, building, buildError, grid, runs, owner,
                   builds, lost, index, mounted>>

\* The four effects that watch the choices: frames of other choices go.
Choose(d, c, f, g) ==
    /\ draft' = d /\ clips' = c /\ focus' = f /\ range' = g
    /\ IF \/ d # draft /\ c = <<>>
          \/ c # clips
          \/ ActiveFocus(d, c, f) # ActiveFocus(draft, clips, focus)
          \/ g # range
       THEN Discards
       ELSE UNCHANGED <<shown, open>>
    /\ UNCHANGED <<stored, stage, building, buildError, grid, runs, owner,
                   builds, lost, index, mounted>>

Composing == mounted /\ stage = "compose"

ToggleLayer(t) == Composing /\ Choose(t, clips, focus, range)

AddClip == /\ Composing /\ draft # "off" /\ Len(clips) < MaxClips
           /\ Choose(draft, Append(clips, draft), focus, range)

RemoveClip(k) ==
    /\ Composing
    /\ Choose(draft, SubSeq(clips, 1, k - 1) \o
                     SubSeq(clips, k + 1, Len(clips)), focus, range)

\* onMoveClip: a queued look changes places with its neighbour.
MoveClip(k) ==
    /\ Composing /\ k + 1 \in DOMAIN clips
    /\ Choose(draft, [clips EXCEPT ![k] = clips[k + 1], ![k + 1] = clips[k]],
              focus, range)

PickFocus(f) == /\ Composing /\ FocusWanted(draft, clips)
                /\ Choose(draft, clips, f, range)

PickRange(g) == /\ mounted /\ stage = "range"
                /\ Choose(draft, clips, focus, g)

\* The size the frames are painted at is not told apart, only that frames of
\* another size go.
PickSize == /\ mounted /\ stage = "range"
            /\ Discards
            /\ UNCHANGED <<stored, choices, stage, building, buildError, grid,
                           runs, owner, builds, lost, index, mounted>>

\* Mutant: going back to the looks closes the frames the screen still has.
GoToClosing(next) ==
    /\ mounted /\ ~building
    /\ \/ next = "compose"
       \/ /\ next = "range" /\ stage # "build"
          /\ \/ stage # "compose"
             \/ index = "ready" /\ (draft # "off" \/ clips # <<>>)
       \/ next = "play" /\ shown # Nothing
    /\ stage' = next
    /\ open' = IF next = "compose" THEN open \ Images(shown) ELSE open
    /\ UNCHANGED <<stored, choices, shown, building, buildError, grid, runs,
                   owner, builds, lost, index, mounted>>

\* goToStep, behind "reachable".
GoTo(next) ==
    /\ mounted /\ ~building
    /\ \/ next = "compose"
       \/ /\ next = "range" /\ stage # "build"
          /\ \/ stage # "compose"
             \/ index = "ready" /\ (draft # "off" \/ clips # <<>>)
       \/ next = "play" /\ shown # Nothing
    /\ stage' = next
    /\ UNCHANGED <<stored, choices, shown, building, buildError, grid, runs,
                   owner, builds, open, lost, index, mounted>>

StartOver == /\ mounted /\ stage = "play"
             /\ Discards
             /\ stage' = "compose"
             /\ UNCHANGED <<stored, choices, building, buildError, grid, runs,
                            owner, builds, lost, index, mounted>>

\* Mutant: the last film stays while the next one is built.
StartBuildOver ==
    /\ mounted /\ stage = "range" /\ ~BlockReason
    /\ builds < MaxBuilds
    /\ builds' = builds + 1
    /\ building' = TRUE
    /\ owner' = builds + 1
    /\ runs' = [m \in DOMAIN runs \cup {builds + 1} |->
                  IF m = builds + 1 THEN NewRun(Asked) ELSE runs[m]]
    /\ stage' = "build"
    /\ buildError' = FALSE
    /\ UNCHANGED <<stored, choices, shown, open, grid, lost, index, mounted>>

StartBuild ==
    /\ mounted /\ stage = "range" /\ ~BlockReason
    /\ builds < MaxBuilds
    /\ builds' = builds + 1
    /\ building' = TRUE
    /\ owner' = builds + 1
    /\ runs' = [m \in DOMAIN runs \cup {builds + 1} |->
                  IF m = builds + 1 THEN NewRun(Asked) ELSE runs[m]]
    /\ Discards
    /\ stage' = "build"
    /\ buildError' = FALSE
    /\ UNCHANGED <<stored, choices, grid, lost, index, mounted>>

Aborted == [n \in DOMAIN runs |-> IF n = owner
                                  THEN [runs[n] EXCEPT !.aborted = TRUE]
                                  ELSE runs[n]]

\* Mutant: Cancel hands the Build button back before the build has returned.
CancelBuildAtOnce ==
    /\ mounted /\ stage = "build" /\ ~buildError
    /\ runs' = Aborted
    /\ building' = FALSE
    /\ stage' = "range"
    /\ UNCHANGED <<stored, choices, shown, buildError, grid, owner, builds,
                   open, lost, index, mounted>>

CancelBuild ==
    /\ mounted /\ stage = "build" /\ ~buildError
    /\ runs' = Aborted
    /\ UNCHANGED <<stored, choices, stage, shown, building, buildError, grid,
                   owner, builds, open, lost, index, mounted>>

BackToDays ==
    /\ mounted /\ stage = "build" /\ buildError
    /\ stage' = "range"
    /\ UNCHANGED <<stored, choices, shown, building, buildError, grid, runs,
                   owner, builds, open, lost, index, mounted>>

\* The visitor leaves the page: the clean-up of the mount effect. The state
\* goes with the component; the promises still pending have only the refs.
Leave == /\ mounted
         /\ mounted' = FALSE
         /\ runs' = Aborted
         /\ Discards
         /\ draft' = "off" /\ clips' = <<>> /\ focus' = {}
         /\ range' = Default /\ index' = "ready"
         /\ UNCHANGED <<stored, stage, building, buildError, grid, owner,
                        builds, lost>>

-----------------------------------------------------------------------------
(* The session.                                                            *)

\* A login or a logout in another tab: the index is asked for again, the grid
\* of the old session is dropped, and nothing else stops.
SignIn == /\ mounted
          /\ index' = "loading" /\ grid' = FALSE
          /\ UNCHANGED <<stored, choices, stage, shown, building, buildError,
                         runs, owner, builds, open, lost, mounted>>

\* The days go back to the default in any stage, a build's included; the
\* effect that watches them finds frames to discard only if there are any.
IndexArrives ==
    /\ mounted /\ index = "loading"
    /\ index' = "ready" /\ range' = Default
    /\ IF range # Default /\ shown # Nothing
       THEN Discards /\ stage' = "range"
       ELSE UNCHANGED <<shown, open, stage>>
    /\ UNCHANGED <<stored, draft, clips, focus, building, buildError, grid,
                   runs, owner, builds, lost, mounted>>

\* The old index stays, with an error beside it or behind the gate.
IndexFails ==
    /\ mounted /\ index = "loading"
    /\ index' = "ready"
    /\ UNCHANGED <<stored, choices, stage, shown, building, buildError, grid,
                   runs, owner, builds, open, lost, mounted>>

-----------------------------------------------------------------------------
Init == /\ stored \in Histories
        /\ draft = "off" /\ clips = <<>> /\ focus = {}
        /\ range = Default
        /\ stage = "compose" /\ shown = Nothing
        /\ building = FALSE /\ buildError = FALSE /\ grid = FALSE
        /\ runs = Nothing /\ owner = 0 /\ builds = 0
        /\ open = {} /\ lost = {} /\ index = "ready" /\ mounted = TRUE

Visitor == \/ \E t \in Toggles : ToggleLayer(t)
           \/ AddClip
           \/ \E k \in DOMAIN clips : RemoveClip(k) \/ MoveClip(k)
           \/ \E f \in {{}} \cup {{r} : r \in Realms} : PickFocus(f)
           \/ \E g \in Ranges : PickRange(g)
           \/ PickSize
           \/ \E next \in {"compose", "range", "play"} : GoTo(next)
           \/ StartOver \/ StartBuild \/ CancelBuild \/ BackToDays \/ Leave

Runner(n) == \/ Begin(n) \/ GridFails(n) \/ DayFails(n) \/ SkipDay(n)
             \/ ReuseDay(n) \/ RenderDay(n) \/ PaintDay(n) \/ PaintFails(n)
             \/ \E day \in Days : Settle(n, day)

Session == SignIn \/ IndexArrives \/ IndexFails

Next == \/ Visitor
        \/ Session
        \/ GridArrives
        \/ \E n \in DOMAIN runs : Runner(n)

\* Promises settle and the event loop runs what they wake; a fetch that is
\* aborted rejects, so it settles too. Nobody has to click anything.
Settles == \E n \in DOMAIN runs : Runner(n)

Spec == Init /\ [][Next]_vars /\ WF_vars(Settles)

-----------------------------------------------------------------------------
(* Properties.                                                             *)

Slots == (1 .. MaxClips + 1) \X Days
Realm == {{}} \cup {{r} : r \in Realms}
Picture == (Hashes \X Toggles \X Realm)
Bitmap == [build : 1 .. MaxBuilds, slot : Slots, shows : Picture]

Request == [looks : Seq(Toggles), focus : Realm, first : Days, last : Days]
AreFrames(f) == /\ DOMAIN f \subseteq Slots /\ f = [s \in DOMAIN f |-> f[s]]
                /\ \A s \in DOMAIN f : f[s] \subseteq Bitmap
AreLoads(f) == /\ DOMAIN f \subseteq Days
               /\ \A d \in DOMAIN f : f[d] \in {"flight", "ok", "failed"}
IsRun(r) ==
    /\ r \in [asked : Request, phase : {"grid", "await", "render"}, look : Nat,
              day : Nat, loads : {r.loads}, previous : SUBSET Nat,
              frames : {r.frames}, aborted : BOOLEAN]
    /\ AreLoads(r.loads) /\ AreFrames(r.frames)

\* The state has the shape the modules' types give it.
TypeOK ==
    /\ stored \in Histories
    /\ draft \in Toggles /\ clips \in Seq(Toggles) /\ Len(clips) <= MaxClips
    /\ focus \in Realm /\ range \in Ranges
    /\ stage \in {"compose", "range", "build", "play"}
    /\ building \in BOOLEAN /\ buildError \in BOOLEAN /\ grid \in BOOLEAN
    /\ index \in {"ready", "loading"} /\ mounted \in BOOLEAN
    /\ builds \in 0 .. MaxBuilds /\ owner \in 0 .. builds
    /\ open \subseteq Bitmap /\ lost \subseteq open
    /\ AreFrames(shown)
    /\ \A n \in DOMAIN runs : IsRun(runs[n])

\* One build is alive at a time and it holds the abort handle, so Cancel always
\* reaches it, however the clicks and the promises interleave (buildingRef and
\* its comment).
OneBuild ==
    /\ building <=> DOMAIN runs # {}
    /\ \A n \in DOMAIN runs : n = owner

HeldBy(frames, builders) ==
    Images(frames) \cup
        UNION {Images(builders[n].frames) : n \in DOMAIN builders}
Held == HeldBy(shown, runs)

\* Every bitmap the screen or a build can still draw is open, and every open
\* bitmap is held by one of them, so none leaks when a build is cancelled,
\* fails or finds its page gone: all but the one whose day broke buildLayers.
BitmapsAccountedFor == Held \cap lost = {} /\ open = Held \cup lost

\* The bitmaps held decoded never exceed the ceiling the estimate refused to
\* cross, whatever was built before.
UnderCeiling == Cardinality(open \ lost) <= MaxFrames

\* A build screen shows either a build that is running or an error to leave
\* by: its Cancel button is never the only way out of a build that is gone.
BuildScreenHasWayOut ==
    mounted /\ stage = "build" => building \/ buildError

\* What a build has painted so far is the beginning of the film it was asked
\* for: reuse never carries a picture over a change of files or of look, and
\* days come in order. The looks and the focus cannot move under a build, only
\* the days can, by a change of session.
PaintsTheFilm ==
    \A n \in DOMAIN runs :
        LET r == runs[n] IN
        /\ mounted => r.asked.looks = Asked.looks /\ r.asked.focus = Asked.focus
        /\ \A s \in DOMAIN r.frames :
              /\ s \in DOMAIN Film(r.asked)
              /\ Shows(r.frames[s]) = Film(r.asked)[s]

\* The studio keeps the promise to its visitor.
Timelapse == INSTANCE ChronicleTimelapse WITH
                film <- Film(Asked),
                making <- {Film(runs[n].asked) : n \in DOMAIN runs},
                screen <- Pictures(shown)
ShowsTheFilm == Timelapse!Spec

\* A build that is cancelled shows nothing: it never reaches the screen.
CancelledStaysOff ==
    [][\A n \in DOMAIN runs : runs[n].aborted => shown' = Nothing]_vars

\* A build comes to an end, done, failed or cancelled, and gives the Build
\* button back.
BuildEndsAtLast == building ~> ~building
=============================================================================
