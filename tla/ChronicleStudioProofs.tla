------------------------ MODULE ChronicleStudioProofs ------------------------
(***************************************************************************)
(* Theorems about ChronicleStudio for any index, looks, window, ceiling    *)
(* and number of builds, with their proofs.                                *)
(*                                                                         *)
(* Inv is the inductive invariant. That the film put on the screen is the  *)
(* film the build was asked for needs what a build in progress has painted *)
(* (RunAt), that nothing is on the screen meanwhile (Steady), and that no  *)
(* other build is alive; that no bitmap leaks needs, beyond that, that a   *)
(* bitmap given up carries the number of a build that is over. CeilingInv, *)
(* AllAhead, ExportInv and HoldInv stand beside it, for the ceiling on     *)
(* bitmaps, the fetch window and the GIF export.                           *)
(***************************************************************************)
EXTENDS ChronicleExport, SequenceTheorems, FiniteSetTheorems,
        WellFoundedInduction, TLAPS

\* The slots a run is past, when it is past the day k of its look.
Past(r, k, s) == s[1] < r.look \/ (s[1] = r.look /\ s[2] <= k)

\* A run past the day k has painted the film up to there.
RunAt(n, r, k) ==
    /\ IsRun(r)
    /\ r.asked.first <= r.asked.last
    /\ Len(r.asked.looks) \in 1 .. MaxClips + 1
    /\ r.look \in 1 .. Len(r.asked.looks)
    /\ r.day \in r.asked.first .. r.asked.last
    /\ DOMAIN r.frames = {s \in DOMAIN Film(r.asked) : Past(r, k, s)}
    /\ \A s \in DOMAIN r.frames :
          /\ Shows(r.frames[s]) = Film(r.asked)[s]
          /\ \A b \in r.frames[s] : b.build = n /\ b.slot \in DOMAIN r.frames
    /\ \A p, q \in r.previous : p = q /\ <<r.look, p>> \in DOMAIN r.frames

\* Where a run stands that is in the table.
RunInv(n, r) ==
    /\ n = owner /\ n \in 1 .. builds
    /\ RunAt(n, r, r.day - 1)
    /\ r.phase = "grid" =>
          r.look = 1 /\ r.day = r.asked.first /\ DOMAIN r.loads = {}
    /\ r.phase = "render" => Recorded(Look(r), r.day)
    /\ mounted => r.asked.looks = Asked.looks /\ r.asked.focus = Asked.focus
    /\ ~mounted => r.aborted

\* While a build runs the screen is dark, and the panels that change the looks
\* are not on the page.
Steady ==
    /\ building <=> DOMAIN runs # {}
    /\ DOMAIN runs # {} => /\ shown = Nothing /\ ~buildError
                           /\ mounted => stage = "build"
    /\ ~mounted => shown = Nothing

LostIsOver ==
    \A b \in lost : b.build <= builds /\ b.build \notin DOMAIN runs

Inv == /\ TypeOK
       /\ \A n \in DOMAIN runs : RunInv(n, runs[n])
       /\ Steady
       /\ BitmapsAccountedFor
       /\ LostIsOver
       /\ BuildScreenHasWayOut

-----------------------------------------------------------------------------
(* The film and the runner                                                 *)

\* The slots of a film, and what each shows.
LEMMA FilmSlots ==
  ASSUME NEW a
  PROVE  /\ DOMAIN Film(a) = {t \in SlotsOf(a) : Recorded(a.looks[t[1]], t[2])}
         /\ \A s \in DOMAIN Film(a) :
              Film(a)[s] = Painted(a.looks[s[1]], s[2], a.focus)
BY DEF Film

\* A slot is a pair of a look and a day.
LEMMA SlotPairs ==
  ASSUME NEW a \in Request, NEW s \in DOMAIN Film(a)
  PROVE  /\ s[1] \in Int /\ s[2] \in Int /\ s = <<s[1], s[2]>>
         /\ s[1] \in 1 .. Len(a.looks) /\ s[2] \in a.first .. a.last
         /\ Recorded(a.looks[s[1]], s[2])
<1>1. s \in SlotsOf(a) /\ Recorded(a.looks[s[1]], s[2])
  BY FilmSlots
<1>2. \E i \in 1 .. Len(a.looks), j \in a.first .. a.last : s = <<i, j>>
  BY <1>1 DEF SlotsOf
<1> QED BY <1>1, <1>2

\* The requests a run can carry stay within the slots.
LEMMA SlotTypes ==
  ASSUME NEW a \in Request, Len(a.looks) \in 1 .. MaxClips + 1
  PROVE  SlotsOf(a) \subseteq Slots
<1>1. LastDay \in Nat /\ MaxClips \in Nat
  BY StudioAssumption
<1>2. a.first \in Nat /\ a.last \in Nat /\ a.first >= 1 /\ a.last <= LastDay
  BY <1>1 DEF Request, Days
<1> QED BY <1>1, <1>2 DEF SlotsOf, Slots, Days

\* Taking a day from the window changes nothing but the window.
LEMMA TakenFacts ==
  ASSUME NEW n, NEW r, NEW k, RunAt(n, r, k)
  PROVE  /\ RunAt(n, Taken(r), k)
         /\ Taken(r).asked = r.asked /\ Taken(r).look = r.look
         /\ Taken(r).day = r.day /\ Taken(r).frames = r.frames
         /\ Taken(r).previous = r.previous /\ Taken(r).aborted = r.aborted
         /\ Taken(r).phase = r.phase
<1> DEFINE l == Taken(r).loads
<1>1. /\ r.asked.first \in Nat /\ r.asked.last \in Nat /\ r.day \in Nat
      /\ r.asked.last <= LastDay /\ r.day >= 1
      /\ Window \in Nat /\ LastDay \in Nat
  BY StudioAssumption DEF RunAt, IsRun, Request, Days
<1>2. /\ Taken(r).asked = r.asked /\ Taken(r).look = r.look
      /\ Taken(r).day = r.day /\ Taken(r).frames = r.frames
      /\ Taken(r).previous = r.previous /\ Taken(r).aborted = r.aborted
      /\ Taken(r).phase = r.phase
      /\ Taken(r) \in [asked : Request, phase : {"grid", "await", "render"},
                       look : Nat, day : Nat, loads : {l},
                       previous : SUBSET Nat, frames : {r.frames},
                       aborted : BOOLEAN]
  BY DEF RunAt, IsRun, Taken
<1>3. AreLoads(l)
  <2>1. l = [d \in (DOMAIN r.loads \ {r.day}) \cup
                     (IF r.day + Window <= r.asked.last
                      THEN {r.day + Window} ELSE {}) |->
               IF d \in DOMAIN r.loads \ {r.day} THEN r.loads[d]
                                                 ELSE "flight"]
    BY DEF Taken, RunAt, IsRun
  <2>2. AreLoads(r.loads)
    BY DEF RunAt, IsRun
  <2> QED BY <1>1, <2>1, <2>2 DEF AreLoads, Days
<1>4. IsRun(Taken(r))
  BY <1>2, <1>3 DEF IsRun, RunAt
<1> QED BY <1>2, <1>4 DEF RunAt, Past

\* A day that has no frame is past.
LEMMA SkipFacts ==
  ASSUME NEW n, NEW r, RunAt(n, r, r.day - 1),
         ~Recorded(Look(r), r.day)
  PROVE  RunAt(n, r, r.day)
<1>1. r.day \in Nat /\ r.look \in Nat
  BY DEF RunAt, IsRun
<1>2. <<r.look, r.day>> \notin DOMAIN Film(r.asked)
  BY SlotPairs DEF Look, RunAt, IsRun
<1>3. ASSUME NEW s \in DOMAIN Film(r.asked)
      PROVE  Past(r, r.day, s) <=> Past(r, r.day - 1, s)
  <2>1. s[1] \in Int /\ s[2] \in Int /\ s = <<s[1], s[2]>>
    BY SlotPairs DEF RunAt, IsRun
  <2>2. ~(s[1] = r.look /\ s[2] = r.day)
    BY <1>2, <2>1
  <2> QED BY <1>1, <2>1, <2>2 DEF Past
<1>4. {s \in DOMAIN Film(r.asked) : Past(r, r.day, s)} =
      {s \in DOMAIN Film(r.asked) : Past(r, r.day - 1, s)}
  BY <1>3
<1> QED BY <1>4 DEF RunAt

\* A frame that shows the day in hand.
Fits(n, r, image) ==
    /\ image \subseteq Bitmap
    /\ \A b \in image : b.build = n /\ b.slot \in
                            DOMAIN r.frames \cup {<<r.look, r.day>>}
    /\ Shows(image) = Painted(Look(r), r.day, r.asked.focus)

\* A frame that shows the day is pushed: the day is past.
LEMMA PushFacts ==
  ASSUME NEW n, NEW r, NEW image, RunAt(n, r, r.day - 1),
         Recorded(Look(r), r.day), Fits(n, r, image)
  PROVE  /\ RunAt(n, Pushed(r, image), r.day)
         /\ Pushed(r, image).asked = r.asked
         /\ Pushed(r, image).look = r.look /\ Pushed(r, image).day = r.day
         /\ Pushed(r, image).aborted = r.aborted
         /\ Pushed(r, image).phase = r.phase
         /\ Images(Pushed(r, image).frames) = Images(r.frames) \cup image
<1> DEFINE p == Pushed(r, image)
           slot == <<r.look, r.day>>
           f == [s \in DOMAIN r.frames \cup {slot} |->
                   IF s = slot THEN image ELSE r.frames[s]]
<1>0. /\ image \subseteq Bitmap
      /\ \A b \in image : b.build = n /\ b.slot \in DOMAIN r.frames \cup {slot}
      /\ Shows(image) = Painted(Look(r), r.day, r.asked.focus)
  BY DEF Fits
<1>1. r.day \in Nat /\ r.look \in Nat /\ AreFrames(r.frames)
  BY DEF RunAt, IsRun
<1>2. /\ p.asked = r.asked /\ p.look = r.look /\ p.day = r.day
      /\ p.aborted = r.aborted /\ p.phase = r.phase /\ p.loads = r.loads
      /\ p.frames = f /\ p.previous = {r.day}
      /\ p \in [asked : Request, phase : {"grid", "await", "render"},
                look : Nat, day : Nat, loads : {r.loads},
                previous : SUBSET Nat, frames : {f}, aborted : BOOLEAN]
  BY <1>1 DEF RunAt, IsRun, Pushed
<1>3. slot \in DOMAIN Film(r.asked)
  <2>1. slot \in SlotsOf(r.asked)
    BY DEF SlotsOf, RunAt
  <2> QED BY <2>1, FilmSlots DEF Look
<1>4. Film(r.asked)[slot] = Painted(Look(r), r.day, r.asked.focus)
  BY <1>3, FilmSlots DEF Look
<1>5. ASSUME NEW s \in DOMAIN Film(r.asked)
      PROVE  Past(r, r.day, s) <=> Past(r, r.day - 1, s) \/ s = slot
  <2>1. s[1] \in Int /\ s[2] \in Int /\ s = <<s[1], s[2]>>
    BY SlotPairs DEF RunAt, IsRun
  <2>2. s = slot <=> s[1] = r.look /\ s[2] = r.day
    BY <2>1
  <2> QED BY <1>1, <2>1, <2>2 DEF Past
<1>6. slot \notin DOMAIN r.frames
  BY <1>1 DEF RunAt, Past
<1>7. DOMAIN f = {s \in DOMAIN Film(r.asked) : Past(p, r.day, s)}
  <2>1. \A s : Past(p, r.day, s) <=> Past(r, r.day, s)
    BY <1>2 DEF Past
  <2>2. DOMAIN r.frames = {s \in DOMAIN Film(r.asked) : Past(r, r.day - 1, s)}
    BY DEF RunAt
  <2> QED BY <1>3, <1>5, <2>1, <2>2
<1>8. \A s \in DOMAIN f : /\ Shows(f[s]) = Film(r.asked)[s]
                         /\ \A b \in f[s] : /\ b.build = n
                                            /\ b.slot \in DOMAIN f
  BY <1>0, <1>4, <1>6 DEF RunAt
<1>9. AreFrames(f)
  <2>1. slot \in Slots
    BY <1>3, FilmSlots, SlotTypes DEF RunAt, IsRun
  <2> QED BY <1>0, <1>1, <2>1 DEF AreFrames
<1>10. IsRun(p)
  BY <1>2, <1>9 DEF RunAt, IsRun
<1>11. RunAt(n, p, r.day)
  BY <1>2, <1>7, <1>8, <1>10 DEF RunAt
<1>12. Images(f) = Images(r.frames) \cup image
  BY <1>6 DEF Images
<1> QED BY <1>2, <1>11, <1>12

\* What a reused frame shows is what painting the day would have shown.
LEMMA ReuseFacts ==
  ASSUME NEW n, NEW r, RunAt(n, r, r.day - 1), CanReuse(r)
  PROVE  /\ Reused(r) \subseteq Images(r.frames)
         /\ Reused(r) \subseteq Bitmap
         /\ \A b \in Reused(r) : b.build = n /\ b.slot \in DOMAIN r.frames
         /\ Shows(Reused(r)) =
              Painted(Look(r), r.day, r.asked.focus)
<1>1. \A p \in r.previous : <<r.look, p>> \in DOMAIN r.frames
  BY DEF RunAt
<1>2. Reused(r) \subseteq Images(r.frames)
  BY <1>1 DEF Reused, Images
<1>3. /\ Images(r.frames) \subseteq Bitmap
      /\ \A b \in Images(r.frames) : b.build = n /\ b.slot \in DOMAIN r.frames
  BY DEF Images, RunAt, IsRun, AreFrames
<1>4. Shows(Reused(r)) = Painted(Look(r), r.day, r.asked.focus)
  <2> PICK p \in r.previous :
              /\ Fingerprint(Look(r), r.day) # {}
              /\ Fingerprint(Look(r), r.day) = Fingerprint(Look(r), p)
    BY DEF CanReuse
  <2>0. r.previous = {p}
    BY DEF RunAt
  <2>1. Reused(r) = r.frames[<<r.look, p>>]
    BY <2>0 DEF Reused
  <2>2. /\ <<r.look, p>> \in DOMAIN Film(r.asked)
        /\ Shows(r.frames[<<r.look, p>>]) =
             Film(r.asked)[<<r.look, p>>]
    BY <1>1 DEF RunAt
  <2>3. Film(r.asked)[<<r.look, p>>] = Painted(Look(r), p, r.asked.focus)
    BY <2>2, FilmSlots DEF Look
  <2>4. stored[p] = stored[r.day] \/ ~PaintsFill(Look(r))
    BY DEF Fingerprint, PaintsFill, NeedsNation
  <2> QED BY <2>1, <2>2, <2>3, <2>4 DEF Painted
<1> QED BY <1>2, <1>3, <1>4

\* From the end of a day to the beginning of the next, in this look or the next.
LEMMA AdvanceFacts ==
  ASSUME NEW n, NEW r, RunAt(n, r, r.day), ~BuildEnds(r)
  PROVE  /\ RunAt(n, Advanced(r), Advanced(r).day - 1)
         /\ Advanced(r).asked = r.asked /\ Advanced(r).frames = r.frames
         /\ Advanced(r).aborted = r.aborted /\ Advanced(r).phase = "await"
<1> DEFINE a == Advanced(r)
<1>1. /\ r.day \in Nat /\ r.look \in Nat /\ r.asked \in Request
      /\ r.asked.first \in Nat /\ r.asked.last \in Nat
      /\ r.look \in 1 .. Len(r.asked.looks) /\ Len(r.asked.looks) \in Nat
      /\ r.asked.first >= 1 /\ r.asked.last <= LastDay /\ LastDay \in Nat
      /\ r.day \in r.asked.first .. r.asked.last
  BY StudioAssumption DEF RunAt, IsRun, Request, Days
<1>2. CASE LookEnds(r)
  <2>1. r.day = r.asked.last /\ r.look + 1 \in 1 .. Len(r.asked.looks)
    BY <1>1, <1>2 DEF BuildEnds, LookEnds
  <2>2. /\ a.asked = r.asked /\ a.frames = r.frames /\ a.aborted = r.aborted
        /\ a.phase = "await" /\ a.look = r.look + 1 /\ a.day = r.asked.first
        /\ a.previous = {} /\ a.loads = FirstLoads(r.asked)
        /\ a \in [asked : Request, phase : {"grid", "await", "render"},
                  look : Nat, day : Nat, loads : {FirstLoads(r.asked)},
                  previous : SUBSET Nat, frames : {r.frames},
                  aborted : BOOLEAN]
    <3> DEFINE q == [r EXCEPT !.look = r.look + 1]
    <3>1. a = Begun(q)
      BY <1>2 DEF Advanced
    <3>2. /\ q.asked = r.asked /\ q.frames = r.frames
          /\ q.aborted = r.aborted /\ q.look = r.look + 1
          /\ q \in [asked : Request, phase : {"grid", "await", "render"},
                    look : Nat, day : Nat, loads : {r.loads},
                    previous : SUBSET Nat, frames : {r.frames},
                    aborted : BOOLEAN]
      BY <1>1 DEF RunAt, IsRun
    <3> HIDE DEF q
    <3>3. a = [q EXCEPT !.phase = "await", !.day = r.asked.first,
                        !.loads = FirstLoads(r.asked), !.previous = {}]
      BY <3>1, <3>2 DEF Begun
    <3> HIDE DEF a
    <3> QED BY <1>1, <3>2, <3>3
  <2>3. AreLoads(FirstLoads(r.asked))
    BY <1>1 DEF AreLoads, FirstLoads, Days
  <2>4. IsRun(a)
    BY <2>2, <2>3 DEF IsRun, RunAt
  <2>5. ASSUME NEW s \in DOMAIN Film(r.asked)
        PROVE  Past(r, r.day, s) <=> Past(a, a.day - 1, s)
    <3>1. /\ s[1] \in Int /\ s[2] \in Int
          /\ s[2] >= r.asked.first /\ s[2] <= r.asked.last
      BY <1>1, SlotPairs
    <3> QED BY <1>1, <2>1, <2>2, <3>1 DEF Past
  <2>6. DOMAIN a.frames = {s \in DOMAIN Film(a.asked) : Past(a, a.day - 1, s)}
    BY <2>2, <2>5 DEF RunAt
  <2>7. a.day \in a.asked.first .. a.asked.last
    BY <1>1, <2>2
  <2> QED BY <2>1, <2>2, <2>4, <2>6, <2>7 DEF RunAt
<1>3. CASE ~LookEnds(r)
  <2>1. /\ a.asked = r.asked /\ a.frames = r.frames /\ a.aborted = r.aborted
        /\ a.phase = "await" /\ a.look = r.look /\ a.day = r.day + 1
        /\ a.previous = r.previous /\ a.loads = r.loads
        /\ a \in [asked : Request, phase : {"grid", "await", "render"},
                  look : Nat, day : Nat, loads : {r.loads},
                  previous : SUBSET Nat, frames : {r.frames},
                  aborted : BOOLEAN]
    <3> DEFINE d == r.day + 1
    <3>0. d \in Nat
      BY <1>1
    <3>1. a = [r EXCEPT !.phase = "await", !.day = d]
      BY <1>3 DEF Advanced
    <3>2. r \in [asked : Request, phase : {"grid", "await", "render"},
                look : Nat, day : Nat, loads : {r.loads},
                previous : SUBSET Nat, frames : {r.frames},
                aborted : BOOLEAN]
      BY DEF RunAt, IsRun
    <3> HIDE DEF a, d
    <3>3. /\ a.asked = r.asked /\ a.frames = r.frames /\ a.aborted = r.aborted
          /\ a.phase = "await" /\ a.look = r.look /\ a.day = d
          /\ a.previous = r.previous /\ a.loads = r.loads
      BY <3>1, <3>2
    <3>4. a \in [asked : Request, phase : {"grid", "await", "render"},
                look : Nat, day : Nat, loads : {r.loads},
                previous : SUBSET Nat, frames : {r.frames},
                aborted : BOOLEAN]
      BY <3>0, <3>1, <3>2
    <3> QED BY <3>3, <3>4 DEF d
  <2>2. IsRun(a)
    BY <2>1 DEF IsRun, RunAt
  <2>3. a.day - 1 = r.day /\ a.day \in a.asked.first .. a.asked.last
    BY <1>1, <1>3, <2>1 DEF LookEnds
  <2>4. \A s : Past(a, a.day - 1, s) <=> Past(r, r.day, s)
    BY <2>1, <2>3 DEF Past
  <2>5. DOMAIN a.frames = {s \in DOMAIN Film(a.asked) : Past(a, a.day - 1, s)}
    BY <2>1, <2>4 DEF RunAt
  <2> QED BY <2>1, <2>2, <2>3, <2>5 DEF RunAt
<1> QED BY <1>2, <1>3

\* Past the last day of the last look, the film is whole.
LEMMA EndFacts ==
  ASSUME NEW n, NEW r, RunAt(n, r, r.day), BuildEnds(r)
  PROVE  Pictures(r.frames) = Film(r.asked)
<1>1. /\ r.day = r.asked.last /\ r.look = Len(r.asked.looks)
      /\ r.day \in Nat /\ r.look \in Nat /\ r.asked \in Request
  BY DEF BuildEnds, LookEnds, RunAt, IsRun
<1>2. ASSUME NEW s \in DOMAIN Film(r.asked)
      PROVE  Past(r, r.day, s)
  <2>1. /\ s[1] \in Int /\ s[2] \in Int /\ s[1] <= r.look /\ s[2] <= r.day
    BY <1>1, SlotPairs
  <2> QED BY <1>1, <2>1 DEF Past
<1>3. DOMAIN r.frames = DOMAIN Film(r.asked)
  BY <1>2 DEF RunAt
<1>4. \A s \in DOMAIN r.frames : Shows(r.frames[s]) = Film(r.asked)[s]
  BY DEF RunAt
<1> QED BY <1>3, <1>4 DEF Pictures, Film

-----------------------------------------------------------------------------
(* The outcomes of an await                                                *)

\* The bitmaps that are held, with no build alive and with one.
LEMMA HeldFacts ==
  ASSUME NEW f, NEW rs
  PROVE  /\ Images(Nothing) = {}
         /\ DOMAIN rs = {} => HeldBy(f, rs) = Images(f)
         /\ \A n : DOMAIN rs = {n} =>
              HeldBy(f, rs) = Images(f) \cup Images(rs[n].frames)
BY DEF HeldBy, Images, Nothing

\* The film depends on what is stored and on nothing else that changes.
LEMMA FilmStays ==
  ASSUME stored' = stored, NEW a
  PROVE  Film(a)' = Film(a)
BY DEF Film, Painted, Recorded, SlotsOf

\* Nor do the facts about a run depend on anything else.
LEMMA RunStays ==
  ASSUME stored' = stored, NEW n, NEW r, NEW k
  PROVE  RunAt(n, r, k)' <=> RunAt(n, r, k)
<1>1. Film(r.asked)' = Film(r.asked)
  BY FilmStays
<1>2. IsRun(r)' <=> IsRun(r)
  BY DEF IsRun, AreLoads, AreFrames, Request, Realm, Bitmap, Slots, Days,
         Picture
<1>3. {s \in DOMAIN Film(r.asked) : Past(r, k, s)}' =
      {s \in DOMAIN Film(r.asked) : Past(r, k, s)}
  BY <1>1 DEF Past
<1> QED BY <1>1, <1>2, <1>3 DEF RunAt

\* The same choices ask for the same film.
LEMMA AskedStays ==
  ASSUME UNCHANGED choices
  PROVE  Asked' = Asked
BY DEF Asked, choices, LooksOf, ActiveFocus, FocusWanted

\* The looks and the focus asked for do not depend on the days.
LEMMA LooksStay ==
  ASSUME UNCHANGED <<draft, clips, focus>>
  PROVE  Asked'.looks = Asked.looks /\ Asked'.focus = Asked.focus
BY DEF Asked, LooksOf, ActiveFocus, FocusWanted

\* The run in the table is the only one, and holds every bitmap that is held.
LEMMA OnlyRun ==
  ASSUME Inv, NEW n \in DOMAIN runs
  PROVE  /\ DOMAIN runs = {n} /\ owner = n /\ building = TRUE
         /\ shown = Nothing
         /\ open = Images(runs[n].frames) \cup lost
         /\ Images(runs[n].frames) \cap lost = {}
         /\ n \in 1 .. builds /\ n \in 1 .. MaxBuilds /\ builds \in Nat
<1>1. /\ \A m \in DOMAIN runs : m = owner /\ m \in 1 .. builds
      /\ builds \in 0 .. MaxBuilds /\ MaxBuilds \in Nat
      /\ shown = Nothing /\ building = TRUE
  BY StudioAssumption DEF Inv, RunInv, Steady, TypeOK
<1>2. DOMAIN runs = {n}
  BY <1>1
<1>3. Held = Images(runs[n].frames)
  <2>1. HeldBy(shown, runs) = Images(shown) \cup Images(runs[n].frames)
    BY <1>2, HeldFacts
  <2> QED BY <1>1, <2>1, HeldFacts DEF Held
<1> QED BY <1>1, <1>2, <1>3 DEF Inv, BitmapsAccountedFor

\* What a step of a run leaves behind: the run or nothing of it, bitmaps given
\* up that are its own, and a screen that is dark or has the whole film of it.
Outcome(n) ==
    /\ stored' = stored /\ builds' = builds /\ UNCHANGED choices
    /\ \A m \in DOMAIN runs' : m = n /\ runs'[m].asked = runs[m].asked
    /\ \A b \in lost' : b \in lost \/ b.build = n
    /\ shown' # Nothing =>
          /\ DOMAIN runs' = {} /\ Pictures(shown') = Film(runs[n].asked)
          /\ \A b \in Images(shown') : b.build = n

\* A run that fails closes what it painted, all but a bitmap in no frame.
LEMMA FailStep ==
  ASSUME Inv, NEW n \in DOMAIN runs, NEW frames, NEW made \in SUBSET Bitmap,
         NEW gone \in SUBSET made, NEW cancelled \in BOOLEAN,
         Fails(n, frames, made, cancelled),
         UNCHANGED <<stored, choices, builds, index, mounted>>,
         grid' \in BOOLEAN, lost' = lost \cup gone,
         \A b \in made : b.build = n,
         Images(frames) \cup gone = Images(runs[n].frames) \cup made,
         Images(frames) \cap gone = {}
  PROVE  Inv' /\ Outcome(n)
<1>1. /\ DOMAIN runs = {n} /\ owner = n /\ shown = Nothing
      /\ open = Images(runs[n].frames) \cup lost
      /\ Images(runs[n].frames) \cap lost = {}
      /\ n \in 1 .. builds /\ builds \in Nat
  BY OnlyRun
<1>2. /\ DOMAIN runs' = {} /\ building' = FALSE /\ owner' = 0
      /\ shown' = Nothing /\ builds' = builds
      /\ stored' = stored /\ mounted' = mounted /\ UNCHANGED choices
      /\ open' = (open \cup made) \ Images(frames)
      /\ stage' = IF cancelled THEN "range" ELSE stage
      /\ buildError' = IF ~cancelled THEN TRUE ELSE buildError
      /\ index' = index
  BY <1>1 DEF Fails, Returned, Without
<1>3. lost \cap made = {}
  BY DEF Inv, LostIsOver
<1>4. open' = lost'
  BY <1>1, <1>2, <1>3
<1>5. Held' = {}
  BY <1>2, HeldFacts DEF Held, HeldBy, Images, Nothing
<1>6. BitmapsAccountedFor'
  BY <1>4, <1>5 DEF BitmapsAccountedFor
<1>7. LostIsOver'
  BY <1>1, <1>2 DEF Inv, LostIsOver
<1>8. TypeOK'
  <2>1. TypeOK
    BY DEF Inv
  <2>2. open' \subseteq Bitmap /\ lost' \subseteq open'
    BY <1>2, <1>4, <2>1 DEF TypeOK
  <2>3. owner' \in 0 .. builds' /\ builds' \in 0 .. MaxBuilds
    BY <1>1, <1>2, <2>1 DEF TypeOK
  <2>4. buildError' \in BOOLEAN /\ stage' \in {"compose", "range", "build", "play"}
    BY <1>2, <2>1 DEF TypeOK
  <2>5. AreFrames(shown')
    BY <1>1, <1>2, <2>1 DEF TypeOK
  <2> QED BY <1>2, <2>1, <2>2, <2>3, <2>4, <2>5 DEF TypeOK, choices
<1>9. Steady'
  BY <1>2 DEF Steady, Nothing
<1>10. BuildScreenHasWayOut'
  BY <1>2 DEF Inv, BuildScreenHasWayOut
<1>11. Outcome(n)
  BY <1>2 DEF Outcome
<1> QED BY <1>2, <1>6, <1>7, <1>8, <1>9, <1>10, <1>11 DEF Inv

\* A run that goes on with new locals keeps the invariant.
LEMMA ContinueStep ==
  ASSUME Inv, NEW n \in DOMAIN runs, NEW q, NEW made \in SUBSET Bitmap,
         runs' = [runs EXCEPT ![n] = q], open' = open \cup made,
         UNCHANGED <<shown, building, owner, stage, buildError>>,
         UNCHANGED <<stored, choices, builds, index, mounted>>,
         grid' \in BOOLEAN, lost' = lost,
         \A b \in made : b.build = n,
         Images(q.frames) = Images(runs[n].frames) \cup made,
         RunAt(n, q, q.day - 1), q.phase # "grid",
         q.phase = "render" => Recorded(Look(q), q.day),
         q.asked = runs[n].asked, q.aborted = runs[n].aborted
  PROVE  Inv' /\ Outcome(n)
<1>1. /\ DOMAIN runs = {n} /\ owner = n /\ shown = Nothing
      /\ open = Images(runs[n].frames) \cup lost
      /\ Images(runs[n].frames) \cap lost = {}
      /\ n \in 1 .. builds /\ builds \in Nat
  BY OnlyRun
<1>2. /\ DOMAIN runs' = {n} /\ runs'[n] = q /\ shown' = Nothing
      /\ builds' = builds /\ index' = index
      /\ stored' = stored /\ mounted' = mounted /\ UNCHANGED choices
  BY <1>1
<1>3. lost \cap made = {}
  BY DEF Inv, LostIsOver
<1>4. Held' = Images(q.frames)
  BY <1>2, HeldFacts DEF Held, HeldBy, Images, Nothing
<1>5. BitmapsAccountedFor'
  BY <1>1, <1>3, <1>4 DEF BitmapsAccountedFor
<1>6. RunInv(n, q)'
  <2>1. RunAt(n, q, q.day - 1)'
    BY <1>2, RunStays
  <2>2. Recorded(Look(q), q.day)' <=> Recorded(Look(q), q.day)
    BY <1>2 DEF Recorded, Look
  <2>3. RunInv(n, runs[n])
    BY DEF Inv
  <2> QED BY <1>2, <2>1, <2>2, <2>3, AskedStays DEF RunInv
<1>7. TypeOK'
  <2>1. TypeOK
    BY DEF Inv
  <2>2. IsRun(q)
    BY DEF RunAt
  <2>3. open' \subseteq Bitmap /\ lost' \subseteq open'
    BY <2>1 DEF TypeOK
  <2> QED BY <1>2, <2>1, <2>2, <2>3 DEF TypeOK, choices
<1>8. Steady'
  BY <1>1, <1>2 DEF Inv, Steady, Nothing
<1>9. LostIsOver'
  BY <1>1, <1>2 DEF Inv, LostIsOver
<1>10. BuildScreenHasWayOut'
  BY <1>2 DEF Inv, BuildScreenHasWayOut
<1>11. Outcome(n)
  BY <1>2 DEF Outcome
<1> QED BY <1>2, <1>5, <1>6, <1>7, <1>8, <1>9, <1>10, <1>11 DEF Inv

\* A day is done: the run goes on, or the film it painted is on the screen.
LEMMA ProceedStep ==
  ASSUME Inv, NEW n \in DOMAIN runs, NEW r, NEW made \in SUBSET Bitmap,
         Proceeds(n, r, made), UNCHANGED OutsideRun, lost' = lost,
         \A b \in made : b.build = n,
         Images(r.frames) = Images(runs[n].frames) \cup made,
         RunAt(n, r, r.day), r.asked = runs[n].asked,
         ~r.aborted, ~runs[n].aborted
  PROVE  Inv' /\ Outcome(n)
<1>1. /\ DOMAIN runs = {n} /\ owner = n /\ shown = Nothing
      /\ open = Images(runs[n].frames) \cup lost
      /\ Images(runs[n].frames) \cap lost = {}
      /\ n \in 1 .. builds /\ builds \in Nat
  BY OnlyRun
<1>2. RunInv(n, runs[n])
  BY DEF Inv
<1>3. CASE ~BuildEnds(r)
  <2>1. /\ RunAt(n, Advanced(r), Advanced(r).day - 1)
        /\ Advanced(r).asked = r.asked /\ Advanced(r).frames = r.frames
        /\ Advanced(r).aborted = r.aborted /\ Advanced(r).phase = "await"
    BY <1>3, AdvanceFacts
  <2>2. /\ runs' = [runs EXCEPT ![n] = Advanced(r)] /\ open' = open \cup made
        /\ UNCHANGED <<shown, building, owner, stage, buildError>>
    BY <1>1, <1>3 DEF Proceeds
  <2>3. Advanced(r).aborted = runs[n].aborted
    BY <1>2, <2>1 DEF RunInv, RunAt, IsRun
  <2>4. /\ UNCHANGED <<stored, choices, builds, index, mounted>>
        /\ grid' \in BOOLEAN
    BY DEF OutsideRun, Inv, TypeOK
  <2> QED BY <2>1, <2>2, <2>3, <2>4, ContinueStep
<1>4. CASE BuildEnds(r)
  <2>1. /\ DOMAIN runs' = {} /\ building' = FALSE /\ owner' = 0
        /\ shown' = r.frames /\ builds' = builds /\ grid' = grid
        /\ stored' = stored /\ mounted' = mounted /\ UNCHANGED choices
        /\ index' = index
        /\ open' = open \cup made /\ stage' \in {"range", "play"}
        /\ buildError' \in {TRUE, buildError}
    BY <1>1, <1>4 DEF Proceeds, Finishes, Returned, Without, OutsideRun
  <2>2. Held' = Images(r.frames)
    BY <2>1, HeldFacts DEF Held, HeldBy, Images
  <2>3. lost \cap made = {}
    BY DEF Inv, LostIsOver
  <2>4. BitmapsAccountedFor'
    BY <1>1, <2>1, <2>2, <2>3 DEF BitmapsAccountedFor
  <2>5. LostIsOver'
    BY <2>1 DEF Inv, LostIsOver
  <2>6. mounted
    BY <1>2 DEF RunInv
  <2>8. Steady'
    BY <2>1, <2>6 DEF Steady, Nothing
  <2>9. TypeOK'
    <3>1. TypeOK
      BY DEF Inv
    <3>2. AreFrames(r.frames)
      BY DEF RunAt, IsRun
    <3>3. open' \subseteq Bitmap /\ lost' \subseteq open'
      BY <2>1, <3>1 DEF TypeOK
    <3>4. owner' \in 0 .. builds' /\ builds' \in 0 .. MaxBuilds
      BY <1>1, <2>1, <3>1 DEF TypeOK
    <3> QED BY <2>1, <3>1, <3>2, <3>3, <3>4 DEF TypeOK, choices
  <2>10. BuildScreenHasWayOut'
    BY <2>1 DEF BuildScreenHasWayOut
  <2>11. Outcome(n)
    <3>1. Pictures(r.frames) = Film(r.asked)
      BY <1>4, EndFacts
    <3>2. \A b \in Images(r.frames) : b.build = n
      BY DEF RunAt, Images
    <3> QED BY <2>1, <3>1, <3>2 DEF Outcome
  <2> QED BY <2>1, <2>4, <2>5, <2>8, <2>9, <2>10, <2>11 DEF Inv
<1> QED BY <1>3, <1>4

-----------------------------------------------------------------------------
(* The runner's steps                                                      *)

\* What the day in hand would be painted as is a bitmap like any other.
LEMMA MadeFacts ==
  ASSUME Inv, NEW n \in DOMAIN runs
  PROVE  LET r == runs[n] IN
         /\ Made(n, r) \subseteq Bitmap
         /\ \A b \in Made(n, r) : b.build = n /\ b.slot = <<r.look, r.day>>
         /\ Shows(Made(n, r)) = Painted(Look(r), r.day, r.asked.focus)
         /\ Made(n, r) \cap Images(r.frames) = {}
<1> DEFINE r == runs[n]
           made == Made(n, r)
<1>1. RunAt(n, r, r.day - 1) /\ n \in 1 .. MaxBuilds
  BY OnlyRun DEF Inv, RunInv
<1>2. /\ r.day \in Nat /\ r.look \in Nat /\ r.asked \in Request
      /\ r.look \in 1 .. Len(r.asked.looks) /\ r.asked.looks \in Seq(Toggles)
      /\ r.day \in Days /\ r.asked.focus \in Realm
      /\ <<r.look, r.day>> \in Slots
  <2>1. /\ r.day \in Nat /\ r.look \in Nat /\ r.asked \in Request
        /\ r.look \in 1 .. Len(r.asked.looks)
        /\ Len(r.asked.looks) \in 1 .. MaxClips + 1
        /\ r.day \in r.asked.first .. r.asked.last
    BY <1>1 DEF RunAt, IsRun
  <2>2. /\ r.asked.first \in Days /\ r.asked.last \in Days
        /\ r.asked.looks \in Seq(Toggles) /\ r.asked.focus \in Realm
    BY <2>1 DEF Request
  <2>5. LastDay \in Nat
    BY StudioAssumption
  <2>3. r.day \in Days
    BY <2>1, <2>2, <2>5 DEF Days
  <2>4. r.look \in 1 .. MaxClips + 1
    BY <2>1, StudioAssumption
  <2> QED BY <2>1, <2>2, <2>3, <2>4 DEF Slots
<1>3. Look(r) \in Toggles
  BY <1>2, ElementOfSeq DEF Look
<1>4. Painted(Look(r), r.day, r.asked.focus) \subseteq Picture
  <2>1. stored \in [Days -> Hashes \cup {NoFile}]
    BY StudioAssumption DEF Inv, TypeOK
  <2>2. stored[r.day] \in Hashes \cup {NoFile}
    BY <1>2, <2>1
  <2> QED BY <1>2, <1>3, <2>2 DEF Painted, Picture
<1>5. made \subseteq Bitmap
  BY <1>1, <1>2, <1>4 DEF Bitmap, Made
<1>6. \A b \in made : b.build = n /\ b.slot = <<r.look, r.day>>
  BY DEF Made
<1>7. Shows(made) = Painted(Look(r), r.day, r.asked.focus)
  <2> DEFINE frame(p) == [build |-> n, slot |-> <<r.look, r.day>>, shows |-> p]
             P == Painted(Look(r), r.day, r.asked.focus)
  <2>1. made = {frame(p) : p \in P}
    BY DEF Made
  <2>2. \A p : frame(p).shows = p
    OBVIOUS
  <2> HIDE DEF frame, P
  <2>3. Shows({frame(p) : p \in P}) = {frame(p).shows : p \in P}
    BY Zenon DEF Shows
  <2>4. {frame(p).shows : p \in P} = P
    BY <2>2
  <2> QED BY <2>1, <2>3, <2>4 DEF P
<1>8. <<r.look, r.day>> \notin DOMAIN r.frames
  BY <1>1, <1>2 DEF RunAt, Past
<1>9. \A b \in Images(r.frames) : b.slot \in DOMAIN r.frames
  BY <1>1 DEF RunAt, Images
<1> QED BY <1>5, <1>6, <1>7, <1>8, <1>9

\* A build at its first day has painted nothing yet, and its runner can begin.
LEMMA BeginFacts ==
  ASSUME NEW n, NEW r, RunAt(n, r, r.day - 1), r.look = 1,
         r.day = r.asked.first
  PROVE  /\ DOMAIN r.frames = {} /\ Images(r.frames) = {}
         /\ RunAt(n, Begun(r), Begun(r).day - 1)
         /\ Begun(r).asked = r.asked /\ Begun(r).look = r.look
         /\ Begun(r).day = r.day /\ Begun(r).frames = r.frames
         /\ Begun(r).aborted = r.aborted /\ Begun(r).phase = "await"
<1> DEFINE q == Begun(r)
<1>1. /\ RunAt(n, r, r.day - 1) /\ r.look = 1 /\ r.day = r.asked.first
  OBVIOUS
<1>2. /\ r.asked \in Request /\ r.asked.first \in Nat /\ r.asked.last \in Nat
      /\ r.asked.first >= 1 /\ r.asked.last <= LastDay /\ LastDay \in Nat
      /\ r \in [asked : Request, phase : {"grid", "await", "render"},
                look : Nat, day : Nat, loads : {r.loads},
                previous : SUBSET Nat, frames : {r.frames}, aborted : BOOLEAN]
  BY <1>1, StudioAssumption DEF RunAt, IsRun, Request, Days
<1>3. ASSUME NEW s \in DOMAIN Film(r.asked)
      PROVE  ~Past(r, r.day - 1, s)
  <2>1. /\ s[1] \in Int /\ s[2] \in Int /\ s[1] >= 1
        /\ s[2] >= r.asked.first
    BY <1>2, SlotPairs
  <2> QED BY <1>1, <1>2, <2>1 DEF Past
<1>4. DOMAIN r.frames = {}
  BY <1>1, <1>3 DEF RunAt
<1>5. Images(r.frames) = {}
  BY <1>4 DEF Images
<1>6. q = [r EXCEPT !.phase = "await", !.day = r.asked.first,
                    !.loads = FirstLoads(r.asked), !.previous = {}]
  BY DEF Begun
<1>7. /\ q.asked = r.asked /\ q.frames = r.frames /\ q.aborted = r.aborted
      /\ q.phase = "await" /\ q.look = r.look /\ q.day = r.day
      /\ q.previous = {} /\ q.loads = FirstLoads(r.asked)
      /\ q \in [asked : Request, phase : {"grid", "await", "render"},
                look : Nat, day : Nat, loads : {FirstLoads(r.asked)},
                previous : SUBSET Nat, frames : {r.frames},
                aborted : BOOLEAN]
  <2> HIDE DEF q
  <2> QED BY <1>1, <1>2, <1>6
<1>8. AreLoads(FirstLoads(r.asked))
  BY <1>2 DEF AreLoads, FirstLoads, Days
<1>9. IsRun(q)
  BY <1>1, <1>7, <1>8 DEF IsRun, RunAt
<1>10. RunAt(n, q, q.day - 1)
  <2> HIDE DEF q
  <2>1. \A s : Past(q, q.day - 1, s) <=> Past(r, r.day - 1, s)
    BY <1>7 DEF Past
  <2> QED BY <1>1, <1>7, <1>9, <2>1 DEF RunAt
<1> QED BY <1>4, <1>5, <1>7, <1>10

\* A build that waits for the grid can begin.
LEMMA GridFacts ==
  ASSUME Inv, NEW n \in DOMAIN runs, runs[n].phase = "grid"
  PROVE  /\ DOMAIN runs[n].frames = {} /\ Images(runs[n].frames) = {}
         /\ RunAt(n, Begun(runs[n]), Begun(runs[n]).day - 1)
         /\ Begun(runs[n]).asked = runs[n].asked
         /\ Begun(runs[n]).frames = runs[n].frames
         /\ Begun(runs[n]).aborted = runs[n].aborted
         /\ Begun(runs[n]).phase = "await"
<1> PICK r : r = runs[n]
  OBVIOUS
<1>1. RunAt(n, r, r.day - 1) /\ r.look = 1 /\ r.day = r.asked.first
  BY DEF Inv, RunInv
<1> QED BY <1>1, BeginFacts

\* A new field value the film does not look at.
LEMMA PhaseFacts ==
  ASSUME NEW n, NEW r, NEW k, RunAt(n, r, k), NEW q,
         \/ q = [r EXCEPT !.phase = "render"]
         \/ q = [r EXCEPT !.aborted = TRUE]
  PROVE  /\ RunAt(n, q, k) /\ q.asked = r.asked /\ q.look = r.look
         /\ q.day = r.day /\ q.frames = r.frames
         /\ q.previous = r.previous /\ q.loads = r.loads
         /\ q = [r EXCEPT !.phase = "render"] =>
              q.phase = "render" /\ q.aborted = r.aborted
         /\ q = [r EXCEPT !.aborted = TRUE] => q.phase = r.phase /\ q.aborted
<1>1. r \in [asked : Request, phase : {"grid", "await", "render"},
             look : Nat, day : Nat, loads : {r.loads},
             previous : SUBSET Nat, frames : {r.frames}, aborted : BOOLEAN]
  BY DEF RunAt, IsRun
<1>2. /\ q \in [asked : Request, phase : {"grid", "await", "render"},
                look : Nat, day : Nat, loads : {r.loads},
                previous : SUBSET Nat, frames : {r.frames}, aborted : BOOLEAN]
      /\ q.asked = r.asked /\ q.look = r.look /\ q.day = r.day
      /\ q.frames = r.frames /\ q.previous = r.previous /\ q.loads = r.loads
  BY <1>1
<1>3. IsRun(q)
  BY <1>2 DEF RunAt, IsRun
<1>4. \A s : Past(q, k, s) <=> Past(r, k, s)
  BY <1>2 DEF Past
<1>5. RunAt(n, q, k)
  BY <1>2, <1>3, <1>4 DEF RunAt
<1>6. q = [r EXCEPT !.phase = "render"] =>
        q.phase = "render" /\ q.aborted = r.aborted
  BY <1>1
<1>7. q = [r EXCEPT !.aborted = TRUE] => q.phase = r.phase /\ q.aborted
  BY <1>1
<1> QED BY <1>2, <1>5, <1>6, <1>7

\* A request that settles changes its answer and nothing else of its run.
LEMMA SettleFacts ==
  ASSUME NEW n, NEW r, NEW k, RunAt(n, r, k), NEW day \in DOMAIN r.loads,
         NEW result \in {"ok", "failed"}
  PROVE  LET q == Settled(r, day, result) IN
         /\ RunAt(n, q, k) /\ q.asked = r.asked /\ q.look = r.look
         /\ q.day = r.day /\ q.frames = r.frames /\ q.phase = r.phase
         /\ q.aborted = r.aborted
<1> DEFINE l == [r.loads EXCEPT ![day] = result]
           q == [r EXCEPT !.loads = l]
<1>1. AreLoads(l)
  BY DEF AreLoads, RunAt, IsRun
<1>2. r \in [asked : Request, phase : {"grid", "await", "render"},
             look : Nat, day : Nat, loads : {r.loads},
             previous : SUBSET Nat, frames : {r.frames}, aborted : BOOLEAN]
  BY DEF RunAt, IsRun
<1> HIDE DEF l
<1>3. /\ q \in [asked : Request, phase : {"grid", "await", "render"},
                look : Nat, day : Nat, loads : {l}, previous : SUBSET Nat,
                frames : {r.frames}, aborted : BOOLEAN]
      /\ q.asked = r.asked /\ q.look = r.look /\ q.day = r.day
      /\ q.frames = r.frames /\ q.phase = r.phase /\ q.aborted = r.aborted
      /\ q.previous = r.previous /\ q.loads = l
  BY <1>2
<1> HIDE DEF q
<1>4. IsRun(q)
  BY <1>1, <1>3 DEF IsRun, RunAt
<1>5. \A s : Past(q, k, s) <=> Past(r, k, s)
  BY <1>3 DEF Past
<1>6. RunAt(n, q, k)
  BY <1>3, <1>4, <1>5 DEF RunAt
<1>7. q = Settled(r, day, result)
  BY DEF q, l, Settled
<1> QED BY <1>3, <1>6, <1>7

\* No step of a run breaks the invariant.
LEMMA RunnerStep ==
  ASSUME Inv, NEW n \in DOMAIN runs, Runner(n)
  PROVE  Inv' /\ Outcome(n)
<1> DEFINE r == runs[n]
<1>1. RunInv(n, r) /\ RunAt(n, r, r.day - 1) /\ n = owner /\ n \in 1 .. MaxBuilds
  BY OnlyRun DEF Inv, RunInv
<1>2. /\ {} \in SUBSET Bitmap /\ lost = lost \cup {} /\ open = open \cup {}
      /\ r.aborted \in BOOLEAN /\ r.phase \in {"grid", "await", "render"}
  BY <1>1 DEF RunAt, IsRun
<1>0. UNCHANGED OutsideRun =>
         /\ UNCHANGED <<stored, choices, builds, index, mounted>>
         /\ grid' \in BOOLEAN
  BY DEF OutsideRun, Inv, TypeOK
<1>3. CASE Begin(n)
  <2>1. /\ DOMAIN r.frames = {} /\ Images(r.frames) = {}
        /\ RunAt(n, Begun(r), Begun(r).day - 1)
        /\ Begun(r).asked = r.asked /\ Begun(r).frames = r.frames
        /\ Begun(r).aborted = r.aborted /\ Begun(r).phase = "await"
    BY <1>3, GridFacts DEF Begin
  <2>2. CASE r.aborted
    <3>1. /\ Fails(n, Nothing, {}, TRUE) /\ grid' \in BOOLEAN
          /\ UNCHANGED <<stored, choices, builds, index, mounted>>
          /\ lost' = lost \cup {}
      BY <1>3, <2>2 DEF Begin
    <3>2. Images(Nothing) = {}
      BY HeldFacts
    <3> QED BY <1>2, <2>1, <3>1, <3>2, FailStep
  <2>3. CASE ~r.aborted
    <3>1. /\ runs' = [runs EXCEPT ![n] = Begun(r)] /\ open' = open \cup {}
          /\ UNCHANGED <<shown, building, owner, stage, buildError>>
          /\ UNCHANGED <<stored, choices, builds, index, mounted>>
          /\ grid' \in BOOLEAN /\ lost' = lost
      BY <1>3, <2>3 DEF Begin
    <3> HIDE DEF r
    <3> QED BY <1>2, <2>1, <3>1, ContinueStep DEF r
  <2> QED BY <2>2, <2>3
<1>4. CASE GridFails(n)
  <2>1. DOMAIN r.frames = {} /\ Images(r.frames) = {}
    BY <1>4, GridFacts DEF GridFails
  <2>2. PICK cancelled \in BOOLEAN : Fails(n, Nothing, {}, cancelled)
    BY <1>4 DEF GridFails
  <2>3. UNCHANGED OutsideRun /\ lost' = lost \cup {}
    BY <1>4 DEF GridFails
  <2>4. /\ Images(Nothing) \cup {} = Images(r.frames) \cup {}
        /\ Images(Nothing) \cap {} = {} /\ \A b \in {} : b.build = n
    BY <2>1, HeldFacts
  <2> HIDE DEF r
  <2> QED BY <1>0, <1>2, <2>2, <2>3, <2>4, FailStep DEF r
<1>5. CASE DayFails(n)
  <2>1. PICK cancelled \in BOOLEAN : Fails(n, r.frames, {}, cancelled)
    BY <1>2, <1>5 DEF DayFails
  <2>2. UNCHANGED OutsideRun /\ lost' = lost \cup {}
    BY <1>5 DEF DayFails
  <2> QED BY <1>0, <1>2, <2>1, <2>2, FailStep
<1>6. CASE SkipDay(n)
  <2> DEFINE t == Taken(r)
  <2>1. /\ RunAt(n, t, r.day - 1) /\ t.asked = r.asked /\ t.look = r.look
        /\ t.day = r.day /\ t.frames = r.frames /\ t.aborted = r.aborted
    BY <1>1, TakenFacts
  <2>2. /\ Proceeds(n, t, {}) /\ UNCHANGED OutsideRun /\ lost' = lost
        /\ ~Recorded(Look(r), r.day) /\ ~r.aborted
    BY <1>6 DEF SkipDay, Arrived
  <2> HIDE DEF t
  <2>3. RunAt(n, t, t.day)
    BY <2>1, <2>2, SkipFacts DEF Look
  <2>4. Images(t.frames) = Images(r.frames) \cup {}
    BY <2>1
  <2> QED BY <1>2, <2>1, <2>2, <2>3, <2>4, ProceedStep
<1>7. CASE ReuseDay(n)
  <2> DEFINE t == Taken(r)
             p == Pushed(t, Reused(r))
  <2>1. /\ RunAt(n, t, r.day - 1) /\ t.asked = r.asked /\ t.look = r.look
        /\ t.day = r.day /\ t.frames = r.frames /\ t.aborted = r.aborted
    BY <1>1, TakenFacts
  <2>0. CASE Fails(n, r.frames, {}, FALSE)
    <3>1. UNCHANGED OutsideRun /\ lost' = lost \cup {}
      BY <1>7 DEF ReuseDay
    <3> QED BY <1>0, <1>2, <2>0, <3>1, FailStep
  <2> SUFFICES ASSUME ~Fails(n, r.frames, {}, FALSE)
               PROVE  Inv' /\ Outcome(n)
    BY <2>0
  <2>2. /\ Proceeds(n, p, {}) /\ UNCHANGED OutsideRun /\ lost' = lost
        /\ Recorded(Look(r), r.day) /\ ~r.aborted /\ CanReuse(r)
    BY <1>7 DEF ReuseDay, Arrived
  <2>3. /\ Reused(r) \subseteq Images(r.frames) /\ Reused(r) \subseteq Bitmap
        /\ \A b \in Reused(r) : b.build = n /\ b.slot \in DOMAIN r.frames
        /\ Shows(Reused(r)) = Painted(Look(r), r.day, r.asked.focus)
    BY <1>1, <2>2, ReuseFacts
  <2> DEFINE image == Reused(r)
  <2> HIDE DEF t, image
  <2>4. /\ RunAt(n, t, t.day - 1) /\ Recorded(Look(t), t.day)
        /\ Fits(n, t, image)
    BY <2>1, <2>2, <2>3 DEF Look, image, Fits
  <2>5. /\ RunAt(n, Pushed(t, image), t.day)
        /\ Pushed(t, image).asked = t.asked /\ Pushed(t, image).day = t.day
        /\ Pushed(t, image).aborted = t.aborted
        /\ Images(Pushed(t, image).frames) = Images(t.frames) \cup image
    BY <2>4, PushFacts
  <2>6. /\ RunAt(n, p, t.day) /\ p.asked = t.asked /\ p.day = t.day
        /\ p.aborted = t.aborted
        /\ Images(p.frames) = Images(t.frames) \cup Reused(r)
    BY <2>5 DEF image
  <2> HIDE DEF p
  <2>7. Images(p.frames) = Images(r.frames) \cup {}
    BY <2>1, <2>3, <2>6
  <2> QED BY <1>2, <2>1, <2>2, <2>6, <2>7, ProceedStep
<1>8. CASE RenderDay(n)
  <2> DEFINE t == Taken(r)
             q == [t EXCEPT !.phase = "render"]
  <2>1. /\ RunAt(n, t, r.day - 1) /\ t.asked = r.asked /\ t.look = r.look
        /\ t.day = r.day /\ t.frames = r.frames /\ t.aborted = r.aborted
    BY <1>1, TakenFacts
  <2>2. /\ runs' = [runs EXCEPT ![n] = q] /\ open' = open \cup {}
        /\ UNCHANGED <<shown, building, owner, stage, buildError>>
        /\ UNCHANGED OutsideRun /\ lost' = lost /\ Recorded(Look(r), r.day)
    BY <1>8 DEF RenderDay, OutsideRun, choices
  <2> HIDE DEF t
  <2>3. /\ RunAt(n, q, r.day - 1) /\ q.asked = t.asked /\ q.look = t.look
        /\ q.day = t.day /\ q.frames = t.frames /\ q.phase = "render"
        /\ q.aborted = t.aborted
    BY <2>1, PhaseFacts
  <2> HIDE DEF q
  <2>4. Recorded(Look(q), q.day)
    BY <2>1, <2>2, <2>3 DEF Look
  <2>5. Images(q.frames) = Images(r.frames) \cup {}
    BY <2>1, <2>3
  <2>6. \A b \in {} : b.build = n
    OBVIOUS
  <2>7. q.day - 1 = r.day - 1 /\ q.phase # "grid"
    BY <2>1, <2>3
  <2>8. RunAt(n, q, q.day - 1) /\ q.asked = r.asked /\ q.aborted = r.aborted
    BY <2>1, <2>3
  <2> HIDE DEF r
  <2> QED BY <1>0, <1>2, <2>2, <2>4, <2>5, <2>6, <2>7, <2>8, ContinueStep DEF r
<1>9. CASE PaintDay(n)
  <2> DEFINE made == Made(n, r)
             p == Pushed(r, made)
  <2>1. /\ r.phase = "render" /\ UNCHANGED OutsideRun /\ lost' = lost \cup {}
        /\ IF r.aborted THEN Fails(n, p.frames, made, TRUE)
                        ELSE Proceeds(n, p, made)
    BY <1>9 DEF PaintDay
  <2>2. /\ made \subseteq Bitmap
        /\ \A b \in made : b.build = n /\ b.slot = <<r.look, r.day>>
        /\ Shows(made) = Painted(Look(r), r.day, r.asked.focus)
    BY MadeFacts
  <2>3. Recorded(Look(r), r.day)
    BY <1>1, <2>1 DEF RunInv
  <2> HIDE DEF made
  <2>7. Fits(n, r, made) /\ RunAt(n, r, r.day - 1)
    BY <1>1, <2>2 DEF Fits
  <2> HIDE DEF r
  <2>4. /\ RunAt(n, p, r.day) /\ p.asked = r.asked /\ p.day = r.day
        /\ p.aborted = r.aborted
        /\ Images(p.frames) = Images(r.frames) \cup made
    BY <2>3, <2>7, PushFacts
  <2> USE DEF r
  <2> HIDE DEF p
  <2>5. CASE r.aborted
    BY <1>0, <1>2, <2>1, <2>2, <2>4, <2>5, FailStep
  <2>6. CASE ~r.aborted
    BY <1>2, <2>1, <2>2, <2>4, <2>6, ProceedStep
  <2> QED BY <2>5, <2>6
<1>10. CASE PaintFails(n)
  <2> DEFINE m == Made(n, r)
  <2>1. /\ m \subseteq Bitmap
        /\ \A b \in m : b.build = n /\ b.slot = <<r.look, r.day>>
        /\ m \cap Images(r.frames) = {}
    BY MadeFacts
  <2>2. PICK made \in {{}, m} : /\ Fails(n, r.frames, made, FALSE)
                               /\ lost' = lost \cup made
    BY <1>10 DEF PaintFails
  <2>3. UNCHANGED OutsideRun
    BY <1>10 DEF PaintFails
  <2> HIDE DEF m
  <2>4. made \in SUBSET Bitmap /\ made \in SUBSET made
        /\ (\A b \in made : b.build = n) /\ Images(r.frames) \cap made = {}
    BY <2>1, <2>2
  <2> QED BY <1>0, <2>2, <2>3, <2>4, FailStep
<1>11. CASE \E day \in Days : Settle(n, day)
  <2>1. PICK day \in Days : Settle(n, day)
    BY <1>11
  <2>2. PICK result \in {"ok", "failed"} :
               runs' = [runs EXCEPT ![n] = Settled(r, day, result)]
    BY <2>1 DEF Settle
  <2> DEFINE q == Settled(r, day, result)
  <2>3. /\ runs' = [runs EXCEPT ![n] = q] /\ open' = open \cup {}
        /\ UNCHANGED <<shown, building, owner, stage, buildError>>
        /\ UNCHANGED OutsideRun /\ lost' = lost /\ day \in DOMAIN r.loads
    BY <2>1, <2>2 DEF Settle, OutsideRun, choices
  <2>4. /\ RunAt(n, q, r.day - 1) /\ q.asked = r.asked /\ q.look = r.look
        /\ q.day = r.day /\ q.frames = r.frames /\ q.phase = r.phase
        /\ q.aborted = r.aborted
    BY <1>1, <2>3, SettleFacts
  <2> HIDE DEF q
  <2>5. /\ q.phase # "grid"
        /\ q.phase = "render" => Recorded(Look(q), q.day)
    BY <1>1, <2>3, <2>4 DEF RunInv, Look
  <2>6. Images(q.frames) = Images(r.frames) \cup {}
    BY <2>4
  <2> QED BY <1>0, <1>2, <2>3, <2>4, <2>5, <2>6, ContinueStep
<1> QED BY <1>3, <1>4, <1>5, <1>6, <1>7, <1>8, <1>9, <1>10, <1>11 DEF Runner

-----------------------------------------------------------------------------
(* The visitor's steps                                                     *)

\* With no build alive, the screen holds every bitmap that is held.
LEMMA Quiet ==
  ASSUME Inv, DOMAIN runs = {}
  PROVE  open = Images(shown) \cup lost /\ Images(shown) \cap lost = {}
<1>1. HeldBy(shown, runs) = Images(shown)
  BY HeldFacts
<1> QED BY <1>1 DEF Inv, BitmapsAccountedFor, Held

\* A step that leaves the builds alone, with the choices free to move while
\* none is alive, and the screen to go dark.
LEMMA QuietStep ==
  ASSUME Inv, DOMAIN runs = {}, TypeOK',
         UNCHANGED <<stored, building, runs, builds, lost, mounted>>,
         Discards \/ UNCHANGED <<shown, open>>,
         mounted' /\ stage' = "build" => buildError'
  PROVE  Inv'
<1>1. open = Images(shown) \cup lost /\ Images(shown) \cap lost = {}
  BY Quiet
<1>2. /\ stored' = stored /\ building' = building /\ runs' = runs
      /\ builds' = builds /\ lost' = lost /\ mounted' = mounted
  OBVIOUS
<1>3. open' = Images(shown') \cup lost' /\ Images(shown') \cap lost' = {}
  <2>1. CASE Discards
    BY <1>1, <1>2, <2>1, HeldFacts DEF Discards
  <2>2. CASE UNCHANGED <<shown, open>>
    BY <1>1, <1>2, <2>2
  <2> QED BY <2>1, <2>2
<1>4. Held' = Images(shown')
  BY <1>2 DEF Held, HeldBy, Images
<1>5. BitmapsAccountedFor'
  BY <1>3, <1>4 DEF BitmapsAccountedFor
<1>6. Steady'
  <2>1. CASE Discards
    BY <1>2, <2>1 DEF Inv, Steady, Discards, Nothing
  <2>2. CASE UNCHANGED <<shown, open>>
    BY <1>2, <2>2 DEF Inv, Steady
  <2> QED BY <2>1, <2>2
<1>7. LostIsOver'
  BY <1>2 DEF Inv, LostIsOver
<1>8. BuildScreenHasWayOut'
  BY DEF BuildScreenHasWayOut
<1> QED BY <1>2, <1>5, <1>6, <1>7, <1>8 DEF Inv

\* Frames that go leave the state well formed.
LEMMA DiscardTypes ==
  ASSUME TypeOK, BitmapsAccountedFor, Discards
  PROVE  open' \subseteq Bitmap /\ lost \subseteq open' /\ AreFrames(shown')
<1>1. Images(shown) \cap lost = {}
  BY DEF BitmapsAccountedFor, Held, HeldBy
<1> QED BY <1>1 DEF TypeOK, Discards, AreFrames, Nothing

\* A choice the panels offer keeps the invariant.
LEMMA ChooseStep ==
  ASSUME Inv, mounted, stage \in {"compose", "range"},
         NEW d \in Toggles, NEW c \in Seq(Toggles), Len(c) <= MaxClips,
         NEW f \in Realm, NEW g \in Ranges, Choose(d, c, f, g)
  PROVE  Inv'
<1>1. DOMAIN runs = {}
  BY DEF Inv, Steady
<1>2. /\ draft' = d /\ clips' = c /\ focus' = f /\ range' = g
      /\ UNCHANGED <<stored, stage, building, buildError, grid, runs, owner,
                     builds, lost, index, mounted>>
      /\ Discards \/ UNCHANGED <<shown, open>>
  BY DEF Choose
<1>3. TypeOK'
  <2>1. TypeOK /\ BitmapsAccountedFor
    BY DEF Inv
  <2>2. open' \subseteq Bitmap /\ lost \subseteq open' /\ AreFrames(shown')
    <3>1. CASE Discards
      BY <2>1, <3>1, DiscardTypes
    <3>2. CASE UNCHANGED <<shown, open>>
      BY <2>1, <3>2 DEF TypeOK
    <3> QED BY <1>2, <3>1, <3>2
  <2> QED BY <1>1, <1>2, <2>1, <2>2 DEF TypeOK
<1>4. ~(mounted' /\ stage' = "build")
  BY <1>2
<1> QED BY <1>1, <1>2, <1>3, <1>4, QuietStep

\* Looks the panels queue, drop and reorder are looks again.
LEMMA QueueFacts ==
  ASSUME TypeOK
  PROVE  /\ draft # "off" /\ Len(clips) < MaxClips =>
              /\ Append(clips, draft) \in Seq(Toggles)
              /\ Len(Append(clips, draft)) <= MaxClips
         /\ \A k \in DOMAIN clips :
              LET left == SubSeq(clips, 1, k - 1) \o
                          SubSeq(clips, k + 1, Len(clips))
              IN left \in Seq(Toggles) /\ Len(left) <= MaxClips
         /\ \A k \in DOMAIN clips : k + 1 \in DOMAIN clips =>
              LET moved == [clips EXCEPT ![k] = clips[k + 1],
                                         ![k + 1] = clips[k]]
              IN moved \in Seq(Toggles) /\ Len(moved) <= MaxClips
<1>1. /\ clips \in Seq(Toggles) /\ Len(clips) \in Nat /\ draft \in Toggles
      /\ Len(clips) <= MaxClips /\ MaxClips \in Nat
      /\ DOMAIN clips = 1 .. Len(clips)
  BY StudioAssumption DEF TypeOK
<1>2. draft # "off" /\ Len(clips) < MaxClips =>
              /\ Append(clips, draft) \in Seq(Toggles)
              /\ Len(Append(clips, draft)) <= MaxClips
  BY <1>1, AppendProperties
<1>3. ASSUME NEW k \in DOMAIN clips
      PROVE  LET left == SubSeq(clips, 1, k - 1) \o
                         SubSeq(clips, k + 1, Len(clips))
             IN left \in Seq(Toggles) /\ Len(left) <= MaxClips
  <2> DEFINE a == SubSeq(clips, 1, k - 1)
             b == SubSeq(clips, k + 1, Len(clips))
  <2>1. a \in Seq(Toggles) /\ Len(a) = k - 1
    BY <1>1, SubSeqProperties
  <2>2. b \in Seq(Toggles) /\ Len(b) = Len(clips) - k
    BY <1>1, SubSeqProperties
  <2> HIDE DEF a, b
  <2>3. a \o b \in Seq(Toggles) /\ Len(a \o b) = Len(a) + Len(b)
    BY <2>1, <2>2, ConcatProperties
  <2>4. Len(a \o b) <= MaxClips
    BY <1>1, <2>1, <2>2, <2>3
  <2> QED BY <2>3, <2>4 DEF a, b
<1>4. ASSUME NEW k \in DOMAIN clips, k + 1 \in DOMAIN clips
      PROVE  LET moved == [clips EXCEPT ![k] = clips[k + 1],
                                        ![k + 1] = clips[k]]
             IN moved \in Seq(Toggles) /\ Len(moved) <= MaxClips
  <2> DEFINE moved == [clips EXCEPT ![k] = clips[k + 1], ![k + 1] = clips[k]]
  <2>1. clips \in [1 .. Len(clips) -> Toggles]
    BY <1>1
  <2>2. moved \in [1 .. Len(clips) -> Toggles]
    BY <1>1, <1>4, <2>1
  <2> HIDE DEF moved
  <2>3. moved \in Seq(Toggles) /\ Len(moved) = Len(clips)
    BY <1>1, <2>2, SeqDef
  <2> QED BY <1>1, <2>3 DEF moved
<1> QED BY <1>2, <1>3, <1>4

\* What is asked for is a request a build can take.
LEMMA AskedFacts ==
  ASSUME TypeOK
  PROVE  Asked \in Request /\ Len(Asked.looks) \in 1 .. MaxClips + 1
<1> DEFINE l == LooksOf(draft, clips)
<1>1. /\ draft \in Toggles /\ clips \in Seq(Toggles) /\ Len(clips) <= MaxClips
      /\ MaxClips \in Nat /\ focus \in Realm /\ range \in Days \X Days
  BY StudioAssumption DEF TypeOK
<1>2. l \in Seq(Toggles) /\ Len(l) \in 1 .. MaxClips + 1
  <2>1. CASE clips = <<>>
    <3>1. l = <<draft>>
      BY <2>1 DEF LooksOf
    <3>2. <<draft>> \in Seq(Toggles) /\ Len(<<draft>>) = 1
      BY <1>1
    <3> QED BY <1>1, <3>1, <3>2
  <2>2. CASE clips # <<>>
    <3>1. l = clips
      BY <2>2 DEF LooksOf
    <3>2. Len(clips) \in Nat \ {0}
      BY <1>1, <2>2, EmptySeq
    <3> QED BY <1>1, <3>1, <3>2
  <2> QED BY <2>1, <2>2
<1>3. ActiveFocus(draft, clips, focus) \in Realm
  BY <1>1 DEF ActiveFocus, Realm
<1>4. range[1] \in Days /\ range[2] \in Days
  BY <1>1
<1> HIDE DEF l
<1>5. Asked = [looks |-> l, focus |-> ActiveFocus(draft, clips, focus),
               first |-> range[1], last |-> range[2]]
  BY DEF Asked, l
<1> QED BY <1>2, <1>3, <1>4, <1>5 DEF Request

\* A new build is at the beginning of the film, whether or not it has to wait
\* for the grid.
LEMMA NewRunFacts ==
  ASSUME NEW n, NEW a \in Request, a.first <= a.last,
         Len(a.looks) \in 1 .. MaxClips + 1
  PROVE  /\ RunAt(n, NewRun(a), NewRun(a).day - 1)
         /\ NewRun(a).asked = a /\ NewRun(a).look = 1
         /\ NewRun(a).day = a.first /\ NewRun(a).phase \in {"grid", "await"}
         /\ NewRun(a).phase = "grid" => NewRun(a).loads = Nothing
         /\ DOMAIN NewRun(a).frames = {} /\ NewRun(a).aborted = FALSE
<1> DEFINE q == [asked |-> a, phase |-> "grid", look |-> 1, day |-> a.first,
                 loads |-> Nothing, previous |-> {}, frames |-> Nothing,
                 aborted |-> FALSE]
<1>0. NewRun(a) \in {q, Begun(q)}
  BY DEF NewRun
<1>1. a.first \in Nat /\ a.last \in Nat
  BY DEF Request, Days
<1>2. /\ q.asked = a /\ q.look = 1 /\ q.day = a.first /\ q.phase = "grid"
      /\ q.loads = Nothing /\ q.frames = Nothing /\ q.previous = {}
      /\ q.aborted = FALSE
      /\ q \in [asked : Request, phase : {"grid", "await", "render"},
                look : Nat, day : Nat, loads : {Nothing},
                previous : SUBSET Nat, frames : {Nothing}, aborted : BOOLEAN]
  BY <1>1
<1> HIDE DEF q
<1>3. AreLoads(Nothing) /\ AreFrames(Nothing) /\ DOMAIN Nothing = {}
  BY DEF AreLoads, AreFrames, Nothing
<1>4. IsRun(q)
  BY <1>2, <1>3 DEF IsRun
<1>5. ASSUME NEW s \in DOMAIN Film(a)
      PROVE  ~Past(q, q.day - 1, s)
  <2>1. /\ s[1] \in Int /\ s[2] \in Int /\ s[1] >= 1 /\ s[2] >= a.first
    BY <1>1, SlotPairs
  <2> QED BY <1>1, <1>2, <2>1 DEF Past
<1>6. RunAt(n, q, q.day - 1)
  BY <1>1, <1>2, <1>3, <1>4, <1>5 DEF RunAt
<1>7. /\ DOMAIN q.frames = {} /\ RunAt(n, Begun(q), Begun(q).day - 1)
      /\ Begun(q).asked = a /\ Begun(q).look = 1 /\ Begun(q).day = a.first
      /\ Begun(q).frames = q.frames /\ Begun(q).aborted = FALSE
      /\ Begun(q).phase = "await"
  <2>1. q.look = 1 /\ q.day = q.asked.first
    BY <1>2
  <2>2. /\ DOMAIN q.frames = {} /\ RunAt(n, Begun(q), Begun(q).day - 1)
        /\ Begun(q).asked = q.asked /\ Begun(q).look = q.look
        /\ Begun(q).day = q.day /\ Begun(q).frames = q.frames
        /\ Begun(q).aborted = q.aborted /\ Begun(q).phase = "await"
    BY <1>6, <2>1, BeginFacts
  <2> QED BY <1>2, <2>2
<1>8. CASE NewRun(a) = q
  BY <1>2, <1>6, <1>7, <1>8
<1>9. CASE NewRun(a) = Begun(q)
  BY <1>7, <1>9
<1> QED BY <1>0, <1>8, <1>9

\* Aborting the run at hand leaves it where it stands.
LEMMA AbortFacts ==
  ASSUME Inv, runs' = Aborted, UNCHANGED <<stored, owner, builds>>,
         mounted' => mounted /\ Asked' = Asked,
         NEW n \in DOMAIN runs
  PROVE  /\ n \in DOMAIN runs' /\ runs'[n].frames = runs[n].frames
         /\ RunInv(n, runs[n])'
<1> PICK r : r = runs[n]
  OBVIOUS
<1> PICK q : q = [r EXCEPT !.aborted = TRUE]
  OBVIOUS
<1>1. RunInv(n, r) /\ RunAt(n, r, r.day - 1) /\ n = owner
  BY DEF Inv, RunInv
<1>2. runs'[n] = q /\ n \in DOMAIN runs'
  BY <1>1 DEF Aborted
<1>3. /\ RunAt(n, q, r.day - 1) /\ q.asked = r.asked /\ q.look = r.look
      /\ q.day = r.day /\ q.frames = r.frames /\ q.phase = r.phase
      /\ q.loads = r.loads /\ q.aborted
  BY <1>1, PhaseFacts
<1>4. RunAt(n, q, q.day - 1)'
  <2>1. RunAt(n, q, q.day - 1)
    BY <1>3
  <2>2. stored' = stored
    OBVIOUS
  <2> QED BY <2>1, <2>2, RunStays
<1>5. Recorded(Look(q), q.day)' <=> Recorded(Look(r), r.day)
  BY <1>3 DEF Recorded, Look
<1>6. RunInv(n, q)'
  BY <1>1, <1>3, <1>4, <1>5 DEF RunInv
<1>7. RunInv(n, runs[n])'
  BY <1>2, <1>6
<1> QED BY <1>2, <1>3, <1>7

\* Aborting leaves the bitmaps held by a run where they are.
LEMMA AbortStep ==
  ASSUME Inv, runs' = Aborted, UNCHANGED <<stored, owner, builds>>,
         mounted' => mounted /\ Asked' = Asked /\ stage' = stage,
         UNCHANGED <<building, buildError, lost>>,
         \/ Discards
         \/ UNCHANGED <<shown, open>> /\ mounted',
         draft' \in Toggles /\ clips' \in Seq(Toggles),
         Len(clips') <= MaxClips /\ focus' \in Realm /\ range' \in Ranges,
         stage' = stage /\ grid' = grid /\ mounted' \in BOOLEAN,
         index' \in {"ready", "loading"}
  PROVE  Inv'
<1>1. DOMAIN runs' = DOMAIN runs
  BY DEF Aborted
<1>2. \A n \in DOMAIN runs' : RunInv(n, runs[n])'
  BY <1>1, AbortFacts
<1>3. TypeOK /\ BitmapsAccountedFor
  BY DEF Inv
<1>4. open' \subseteq Bitmap /\ lost' \subseteq open' /\ AreFrames(shown')
  <2>1. CASE Discards
    BY <1>3, <2>1, DiscardTypes
  <2>2. CASE UNCHANGED <<shown, open>>
    BY <1>3, <2>2 DEF TypeOK
  <2> QED BY <2>1, <2>2
<1>5. TypeOK'
  <2>1. \A n \in DOMAIN runs' : IsRun(runs[n])'
    BY <1>2 DEF RunInv, RunAt
  <2> QED BY <1>3, <1>4, <2>1 DEF TypeOK
<1>6. Steady'
  <2>1. Steady
    BY DEF Inv
  <2>2. CASE Discards
    BY <1>1, <2>1, <2>2 DEF Steady, Discards, Nothing
  <2>3. CASE UNCHANGED <<shown, open>> /\ mounted'
    BY <1>1, <2>1, <2>3 DEF Steady
  <2> QED BY <2>2, <2>3
<1>7. BitmapsAccountedFor'
  <2>1. CASE DOMAIN runs = {}
    <3>1. open = Images(shown) \cup lost /\ Images(shown) \cap lost = {}
      BY <2>1, Quiet
    <3>2. open' = Images(shown') \cup lost' /\ Images(shown') \cap lost' = {}
      BY <3>1, HeldFacts DEF Discards
    <3>3. Held' = Images(shown')
      BY <1>1, <2>1 DEF Held, HeldBy, Images
    <3> QED BY <3>2, <3>3 DEF BitmapsAccountedFor
  <2>2. CASE DOMAIN runs # {}
    <3>1. PICK n \in DOMAIN runs : TRUE
      BY <2>2
    <3>2. /\ DOMAIN runs = {n} /\ shown = Nothing
          /\ open = Images(runs[n].frames) \cup lost
          /\ Images(runs[n].frames) \cap lost = {}
      BY OnlyRun
    <3>3. runs'[n].frames = runs[n].frames
      BY AbortFacts
    <3>4. shown' = Nothing /\ open' = open
      BY <3>2, HeldFacts DEF Discards
    <3>5. Held' = Images(runs[n].frames)
      BY <1>1, <3>2, <3>3, <3>4 DEF Held, HeldBy, Images, Nothing
    <3> QED BY <3>2, <3>4, <3>5 DEF BitmapsAccountedFor
  <2> QED BY <2>1, <2>2
<1>8. LostIsOver'
  BY <1>1 DEF Inv, LostIsOver
<1>9. BuildScreenHasWayOut'
  BY DEF Inv, BuildScreenHasWayOut
<1> QED BY <1>1, <1>2, <1>5, <1>6, <1>7, <1>8, <1>9 DEF Inv

\* No step of the visitor breaks the invariant.
LEMMA VisitorStep ==
  ASSUME Inv, Visitor
  PROVE  Inv'
<1>1. TypeOK /\ BitmapsAccountedFor /\ Steady
  BY DEF Inv
<1>2. mounted /\ stage # "build" => DOMAIN runs = {}
  BY <1>1 DEF Steady
<1>3. /\ draft \in Toggles /\ clips \in Seq(Toggles) /\ Len(clips) <= MaxClips
      /\ focus \in Realm /\ range \in Ranges
  BY <1>1 DEF TypeOK
<1>4. ASSUME NEW t \in Toggles, ToggleLayer(t)
      PROVE  Inv'
  BY <1>3, <1>4, ChooseStep DEF ToggleLayer, Composing
<1>5. CASE AddClip
  <2>1. /\ Append(clips, draft) \in Seq(Toggles)
        /\ Len(Append(clips, draft)) <= MaxClips
    BY <1>1, <1>5, QueueFacts DEF AddClip
  <2> QED BY <1>3, <1>5, <2>1, ChooseStep DEF AddClip, Composing
<1>6. ASSUME NEW k \in DOMAIN clips, RemoveClip(k)
      PROVE  Inv'
  <2> DEFINE left == SubSeq(clips, 1, k - 1) \o SubSeq(clips, k + 1, Len(clips))
  <2>1. left \in Seq(Toggles) /\ Len(left) <= MaxClips
    BY <1>1, QueueFacts
  <2>2. mounted /\ stage = "compose" /\ Choose(draft, left, focus, range)
    BY <1>6 DEF RemoveClip, Composing
  <2> HIDE DEF left
  <2> QED BY <1>3, <2>1, <2>2, ChooseStep
<1>7. ASSUME NEW k \in DOMAIN clips, MoveClip(k)
      PROVE  Inv'
  <2> DEFINE moved == [clips EXCEPT ![k] = clips[k + 1], ![k + 1] = clips[k]]
  <2>1. moved \in Seq(Toggles) /\ Len(moved) <= MaxClips
    BY <1>1, <1>7, QueueFacts DEF MoveClip
  <2>2. mounted /\ stage = "compose" /\ Choose(draft, moved, focus, range)
    BY <1>7 DEF MoveClip, Composing
  <2> HIDE DEF moved
  <2> QED BY <1>3, <2>1, <2>2, ChooseStep
<1>8. ASSUME NEW f \in {{}} \cup {{r} : r \in Realms}, PickFocus(f)
      PROVE  Inv'
  <2>1. f \in Realm
    BY DEF Realm
  <2> QED BY <1>3, <1>8, <2>1, ChooseStep DEF PickFocus, Composing
<1>9. ASSUME NEW g \in Ranges, PickRange(g)
      PROVE  Inv'
  BY <1>3, <1>9, ChooseStep DEF PickRange
<1>10. ASSUME NEW next \in {"compose", "range", "play"}, GoTo(next)
       PROVE  Inv'
  <2>1. ~building /\ DOMAIN runs = {}
    BY <1>1, <1>10 DEF GoTo, Steady
  <2>2. /\ UNCHANGED <<stored, choices, shown, building, buildError, grid,
                       runs, owner, builds, open, lost, index, mounted>>
        /\ stage' = next
    BY <1>10 DEF GoTo
  <2>3. TypeOK'
    BY <1>1, <2>1, <2>2 DEF TypeOK, choices
  <2> QED BY <2>1, <2>2, <2>3, QuietStep
<1>11. CASE StartOver
  <2>1. /\ UNCHANGED <<stored, choices, building, buildError, grid, runs,
                       owner, builds, lost, index, mounted>>
        /\ stage' = "compose" /\ Discards /\ mounted /\ stage = "play"
    BY <1>11 DEF StartOver
  <2>2. DOMAIN runs = {}
    BY <1>2, <2>1
  <2>3. TypeOK'
    BY <1>1, <2>1, <2>2, DiscardTypes DEF TypeOK, choices
  <2> QED BY <2>1, <2>2, <2>3, QuietStep
<1>12. CASE BackToDays
  <2>1. /\ UNCHANGED <<stored, choices, shown, building, buildError, grid,
                       runs, owner, builds, open, lost, index, mounted>>
        /\ stage' = "range" /\ mounted /\ stage = "build" /\ buildError
    BY <1>12 DEF BackToDays
  <2>2. DOMAIN runs = {}
    BY <1>1, <2>1 DEF Steady
  <2>3. TypeOK'
    BY <1>1, <2>1, <2>2 DEF TypeOK, choices
  <2> QED BY <2>1, <2>2, <2>3, QuietStep
<1>13. CASE CancelBuild
  <2>1. /\ runs' = Aborted
        /\ UNCHANGED <<stored, choices, stage, shown, building, buildError,
                       grid, owner, builds, open, lost, index, mounted>>
        /\ mounted
    BY <1>13 DEF CancelBuild
  <2>2. Asked' = Asked
    BY <2>1, AskedStays
  <2> QED BY <1>1, <1>3, <2>1, <2>2, AbortStep DEF TypeOK, choices
<1>14. CASE Leave
  <2>1. /\ runs' = Aborted /\ Discards /\ ~mounted'
        /\ draft' = "off" /\ clips' = <<>> /\ focus' = {}
        /\ range' = Default /\ index' = "ready"
        /\ UNCHANGED <<stored, stage, building, buildError, grid, owner,
                       builds, lost>>
    BY <1>14 DEF Leave
  <2>2. /\ draft' \in Toggles /\ clips' \in Seq(Toggles)
        /\ Len(clips') <= MaxClips /\ focus' \in Realm /\ range' \in Ranges
    BY <2>1, StudioAssumption DEF Realm
  <2>3. mounted' \in BOOLEAN
    BY <1>14 DEF Leave
  <2> QED BY <2>1, <2>2, <2>3, AbortStep
<1>15. CASE StartBuild
  <2>1. /\ mounted /\ stage = "range" /\ ~BlockReason /\ builds < MaxBuilds
        /\ builds' = builds + 1 /\ building' = TRUE /\ owner' = builds + 1
        /\ runs' = [m \in DOMAIN runs \cup {builds + 1} |->
                      IF m = builds + 1 THEN NewRun(Asked) ELSE runs[m]]
        /\ Discards /\ stage' = "build" /\ buildError' = FALSE
        /\ UNCHANGED <<stored, choices, grid, lost, index, mounted>>
    BY <1>15 DEF StartBuild
  <2>2. DOMAIN runs = {} /\ builds \in Nat /\ MaxBuilds \in Nat
    BY <1>1, <1>2, <2>1, StudioAssumption DEF TypeOK
  <2> PICK n : n = builds + 1
    OBVIOUS
  <2> PICK a : a = Asked
    OBVIOUS
  <2>3. Asked' = a /\ a \in Request /\ Len(a.looks) \in 1 .. MaxClips + 1
    BY <1>1, <2>1, AskedStays, AskedFacts
  <2>4. a.first <= a.last
    BY <2>1, <2>3 DEF BlockReason, Request, Days
  <2> PICK q : q = NewRun(a)
    OBVIOUS
  <2>5. /\ RunAt(n, q, q.day - 1) /\ q.asked = a /\ q.look = 1
        /\ q.day = a.first /\ q.phase \in {"grid", "await"}
        /\ q.phase = "grid" => q.loads = Nothing
        /\ DOMAIN q.frames = {} /\ q.aborted = FALSE
    BY <2>3, <2>4, NewRunFacts
  <2>6. DOMAIN runs' = {n} /\ runs'[n] = q
    BY <2>1, <2>2
  <2>7. RunInv(n, q)'
    <3>1. stored' = stored
      BY <2>1
    <3>2. RunAt(n, q, q.day - 1)'
      BY <2>5, <3>1, RunStays
    <3>3. q.phase = "grid" => DOMAIN q.loads = {}
      BY <2>5 DEF Nothing
    <3>4. n = owner' /\ n \in 1 .. builds'
      BY <2>1, <2>2
    <3> QED BY <2>1, <2>3, <2>5, <3>2, <3>3, <3>4 DEF RunInv
  <2>8. \A m \in DOMAIN runs' : RunInv(m, runs[m])'
    BY <2>6, <2>7
  <2>9. open' \subseteq Bitmap /\ lost \subseteq open' /\ AreFrames(shown')
    BY <1>1, <2>1, DiscardTypes
  <2>10. TypeOK'
    <3>1. IsRun(q)
      BY <2>5 DEF RunAt
    <3>2. /\ builds' \in 0 .. MaxBuilds /\ owner' \in 0 .. builds'
          /\ stage' \in {"compose", "range", "build", "play"}
          /\ building' \in BOOLEAN /\ buildError' \in BOOLEAN
      <4>1. /\ builds < MaxBuilds /\ builds' = builds + 1
            /\ owner' = builds + 1 /\ stage' = "build" /\ building' = TRUE
            /\ buildError' = FALSE
        BY <2>1
      <4>2. builds' \in 0 .. MaxBuilds /\ owner' \in 0 .. builds'
        BY <2>2, <4>1
      <4> QED BY <4>1, <4>2
    <3> QED BY <1>1, <2>1, <2>6, <2>9, <3>1, <3>2 DEF TypeOK, choices
  <2>11. open = Images(shown) \cup lost /\ Images(shown) \cap lost = {}
    BY <2>2, Quiet
  <2>12. Held' = {}
    <3>1. /\ Images(Nothing) = {} /\ Images(q.frames) = {}
          /\ HeldBy(shown, runs)' = Images(shown') \cup Images(runs'[n].frames)
      BY <2>5, <2>6 DEF HeldBy, Images, Nothing
    <3> QED BY <2>1, <2>5, <2>6, <3>1 DEF Held, Discards
  <2>13. BitmapsAccountedFor'
    BY <2>1, <2>11, <2>12 DEF BitmapsAccountedFor, Discards
  <2>14. LostIsOver'
    <3>1. \A b \in lost : b.build <= builds /\ b.build \in Nat
      BY <1>1, StudioAssumption DEF Inv, LostIsOver, TypeOK, Bitmap
    <3>2. n \in Nat /\ n = builds + 1
      BY <2>2
    <3> QED BY <2>1, <2>2, <2>6, <3>1, <3>2 DEF LostIsOver
  <2>15. Steady'
    BY <2>1, <2>6 DEF Steady, Discards, Nothing
  <2>16. BuildScreenHasWayOut'
    BY <2>1 DEF BuildScreenHasWayOut
  <2> QED BY <2>8, <2>10, <2>13, <2>14, <2>15, <2>16 DEF Inv
<1>16. CASE PickSize
  <2>1. /\ UNCHANGED <<stored, choices, stage, building, buildError, grid,
                       runs, owner, builds, lost, index, mounted>>
        /\ Discards /\ mounted /\ stage = "range"
    BY <1>16 DEF PickSize
  <2>2. DOMAIN runs = {}
    BY <1>2, <2>1
  <2>3. TypeOK'
    BY <1>1, <2>1, <2>2, DiscardTypes DEF TypeOK, choices
  <2> QED BY <2>1, <2>2, <2>3, QuietStep
<1> QED BY <1>4, <1>5, <1>6, <1>7, <1>8, <1>9, <1>10, <1>11, <1>12, <1>13,
           <1>14, <1>15, <1>16 DEF Visitor

-----------------------------------------------------------------------------
(* The theorems                                                            *)

\* The page opens on no film and no build.
LEMMA InitInv == Init => Inv
<1> SUFFICES ASSUME Init PROVE Inv
  OBVIOUS
<1>1. /\ DOMAIN Nothing = {} /\ Images(Nothing) = {} /\ AreFrames(Nothing)
  BY DEF Nothing, Images, AreFrames
<1>2. TypeOK
  <2>1. <<>> \in Seq(Toggles) /\ Len(<<>>) = 0
    BY EmptySeq
  <2>2. /\ "off" \in Toggles /\ Default \in Ranges /\ 0 \in 0 .. 0
        /\ 0 \in 0 .. MaxBuilds /\ Len(<<>>) <= MaxClips
    BY <2>1, StudioAssumption
  <2>3. /\ draft \in Toggles /\ clips \in Seq(Toggles)
        /\ Len(clips) <= MaxClips /\ focus \in Realm /\ range \in Ranges
        /\ builds \in 0 .. MaxBuilds /\ owner \in 0 .. builds
    BY <2>1, <2>2 DEF Init, Realm
  <2>4. \A n \in DOMAIN runs : IsRun(runs[n])
    BY <1>1 DEF Init
  <2>5. open \subseteq Bitmap /\ lost \subseteq open /\ AreFrames(shown)
    BY <1>1 DEF Init
  <2> QED BY <2>3, <2>4, <2>5 DEF Init, TypeOK
<1>3. Held = {}
  BY <1>1, HeldFacts DEF Init, Held
<1>4. BitmapsAccountedFor
  BY <1>3 DEF Init, BitmapsAccountedFor
<1>5. Steady
  BY <1>1 DEF Init, Steady
<1>6. LostIsOver /\ BuildScreenHasWayOut
  BY DEF Init, LostIsOver, BuildScreenHasWayOut
<1>7. \A n \in DOMAIN runs : RunInv(n, runs[n])
  BY <1>1 DEF Init
<1> QED BY <1>2, <1>4, <1>5, <1>6, <1>7 DEF Inv

\* A step that keeps the looks, the focus and the builds keeps the invariant,
\* even when it moves the days.
LEMMA StillStep ==
  ASSUME Inv, UNCHANGED <<stored, draft, clips, focus, stage, shown, building,
                          buildError, runs, owner, builds, open, lost, mounted>>,
         grid' \in BOOLEAN, index' \in {"ready", "loading"}, range' \in Ranges
  PROVE  Inv'
<1>1. /\ stored' = stored /\ draft' = draft /\ clips' = clips
      /\ focus' = focus /\ stage' = stage
      /\ shown' = shown /\ building' = building /\ buildError' = buildError
      /\ runs' = runs /\ owner' = owner /\ builds' = builds /\ open' = open
      /\ lost' = lost /\ mounted' = mounted
  OBVIOUS
<1>2. Asked'.looks = Asked.looks /\ Asked'.focus = Asked.focus
  BY <1>1, LooksStay
<1>3. TypeOK'
  BY <1>1 DEF Inv, TypeOK
<1>4. ASSUME NEW n \in DOMAIN runs'
      PROVE  RunInv(n, runs[n])'
  <2> PICK r : r = runs[n]
    OBVIOUS
  <2>1. n \in DOMAIN runs /\ runs'[n] = r
    BY <1>1, <1>4
  <2>2. RunInv(n, r) /\ RunAt(n, r, r.day - 1)
    BY <2>1 DEF Inv, RunInv
  <2>3. RunAt(n, r, r.day - 1)'
    BY <1>1, <2>2, RunStays
  <2>4. Recorded(Look(r), r.day)' <=> Recorded(Look(r), r.day)
    BY <1>1 DEF Recorded, Look
  <2>5. RunInv(n, r)'
    BY <1>1, <1>2, <2>2, <2>3, <2>4 DEF RunInv
  <2> QED BY <2>1, <2>5
<1>5. Steady'
  BY <1>1 DEF Inv, Steady
<1>6. BitmapsAccountedFor'
  BY <1>1 DEF Inv, BitmapsAccountedFor, Held
<1>7. LostIsOver' /\ BuildScreenHasWayOut'
  BY <1>1 DEF Inv, LostIsOver, BuildScreenHasWayOut
<1> QED BY <1>3, <1>4, <1>5, <1>6, <1>7 DEF Inv

\* A change of session does neither stop a build nor touch what it holds; the
\* film it discards is one on the screen, and then no build is alive.
LEMMA SessionStep ==
  ASSUME Inv, Session
  PROVE  Inv'
<1>1. TypeOK /\ Steady /\ BitmapsAccountedFor /\ Default \in Ranges
  BY StudioAssumption DEF Inv
<1>2. CASE SignIn
  BY <1>1, <1>2, StillStep DEF SignIn, choices, TypeOK
<1>3. CASE IndexFails
  BY <1>1, <1>3, StillStep DEF IndexFails, choices, TypeOK
<1>4. CASE IndexArrives
  <2>1. /\ UNCHANGED <<stored, draft, clips, focus, building, buildError, grid,
                       runs, owner, builds, lost, mounted>>
        /\ index' = "ready" /\ range' = Default /\ range' \in Ranges
    BY <1>1, <1>4 DEF IndexArrives
  <2>2. CASE range # Default /\ shown # Nothing
    <3>1. Discards /\ stage' = "range"
      BY <1>4, <2>2 DEF IndexArrives
    <3>2. DOMAIN runs = {}
      BY <1>1, <2>2 DEF Steady
    <3>3. TypeOK'
      BY <1>1, <2>1, <3>1, <3>2, DiscardTypes DEF TypeOK
    <3> QED BY <2>1, <3>1, <3>2, <3>3, QuietStep
  <2>3. CASE ~(range # Default /\ shown # Nothing)
    <3>1. UNCHANGED <<shown, open, stage>>
      BY <1>4, <2>3 DEF IndexArrives
    <3> QED BY <1>1, <2>1, <3>1, StillStep DEF TypeOK
  <2> QED BY <2>2, <2>3
<1> QED BY <1>2, <1>3, <1>4 DEF Session

\* Every step of the studio keeps the invariant.
LEMMA StepInv == Inv /\ [Next]_vars => Inv'
<1> SUFFICES ASSUME Inv, [Next]_vars PROVE Inv'
  OBVIOUS
<1>0. TypeOK
  BY DEF Inv
<1>1. CASE Visitor
  BY <1>1, VisitorStep
<1>2. CASE GridArrives
  BY <1>0, <1>2, StillStep DEF GridArrives, choices, TypeOK
<1>3. ASSUME NEW n \in DOMAIN runs, Runner(n)
      PROVE  Inv'
  BY <1>3, RunnerStep
<1>4. CASE Session
  BY <1>4, SessionStep
<1>5. CASE UNCHANGED vars
  BY <1>0, <1>5, StillStep DEF vars, choices, TypeOK
<1> QED BY <1>1, <1>2, <1>3, <1>4, <1>5 DEF Next

\* A choice that changes what is asked for makes the screen dark.
LEMMA ChooseAsks ==
  ASSUME NEW d, NEW c, NEW f, NEW g, Choose(d, c, f, g)
  PROVE  shown' = Nothing \/ (shown' = shown /\ Asked' = Asked)
<1>1. draft' = d /\ clips' = c /\ focus' = f /\ range' = g
  BY DEF Choose
<1>2. CASE \/ d # draft /\ c = <<>>
           \/ c # clips
           \/ ActiveFocus(d, c, f) # ActiveFocus(draft, clips, focus)
           \/ g # range
  BY <1>2 DEF Choose, Discards
<1>3. CASE ~(\/ d # draft /\ c = <<>>
             \/ c # clips
             \/ ActiveFocus(d, c, f) # ActiveFocus(draft, clips, focus)
             \/ g # range)
  <2>1. UNCHANGED shown
    BY <1>3 DEF Choose
  <2>2. LooksOf(d, c) = LooksOf(draft, clips)
    BY <1>3 DEF LooksOf
  <2>3. LooksOf(draft, clips)' = LooksOf(d, c)
    BY <1>1 DEF LooksOf
  <2>4. ActiveFocus(draft, clips, focus)' = ActiveFocus(d, c, f)
    BY <1>1 DEF ActiveFocus, FocusWanted, NeedsNation
  <2> QED BY <1>1, <1>3, <2>1, <2>2, <2>3, <2>4 DEF Asked
<1> QED BY <1>2, <1>3

\* A new build carries what is asked for, and no frame.
LEMMA NewRunShape ==
  ASSUME NEW a
  PROVE  NewRun(a).asked = a /\ NewRun(a).frames = Nothing
BY DEF NewRun, Begun

\* A build that is cancelled, or not touched, is asked for what it was.
LEMMA AbortedAsked ==
  ASSUME Inv, NEW n \in DOMAIN runs, runs' \in {runs, Aborted}
  PROVE  /\ DOMAIN runs' = DOMAIN runs /\ runs'[n].asked = runs[n].asked
         /\ runs'[n].frames = runs[n].frames
<1> PICK r : r = runs[n]
  OBVIOUS
<1>1. r \in [asked : Request, phase : {"grid", "await", "render"},
             look : Nat, day : Nat, loads : {r.loads},
             previous : SUBSET Nat, frames : {r.frames}, aborted : BOOLEAN]
  BY DEF Inv, RunInv, RunAt, IsRun
<1>2. runs'[n] \in {r, [r EXCEPT !.aborted = TRUE]}
  BY DEF Aborted
<1>3. DOMAIN runs' = DOMAIN runs
  BY DEF Aborted
<1> QED BY <1>1, <1>2, <1>3

\* What a click or a change of session does to the builds and the screen: it
\* begins a build, of what is asked for, or leaves the builds alone; and what
\* is asked for never changes under a film on the screen.
LEMMA ClickFacts ==
  ASSUME Inv, Visitor \/ Session
  PROVE  /\ stored' = stored /\ lost' = lost
         /\ shown' = Nothing \/ (shown' = shown /\ Asked' = Asked)
         /\ \/ /\ DOMAIN runs' = DOMAIN runs /\ builds' = builds
               /\ \A n \in DOMAIN runs : /\ runs'[n].asked = runs[n].asked
                                         /\ runs'[n].frames = runs[n].frames
            \/ /\ StartBuild /\ DOMAIN runs = {} /\ builds' = builds + 1
               /\ DOMAIN runs' = {builds + 1}
               /\ runs'[builds + 1] = NewRun(Asked)
               /\ shown' = Nothing /\ UNCHANGED choices
<1>1. CASE StartBuild
  <2>1. DOMAIN runs = {}
    BY <1>1 DEF Inv, Steady, StartBuild
  <2>2. /\ stored' = stored /\ lost' = lost /\ shown' = Nothing
        /\ builds' = builds + 1 /\ UNCHANGED choices
        /\ runs' = [m \in DOMAIN runs \cup {builds + 1} |->
                      IF m = builds + 1 THEN NewRun(Asked) ELSE runs[m]]
    BY <1>1 DEF StartBuild, Discards
  <2> QED BY <1>1, <2>1, <2>2
<1>2. CASE ~StartBuild
  <2>1. /\ stored' = stored /\ lost' = lost /\ builds' = builds
        /\ runs' \in {runs, Aborted}
    BY <1>2 DEF Visitor, ToggleLayer, AddClip, RemoveClip, MoveClip, PickFocus,
           PickRange, PickSize, GoTo, StartOver, CancelBuild, BackToDays,
           Leave, Choose, Session, SignIn, IndexArrives, IndexFails
  <2>2. DOMAIN runs' = DOMAIN runs
    BY <2>1 DEF Aborted
  <2>3. shown' = Nothing \/ (shown' = shown /\ Asked' = Asked)
    <3>1. CASE \E d, c, f, g : Choose(d, c, f, g)
      BY <3>1, ChooseAsks
    <3>2. CASE PickSize \/ StartOver \/ Leave
      BY <3>2 DEF PickSize, StartOver, Leave, Discards
    <3>3. CASE \/ CancelBuild \/ BackToDays \/ SignIn \/ IndexFails
              \/ \E next \in {"compose", "range", "play"} : GoTo(next)
      BY <3>3, AskedStays
         DEF CancelBuild, BackToDays, SignIn, IndexFails, GoTo
    <3>4. CASE IndexArrives
      <4>1. CASE range = Default
        <5>1. UNCHANGED choices /\ shown' = shown
          BY <3>4, <4>1 DEF IndexArrives, choices
        <5> QED BY <5>1, AskedStays
      <4>2. CASE range # Default
        BY <3>4, <4>2 DEF IndexArrives, Discards
      <4> QED BY <4>1, <4>2
    <3> QED BY <1>2, <3>1, <3>2, <3>3, <3>4
        DEF Visitor, Session, ToggleLayer, AddClip, RemoveClip, MoveClip,
            PickFocus, PickRange
  <2> QED BY <2>1, <2>2, <2>3, AbortedAsked
<1> QED BY <1>1, <1>2

\* The studio does not notice the export that runs beside it.
LEMMA StudioSteps == XSpec => Init /\ [][Next]_vars
<1>1. XInit => Init
  BY DEF XInit
<1>2. [XNext]_xvars => [Next]_vars
  BY DEF XNext, xvars, Exporter, ExportGif, DrawDay, Encode
<1> QED BY <1>1, <1>2, PTL DEF XSpec

\* So it holds whenever the studio runs, with its export beside it.
LEMMA AlwaysInv == XSpec => []Inv
BY StudioSteps, InitInv, StepInv, PTL

\* The studio and its export keep the types of their states, at any size.
THEOREM Types == XSpec => []TypeOK
<1>1. Inv => TypeOK
  BY DEF Inv
<1> QED BY <1>1, AlwaysInv, PTL

\* One build is alive at a time, and Cancel reaches it.
THEOREM OneBuildAlive == XSpec => []OneBuild
<1>1. Inv => OneBuild
  BY DEF Inv, Steady, RunInv, OneBuild
<1> QED BY <1>1, AlwaysInv, PTL

\* No bitmap leaks and none is closed under a frame that shows it, but for the
\* one a day that breaks buildLayers leaves behind.
THEOREM NoBitmapLeaks == XSpec => []BitmapsAccountedFor
<1>1. Inv => BitmapsAccountedFor
  BY DEF Inv
<1> QED BY <1>1, AlwaysInv, PTL

\* The build screen is never a dead end.
THEOREM WayOut == XSpec => []BuildScreenHasWayOut
<1>1. Inv => BuildScreenHasWayOut
  BY DEF Inv
<1> QED BY <1>1, AlwaysInv, PTL

\* Every frame of a build is the frame of the film it was asked for, and the
\* looks and the focus asked for are still those, whatever the session does
\* to the days meanwhile (startBuild, runChronicleBuild).
THEOREM BuildPaintsTheFilm == XSpec => []PaintsTheFilm
<1>1. Inv => PaintsTheFilm
  BY DEF Inv, RunInv, RunAt, PaintsTheFilm
<1> QED BY <1>1, AlwaysInv, PTL

\* Frames come to the screen only as the whole film of an unaborted build.
LEMMA ShowStep ==
  ASSUME Inv, Next, shown' # shown, shown' # Nothing
  PROVE  \E n \in DOMAIN runs : Runner(n) /\ Outcome(n) /\ ~runs[n].aborted
<1>1. ASSUME NEW n \in DOMAIN runs, Runner(n)
      PROVE  ~runs[n].aborted
  BY <1>1 DEF Runner, Begin, GridFails, Settle, DayFails, SkipDay, ReuseDay,
              RenderDay, PaintDay, PaintFails, Fails, Arrived, OutsideRun
<1>2. PICK n \in DOMAIN runs : Runner(n)
  <2>1. ~(Visitor \/ Session)
    BY ClickFacts
  <2>2. ~GridArrives
    BY DEF GridArrives
  <2> QED BY <2>1, <2>2 DEF Next
<1> QED BY <1>1, <1>2, RunnerStep

\* A build that was cancelled never reaches the screen.
THEOREM CancelStays == XSpec => CancelledStaysOff
<1>1. Inv /\ [Next]_vars =>
        [\A n \in DOMAIN runs : runs[n].aborted => shown' = Nothing]_vars
  <2> SUFFICES ASSUME Inv, Next, NEW n \in DOMAIN runs, runs[n].aborted
               PROVE  shown' = Nothing
    OBVIOUS
  <2>1. shown = Nothing /\ DOMAIN runs = {n}
    BY OnlyRun
  <2>2. shown' # Nothing => \E m \in DOMAIN runs : ~runs[m].aborted
    BY <2>1, ShowStep
  <2> QED BY <2>1, <2>2
<1> QED BY <1>1, AlwaysInv, StudioSteps, PTL DEF CancelledStaysOff

\* The films that are being made.
Making == {Film(runs[n].asked) : n \in DOMAIN runs}

\* They stay as long as the builds do.
LEMMA MakingStays ==
  ASSUME stored' = stored, DOMAIN runs' = DOMAIN runs,
         \A n \in DOMAIN runs : runs'[n].asked = runs[n].asked
  PROVE  Making' = Making
<1>1. \A n \in DOMAIN runs : Film(runs[n].asked)' = Film(runs[n].asked)
  BY DEF Film, Painted, Recorded, SlotsOf
<1> QED BY <1>1 DEF Making

\* What is asked for has the same film as long as it is asked for.
LEMMA FilmAsked ==
  ASSUME stored' = stored, Asked' = Asked
  PROVE  Film(Asked)' = Film(Asked)
BY DEF Film, Painted, Recorded, SlotsOf

\* Every step of the studio is a step of the timelapse, or none.
LEMMA PromiseStep ==
  ASSUME Inv, [Next]_vars
  PROVE  [Timelapse!Next]_<<Film(Asked), Making, Pictures(shown)>>
<1>0. Pictures(Nothing) = Timelapse!NoFilm
  BY DEF Pictures, Nothing, Timelapse!NoFilm
<1>1. ASSUME Visitor \/ Session
      PROVE  [Timelapse!Next]_<<Film(Asked), Making, Pictures(shown)>>
  <2>1. CASE /\ DOMAIN runs' = DOMAIN runs
             /\ \A n \in DOMAIN runs : runs'[n].asked = runs[n].asked
    <3>1. Making' = Making
      BY <1>1, <2>1, ClickFacts, MakingStays
    <3>2. CASE shown' = Nothing
      <4>1. Pictures(shown)' = Timelapse!NoFilm
        BY <1>0, <3>2
      <4> QED BY <3>1, <4>1
              DEF Timelapse!Next, Timelapse!Ask, Timelapse!Drop, Making
    <3>3. CASE shown' = shown /\ Asked' = Asked
      <4>1. Film(Asked)' = Film(Asked)
        BY <1>1, <3>3, ClickFacts, FilmAsked
      <4>2. Pictures(shown)' = Pictures(shown)
        BY <3>3
      <4> QED BY <3>1, <4>1, <4>2
    <3> QED BY <1>1, <3>2, <3>3, ClickFacts
  <2>2. CASE ~(/\ DOMAIN runs' = DOMAIN runs
               /\ \A n \in DOMAIN runs : runs'[n].asked = runs[n].asked)
    <3>1. /\ stored' = stored /\ DOMAIN runs = {} /\ DOMAIN runs' = {builds + 1}
          /\ runs'[builds + 1] = NewRun(Asked)
          /\ shown' = Nothing /\ UNCHANGED choices
      BY <1>1, <2>2, ClickFacts
    <3>2. Film(Asked)' = Film(Asked)
      BY <3>1, AskedStays, FilmAsked
    <3>3. Making = {}
      BY <3>1 DEF Making
    <3>4. runs'[builds + 1].asked = Asked
      BY <3>1, NewRunShape
    <3>5. Making' = {Film(Asked)}
      <4> PICK a : a = Asked
        OBVIOUS
      <4>1. Film(a)' = Film(a)
        BY <3>1, FilmStays
      <4> QED BY <3>1, <3>4, <4>1 DEF Making
    <3>6. Pictures(shown)' = Timelapse!NoFilm
      BY <1>0, <3>1
    <3> QED BY <3>2, <3>3, <3>5, <3>6
            DEF Timelapse!Next, Timelapse!Begin, Making
  <2> QED BY <2>1, <2>2
<1>2. ASSUME NEW n \in DOMAIN runs, Runner(n)
      PROVE  [Timelapse!Next]_<<Film(Asked), Making, Pictures(shown)>>
  <2>1. Outcome(n) /\ DOMAIN runs = {n} /\ shown = Nothing
    BY <1>2, RunnerStep, OnlyRun
  <2>2. Film(Asked)' = Film(Asked)
    BY <2>1, AskedStays, FilmAsked DEF Outcome
  <2>3. Pictures(shown) = Timelapse!NoFilm
    BY <1>0, <2>1
  <2>4. Making = {Film(runs[n].asked)}
    BY <2>1 DEF Making
  <2>5. DOMAIN runs' = {} => Making' = {}
    BY DEF Making
  <2>6. CASE shown' = Nothing
    <3>1. Pictures(shown)' = Timelapse!NoFilm
      BY <1>0, <2>6
    <3>2. Making' \subseteq Making
      <4>1. CASE DOMAIN runs' = {}
        BY <2>5, <4>1
      <4>2. CASE DOMAIN runs' # {}
        <5>1. DOMAIN runs' = DOMAIN runs
          BY <2>1, <4>2 DEF Outcome
        <5> QED BY <2>1, <5>1, MakingStays DEF Outcome
      <4> QED BY <4>1, <4>2
    <3> QED BY <2>2, <3>1, <3>2 DEF Timelapse!Next, Timelapse!Drop, Making
  <2>7. CASE shown' # Nothing
    <3>1. DOMAIN runs' = {} /\ Pictures(shown') = Film(runs[n].asked)
      BY <2>1, <2>7 DEF Outcome
    <3>2. Pictures(shown)' = Film(runs[n].asked)
      BY <3>1
    <3> QED BY <2>2, <2>3, <2>4, <2>5, <3>1, <3>2
            DEF Timelapse!Next, Timelapse!Show, Making
  <2> QED BY <2>6, <2>7
<1>3. CASE GridArrives \/ UNCHANGED vars
  <2>1. stored' = stored /\ UNCHANGED choices /\ runs' = runs /\ shown' = shown
    BY <1>3 DEF GridArrives, vars
  <2>2. Film(Asked)' = Film(Asked) /\ Making' = Making
    BY <2>1, AskedStays, FilmAsked, MakingStays
  <2>3. Pictures(shown)' = Pictures(shown)
    BY <2>1
  <2> QED BY <2>2, <2>3
<1> QED BY <1>1, <1>2, <1>3 DEF Next

\* The studio implements the timelapse its visitor is promised: the screen
\* goes dark or takes the whole film of what was asked for when the build was
\* begun, and no film outlives a change of what is asked for.
THEOREM Promise == XSpec => ShowsTheFilm
<1>1. Init => Timelapse!Init
  BY DEF Init, Timelapse!Init, Timelapse!NoFilm, Pictures, Nothing
<1>2. Inv /\ [Next]_vars =>
        [Timelapse!Next]_<<Film(Asked), {Film(runs[n].asked) : n \in DOMAIN runs},
                           Pictures(shown)>>
  BY PromiseStep DEF Making
<1> QED BY <1>1, <1>2, AlwaysInv, StudioSteps, PTL
        DEF ShowsTheFilm, Timelapse!Spec

-----------------------------------------------------------------------------
(* The ceiling                                                             *)

\* A frame is one picture at most.
Single(frames) == \A s \in DOMAIN frames : \A a, b \in frames[s] : a = b

\* A build was let through by the estimate, which counts its slots; what is on
\* the screen took no more of them.
CeilingInv ==
    /\ \A n \in DOMAIN runs : /\ FrameCount(runs[n].asked) <= MaxFrames
                              /\ Single(runs[n].frames)
    /\ IsFiniteSet(DOMAIN shown) /\ Cardinality(DOMAIN shown) <= MaxFrames
    /\ Single(shown)

\* A request has as many slots as the estimate counts.
LEMMA SlotCount ==
  ASSUME NEW a \in Request, a.first <= a.last
  PROVE  IsFiniteSet(SlotsOf(a)) /\ Cardinality(SlotsOf(a)) = FrameCount(a)
<1> DEFINE looks == 1 .. Len(a.looks)
           days == a.first .. a.last
           count == a.last - a.first + 1
<1>1. a.first \in Nat /\ a.last \in Nat /\ Len(a.looks) \in Nat
  <2>1. a.looks \in Seq(Toggles) /\ a.first \in Days /\ a.last \in Days
    BY DEF Request
  <2> QED BY <2>1, LenProperties DEF Days
<1>2. IsFiniteSet(looks) /\ Cardinality(looks) = Len(a.looks)
  <2> PICK i \in Int, k \in Int : i = 1 /\ k = Len(a.looks)
    BY <1>1
  <2>1. /\ IsFiniteSet(i .. k)
        /\ Cardinality(i .. k) = IF i > k THEN 0 ELSE k - i + 1
    BY FS_Interval
  <2>2. looks = i .. k
    OBVIOUS
  <2>3. (IF i > k THEN 0 ELSE k - i + 1) = Len(a.looks)
    BY <1>1
  <2> HIDE DEF looks
  <2> QED BY <2>1, <2>2, <2>3
<1>3. IsFiniteSet(days) /\ Cardinality(days) = count
  <2> PICK i \in Int, k \in Int : i = a.first /\ k = a.last
    BY <1>1
  <2>1. /\ IsFiniteSet(i .. k)
        /\ Cardinality(i .. k) = IF i > k THEN 0 ELSE k - i + 1
    BY FS_Interval
  <2>2. days = i .. k
    OBVIOUS
  <2>3. (IF i > k THEN 0 ELSE k - i + 1) = count
    BY <1>1
  <2> HIDE DEF days
  <2> QED BY <2>1, <2>2, <2>3
<1>4. /\ IsFiniteSet(SlotsOf(a))
      /\ Cardinality(SlotsOf(a)) = Len(a.looks) * count
  <2> HIDE DEF looks, days, count
  <2>1. /\ IsFiniteSet(looks \X days)
        /\ Cardinality(looks \X days) = Len(a.looks) * count
    BY <1>2, <1>3, FS_Product
  <2> QED BY <2>1 DEF SlotsOf, looks, days
<1>5. a.last + 1 - a.first = count /\ count \in Nat
  BY <1>1
<1> HIDE DEF count
<1>6. FrameCount(a) = count * Len(a.looks)
  BY <1>5 DEF FrameCount
<1> QED BY <1>1, <1>4, <1>5, <1>6

\* Frames of a request's film stay under what the estimate counts.
LEMMA FilmCount ==
  ASSUME NEW a \in Request, a.first <= a.last, FrameCount(a) <= MaxFrames,
         NEW D, D \subseteq DOMAIN Film(a)
  PROVE  IsFiniteSet(D) /\ Cardinality(D) <= MaxFrames
<1>1. IsFiniteSet(SlotsOf(a)) /\ Cardinality(SlotsOf(a)) = FrameCount(a)
  BY SlotCount
<1>2. D \subseteq SlotsOf(a)
  BY FilmSlots
<1>3. IsFiniteSet(D) /\ Cardinality(D) <= FrameCount(a)
  BY <1>1, <1>2, FS_Subset
<1>4. Cardinality(D) \in Nat /\ FrameCount(a) \in Nat /\ MaxFrames \in Nat
  BY <1>1, <1>3, FS_CardinalityType, StudioAssumption
<1> QED BY <1>3, <1>4

\* Frames of one picture at most hold no more bitmaps than there are frames.
LEMMA ImageCount ==
  ASSUME NEW f, IsFiniteSet(DOMAIN f), Single(f)
  PROVE  /\ IsFiniteSet(Images(f))
         /\ Cardinality(Images(f)) <= Cardinality(DOMAIN f)
<1> DEFINE at == [b \in Images(f) |-> CHOOSE s \in DOMAIN f : b \in f[s]]
<1>1. \A b \in Images(f) : at[b] \in DOMAIN f /\ b \in f[at[b]]
  BY DEF Images
<1>2. at \in [Images(f) -> DOMAIN f]
  BY <1>1
<1>3. \A a, b \in Images(f) : at[a] = at[b] => a = b
  BY <1>1 DEF Single
<1>4. at \in Injection(Images(f), DOMAIN f)
  BY <1>2, <1>3 DEF Injection, IsInjective
<1> HIDE DEF at
<1> QED BY <1>4, FS_Injection

\* A record with the fields of a run, and what the runner's helpers change.
Shaped(r) == r \in [asked : {r.asked}, phase : {r.phase}, look : {r.look},
                    day : {r.day}, loads : {r.loads},
                    previous : {r.previous}, frames : {r.frames},
                    aborted : {r.aborted}]

LEMMA TakenShape ==
  ASSUME NEW r, Shaped(r)
  PROVE  LET t == Taken(r) IN
         /\ Shaped(t) /\ t.asked = r.asked /\ t.frames = r.frames
         /\ t.look = r.look /\ t.day = r.day /\ t.previous = r.previous
<1> PICK l : Taken(r) = [r EXCEPT !.loads = l]
  BY DEF Taken
<1> QED BY DEF Shaped

LEMMA BegunShape ==
  ASSUME NEW r, Shaped(r)
  PROVE  Begun(r).asked = r.asked /\ Begun(r).frames = r.frames
BY DEF Begun, Shaped

LEMMA AdvancedShape ==
  ASSUME NEW r, Shaped(r)
  PROVE  Advanced(r).asked = r.asked /\ Advanced(r).frames = r.frames
<1>1. CASE LookEnds(r)
  <2> PICK q : q = [r EXCEPT !.look = @ + 1]
    OBVIOUS
  <2>1. Shaped(q) /\ q.asked = r.asked /\ q.frames = r.frames
    BY DEF Shaped
  <2>2. Advanced(r) = Begun(q)
    BY <1>1 DEF Advanced
  <2> QED BY <2>1, <2>2, BegunShape
<1>2. CASE ~LookEnds(r)
  BY <1>2 DEF Advanced, Shaped
<1> QED BY <1>1, <1>2

\* A frame of one picture is pushed on frames of one picture.
LEMMA PushShape ==
  ASSUME NEW r, Shaped(r), Single(r.frames), NEW image,
         \A a, b \in image : a = b
  PROVE  LET p == Pushed(r, image) IN
         Shaped(p) /\ p.asked = r.asked /\ Single(p.frames)
<1> DEFINE slot == <<r.look, r.day>>
<1> PICK f : f = [s \in DOMAIN r.frames \cup {slot} |->
                    IF s = slot THEN image ELSE r.frames[s]]
  OBVIOUS
<1>1. Single(f)
  BY DEF Single
<1>2. Pushed(r, image) = [r EXCEPT !.frames = f, !.previous = {r.day}]
  BY DEF Pushed
<1>3. Shaped(Pushed(r, image)) /\ Pushed(r, image).asked = r.asked
      /\ Pushed(r, image).frames = f
  BY <1>2 DEF Shaped
<1> QED BY <1>1, <1>3

\* A day that is done keeps its frames: they go on with the run, or to the
\* screen, or nowhere.
LEMMA ProceedFrames ==
  ASSUME NEW n, DOMAIN runs = {n}, NEW q, NEW made, Proceeds(n, q, made),
         Shaped(q), q.asked = runs[n].asked, Single(q.frames), Single(shown)
  PROVE  /\ \A m \in DOMAIN runs' : m = n /\ runs'[m].asked = runs[m].asked
                                    /\ Single(runs'[m].frames)
         /\ Single(shown')
<1>1. CASE Finishes(n, q, made)
  BY <1>1 DEF Finishes, Returned, Without
<1>2. CASE ~Finishes(n, q, made)
  <2>1. /\ runs' = [runs EXCEPT ![n] = Advanced(q)]
        /\ UNCHANGED shown
    BY <1>2 DEF Proceeds
  <2> QED BY <2>1, AdvancedShape
<1> QED BY <1>1, <1>2

\* No step of a run moves its request or puts two pictures in a frame.
LEMMA RunnerFrames ==
  ASSUME Inv, CeilingInv, NEW n \in DOMAIN runs, Runner(n)
  PROVE  /\ \A m \in DOMAIN runs' : m = n /\ runs'[m].asked = runs[m].asked
                                    /\ Single(runs'[m].frames)
         /\ Single(shown')
<1> PICK r : r = runs[n]
  OBVIOUS
<1>1. /\ DOMAIN runs = {n} /\ RunAt(n, r, r.day - 1) /\ Shaped(r)
      /\ Single(r.frames) /\ Single(shown)
  <2>1. RunAt(n, r, r.day - 1)
    BY DEF Inv, RunInv
  <2>2. Shaped(r)
    BY <2>1 DEF RunAt, IsRun, Shaped
  <2> QED BY <2>1, <2>2, OnlyRun DEF CeilingInv
<1>2. ASSUME NEW frames, NEW made, NEW cancelled,
             Fails(n, frames, made, cancelled)
      PROVE  DOMAIN runs' = {} /\ shown' = shown
  BY <1>1, <1>2 DEF Fails, Returned, Without
<1>3. CASE Begin(n)
  <2>1. CASE r.aborted
    BY <1>1, <1>2, <1>3, <2>1 DEF Begin
  <2>2. CASE ~r.aborted
    <3>1. runs' = [runs EXCEPT ![n] = Begun(r)] /\ shown' = shown
      BY <1>3, <2>2 DEF Begin
    <3> QED BY <1>1, <3>1, BegunShape
  <2> QED BY <2>1, <2>2
<1>4. CASE \/ GridFails(n) \/ DayFails(n) \/ PaintFails(n)
          \/ Fails(n, r.frames, {}, FALSE)
  <2>1. \E frames, made, cancelled : Fails(n, frames, made, cancelled)
    BY <1>4 DEF GridFails, DayFails, PaintFails
  <2> QED BY <1>1, <1>2, <2>1
<1>5. CASE SkipDay(n)
  <2>1. Proceeds(n, Taken(r), {})
    BY <1>5 DEF SkipDay
  <2> QED BY <1>1, <2>1, TakenShape, ProceedFrames
<1>6. CASE ReuseDay(n) /\ ~Fails(n, r.frames, {}, FALSE)
  <2> PICK t : t = Taken(r)
    OBVIOUS
  <2> PICK image : image = Reused(r)
    OBVIOUS
  <2>1. Proceeds(n, Pushed(t, image), {})
    BY <1>6 DEF ReuseDay
  <2>2. \A a, b \in image : a = b
    <3>1. \A p, q \in r.previous : p = q /\ <<r.look, p>> \in DOMAIN r.frames
      BY <1>1 DEF RunAt
    <3>2. image = UNION {r.frames[<<r.look, p>>] : p \in r.previous}
      BY DEF Reused
    <3>3. ASSUME NEW a \in image, NEW b \in image PROVE a = b
      <4>1. PICK p \in r.previous : a \in r.frames[<<r.look, p>>]
        BY <3>2
      <4>2. PICK q \in r.previous : b \in r.frames[<<r.look, q>>]
        BY <3>2
      <4> QED BY <1>1, <3>1, <4>1, <4>2 DEF Single
    <3> QED BY <3>3
  <2>3. Shaped(t) /\ t.asked = r.asked /\ t.frames = r.frames
    BY <1>1, TakenShape
  <2>4. /\ Shaped(Pushed(t, image)) /\ Pushed(t, image).asked = r.asked
        /\ Single(Pushed(t, image).frames)
    BY <1>1, <2>2, <2>3, PushShape
  <2> QED BY <1>1, <2>1, <2>4, ProceedFrames
<1>7. CASE RenderDay(n)
  <2> PICK t : t = Taken(r)
    OBVIOUS
  <2>1. runs' = [runs EXCEPT ![n] = [t EXCEPT !.phase = "render"]]
        /\ shown' = shown
    BY <1>7 DEF RenderDay
  <2>2. Shaped(t) /\ t.asked = r.asked /\ t.frames = r.frames
    BY <1>1, TakenShape
  <2>3. /\ [t EXCEPT !.phase = "render"].asked = r.asked
        /\ [t EXCEPT !.phase = "render"].frames = r.frames
    BY <2>2 DEF Shaped
  <2> QED BY <1>1, <2>1, <2>3
<1>8. CASE PaintDay(n)
  <2> PICK made : made = Made(n, r)
    OBVIOUS
  <2> PICK p : p = Pushed(r, made)
    OBVIOUS
  <2>1. \/ Fails(n, p.frames, made, TRUE)
        \/ Proceeds(n, p, made)
    BY <1>8 DEF PaintDay
  <2>2. \A a, b \in made : a = b
    BY DEF Made, Painted
  <2>3. Shaped(p) /\ p.asked = r.asked /\ Single(p.frames)
    BY <1>1, <2>2, PushShape
  <2> QED BY <1>1, <1>2, <2>1, <2>3, ProceedFrames
<1>9. CASE \E day \in Days : Settle(n, day)
  <2>1. PICK day, result : runs' = [runs EXCEPT ![n] = Settled(r, day, result)]
    BY <1>9 DEF Settle
  <2>2. shown' = shown
    BY <1>9 DEF Settle
  <2>3. PICK l : Settled(r, day, result) = [r EXCEPT !.loads = l]
    BY DEF Settled
  <2>4. /\ [r EXCEPT !.loads = l].asked = r.asked
        /\ [r EXCEPT !.loads = l].frames = r.frames
    BY <1>1 DEF Shaped
  <2> QED BY <1>1, <2>1, <2>2, <2>3, <2>4
<1> QED BY <1>3, <1>4, <1>5, <1>6, <1>7, <1>8, <1>9 DEF Runner

\* Only the Build button asks for anything, and only under the ceiling.
LEMMA VisitorFrames ==
  ASSUME Inv, CeilingInv, Visitor \/ Session
  PROVE  /\ \A n \in DOMAIN runs' : /\ FrameCount(runs'[n].asked) <= MaxFrames
                                    /\ Single(runs'[n].frames)
         /\ shown' \in {shown, Nothing}
<1>1. shown' \in {shown, Nothing}
  BY ClickFacts
<1>2. CASE StartBuild
  <2>1. DOMAIN runs = {} /\ ~(FrameCount(Asked) > MaxFrames)
    BY <1>2 DEF StartBuild, BlockReason, Inv, Steady
  <2>2. FrameCount(Asked) <= MaxFrames
    <3>1. Asked \in Request /\ ~(Asked.first > Asked.last)
      BY <1>2, AskedFacts DEF Inv, StartBuild, BlockReason
    <3>2. Asked.first <= Asked.last
      BY <3>1 DEF Request, Days
    <3>3. FrameCount(Asked) \in Nat
      BY <3>1, <3>2, SlotCount, FS_CardinalityType
    <3> QED BY <2>1, <3>3, StudioAssumption
  <2>3. NewRun(Asked).asked = Asked /\ NewRun(Asked).frames = Nothing
    BY NewRunShape
  <2>4. \A m \in DOMAIN runs' : runs'[m] = NewRun(Asked)
    BY <1>2, <2>1 DEF StartBuild
  <2> QED BY <1>1, <2>2, <2>3, <2>4 DEF Single, Nothing
<1>3. CASE ~StartBuild
  BY <1>1, <1>3, ClickFacts DEF CeilingInv
<1> QED BY <1>2, <1>3

\* No step crosses the ceiling.
LEMMA CeilingStep == Inv /\ Inv' /\ CeilingInv /\ [Next]_vars => CeilingInv'
<1> SUFFICES ASSUME Inv, Inv', CeilingInv, [Next]_vars PROVE CeilingInv'
  OBVIOUS
<1>1. /\ \A n \in DOMAIN runs' : /\ FrameCount(runs'[n].asked) <= MaxFrames
                                 /\ Single(runs'[n].frames)
      /\ Single(shown')
  <2>1. CASE Visitor \/ Session
    <3>1. Single(Nothing)
      BY DEF Single, Nothing
    <3> QED BY <2>1, <3>1, VisitorFrames DEF CeilingInv
  <2>2. CASE GridArrives \/ UNCHANGED vars
    BY <2>2 DEF GridArrives, vars, CeilingInv
  <2>3. ASSUME NEW n \in DOMAIN runs, Runner(n)
        PROVE  /\ \A m \in DOMAIN runs' :
                     /\ FrameCount(runs'[m].asked) <= MaxFrames
                     /\ Single(runs'[m].frames)
               /\ Single(shown')
    BY <2>3, RunnerFrames DEF CeilingInv
  <2> QED BY <2>1, <2>2, <2>3 DEF Next
<1>2. IsFiniteSet(DOMAIN shown') /\ Cardinality(DOMAIN shown') <= MaxFrames
  <2>1. CASE shown' = shown
    BY <2>1 DEF CeilingInv
  <2>2. CASE shown' = Nothing
    BY <2>2, FS_EmptySet, StudioAssumption DEF Nothing
  <2>3. CASE shown' # shown /\ shown' # Nothing
    <3>1. PICK n \in DOMAIN runs : Outcome(n)
      BY <2>3, ShowStep DEF vars
    <3> PICK a : a = runs[n].asked
      OBVIOUS
    <3>2. /\ a \in Request /\ a.first <= a.last /\ FrameCount(a) <= MaxFrames
      BY DEF Inv, RunInv, RunAt, IsRun, CeilingInv
    <3>3. DOMAIN shown' = DOMAIN Film(a)
      BY <2>3, <3>1 DEF Outcome, Pictures
    <3> QED BY <3>2, <3>3, FilmCount
  <2> QED BY <2>1, <2>2, <2>3
<1> QED BY <1>1, <1>2 DEF CeilingInv

\* The page opens with nothing on the screen.
LEMMA CeilingInit == Init => CeilingInv
BY FS_EmptySet, StudioAssumption DEF Init, CeilingInv, Nothing, Single

\* The bitmaps held are those of one film, on the screen or being built.
LEMMA CeilingHolds == Inv /\ CeilingInv => UnderCeiling
<1> SUFFICES ASSUME Inv, CeilingInv PROVE UnderCeiling
  OBVIOUS
<1>1. PICK f : /\ open \ lost = Images(f) /\ Single(f)
               /\ IsFiniteSet(DOMAIN f) /\ Cardinality(DOMAIN f) <= MaxFrames
  <2>1. CASE DOMAIN runs = {}
    <3>1. open \ lost = Images(shown)
      BY <2>1, Quiet
    <3> QED BY <3>1 DEF CeilingInv
  <2>2. CASE DOMAIN runs # {}
    <3> PICK n \in DOMAIN runs : TRUE
      BY <2>2
    <3> PICK r : r = runs[n]
      OBVIOUS
    <3>1. open \ lost = Images(r.frames)
      BY OnlyRun
    <3>2. /\ r.asked \in Request /\ r.asked.first <= r.asked.last
          /\ DOMAIN r.frames \subseteq DOMAIN Film(r.asked)
      BY DEF Inv, RunInv, RunAt, IsRun
    <3>3. FrameCount(r.asked) <= MaxFrames /\ Single(r.frames)
      BY DEF CeilingInv
    <3> QED BY <3>1, <3>2, <3>3, FilmCount
  <2> QED BY <2>1, <2>2
<1>2. /\ IsFiniteSet(Images(f))
      /\ Cardinality(Images(f)) <= Cardinality(DOMAIN f)
  BY <1>1, ImageCount
<1>3. /\ Cardinality(Images(f)) \in Nat /\ Cardinality(DOMAIN f) \in Nat
      /\ MaxFrames \in Nat
  BY <1>1, <1>2, FS_CardinalityType, StudioAssumption
<1> QED BY <1>1, <1>2, <1>3 DEF UnderCeiling

\* The bitmaps held decoded stay under the ceiling the estimate refused to
\* cross, whatever was built, cancelled or reused before (estimateBuild,
\* blockReason and the frames' discarding).
THEOREM StaysUnderCeiling == XSpec => []UnderCeiling
<1>1. XSpec => []CeilingInv
  BY StudioSteps, AlwaysInv, CeilingInit, CeilingStep, PTL
<1> QED BY <1>1, AlwaysInv, CeilingHolds, PTL

-----------------------------------------------------------------------------
(* The fetch window and the way to the end                                 *)

\* A run that waits for a day has asked for it and for the days after it, up
\* to the window, and for no other: its wait always has an answer to come, and
\* no more than Window days are fetched at once.
FetchesAhead ==
    \A n \in DOMAIN runs :
        LET r == runs[n] IN
        r.phase = "await" =>
            DOMAIN r.loads = {d \in r.asked.first .. r.asked.last :
                                r.day <= d /\ d < r.day + Window}

\* While the day in hand is painted the window is a day ahead.
Ahead(r) ==
    /\ r.phase = "await" =>
          DOMAIN r.loads = {d \in r.asked.first .. r.asked.last :
                              r.day <= d /\ d < r.day + Window}
    /\ r.phase = "render" =>
          DOMAIN r.loads = {d \in r.asked.first .. r.asked.last :
                              r.day < d /\ d <= r.day + Window}

InFlight(r) == {d \in DOMAIN r.loads : r.loads[d] = "flight"}
Rank(r) == CASE r.phase = "grid" -> 0
             [] r.phase = "await" -> 1
             [] OTHER -> 2

\* q is nearer the end of its build than r: a later look, a later day, a later
\* phase, an answer more, or cancelled.
Nearer(q, r) ==
    \/ q.look > r.look
    \/ q.look = r.look /\ q.day > r.day
    \/ q.look = r.look /\ q.day = r.day /\ Rank(q) > Rank(r)
    \/ /\ q.look = r.look /\ q.day = r.day /\ q.phase = r.phase
       /\ q.aborted = r.aborted
       /\ InFlight(q) \subseteq InFlight(r) /\ InFlight(q) # InFlight(r)
    \/ ~r.aborted /\ q = [r EXCEPT !.aborted = TRUE]

\* Every step that touches a build brings it nearer its end: looks, days,
\* phases and answers only ever go one way, so no build goes round in circles.
OnlyNearer ==
    [][\A n \in DOMAIN runs :
          n \in DOMAIN runs' => runs'[n] = runs[n] \/ Nearer(runs'[n], runs[n])]_vars

\* What the helpers make of the window and the place in the film.
LEMMA TakenAhead ==
  ASSUME NEW n, NEW r, RunAt(n, r, r.day - 1), r.phase = "await", Ahead(r)
  PROVE  /\ Shaped(Taken(r)) /\ Taken(r).asked = r.asked
         /\ Taken(r).look = r.look /\ Taken(r).day = r.day
         /\ DOMAIN Taken(r).loads = {d \in r.asked.first .. r.asked.last :
                                       r.day < d /\ d <= r.day + Window}
<1>1. Shaped(r)
  BY DEF RunAt, IsRun, Shaped
<1> PICK kept : kept = DOMAIN r.loads \ {r.day}
  OBVIOUS
<1> PICK more : more = IF r.day + Window <= r.asked.last
                       THEN {r.day + Window} ELSE {}
  OBVIOUS
<1> PICK l : l = [d \in kept \cup more |->
                    IF d \in kept THEN r.loads[d] ELSE "flight"]
  OBVIOUS
<1>2. Taken(r) = [r EXCEPT !.loads = l] /\ DOMAIN l = kept \cup more
  BY DEF Taken
<1>3. /\ r.asked.first \in Nat /\ r.asked.last \in Nat /\ r.day \in Nat
      /\ r.asked.first <= r.day /\ r.day <= r.asked.last /\ Window \in Nat \ {0}
  BY StudioAssumption DEF RunAt, IsRun, Request, Days
<1>4. kept = {d \in r.asked.first .. r.asked.last :
                r.day < d /\ d < r.day + Window}
  BY <1>3 DEF Ahead
<1>5. DOMAIN l = {d \in r.asked.first .. r.asked.last :
                    r.day < d /\ d <= r.day + Window}
  BY <1>2, <1>3, <1>4
<1>6. Taken(r).loads = l
  BY <1>1, <1>2 DEF Shaped
<1> QED BY <1>1, <1>5, <1>6, TakenShape

\* A look begins with the window filled from its first day.
LEMMA BegunAhead ==
  ASSUME NEW r, Shaped(r), r.asked \in Request
  PROVE  LET b == Begun(r) IN
         Ahead(b) /\ b.look = r.look /\ b.day = r.asked.first /\ b.phase = "await"
<1>1. Begun(r) = [r EXCEPT !.phase = "await", !.day = r.asked.first,
                           !.loads = FirstLoads(r.asked), !.previous = {}]
  BY DEF Begun
<1>2. /\ Begun(r).asked = r.asked /\ Begun(r).look = r.look
      /\ Begun(r).day = r.asked.first /\ Begun(r).phase = "await"
      /\ Begun(r).loads = FirstLoads(r.asked)
  BY <1>1 DEF Shaped
<1>3. r.asked.first \in Nat /\ r.asked.last \in Nat
  BY DEF Request, Days
<1>4. DOMAIN FirstLoads(r.asked)
        = {d \in r.asked.first .. r.asked.last :
             r.asked.first <= d /\ d < r.asked.first + Window}
  BY <1>3 DEF FirstLoads
<1> QED BY <1>2, <1>4 DEF Ahead

\* A run that goes on to the next day or the next look is ahead again.
LEMMA AdvancedAhead ==
  ASSUME NEW r, Shaped(r), r.asked \in Request, r.look \in Nat, r.day \in Nat,
         DOMAIN r.loads = {d \in r.asked.first .. r.asked.last :
                             r.day < d /\ d <= r.day + Window}
  PROVE  LET q == Advanced(r) IN
         /\ Ahead(q)
         /\ q.look > r.look \/ (q.look = r.look /\ q.day > r.day)
<1>1. CASE LookEnds(r)
  <2> PICK s : s = [r EXCEPT !.look = @ + 1]
    OBVIOUS
  <2>1. Shaped(s) /\ s.asked = r.asked /\ s.look = r.look + 1
    BY DEF Shaped
  <2>2. Advanced(r) = Begun(s)
    BY <1>1 DEF Advanced
  <2>3. Ahead(Begun(s)) /\ Begun(s).look = s.look
    BY <2>1, BegunAhead
  <2> QED BY <2>1, <2>2, <2>3
<1>2. CASE ~LookEnds(r)
  <2>1. Advanced(r) = [r EXCEPT !.phase = "await", !.day = @ + 1]
    BY <1>2 DEF Advanced
  <2>2. /\ Advanced(r).asked = r.asked /\ Advanced(r).look = r.look
        /\ Advanced(r).day = r.day + 1 /\ Advanced(r).phase = "await"
        /\ Advanced(r).loads = r.loads
    BY <2>1 DEF Shaped
  <2>3. r.asked.first \in Nat /\ r.asked.last \in Nat /\ Window \in Nat
    BY StudioAssumption DEF Request, Days
  <2>4. DOMAIN r.loads = {d \in r.asked.first .. r.asked.last :
                            r.day + 1 <= d /\ d < r.day + 1 + Window}
    BY <2>3
  <2> QED BY <2>2, <2>4 DEF Ahead
<1> QED BY <1>1, <1>2

\* Registering a frame leaves the window and the place alone.
LEMMA PushedAhead ==
  ASSUME NEW r, Shaped(r), NEW image
  PROVE  LET p == Pushed(r, image) IN
         /\ Shaped(p) /\ p.asked = r.asked /\ p.look = r.look /\ p.day = r.day
         /\ p.loads = r.loads
<1> PICK f : Pushed(r, image) = [r EXCEPT !.frames = f, !.previous = {r.day}]
  BY DEF Pushed
<1> QED BY DEF Shaped

\* A run goes on: to what is ahead, and nearer its end.
GoesOn(q, r) == Ahead(q) /\ Nearer(q, r)

\* A run that leaves an await is over, or further on.
LEMMA ProceedAhead ==
  ASSUME NEW n \in DOMAIN runs, NEW q, NEW made, Proceeds(n, q, made),
         Shaped(q), q.asked \in Request,
         q.look = runs[n].look, q.day = runs[n].day, q.look \in Nat, q.day \in Nat,
         DOMAIN q.loads = {d \in q.asked.first .. q.asked.last :
                             q.day < d /\ d <= q.day + Window},
         DOMAIN runs = {n}
  PROVE  \A m \in DOMAIN runs' : m = n /\ GoesOn(runs'[m], runs[m])
<1>1. CASE Finishes(n, q, made)
  BY <1>1 DEF Finishes, Returned, Without
<1>2. CASE ~Finishes(n, q, made)
  <2>1. runs' = [runs EXCEPT ![n] = Advanced(q)]
    BY <1>2 DEF Proceeds
  <2>2. /\ Ahead(Advanced(q))
        /\ Advanced(q).look > q.look
             \/ (Advanced(q).look = q.look /\ Advanced(q).day > q.day)
    BY AdvancedAhead
  <2> QED BY <2>1, <2>2 DEF GoesOn, Nearer
<1> QED BY <1>1, <1>2

\* Every step of a run does.
LEMMA RunnerAhead ==
  ASSUME Inv, NEW n \in DOMAIN runs, Ahead(runs[n]), Runner(n)
  PROVE  \A m \in DOMAIN runs' : m = n /\ (runs'[m] = runs[m] \/ GoesOn(runs'[m], runs[m]))
<1> PICK r : r = runs[n]
  OBVIOUS
<1>1. /\ DOMAIN runs = {n} /\ RunInv(n, r) /\ RunAt(n, r, r.day - 1) /\ Shaped(r)
      /\ r.asked \in Request /\ r.look \in Nat /\ r.day \in Nat /\ Ahead(r)
      /\ r.aborted \in BOOLEAN
  <2>1. DOMAIN runs = {n}
    BY OnlyRun
  <2>2. RunInv(n, r)
    BY DEF Inv
  <2>3. RunAt(n, r, r.day - 1)
    BY <2>2 DEF RunInv
  <2>4. IsRun(r)
    BY <2>3 DEF RunAt
  <2>5. /\ r.asked \in Request /\ r.look \in Nat /\ r.day \in Nat
        /\ r.aborted \in BOOLEAN /\ Shaped(r)
    BY <2>4 DEF IsRun, Shaped
  <2> QED BY <2>1, <2>2, <2>3, <2>5
<1>2. ASSUME NEW frames, NEW made, NEW cancelled,
             Fails(n, frames, made, cancelled)
      PROVE  DOMAIN runs' = {}
  BY <1>1, <1>2 DEF Fails, Returned, Without
<1>3. CASE Begin(n)
  <2>1. CASE r.aborted
    BY <1>1, <1>2, <1>3, <2>1 DEF Begin
  <2>2. CASE ~r.aborted
    <3>1. runs' = [runs EXCEPT ![n] = Begun(r)] /\ r.phase = "grid"
      BY <1>3, <2>2 DEF Begin
    <3>2. /\ Ahead(Begun(r)) /\ Begun(r).look = r.look
          /\ Begun(r).day = r.day /\ Begun(r).phase = "await"
      BY <1>1, <3>1, BegunAhead DEF RunInv
    <3>3. Nearer(Begun(r), r)
      BY <3>1, <3>2 DEF Nearer, Rank
    <3> QED BY <1>1, <3>1, <3>2, <3>3 DEF GoesOn
  <2> QED BY <2>1, <2>2
<1>4. CASE \/ GridFails(n) \/ DayFails(n) \/ PaintFails(n)
          \/ Fails(n, r.frames, {}, FALSE)
  <2>1. \E frames, made, cancelled : Fails(n, frames, made, cancelled)
    BY <1>4 DEF GridFails, DayFails, PaintFails
  <2> QED BY <1>1, <1>2, <2>1
<1>5. CASE SkipDay(n)
  <2> PICK t : t = Taken(r)
    OBVIOUS
  <2>1. Proceeds(n, t, {}) /\ r.phase = "await"
    BY <1>5 DEF SkipDay, Arrived, Awaited
  <2>2. /\ Shaped(t) /\ t.asked = r.asked /\ t.look = r.look /\ t.day = r.day
        /\ DOMAIN t.loads = {d \in r.asked.first .. r.asked.last :
                               r.day < d /\ d <= r.day + Window}
    BY <1>1, <2>1, TakenAhead
  <2> QED BY <1>1, <2>1, <2>2, ProceedAhead
<1>6. CASE ReuseDay(n) /\ ~Fails(n, r.frames, {}, FALSE)
  <2> PICK t : t = Taken(r)
    OBVIOUS
  <2> PICK p : p = Pushed(t, Reused(r))
    OBVIOUS
  <2>1. Proceeds(n, p, {}) /\ r.phase = "await"
    BY <1>6 DEF ReuseDay, Arrived, Awaited
  <2>2. /\ Shaped(t) /\ t.asked = r.asked /\ t.look = r.look /\ t.day = r.day
        /\ DOMAIN t.loads = {d \in r.asked.first .. r.asked.last :
                               r.day < d /\ d <= r.day + Window}
    BY <1>1, <2>1, TakenAhead
  <2>3. /\ Shaped(p) /\ p.asked = t.asked /\ p.look = t.look /\ p.day = t.day
        /\ p.loads = t.loads
    BY <2>2, PushedAhead
  <2> QED BY <1>1, <2>1, <2>2, <2>3, ProceedAhead
<1>7. CASE RenderDay(n)
  <2> PICK t : t = Taken(r)
    OBVIOUS
  <2>1. runs' = [runs EXCEPT ![n] = [t EXCEPT !.phase = "render"]]
        /\ r.phase = "await"
    BY <1>7 DEF RenderDay, Arrived, Awaited
  <2>2. /\ Shaped(t) /\ t.asked = r.asked /\ t.look = r.look /\ t.day = r.day
        /\ DOMAIN t.loads = {d \in r.asked.first .. r.asked.last :
                               r.day < d /\ d <= r.day + Window}
    BY <1>1, <2>1, TakenAhead
  <2> PICK q : q = [t EXCEPT !.phase = "render"]
    OBVIOUS
  <2>3. /\ q.asked = r.asked /\ q.look = r.look /\ q.day = r.day
        /\ q.phase = "render" /\ q.loads = t.loads
    BY <2>2 DEF Shaped
  <2>4. Ahead(q) /\ Nearer(q, r)
    BY <2>1, <2>2, <2>3 DEF Ahead, Nearer, Rank
  <2> QED BY <1>1, <2>1, <2>4 DEF GoesOn
<1>8. CASE PaintDay(n)
  <2> PICK made : made = Made(n, r)
    OBVIOUS
  <2> PICK p : p = Pushed(r, made)
    OBVIOUS
  <2>1. /\ r.phase = "render"
        /\ \/ Fails(n, p.frames, made, TRUE)
           \/ Proceeds(n, p, made)
    BY <1>8 DEF PaintDay
  <2>2. /\ Shaped(p) /\ p.asked = r.asked /\ p.look = r.look /\ p.day = r.day
        /\ p.loads = r.loads
    BY <1>1, PushedAhead
  <2>3. DOMAIN p.loads = {d \in p.asked.first .. p.asked.last :
                            p.day < d /\ d <= p.day + Window}
    BY <1>1, <2>1, <2>2 DEF Ahead
  <2> QED BY <1>1, <1>2, <2>1, <2>2, <2>3, ProceedAhead
<1>9. CASE \E day \in Days : Settle(n, day)
  <2>1. PICK day \in DOMAIN r.loads, result \in {"ok", "failed"} :
           /\ r.loads[day] = "flight"
           /\ runs' = [runs EXCEPT ![n] = Settled(r, day, result)]
    BY <1>9 DEF Settle
  <2> PICK q : q = Settled(r, day, result)
    OBVIOUS
  <2>2. /\ q.asked = r.asked /\ q.look = r.look /\ q.day = r.day
        /\ q.phase = r.phase /\ q.aborted = r.aborted
        /\ q.loads = [r.loads EXCEPT ![day] = result]
    BY <1>1 DEF Settled, Shaped
  <2>3. InFlight(q) = InFlight(r) \ {day} /\ day \in InFlight(r)
    BY <2>1, <2>2 DEF InFlight
  <2>4. Ahead(q) /\ Nearer(q, r)
    BY <1>1, <2>2, <2>3 DEF Ahead, Nearer
  <2> QED BY <1>1, <2>1, <2>4 DEF GoesOn
<1> QED BY <1>3, <1>4, <1>5, <1>6, <1>7, <1>8, <1>9 DEF Runner

\* A visitor starts a build when there is none, or cancels the one there is.
LEMMA VisitorAhead ==
  ASSUME Inv, \A n \in DOMAIN runs : Ahead(runs[n]), Visitor \/ Session
  PROVE  /\ \A n \in DOMAIN runs' : Ahead(runs'[n])
         /\ \A n \in DOMAIN runs :
              n \in DOMAIN runs' => runs'[n] = runs[n] \/ Nearer(runs'[n], runs[n])
<1>1. CASE StartBuild
  <2>1. DOMAIN runs = {}
    BY <1>1 DEF StartBuild, BlockReason, Inv, Steady
  <2>2. \A m \in DOMAIN runs' : runs'[m] = NewRun(Asked)
    BY <1>1, <2>1 DEF StartBuild
  <2>3. Ahead(NewRun(Asked))
    <3> PICK q : q = [asked |-> Asked, phase |-> "grid", look |-> 1,
                      day |-> Asked.first, loads |-> Nothing, previous |-> {},
                      frames |-> Nothing, aborted |-> FALSE]
      OBVIOUS
    <3>1. NewRun(Asked) \in {q, Begun(q)}
      BY DEF NewRun
    <3>2. Shaped(q) /\ q.asked \in Request /\ q.phase = "grid"
      BY AskedFacts DEF Inv, Shaped
    <3>3. Ahead(q)
      BY <3>2 DEF Ahead
    <3>4. Ahead(Begun(q))
      BY <3>2, BegunAhead
    <3> QED BY <3>1, <3>3, <3>4
  <2> QED BY <2>1, <2>2, <2>3
<1>2. CASE CancelBuild \/ Leave
  <2>1. runs' = Aborted
    BY <1>2 DEF CancelBuild, Leave
  <2>2. ASSUME NEW n \in DOMAIN runs
        PROVE  /\ Ahead(runs'[n])
               /\ runs'[n] = runs[n] \/ Nearer(runs'[n], runs[n])
    <3> PICK r : r = runs[n]
      OBVIOUS
    <3>1. Shaped(r) /\ r.aborted \in BOOLEAN /\ Ahead(r)
      BY DEF Inv, RunInv, RunAt, IsRun, Shaped
    <3> PICK q : q = [r EXCEPT !.aborted = TRUE]
      OBVIOUS
    <3>2. runs'[n] \in {r, q}
      BY <2>1 DEF Aborted
    <3>3. /\ q.asked = r.asked /\ q.look = r.look /\ q.day = r.day
          /\ q.phase = r.phase /\ q.loads = r.loads
      BY <3>1 DEF Shaped
    <3>4. Ahead(q)
      BY <3>1, <3>3 DEF Ahead
    <3>5. q = r \/ Nearer(q, r)
      <4>1. CASE r.aborted
        BY <3>1, <4>1 DEF Shaped
      <4>2. CASE ~r.aborted
        BY <4>2 DEF Nearer
      <4> QED BY <4>1, <4>2
    <3> QED BY <3>1, <3>2, <3>4, <3>5
  <2>3. DOMAIN runs' = DOMAIN runs
    BY <2>1 DEF Aborted
  <2> QED BY <2>2, <2>3
<1>3. CASE ~StartBuild /\ ~CancelBuild /\ ~Leave
  <2>1. runs' = runs
    BY <1>3 DEF Visitor, ToggleLayer, AddClip, RemoveClip, MoveClip, PickFocus,
                PickRange, PickSize, GoTo, StartOver, BackToDays, Choose,
                Session, SignIn, IndexArrives, IndexFails
  <2> QED BY <2>1
<1> QED BY <1>1, <1>2, <1>3

\* Every build in the table has its window.
AllAhead == \A n \in DOMAIN runs : Ahead(runs[n])

\* Every step keeps the windows, and a build it touches comes nearer its end.
LEMMA AheadStep ==
  ASSUME Inv, AllAhead, [Next]_vars
  PROVE  /\ AllAhead'
         /\ \A n \in DOMAIN runs :
              n \in DOMAIN runs' => runs'[n] = runs[n] \/ Nearer(runs'[n], runs[n])
<1>1. CASE Visitor \/ Session
  BY <1>1, VisitorAhead DEF AllAhead
<1>2. CASE GridArrives \/ UNCHANGED vars
  BY <1>2 DEF GridArrives, vars, AllAhead
<1>3. ASSUME NEW n \in DOMAIN runs, Runner(n)
      PROVE  /\ AllAhead'
             /\ \A m \in DOMAIN runs :
                  m \in DOMAIN runs' => runs'[m] = runs[m] \/ Nearer(runs'[m], runs[m])
  <2>1. \A m \in DOMAIN runs' :
           m = n /\ (runs'[m] = runs[m] \/ GoesOn(runs'[m], runs[m]))
    BY <1>3, RunnerAhead DEF AllAhead
  <2> QED BY <2>1 DEF AllAhead, GoesOn
<1> QED BY <1>1, <1>2, <1>3 DEF Next

\* So the windows are kept for good.
LEMMA AlwaysAhead == XSpec => []AllAhead
<1>1. Init => AllAhead
  BY DEF Init, AllAhead, Nothing
<1>2. Inv /\ AllAhead /\ [Next]_vars => AllAhead'
  BY AheadStep
<1> QED BY <1>1, <1>2, StudioSteps, AlwaysInv, PTL

\* The wait of a build always has an answer to come, and it never asks for more
\* than the window (runChronicleBuild's fill and take).
THEOREM WindowKept == XSpec => []FetchesAhead
<1>1. AllAhead => FetchesAhead
  BY DEF AllAhead, Ahead, FetchesAhead
<1> QED BY <1>1, AlwaysAhead, PTL

\* No build goes round in circles: what is left for fairness to do is to let
\* the finitely many steps of a build happen (startBuild, runChronicleBuild).
THEOREM BuildsOnlyGetNearer == XSpec => OnlyNearer
<1>1. Inv /\ AllAhead /\ [Next]_vars =>
        [\A n \in DOMAIN runs :
           n \in DOMAIN runs' => runs'[n] = runs[n] \/ Nearer(runs'[n], runs[n])]_vars
  BY AheadStep
<1> QED BY <1>1, AlwaysInv, AlwaysAhead, StudioSteps, PTL DEF OnlyNearer

-----------------------------------------------------------------------------
(* The export                                                              *)

\* What an export has drawn is what it captured, but for what is left.
ExportInv ==
    /\ gif \in [phase : {"idle", "render", "encode"}, frames : {gif.frames},
               left : {gif.left}, drawn : {gif.drawn}, aborted : BOOLEAN]
    /\ AreFrames(gif.frames)
    /\ gif.left \subseteq DOMAIN gif.frames
    /\ gif.drawn = [s \in DOMAIN gif.frames \ gif.left |-> Shows(gif.frames[s])]
    /\ gif.phase = "render" => gif.left # {}
    /\ gif.phase = "encode" => gif.left = {}

\* Numbers have a least one among them.
LEMMA LeastNumber ==
  ASSUME NEW S \in SUBSET Nat, S # {}
  PROVE  \E m \in S : \A n \in S : m <= n
<1> DEFINE Less == OpToRel(<, Nat)
<1>1. IsWellFoundedOn(Less, Nat)
  BY NatLessThanWellFounded
<1>2. \A m, n \in Nat : m < n => <<m, n>> \in Less
  BY DEF OpToRel
<1> HIDE DEF Less
<1>3. PICK m \in S : \A n \in S : ~(<<n, m>> \in Less)
  BY <1>1, WFMin
<1>4. ASSUME NEW n \in S PROVE m <= n
  <2>1. ~(n < m)
    BY <1>2, <1>3
  <2> QED BY <2>1
<1> QED BY <1>4

\* There is a next day as long as a day is left.
LEMMA NextIsLeft ==
  ASSUME gif.left \subseteq Slots, gif.left # {}
  PROVE  NextDay \in gif.left
<1> DEFINE looks == {s[1] : s \in gif.left}
<1>1. \A s \in gif.left : s[1] \in Nat /\ s[2] \in Nat
  BY StudioAssumption DEF Slots, Days
<1>2. looks \in SUBSET Nat /\ looks # {}
  <2>1. PICK s \in gif.left : TRUE
    OBVIOUS
  <2>2. s[1] \in looks
    OBVIOUS
  <2> QED BY <1>1, <2>2
<1>3. PICK i \in looks : \A k \in looks : i <= k
  <2> HIDE DEF looks
  <2> QED BY <1>2, LeastNumber
<1> DEFINE days == {s[2] : s \in {t \in gif.left : t[1] = i}}
<1>4. days \in SUBSET Nat /\ days # {}
  <2>1. PICK s \in gif.left : s[1] = i
    OBVIOUS
  <2>2. s[2] \in days
    BY <2>1
  <2> QED BY <1>1, <2>2
<1>5. PICK j \in days : \A k \in days : j <= k
  <2> HIDE DEF days
  <2> QED BY <1>4, LeastNumber
<1>6. PICK s \in gif.left : s[1] = i /\ s[2] = j
  OBVIOUS
<1>7. ASSUME NEW t \in gif.left PROVE Before(s, t)
  <2>1. t[1] \in looks /\ i <= t[1] /\ i \in Nat /\ t[1] \in Nat
    BY <1>1, <1>2, <1>3
  <2>2. CASE t[1] = i
    <3>1. t[2] \in days
      BY <2>2
    <3> QED BY <1>5, <1>6, <2>2, <3>1 DEF Before
  <2>3. CASE t[1] # i
    BY <1>6, <2>1, <2>3 DEF Before
  <2> QED BY <2>2, <2>3
<1> QED BY <1>7 DEF NextDay

LEMMA IdleExport == gif = Idle => ExportInv
BY DEF ExportInv, Idle, Nothing, AreFrames

\* Drawing a day, or giving up.
LEMMA DrawStep ==
  ASSUME ExportInv, DrawDay
  PROVE  ExportInv'
<1> DEFINE s0 == NextDay
           drawn1 == [s \in DOMAIN gif.drawn \cup {s0} |->
                        IF s = s0 THEN Shows(gif.frames[s0]) ELSE gif.drawn[s]]
           left1 == gif.left \ {s0}
<1>1. gif.left # {} /\ gif.left \subseteq DOMAIN gif.frames
      /\ gif.left \subseteq Slots /\ gif.phase = "render"
  BY DEF ExportInv, DrawDay, AreFrames
<1>2. s0 \in gif.left
  BY <1>1, NextIsLeft
<1>3. CASE gif' = Idle
  BY <1>3 DEF ExportInv, Idle, Nothing, AreFrames
<1>4. CASE gif' # Idle
  <2>1. gif' = [gif EXCEPT !.drawn = drawn1, !.left = left1,
                  !.phase = IF gif.left = {s0} THEN "encode" ELSE @]
    BY <1>4 DEF DrawDay, Drew
  <2>2. drawn1 = [s \in DOMAIN gif.frames \ left1 |-> Shows(gif.frames[s])]
    <3>1. gif.drawn = [s \in DOMAIN gif.frames \ gif.left |-> Shows(gif.frames[s])]
      BY DEF ExportInv
    <3>2. DOMAIN gif.drawn \cup {s0} = DOMAIN gif.frames \ left1
      BY <1>1, <1>2, <3>1
    <3>3. \A s \in DOMAIN gif.drawn : gif.drawn[s] = Shows(gif.frames[s])
      BY <3>1
    <3> HIDE DEF s0
    <3> QED BY <3>2, <3>3
  <2> HIDE DEF s0, drawn1
  <2>3. /\ gif'.frames = gif.frames /\ gif'.left = left1 /\ gif'.drawn = drawn1
        /\ gif'.phase = IF gif.left = {s0} THEN "encode" ELSE "render"
        /\ gif' \in [phase : {"idle", "render", "encode"}, frames : {gif'.frames},
                    left : {gif'.left}, drawn : {gif'.drawn}, aborted : BOOLEAN]
    BY <1>1, <2>1 DEF ExportInv
  <2>4. left1 \subseteq DOMAIN gif.frames
    BY <1>1
  <2>5. gif.left = {s0} <=> left1 = {}
    BY <1>2
  <2> QED BY <2>2, <2>3, <2>4, <2>5 DEF ExportInv
<1> QED BY <1>3, <1>4

\* The export keeps its invariant; the studio beside it at most aborts it.
LEMMA ExportStep == Inv /\ ExportInv /\ [XNext]_xvars => ExportInv'
<1> SUFFICES ASSUME Inv, ExportInv, [XNext]_xvars PROVE ExportInv'
  OBVIOUS
<1>1. CASE ExportGif
  <2>1. AreFrames(shown) /\ shown # Nothing
    BY <1>1 DEF Inv, TypeOK, ExportGif
  <2>2. DOMAIN shown # {}
    BY <2>1 DEF AreFrames, Nothing
  <2>3. gif' = [phase |-> "render", frames |-> shown, left |-> DOMAIN shown,
                drawn |-> Nothing, aborted |-> FALSE]
    BY <1>1 DEF ExportGif, Idle
  <2>4. Nothing = [s \in DOMAIN shown \ DOMAIN shown |-> Shows(shown[s])]
    BY DEF Nothing
  <2> QED BY <2>1, <2>2, <2>3, <2>4 DEF ExportInv
<1>2. CASE DrawDay
  BY <1>2, DrawStep
<1>3. CASE Encode
  BY <1>3 DEF Encode, ExportInv, Idle, Nothing, AreFrames
<1>4. CASE Alongside
  BY <1>4 DEF Alongside, ExportInv
<1>5. CASE UNCHANGED xvars
  BY <1>5 DEF xvars, ExportInv
<1> QED BY <1>1, <1>2, <1>3, <1>4, <1>5 DEF XNext, Exporter

LEMMA AlwaysExport == XSpec => []ExportInv
<1>1. XInit => ExportInv
  BY IdleExport DEF XInit
<1> QED BY <1>1, ExportStep, AlwaysInv, PTL DEF XSpec

\* What is encoded is the whole film that was on the screen when the export
\* began (exportGif, exportChronicleGif).
THEOREM ExportsOneFilm == XSpec => []ExportIsOneFilm
<1>1. ExportInv => ExportIsOneFilm
  <2> SUFFICES ASSUME ExportInv, gif.phase = "encode"
               PROVE  gif.drawn = Pictures(gif.frames)
    BY DEF ExportIsOneFilm
  <2>1. DOMAIN gif.frames \ gif.left = DOMAIN gif.frames
    BY DEF ExportInv
  <2> QED BY <2>1 DEF ExportInv, Pictures
<1> QED BY <1>1, AlwaysExport, PTL

\* Frames of builds that are over, none of them given up: whatever is painted
\* from now on is not among them.
OfThePast(frames) ==
    \A b \in Images(frames) : /\ b.build \in Nat /\ b.build <= builds
                              /\ b.build \notin DOMAIN runs /\ b \notin lost

\* The frames an export holds are of the past, like those on the screen, and
\* open for as long as they are the same.
HoldInv ==
    /\ OfThePast(shown)
    /\ gif.phase # "idle" => OfThePast(gif.frames)
    /\ ExportKeepsOrLosesItsFilm

\* A step of the studio begins at most one build, the next in number, and what
\* it gives up or puts on the screen comes from the build that was alive.
LEMMA StudioFacts ==
  ASSUME Inv, [Next]_vars
  PROVE  /\ builds \in Nat /\ builds' \in {builds, builds + 1}
         /\ \A n \in DOMAIN runs' : n \in DOMAIN runs \/ n = builds + 1
         /\ \A b \in lost' : b \in lost \/ b.build \in DOMAIN runs
         /\ \/ shown' \in {shown, Nothing}
            \/ \A b \in Images(shown') : /\ b.build \in DOMAIN runs
                                          /\ b.build \notin DOMAIN runs'
<1>0. builds \in Nat
  BY StudioAssumption DEF Inv, TypeOK
<1>1. CASE Visitor \/ Session
  BY <1>0, <1>1, ClickFacts
<1>2. ASSUME NEW n \in DOMAIN runs, Runner(n)
      PROVE  /\ builds' = builds
             /\ \A m \in DOMAIN runs' : m \in DOMAIN runs
             /\ \A b \in lost' : b \in lost \/ b.build \in DOMAIN runs
             /\ \/ shown' \in {shown, Nothing}
                \/ \A b \in Images(shown') : /\ b.build \in DOMAIN runs
                                              /\ b.build \notin DOMAIN runs'
  BY <1>2, RunnerStep DEF Outcome
<1>3. CASE GridArrives \/ UNCHANGED vars
  <2>1. builds' = builds /\ runs' = runs /\ lost' = lost /\ shown' = shown
    BY <1>3 DEF GridArrives, vars
  <2> QED BY <1>0, <2>1
<1> QED BY <1>0, <1>1, <1>2, <1>3 DEF Next

\* Frames of the past stay so.
LEMMA PastStays ==
  ASSUME Inv, [Next]_vars, NEW f, OfThePast(f)
  PROVE  OfThePast(f)'
BY StudioFacts DEF OfThePast

\* An export's bitmaps are on the screen or closed, after every step of the
\* studio beside it.
LEMMA HoldStudio ==
  ASSUME Inv, Inv', [Next]_vars, HoldInv, NEW f, OfThePast(f),
         IF shown = f THEN Images(f) \subseteq open
                      ELSE Images(f) \cap open = {}
  PROVE  IF shown' = f THEN Images(f) \subseteq open'
                       ELSE Images(f) \cap open' = {}
<1>1. OfThePast(f)'
  BY PastStays
<1>2. ASSUME NEW b \in Images(f)
      PROVE  b \in open' <=> b \in Images(shown')
  <2>1. \A n \in DOMAIN runs' : \A x \in Images(runs'[n].frames) : x.build = n
    BY DEF Inv, RunInv, RunAt, Images
  <2>2. b \notin lost' /\ b.build \notin DOMAIN runs'
    BY <1>1 DEF OfThePast
  <2>3. b \notin UNION {Images(runs'[n].frames) : n \in DOMAIN runs'}
    BY <2>1, <2>2
  <2> QED BY <2>2, <2>3 DEF Inv, BitmapsAccountedFor, Held, HeldBy
<1>3. Images(shown) \subseteq open
  BY DEF Inv, BitmapsAccountedFor, Held, HeldBy
<1>4. CASE shown' = shown
  BY <1>2, <1>3, <1>4
<1>5. CASE shown' = Nothing
  BY <1>2, <1>5, HeldFacts
<1>6. CASE shown' \notin {shown, Nothing}
  <2>1. \A b \in Images(shown') : b.build \in DOMAIN runs
    BY <1>6, StudioFacts
  <2>2. Images(f) \cap Images(shown') = {}
    BY <2>1 DEF OfThePast
  <2> QED BY <1>2, <2>2
<1> QED BY <1>4, <1>5, <1>6

\* Whatever the studio does beside it, and wherever the export stands.
LEMMA HoldStep ==
  ASSUME Inv, Inv', ExportInv, HoldInv, [XNext]_xvars
  PROVE  HoldInv'
<1>1. [Next]_vars
  BY DEF XNext, xvars, Exporter, ExportGif, DrawDay, Encode
<1>2. OfThePast(shown)'
  <2>1. CASE shown' \in {shown, Nothing}
    <3>1. OfThePast(shown) /\ OfThePast(Nothing)
      BY HeldFacts DEF HoldInv, OfThePast
    <3> PICK f : f = shown'
      OBVIOUS
    <3>2. OfThePast(f)'
      BY <1>1, <2>1, <3>1, PastStays
    <3> QED BY <3>2 DEF OfThePast
  <2>2. CASE shown' \notin {shown, Nothing}
    <3>1. \A b \in Images(shown') : /\ b.build \in DOMAIN runs
                                    /\ b.build \notin DOMAIN runs'
      BY <1>1, <2>2, StudioFacts
    <3>2. \A n \in DOMAIN runs : n \in 1 .. builds
      BY DEF Inv, RunInv
    <3>3. \A b \in Images(shown') : b \notin lost'
      BY DEF Inv, BitmapsAccountedFor, Held, HeldBy
    <3> QED BY <1>1, <3>1, <3>2, <3>3, StudioFacts DEF OfThePast
  <2> QED BY <2>1, <2>2
<1>3. ASSUME gif'.phase # "idle"
      PROVE  /\ OfThePast(gif.frames)'
             /\ IF shown' = gif'.frames
                THEN Images(gif'.frames) \subseteq open'
                ELSE Images(gif'.frames) \cap open' = {}
  <2>1. CASE ExportGif
    <3>1. gif'.frames = shown /\ shown' = shown /\ open' = open
      BY <2>1 DEF ExportGif, Idle, vars
    <3>2. Images(shown) \subseteq open
      BY DEF Inv, BitmapsAccountedFor, Held, HeldBy
    <3> QED BY <1>2, <3>1, <3>2 DEF OfThePast
  <2>2. CASE ~ExportGif
    <3>1. gif'.frames = gif.frames /\ gif.phase # "idle"
      <4>1. CASE Alongside
        BY <1>3, <4>1 DEF Alongside, ExportInv
      <4>2. CASE DrawDay
        <5>1. gif' # Idle /\ gif.phase = "render"
          BY <1>3, <4>2 DEF DrawDay, Idle
        <5>2. gif' = Drew(NextDay, gif.frames[NextDay])
          BY <4>2, <5>1 DEF DrawDay
        <5>3. gif \in [phase : {"idle", "render", "encode"},
                       frames : {gif.frames}, left : {gif.left},
                       drawn : {gif.drawn}, aborted : BOOLEAN]
          BY DEF ExportInv
        <5>4. gif'.frames = gif.frames
          BY <5>2, <5>3 DEF Drew
        <5> QED BY <5>1, <5>4
      <4>3. CASE Encode
        BY <1>3, <4>3 DEF Encode, Idle
      <4>4. CASE UNCHANGED xvars
        BY <1>3, <4>4 DEF xvars
      <4> QED BY <2>2, <4>1, <4>2, <4>3, <4>4 DEF XNext, Exporter
    <3> PICK f : f = gif.frames
      OBVIOUS
    <3>2. /\ OfThePast(f)
          /\ IF shown = f THEN Images(f) \subseteq open
                          ELSE Images(f) \cap open = {}
      BY <3>1 DEF HoldInv, ExportKeepsOrLosesItsFilm
    <3>3. OfThePast(f)'
      BY <1>1, <3>2, PastStays
    <3>4. IF shown' = f THEN Images(f) \subseteq open'
                        ELSE Images(f) \cap open' = {}
      BY <1>1, <3>2, HoldStudio
    <3> QED BY <3>1, <3>3, <3>4 DEF OfThePast
  <2> QED BY <2>1, <2>2
<1> QED BY <1>2, <1>3 DEF HoldInv, ExportKeepsOrLosesItsFilm

\* The bitmaps an export still has to draw are all open as long as its film is
\* on the screen, and all closed from then on, whatever is built, cancelled or
\* left beside it (discardFrames, disposeChronicleFrames).
THEOREM ExportHoldsItsFilm == XSpec => []ExportKeepsOrLosesItsFilm
<1>1. XInit => HoldInv
  BY HeldFacts DEF XInit, Init, Idle, HoldInv, OfThePast,
                   ExportKeepsOrLosesItsFilm
<1>2. Inv /\ Inv' /\ ExportInv /\ HoldInv /\ [XNext]_xvars => HoldInv'
  BY HoldStep
<1>3. HoldInv => ExportKeepsOrLosesItsFilm
  BY DEF HoldInv
<1> QED BY <1>1, <1>2, <1>3, AlwaysInv, AlwaysExport, PTL DEF XSpec

\* Every step of an export ends it, draws one day more, or aborts it; an export
\* that is aborted draws nothing more.
ExportOnlyNearer ==
    [][gif.phase # "idle" =>
          \/ gif' \in {gif, Idle, [gif EXCEPT !.aborted = TRUE]}
          \/ /\ ~gif.aborted /\ ~gif'.aborted /\ gif'.frames = gif.frames
             /\ gif'.left \subseteq gif.left /\ gif'.left # gif.left]_xvars

\* Whatever is built, discarded or left meanwhile, an export has only the days
\* it captured to draw, each once (exportGif, exportChronicleGif).
THEOREM ExportsOnlyGetNearer == XSpec => ExportOnlyNearer
<1> DEFINE Near == \/ gif' \in {gif, Idle, [gif EXCEPT !.aborted = TRUE]}
                   \/ /\ ~gif.aborted /\ ~gif'.aborted /\ gif'.frames = gif.frames
                      /\ gif'.left \subseteq gif.left /\ gif'.left # gif.left
<1>1. ASSUME ExportInv, XNext, gif.phase # "idle"
      PROVE  Near
  <2>1. CASE Alongside
    BY <2>1 DEF Alongside
  <2>2. CASE DrawDay /\ gif' # Idle
    <3>1. NextDay \in gif.left
      <4>1. gif.left # {} /\ gif.left \subseteq Slots
        BY <1>1, <2>2 DEF ExportInv, AreFrames, DrawDay
      <4> QED BY <4>1, NextIsLeft
    <3>2. /\ ~gif.aborted /\ gif'.aborted = gif.aborted
          /\ gif'.frames = gif.frames /\ gif'.left = gif.left \ {NextDay}
      BY <1>1, <2>2 DEF DrawDay, Drew, ExportInv
    <3> QED BY <3>1, <3>2
  <2>3. CASE ExportGif \/ Encode
    BY <1>1, <2>3 DEF ExportGif, Encode
  <2> QED BY <1>1, <2>1, <2>2, <2>3 DEF XNext, Exporter
<1>2. ExportInv /\ [XNext]_xvars => [gif.phase # "idle" => Near]_xvars
  BY <1>1
<1> QED BY <1>2, AlwaysExport, PTL DEF XSpec, ExportOnlyNearer
=============================================================================
