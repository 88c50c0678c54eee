--------------------------- MODULE CreationProofs ---------------------------
(***************************************************************************)
(* The promises of the creation wizard, for every catalog, every bound on  *)
(* the requests and every order of clicks and requests: the picks are      *)
(* always allowed, pruning them keeps the most, one visit stores one       *)
(* character at most, the backend accepts what the wizard sends, and a     *)
(* stored create only goes forward.                                        *)
(***************************************************************************)
EXTENDS CreationSubmit, FiniteSetTheorems, WellFoundedInduction, TLAPS

Drafts == [picks : SUBSET Traits, race : RaceIds, age : Nat, clues : 0 .. MaxClues]

\* No temporary trait of a step that offers permanent ones.
FromTheirSteps(picks) ==
    \A t \in picks, s \in TraitStages :
        s.key = Trait[t].key /\ s.permanent => ~Trait[t].temporary

\* What may come with a set of picks, and stays true of any part of it.
Harmless(picks, open) ==
    /\ FromTheirSteps(picks)
    /\ \A s, t \in picks : ~Exclusive(s, t)
    /\ \A p \in picks, t \in picks :
          Trait[p].key = "prosthetic" => t \notin Trait[p].replaces
    /\ \A t \in picks : Trait[t].seasoned => open

PicksInv ==
    /\ draft \in Drafts /\ unlocked \in BOOLEAN
    /\ Harmless(draft.picks, unlocked)
    /\ draft.picks \subseteq KeptBeside(draft.picks, draft.race, unlocked)

-----------------------------------------------------------------------------
\* A requirement that is met stays met beside more picks.
LEMMA MetMonotone ==
    ASSUME NEW needs, NEW race, NEW small, NEW large,
           small \subseteq large, Met(needs, small, race)
    PROVE  Met(needs, large, race)
BY DEF Met

\* So a pick that may stay beside some picks may stay beside more.
LEMMA KeptMonotone ==
    ASSUME NEW race, NEW open, NEW small, NEW large, small \subseteq large
    PROVE  KeptBeside(small, race, open) \subseteq KeptBeside(large, race, open)
<1> SUFFICES ASSUME NEW t \in KeptBeside(small, race, open)
             PROVE  t \in KeptBeside(large, race, open)
    OBVIOUS
<1>1. OpenKeys(small, race, open) \subseteq OpenKeys(large, race, open)
    BY MetMonotone DEF OpenKeys, IsPlayable
<1>2. Met(Trait[t].needs, large \ {t}, race)
    <2>1. Met(Trait[t].needs, small \ {t}, race)
        BY DEF KeptBeside
    <2> QED BY <2>1, MetMonotone, small \ {t} \subseteq large \ {t}
<1> QED BY <1>1, <1>2 DEF KeptBeside

\* What pruneUnavailableTraits leaves is part of the picks and may stay together.
LEMMA PrunedStays ==
    ASSUME NEW picks \in SUBSET Traits, NEW race \in RaceIds,
           NEW open \in BOOLEAN
    PROVE  /\ Pruned(picks, race, open) \subseteq picks
           /\ Pruned(picks, race, open) \subseteq
                 KeptBeside(Pruned(picks, race, open), race, open)
<1> DEFINE stay == {s \in SUBSET picks : s \subseteq KeptBeside(s, race, open)}
<1>1. Pruned(picks, race, open) = UNION stay
    BY DEF Pruned
<1>2. ASSUME NEW s \in stay
      PROVE  s \subseteq KeptBeside(UNION stay, race, open)
    <2>1. s \subseteq UNION stay
        OBVIOUS
    <2>2. KeptBeside(s, race, open) \subseteq KeptBeside(UNION stay, race, open)
        BY <2>1, KeptMonotone
    <2> QED BY <2>2
<1> HIDE DEF stay
<1>3. UNION stay \subseteq KeptBeside(UNION stay, race, open)
    BY <1>2
<1>4. UNION stay \subseteq picks
    BY DEF stay
<1> QED BY <1>1, <1>3, <1>4

\* Any change whose picks are harmless leaves picks that are allowed.
LEMMA SetDraftKeeps ==
    ASSUME NEW d \in Drafts, unlocked \in BOOLEAN, Harmless(d.picks, unlocked), SetDraft(d)
    PROVE  PicksInv'
<1> DEFINE p == Pruned(d.picks, d.race, unlocked)
<1>1. p \subseteq d.picks /\ p \subseteq KeptBeside(p, d.race, unlocked)
    BY PrunedStays DEF Drafts
<1>2. draft' = [d EXCEPT !.picks = p] /\ unlocked' = unlocked
    BY DEF SetDraft
<1> HIDE DEF p
<1>3. draft' \in Drafts /\ draft'.picks = p /\ draft'.race = d.race
    BY <1>1, <1>2 DEF Drafts
<1>4. Harmless(p, unlocked)
    BY <1>1 DEF Harmless, FromTheirSteps
<1> QED
    <2>1. draft' \in Drafts /\ unlocked' \in BOOLEAN
        BY <1>2, <1>3
    <2>2. Harmless(draft'.picks, unlocked')
        BY <1>2, <1>3, <1>4
    <2>3. draft'.picks \subseteq KeptBeside(draft'.picks, draft'.race, unlocked')
        BY <1>1, <1>2, <1>3
    <2> QED BY <2>1, <2>2, <2>3 DEF PicksInv

\* Taking replaced injuries away leaves nothing to be taken away.
LEMMA StripHarmless ==
    ASSUME NEW picks, NEW open, FromTheirSteps(picks),
           \A s, t \in picks : ~Exclusive(s, t),
           \A t \in picks : Trait[t].seasoned => open
    PROVE  Harmless(Strip(picks), open) /\ Strip(picks) \subseteq picks
BY DEF Harmless, FromTheirSteps, Strip, Selected

\* An unpick takes picks away and adds none.
LEMMA UnpickKeeps ==
    ASSUME PicksInv, NEW stage \in TraitStages, NEW t \in Traits, Unpick(stage, t)
    PROVE  PicksInv'
<1> DEFINE kept == Selected(draft.picks, stage.key) \ {t}
           picks == (draft.picks \ Selected(draft.picks, stage.key)) \cup kept
           d == [draft EXCEPT !.picks = Strip(picks)]
<1>1. SetDraft(d)
    BY DEF Unpick, SetTraits, SetTraitsForKey
<1>2. picks \subseteq draft.picks
    BY DEF Selected
<1> HIDE DEF picks
<1>3. Harmless(Strip(picks), unlocked) /\ Strip(picks) \subseteq picks
    BY <1>2, StripHarmless DEF PicksInv, Harmless, FromTheirSteps
<1>4. d \in Drafts /\ d.picks = Strip(picks)
    BY <1>2, <1>3 DEF PicksInv, Drafts
<1> QED BY <1>1, <1>3, <1>4, SetDraftKeeps DEF PicksInv

\* A pick is blocked by what stays beside it, whichever of the two lists the
\* other, so that it brings no exclusive pair.
LEMMA PickKeeps ==
    ASSUME PicksInv, NEW stage \in TraitStages,
           NEW t \in TraitsForStage(stage), Pick(stage, t)
    PROVE  PicksInv'
<1> DEFINE selected == Selected(draft.picks, stage.key)
           next == IF stage.max <= 1 THEN {t} ELSE selected \cup {t}
           others == (draft.picks \ TraitsForStage(stage)) \cup next
           picks == (draft.picks \ selected) \cup next
           d == [draft EXCEPT !.picks = Strip(picks)]
<1>1. SetDraft(d)
    BY DEF Pick, SetTraits, SetTraitsForKey
<1>2. ~ExclusiveBlocked(t, others) /\ (Trait[t].seasoned => unlocked)
    BY DEF Pick
<1>3. t \in Traits /\ picks \subseteq draft.picks \cup {t}
    BY DEF TraitsForStage, Selected
<1>4. picks \subseteq others
    BY DEF TraitsForStage, Selected
<1> HIDE DEF others, picks
<1>5. \A o \in picks : ~Exclusive(t, o) /\ ~Exclusive(o, t)
    BY <1>2, <1>4 DEF ExclusiveBlocked, Exclusive
<1>6. \A s, u \in picks : ~Exclusive(s, u)
    BY <1>3, <1>5 DEF PicksInv, Harmless
<1>7. \A u \in picks : Trait[u].seasoned => unlocked
    BY <1>2, <1>3 DEF PicksInv, Harmless
<1>8. Harmless(Strip(picks), unlocked) /\ Strip(picks) \subseteq picks
    <2>1. ASSUME NEW s \in TraitStages, s.key = Trait[t].key, s.permanent
          PROVE  ~Trait[t].temporary
        <3>1. Trait[t].key = stage.key /\ (stage.permanent => ~Trait[t].temporary)
            BY DEF TraitsForStage
        <3>2. s = stage
            BY <2>1, <3>1, CatalogAssumption
        <3> QED BY <2>1, <3>1, <3>2
    <2>2. FromTheirSteps(picks)
        BY <1>3, <2>1 DEF PicksInv, Harmless, FromTheirSteps
    <2> QED BY <1>6, <1>7, <2>2, StripHarmless
<1>9. d \in Drafts /\ d.picks = Strip(picks)
    BY <1>3, <1>8 DEF PicksInv, Drafts
<1> QED BY <1>1, <1>8, <1>9, SetDraftKeeps DEF PicksInv

\* Whatever the visitor does to the draft, its picks are allowed again.
LEMMA FillKeeps ==
    ASSUME PicksInv, Fill
    PROVE  PicksInv'
<1>1. CASE SetSkin
    BY <1>1 DEF SetSkin, PicksInv
<1>2. ASSUME NEW a \in Ages, SetAge(a)
      PROVE  PicksInv'
    <2> DEFINE d == [draft EXCEPT !.age = a]
    <2>1. d \in Drafts /\ d.picks = draft.picks
        BY WizardAssumption DEF PicksInv, Drafts
    <2>2. SetDraft(d)
        BY <1>2 DEF SetAge
    <2> QED BY <2>1, <2>2, SetDraftKeeps DEF PicksInv
<1>3. ASSUME NEW n \in 0 .. MaxClues, SetClues(n)
      PROVE  PicksInv'
    <2> DEFINE d == [draft EXCEPT !.clues = n]
    <2> MaxClues \in Nat
        BY CatalogAssumption
    <2>1. d \in Drafts /\ d.picks = draft.picks
        BY DEF PicksInv, Drafts
    <2>2. SetDraft(d)
        BY <1>3 DEF SetClues
    <2> QED BY <2>1, <2>2, SetDraftKeeps DEF PicksInv
<1>4. ASSUME NEW r \in Races, PickRace(r)
      PROVE  PicksInv'
    <2> DEFINE d == [draft EXCEPT !.race = IF draft.race = r THEN NoRace ELSE r]
    <2>1. d \in Drafts /\ d.picks = draft.picks
        BY DEF PicksInv, Drafts, RaceIds
    <2>2. SetDraft(d)
        BY <1>4 DEF PickRace, PicksInv, Drafts
    <2> QED BY <2>1, <2>2, SetDraftKeeps DEF PicksInv
<1>5. ASSUME NEW stage \in TraitStages, NEW t \in TraitsForStage(stage),
             Pick(stage, t) \/ Unpick(stage, t)
      PROVE  PicksInv'
    BY <1>5, PickKeeps, UnpickKeeps DEF TraitsForStage
<1> QED BY <1>1, <1>2, <1>3, <1>4, <1>5 DEF Fill

\* Steps that leave the draft alone, or empty it as the page is left.
KeepsDraft == unlocked' = unlocked /\ draft' \in {draft, EmptyDraft}

\* No pick is as allowed as the picks before it.
LEMMA KeepsDraftKeeps ==
    ASSUME PicksInv, KeepsDraft
    PROVE  PicksInv'
<1>1. EmptyDraft \in Drafts /\ Harmless(EmptyDraft.picks, unlocked)
    BY CatalogAssumption DEF EmptyDraft, Drafts, RaceIds, Harmless, FromTheirSteps
<1>2. CASE draft' = EmptyDraft
    BY <1>1, <1>2 DEF KeepsDraft, PicksInv, EmptyDraft
<1>3. CASE draft' = draft
    BY <1>3 DEF KeepsDraft, PicksInv
<1> QED BY <1>2, <1>3 DEF KeepsDraft

\* Nothing but the visitor's own clicks changes picks to other picks.
LEMMA OthersKeepDraft ==
    ASSUME Next, ~Fill
    PROVE  KeepsDraft
<1> USE DEF KeepsDraft
<1>1. CASE WizardNext
    <2>1. CASE Browse
        BY <2>1 DEF Browse, Next1, Back, EditFromSummary, Review, GoTo
    <2>2. CASE AccountAges
        BY <2>2 DEF AccountAges
    <2> QED BY <1>1, <2>1, <2>2 DEF WizardNext
<1>2. CASE Browser
    <2> USE DEF GoesOn, Leaves, StaysOpen, StillEditing, Fails, draftVars
    <2>1. CASE Submit
        BY <2>1 DEF Submit, Sends
    <2>2. CASE CreateTimesOut
        BY <2>2 DEF CreateTimesOut
    <2>3. CASE Upload
        BY <2>3 DEF Upload
    <2>4. CASE Release
        BY <2>4 DEF Release
    <2>5. CASE CloseTab
        BY <2>5 DEF CloseTab
    <2> QED BY <1>2, <2>1, <2>2, <2>3, <2>4, <2>5 DEF Browser
<1>3. CASE Backend
    <2> USE DEF GoesOn, Leaves, StaysOpen, StillEditing, Fails, draftVars,
                Answered, Refused, PageUnaware, Waits
    <2> PICK q \in requests : Lookup(q) \/ Validate(q) \/ Insert(q) \/ Lost(q)
        BY <1>3 DEF Backend
    <2>1. CASE Lookup(q)
        BY <2>1 DEF Lookup
    <2>2. CASE Validate(q)
        BY <2>2 DEF Validate
    <2>3. CASE Insert(q)
        BY <2>3 DEF Insert
    <2>4. CASE Lost(q)
        BY <2>4 DEF Lost
    <2> QED BY <2>1, <2>2, <2>3, <2>4
<1>4. CASE TakeUp \/ \E r \in rows : Lapse(r) \/ CancelCreate(r)
    BY <1>4 DEF TakeUp, Lapse, CancelCreate, RowsOnly, wizardVars
<1> QED BY <1>1, <1>2, <1>3, <1>4 DEF Next

\* Before the first click there is no pick.
LEMMA InitPicks == Init => PicksInv
<1> SUFFICES ASSUME Init
             PROVE  PicksInv
    OBVIOUS
<1>1. draft \in Drafts /\ unlocked \in BOOLEAN /\ draft.picks = {}
    BY CatalogAssumption DEF Init, WizardInit, EmptyDraft, Drafts, RaceIds
<1> QED BY <1>1 DEF PicksInv, Harmless, FromTheirSteps

\* Every step leaves the picks allowed.
LEMMA NextPicks == PicksInv /\ [Next]_vars => PicksInv'
<1> SUFFICES ASSUME PicksInv, [Next]_vars
             PROVE  PicksInv'
    OBVIOUS
<1>1. CASE Fill
    BY <1>1, FillKeeps
<1>2. CASE Next /\ ~Fill
    BY <1>2, OthersKeepDraft, KeepsDraftKeeps
<1>3. CASE UNCHANGED vars
    BY <1>3, KeepsDraftKeeps DEF vars, wizardVars, KeepsDraft
<1> QED BY <1>1, <1>2, <1>3

\* For every catalog and every order of clicks: the picks hold no exclusive pair,
\* no replaced injury, nothing of a closed step or without what it requires.
THEOREM AllowedPicks == Spec => []PicksAreAllowed
<1>1. PicksInv => PicksAreAllowed
    BY DEF PicksInv, Harmless, PicksAreAllowed, Strip, Selected
<1> QED BY <1>1, InitPicks, NextPicks, PTL DEF Spec
-----------------------------------------------------------------------------
\* The picks that may all stay are not pruned any further.
LEMMA KeptIsPruned ==
    ASSUME NEW picks, NEW race, NEW open,
           picks \cap KeptBeside(picks, race, open) = picks
    PROVE  Pruned(picks, race, open) = picks
<1>1. picks \in SUBSET picks /\ picks \subseteq KeptBeside(picks, race, open)
    OBVIOUS
<1> QED BY <1>1 DEF Pruned

\* A turn of the loop drops nothing that may stay.
LEMMA TurnKeeps ==
    ASSUME NEW picks, NEW race, NEW open
    PROVE  Pruned(picks \cap KeptBeside(picks, race, open), race, open) =
           Pruned(picks, race, open)
<1> DEFINE kept == picks \cap KeptBeside(picks, race, open)
<1>1. ASSUME NEW s \in SUBSET picks, s \subseteq KeptBeside(s, race, open)
      PROVE  s \in SUBSET kept
    <2>1. KeptBeside(s, race, open) \subseteq KeptBeside(picks, race, open)
        BY KeptMonotone
    <2> QED BY <1>1, <2>1
<1>2. kept \subseteq picks
    OBVIOUS
<1> HIDE DEF kept
<1>3. Pruned(picks, race, open) \subseteq Pruned(kept, race, open)
    BY <1>1 DEF Pruned
<1>4. Pruned(kept, race, open) \subseteq Pruned(picks, race, open)
    BY <1>2 DEF Pruned
<1>5. Pruned(kept, race, open) = Pruned(picks, race, open)
    BY <1>3, <1>4
<1> QED BY <1>5 DEF kept

\* The recursion the loop of pruneUnavailableTraits defines.
Turns(turns, race, open) ==
    turns = [before \in SUBSET Traits |->
               IF before \cap KeptBeside(before, race, open) = before THEN before
               ELSE turns[before \cap KeptBeside(before, race, open)]]

\* The specification follows the recursion, so that there is a function that does.
LEMMA PrunedTurns ==
    ASSUME NEW race, NEW open
    PROVE  Turns([before \in SUBSET Traits |-> Pruned(before, race, open)], race, open)
<1> DEFINE f == [before \in SUBSET Traits |-> Pruned(before, race, open)]
<1>1. ASSUME NEW before \in SUBSET Traits
      PROVE  f[before] = IF before \cap KeptBeside(before, race, open) = before THEN before
                         ELSE f[before \cap KeptBeside(before, race, open)]
    <2>1. before \cap KeptBeside(before, race, open) \in SUBSET Traits
        OBVIOUS
    <2>2. f[before] = Pruned(before, race, open)
        OBVIOUS
    <2>3. f[before \cap KeptBeside(before, race, open)]
             = Pruned(before \cap KeptBeside(before, race, open), race, open)
        BY <2>1
    <2> HIDE DEF f
    <2> QED BY <2>2, <2>3, KeptIsPruned, TurnKeeps
<1>2. f = [before \in SUBSET Traits |-> f[before]]
    OBVIOUS
<1> HIDE DEF f
<1>3. Turns(f, race, open)
    BY <1>1, <1>2 DEF Turns
<1> QED BY <1>3 DEF f

\* The loop is a function that follows the recursion.
LEMMA LoopTurns ==
    ASSUME NEW picks, NEW race, NEW open
    PROVE  \E turns : Turns(turns, race, open) /\ PruneLoop(picks, race, open) = turns[picks]
<1> DEFINE turns == CHOOSE t : Turns(t, race, open)
<1>1. Turns(turns, race, open)
    BY PrunedTurns
<1>2. PruneLoop(picks, race, open) = turns[picks]
    BY Zenon DEF PruneLoop, Turns
<1> QED BY <1>1, <1>2

\* So every function that does computes it, because every turn that is not the
\* last drops a pick and there are finitely many.
LEMMA TurnsCompute ==
    ASSUME NEW race, NEW open, NEW turns, Turns(turns, race, open)
    PROVE  \A picks \in SUBSET Traits : turns[picks] = Pruned(picks, race, open)
<1> DEFINE Wrong == {b \in SUBSET Traits : turns[b] # Pruned(b, race, open)}
<1>1. Wrong \subseteq FiniteSubsetsOf(Traits)
    BY CatalogAssumption, FS_Subset DEF FiniteSubsetsOf
<1>2. ASSUME NEW b \in Wrong,
             \A c \in Wrong : ~(<<c, b>> \in StrictSubsetOrdering(Traits))
      PROVE  FALSE
    <2> DEFINE kept == b \cap KeptBeside(b, race, open)
    <2>1. turns[b] = IF kept = b THEN b ELSE turns[kept]
        BY DEF Turns
    <2>2. kept # b
        BY <2>1, KeptIsPruned
    <2>3. kept \in SUBSET Traits /\ kept \subseteq b
        OBVIOUS
    <2>4. <<kept, b>> \in StrictSubsetOrdering(Traits)
        <3>1. b \in SUBSET Traits
            OBVIOUS
        <3> HIDE DEF kept, Wrong
        <3> QED BY <2>2, <2>3, <3>1 DEF StrictSubsetOrdering
    <2>5. turns[kept] = Pruned(kept, race, open)
        BY <1>2, <2>3, <2>4
    <2>6. Pruned(kept, race, open) = Pruned(b, race, open)
        BY TurnKeeps
    <2> QED BY <2>1, <2>2, <2>5, <2>6
<1>3. Wrong = {}
    <2> SUFFICES ASSUME Wrong # {} PROVE FALSE
        OBVIOUS
    <2>1. IsWellFoundedOn(StrictSubsetOrdering(Traits), FiniteSubsetsOf(Traits))
        BY FS_StrictSubsetOrderingWellFounded
    <2> HIDE DEF Wrong
    <2>2. PICK b \in Wrong :
                 \A c \in Wrong : ~(<<c, b>> \in StrictSubsetOrdering(Traits))
        BY <1>1, <2>1, WFMin
    <2> QED BY <1>2, <2>2
<1> QED BY <1>3

\* The loop of pruneUnavailableTraits ends for any picks, any race and any
\* catalog, and keeps all that may stay.
LEMMA LoopIsPruned ==
    ASSUME NEW picks \in SUBSET Traits, NEW race, NEW open
    PROVE  PruneLoop(picks, race, open) = Pruned(picks, race, open)
BY LoopTurns, TurnsCompute

\* For every catalog and whatever race is picked after whatever picks: the loop
\* of pruneUnavailableTraits ends and drops nothing it need not.
THEOREM PruningKeepsTheMost == Spec => []LoopKeepsTheMost
<1>1. PicksInv => LoopKeepsTheMost
    BY LoopIsPruned DEF PicksInv, Drafts, LoopKeepsTheMost
<1> QED BY <1>1, InitPicks, NextPicks, PTL DEF Spec
-----------------------------------------------------------------------------
\* A set of at most one element, said without counting.
AtMostOne(S) == \A a, b \in S : a = b

\* No row is stored beside another one.
LEMMA NextRow == AtMostOne(rows) /\ [Next]_vars => AtMostOne(rows')
<1> SUFFICES ASSUME AtMostOne(rows), [Next]_vars
             PROVE  AtMostOne(rows')
    OBVIOUS
<1>1. CASE WizardNext /\ UNCHANGED serverVars
    BY <1>1 DEF serverVars
<1>2. CASE Browser
    <2>1. CASE Submit
        BY <2>1 DEF Submit
    <2>2. CASE CreateTimesOut
        BY <2>2 DEF CreateTimesOut, serverVars
    <2>3. CASE Upload
        BY <2>3 DEF Upload, serverVars
    <2>4. CASE Release
        BY <2>4 DEF Release, AtMostOne
    <2>5. CASE CloseTab
        BY <2>5 DEF CloseTab, serverVars
    <2> QED BY <1>2, <2>1, <2>2, <2>3, <2>4, <2>5 DEF Browser
<1>3. CASE Backend
    <2> PICK q \in requests : Lookup(q) \/ Validate(q) \/ Insert(q) \/ Lost(q)
        BY <1>3 DEF Backend
    <2>1. CASE Lookup(q)
        BY <2>1 DEF Lookup, Waits
    <2>2. CASE Validate(q)
        BY <2>2 DEF Validate, Refused, Waits
    <2>3. CASE Insert(q)
        BY <2>3 DEF Insert, AtMostOne
    <2>4. CASE Lost(q)
        BY <2>4 DEF Lost
    <2> QED BY <2>1, <2>2, <2>3, <2>4
<1>4. CASE TakeUp
    <2> PICK r \in ListPending, status \in {"applied", "rejected"} :
                rows' = (rows \ {r}) \cup {[r EXCEPT !.status = status]}
        BY <1>4 DEF TakeUp
    <2> r \in rows
        BY DEF ListPending
    <2> QED BY DEF AtMostOne
<1>5. ASSUME NEW r \in rows, Lapse(r) \/ CancelCreate(r)
      PROVE  AtMostOne(rows')
    BY <1>5 DEF Lapse, CancelCreate, AtMostOne
<1>6. CASE UNCHANGED vars
    BY <1>6 DEF vars, serverVars
<1> QED BY <1>1, <1>2, <1>3, <1>4, <1>5, <1>6 DEF Next

\* However often a create is sent again, and in whatever order its requests are
\* looked up, validated and inserted, one visit stores one character at most.
THEOREM AtMostOneCharacter == Spec => []OneCharacter
<1>1. Init => AtMostOne(rows)
    BY DEF Init, AtMostOne
<1>2. AtMostOne(rows) => OneCharacter
    <2> SUFFICES ASSUME AtMostOne(rows)
                 PROVE  Cardinality(rows) <= 1
        BY DEF OneCharacter
    <2>1. CASE rows = {}
        BY <2>1, FS_EmptySet
    <2>2. CASE rows # {}
        <3> PICK r : r \in rows
            BY <2>2
        <3>1. rows = {r}
            BY DEF AtMostOne
        <3> QED BY <3>1, FS_Singleton
    <2> QED BY <2>1, <2>2
<1> DEFINE I == AtMostOne(rows)
<1>3. I /\ [Next]_vars => I'
    BY NextRow DEF AtMostOne
<1> HIDE DEF I
<1>4. Init => I
    BY <1>1 DEF I
<1>5. I => OneCharacter
    BY <1>2 DEF I
<1> QED BY <1>3, <1>4, <1>5, PTL DEF Spec
-----------------------------------------------------------------------------
\* The wizard and the backend read a requirement alike.
LEMMA DependenciesAgree ==
    ASSUME NEW needs \in Dependency, NEW picks, NEW race
    PROVE  DependencyMet(needs, picks, race) <=> Met(needs, picks, race)
BY DEF DependencyMet, Met, Dependency

\* Picks of a step are only left while the wizard shows that step.
LEMMA PickedStepIsOpen ==
    ASSUME PicksInv, NEW s \in TraitStages, Selected(draft.picks, s.key) # {}
    PROVE  IsPlayable(s, draft.picks, draft.race, unlocked)
<1> PICK t \in draft.picks : Trait[t].key = s.key
    BY DEF Selected
<1>1. s.key \in OpenKeys(draft.picks, draft.race, unlocked)
    BY DEF PicksInv, KeptBeside, StageKeys
<1> PICK u \in TraitStages : /\ u.key = s.key
                             /\ IsPlayable(u, draft.picks, draft.race, unlocked)
    BY <1>1 DEF OpenKeys
<1>2. u = s
    BY CatalogAssumption
<1> QED BY <1>2

\* A step of the wizard that is on the list and complete.
Complete(s) == IsPlayable(s, draft.picks, draft.race, unlocked) =>
                   StageCanContinue(s, draft)

\* The picks of a step the wizard calls complete pass the backend's rules for it.
LEMMA TraitStepPasses ==
    ASSUME PicksInv, unlocked => old, old \in BOOLEAN, NEW a \in {old, TRUE},
           NEW s \in TraitStages, Complete(s)
    PROVE  LET inStage == Selected(draft.picks, s.key)
           IN IF Opens(s, draft.picks, draft.race, a)
              THEN /\ s.permanent => \A t \in inStage : ~Trait[t].temporary
                   /\ Cardinality(inStage) \in s.min .. s.max
                   /\ inStage # {} /\ s.points > 0 =>
                         Spent(draft.picks, s.key) <= s.points
              ELSE inStage = {}
<1> DEFINE inStage == Selected(draft.picks, s.key)
           playable == IsPlayable(s, draft.picks, draft.race, unlocked)
<1>1. s \in StageType /\ s.kind = "trait"
    <2>1. s \in Range(Stages) /\ s.kind = "trait"
        BY DEF TraitStages
    <2>2. Stages \in Seq(StageType)
        BY CatalogAssumption
    <2> QED BY <2>1, <2>2 DEF Range
<1>2. s.gate # "max" /\ (s.gate = "min" => s.min = 0)
    BY CatalogAssumption
<1>3. DependencyMet(s.needs, draft.picks, draft.race)
         <=> Met(s.needs, draft.picks, draft.race)
    BY <1>1, DependenciesAgree DEF StageType
<1>4. s.permanent => \A t \in inStage : ~Trait[t].temporary
    BY DEF PicksInv, Harmless, FromTheirSteps, Selected
<1>5. CASE playable
    <2>1. Opens(s, draft.picks, draft.race, a)
        BY <1>1, <1>2, <1>3, <1>5 DEF IsPlayable, PassesGate, Opens, StageType
    <2>2. /\ Cardinality(inStage) \in s.min .. s.max
          /\ s.points > 0 => Spent(draft.picks, s.key) <= s.points
        BY <1>1, <1>5 DEF Complete, StageCanContinue
    <2> QED BY <1>4, <2>1, <2>2
<1>6. CASE ~playable
    <2>1. inStage = {}
        BY <1>6, PickedStepIsOpen
    <2>2. CASE Opens(s, draft.picks, draft.race, a)
        <3>1. s.min = 0
            BY <1>2, <1>3, <1>6, <2>2 DEF Opens, IsPlayable, PassesGate
        <3>2. Cardinality(inStage) = 0
            BY <2>1, FS_EmptySet
        <3>3. s.max \in Nat
            BY <1>1 DEF StageType
        <3> QED BY <2>1, <2>2, <3>1, <3>2, <3>3
    <2> QED BY <2>1, <2>2
<1> QED BY <1>5, <1>6

\* What the wizard lets through passes the rules of the backend, now or when the
\* account has become older.
LEMMA CompleteIsLawful ==
    ASSUME PicksInv, unlocked => old, old \in BOOLEAN, Incomplete = {},
           NEW a \in {old, TRUE}
    PROVE  RulesPass(Body, a)
<1>1. Strip(draft.picks) = draft.picks /\ Body = draft
    <2>1. Strip(draft.picks) = draft.picks
        BY DEF PicksInv, Harmless, Strip, Selected
    <2> QED BY <2>1 DEF Body, PicksInv, Drafts
<1>2. ASSUME NEW s \in Range(Stages)
      PROVE  Complete(s)
    BY DEF Incomplete, Complete
<1>3. ASSUME NEW kind \in {"race", "age", "clue"}
      PROVE  \E s \in Range(Stages) : s.kind = kind /\ StageCanContinue(s, draft)
    <2> PICK s \in Range(Stages) : /\ s.kind = kind /\ s.needs.kind = "none"
                                   /\ s.gate = "none"
        BY CatalogAssumption
    <2> QED BY <1>2 DEF Complete, IsPlayable, Met, PassesGate
<1>4. draft.race \in Races
    BY <1>3 DEF StageCanContinue, PicksInv, Drafts, RaceIds
<1>5. draft.age \in AgeMin .. AgeMax[draft.race]
    BY <1>3, <1>4 DEF StageCanContinue, RaceAgeMax
<1>6. draft.clues >= CluesRequired(draft.picks)
    BY <1>3 DEF StageCanContinue
<1>7. /\ draft.clues >= DefaultClues /\ draft.clues <= MaxClues
      /\ (\E t \in draft.picks : Trait[t].key = "evil") => draft.clues >= EvilClues
    <2>1. /\ DefaultClues \in Nat /\ EvilClues \in Nat /\ MaxClues \in Nat
          /\ draft.clues \in 0 .. MaxClues
        BY CatalogAssumption DEF PicksInv, Drafts
    <2>2. CASE Selected(draft.picks, "evil") # {} /\ EvilClues > DefaultClues
        BY <1>6, <2>1, <2>2 DEF CluesRequired
    <2>3. CASE ~(Selected(draft.picks, "evil") # {} /\ EvilClues > DefaultClues)
        BY <1>6, <2>1, <2>3 DEF CluesRequired, Selected
    <2> QED BY <2>2, <2>3
<1>8. TraitsPass(draft.picks, draft.race, a)
    <2>1. ASSUME NEW s \in TraitStages
          PROVE  Complete(s)
        BY <1>2 DEF TraitStages
    <2>2. ASSUME NEW t \in draft.picks
          PROVE  /\ Trait[t].key \in StageKeys
                 /\ \A o \in draft.picks \ {t} :
                       o \notin Trait[t].excludes /\ t \notin Trait[o].excludes
                 /\ DependencyMet(Trait[t].needs, draft.picks \ {t}, draft.race)
                 /\ Trait[t].seasoned => a
        <3>1. t \in Traits
            BY DEF PicksInv, Drafts
        <3>2. Trait[t].key \in StageKeys /\ Trait[t].needs \in Dependency
            BY <3>1, CatalogAssumption DEF TraitType
        <3>3. \A o \in draft.picks \ {t} :
                  o \notin Trait[t].excludes /\ t \notin Trait[o].excludes
            BY DEF PicksInv, Harmless, Exclusive
        <3>4. Met(Trait[t].needs, draft.picks \ {t}, draft.race)
            BY DEF PicksInv, KeptBeside
        <3>5. Trait[t].seasoned => a
            BY DEF PicksInv, Harmless
        <3> QED BY <3>2, <3>3, <3>4, <3>5, DependenciesAgree
    <2> QED BY <2>1, <2>2, TraitStepPasses DEF TraitsPass
<1> QED BY <1>1, <1>4, <1>5, <1>7, <1>8 DEF RulesPass
RequestType == [id : Nat, step : {"sent", "looked", "checked"},
                hold : BOOLEAN, lawful : SUBSET BOOLEAN]

\* Every request is lawful for the account as it is, and will be when it ages.
LawInv ==
    /\ old \in BOOLEAN /\ (unlocked => old)
    /\ skins \in BOOLEAN /\ tries \in Nat
    /\ requests \subseteq RequestType
    /\ \A q \in requests : {old, TRUE} \subseteq q.lawful
    /\ refusal = {}

\* What of it every step but a send leaves as it was, or makes smaller.
Settled == /\ UNCHANGED <<unlocked, old, tries>>
           /\ skins' \in {skins, FALSE}
           /\ requests' \subseteq requests
           /\ refusal' \in {refusal, {}}

\* So every request is as lawful as before.
LEMMA SettledKeeps ==
    ASSUME LawInv, Settled
    PROVE  LawInv'
BY DEF LawInv, Settled

\* A request that moves on in the backend is as lawful as it was.
LEMMA MoveKeeps ==
    ASSUME LawInv, NEW q \in requests, NEW step \in {"looked", "checked"},
           Waits(q, step)
    PROVE  LawInv'
<1> DEFINE moved == [q EXCEPT !.step = step]
<1>1. moved \in RequestType /\ moved.lawful = q.lawful
    BY DEF LawInv, RequestType
<1>2. /\ requests' = (requests \ {q}) \cup {moved}
      /\ UNCHANGED <<unlocked, old, skins, tries, refusal>>
    BY DEF Waits, Moves, PageUnaware, StaysOpen, StillEditing, draftVars
<1> HIDE DEF moved
<1> QED BY <1>1, <1>2 DEF LawInv

\* The wizard sends what is complete, and so only what is lawful.
LEMMA SendKeeps ==
    ASSUME PicksInv, LawInv, Incomplete = {}, Sends
    PROVE  LawInv'
<1> DEFINE lawful == {a \in {old, TRUE} : RulesPass(Body, a)}
<1>1. {old, TRUE} \subseteq lawful /\ lawful \subseteq BOOLEAN
    BY CompleteIsLawful DEF LawInv
<1>2. /\ tries' = tries + 1
      /\ requests' = requests \cup {[id |-> tries + 1, step |-> "sent",
                                     hold |-> skins, lawful |-> lawful]}
      /\ refusal' = {} /\ UNCHANGED <<unlocked, old, skins>>
    BY DEF Sends, NewRequest, StaysOpen, StillEditing, draftVars
<1> HIDE DEF lawful
<1>3. requests' \subseteq RequestType
    BY <1>1, <1>2 DEF LawInv, RequestType
<1>4. ASSUME NEW q \in requests'
      PROVE  {old', TRUE} \subseteq q.lawful
    <2>1. CASE q \in requests
        BY <1>2, <2>1 DEF LawInv
    <2>2. CASE q \notin requests
        <3>1. q.lawful = lawful
            BY <1>2, <2>2
        <3> QED BY <1>1, <1>2, <3>1
    <2> QED BY <2>1, <2>2
<1>5. /\ old' \in BOOLEAN /\ (unlocked' => old')
      /\ skins' \in BOOLEAN /\ tries' \in Nat /\ refusal' = {}
    BY <1>2 DEF LawInv
<1> QED BY <1>3, <1>4, <1>5 DEF LawInv

\* No step makes a request that is under way unlawful, or is refused for it.
LEMMA NextLaw == PicksInv /\ LawInv /\ [Next]_vars => LawInv'
<1> SUFFICES ASSUME PicksInv, LawInv, [Next]_vars
             PROVE  LawInv'
    OBVIOUS
<1>1. CASE WizardNext /\ UNCHANGED <<withSkins, createId, refusal, serverVars>>
    <2> USE <1>1 DEF serverVars
    <2>1. CASE AccountAges
        BY <2>1 DEF AccountAges, LawInv
    <2>2. CASE SetSkin
        BY <2>2 DEF SetSkin, LawInv
    <2>3. CASE Fill /\ ~SetSkin
        <3>1. UNCHANGED <<skins, unlocked, old>>
            BY <2>3 DEF Fill, SetAge, SetClues, PickRace, Pick, Unpick, SetTraits,
                        SetDraft
        <3> QED BY <3>1, SettledKeeps DEF Settled
    <2>4. CASE Browse
        <3>1. UNCHANGED <<skins, unlocked, old>>
            BY <2>4 DEF Browse, Next1, Back, EditFromSummary, Review, GoTo
        <3> QED BY <3>1, SettledKeeps DEF Settled
    <2> QED BY <2>1, <2>2, <2>3, <2>4 DEF WizardNext
<1>2. CASE Browser
    <2> USE DEF GoesOn, Leaves, StaysOpen, StillEditing, Fails, draftVars,
                serverVars, Settled
    <2>1. CASE Submit
        <3>1. CASE Sends
            BY <2>1, <3>1, SendKeeps DEF Submit
        <3>2. CASE ~Sends
            BY <2>1, <3>2, SettledKeeps DEF Submit
        <3> QED BY <3>1, <3>2
    <2>2. CASE CreateTimesOut
        BY <2>2, SettledKeeps DEF CreateTimesOut
    <2>3. CASE Upload
        BY <2>3, SettledKeeps DEF Upload
    <2>4. CASE Release
        BY <2>4, SettledKeeps DEF Release
    <2>5. CASE CloseTab
        BY <2>5, SettledKeeps DEF CloseTab
    <2> QED BY <1>2, <2>1, <2>2, <2>3, <2>4, <2>5 DEF Browser
<1>3. CASE Backend
    <2> USE DEF GoesOn, Leaves, StaysOpen, StillEditing, Fails, draftVars,
                Answered, Refused, PageUnaware, Settled
    <2> PICK q \in requests : Lookup(q) \/ Validate(q) \/ Insert(q) \/ Lost(q)
        BY <1>3 DEF Backend
    <2>1. CASE Lookup(q)
        BY <2>1, SettledKeeps, MoveKeeps DEF Lookup
    <2>2. CASE Validate(q)
        <3>1. old \in q.lawful
            BY DEF LawInv
        <3> QED BY <2>2, <3>1, SettledKeeps, MoveKeeps DEF Validate
    <2>3. CASE Insert(q)
        BY <2>3, SettledKeeps DEF Insert
    <2>4. CASE Lost(q)
        BY <2>4, SettledKeeps DEF Lost
    <2> QED BY <2>1, <2>2, <2>3, <2>4
<1>4. CASE TakeUp \/ \E r \in rows : Lapse(r) \/ CancelCreate(r)
    <2>1. UNCHANGED <<unlocked, old, skins, tries, requests, refusal>>
        BY <1>4 DEF TakeUp, Lapse, CancelCreate, RowsOnly, wizardVars
    <2> QED BY <2>1, SettledKeeps DEF Settled
<1>5. CASE UNCHANGED vars
    BY <1>5, SettledKeeps DEF vars, wizardVars, serverVars, Settled
<1> QED BY <1>1, <1>2, <1>3, <1>4, <1>5 DEF Next

\* No request is under way at first.
LEMMA InitLaw == Init => LawInv
<1> SUFFICES ASSUME Init
             PROVE  LawInv
    OBVIOUS
<1>1. unlocked => old
    BY Zenon DEF Init, WizardInit
<1> QED BY <1>1 DEF Init, WizardInit, LawInv

\* For every catalog, what the wizard calls complete the backend accepts: it
\* refuses a create for others' names and slots only, however the account ages
\* and whatever attempts were made before.
THEOREM RefusedForOthersOnly == Spec => []OnlyOthersRefuse
<1>1. LawInv => OnlyOthersRefuse
    BY DEF LawInv, OnlyOthersRefuse
<1> QED BY <1>1, InitPicks, InitLaw, NextPicks, NextLaw, PTL DEF Spec
-----------------------------------------------------------------------------
(* What happens to a stored create                                         *)

\* A create only goes forward: it is stored by a request that is answered with
\* it and not again by that one, its hold ends once, and what RPCharacters has
\* applied or rejected is neither changed nor removed (create_character,
\* release_create, delete_pending_create and the reports of RPCharacters).
CreatesGoOneWay ==
    [][/\ \A r \in rows : r.status # "pending" => r \in rows'
       /\ \A s \in rows' :
             \/ \E q \in requests : s = NewRow(q) /\ \A p \in requests' : p.id # q.id
             \/ \E r \in rows : /\ s.id = r.id /\ (s.held => r.held)
                                /\ r.status # "pending" => s = r]_vars

\* An onSubmit that had skins is done only when nothing waits for skins: the
\* page is left with a held create only by one whose skins were taken back.
HeldOnlyWithoutSkins ==
    [][page # "done" /\ page' = "done" =>
          ~withSkins \/ \A r \in rows' : ~r.held]_vars

\* The requests, the rows and the page agree.
RowsInv ==
    /\ requests \subseteq Request /\ rows \subseteq Row /\ tries \in 0 .. MaxTries
    /\ AtMostOne(rows)
    /\ \A q \in requests : q.id <= tries
    /\ \A p, q \in requests : p.id = q.id => p = q
    /\ \A r \in rows : r.id <= tries /\ (r.held => r.status = "pending")

\* What the page knows of its create, and that an attempt's skins end with it.
PageInv ==
    /\ phase \in {"idle", "create", "upload", "release"}
    /\ page \in {"open", "done", "closed"}
    /\ createId \subseteq 1 .. tries
    /\ withSkins \in BOOLEAN /\ (phase = "idle" => ~withSkins)
    /\ refusal \subseteq {"rules", "own"}

\* What the two action properties ask of a step.
GoesOneWay ==
    /\ \A r \in rows : r.status # "pending" => r \in rows'
    /\ \A s \in rows' :
          \/ \E q \in requests : s = NewRow(q) /\ \A p \in requests' : p.id # q.id
          \/ \E r \in rows : /\ s.id = r.id /\ (s.held => r.held)
                             /\ r.status # "pending" => s = r

LeavesReleased ==
    page # "done" /\ page' = "done" => ~withSkins \/ \A r \in rows' : ~r.held

\* The steps that leave the rows alone and start no request.
LEMMA QuietRows ==
    ASSUME RowsInv, rows' = rows, requests' \subseteq requests, tries' = tries
    PROVE  RowsInv' /\ GoesOneWay
<1>1. RowsInv'
    BY DEF RowsInv, AtMostOne
<1>2. GoesOneWay
    BY DEF GoesOneWay
<1> QED BY <1>1, <1>2

\* A request that moves on keeps its number.
LEMMA MovedRows ==
    ASSUME RowsInv, NEW q \in requests, NEW step \in {"looked", "checked"},
           Waits(q, step)
    PROVE  RowsInv' /\ GoesOneWay
<1> PICK m : m = [q EXCEPT !.step = step]
    OBVIOUS
<1>1. m \in Request /\ m.id = q.id
    BY DEF RowsInv, Request
<1>2. requests' = (requests \ {q}) \cup {m} /\ tries' = tries /\ rows' = rows
    BY DEF Waits, Moves
<1>3. \A p, o \in requests' : p.id = o.id => p = o
    <2>1. \A p \in requests' : p = m \/ (p \in requests /\ p.id # m.id)
        BY <1>1, <1>2 DEF RowsInv
    <2> QED BY <2>1 DEF RowsInv
<1>4. /\ requests' \subseteq Request /\ \A p \in requests' : p.id <= tries'
    BY <1>1, <1>2 DEF RowsInv
<1>5. RowsInv'
    BY <1>2, <1>3, <1>4 DEF RowsInv, AtMostOne
<1>6. GoesOneWay
    BY <1>2 DEF GoesOneWay
<1> QED BY <1>5, <1>6

\* A new request has a new number.
LEMMA SentRows ==
    ASSUME RowsInv, LawInv, LawInv', Sends, rows' = rows
    PROVE  RowsInv' /\ GoesOneWay
<1> PICK n : n = NewRequest
    OBVIOUS
<1>1. requests' = requests \cup {n} /\ tries' = tries + 1 /\ tries < MaxTries
    BY DEF Sends
<1>2. n.id = tries + 1
    BY DEF NewRequest
<1>3. tries \in Nat /\ MaxTries \in Nat
    BY SubmitAssumption DEF RowsInv
<1>4. n \in RequestType
    BY <1>1 DEF LawInv
<1>5. n \in Request
    BY <1>1, <1>2, <1>3, <1>4 DEF Request, RequestType
<1>6. \A p \in requests : p.id \in Nat /\ p.id <= tries
    BY DEF RowsInv, Request
<1>7. \A p, o \in requests' : p.id = o.id => p = o
    BY <1>1, <1>2, <1>3, <1>6 DEF RowsInv
<1>8. \A p \in requests' : p.id <= tries'
    BY <1>1, <1>2, <1>3, <1>6
<1>9. \A r \in rows' : r.id <= tries' /\ (r.held => r.status = "pending")
    BY <1>1, <1>3 DEF RowsInv, Row
<1>10. tries' \in 0 .. MaxTries
    BY <1>1, <1>3
<1>11. RowsInv'
    BY <1>1, <1>5, <1>7, <1>8, <1>9, <1>10 DEF RowsInv, AtMostOne
<1>12. GoesOneWay
    BY DEF GoesOneWay
<1> QED BY <1>11, <1>12

\* A row is changed: it is released, lapses, is taken up or is cancelled.
LEMMA ChangedRow ==
    ASSUME RowsInv, NEW r \in rows, NEW S, S \subseteq Row,
           \A s \in S : /\ s.id = r.id /\ (s.held => r.held)
                        /\ s.held => s.status = "pending",
           AtMostOne(S), r.status = "pending" \/ S = {r},
           rows' = (rows \ {r}) \cup S, requests' = requests, tries' = tries
    PROVE  RowsInv' /\ GoesOneWay
<1>1. rows = {r} /\ rows' = S
    <2>1. \A s \in rows : s = r
        BY DEF RowsInv, AtMostOne
    <2> QED BY <2>1
<1>2. RowsInv'
    <2>1. r.id <= tries
        BY DEF RowsInv
    <2>2. \A s \in rows' : s.id <= tries' /\ (s.held => s.status = "pending")
        BY <1>1, <2>1
    <2>3. AtMostOne(rows')
        BY <1>1
    <2> QED BY <1>1, <2>2, <2>3 DEF RowsInv, AtMostOne
<1>3. GoesOneWay
    BY <1>1 DEF GoesOneWay
<1> QED BY <1>2, <1>3

\* In particular it is no longer held, with the same number.
LEMMA ReplacedRow ==
    ASSUME RowsInv, NEW r \in rows, NEW s \in Row, s.id = r.id, ~s.held,
           r.status = "pending",
           rows' = (rows \ {r}) \cup {s}, requests' = requests, tries' = tries
    PROVE  RowsInv' /\ GoesOneWay
<1> PICK S : S = {s}
    OBVIOUS
<1>1. AtMostOne(S)
    BY DEF AtMostOne
<1> QED BY <1>1, ChangedRow

\* The backend stores a create when there is none.
LEMMA InsertedRows ==
    ASSUME RowsInv, NEW q \in requests, Insert(q)
    PROVE  RowsInv' /\ GoesOneWay
<1>1. CASE rows = {}
    <2> PICK n : n = NewRow(q)
        OBVIOUS
    <2>1. rows' = {n} /\ requests' = requests \ {q} /\ tries' = tries
        BY <1>1 DEF Insert, Answered
    <2>2. /\ n \in Row /\ n.id = q.id /\ n.status = "pending"
        BY DEF NewRow, RowsInv, Row, Request
    <2>3. \A p \in requests' : p.id # q.id
        BY <2>1 DEF RowsInv
    <2>4. RowsInv'
        BY <2>1, <2>2 DEF RowsInv, AtMostOne
    <2>5. GoesOneWay
        BY <1>1, <2>1, <2>3 DEF GoesOneWay
    <2> QED BY <2>4, <2>5
<1>2. CASE rows # {}
    <2>1. rows' = rows /\ requests' \subseteq requests /\ tries' = tries
        BY <1>2 DEF Insert, Answered
    <2> QED BY <2>1, QuietRows
<1> QED BY <1>1, <1>2

\* Every step keeps the requests and the rows in order, and every create goes
\* forward.
LEMMA NextRows ==
    ASSUME RowsInv, LawInv, LawInv', [Next]_vars
    PROVE  RowsInv' /\ GoesOneWay
<1>1. CASE WizardNext /\ UNCHANGED serverVars
    BY <1>1, QuietRows DEF serverVars
<1>2. CASE Browser
    <2>1. CASE Submit
        <3>1. rows' = rows
            BY <2>1 DEF Submit
        <3>2. CASE Sends
            BY <3>1, <3>2, SentRows
        <3>3. CASE ~Sends
            BY <2>1, <3>1, <3>3, QuietRows DEF Submit
        <3> QED BY <3>2, <3>3
    <2>2. CASE CreateTimesOut \/ Upload \/ CloseTab
        BY <2>2, QuietRows DEF CreateTimesOut, Upload, CloseTab, serverVars
    <2>3. CASE Release
        <3>1. requests' = requests /\ tries' = tries
            BY <2>3 DEF Release
        <3>2. CASE rows' = rows
            BY <3>1, <3>2, QuietRows
        <3>3. CASE rows' # rows
            <4> PICK mine : mine = {r \in rows : r.id \in createId /\ r.status = "pending"}
                OBVIOUS
            <4>1. rows' = (rows \ mine) \cup {[r EXCEPT !.held = FALSE] : r \in mine}
                BY <2>3, <3>3 DEF Release
            <4>2. PICK r \in mine : TRUE
                BY <3>3, <4>1
            <4>3. mine = {r} /\ r \in rows /\ r.status = "pending"
                BY <4>2 DEF RowsInv, AtMostOne
            <4> PICK s : s = [r EXCEPT !.held = FALSE]
                OBVIOUS
            <4>4. s \in Row /\ s.id = r.id /\ ~s.held
                BY <4>3 DEF RowsInv, Row
            <4>5. rows' = (rows \ {r}) \cup {s}
                BY <4>1, <4>3
            <4> QED BY <3>1, <4>3, <4>4, <4>5, ReplacedRow
        <3> QED BY <3>2, <3>3
    <2> QED BY <1>2, <2>1, <2>2, <2>3 DEF Browser
<1>3. CASE Backend
    <2> PICK q \in requests : Lookup(q) \/ Validate(q) \/ Insert(q) \/ Lost(q)
        BY <1>3 DEF Backend
    <2>1. CASE Insert(q)
        BY <2>1, InsertedRows
    <2>2. CASE Lookup(q) \/ Validate(q) \/ Lost(q)
        <3>1. \/ Waits(q, "looked") \/ Waits(q, "checked")
              \/ rows' = rows /\ requests' \subseteq requests /\ tries' = tries
            BY <2>2 DEF Lookup, Validate, Lost, Answered, Refused
        <3> QED BY <3>1, MovedRows, QuietRows
    <2> QED BY <2>1, <2>2
<1>4. CASE TakeUp
    <2> PICK r \in ListPending, status \in {"applied", "rejected"} :
                rows' = (rows \ {r}) \cup {[r EXCEPT !.status = status]}
        BY <1>4 DEF TakeUp
    <2> PICK s : s = [r EXCEPT !.status = status]
        OBVIOUS
    <2>1. r \in rows /\ r.status = "pending" /\ ~r.held
        BY DEF ListPending
    <2>2. s \in Row /\ s.id = r.id /\ ~s.held
        BY <2>1 DEF RowsInv, Row
    <2>3. requests' = requests /\ tries' = tries
        BY <1>4 DEF TakeUp, RowsOnly
    <2> QED BY <2>1, <2>2, <2>3, ReplacedRow
<1>5. ASSUME NEW r \in rows, Lapse(r)
      PROVE  RowsInv' /\ GoesOneWay
    <2> PICK s : s = [r EXCEPT !.held = FALSE]
        OBVIOUS
    <2>1. r.status = "pending"
        BY <1>5 DEF Lapse, RowsInv
    <2>2. s \in Row /\ s.id = r.id /\ ~s.held
        BY DEF RowsInv, Row
    <2>3. rows' = (rows \ {r}) \cup {s} /\ requests' = requests /\ tries' = tries
        BY <1>5 DEF Lapse, RowsOnly
    <2> QED BY <2>1, <2>2, <2>3, ReplacedRow
<1>6. ASSUME NEW r \in rows, CancelCreate(r)
      PROVE  RowsInv' /\ GoesOneWay
    <2>1. /\ r.status = "pending" /\ rows' = (rows \ {r}) \cup {}
          /\ requests' = requests /\ tries' = tries
        BY <1>6 DEF CancelCreate, RowsOnly
    <2>2. AtMostOne({})
        BY DEF AtMostOne
    <2> QED BY <2>1, <2>2, ChangedRow
<1>7. CASE UNCHANGED vars
    BY <1>7, QuietRows DEF vars, serverVars
<1> QED BY <1>1, <1>2, <1>3, <1>4, <1>5, <1>6, <1>7 DEF Next

\* What the page does when the backend's answer is not for it.
LEMMA UnawarePage ==
    ASSUME PageInv, PageUnaware, tries' = tries
    PROVE  PageInv' /\ LeavesReleased
BY DEF PageInv, PageUnaware, StaysOpen, LeavesReleased

\* An attempt that failed has no skins any more, and keeps the create it has.
LEMMA FailedPage ==
    ASSUME PageInv, NEW why \in SUBSET {"rules", "own"}, Fails(why),
           createId' = createId, tries' = tries
    PROVE  PageInv' /\ LeavesReleased
BY DEF PageInv, Fails, StaysOpen, LeavesReleased

\* The page goes on with a create that has its row: to its skins, or away.
LEMMA WentOnPage ==
    ASSUME PageInv, NEW id \in 1 .. tries, NEW hasSkins \in BOOLEAN,
           GoesOn(id, hasSkins), tries' = tries, hasSkins \/ ~withSkins
    PROVE  PageInv' /\ LeavesReleased
<1>1. CASE hasSkins
    BY <1>1 DEF PageInv, GoesOn, StaysOpen, LeavesReleased
<1>2. CASE ~hasSkins
    BY <1>2 DEF PageInv, GoesOn, Leaves, LeavesReleased
<1> QED BY <1>1, <1>2

\* Every step leaves the page as it may be, and it is done only when the skins
\* it had are no longer waited for.
LEMMA NextPage ==
    ASSUME RowsInv, PageInv, LawInv, [Next]_vars
    PROVE  PageInv' /\ LeavesReleased
<1>1. CASE WizardNext /\ UNCHANGED <<withSkins, createId, refusal, serverVars>>
    <2>1. UNCHANGED <<phase, page>>
        BY <1>1 DEF WizardNext, Fill, Browse, AccountAges, SetSkin, SetAge, SetClues,
                    PickRace, Pick, Unpick, SetTraits, SetDraft, Next1, Back,
                    EditFromSummary, Review, GoTo
    <2> QED BY <1>1, <2>1 DEF PageInv, LeavesReleased, serverVars
<1>2. CASE Submit
    <2>1. CASE Sends
        <3>1. createId' \subseteq 1 .. tries'
            BY <2>1 DEF Sends, PageInv, RowsInv
        <3>2. withSkins' \in BOOLEAN
            BY <2>1 DEF Sends, LawInv
        <3> QED BY <2>1, <3>1, <3>2 DEF PageInv, Sends, StaysOpen, LeavesReleased
    <2>2. CASE ~Sends
        <3>1. PICK id \in createId : GoesOn(id, skins) /\ tries' = tries
            BY <1>2, <2>2 DEF Submit
        <3>2. ~withSkins /\ skins \in BOOLEAN /\ id \in 1 .. tries
            BY <1>2 DEF Submit, submitting, PageInv, LawInv
        <3> QED BY <3>1, <3>2, WentOnPage
    <2> QED BY <2>1, <2>2
<1>3. CASE CreateTimesOut
    BY <1>3, FailedPage DEF CreateTimesOut, serverVars
<1>4. CASE Upload
    <2>1. CASE phase' = "release" /\ UNCHANGED <<createId, refusal, withSkins>> /\ StaysOpen
        BY <1>4, <2>1 DEF PageInv, Upload, serverVars, StaysOpen, LeavesReleased
    <2>2. CASE Fails({}) /\ UNCHANGED createId
        BY <1>4, <2>2, FailedPage DEF Upload, serverVars
    <2> QED BY <1>4, <2>1, <2>2 DEF Upload
<1>5. CASE Release
    <2> PICK mine : mine = {r \in rows : r.id \in createId /\ r.status = "pending"}
        OBVIOUS
    <2>1. CASE Fails({}) /\ UNCHANGED createId
        BY <1>5, <2>1, FailedPage DEF Release
    <2>2. CASE /\ rows' = (rows \ mine) \cup {[r EXCEPT !.held = FALSE] : r \in mine}
               /\ mine # {} /\ Leaves("done")
        <3>1. PICK r \in mine : TRUE
            BY <2>2
        <3>2. mine = rows
            BY <3>1 DEF RowsInv, AtMostOne
        <3>3. rows' = {[s EXCEPT !.held = FALSE] : s \in rows} /\ rows \subseteq Row
            BY <2>2, <3>2 DEF RowsInv
        <3>4. \A s \in rows' : ~s.held
            BY <3>3 DEF Row
        <3>5. PageInv'
            BY <2>2 DEF PageInv, Leaves
        <3> QED BY <3>4, <3>5 DEF LeavesReleased
    <2> QED BY <1>5, <2>1, <2>2 DEF Release
<1>6. CASE CloseTab
    BY <1>6 DEF CloseTab, Leaves, PageInv, LeavesReleased
<1>7. CASE Backend
    <2> PICK q \in requests : Lookup(q) \/ Validate(q) \/ Insert(q) \/ Lost(q)
        BY <1>7 DEF Backend
    <2>1. ASSUME NEW id \in 1 .. tries, Answered(q, id)
          PROVE  PageInv' /\ LeavesReleased
        <3>1. withSkins \in BOOLEAN
            BY DEF PageInv
        <3> QED BY <2>1, <3>1, UnawarePage, WentOnPage DEF Answered
    <2>2. ASSUME NEW why \in SUBSET {"rules", "own"}, Refused(q, why)
          PROVE  PageInv' /\ LeavesReleased
        BY <2>2, UnawarePage, FailedPage DEF Refused
    <2>3. ASSUME NEW step, Waits(q, step)
          PROVE  PageInv' /\ LeavesReleased
        BY <2>3, UnawarePage DEF Waits
    <2>4. (\A r \in rows : r.id \in 1 .. tries) /\ q.id \in 1 .. tries
        BY SubmitAssumption DEF RowsInv, Row, Request
    <2>5. CASE Lookup(q)
        BY <2>1, <2>3, <2>4, <2>5 DEF Lookup
    <2>6. CASE Validate(q)
        BY <2>1, <2>2, <2>3, <2>4, <2>6 DEF Validate
    <2>7. CASE Insert(q)
        BY <2>1, <2>4, <2>7 DEF Insert
    <2>8. CASE Lost(q)
        BY <2>8, UnawarePage DEF Lost
    <2> QED BY <2>5, <2>6, <2>7, <2>8
<1>8. CASE TakeUp \/ \E r \in rows : Lapse(r) \/ CancelCreate(r)
    BY <1>8 DEF TakeUp, Lapse, CancelCreate, RowsOnly, wizardVars, PageInv, LeavesReleased
<1>9. CASE UNCHANGED vars
    BY <1>9 DEF vars, wizardVars, serverVars, PageInv, LeavesReleased
<1> QED BY <1>1, <1>2, <1>3, <1>4, <1>5, <1>6, <1>7, <1>8, <1>9 DEF Next, Browser

\* The inductive invariant of the wizard and what it sends.
SubmitInv == PicksInv /\ LawInv /\ RowsInv /\ PageInv

\* It always holds.
LEMMA AlwaysSubmitInv == Spec => []SubmitInv
<1>1. Init => SubmitInv
    <2> SUFFICES ASSUME Init
                 PROVE  SubmitInv
        OBVIOUS
    <2>1. RowsInv
        BY SubmitAssumption DEF Init, RowsInv, AtMostOne
    <2>2. PageInv
        BY DEF Init, WizardInit, PageInv
    <2> QED BY <2>1, <2>2, InitPicks, InitLaw DEF SubmitInv
<1>2. SubmitInv /\ [Next]_vars => SubmitInv'
    BY NextPicks, NextLaw, NextRows, NextPage DEF SubmitInv
<1> QED BY <1>1, <1>2, PTL DEF Spec

\* The page, the requests and the rows have the shape their code gives them.
THEOREM Types == Spec => []TypeOK
<1>1. SubmitInv => TypeOK
    BY DEF SubmitInv, RowsInv, PageInv, TypeOK
<1> QED BY <1>1, AlwaysSubmitInv, PTL

\* A stored create only goes forward, however its requests interleave with the
\* page, the clock, RPCharacters and the profile.
THEOREM CreatesGoForward == Spec => CreatesGoOneWay
<1>1. SubmitInv /\ SubmitInv' /\ [Next]_vars => [GoesOneWay]_vars
    BY NextRows DEF SubmitInv
<1> QED BY <1>1, AlwaysSubmitInv, PTL DEF Spec, CreatesGoOneWay, GoesOneWay

\* The one way to be done with a create that still waits for its skins is to
\* take the skins back before the create is sent again.
THEOREM ReleasedIfItHadSkins == Spec => HeldOnlyWithoutSkins
<1>1. SubmitInv /\ [Next]_vars => [LeavesReleased]_vars
    BY NextPage DEF SubmitInv
<1> QED BY <1>1, AlwaysSubmitInv, PTL DEF Spec, HeldOnlyWithoutSkins, LeavesReleased
=============================================================================
