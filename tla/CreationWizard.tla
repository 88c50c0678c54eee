--------------------------- MODULE CreationWizard ---------------------------
(***************************************************************************)
(* The wizard as the visitor fills it in (CreationWizard.tsx): one step is *)
(* on the screen, its field changes the draft, every change prunes the     *)
(* picks that are no longer allowed, and with the picks the steps change.  *)
(* Fields that are right or wrong by themselves, like the name, are left  *)
(* out: they gate Next and nothing else.                                   *)
(***************************************************************************)
EXTENDS CreationRules

CONSTANTS
    Ages         \* bound: ages a visitor enters; at first the field is empty, 0

ASSUME WizardAssumption == Ages \subseteq Nat

VARIABLES
    draft,       \* [picks, race, age, clues]
    skins,       \* wardrobeDraft holds a file
    index,       \* the step on the screen, from 1
    unlocked,    \* evilUnlocked, as the page was told when it opened
    old,         \* the account has since, or had, the age of every gate
    phase,       \* what onSubmit waits for; submitting, unless idle
    page         \* open, done (off to the profile) or closed

draftVars == <<draft, skins, index>>
wizardVars == <<draft, skins, index, unlocked, old, phase, page>>
submitting == phase # "idle"

EmptyDraft == [picks |-> {}, race |-> NoRace, age |-> 0, clues |-> 0]

StagesOf(d) == PlayableStages(d.picks, d.race, unlocked)
Steps == StagesOf(draft)
Here == Steps[index]
IsLast == index = Len(Steps)
ShowSubmit == Here.kind = "summary" \/ IsLast
Incomplete == {s \in Range(Stages) :
                 /\ IsPlayable(s, draft.picks, draft.race, unlocked)
                 /\ ~StageCanContinue(s, draft)}

\* The effect that follows the steps.
Clamped(i, steps) == IF i > Len(steps) THEN Len(steps) ELSE i

\* Every change of the draft goes through the wrapper that prunes it.
SetDraft(d) ==
    /\ draft' = [d EXCEPT !.picks = Pruned(d.picks, d.race, unlocked)]
    /\ index' = Clamped(index, StagesOf(draft'))
    /\ UNCHANGED <<skins, unlocked, old, phase, page>>

On(kind) == page = "open" /\ Here.kind = kind

SetAge(a) == On("age") /\ SetDraft([draft EXCEPT !.age = a])
SetClues(n) == On("clue") /\ SetDraft([draft EXCEPT !.clues = n])

\* A second click on the race takes it back.
PickRace(r) ==
    /\ On("race")
    /\ SetDraft([draft EXCEPT !.race = IF @ = r THEN NoRace ELSE r])

\* The fields of a trait step
OnTraits(stage) == page = "open" /\ Here = stage

SetTraits(stage, selected) ==
    SetDraft([draft EXCEPT !.picks = SetTraitsForKey(@, stage.key, selected)])

\* toggle, of a trait that is picked
Unpick(stage, t) ==
    /\ OnTraits(stage) /\ t \in draft.picks
    /\ SetTraits(stage, Selected(draft.picks, stage.key) \ {t})

\* toggle, of one that is not: a stage of one pick replaces it.
Pick(stage, t) ==
    LET selected == Selected(draft.picks, stage.key)
        next == IF stage.max <= 1 THEN {t} ELSE selected \cup {t}
        others == (draft.picks \ TraitsForStage(stage)) \cup next
        remaining == IF stage.max <= 1 THEN stage.points
                     ELSE stage.points - Spent(draft.picks, stage.key)
    IN /\ OnTraits(stage) /\ t \notin draft.picks
       /\ Trait[t].seasoned => unlocked
       /\ stage.max > 1 => Cardinality(selected) < stage.max
       /\ stage.points > 0 => Trait[t].cost <= remaining
       /\ ~ExclusiveBlocked(t, others)
       /\ ~DependencyBlocked(t, others, draft.race)
       /\ SetTraits(stage, next)

SetSkin == /\ On("wardrobe")
           /\ skins' = ~skins
           /\ UNCHANGED <<draft, index, unlocked, old, phase, page>>

GoTo(i) == /\ page = "open" /\ i # index
           /\ index' = i
           /\ UNCHANGED <<draft, skins, unlocked, old, phase, page>>

Next1 == /\ ~ShowSubmit /\ ~submitting
         /\ StageCanContinue(Here, draft)
         /\ GoTo(index + 1)
Back == index > 1 /\ ~submitting /\ GoTo(index - 1)

\* An Edit link of the summary, to the first step of its kind.
EditFromSummary(kind) ==
    /\ On("summary")
    /\ \E i \in DOMAIN Steps :
          /\ Steps[i].kind = kind
          /\ \A j \in 1 .. i - 1 : Steps[j].kind # kind
          /\ GoTo(i)

\* A Review link, to a step that is not complete.
Review == /\ ShowSubmit
          /\ \E i \in DOMAIN Steps : Steps[i] \in Incomplete /\ GoTo(i)

\* Time passes with the wizard open; it is not told.
AccountAges == /\ ~old /\ old' = TRUE
               /\ UNCHANGED <<draft, skins, index, unlocked, phase, page>>

WizardInit ==
    /\ draft = EmptyDraft /\ skins = FALSE /\ index = 1
    /\ unlocked \in BOOLEAN /\ old = unlocked
    /\ phase = "idle" /\ page = "open"

Fill == \/ SetSkin
        \/ \E a \in Ages : SetAge(a)
        \/ \E n \in 0 .. MaxClues : SetClues(n)
        \/ \E r \in Races : PickRace(r)
        \/ \E s \in TraitStages : \E t \in TraitsForStage(s) :
              Pick(s, t) \/ Unpick(s, t)
Browse == \/ Next1 \/ Back
          \/ \E kind \in Kinds \ {"info", "summary"} : EditFromSummary(kind)
          \/ Review

WizardNext == Fill \/ Browse \/ AccountAges

-----------------------------------------------------------------------------
(* Properties.                                                             *)

\* Whatever was clicked and taken back, the picks never hold an exclusive pair,
\* an injury beside the prosthetic that replaces it, a trait of a step that is
\* closed, one whose requirement is gone or one the account is too young for.
PicksAreAllowed ==
    /\ draft.picks \subseteq KeptBeside(draft.picks, draft.race, unlocked)
    /\ \A s, t \in draft.picks : ~Exclusive(s, t)
    /\ Strip(draft.picks) = draft.picks
    /\ \A t \in draft.picks : Trait[t].seasoned => unlocked

\* When another race takes picks away, the loop of pruneUnavailableTraits ends,
\* and it keeps every pick that may stay.
LoopKeepsTheMost ==
    \A r \in RaceIds \ {draft.race} :
        PruneLoop(draft.picks, r, unlocked) = Pruned(draft.picks, r, unlocked)
=============================================================================
