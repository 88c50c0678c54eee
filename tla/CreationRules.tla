---------------------------- MODULE CreationRules ----------------------------
(***************************************************************************)
(* What a character may be: the rules of the creation wizard, which decide *)
(* what can be picked and which steps are shown (wizardState.ts), and the  *)
(* backend's own version of them, which decides what a create request may  *)
(* hold (creation_rules.py). Both read the catalog of RPCharacters.        *)
(*                                                                         *)
(* One threshold stands for every account age in the catalog: an account   *)
(* is old enough for all of them or for none.                              *)
(***************************************************************************)
EXTENDS Integers, Sequences, FiniteSets, Functions, FiniteSetsExt

CONSTANTS
    Traits,      \* ids of the traits a visitor picks
    Trait,       \* the catalog's row of each trait
    Races, NoRace,
    AgeMax,      \* the oldest age of each race
    AgeMin,
    Stages,      \* the web stages, sorted by their order
    DefaultClues, EvilClues, MaxClues

Kinds == {"info", "race", "age", "trait", "clue", "wardrobe", "summary"}
Dependency == [kind : {"none", "race", "all", "any"},
               on : SUBSET (Traits \cup Races)]
StageType == [id : STRING, kind : Kinds, key : STRING, needs : Dependency,
              gate : {"none", "min", "max"}, min : Nat, max : Nat,
              points : Nat, permanent : BOOLEAN]
TraitType == [key : STRING, cost : Int, excludes : SUBSET Traits,
              needs : Dependency, replaces : SUBSET Traits,
              seasoned : BOOLEAN,    \* asks for account playtime
              temporary : BOOLEAN]   \* has a duration

RaceIds == Races \cup {NoRace}    \* "" before one is picked
TraitStages == {s \in Range(Stages) : s.kind = "trait"}
StageKeys == {s.key : s \in TraitStages}

\* The shape of a catalog. No two stages offer the same traits, and none that
\* closes as an account ages, or opens only then, insists on a pick.
ASSUME CatalogAssumption ==
    /\ Trait \in [Traits -> TraitType] /\ IsFiniteSet(Traits)
    /\ NoRace \notin Races /\ AgeMax \in [Races -> Nat] /\ AgeMin \in Nat \ {0}
    /\ Stages \in Seq(StageType)
    /\ \A s, t \in TraitStages : s.key = t.key => s = t
    /\ \A t \in Traits : Trait[t].key \in StageKeys
    /\ \A s \in TraitStages : /\ s.gate # "max"
                              /\ s.gate = "min" => s.min = 0
    /\ \A k \in {"race", "age", "clue"} :
          \E s \in Range(Stages) : /\ s.kind = k /\ s.needs.kind = "none"
                                   /\ s.gate = "none"
    /\ DefaultClues \in Nat /\ EvilClues \in Nat
    /\ MaxClues \in Nat /\ DefaultClues <= MaxClues /\ EvilClues <= MaxClues

Selected(picks, key) == {t \in picks : Trait[t].key = key}
Spent(picks, key) == MapThenSumSet(LAMBDA t : Trait[t].cost,
                                   Selected(picks, key))

-----------------------------------------------------------------------------
(* wizardState.ts                                                          *)

\* dependencyMet
Met(needs, picks, race) ==
    \/ needs.kind = "none"
    \/ needs.kind = "race" /\ race \in needs.on
    \/ needs.kind = "all" /\ needs.on \subseteq picks
    \/ needs.kind = "any" /\ needs.on \cap picks # {}

\* passesAccountAgeGate, told by evilUnlocked
PassesGate(stage, unlocked) ==
    /\ stage.gate = "min" => unlocked
    /\ stage.gate = "max" => ~unlocked

IsPlayable(stage, picks, race, unlocked) ==
    Met(stage.needs, picks, race) /\ PassesGate(stage, unlocked)

PlayableStages(picks, race, unlocked) ==
    SelectSeq(Stages, LAMBDA s : IsPlayable(s, picks, race, unlocked))

Exclusive(a, b) ==
    a # b /\ (b \in Trait[a].excludes \/ a \in Trait[b].excludes)

\* Mutant: only what the trait itself lists.
ExclusiveBlockedOneWay(t, others) == Trait[t].excludes \cap others # {}

ExclusiveBlocked(t, others) == \E o \in others : Exclusive(t, o)
DependencyBlocked(t, others, race) ==
    ~Met(Trait[t].needs, others \ {t}, race)

OpenKeys(picks, race, unlocked) ==
    {s.key : s \in {t \in TraitStages : IsPlayable(t, picks, race, unlocked)}}

\* One turn of pruneUnavailableTraits: the picks that may stay beside picks.
KeptBeside(picks, race, unlocked) ==
    LET open == OpenKeys(picks, race, unlocked)
    IN {t \in Traits : /\ Trait[t].key \in StageKeys => Trait[t].key \in open
                       /\ Met(Trait[t].needs, picks \ {t}, race)}

\* Mutant: one turn, and no more.
PrunedOnce(picks, race, unlocked) ==
    picks \cap KeptBeside(picks, race, unlocked)

\* Where its turns end: all the picks that may stay together.
Pruned(picks, race, unlocked) ==
    {t \in picks : \E s \in SUBSET picks :
                      t \in s /\ s \subseteq KeptBeside(s, race, unlocked)}

\* The loop itself: it turns until a turn drops nothing.
PruneLoop(picks, race, unlocked) ==
    LET turns[before \in SUBSET Traits] ==
            LET kept == before \cap KeptBeside(before, race, unlocked)
            IN IF kept = before THEN before ELSE turns[kept]
    IN turns[picks]

\* stripInjuriesReplacedByProsthetics
Strip(picks) ==
    picks \ UNION {Trait[t].replaces : t \in Selected(picks, "prosthetic")}

SetTraitsForKey(picks, key, selected) ==
    Strip((picks \ Selected(picks, key)) \cup selected)

TraitsForStage(stage) ==
    {t \in Traits : /\ Trait[t].key = stage.key
                    /\ stage.permanent => ~Trait[t].temporary}

CluesRequired(picks) ==
    IF Selected(picks, "evil") # {} /\ EvilClues > DefaultClues
    THEN EvilClues ELSE DefaultClues

RaceAgeMax(race) == IF race \in Races THEN AgeMax[race] ELSE 200

StageCanContinue(stage, d) ==
    /\ stage.kind = "race" => d.race # NoRace
    /\ stage.kind = "age" => d.age \in AgeMin .. RaceAgeMax(d.race)
    /\ stage.kind = "clue" => d.clues >= CluesRequired(d.picks)
    /\ stage.kind = "trait" =>
          /\ Cardinality(Selected(d.picks, stage.key)) \in stage.min .. stage.max
          /\ stage.points > 0 => Spent(d.picks, stage.key) <= stage.points

-----------------------------------------------------------------------------
(* creates.py and creation_rules.py                                        *)

\* dependency_met and passes_account_age_gate
DependencyMet(needs, ids, race) ==
    CASE needs.kind = "none" -> TRUE
      [] needs.kind = "race" -> race \in needs.on
      [] needs.kind = "all"  -> \A w \in needs.on : w \in ids
      [] needs.kind = "any"  -> \E w \in needs.on : w \in ids
Opens(stage, ids, race, old) ==
    /\ DependencyMet(stage.needs, ids, race)
    /\ stage.gate = "none" \/ (stage.gate = "min" /\ old)
                           \/ (stage.gate = "max" /\ ~old)

\* traits_error finds nothing wrong.
TraitsPass(picked, race, old) ==
    /\ \A s \in TraitStages :
          LET inStage == Selected(picked, s.key)
          IN IF Opens(s, picked, race, old)
             THEN /\ s.permanent => \A t \in inStage : ~Trait[t].temporary
                  /\ Cardinality(inStage) \in s.min .. s.max
                  /\ inStage # {} /\ s.points > 0 =>
                        Spent(picked, s.key) <= s.points
             ELSE inStage = {}
    /\ \A t \in picked :
          /\ Trait[t].key \in StageKeys
          /\ \A o \in picked \ {t} :
                o \notin Trait[t].excludes /\ t \notin Trait[o].excludes
          /\ DependencyMet(Trait[t].needs, picked \ {t}, race)
          /\ Trait[t].seasoned => old

\* _validate_and_normalize, as far as the rules of the catalog go
RulesPass(body, old) ==
    LET evil == \E t \in body.picks : Trait[t].key = "evil"
    IN /\ body.race \in Races
       /\ body.age \in AgeMin .. AgeMax[body.race]
       /\ body.clues >= DefaultClues
       /\ evil => body.clues >= EvilClues
       /\ body.clues <= MaxClues
       /\ TraitsPass(Strip(body.picks), body.race, old)
=============================================================================
