-------------------------- MODULE MCCreationSubmit --------------------------
\* A small catalog with rules of every kind: a race that opens a trait that opens
\* a step, which a later trait opens too; an exclusive pair listed on one side; an
\* injury that a prosthetic replaces; a race too short-lived for the age; a step
\* for old accounts.
EXTENDS CreationSubmit

Free == [kind |-> "none", on |-> {}]
Plain(key, cost) ==
    [key |-> key, cost |-> cost, excludes |-> {}, needs |-> Free,
     replaces |-> {}, seasoned |-> FALSE, temporary |-> FALSE]
Step(kind) == [id |-> kind, kind |-> kind, key |-> "", needs |-> Free,
               gate |-> "none", min |-> 0, max |-> 99, points |-> 0,
               permanent |-> FALSE]
TraitStep(key, min, max, points) ==
    [Step("trait") EXCEPT !.id = key, !.key = key, !.min = min, !.max = max,
                          !.points = points]

MCTraits == {"lame", "tyrant", "peg"}
MCTrait ==
    [lame   |-> [Plain("injury", 1) EXCEPT
                   !.needs = [kind |-> "race", on |-> {"elf"}]],
     tyrant |-> [Plain("evil", 1) EXCEPT !.seasoned = TRUE,
                                         !.excludes = {"peg"}],
     peg    |-> [Plain("prosthetic", 0) EXCEPT !.replaces = {"lame"}]]
MCRaces == {"human", "elf"}
MCAgeMax == [human |-> 100, elf |-> 400]
MCStages ==
    <<Step("age"), Step("race"),
      [TraitStep("injury", 0, 2, 1) EXCEPT !.permanent = TRUE],
      [TraitStep("evil", 0, 2, 0) EXCEPT
         !.needs = [kind |-> "any", on |-> {"lame", "peg"}], !.gate = "min"],
      TraitStep("prosthetic", 0, 1, 0),
      Step("clue"), Step("wardrobe"), Step("summary")>>
MCAges == {150}
=============================================================================
