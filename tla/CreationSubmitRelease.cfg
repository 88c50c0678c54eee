SPECIFICATION Spec
CONSTANTS
    Traits <- MCTraits
    Trait <- MCTrait
    Races <- MCRaces
    NoRace = ""
    AgeMax <- MCAgeMax
    AgeMin = 16
    Stages <- MCStages
    DefaultClues = 0
    EvilClues = 1
    MaxClues = 1
    Ages <- MCAges
    MaxTries = 2
INVARIANTS
    DoneIsReleased
CHECK_DEADLOCK FALSE
