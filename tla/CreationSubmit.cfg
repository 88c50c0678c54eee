SPECIFICATION Spec
CONSTANTS
    Traits <- MCTraits
    Trait <- MCTrait
    Races <- MCRaces
    NoRace = ""
    AgeMax <- MCAgeMax
    AgeMin = 16
    Stages <- MCStages
    DefaultClues = 0
    EvilClues = 1
    MaxClues = 1
    Ages <- MCAges
    MaxTries = 2
INVARIANTS
    PicksAreAllowed LoopKeepsTheMost OneCharacter OnlyOthersRefuse
PROPERTIES
    CreatesAreTakenUp
CHECK_DEADLOCK FALSE
