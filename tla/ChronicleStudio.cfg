SPECIFICATION XSpec
CONSTANTS
    h1 = h1
    h2 = h2
    NoFile = NoFile
    LastDay = 3
    DefaultDays = 1
    Hashes <- MCHashes
    Histories <- MCHistories
    Toggles = {"off", "fill"}
    Realms = {"Avalon"}
    Ranges <- MCRanges
    MaxClips = 2
    MaxBuilds = 2
    Window = 2
    MaxFrames = 3
INVARIANTS
    OneBuild BitmapsAccountedFor UnderCeiling BuildScreenHasWayOut PaintsTheFilm
    ExportIsOneFilm ExportKeepsOrLosesItsFilm
PROPERTIES
    ShowsTheFilm CancelledStaysOff BuildEndsAtLast
    ExportEnds
CHECK_DEADLOCK FALSE
