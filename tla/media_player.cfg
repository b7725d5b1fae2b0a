SPECIFICATION PlayerSpec
CONSTANTS
    a = a
    b = b
    Songs = {a, b}
    Queues <- QueuesChecked
    None = None
    NoArt = NoArt
    Band <- BandChecked
    Unknown <- UnknownChecked
    Presets = {13, 14}
    Stations = {12}
    MaxUpdates = 2
    MaxPresses = 3
    MaxMoves = 1
    MaxTunes = 2
    MaxEvents = 5
CHECK_DEADLOCK FALSE
INVARIANTS
    ShowsTheDaemon
    ArtRight
    ArtOnItsWay
    OneSource
    ShowsTheTuner
    TunesInBand
