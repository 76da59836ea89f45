\* Stops and pauses take effect.
SPECIFICATION FairSpec
CONSTANTS
    NULL = NULL
    Binding = {b1}
    Config = {good}
    Enabled = {good}
    Secretive = {}
    Works = {good}
    Client = {c1, c2}
    MaxThreads = 2
    MaxVerifications = 1
    MaxCrashes = 0
PROPERTIES
    StopEnds
    AcceptingIsRepaired
    StoppedTakesNoMore
