\* An edit while accepting starts.
SPECIFICATION FairSpec
CONSTANTS
    NULL = NULL
    Binding = {b1}
    Config = {good, newer}
    Enabled = {good, newer}
    Secretive = {}
    Works = {good, newer}
    Client = {c1, c2}
    MaxThreads = 1
    MaxVerifications = 1
    MaxCrashes = 0
PROPERTY
    StaleOfferEnds
