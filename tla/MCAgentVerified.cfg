\* An edit while a verification starts.
SPECIFICATION Spec
CONSTANTS
    NULL = NULL
    Binding = {b1}
    Config = {good, bad}
    Enabled = {good, bad}
    Secretive = {}
    Works = {good}
    Client = {c1, c2}
    MaxThreads = 1
    MaxVerifications = 1
    MaxCrashes = 0
INVARIANT
    VerifiedConfigWorks
