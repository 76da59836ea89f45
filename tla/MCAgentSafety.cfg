\* Two requests in flight, restarts of the worker and of the process.
SPECIFICATION Spec
CONSTANTS
    NULL = NULL
    Binding = {b1}
    Config = {good, bad}
    Enabled = {good, bad}
    Secretive = {}
    Works = {good}
    Client = {c1, c2}
    MaxThreads = 2
    MaxVerifications = 2
    MaxCrashes = 1
SYMMETRY ClientSymmetry
INVARIANTS
    AgentIInv
    OneExecution
    OneLoop
    OwnStopEvent
    VerifiedMatchesStored
PROPERTIES
    ImplementsPromise
