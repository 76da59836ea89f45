\* Requests and lines that are longer than a pipe, a line that is shorter and
\* one that is longer than a chunk, and outputs over the limit.
SPECIFICATION BridgeFairSpec
CONSTANTS
    REQUEST = 2
    Lines = {1, 3}
    CAPACITY = 1
    CHUNK = 2
    MAX_MESSAGE = 3
    MaxWritten = 4
INVARIANTS
    BridgeIInv
    AcceptedIsWhole
    AnswerKept
    OrphanOnlyByTerminate
PROPERTY
    RunEnds
CHECK_DEADLOCK FALSE
