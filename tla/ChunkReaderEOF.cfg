SPECIFICATION Spec
CONSTANTS
    MaxSize = 6
    ChunkBuffer = 5
    MaxLine = 2
INVARIANTS
    EOFHandled
