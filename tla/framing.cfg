SPECIFICATION Spec
CONSTANTS
    BUFFER_SIZE = 4
    Others <- MCOthers
    NUL = NUL
    NoFrame = NoFrame
    MaxBytes = 8
INVARIANT TypeOK
INVARIANT BufferWriteInBounds
INVARIANT ProcessedAreTheFrames
PROPERTY ImplementsReceiver
