SPECIFICATION Spec
CONSTANTS
    Zero = Zero
    CR = CR
    LF = LF
    Byte = {Zero, CR, LF}
    kCheapPrepend = 1
    kInitialSize = 2
    ExtraBufSize = 2
    MaxData = 2
    MaxReadable = 4
INVARIANTS
    IndicesInOrder
    MemoryBounded
PROPERTY
    IsByteStream
