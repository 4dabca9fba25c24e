SPECIFICATION Spec
CONSTANTS
    a = a
    b = b
    Zero = a
    Byte <- MCByte
    Chunks <- MCChunks
    MaxReadable = 5
INVARIANTS
    SpaceBounded
    IInv
PROPERTIES
    ImplementsByteQueue
