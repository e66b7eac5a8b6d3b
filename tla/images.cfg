\* Images are written, read, loaded, run, and exported again.
SPECIFICATION Spec
CONSTANTS
    Bits = 8
    ByteBits = 4
    Decimal = 10
    Hex = 4
    Group = 4
    Sources <- MCSources
    Table <- MCTable
    MaxExports = 2
INVARIANT FilesReadBack
INVARIANT ImagesDenoteHeaps
CHECK_DEADLOCK FALSE
