\* A program by the interpreter, by both translators, and by the scans.
SPECIFICATION Spec
CONSTANTS
    Bits = 8
    ByteBits = 4
    StackLen = 12
    ContainerBase = 1000
    Instrs <- MCInstrs
    Stacks <- MCStacks
    Objects <- MCObjects
    MaxSteps = 2
INVARIANT RegionAgrees
INVARIANT TranslatedAgrees
INVARIANT ScansFollowTheStack
CHECK_DEADLOCK FALSE
