SPECIFICATION TripSpec
CONSTANTS
    BlockType <- MCBlockType
    Document <- MCLosingDocument
    NativeRows <- MCLosingRows
CHECK_DEADLOCK FALSE
INVARIANT EveryWordComesBack
