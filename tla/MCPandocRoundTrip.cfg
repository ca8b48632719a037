SPECIFICATION TripSpec
CONSTANTS
    BlockType <- MCBlockType
    Document <- MCDocument
    NativeRows <- MCNativeRows
CHECK_DEADLOCK FALSE
INVARIANTS RowsAreAWholeDocument TextIsLostInTheseShapesOnly ComesBackAsItWas
