SPECIFICATION Spec
CONSTANTS
    BlockType <- MCBlockType
    Document <- MCLosses
CHECK_DEADLOCK FALSE
INVARIANT EpubTextKept
