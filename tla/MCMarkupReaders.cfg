SPECIFICATION FairSpec
CONSTANTS
    BlockType <- MCBlockType
    Document <- MCDocument
CHECK_DEADLOCK FALSE
INVARIANTS TextsInOrder ProseKept ParagraphsWhole ItemsInLists RowsWhole HeadingsByAdornment NestingAsWritten StylesInPlace ItemTextsAsWritten
PROPERTIES Terminates
