SPECIFICATION PromiseSpec
CONSTANTS
    BlockType <- MCBlockType
    Document <- MCDocument
    NoParam = NoParam
    HeadingOf <- MCHeadingOf
CHECK_DEADLOCK FALSE
INVARIANTS TextsRead RowsRead ParagraphsOfTheirKind FormatsScoped ItemsInLists
