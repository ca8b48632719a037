SPECIFICATION ListsSpec
CONSTANTS
    Component = {"repair", "plain", "sections"}
    BlockType <- MCBlockType
    Input <- MCInput
    NoElement = NoElement
    NoLevel = NoLevel
    Content <- MCContent
    NoText = ""
    Converted <- MCConverted
    Null = Null
    Document <- MCDocument
    Phrase <- MCPhrase
    Id <- MCId
CHECK_DEADLOCK FALSE
INVARIANTS StackGrows LevelsRepaired NothingLost NoOpOnWholeDocuments TopLevelFragmentsComeOutWhole NoLonePlainLeft NoJumpIntroduced AncestorsKept BodyIsWithoutMetadata AnswersAreSubtrees SearchFindsInnermost
