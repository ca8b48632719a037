SPECIFICATION ListsSpec
CONSTANTS
    Component = {"repair"}
    BlockType <- MCBlockType
    Input <- MCInput
    NoElement = NoElement
    NoLevel = NoLevel
    Content <- MCContent
    NoText = ""
    Converted <- MCConverted
    Null = Null
    Document <- MCDocument
    Phrase <- MCPhrase
    Id <- MCId
CHECK_DEADLOCK FALSE
INVARIANT FlatFragmentsComeOutWhole
