SPECIFICATION DispatchSpec
CONSTANTS
    Session = {s1}
    Key <- MCKey
    Segment <- MCKey
    Lower <- MCLower
    Name <- MCName
    Function <- MCFunction
    QualifiedIdentifier <- MCQualifiedIdentifier
    Option <- MCOption
    WellFormedOption <- MCOption
    Seeds <- MCSeeds
    Call <- MCCall
    NoCall = NoCall
    NoRow = NoRow
    Path <- MCPath
    KeyOf <- MCKeyOf
    Request <- MCRequest
    NoAnswer = NoAnswer
    EnabledName <- MCEnabledName
    Loadable <- MCLoadable
    Null = Null
INVARIANT PagesHonoured
