SPECIFICATION ReadSpec
CONSTANTS
    Session = {s1}
    Key <- MCKey
    Segment <- MCKey
    Lower <- MCLower
    Name <- MCName
    Function <- MCFunction
    QualifiedIdentifier <- MCQualifiedIdentifier
    Option <- MCOption
    WellFormedOption <- MCOption
    Seeds <- MCSeeds
    Call <- NamedCalls
    NoCall = NoCall
    NoRow = NoRow
    Path <- MCPath
    KeyOf <- MCKeyOf
    Source <- MCSource
    EnabledName <- MCEnabledName
    Loadable <- MCLoadable
    Null = Null
INVARIANTS BuiltinDenied NoPathDropped
