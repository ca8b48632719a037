SPECIFICATION Spec
CONSTANTS
    Session = {s1, s2}
    Key <- MCKey
    Segment <- MCSegment
    Lower <- MCLower
    Name <- MCName
    Function <- MCFunction
    QualifiedIdentifier <- MCQualifiedIdentifier
    Option <- MCOption
    WellFormedOption <- MCWellFormedOption
    Seeds <- MCSeeds
    Call <- MCCall
    NoCall = NoCall
    NoRow = NoRow
INVARIANTS TypeOK OneRowPerKey UserRowsAdmitted
PROPERTIES FunctionNeverLost ImplementsTable
