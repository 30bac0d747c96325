CONSTANTS
    a = a
    b = b
    u = u
    None = None
    Generated <- MCGenerated
    Hand <- MCHand
    Rank <- MCRank
    Families <- MCFamilies
    MaxCuts = 1
    MaxPool = 4
SPECIFICATION Spec
INVARIANTS
    TypeOK
    SplitsAreNamed
    OverridesDieWithTheSplit
PROPERTIES
    CandidatesAreKept
    AccretionKeepsReferences
