SPECIFICATION Spec
CONSTANTS
    Requests <- AllRequests
    None = None
    MaxRequests = 2
INVARIANTS
    TypeOK
    InterpolatedOnce
    NothingUnassigned
    ArraysOfTheirTechnology
