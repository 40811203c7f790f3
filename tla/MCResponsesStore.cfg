SPECIFICATION Spec
CONSTANTS
    Ids = {1, 2, 3, 4}
    MaxRecords = 3
    MaxBytes = 9
    Sizes <- MCSizes
INVARIANTS
    NeverFaults
    BooksExact
PROPERTIES
    EvictsOnlyWhatItMust
CHECK_DEADLOCK FALSE
