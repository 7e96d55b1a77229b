\* every table left of a four-block chain by missing rows and one damaged field
SPECIFICATION Spec
CONSTANTS
    Tables <- MCTables
    Unparsable = {"cut off"}
    Chain <- MCChain
    Digest <- Digested
INVARIANTS
    ReportExact
    ValidMeansUndamaged
CHECK_DEADLOCK FALSE
