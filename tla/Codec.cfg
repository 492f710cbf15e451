SPECIFICATION Spec
CONSTANTS
    Modules <- MCModules
    Sources <- MCSources
    Inserted <- MCInserted
    Replacements <- MCReplacements
    Integers0 <- MCIntegers
    MaxEdits = 1
    maxDecodedLocals = 4
INVARIANTS
    LebExact
    SectionsExact
    RoundTrip
CHECK_DEADLOCK FALSE
