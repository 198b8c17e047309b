SPECIFICATION Spec
CONSTANTS
    V_MAX_S64 = 15
    MaxSystemTime = 2
    MaxOffset = 1
    Threads = {t1, t2}
    Factors <- MCFactors
    Years = {1969, 1970, 1972, 2000, 2100, 2101}
    Days = {1, 2, 27, 28, 29, 30, 31}
    Hours = {0, 23}
    Zones <- MCZones
    Instants <- MCInstants
    FieldLetters = {"y", "M"}
    UnusedLetters = {"w"}
    PlainCharacters = {"-"}
    NonASCII = {"e-acute"}
    MaxFormat = 5
INVARIANTS
    TimeHolds
SYMMETRY ThreadSymmetry
CHECK_DEADLOCK FALSE
