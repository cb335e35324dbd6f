SPECIFICATION TableSpec
CONSTANTS
    Nothing = Nothing
    Wrong = Wrong
    Start <- MCStart
    Words <- MCWords
    Lower <- MCLower
    Objects <- MCObjects
    Files <- MCFiles
    Under <- MCUnder
    Presses <- MCPresses
    MaxRequests = 2
    RollIds = {"r1", "r2"}
    Dice = 2
    Faces = {6, 8}
    Selections = {{{1}}, {{1}, {1, 2}}}
    MaxRerolls = 1
    MaxPayloads = 2
INVARIANTS
    TableTypeOK
    WithinProfile
    FacesAreRolled
    SelectionFits
    HintsAreTrue
    RoundTrips
CHECK_DEADLOCK FALSE
