SPECIFICATION Spec
CONSTANTS
    Nothing = Nothing
    Mover <- MCMover
    NoMove = TRUE
    Moves = {0, 1}
    MaxWay = 1
    MaxGroups = 2
PROPERTIES
    CtrlClickRemoves
