SPECIFICATION Spec
CONSTANTS
    Nothing = Nothing
    Mover <- MCMover
    NoMove = TRUE
    Moves = {0, 1}
    MaxWay = 2
    MaxGroups = 3
INVARIANTS
    TypeOK
    GroupsAreOfPaths
PROPERTIES
    ImplementsReview
