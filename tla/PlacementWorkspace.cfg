SPECIFICATION Spec
CONSTANTS
    Nothing = Nothing
    Models = {"a", "b"}
    Units = {"r", "u", "w"}
    Players = {"p", "q"}
    Armies = {"A", "B"}
    Spots = {"x", "y"}
    Requests <- MCRequests
    Views <- MCViews
INVARIANTS
    TypeOK
    PayloadIsOfRequest
PROPERTIES
    ImplementsReview
