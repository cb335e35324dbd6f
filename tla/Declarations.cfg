SPECIFICATION Spec
CONSTANTS
    Nothing = Nothing
    Requests <- MCRequests
    Own = {"u"}
    Enemy = {"e", "f"}
INVARIANTS
    TypeOK
    ShotsAreOffered
    OneTargetPerWeapon
    EveryModelFights
    StratagemTargetIsOwn
PROPERTIES
    PressChangesOne
