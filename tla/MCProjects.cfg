CONSTANTS
    a1 = a1
    a2 = a2
    n1 = n1
    nbad = nbad
    admin = admin
    NoProject = NoProject
    Subs <- MCSubs
    Keys <- MCKeys
    Names <- MCNames
    ValidNames <- MCValidNames
    ADMIN_PROJECT_NAME = admin
    KeyLists <- MCKeyLists
    MaxCu = 1
    MaxSnapshots = 1
SYMMETRY MCSymmetry
SPECIFICATION Spec
INVARIANT TypeOK
INVARIANT DeveloperKeyOwnership
PROPERTY AdminProjectOwnsOwnerKey
