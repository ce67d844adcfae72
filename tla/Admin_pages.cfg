CONSTANTS
    p1 = p1
    p2 = p2
    admin = admin
    inuyasha = inuyasha
    kagome = kagome
    kikyo = kikyo
    old = old
    new = new
    NULL = NULL
    Pages = {p1, p2}
    Patient = {p1}
    InitialUsers <- Users2
    Groups = {1, 2}
    Admin = admin
    Names = {kikyo}
    Passwords = {new}
    IdBits = 5
    MaxCalls = 4
SPECIFICATION Spec
CHECK_DEADLOCK FALSE
INVARIANTS
    RowsNameUsers
    OwnWorkShown
PROPERTY
    PatientRowsLeave
