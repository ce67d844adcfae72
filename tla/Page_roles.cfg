SPECIFICATION Spec
CONSTANTS
    admin = admin
    inuyasha = inuyasha
    Users = {admin, inuyasha}
    Admin = admin
    NULL = NULL
    MaxLoads = 3
    MaxClicks = 2
    MaxLogins = 2
    MaxWarnings = 2
CHECK_DEADLOCK FALSE
INVARIANTS TypeOK RolesAgree WarningsOnce
PROPERTY MainOpens
