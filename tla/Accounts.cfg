CONSTANTS
    NULL = NULL
    admin = admin
    system = system
    alice = alice
    old = old
    new = new
    Account = {admin, system, alice}
    Admin = admin
    System = system
    Password = {old, new}
    BootstrapPassword = old
    Browser = {b1}
    Request = {r1, r2, r3}
    Operation <- Operations
    MaxRequests = 4
SPECIFICATION Spec
INVARIANTS
    AccountsTypeOK
    RotationIsReal
    CookiesAgree
PROPERTIES
    NoEditLostOnceRead
    ReactivatedOnlyByEdit
SYMMETRY Slots
CHECK_DEADLOCK FALSE
