SPECIFICATION Spec
CONSTANTS
    u1 = u1  u2 = u2  e1 = e1  e2 = e2  e3 = e3
    Requests = {r1, r2, r3}
    Users = {u1, u2}
    Emails = {e1, e2, e3}
    InitEmail <- MCInitEmail
    Disturbances = {"mail", "command", "crash", "time"}
    MaxDisturbances = 1
INVARIANTS TypeOK ConfirmedAddress AgreeAtRest UniqueAddresses OpenJobWasMailed
SYMMETRY MCSymmetry
