SPECIFICATION Spec
CONSTANTS
    Users = {u}
    Requests = {r1, r2, r3}
    Faults = {"fail", "crash", "time"}
    MaxFaults = 1
SYMMETRY Symmetry
INVARIANTS TypeOK RegisteredOrUntouched SuccessStays LastPinStored
