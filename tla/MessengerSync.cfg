SPECIFICATION Spec
CONSTANTS
    c = c
    t = t
    u = u
    w = w
    Courses = {c}
    TeamRooms = {t}
    Users = {u, w}
    Muted = {w}
    Handlers = {1, 2}
    Prefetch = 2
    UserPage = 1
    CoursePage = 1
    Faults = {"fail", "crash", "close", "slow", "drop"}
    MaxEvents = 2
    MaxFaults = 2
    MaxTroubles = 3
INVARIANTS TypeOK 
PROPERTY QueueDrained
CHECK_DEADLOCK FALSE
