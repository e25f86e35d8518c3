SPECIFICATION FairSearchSpec
CONSTANTS
    Requests = {s1, s2, s3, s4}
    Connections = {k1, k2}
    NoClient = NoClient
INVARIANTS OneSearchAtATime
PROPERTIES  ServedInOrder
\* When all searches have ended, the service waits for further calls.
CHECK_DEADLOCK FALSE
