SPECIFICATION FairSpec
CONSTANTS
    p1 = p1  p2 = p2  s1 = s1  s2 = s2  k1 = k1
    Runs = {r1, r2}
    Consumers = {c1}
    Prefetch = 1
    LdapSchools = {s1}
    People = {p1, p2}
    LdapClasses = {k1}
    PersonSchool <- MCOneSchool
    PersonRole <- MCRole
    PersonEmail <- MCSameEmail
    ClassSchool <- MCClassSchool
    ClassMembers <- MCMembers
    Known = {}
    Disturbances = {"crash"}
    MaxDisturbances = 1
    MaxRevision = 1
INVARIANTS OneUserPerEmail CompleteAtRest
PROPERTIES  EveryEmailGetsAccount
