SPECIFICATION Spec
CONSTANTS
    p1 = p1  p2 = p2  s1 = s1  s2 = s2  k1 = k1
    Runs = {r1}
    Consumers = {c1, c2}
    Prefetch = 1
    LdapSchools = {s1, s2}
    People = {p1, p2}
    LdapClasses = {k1}
    PersonSchool <- MCTwoSchools
    PersonRole <- MCRole
    PersonEmail <- MCOwnEmail
    ClassSchool <- MCClassSchool
    ClassMembers <- MCMembers
    Known = {s1}
    Disturbances = {"crash", "command", "ldap", "loss", "maintenance"}
    MaxDisturbances = 2
    MaxRevision = 1
INVARIANTS TypeOK ClassListsItsMembers 
