SPECIFICATION Spec
CONSTANTS
    Ann = Ann
    Bob = Bob
    Cem = Cem
    Eva = Eva
    Home = Home
    Other = Other
    Experts = Experts
    Nobody = Nobody
    Users <- MCUsers
    Schools <- MCSchools
    School <- MCSchool
    Teachers <- MCTeachers
    Strangers = {Eva}
    Requests = {r1, r2}
    MaxRequests = 4
    ForeignUsers = FALSE
SYMMETRY Symmetry
INVARIANTS TypeOK  NoEmptyTeamAtRest 
PROPERTY OwnerStaysOwner
CHECK_DEADLOCK FALSE
