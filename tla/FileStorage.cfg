SPECIFICATION Spec
CONSTANTS
    Ann = Ann
    Bob = Bob
    Maths = Maths
    Home = Home
    Other = Other
    p1 = p1
    p2 = p2
    Users <- MCUsers
    Courses = {Maths}
    Team = Team
    Students = {Bob}
    CourseMembers <- MCMembers
    Schools = {Home, Other}
    School <- MCSchool
    Providers = {p1, p2}
    MaxBuckets <- MCMaxBuckets
    NoOne = NoOne
    Requests = {r1, r2}
    Docs = {1, 2, 3}
    TeamRole <- MCTeamRole
    MaxStarts = 2
    MaxFaults = 1
SYMMETRY Symmetry
INVARIANTS TypeOK ObjectAtHome
PROPERTY BlockedStays
CHECK_DEADLOCK FALSE
