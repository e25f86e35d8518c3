SPECIFICATION FairSpec
CONSTANTS
    t1 = t1  t2 = t2  u1 = u1  u2 = u2
    s1 = s1  s2 = s2  a1 = a1  a2 = a2  i1 = i1  i2 = i2
    Tasks = {t1, t2}
    Users = {u1, u2}
    Schools = {s1, s2}
    SchoolOf <- MCTwoSchools
    Accounts = {a1, a2}
    OwnerOf <- MCOwnerOf
    Items = {i1, i2}
    LessonOf <- MCOneLesson
    WithProvider = {s1}
    InitialRefs <- MCFull
    StepList <- MCFewSteps
    Disturbances = {"step"}
    MaxDisturbances = 1
PROPERTIES ChainRunsToItsEnd RelatedDataEventuallyRemoved
