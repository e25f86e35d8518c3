SPECIFICATION CourseworkSpec
CONSTANTS
    s1 = s1  s2 = s2  c1 = c1  c2 = c2  c3 = c3
    Students = {s1, s2}
    Classes = {c1, c2, c3}
    Members <- MCMembers
    NoClass = NoClass
    Edits = {e1}
    MaxEdits = 1
    Pupils = {s1, s2}
    Teacher = teacher
    Group = {s1}
    Ids = {i1, i2}
    Calls = {r1, r2}
    MaxCalls = 2
    MaxRequests = 2
INVARIANT StudentsSubmitOnce
CHECK_DEADLOCK FALSE
