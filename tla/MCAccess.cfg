SPECIFICATION Spec
CONSTANTS
    e1 = e1
    e2 = e2
    p1 = p1
    p2 = p2
    s1 = s1
    s2 = s2
    Emails = {e1, e2}
    Passwords = {p1, p2}
    Subscribers = {s1, s2}
    Dni <- MCDni
    Requests = {r1, r2}
    Tokens = {t1}
    Visits = {v1, v2}
    Lifetime = 4
    Renewal = 2
    MaxTime = 6
    ChangeCost = 3
    MaxBusy = 2
    FirstEmail = e1
    FirstPassword = p1
    CreateDtos <- MCCreateDtos
    UpdateDtos <- MCUpdateDtos
SYMMETRY Symmetric
INVARIANTS
    AccessTypeOK
PROPERTIES
    AdmissionIsEarned
    ReturningUserIsLetIn
    UpdateReachesBoth
CHECK_DEADLOCK FALSE
