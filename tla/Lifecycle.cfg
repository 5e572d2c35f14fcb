SPECIFICATION ScopedSpec
CONSTANTS
    r1 = r1
    r2 = r2
    r3 = r3
    w1 = w1
    w2 = w2
    k1 = k1
    k2 = k2
    p1 = p1
    p2 = p2
    c1 = c1
    c2 = c2
    f1 = f1
    a1 = a1
    s1 = s1
    s2 = s2
    NULL = NULL
    Rows = {r1, r2}
    Respondents = {w1, w2}
    Keys = {k1, k2}
    Payloads = {p1, p2}
    CodeOf <- OwnCodes
    Codes = {c1, c2}
    Sheets = {f1}
    AdminKeys = {}
    Sessions = {s1, s2}
    Policies <- DayOrNever
    BatchSize = 1
    MaxTime = 2
    TwoPhase = TRUE
SYMMETRY Symmetry
INVARIANTS
    FormMatchesHandlers
    CountNeverUnder
PROPERTIES
    AckMeansStored
    PurgeOnlyOverdue
