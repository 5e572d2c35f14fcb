SPECIFICATION ScopedSpec
CONSTANTS
    v1 = v1
    v2 = v2
    s1 = s1
    s2 = s2
    empty = empty
    short = short
    long = long
    c1 = c1
    c2 = c2
    NULL = NULL
    Surveys = {v1, v2}
    Sessions = {s1, s2}
    Structures = {empty, short, long}
    Ready = {short, long}
    Contents = {c1, c2}
    Bodies <- AnyBody
PROPERTIES
    EveryRequestEnds
    HistoryFreezes
    NoLostEdit
INVARIANTS
    OneCta
    ActiveIsReady
    AnswersFitStructure
