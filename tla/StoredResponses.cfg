SPECIFICATION StoredSpec
CONSTANTS
    r1 = r1
    r2 = r2
    r3 = r3
    w1 = w1
    w2 = w2
    k1 = k1
    k2 = k2
    p1 = p1
    p2 = p2
    c1 = c1
    c2 = c2
    f1 = f1
    a1 = a1
    s1 = s1
    s2 = s2
    NULL = NULL
    Rows = {r1, r2}
    Respondents = {w1, w2}
    Keys = {k1, k2}
    Payloads = {p1, p2}
    CodeOf <- OwnCodes
    Codes = {c1, c2}
    Sheets = {}
    AdminKeys = {a1}
    Sessions = {s1, s2}
    Policies <- OneDay
    BatchSize = 2
    MaxTime = 1
    TwoPhase = FALSE
    TextOne = TextOne
    TextTwo = TextTwo
    NotApplicable = NotApplicable
    Placeholders <- MCPlaceholders
    Phase1 <- MCPhase1
    Phase2 <- MCPhase2
    Analyses = {"a"}
    Corrections = {"c", "d"}
    Verdicts <- MCVerdicts
    Flip = Flip
    Classified <- MCClassified
    ByKeywords <- MCByKeywords
    CrossChecked <- MCCrossChecked
    Processes = {"p1", "p2"}
    Queries = {"a", "b"}
    MaxChanges = 1
    Exports = {"e1"}
    ExportRows = {1, 2, 3}
    EXPORT_LIMIT = 2
CHECK_DEADLOCK FALSE
SYMMETRY Symmetry
INVARIANTS
    WithdrawnStaysBarred
    TombstonesAreClean
    ForcedShows
    AggregatesIncludeImports
    ExportsAreAudited
PROPERTIES
    ReceiptsMatchErasures
    ImplementsContract
