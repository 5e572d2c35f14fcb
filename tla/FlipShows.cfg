SPECIFICATION FeedbackSpec
CONSTANTS
    NULL = NULL
    TextOne = TextOne
    TextTwo = TextTwo
    NotApplicable = NotApplicable
    Placeholders <- MCPlaceholders
    Phase1 <- MCPhase1
    Phase2 <- MCPhase2
    Analyses = {"a"}
    Corrections = {"c"}
    Verdicts <- MCVerdicts
    Flip = Flip
    Classified <- MCClassified
    ByKeywords <- MCByKeywords
    CrossChecked <- MCCrossChecked
INVARIANT FlipShows
CHECK_DEADLOCK FALSE
