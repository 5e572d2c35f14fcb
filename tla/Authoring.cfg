SPECIFICATION AuthoringSpec
CONSTANTS
    NULL = NULL
    SectionIds = {"s1", "s2", "s3"}
    QuestionIds = {"q1", "q2", "q3", "q4", "q5"}
    Typed = {"", "A", "C"}
    Loaded <- OneQuestionnaire
    MaxEdits = 3
    SurveyOrder <- TwoSurveys
    Template = "template"
    Filters = {"all", "Active"}
    PageSize = 1
    MaxClicks = 5
    MaxUnseen = 1
CHECK_DEADLOCK FALSE
INVARIANTS
    BranchesOfferOptions
    ListFollowsFilters
    PageNotEmpty
    GeneratedIsCurrent
PROPERTIES
    OptionEditsKeepReferences
    MovesDisturbNothing
    SectionsSavedWereSeen
