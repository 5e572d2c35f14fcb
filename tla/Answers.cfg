SPECIFICATION AnswersSpec
CONSTANTS
    NULL = NULL
    Questionnaires <- AllKinds
    ConsentQuestion = "consent"
    Accounts = {"ann"}
    Room = 0
    MaxAttempts = 3
    MaxVisits = 2
    MaxEvents = 1
    Tabs = {"t1", "t2"}
    SurveyOf <- TwoTabs
    GoogleAccounts = {"ann", "bob"}
    MaxFlows = 4
    Surveys = {s, t}
    Pages = {0, 1}
    Can = {"readAggregates", "readRaw", "readIdentity", "export", "import", "erase"}
    MaxClicks = 7
    Files <- TwoFiles
    SheetsOf <- TheirSheets
    FirstSheet <- TheirFirst
    HeaderOf <- TheirHeaders
    ImportTargets = {"q1", "q2"}
    Wordings = {"Job", "City"}
    OptionSets <- SomeOptions
    MaxSends = 4
    MaxSurveyEdits = 1
CHECK_DEADLOCK FALSE
INVARIANTS
    FormAgreesWithServer
    DoneMeansStored
    SessionIsAttested
    LandsOnItsSurvey
    AggregatesOfView
    ImportsTheCheck
PROPERTIES
    KeyKeptWhileUnsure
    ActionsEnd
