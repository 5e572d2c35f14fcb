SPECIFICATION RespondentSpec
CONSTANTS
    NULL = NULL
    Questionnaires <- OptionalInPhase
    ConsentQuestion = "consent"
    Accounts = {"ann"}
    Room = 0
    MaxAttempts = 1
    MaxVisits = 1
    MaxEvents = 0
INVARIANTS
    FormAgreesWithServer
CHECK_DEADLOCK FALSE
