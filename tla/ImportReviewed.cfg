SPECIFICATION ImportSpec
CONSTANTS
  Files <- TwoFiles
  SheetsOf <- TheirSheets
  FirstSheet <- TheirFirst
  HeaderOf <- TheirHeaders
  ImportTargets = {"q1", "q2"}
  Wordings = {"Job", "City"}
  OptionSets <- SomeOptions
  MaxSends = 4
  MaxSurveyEdits = 1
CHECK_DEADLOCK FALSE
INVARIANTS ImportedAsReviewed
