------------------------------ MODULE MCAnswers ------------------------------
(* The way of an answer, one small instance of each part: the respondent     *)
(* signs in, fills the form, and the answers come to the responses panel or   *)
(* through the import dialog.  A behaviour is one of the part chosen first;   *)
(* they share no state.                                                      *)
EXTENDS MCRespondentForm, MCSurveySignIn, ResponsePanel, MCImportDialog

VARIABLE part

InForm == part = "form" /\ UNCHANGED <<signInVars, panelVars, importVars, part>>
InSignIn == part = "sign-in" /\ UNCHANGED <<respondentVars, panelVars, importVars, part>>
InPanel == part = "panel" /\ UNCHANGED <<respondentVars, signInVars, importVars, part>>
InImport == part = "import" /\ UNCHANGED <<respondentVars, signInVars, panelVars, part>>

AnswersInit ==
    /\ part \in {"form", "sign-in", "panel", "import"}
    /\ RespondentInit /\ SignInInit /\ PanelInit /\ ImportInit
    /\ part # "form" => survey = TwoPhases /\ session = NULL
    /\ part # "import" => \A q \in ImportTargets :
                              structure.wording[q] = "Job" /\ structure.options[q] = {}

AnswersNext ==
    \/ InForm /\ RespondentNext /\ FewSubmissions
    \/ InSignIn /\ SignInNext
    \/ InPanel /\ PanelNext
    \/ InImport /\ ImportNext

AnswersSpec ==
    /\ AnswersInit /\ [][AnswersNext]_<<respondentVars, signInVars, panelVars, importVars, part>>
    /\ PanelFairness
==============================================================================
