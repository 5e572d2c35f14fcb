----------------------------- MODULE MCAuthoring -----------------------------
(* The two parts of the survey author's screens on one small instance each:  *)
(* the questionnaire being edited and the surveys page around it.  A         *)
(* behaviour is one of the part chosen first; they share no state.           *)
EXTENDS MCQuestionnaireEditor, MCSurveyDesk

VARIABLE part

InEditor == part = "editor" /\ UNCHANGED <<deskVars, part>>
InDesk == part = "desk" /\ UNCHANGED <<editorVars, part>>

AuthoringInit ==
    /\ part \in {"editor", "desk"}
    /\ IF part = "editor" THEN EditorInit ELSE sections = <<>> /\ drag = NULL /\ edits = 0
    /\ DeskInit
    /\ part = "editor" => \A v \in DOMAIN server : server[v].exists

AuthoringNext == (InEditor /\ EditorNext) \/ (InDesk /\ DeskNext)
AuthoringSpec == AuthoringInit /\ [][AuthoringNext]_<<editorVars, deskVars, part>>
==============================================================================
