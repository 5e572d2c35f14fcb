----------------------- MODULE MCQuestionnaireEditor -----------------------
(* A small questionnaire for QuestionnaireEditor: a source question, one   *)
(* whose options depend on its answer, a matrix, and a text shown for one  *)
(* answer only.                                                            *)
EXTENDS QuestionnaireEditor, TLC

Source == [id |-> "q1", type |-> "single_choice", options |-> <<"A", "B">>,
           config |-> [NoConfig EXCEPT !.question_key = "source", !.survey_phase = 1]]
Dependent == [id |-> "q2", type |-> "single_choice", options |-> <<"C", "D">>,
              config |-> [NoConfig EXCEPT !.options_by_answer =
                  [question_key |-> "source", choices |-> ("A" :> <<"C">> @@ "B" :> <<"C", "D">>)]]]
Matrix == [id |-> "q3", type |-> "matrix", options |-> <<"A">>,
           config |-> [NoConfig EXCEPT !.columns = <<"C", "D">>]]
Conditional == [id |-> "q4", type |-> "text", options |-> NULL,
                config |-> [NoConfig EXCEPT !.survey_phase = 1, !.visible_when =
                    [question_key |-> "source", one_of |-> {"A"}]]]
OneQuestionnaire == {<<[id |-> "s1", questions |-> <<Source, Dependent>>],
                       [id |-> "s2", questions |-> <<Matrix, Conditional>>]>>}

\* The question with branches is itself referred to, by the text after it.
KeyedDependent == [Dependent EXCEPT !.config.question_key = "dependent"]
OnDependent == [Conditional EXCEPT !.config.visible_when =
                   [question_key |-> "dependent", one_of |-> {"D"}]]
ChainedQuestionnaire ==
    {<<[id |-> "s1", questions |-> <<Source, KeyedDependent, OnDependent>>]>>}
=============================================================================
