-------------------------- MODULE MCRespondentForm --------------------------
(* Small questionnaires for RespondentForm: one with both phases, whose    *)
(* first phase has a chain of dependent questions, one without phases with *)
(* optional questions, and one of a single question for long sequences of  *)
(* submissions.                                                            *)
EXTENDS RespondentForm, TLC

Q(id, type, options) ==
    [id |-> id, type |-> type, options |-> options, cols |-> <<>>, takes |-> {"usual"},
     required |-> TRUE, when |-> NULL, by |-> NULL]

Consent == Q("consent", "single_choice", <<"Yes", "No">>)
Role == Q("role", "single_choice", <<"A", "B">>)
Track == [Q("track", "single_choice", <<"x", "y">>) EXCEPT
             !.by = [source |-> "role", choices |-> ("A" :> <<"x", "y">> @@ "B" :> <<"y">>)]]
Reason == [Q("reason", "typed", <<>>) EXCEPT
              !.when = [source |-> "track", values |-> {"x"}]]
Rank == Q("rank", "ranking", <<"a", "b">>)
Grid == [Q("grid", "matrix", <<"r", "s">>) EXCEPT !.cols = <<"poor">>]
Score == Q("score", "scale", <<"low", "high">>)

Topics == [Q("topics", "multiple_choice", <<"a">>) EXCEPT !.required = FALSE]
Fit == [Q("fit", "boolean", <<>>) EXCEPT !.required = FALSE]
Note == [Q("note", "typed", <<>>) EXCEPT !.required = FALSE, !.takes = {"usual", "extreme"}]

TwoPhases == (1 :> << <<Consent, Role>>, <<Track, Reason>> >>) @@ (2 :> << <<Rank, Score>>, <<Grid>> >>)
SinglePhase == (0 :> << <<Topics, Fit>>, <<Note>> >>)

OneQuestion == 0 :> << <<Note>> >>

AllKinds == {TwoPhases, SinglePhase, OneQuestion}

\* Two submissions complete the survey with phases; the one with the most
\* answers to choose from is submitted once, that of one question repeatedly.
FewSubmissions ==
    /\ attempts' > 1 => survey # SinglePhase
    /\ attempts' > 2 => survey # TwoPhases

\* A survey with phases where one question of the first phase is optional.
OptionalInPhase == {(1 :> << <<Role, Note>> >>) @@ (2 :> << <<Score>> >>)}
=============================================================================
