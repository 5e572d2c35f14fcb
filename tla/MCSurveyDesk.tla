---------------------------- MODULE MCSurveyDesk ----------------------------
(* Two surveys, one on each page of the list, for SurveyDesk.              *)
EXTENDS SurveyDesk

TwoSurveys == <<"a", "b">>
=============================================================================
