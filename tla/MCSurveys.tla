----------------------------- MODULE MCSurveys -----------------------------
(* Two instances of SurveyLifecycle in one run, chosen by `scope`: one       *)
(* survey with every edit and update, and two surveys between which the call  *)
(* to action moves, one of which may be created with the flag and answered.   *)
(* An instance is the part of the behaviours that stay in its scope.          *)
EXTENDS MCSurveyLifecycle

VARIABLE scope

Requests == {sess[s].req : s \in {t \in Sessions : sess[t].stage \in {"update", "clear"}}}
Plain(v) == surveys[v].structure = short /\ surveys[v].content = c1

InScope ==
    /\ surveys[v1].is_cta = surveys[v1].chosen
    /\ \/ scope = "editing" /\ ~surveys[v2].exists /\ Plain(v2)
       \/ /\ scope = "cta"
          /\ \A v \in Surveys : Plain(v) /\ surveys[v].status # "Active"
          /\ \A s \in Sessions :
                /\ sess[s].stage \in {"put", "item"} => sess[s].new = short
                /\ sess[s].stage = "answer" => sess[s].survey = v2
          /\ Requests \subseteq CtaOnly

ScopedInit == Init /\ scope \in {"editing", "cta"} /\ InScope
ScopedNext == Next /\ UNCHANGED scope /\ InScope'
ScopedSpec == ScopedInit /\ [][ScopedNext]_<<vars, scope>> /\ Fairness
=============================================================================
