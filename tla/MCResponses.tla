---------------------------- MODULE MCResponses ----------------------------
(* Instances of ResponseLifecycle in one run, chosen by `scope`.  For       *)
(* safety: the form with two respondents and bodies while no time passes,   *)
(* and one respondent with imports, deadlines and purges.  For liveness:    *)
(* both phases and imports, erasures beside submissions, and purges beside  *)
(* Phase 1.  An instance is the part of the behaviours that stay in its     *)
(* scope; a scope only limits which requests arrive.                        *)
EXTENDS MCResponseLifecycle

VARIABLE scope

FormRequests == {sess[s].req : s \in {t \in Sessions : sess[t].stage \in {"submit", "phase2"}}}
Accounts == {rows[r].who : r \in Rows} \cup {a.who : a \in acked}
              \cup {q.who : q \in FormRequests}

InScope ==
    \/ /\ scope = "form"
       /\ survey.policy = NULL /\ now = 0
       /\ \A s \in Sessions : sess[s].stage # "import"
    \/ /\ scope = "import"
       /\ Cardinality(Accounts \ {NULL}) <= 1
       /\ \A q \in FormRequests : q.body = p1
    \/ /\ scope = "phases"
       /\ survey.policy = NULL /\ now = 0
       /\ \A s \in Sessions : sess[s].stage # "erase"
    \/ /\ scope = "erase"
       /\ survey.policy = NULL /\ now = 0
       /\ \A s \in Sessions : sess[s].stage \notin {"import", "phase2"}
       /\ \A q \in FormRequests : q.key = k1
    \/ /\ scope = "purge"
       /\ survey.policy # NULL
       /\ \A s \in Sessions : sess[s].stage \notin {"phase2", "erase"}
       /\ \A q \in FormRequests : q.key = k1
       /\ \A s \in Sessions : sess[s].stage = "import" => sess[s].req.phases = {1}

ScopedInit == Init /\ scope \in {"form", "import"} /\ InScope
ScopedNext == Next /\ UNCHANGED scope /\ InScope'
ScopedSpec == ScopedInit /\ [][ScopedNext]_<<vars, scope>>

LiveInit == Init /\ scope \in {"phases", "erase", "purge"} /\ InScope
LiveSpec == LiveInit /\ [][ScopedNext]_<<vars, scope>> /\ Fairness
=============================================================================
