--------------------------- MODULE MCFeedbackScores ---------------------------
(* A response with a text in each phase, and a placeholder in the second: the *)
(* model finds the first negative, and the keywords call that one positive.   *)
EXTENDS FeedbackScores

CONSTANTS TextOne, TextTwo, NotApplicable

MCPhase1 == {TextOne}
MCPhase2 == {TextTwo, NotApplicable}
MCPlaceholders == {NotApplicable}
MCVerdicts == {Flip, 1}
MCClassified == [q \in Texts |-> IF q = TextOne THEN -1 ELSE 1]
MCByKeywords == [q \in Texts |-> 1]
MCCrossChecked == [q \in Texts |-> [p \in Polarities |-> IF p = -1 THEN 1 ELSE p]]

Correcting == {c \in Corrections : correction[c] # AtRest}
Alone == CHOOSE c \in Corrections : TRUE
Correctors == Correcting \cup {row.by : row \in UNION {feedback[q] : q \in Texts}}
Touched == {q \in Texts : feedback[q] # {}} \cup {correction[c].of : c \in Correcting}

\* Bounds: others only begin while the first one runs, and none begins after
\* corrections ran together; with Phase 2 there is only the first; where the
\* placeholder is corrected, nothing else is.
SmallFeedbackNext ==
    /\ FeedbackNext
    /\ Correcting' \subseteq Correcting \cup (IF Alone \in Correcting THEN Corrections ELSE {Alone})
    /\ Correcting' \subseteq Correcting \/ overlapped = {}
    /\ answered' = Texts => Correctors' \subseteq {Alone}
    /\ NotApplicable \in Touched' => Touched' = {NotApplicable}
===============================================================================
