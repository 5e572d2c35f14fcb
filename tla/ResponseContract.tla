-------------------------- MODULE ResponseContract --------------------------
(* What a survey promises each respondent, without sessions, locks, rows,  *)
(* keys or tombstones: one participation at a time, withdrawal for good,   *)
(* and a fresh start after an administrative erasure or a retention purge. *)
EXTENDS FiniteSets

CONSTANTS Respondents, TwoPhase

VARIABLE standing   \* where each respondent stands

Answered == {"phase1", "complete"}

Init == standing = [w \in Respondents |-> "none"]

Answer(w) ==
    /\ standing[w] = "none"
    /\ standing' = [standing EXCEPT ![w] = IF TwoPhase THEN "phase1" ELSE "complete"]

Complete(w) ==
    /\ standing[w] = "phase1"
    /\ standing' = [standing EXCEPT ![w] = "complete"]

Withdraw(w) ==
    /\ standing[w] \in Answered
    /\ standing' = [standing EXCEPT ![w] = "withdrawn"]

Remove(W) ==   \* several respondents in one transaction
    /\ \A w \in W : standing[w] \in Answered
    /\ standing' = [w \in Respondents |-> IF w \in W THEN "none" ELSE standing[w]]

Next ==
    \/ \E w \in Respondents : Answer(w) \/ Complete(w) \/ Withdraw(w)
    \/ \E W \in (SUBSET Respondents) \ {{}} : Remove(W)

Spec == Init /\ [][Next]_standing

=============================================================================
