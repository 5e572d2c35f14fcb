------------------------- MODULE MCSurveyLifecycle -------------------------
(* Small instances of SurveyLifecycle for TLC.                             *)
EXTENDS SurveyLifecycle, TLC

CONSTANTS v1, v2, s1, s2, empty, short, long, c1, c2

\* Every PATCH body; bodies that set one field.
AnyBody == [status : Status \cup {NULL}, content : Contents \cup {NULL},
            is_cta : BOOLEAN \cup {NULL}]
OneField == {b \in AnyBody : Cardinality({f \in DOMAIN b : b[f] # NULL}) = 1}
CtaOnly == {b \in OneField : b.is_cta = TRUE \/ b.status = "Closed"}

Symmetry == Permutations(Surveys) \cup Permutations(Sessions)
              \cup Permutations(Contents)

=============================================================================
