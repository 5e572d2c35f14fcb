------------------------ MODULE MCResponseLifecycle ------------------------
(* Small instances of ResponseLifecycle for TLC.                           *)
EXTENDS ResponseLifecycle, TLC

CONSTANTS r1, r2, r3, w1, w2, k1, k2, p1, p2, c1, c2, f1, a1, s1, s2

\* Each body carries a withdrawal code of its own.
OwnCodes == (p1 :> c1) @@ (p2 :> c2)
OneCode == p1 :> c1
NoDeadline == {NULL}
OneDay == {1}
DayOrNever == {1, NULL}

Symmetry == Permutations(Rows) \cup Permutations(Sessions)
              \cup Permutations(Respondents) \cup Permutations(Keys)

=============================================================================
