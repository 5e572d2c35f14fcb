------------------------------ MODULE Nullable ------------------------------
(* What an optional field holds when it holds nothing: null, undefined or  *)
(* None in the code.                                                       *)
CONSTANT NULL
=============================================================================
