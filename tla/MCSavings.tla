------------------------------- MODULE MCSavings -------------------------------
(* Model-checking instances of Savings. *)
EXTENDS Savings, TLC
=============================================================================
