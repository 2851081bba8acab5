------------------------------- MODULE MCLedger -------------------------------
(* Model-checking instance of Ledger. *)
EXTENDS Ledger, TLC

\* The callers are interchangeable.
CallerSymmetry == Permutations(Caller)
=============================================================================
