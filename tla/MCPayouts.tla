------------------------------ MODULE MCPayouts ------------------------------
(* Model-checking instances of Payouts. *)
EXTENDS Payouts, TLC

\* The requests in flight are interchangeable, and so are the officers that
\* are not chairpersons.
PayoutSymmetry ==
    Permutations(PayoutCaller) \cup Permutations(Officer \ Chair)
=============================================================================
