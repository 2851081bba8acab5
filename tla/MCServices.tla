------------------------------ MODULE MCServices ------------------------------
(* The instance is given in the configuration.  A run with a liveness property *)
(* uses no symmetry.                                                           *)
EXTENDS Services

\* What callers ask for: a mail and the entry in the member's list.
MailAndList == {{"EMAIL", "IN_APP"}}

=============================================================================
