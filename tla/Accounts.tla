------------------------------- MODULE Accounts -------------------------------
(***************************************************************************)
(* What the services around the money share: the users, and null.          *)
(***************************************************************************)
EXTENDS Integers, Sequences, FiniteSets

CONSTANTS
    Person,     \* users, with an account each
    None        \* null

=============================================================================
