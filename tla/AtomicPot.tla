------------------------------ MODULE AtomicPot ------------------------------
(***************************************************************************)
(* What a caller of LedgerService.createEntry is promised.  The pot of one *)
(* group is a single number.  A caller asks for a change and the answer is *)
(* atomic: either the number moves by exactly the amount asked for, from   *)
(* the value it has at that instant, or nothing happens at all.  The pot   *)
(* never goes below zero.  Ledger is shown to implement this module.       *)
(***************************************************************************)
EXTENDS Integers

CONSTANTS
    Caller,     \* the calls that may be in flight at once
    Delta,      \* the signed amounts a caller may ask for
    None        \* the caller has nothing in flight

VARIABLES
    balance,    \* the money in the pot
    wanted      \* what each caller has asked for and not been answered

potVars == <<balance, wanted>>

Init ==
    /\ balance = 0
    /\ wanted = [c \in Caller |-> None]

Ask(c, d) ==
    /\ wanted[c] = None
    /\ wanted' = [wanted EXCEPT ![c] = d]
    /\ UNCHANGED balance

Apply(c) ==
    /\ wanted[c] # None
    /\ balance + wanted[c] >= 0
    /\ balance' = balance + wanted[c]
    /\ wanted' = [wanted EXCEPT ![c] = None]

Refuse(c) ==
    /\ wanted[c] # None
    /\ wanted' = [wanted EXCEPT ![c] = None]
    /\ UNCHANGED balance

Next ==
    \E c \in Caller :
        \/ \E d \in Delta : Ask(c, d)
        \/ Apply(c)
        \/ Refuse(c)

Spec == Init /\ [][Next]_potVars
=============================================================================
