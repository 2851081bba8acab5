------------------------------ MODULE MCGrocery ------------------------------
(* Model-checking instances of Grocery. *)
EXTENDS Grocery

\* The requests in flight are interchangeable, and so are the members.
GrocerySymmetry == Permutations(GroceryCaller) \cup Permutations(Recipient)
=============================================================================
