---------------------------- MODULE MCContributions ----------------------------
(* Model-checking instances of Contributions. *)
EXTENDS Contributions, TLC

\* The requests in flight and the row ids are interchangeable.
ContributionSymmetry ==
    Permutations(ContributionCaller) \cup Permutations(Contribution)
=============================================================================
