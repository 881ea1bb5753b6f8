----------------------------- MODULE MCDatabase -----------------------------
(* Instances of Database for TLC. *)
EXTENDS Database, TLC

\* Requests, rules and collections are interchangeable.
DatabaseSymmetry ==
    Permutations(Handlers) \cup Permutations(Rules) \cup Permutations(Collections)

=============================================================================
