------------------------------ MODULE MCJobChain ------------------------------
(* Instances of JobChain for TLC. *)
EXTENDS JobChain, TLC

\* Request threads and rule sets are interchangeable.
ChainSymmetry == Permutations(Requests) \cup Permutations(RuleSets)

=============================================================================
