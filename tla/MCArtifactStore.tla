--------------------------- MODULE MCArtifactStore ---------------------------
(* Instances of ArtifactStore for TLC. *)
EXTENDS ArtifactStore, TLC

\* Ids and request threads are interchangeable.
StoreSymmetry == Permutations(Artifacts) \cup Permutations(Requests)

=============================================================================
