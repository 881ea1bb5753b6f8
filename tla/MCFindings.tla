----------------------------- MODULE MCFindings -----------------------------
(* Instance of Findings for TLC. *)
EXTENDS Findings, TLC

\* One condition is known to both reports: a message's and, as "Storage repositories are 90%
\* full" is one of storage by its title, a total's.  What the rest is about is not known.
MCFamily == [n \in Names \cup Pools \cup Totals |-> IF n \in Ruled \cup Totals THEN "storage" ELSE None]

MCTimes == {1, 2, 4}

FindingsSymmetry == Permutations(Pools)

=============================================================================
