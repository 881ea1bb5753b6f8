------------------------------ MODULE MCJobQueue ------------------------------
(* Instances of JobQueue for TLC. *)
EXTENDS JobQueue, TLC

CONSTANTS collect, extract  \* two kinds with a body, or one with and one without

\* Routes that queue one job, and one that queues two.
AnyRoute == {<<collect>>, <<extract>>, <<collect, extract>>}

\* Every route queues two jobs.
PairRoute == {<<collect, extract>>}

\* Every route queues one.
SingleRoute == {<<collect>>}

\* Job ids and request threads are interchangeable; so are workers.
JobSymmetry == Permutations(Jobs) \cup Permutations(Requests) \cup Permutations(Workers)

=============================================================================
