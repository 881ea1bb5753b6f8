----------------------------- MODULE MCAccounts -----------------------------
(* Instances of Accounts for TLC. *)
EXTENDS Accounts, TLC

\* Names, session ids and request threads are alike.
AccountSymmetry == Permutations(Users) \cup Permutations(Sessions) \cup Permutations(Requests)

=============================================================================
