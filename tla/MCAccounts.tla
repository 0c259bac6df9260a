----------------------------- MODULE MCAccounts -----------------------------
(* Bounds for checking Accounts with TLC. *)
EXTENDS Accounts, TLC

\* Requests start alike, and so do the secrets.
Symmetry == Permutations(Requests) \cup Permutations(Secrets)

=============================================================================
