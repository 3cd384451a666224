----------------------------- MODULE MCAccounts -----------------------------
(* Accounts, with the symmetry of its accounts and of its sign-ins.        *)
EXTENDS Accounts, TLC

Symmetry == Permutations(Users) \cup Permutations(SignIns)
=============================================================================
