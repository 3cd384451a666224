---------------------------- MODULE MCSyncEngine ----------------------------
(* Model-checking instance of SyncEngine.                                  *)
EXTENDS SyncEngine, TLC

(* Devices are interchangeable; used by the safety run only.               *)
Symmetry == Permutations(Devices)

(* Every account mirrors the one card there is.                            *)
TheCard == [a \in Accounts |-> CHOOSE r \in Rows : r \notin Accounts]

=============================================================================
