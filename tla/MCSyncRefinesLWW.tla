-------------------------- MODULE MCSyncRefinesLWW --------------------------
(* Model-checking instance of SyncRefinesLWW.                              *)
EXTENDS SyncRefinesLWW

(* No row mirrors another.                                                 *)
NoCards == [a \in Accounts |-> a]

=============================================================================
