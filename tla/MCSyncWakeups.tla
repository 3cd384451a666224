--------------------------- MODULE MCSyncWakeups ---------------------------
(* Model-checking instance of SyncWakeups.                                 *)
EXTENDS SyncWakeups

Desktop == CHOOSE d \in Devices : TRUE
OneRow == {CHOOSE r \in Rows : TRUE}

(* The user's desktop alone, with its window open.                         *)
AtTheWindow ==
    [running |-> {Desktop}, windows |-> {Desktop},
     writes |-> [d \in {Desktop} |-> Rows]]

(* Every device runs and writes one row, but for the one that writes all.  *)
Together ==
    [running |-> Devices, windows |-> {},
     writes |-> [d \in Devices |-> IF d = Desktop THEN Rows ELSE OneRow]]

Scenes == {AtTheWindow, Together}

=============================================================================
