--------------------------- MODULE SyncRefinesLWW ---------------------------
(***************************************************************************)
(* SyncEngine implements LWWReplicas: the replicas are the cloud database  *)
(* and the devices' SQLite stores; the copies afloat are those in push     *)
(* requests, in pull responses and in the hands of the API server.         *)
(***************************************************************************)
EXTENDS SyncEngine

CONSTANT Cloud  \* the name of the server's replica

ASSUME CloudAssumption == Cloud \notin Devices

Held == [p \in Devices \cup {Cloud} |-> IF p = Cloud THEN server ELSE local[p]]

Carried(copies) == { <<r, copies[r]>> : r \in { q \in Rows : copies[q] # 0 } }

Afloat ==
    (web.row \X {web.stamp})
        \cup UNION { Carried(batch[d]) \cup Carried(pulled[d]) : d \in Devices }

LWW == INSTANCE LWWReplicas
    WITH Replicas <- Devices \cup {Cloud}, held <- Held, afloat <- Afloat

(* ADR-001: the engine is a Last Write Wins store.  No replica ever moves  *)
(* to an older version of a row or to one that nobody wrote.               *)
ImplementsLWW == LWW!LWWSpec

=============================================================================
