---------------------------- MODULE LWWReplicas ----------------------------
(***************************************************************************)
(* What Last Write Wins promises (README.MD, ADR-001), whatever protocol   *)
(* carries the rows: a replica gives up a version of a row only for a      *)
(* newer one, and no version appears that no client wrote.  SyncEngine     *)
(* implements this specification.                                          *)
(*                                                                         *)
(* `held' is what the replicas store.  `afloat' is what travels between    *)
(* them: copies in requests, in responses or stamped and not yet stored.   *)
(* A copy afloat may be lost or adopted late, never altered.               *)
(***************************************************************************)
EXTENDS Naturals

CONSTANTS Replicas, Rows

VARIABLES
    clock,  \* the instant of the latest write
    held,   \* held[p][r]: stamp of the version of r that p stores, 0 if none
    afloat  \* set of <<row, stamp>> in transit

lwwVars == <<clock, held, afloat>>

Stored == { <<r, held[p][r]>> : p \in Replicas, r \in Rows }

LWWInit ==
    /\ clock = 0
    /\ held = [p \in Replicas |-> [r \in Rows |-> 0]]
    /\ afloat = {}

(* A client writes a new version of r straight into its own replica ...    *)
Write(p, r) ==
    /\ clock' = clock + 1
    /\ held' = [held EXCEPT ![p][r] = clock']
    /\ afloat' = afloat

(* ... or hands it to a server that will store it in a moment.             *)
Hand(r) ==
    /\ clock' = clock + 1
    /\ held' = held
    /\ afloat' = afloat \cup {<<r, clock'>>}

(* Copies are sent, lost and adopted: what is afloat afterwards was stored *)
(* or afloat before, and a replica changes only to a newer such version.   *)
Exchange ==
    /\ clock' = clock
    /\ afloat' \subseteq afloat \cup Stored
    /\ \A p \in Replicas, r \in Rows :
        \/ held'[p][r] = held[p][r]
        \/ /\ held'[p][r] > held[p][r]
           /\ <<r, held'[p][r]>> \in afloat

LWWNext ==
    \/ \E p \in Replicas, r \in Rows : Write(p, r)
    \/ \E r \in Rows : Hand(r)
    \/ Exchange

LWWSpec == LWWInit /\ [][LWWNext]_lwwVars

=============================================================================
