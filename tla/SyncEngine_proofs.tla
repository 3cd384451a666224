------------------------- MODULE SyncEngine_proofs -------------------------
(***************************************************************************)
(* Proofs about SyncEngine for any number of devices and rows, any batch   *)
(* limits, any number of edits and any number of faults.                   *)
(***************************************************************************)
EXTENDS SyncRefinesLWW, TLAPS

(* The conditional upsert never lowers a stamp and invents none.           *)
LEMMA MergeIsMax ==
    ASSUME NEW a \in [Rows -> Nat], NEW b \in [Rows -> Nat]
    PROVE  /\ Merge(a, b) \in [Rows -> Nat]
           /\ \A r \in Rows :
                /\ Merge(a, b)[r] >= a[r]
                /\ Merge(a, b)[r] >= b[r]
                /\ Merge(a, b)[r] \in {a[r], b[r]}
  BY DEF Merge

LEMMA NoRowsType == NoRows \in [Rows -> Nat] /\ \A r \in Rows : NoRows[r] = 0
  BY DEF NoRows

-----------------------------------------------------------------------------
(* Type correctness, operator by operator and then for the whole engine.   *)

LEMMA EndCycleType ==
    ASSUME TypeOK, NEW d \in Devices, EndCycle(d)
    PROVE  /\ stage' \in [Devices -> Stages]
           /\ from' \in [Devices -> Nat]
           /\ batch' \in [Devices -> [Rows -> Nat]]
           /\ pulled' \in [Devices -> [Rows -> Nat]]
           /\ until' \in [Devices -> Nat]
  BY NoRowsType DEF EndCycle, TypeOK, Stages

LEMMA LandsBehindType ==
    ASSUME NEW incoming
    PROVE  LandsBehind(incoming) \subseteq Devices \X Rows
  BY DEF LandsBehind

(* An edit writes rows of the table and of no other.                       *)
LEMMA WrittenRows ==
    ASSUME NEW store, NEW r \in Rows
    PROVE  Written(store, r) \subseteq Rows
  BY AccountsAssumption DEF Written, Touched

LEMMA WebRowsType ==
    ASSUME TypeOK
    PROVE  /\ WebRows \in [Rows -> Nat]
           /\ \A r \in Rows : WebRows[r] = IF r \in web.row THEN web.stamp
                                                           ELSE 0
  <1>1. web.stamp \in Nat
    BY DEF TypeOK
  <1>2. QED
    BY <1>1 DEF WebRows

LEMMA WebCommitType ==
    ASSUME TypeOK, WebCommit
    PROVE  TypeOK'
  <1>1. web.stamp \in Nat
    BY DEF TypeOK
  <1>2. Merge(server, WebRows) \in [Rows -> Nat]
    BY WebRowsType, MergeIsMax DEF TypeOK
  <1>3. server' \in [Rows -> Nat]
    BY <1>1, <1>2 DEF WebCommit
  <1>4. web' \in [row : SUBSET Rows, stamp : Nat]
    BY DEF WebCommit, NoWeb
  <1>5. skipped' \in SUBSET (Devices \X Rows)
    BY LandsBehindType DEF WebCommit, TypeOK
  <1>6. QED
    BY <1>3, <1>4, <1>5 DEF WebCommit, TypeOK, storeVars, cycleVars

LEMMA ServerAcceptsType ==
    ASSUME TypeOK, NEW d \in Devices, ServerAccepts(d)
    PROVE  server' \in [Rows -> Nat] /\ skipped' \in SUBSET (Devices \X Rows)
  <1>1. batch[d] \in [Rows -> Nat]
    BY DEF TypeOK
  <1>2. server' \in [Rows -> Nat]
    BY <1>1, MergeIsMax DEF TypeOK, ServerAccepts
  <1>3. QED
    BY <1>2, LandsBehindType DEF TypeOK, ServerAccepts

LEMMA MarkBatchFailedType ==
    ASSUME TypeOK, NEW d \in Devices, MarkBatchFailed(d)
    PROVE  outbox' \in [Devices -> [Rows -> EntryStates]]
  BY DEF TypeOK, MarkBatchFailed, EntryStates

LEMMA RestartType ==
    ASSUME TypeOK, NEW d \in Devices, Restart(d)
    PROVE  TypeOK'
  <1>1. PICK live \in SUBSET { a \in Accounts : local[d][CardOf[a]] # 0 } :
            /\ local' = [local EXCEPT ![d] =
                    [r \in Rows |-> IF r \in live THEN local[d][CardOf[r]]
                                                  ELSE local[d][r]]]
            /\ outbox' = [outbox EXCEPT ![d] =
                    [r \in Rows |-> IF r \in live THEN "ready"
                                                  ELSE outbox[d][r]]]
    BY DEF Restart
  <1>2. \A r \in live : local[d][CardOf[r]] \in Nat
    BY AccountsAssumption DEF TypeOK
  <1>3. local' \in [Devices -> [Rows -> Nat]]
    BY <1>1, <1>2 DEF TypeOK
  <1>4. outbox' \in [Devices -> [Rows -> EntryStates]]
    BY <1>1 DEF TypeOK, EntryStates
  <1>5. EndCycle(d)
    BY DEF Restart
  <1>6. QED
    BY <1>3, <1>4, <1>5, EndCycleType
       DEF TypeOK, Restart, Fault, serverVars, historyVars

(* Every variable keeps its type through edits, cycles and failures: the   *)
(* stamps are naturals and the stages those of syncOnce.                   *)
THEOREM TypeCorrect == Spec => []TypeOK
  <1>1. Init => TypeOK
    BY NoRowsType DEF Init, TypeOK, NoWeb, Stages, EntryStates
  <1>2. TypeOK /\ [Next]_vars => TypeOK'
    <2> SUFFICES ASSUME TypeOK, [Next]_vars
                 PROVE  TypeOK'
      OBVIOUS
    <2>1. ASSUME NEW d \in Devices, NEW r \in Rows, LocalEdit(d, r)
          PROVE  TypeOK'
      <3>1. Written(local[d], r) \subseteq Rows
        BY WrittenRows
      <3>2. QED
        BY <2>1, <3>1 DEF TypeOK, LocalEdit, serverVars, cycleVars, EntryStates
    <2>2. ASSUME NEW r \in Rows, WebStamp(r)
          PROVE  TypeOK'
      <3>1. Written(server, r) \subseteq Rows
        BY WrittenRows
      <3>2. QED
        BY <2>2, <3>1 DEF TypeOK, WebStamp, storeVars, cycleVars, historyVars
    <2>3. CASE WebCommit
      BY <2>3, WebCommitType
    <2>4. ASSUME NEW d \in Devices, NEW full \in BOOLEAN, BeginCycle(d, full)
          PROVE  TypeOK'
      <3>1. from' \in [Devices -> Nat]
        BY <2>4 DEF TypeOK, BeginCycle
      <3>2. batch' \in [Devices -> [Rows -> Nat]]
        BY <2>4 DEF TypeOK, BeginCycle
      <3>3. stage' \in [Devices -> Stages]
        BY <2>4 DEF TypeOK, BeginCycle, Stages
      <3>4. QED
        BY <2>4, <3>1, <3>2, <3>3
           DEF TypeOK, BeginCycle, serverVars, storeVars, historyVars
    <2>5. ASSUME NEW d \in Devices, PushSucceeds(d)
          PROVE  TypeOK'
      BY <2>5, ServerAcceptsType DEF TypeOK, PushSucceeds, storeVars, Stages
    <2>6. ASSUME NEW d \in Devices, PushRefused(d)
          PROVE  TypeOK'
      <3>1. MarkBatchFailed(d) /\ EndCycle(d)
        BY <2>6 DEF PushRefused, MarkBatchFailed
      <3>2. QED
        BY <2>6, <3>1, MarkBatchFailedType, EndCycleType
           DEF TypeOK, PushRefused, serverVars, historyVars
    <2>7. ASSUME NEW d \in Devices, PushLost(d)
          PROVE  TypeOK'
      <3>1. MarkBatchFailed(d) /\ EndCycle(d)
        BY <2>7 DEF PushLost, MarkBatchFailed
      <3>2. QED
        BY <2>7, <3>1, MarkBatchFailedType, EndCycleType
           DEF TypeOK, PushLost, Fault, serverVars, historyVars
    <2>8. ASSUME NEW d \in Devices, PushAnswerLost(d)
          PROVE  TypeOK'
      <3>1. MarkBatchFailed(d) /\ EndCycle(d)
        BY <2>8 DEF PushAnswerLost, MarkBatchFailed
      <3>2. QED
        BY <2>8, <3>1, MarkBatchFailedType, EndCycleType, ServerAcceptsType
           DEF TypeOK, PushAnswerLost, Fault
    <2>9. ASSUME NEW d \in Devices, NEW r \in Rows, ClearEntry(d, r)
          PROVE  TypeOK'
      <3>1. overtaken' \in SUBSET (Devices \X Rows)
        BY <2>9 DEF TypeOK, ClearEntry
      <3>2. stage' \in [Devices -> Stages]
        BY <2>9 DEF TypeOK, ClearEntry, Stages
      <3>3. QED
        BY <2>9, <3>1, <3>2 DEF TypeOK, ClearEntry, serverVars, EntryStates
    <2>10. ASSUME NEW d \in Devices, Pull(d)
           PROVE  TypeOK'
      <3>1. pulled' \in [Devices -> [Rows -> Nat]]
        BY <2>10 DEF TypeOK, Pull
      <3>2. skipped' \in SUBSET (Devices \X Rows)
        BY <2>10 DEF TypeOK, Pull, Window
      <3>3. QED
        BY <2>10, <3>1, <3>2 DEF TypeOK, Pull, serverVars, storeVars, Stages
    <2>11. ASSUME NEW d \in Devices, Apply(d)
           PROVE  TypeOK'
      <3>1. Merge(local[d], pulled[d]) \in [Rows -> Nat]
        BY MergeIsMax DEF TypeOK
      <3>2. QED
        BY <2>11, <3>1 DEF TypeOK, Apply, serverVars, Stages
    <2>12. ASSUME NEW d \in Devices, SaveCursor(d)
           PROVE  TypeOK'
      BY <2>12, EndCycleType
         DEF TypeOK, SaveCursor, serverVars, historyVars
    <2>13. ASSUME NEW d \in Devices, Abort(d)
           PROVE  TypeOK'
      BY <2>13, EndCycleType
         DEF TypeOK, Abort, Fault, serverVars, storeVars, historyVars
    <2>14. ASSUME NEW d \in Devices, NEW r \in Rows, RetryDue(d, r)
           PROVE  TypeOK'
      BY <2>14
         DEF TypeOK, RetryDue, serverVars, cycleVars, historyVars, EntryStates
    <2>15. CASE UNCHANGED vars
      BY <2>15
         DEF TypeOK, vars, serverVars, storeVars, cycleVars, historyVars
    <2>16. ASSUME NEW d \in Devices, Restart(d)
           PROVE  TypeOK'
      BY <2>16, RestartType
    <2>17. QED
      BY <2>1, <2>2, <2>3, <2>4, <2>5, <2>6, <2>7, <2>8, <2>9, <2>10, <2>11,
         <2>12, <2>13, <2>14, <2>15, <2>16
         DEF Next, Edit, Progress, Failure
  <1>3. QED
    BY <1>1, <1>2, PTL DEF Spec

-----------------------------------------------------------------------------
(* No unsynchronised edit leaves the outbox unnoticed.                     *)

(* Nothing carries a stamp from the future; the copy being pushed is not   *)
(* newer than the row it was read from; and, where the server's stamps     *)
(* only grow, the copy pulled is not newer than the server's and a cycle   *)
(* that clears its batch got it accepted.                                  *)
StampsBounded ==
    /\ web.stamp <= clock
    /\ \A r \in Rows : server[r] <= clock
    /\ \A d \in Devices, r \in Rows :
        /\ local[d][r] <= clock
        /\ batch[d][r] <= local[d][r]
        /\ pulled[d][r] <= clock
        /\ r \in Guarded =>
            /\ pulled[d][r] <= server[r]
            /\ stage[d] = "clearing" => batch[d][r] <= server[r]

(* UnsyncedIsQueued alone is not inductive: when ClearEntry deletes an     *)
(* entry one must know that the server accepted the copy it stood for.     *)
QueueInv == StampsBounded /\ UnsyncedIsQueued

LEMMA EndCycleEffect ==
    ASSUME TypeOK, NEW d \in Devices, EndCycle(d)
    PROVE  /\ stage'[d] = "idle" /\ from'[d] = 0 /\ until'[d] = 0
           /\ \A r \in Rows : batch'[d][r] = 0 /\ pulled'[d][r] = 0
           /\ \A e \in Devices \ {d} :
                /\ stage'[e] = stage[e] /\ from'[e] = from[e]
                /\ until'[e] = until[e] /\ batch'[e] = batch[e]
                /\ pulled'[e] = pulled[e]
  BY NoRowsType DEF EndCycle, TypeOK

LEMMA ServerAcceptsEffect ==
    ASSUME TypeOK, NEW d \in Devices, ServerAccepts(d)
    PROVE  \A r \in Rows :
            /\ server'[r] >= server[r]
            /\ server'[r] >= batch[d][r]
            /\ server'[r] \in {server[r], batch[d][r]}
  <1>1. batch[d] \in [Rows -> Nat] /\ server \in [Rows -> Nat]
    BY DEF TypeOK
  <1>2. server' = Merge(server, batch[d])
    BY DEF ServerAccepts
  <1>3. QED
    BY <1>1, <1>2, MergeIsMax

LEMMA WebCommitEffect ==
    ASSUME TypeOK, WebCommit
    PROVE  \A r \in Rows :
            /\ r \in Guarded => server'[r] = Merge(server, WebRows)[r]
            /\ r \in Guarded => server'[r] >= server[r]
            /\ server'[r] \in {server[r], web.stamp, 0}
  <1>1. server \in [Rows -> Nat] /\ web.stamp \in Nat
    BY DEF TypeOK
  <1>2. \A r \in Rows :
            /\ Merge(server, WebRows)[r] >= server[r]
            /\ Merge(server, WebRows)[r] \in {server[r], WebRows[r]}
    BY <1>1, WebRowsType, MergeIsMax
  <1>3. \A r \in Rows : WebRows[r] \in {0, web.stamp}
    BY WebRowsType
  <1>4. \A r \in Rows : server'[r] = IF r \in web.row \ Guarded
                                        THEN web.stamp
                                        ELSE Merge(server, WebRows)[r]
    BY DEF WebCommit
  <1>5. QED
    BY <1>2, <1>3, <1>4

(* A restart ends the cycle, leaves the rows of no other device changed,   *)
(* and gives accounts the stamps of their cards and an entry.              *)
LEMMA RestartEffect ==
    ASSUME TypeOK, NEW d \in Devices, Restart(d)
    PROVE  /\ EndCycle(d)
           /\ UNCHANGED <<clock, server, web, cursor, overtaken, skipped>>
           /\ \A e \in Devices, r \in Rows :
                \/ local'[e][r] = local[e][r] /\ outbox'[e][r] = outbox[e][r]
                \/ /\ e = d /\ r \in Accounts
                   /\ CardOf[r] \in Rows
                   /\ local'[e][r] = local[e][CardOf[r]]
                   /\ outbox'[e][r] = "ready"
  <1>1. PICK live \in SUBSET { a \in Accounts : local[d][CardOf[a]] # 0 } :
            /\ local' = [local EXCEPT ![d] =
                    [r \in Rows |-> IF r \in live THEN local[d][CardOf[r]]
                                                  ELSE local[d][r]]]
            /\ outbox' = [outbox EXCEPT ![d] =
                    [r \in Rows |-> IF r \in live THEN "ready"
                                                  ELSE outbox[d][r]]]
    BY DEF Restart
  <1>2. \A r \in live : r \in Accounts /\ CardOf[r] \in Rows
    BY AccountsAssumption
  <1>3. EndCycle(d) /\ UNCHANGED <<clock, server, web, cursor, overtaken, skipped>>
    BY DEF Restart, serverVars, historyVars
  <1>4. \A e \in Devices, r \in Rows :
            /\ local'[e][r] = IF e = d /\ r \in live THEN local[d][CardOf[r]]
                                                      ELSE local[e][r]
            /\ outbox'[e][r] = IF e = d /\ r \in live THEN "ready"
                                                       ELSE outbox[e][r]
    BY <1>1 DEF TypeOK
  <1>5. QED
    BY <1>2, <1>3, <1>4

(* An edit stamps the rows it writes with the next instant, queues them    *)
(* and leaves the others alone.                                            *)
LEMMA LocalEditEffect ==
    ASSUME TypeOK, NEW d \in Devices, NEW r \in Rows, LocalEdit(d, r)
    PROVE  /\ clock' = clock + 1
           /\ UNCHANGED <<server, web, cursor, stage, from, batch, pulled,
                          until, skipped>>
           /\ \A e \in Devices, q \in Rows :
                \/ /\ local'[e][q] = local[e][q]
                   /\ outbox'[e][q] = outbox[e][q]
                   /\ <<e, q>> \in overtaken => <<e, q>> \in overtaken'
                \/ local'[e][q] = clock' /\ outbox'[e][q] = "ready"
  <1> DEFINE written == Written(local[d], r)
  <1>1. /\ local' = [local EXCEPT ![d] =
                [q \in Rows |-> IF q \in written THEN clock + 1
                                                 ELSE local[d][q]]]
        /\ outbox' = [outbox EXCEPT ![d] =
                [q \in Rows |-> IF q \in written THEN "ready"
                                                 ELSE outbox[d][q]]]
        /\ overtaken' = overtaken \ ({d} \X written)
        /\ clock' = clock + 1
        /\ UNCHANGED <<server, web, cursor, stage, from, batch, pulled, until,
                       skipped>>
    BY DEF LocalEdit, serverVars, cycleVars
  <1> HIDE DEF written
  <1>2. QED
    BY <1>1 DEF TypeOK

LEMMA ApplyEffect ==
    ASSUME TypeOK, NEW d \in Devices, Apply(d)
    PROVE  /\ \A e \in Devices \ {d} : local'[e] = local[e]
           /\ \A r \in Rows : local'[d][r] >= pulled[d][r]
           /\ \A e \in Devices, r \in Rows :
                /\ local'[e][r] >= local[e][r]
                /\ local'[e][r] \in {local[e][r], pulled[e][r]}
  <1>1. local[d] \in [Rows -> Nat] /\ pulled[d] \in [Rows -> Nat]
    BY DEF TypeOK
  <1>2. local'[d] = Merge(local[d], pulled[d])
    BY DEF Apply, TypeOK
  <1>3. \A e \in Devices \ {d} : local'[e] = local[e]
    BY DEF Apply, TypeOK
  <1>4. \A e \in Devices, r \in Rows : local[e][r] \in Nat
    BY DEF TypeOK
  <1>5. \A r \in Rows :
            /\ local'[d][r] >= local[d][r]
            /\ local'[d][r] >= pulled[d][r]
            /\ local'[d][r] \in {local[d][r], pulled[d][r]}
    BY <1>1, <1>2, MergeIsMax
  <1>6. QED
    BY <1>3, <1>4, <1>5

(* The part of TypeOK the arithmetic needs, row by row.                    *)
LEMMA Numbers ==
    ASSUME TypeOK
    PROVE  /\ clock \in Nat /\ web.stamp \in Nat
           /\ \A r \in Rows : server[r] \in Nat
           /\ \A d \in Devices :
                /\ cursor[d] \in Nat /\ until[d] \in Nat /\ from[d] \in Nat
                /\ \A r \in Rows :
                    local[d][r] \in Nat /\ batch[d][r] \in Nat
                        /\ pulled[d][r] \in Nat
  BY DEF TypeOK

LEMMA NumbersNext ==
    ASSUME TypeOK'
    PROVE  /\ clock' \in Nat /\ web'.stamp \in Nat
           /\ \A r \in Rows : server'[r] \in Nat
           /\ \A d \in Devices :
                /\ cursor'[d] \in Nat /\ until'[d] \in Nat /\ from'[d] \in Nat
                /\ \A r \in Rows :
                    local'[d][r] \in Nat /\ batch'[d][r] \in Nat
                        /\ pulled'[d][r] \in Nat
  BY DEF TypeOK

LEMMA LocalEditGrows ==
    ASSUME TypeOK, StampsBounded, NEW d \in Devices, NEW r \in Rows,
           LocalEdit(d, r)
    PROVE  \A e \in Devices, q \in Rows :
            local'[e][q] >= local[e][q] /\ local'[e][q] <= clock'
  <1> TAKE e \in Devices, q \in Rows
  <1>1. clock' = clock + 1
    BY LocalEditEffect
  <1>2. local[e][q] \in Nat /\ clock \in Nat /\ local[e][q] <= clock
    BY Numbers DEF StampsBounded
  <1>3. local'[e][q] \in {local[e][q], clock'}
    BY LocalEditEffect
  <1>4. QED
    BY <1>1, <1>2, <1>3

LEMMA QueueInvStep ==
    ASSUME TypeOK, TypeOK', QueueInv, [Next]_vars
    PROVE  QueueInv'
  <1> USE DEF QueueInv, StampsBounded, UnsyncedIsQueued
  <1> USE Numbers, NumbersNext, RowsAssumption
  <1>1. ASSUME NEW d \in Devices, NEW r \in Rows, LocalEdit(d, r)
        PROVE  QueueInv'
    <2>1. /\ clock' = clock + 1
          /\ UNCHANGED <<server, web, stage, batch, pulled>>
          /\ \A e \in Devices, q \in Rows :
                \/ /\ local'[e][q] = local[e][q]
                   /\ outbox'[e][q] = outbox[e][q]
                   /\ <<e, q>> \in overtaken => <<e, q>> \in overtaken'
                \/ local'[e][q] = clock' /\ outbox'[e][q] = "ready"
      BY <1>1, LocalEditEffect
    <2>2. \A e \in Devices, q \in Rows :
            local'[e][q] >= local[e][q] /\ local'[e][q] <= clock'
      BY <1>1, LocalEditGrows
    <2>3. StampsBounded' /\ UnsyncedIsQueued'
      BY <2>1, <2>2
    <2>4. QED
      BY <2>3
  <1>2. ASSUME NEW r \in Rows, WebStamp(r)
        PROVE  QueueInv'
    BY <1>2 DEF TypeOK, WebStamp, storeVars, cycleVars, historyVars
  <1>3. CASE WebCommit
    <2>1. UNCHANGED <<clock, local, outbox, stage, batch, pulled, overtaken>>
      BY <1>3 DEF WebCommit, storeVars, cycleVars
    <2>2. web'.stamp = 0
      BY <1>3 DEF WebCommit, NoWeb
    <2>3. QED
      BY <1>3, <2>1, <2>2, WebCommitEffect
  <1>4. ASSUME NEW d \in Devices, NEW full \in BOOLEAN, BeginCycle(d, full)
        PROVE  QueueInv'
    <2>1. \A r \in Rows : batch'[d][r] <= local[d][r]
      BY <1>4 DEF TypeOK, BeginCycle
    <2>2. stage'[d] # "clearing"
      BY <1>4 DEF TypeOK, BeginCycle
    <2>3. \A e \in Devices \ {d} : batch'[e] = batch[e] /\ stage'[e] = stage[e]
      BY <1>4 DEF TypeOK, BeginCycle
    <2>4. UNCHANGED <<clock, server, web, local, outbox, pulled, overtaken>>
      BY <1>4 DEF BeginCycle, serverVars, storeVars, historyVars
    <2>5. QED
      BY <2>1, <2>2, <2>3, <2>4
  <1>5. ASSUME NEW d \in Devices, PushSucceeds(d)
        PROVE  QueueInv'
    <2>1. ServerAccepts(d)
      BY <1>5 DEF PushSucceeds
    <2>2. UNCHANGED <<clock, web, local, outbox, batch, pulled, overtaken>>
      BY <1>5 DEF PushSucceeds, storeVars
    <2>3. \A e \in Devices \ {d} : stage'[e] = stage[e]
      BY <1>5 DEF TypeOK, PushSucceeds
    <2>4. QED
      BY <2>1, <2>2, <2>3, ServerAcceptsEffect
  <1>6. ASSUME NEW d \in Devices, MarkBatchFailed(d), ServerAccepts(d) \/ server' = server,
               UNCHANGED <<clock, web, local, overtaken>>
        PROVE  QueueInv'
    <2>1. EndCycle(d)
      BY <1>6 DEF MarkBatchFailed
    <2>2. \A r \in Rows :
            /\ server'[r] >= server[r]
            /\ server'[r] \in {server[r], batch[d][r]}
      BY <1>6, ServerAcceptsEffect
    <2>3. \A e \in Devices, r \in Rows :
            outbox[e][r] # "none" => outbox'[e][r] # "none"
      BY <1>6 DEF TypeOK, MarkBatchFailed
    <2>4. UnsyncedIsQueued'
      BY <1>6, <2>2, <2>3
    <2>5. StampsBounded'
      BY <1>6, <2>1, <2>2, EndCycleEffect
    <2>6. QED
      BY <2>4, <2>5
  <1>7. ASSUME NEW d \in Devices, NEW r \in Rows, ClearEntry(d, r)
        PROVE  QueueInv'
    <2>1. UNCHANGED <<clock, server, web, local, pulled>>
      BY <1>7 DEF ClearEntry, serverVars
    <2>2. \A e \in Devices, q \in Rows :
            /\ batch'[e][q] \in {0, batch[e][q]}
            /\ stage'[e] = "clearing" => stage[e] = "clearing"
      BY <1>7 DEF TypeOK, ClearEntry
    <2>3. StampsBounded'
      BY <2>1, <2>2
    <2>4. local[d][r] > batch[d][r] => <<d, r>> \in overtaken'
      BY <1>7 DEF ClearEntry
    <2>5. r \in Guarded => batch[d][r] <= server[r]
      BY <1>7 DEF ClearEntry
    <2>6. \A e \in Devices, q \in Rows : <<e, q>> # <<d, r>> =>
            /\ outbox'[e][q] = outbox[e][q]
            /\ <<e, q>> \in overtaken => <<e, q>> \in overtaken'
      BY <1>7 DEF TypeOK, ClearEntry
    <2>7. UnsyncedIsQueued'
      BY <2>1, <2>4, <2>5, <2>6
    <2>8. QED
      BY <2>3, <2>7
  <1>8. ASSUME NEW d \in Devices, Pull(d)
        PROVE  QueueInv'
    <2>1. UNCHANGED <<clock, server, web, local, outbox, batch, overtaken>>
      BY <1>8 DEF Pull, serverVars, storeVars
    <2>2. \A e \in Devices, q \in Rows :
            /\ pulled'[e][q] \in {0, pulled[e][q], server[q]}
            /\ stage'[e] = "clearing" => stage[e] = "clearing"
      BY <1>8 DEF TypeOK, Pull
    <2>3. QED
      BY <2>1, <2>2
  <1>9. ASSUME NEW d \in Devices, Apply(d)
        PROVE  QueueInv'
    <2>1. UNCHANGED <<clock, server, web, outbox, batch, pulled, overtaken>>
      BY <1>9 DEF Apply, serverVars
    <2>2. \A e \in Devices : stage'[e] = "clearing" => stage[e] = "clearing"
      BY <1>9 DEF TypeOK, Apply
    <2>3. \A e \in Devices, q \in Rows :
            /\ local'[e][q] >= local[e][q]
            /\ local'[e][q] \in {local[e][q], pulled[e][q]}
      BY <1>9, ApplyEffect
    <2>4. QED
      BY <2>1, <2>2, <2>3
  <1>10. ASSUME NEW d \in Devices, EndCycle(d),
                UNCHANGED <<clock, server, web, local, outbox, overtaken>>
         PROVE  QueueInv'
    BY <1>10, EndCycleEffect
  <1>11. ASSUME NEW d \in Devices, NEW r \in Rows, RetryDue(d, r)
         PROVE  QueueInv'
    BY <1>11 DEF TypeOK, RetryDue, serverVars, cycleVars, historyVars
  <1>12. CASE UNCHANGED vars
    BY <1>12 DEF vars, serverVars, storeVars, cycleVars, historyVars
  <1>13. ASSUME NEW d \in Devices, PushRefused(d) \/ PushLost(d) \/ PushAnswerLost(d)
         PROVE  QueueInv'
    BY <1>6, <1>13
       DEF PushRefused, PushLost, PushAnswerLost, serverVars, historyVars
  <1>14. ASSUME NEW d \in Devices, SaveCursor(d) \/ Abort(d)
         PROVE  QueueInv'
    BY <1>10, <1>14
       DEF SaveCursor, Abort, serverVars, storeVars, historyVars
  <1>15. ASSUME NEW d \in Devices, Restart(d)
         PROVE  QueueInv'
    <2>1. /\ EndCycle(d)
          /\ UNCHANGED <<clock, server, web, overtaken>>
          /\ \A e \in Devices, r \in Rows :
                \/ local'[e][r] = local[e][r] /\ outbox'[e][r] = outbox[e][r]
                \/ /\ e = d /\ r \in Accounts /\ CardOf[r] \in Rows
                   /\ local'[e][r] = local[e][CardOf[r]]
                   /\ outbox'[e][r] = "ready"
      BY <1>15, RestartEffect
    <2>2. StampsBounded'
      BY <2>1, EndCycleEffect
    <2>3. UnsyncedIsQueued'
      BY <2>1, AccountsAssumption
    <2>4. QED
      BY <2>2, <2>3
  <1>16. QED
    BY <1>1, <1>2, <1>3, <1>4, <1>5, <1>7, <1>8, <1>9, <1>11, <1>12, <1>13,
       <1>14, <1>15
       DEF Next, Edit, Progress, Failure

(* Whatever is lost, repeated or interrupted, an edit the server lacks is  *)
(* in the outbox or was overtaken by the push of an older copy.            *)
THEOREM NoEditForgotten == Spec => []UnsyncedIsQueued
  <1>1. Init => QueueInv
    BY NoRowsType, RowsAssumption
       DEF Init, QueueInv, StampsBounded, UnsyncedIsQueued, NoWeb
  <1>2. TypeOK /\ TypeOK' /\ QueueInv /\ [Next]_vars => QueueInv'
    BY QueueInvStep
  <1>3. QueueInv => UnsyncedIsQueued
    BY DEF QueueInv
  <1>4. QED
    BY <1>1, <1>2, <1>3, TypeCorrect, PTL DEF Spec

-----------------------------------------------------------------------------
(* A saved cursor covers what the server has.                              *)

(* What a cycle knows between the answer and the saved cursor: it asked    *)
(* from no later than its cursor, the answer's cursor is not behind it,    *)
(* and a row it neither holds nor carries was recorded as skipped.         *)
AnswerComplete(d) ==
    /\ from[d] <= cursor[d]
    /\ cursor[d] <= clock
    /\ until[d] <= clock
    /\ stage[d] \in {"pulled", "applied"} => cursor[d] <= until[d]
    /\ \A r \in Guarded :
        /\ stage[d] = "pulled" /\ server[r] <= until[d]
                /\ server[r] > local[d][r] /\ server[r] > pulled[d][r] =>
            <<d, r>> \in skipped
        /\ stage[d] = "applied" /\ server[r] <= until[d]
                /\ server[r] > local[d][r] =>
            <<d, r>> \in skipped

(* CursorCoversServer alone is not inductive: SaveCursor needs to know     *)
(* that the answer it closes was complete up to its cursor.                *)
CursorInv ==
    /\ \A r \in Rows : server[r] <= clock
    /\ CursorCoversServer
    /\ \A d \in Devices : AnswerComplete(d)

(* A commit on the server either leaves a row alone, or is news to every   *)
(* device, or is recorded as skipped.                                      *)
LEMMA CommitRecorded ==
    ASSUME TypeOK, NEW incoming \in [Rows -> Nat],
           \A r \in Guarded : server'[r] = Merge(server, incoming)[r],
           skipped' = skipped \cup LandsBehind(incoming)
    PROVE  \A d \in Devices, r \in Guarded :
            \/ server'[r] = server[r]
            \/ server'[r] > Asked(d)
            \/ server'[r] <= local[d][r]
            \/ <<d, r>> \in skipped'
  <1> SUFFICES ASSUME NEW d \in Devices, NEW r \in Guarded,
                      server'[r] # server[r], ~(server'[r] > Asked(d)),
                      ~(server'[r] <= local[d][r])
               PROVE  <<d, r>> \in skipped'
    OBVIOUS
  <1>1. incoming[r] > server[r] /\ server'[r] = incoming[r]
    BY RowsAssumption DEF Merge, TypeOK
  <1>2. Asked(d) \in Nat /\ local[d][r] \in Nat /\ incoming[r] \in Nat
    BY RowsAssumption DEF Asked, TypeOK
  <1>3. incoming[r] <= Asked(d) /\ incoming[r] > local[d][r]
    BY <1>1, <1>2
  <1>4. <<d, r>> \in LandsBehind(incoming)
    BY <1>1, <1>3, RowsAssumption DEF LandsBehind
  <1>5. QED
    BY <1>4

(* Both ways a commit happens record what they land behind.                *)
LEMMA ServerGrows ==
    ASSUME TypeOK, TypeOK', CursorInv, NEW incoming \in [Rows -> Nat],
           \A r \in Rows : server'[r] <= clock,
           \A r \in Guarded : server'[r] = Merge(server, incoming)[r],
           skipped' = skipped \cup LandsBehind(incoming),
           UNCHANGED <<clock, local, cursor, from, pulled, until>>,
           \A d \in Devices : stage'[d] # stage[d] => stage'[d] = "clearing"
    PROVE  CursorInv'
  <1> USE Numbers, RowsAssumption
  <1>1. \A d \in Devices, r \in Guarded :
            \/ server'[r] = server[r]
            \/ server'[r] > Asked(d)
            \/ server'[r] <= local[d][r]
            \/ <<d, r>> \in skipped'
    BY CommitRecorded
  <1>2. \A r \in Rows : server'[r] \in Nat /\ server'[r] <= clock
    BY NumbersNext
  <1>3. \A d \in Devices : cursor[d] <= Asked(d) /\ Asked(d) \in Nat
    BY DEF Asked, CursorInv, AnswerComplete
  <1>4. CursorCoversServer'
    BY <1>1, <1>2, <1>3, RowsAssumption DEF CursorInv, CursorCoversServer
  <1>5. ASSUME NEW d \in Devices PROVE AnswerComplete(d)'
    <2>1. stage'[d] \in {"pulled", "applied"} =>
            stage'[d] = stage[d] /\ Asked(d) = until[d]
      BY DEF Asked
    <2>2. QED
      BY <2>1, <1>1, <1>2, RowsAssumption DEF CursorInv, AnswerComplete
  <1>6. QED
    BY <1>2, <1>4, <1>5 DEF CursorInv

LEMMA CursorInvStep ==
    ASSUME TypeOK, TypeOK', QueueInv, CursorInv, [Next]_vars
    PROVE  CursorInv'
  <1> USE Numbers, NumbersNext, RowsAssumption
  <1>1. ASSUME NEW d \in Devices, NEW r \in Rows, LocalEdit(d, r)
        PROVE  CursorInv'
    <2>1. UNCHANGED <<server, cursor, stage, from, pulled, until, skipped>>
      BY <1>1, LocalEditEffect
    <2>2. clock' = clock + 1
      BY <1>1, LocalEditEffect
    <2>3. \A e \in Devices, q \in Rows : local'[e][q] >= local[e][q]
      BY <1>1, LocalEditGrows DEF QueueInv
    <2>4. QED
      BY <2>1, <2>2, <2>3 DEF CursorInv, CursorCoversServer, AnswerComplete
  <1>2. ASSUME NEW r \in Rows, WebStamp(r)
        PROVE  CursorInv'
    <2>1. /\ UNCHANGED <<server, local, cursor, stage, from, pulled, until, skipped>>
          /\ clock' = clock + 1
      BY <1>2 DEF WebStamp, storeVars, cycleVars, historyVars
    <2>2. QED
      BY <2>1 DEF CursorInv, CursorCoversServer, AnswerComplete
  <1>3. CASE WebCommit
    <2>1. /\ UNCHANGED <<clock, local, cursor, from, pulled, until, stage>>
          /\ skipped' = skipped \cup LandsBehind(WebRows)
      BY <1>3 DEF WebCommit, storeVars, cycleVars
    <2>2. WebRows \in [Rows -> Nat]
      BY WebRowsType
    <2>3. /\ \A r \in Rows : server'[r] <= clock
          /\ \A r \in Guarded : server'[r] = Merge(server, WebRows)[r]
      BY <1>3, WebCommitEffect DEF QueueInv, StampsBounded
    <2>4. QED
      BY <2>1, <2>2, <2>3, ServerGrows
  <1>4. ASSUME NEW d \in Devices, NEW full \in BOOLEAN, BeginCycle(d, full)
        PROVE  CursorInv'
    <2>1. UNCHANGED <<clock, server, local, cursor, pulled, until, skipped>>
      BY <1>4 DEF BeginCycle, serverVars, storeVars, historyVars
    <2>2. /\ from'[d] \in {0, cursor[d]}
          /\ stage'[d] \notin {"pulled", "applied"}
          /\ \A e \in Devices \ {d} : from'[e] = from[e] /\ stage'[e] = stage[e]
      BY <1>4 DEF BeginCycle, TypeOK
    <2>3. QED
      BY <2>1, <2>2 DEF CursorInv, CursorCoversServer, AnswerComplete
  <1>5. ASSUME NEW d \in Devices, ServerAccepts(d),
               UNCHANGED <<clock, local, cursor, from, pulled, until>>,
               \A e \in Devices : stage'[e] # stage[e] => stage'[e] = "clearing"
        PROVE  CursorInv'
    <2>1. batch[d] \in [Rows -> Nat] /\ \A r \in Rows : batch[d][r] <= clock
      BY DEF TypeOK, QueueInv, StampsBounded
    <2>2. \A r \in Rows : server'[r] <= clock
      BY <1>5, <2>1, ServerAcceptsEffect DEF CursorInv
    <2>3. QED
      BY <1>5, <2>1, <2>2, ServerGrows DEF ServerAccepts
  <1>6. ASSUME NEW d \in Devices, PushSucceeds(d)
        PROVE  CursorInv'
    BY <1>5, <1>6 DEF PushSucceeds, TypeOK, storeVars
  <1>7. ASSUME NEW d \in Devices, EndCycle(d), cursor' = cursor,
               UNCHANGED <<clock, local, server, skipped>>
        PROVE  CursorInv'
    BY <1>7, EndCycleEffect DEF CursorInv, CursorCoversServer, AnswerComplete
  <1>8. ASSUME NEW d \in Devices, PushRefused(d) \/ PushLost(d) \/ Abort(d)
        PROVE  CursorInv'
    BY <1>7, <1>8
       DEF PushRefused, PushLost, Abort, MarkBatchFailed, serverVars, storeVars,
           historyVars
  <1>9. ASSUME NEW d \in Devices, PushAnswerLost(d)
        PROVE  CursorInv'
    <2>1. EndCycle(d) /\ ServerAccepts(d) /\ UNCHANGED <<clock, local, cursor>>
      BY <1>9 DEF PushAnswerLost, MarkBatchFailed
    <2>2. batch[d] \in [Rows -> Nat] /\ \A r \in Rows : batch[d][r] <= clock
      BY DEF TypeOK, QueueInv, StampsBounded
    <2>3. \A e \in Devices, r \in Guarded :
            \/ server'[r] = server[r]
            \/ server'[r] > Asked(e)
            \/ server'[r] <= local[e][r]
            \/ <<e, r>> \in skipped'
      BY <2>1, <2>2, CommitRecorded DEF ServerAccepts
    <2>4. \A r \in Rows : server'[r] <= clock
      BY <2>1, <2>2, ServerAcceptsEffect DEF CursorInv
    <2>5. \A e \in Devices : cursor[e] <= Asked(e) /\ Asked(e) \in Nat
      BY DEF Asked, CursorInv, AnswerComplete
    <2>6. skipped \subseteq skipped'
      BY <2>1 DEF ServerAccepts
    <2>7. CursorCoversServer'
      BY <2>1, <2>3, <2>5, <2>6 DEF CursorInv, CursorCoversServer
    <2>8. AnswerComplete(d)'
      BY <2>1, EndCycleEffect DEF CursorInv, AnswerComplete
    <2>9. ASSUME NEW e \in Devices \ {d} PROVE AnswerComplete(e)'
      <3>1. /\ stage'[e] = stage[e] /\ from'[e] = from[e]
            /\ until'[e] = until[e] /\ pulled'[e] = pulled[e]
        BY <2>1, EndCycleEffect
      <3>2. stage[e] \in {"pulled", "applied"} => Asked(e) = until[e]
        BY DEF Asked
      <3>3. QED
        BY <2>1, <2>3, <2>6, <3>1, <3>2 DEF CursorInv, AnswerComplete
    <2>10. QED
      BY <2>1, <2>4, <2>7, <2>8, <2>9 DEF CursorInv
  <1>10. ASSUME NEW d \in Devices, NEW r \in Rows, ClearEntry(d, r)
         PROVE  CursorInv'
    <2>1. UNCHANGED <<clock, server, local, cursor, from, pulled, until, skipped>>
      BY <1>10 DEF ClearEntry, serverVars
    <2>2. \A e \in Devices : stage'[e] \in {"pulled", "applied"} =>
                                stage'[e] = stage[e]
      BY <1>10 DEF ClearEntry, TypeOK
    <2>3. QED
      BY <2>1, <2>2 DEF CursorInv, CursorCoversServer, AnswerComplete
  <1>11. ASSUME NEW d \in Devices, Pull(d)
         PROVE  CursorInv'
    <2>1. UNCHANGED <<clock, server, local, cursor, from>>
      BY <1>11 DEF Pull, serverVars, storeVars
    <2>2. skipped \subseteq skipped'
      BY <1>11 DEF Pull
    <2>3. until'[d] = clock /\ stage'[d] = "pulled"
      BY <1>11 DEF Pull, TypeOK
    <2>4. \A e \in Devices \ {d} :
            /\ stage'[e] = stage[e] /\ until'[e] = until[e]
            /\ pulled'[e] = pulled[e]
      BY <1>11 DEF Pull, TypeOK
    <2>5. ASSUME NEW r \in Guarded, server[r] > local[d][r],
                 server[r] > pulled'[d][r]
          PROVE  <<d, r>> \in skipped'
      <3>1. CASE server[r] <= from[d]
        BY <2>2, <2>5, <3>1 DEF CursorInv, CursorCoversServer, AnswerComplete
      <3>2. CASE server[r] > from[d]
        <4>1. r \in Window(d)
          BY <3>2 DEF Window, CursorInv
        <4>2. r \notin Oldest(Window(d))
          BY <1>11, <2>5 DEF Pull, TypeOK
        <4>3. QED
          BY <1>11, <2>5, <4>1, <4>2 DEF Pull
      <3>3. QED
        BY <3>1, <3>2
    <2>6. AnswerComplete(d)'
      BY <2>1, <2>3, <2>5 DEF CursorInv, AnswerComplete
    <2>7. ASSUME NEW e \in Devices \ {d} PROVE AnswerComplete(e)'
      BY <2>1, <2>2, <2>4 DEF CursorInv, AnswerComplete
    <2>8. QED
      BY <2>1, <2>2, <2>6, <2>7 DEF CursorInv, CursorCoversServer
  <1>12. ASSUME NEW d \in Devices, Apply(d)
         PROVE  CursorInv'
    <2>1. UNCHANGED <<clock, server, cursor, from, pulled, until>>
      BY <1>12 DEF Apply, serverVars
    <2>2. stage[d] = "pulled" /\ stage'[d] = "applied"
      BY <1>12 DEF Apply, TypeOK
    <2>3. \A e \in Devices \ {d} : stage'[e] = stage[e]
      BY <1>12 DEF Apply, TypeOK
    <2>4. \A e \in Devices, r \in Rows :
            <<e, r>> \in skipped /\ server[r] > local'[e][r] =>
                <<e, r>> \in skipped'
      BY <1>12 DEF Apply
    <2>5. \A r \in Rows : local'[d][r] >= pulled[d][r]
      BY <1>12, ApplyEffect
    <2>6. \A e \in Devices, r \in Rows : local'[e][r] >= local[e][r]
      BY <1>12, ApplyEffect
    <2>7. CursorCoversServer'
      BY <2>1, <2>4, <2>6 DEF CursorInv, CursorCoversServer
    <2>8. AnswerComplete(d)'
      BY <2>1, <2>2, <2>4, <2>5, <2>6 DEF CursorInv, AnswerComplete
    <2>9. ASSUME NEW e \in Devices \ {d} PROVE AnswerComplete(e)'
      BY <2>1, <2>3, <2>4, <2>6 DEF CursorInv, AnswerComplete
    <2>10. QED
      BY <2>1, <2>7, <2>8, <2>9 DEF CursorInv
  <1>13. ASSUME NEW d \in Devices, SaveCursor(d)
         PROVE  CursorInv'
    <2>1. UNCHANGED <<clock, server, local, skipped>> /\ EndCycle(d)
      BY <1>13 DEF SaveCursor, serverVars, historyVars
    <2>2. stage[d] = "applied" /\ cursor'[d] = until[d]
      BY <1>13 DEF SaveCursor, TypeOK
    <2>3. \A e \in Devices \ {d} : cursor'[e] = cursor[e]
      BY <1>13 DEF SaveCursor, TypeOK
    <2>4. CursorCoversServer'
      BY <2>1, <2>2, <2>3 DEF CursorInv, CursorCoversServer, AnswerComplete
    <2>5. \A e \in Devices : AnswerComplete(e)'
      BY <2>1, <2>2, <2>3, EndCycleEffect DEF CursorInv, AnswerComplete
    <2>6. QED
      BY <2>1, <2>4, <2>5 DEF CursorInv
  <1>14. ASSUME NEW d \in Devices, NEW r \in Rows, RetryDue(d, r)
         PROVE  CursorInv'
    <2>1. UNCHANGED <<clock, server, local, cursor, stage, from, pulled, until,
                      skipped>>
      BY <1>14 DEF RetryDue, serverVars, cycleVars, historyVars
    <2>2. QED
      BY <2>1 DEF CursorInv, CursorCoversServer, AnswerComplete
  <1>15. CASE UNCHANGED vars
    BY <1>15
       DEF vars, serverVars, storeVars, cycleVars, historyVars, CursorInv,
           CursorCoversServer, AnswerComplete
  <1>16. ASSUME NEW d \in Devices, Restart(d)
         PROVE  CursorInv'
    <2>1. /\ EndCycle(d)
          /\ UNCHANGED <<clock, server, cursor, skipped>>
          /\ \A e \in Devices, r \in Guarded : local'[e][r] = local[e][r]
      BY <1>16, RestartEffect, AccountsAssumption
    <2>2. QED
      BY <2>1, EndCycleEffect
         DEF CursorInv, CursorCoversServer, AnswerComplete
  <1>17. QED
    BY <1>1, <1>2, <1>3, <1>4, <1>6, <1>8, <1>9, <1>10, <1>11, <1>12, <1>13,
       <1>14, <1>15, <1>16
       DEF Next, Edit, Progress, Failure

(* A device whose cursor has passed a row version holds it, except where   *)
(* the server committed it behind the cursor or cut it from an answer:     *)
(* crashes, retries and the order of pushes and pulls never open a gap.    *)
THEOREM NoGapBehindCursor == Spec => []CursorCoversServer
  <1>1. Init => QueueInv /\ CursorInv
    BY NoRowsType, RowsAssumption
       DEF Init, QueueInv, StampsBounded, UnsyncedIsQueued, NoWeb, CursorInv,
           CursorCoversServer, AnswerComplete
  <1>2. TypeOK /\ TypeOK' /\ QueueInv /\ CursorInv /\ [Next]_vars =>
            QueueInv' /\ CursorInv'
    BY QueueInvStep, CursorInvStep
  <1>3. CursorInv => CursorCoversServer
    BY DEF CursorInv
  <1>4. QED
    BY <1>1, <1>2, <1>3, TypeCorrect, PTL DEF Spec

-----------------------------------------------------------------------------
(* Pulled rows are not pushed back.                                        *)

(* Marking a failed batch rewrites entries, and must not revive one: until *)
(* the push is answered, whatever is in the batch is in the outbox.        *)
BatchIsQueued ==
    \A d \in Devices, r \in Rows :
        stage[d] = "collected" /\ batch[d][r] # 0 => outbox[d][r] # "none"

LEMMA MarkBatchFailedKeepsQueue ==
    ASSUME TypeOK, BatchIsQueued, NEW d \in Devices, MarkBatchFailed(d),
           stage[d] = "collected"
    PROVE  /\ BatchIsQueued'
           /\ \A e \in Devices, r \in Rows :
                outbox[e][r] = "none" <=> outbox'[e][r] = "none"
  <1>1. EndCycle(d)
    BY DEF MarkBatchFailed
  <1>2. \A e \in Devices \ {d}, r \in Rows : outbox'[e][r] = outbox[e][r]
    BY DEF MarkBatchFailed, TypeOK
  <1>3. \A r \in Rows :
            outbox'[d][r] = IF batch[d][r] # 0 THEN "backoff" ELSE outbox[d][r]
    BY DEF MarkBatchFailed, InBatch, TypeOK
  <1>4. QED
    BY <1>1, <1>2, <1>3, EndCycleEffect DEF BatchIsQueued

LEMMA OutboxStep ==
    ASSUME TypeOK, BatchIsQueued, [Next]_vars
    PROVE  /\ BatchIsQueued'
           /\ \A d \in Devices, r \in Rows :
                outbox[d][r] = "none" /\ outbox'[d][r] # "none" =>
                    \/ clock' > clock /\ local'[d][r] = clock'
                    \/ r \in Accounts /\ local'[d][r] = local[d][CardOf[r]]
  <1> DEFINE OnlyOwn ==
        \A d \in Devices, r \in Rows :
            outbox[d][r] = "none" /\ outbox'[d][r] # "none" =>
                \/ clock' > clock /\ local'[d][r] = clock'
                \/ r \in Accounts /\ local'[d][r] = local[d][CardOf[r]]
  <1>1. ASSUME NEW d \in Devices, NEW r \in Rows, LocalEdit(d, r)
        PROVE  BatchIsQueued' /\ OnlyOwn
    <2>1. UNCHANGED <<stage, batch>>
      BY <1>1, LocalEditEffect
    <2>2. clock' > clock
      BY <1>1, LocalEditEffect, Numbers
    <2>3. \A e \in Devices, q \in Rows :
            \/ outbox'[e][q] = outbox[e][q]
            \/ local'[e][q] = clock' /\ outbox'[e][q] = "ready"
      BY <1>1, LocalEditEffect
    <2>4. QED
      BY <2>1, <2>2, <2>3 DEF BatchIsQueued
  <1>2. ASSUME UNCHANGED <<outbox, stage, batch>>
        PROVE  BatchIsQueued' /\ OnlyOwn
    BY <1>2 DEF BatchIsQueued
  <1>3. ASSUME NEW d \in Devices, NEW full \in BOOLEAN, BeginCycle(d, full)
        PROVE  BatchIsQueued' /\ OnlyOwn
    <2>1. outbox' = outbox
      BY <1>3 DEF BeginCycle, storeVars
    <2>2. \A r \in Rows : batch'[d][r] # 0 => outbox[d][r] = "ready"
      BY <1>3 DEF BeginCycle, TypeOK, Ready
    <2>3. \A e \in Devices \ {d} : batch'[e] = batch[e] /\ stage'[e] = stage[e]
      BY <1>3 DEF BeginCycle, TypeOK
    <2>4. QED
      BY <2>1, <2>2, <2>3 DEF BatchIsQueued
  <1>4. ASSUME NEW d \in Devices,
               PushRefused(d) \/ PushLost(d) \/ PushAnswerLost(d)
        PROVE  BatchIsQueued' /\ OnlyOwn
    <2>1. MarkBatchFailed(d) /\ stage[d] = "collected"
      BY <1>4 DEF PushRefused, PushLost, PushAnswerLost
    <2>2. QED
      BY <2>1, MarkBatchFailedKeepsQueue
  <1>5. ASSUME NEW d \in Devices, UNCHANGED <<outbox, batch>>,
               stage'[d] # "collected",
               \A e \in Devices \ {d} : stage'[e] = stage[e]
        PROVE  BatchIsQueued' /\ OnlyOwn
    BY <1>5 DEF BatchIsQueued
  <1>6. ASSUME NEW d \in Devices, PushSucceeds(d) \/ Pull(d) \/ Apply(d)
        PROVE  BatchIsQueued' /\ OnlyOwn
    <2>1. stage'[d] # "collected" /\ \A e \in Devices \ {d} : stage'[e] = stage[e]
      BY <1>6 DEF PushSucceeds, Pull, Apply, TypeOK
    <2>2. UNCHANGED <<outbox, batch>>
      BY <1>6 DEF PushSucceeds, Pull, Apply, storeVars
    <2>3. QED
      BY <2>1, <2>2, <1>5
  <1>7. ASSUME NEW d \in Devices, NEW r \in Rows, ClearEntry(d, r)
        PROVE  BatchIsQueued' /\ OnlyOwn
    <2>1. \A e \in Devices, q \in Rows :
            /\ e = d => stage'[e] # "collected"
            /\ e # d => /\ stage'[e] = stage[e] /\ batch'[e] = batch[e]
                        /\ outbox'[e] = outbox[e]
            /\ outbox'[e][q] \in {"none", outbox[e][q]}
      BY <1>7 DEF ClearEntry, TypeOK
    <2>2. QED
      BY <2>1 DEF BatchIsQueued
  <1>8. ASSUME NEW d \in Devices, SaveCursor(d) \/ Abort(d)
        PROVE  BatchIsQueued' /\ OnlyOwn
    <2>1. EndCycle(d) /\ outbox' = outbox
      BY <1>8 DEF SaveCursor, Abort, storeVars
    <2>2. QED
      BY <2>1, EndCycleEffect DEF BatchIsQueued
  <1>9. ASSUME NEW d \in Devices, NEW r \in Rows, RetryDue(d, r)
        PROVE  BatchIsQueued' /\ OnlyOwn
    <2>1. /\ UNCHANGED <<stage, batch>>
          /\ outbox[d][r] # "none" /\ outbox'[d][r] # "none"
          /\ \A e \in Devices, q \in Rows : <<e, q>> # <<d, r>> =>
                outbox'[e][q] = outbox[e][q]
      BY <1>9 DEF RetryDue, TypeOK, cycleVars
    <2>2. QED
      BY <2>1 DEF BatchIsQueued
  <1>10. ASSUME NEW r \in Rows, WebStamp(r)
         PROVE  BatchIsQueued' /\ OnlyOwn
    BY <1>2, <1>10 DEF WebStamp, storeVars, cycleVars
  <1>11. CASE WebCommit
    BY <1>2, <1>11 DEF WebCommit, storeVars, cycleVars
  <1>12. CASE UNCHANGED vars
    BY <1>2, <1>12 DEF vars, storeVars, cycleVars
  <1>13. ASSUME NEW d \in Devices, Restart(d)
         PROVE  BatchIsQueued' /\ OnlyOwn
    <2>1. /\ EndCycle(d)
          /\ \A e \in Devices, r \in Rows :
                \/ outbox'[e][r] = outbox[e][r]
                \/ /\ r \in Accounts /\ local'[e][r] = local[e][CardOf[r]]
                   /\ outbox'[e][r] = "ready"
      BY <1>13, RestartEffect
    <2>2. QED
      BY <2>1, EndCycleEffect DEF BatchIsQueued
  <1>14. QED
    BY <1>1, <1>3, <1>4, <1>6, <1>7, <1>8, <1>9, <1>10, <1>11, <1>12, <1>13
       DEF Next, Edit, Progress, Failure

(* An outbox entry appears only in the step that stamps a new version of   *)
(* its row on that device, or with the card's stamp on the card's account  *)
(* at a restart: applying pulled rows never queues them again.             *)
THEOREM PulledRowsStayOut == Spec => OnlyOwnEditsAreQueued
  <1> DEFINE OnlyOwn ==
        \A d \in Devices, r \in Rows :
            outbox[d][r] = "none" /\ outbox'[d][r] # "none" =>
                \/ clock' > clock /\ local'[d][r] = clock'
                \/ r \in Accounts /\ local'[d][r] = local[d][CardOf[r]]
  <1>1. Init => BatchIsQueued
    BY DEF Init, BatchIsQueued
  <1>2. TypeOK /\ BatchIsQueued /\ [Next]_vars => BatchIsQueued'
    BY OutboxStep
  <1>3. TypeOK /\ BatchIsQueued /\ [Next]_vars => [OnlyOwn]_vars
    BY OutboxStep
  <1>4. Spec => [][OnlyOwn]_vars
    BY <1>1, <1>2, <1>3, TypeCorrect, PTL DEF Spec
  <1>5. QED
    BY <1>4 DEF OnlyOwnEditsAreQueued

(* No store exchanges a version of a row for an older one, except a card's *)
(* account at a restart, and that row is queued in the same step: a pull   *)
(* answered before an edit never takes the edit back.                      *)
THEOREM EditsAreNotTakenBack == Spec => OnlyBackfillTurnsBack
  <1> DEFINE TurnsBack ==
        \A d \in Devices, r \in Rows :
            local'[d][r] < local[d][r] =>
                /\ r \in Accounts /\ local'[d][r] = local[d][CardOf[r]]
                /\ outbox'[d][r] = "ready"
  <1>1. Init => QueueInv
    BY NoRowsType, RowsAssumption
       DEF Init, QueueInv, StampsBounded, UnsyncedIsQueued, NoWeb
  <1>2. TypeOK /\ TypeOK' /\ QueueInv /\ [Next]_vars => QueueInv'
    BY QueueInvStep
  <1>3. TypeOK /\ TypeOK' /\ QueueInv /\ [Next]_vars => [TurnsBack]_vars
    <2> SUFFICES ASSUME TypeOK, TypeOK', QueueInv, Next
                 PROVE  TurnsBack
      OBVIOUS
    <2> USE Numbers
    <2>1. ASSUME \A d \in Devices, r \in Rows : local'[d][r] >= local[d][r]
          PROVE  TurnsBack
      <3>1. \A d \in Devices, r \in Rows :
                local[d][r] \in Nat /\ local'[d][r] \in Nat
        BY NumbersNext
      <3>2. QED
        BY <2>1, <3>1
    <2>2. ASSUME NEW d \in Devices, NEW r \in Rows, LocalEdit(d, r)
          PROVE  TurnsBack
      BY <2>1, <2>2, LocalEditGrows DEF QueueInv
    <2>3. ASSUME NEW d \in Devices, Apply(d)
          PROVE  TurnsBack
      BY <2>1, <2>3, ApplyEffect
    <2>4. ASSUME NEW d \in Devices, Restart(d)
          PROVE  TurnsBack
      BY <2>4, RestartEffect
    <2>5. CASE local' = local
      BY <2>1, <2>5
    <2>6. QED
      BY <2>2, <2>3, <2>4, <2>5
         DEF Next, Edit, Progress, Failure, WebStamp, WebCommit, BeginCycle,
             PushSucceeds, PushRefused, PushLost, PushAnswerLost, ClearEntry,
             Pull, SaveCursor, Abort, RetryDue, storeVars
  <1>4. Spec => [][TurnsBack]_vars
    BY <1>1, <1>2, <1>3, TypeCorrect, PTL DEF Spec
  <1>5. QED
    BY <1>4 DEF OnlyBackfillTurnsBack

-----------------------------------------------------------------------------
(* The engine implements LWWReplicas                                       *)

InTransit(r, s) ==
    \/ r \in web.row /\ s = web.stamp
    \/ s # 0 /\ \E d \in Devices : s = batch[d][r] \/ s = pulled[d][r]

LEMMA AfloatIsInTransit ==
    ASSUME TypeOK, NEW r \in Rows, NEW s
    PROVE  <<r, s>> \in Afloat <=> InTransit(r, s)
  BY DEF Afloat, Carried, InTransit

LEMMA AfloatArePairs ==
    ASSUME TypeOK, NEW p \in Afloat
    PROVE  \E r \in Rows, s \in Nat : p = <<r, s>>
  BY DEF Afloat, Carried, TypeOK

(* What a store that adopts copies does: it keeps its version or takes a   *)
(* newer one that is in transit.                                           *)
Adopts(old, new) ==
    \A r \in Rows :
        new[r] = old[r] \/ (new[r] > old[r] /\ InTransit(r, new[r]))

(* A step that stamps nothing: stores adopt, and what travels afterwards   *)
(* was travelling or stored before.                                        *)
Transfer ==
    /\ clock' = clock
    /\ Adopts(server, server')
    /\ \A d \in Devices : Adopts(local[d], local'[d])
    /\ web' = web \/ web' = NoWeb
    /\ \A d \in Devices, r \in Rows :
        /\ batch'[d][r] \in {0, batch[d][r], local[d][r]}
        /\ pulled'[d][r] \in {0, pulled[d][r], server[r]}

LEMMA TransferIsExchange ==
    ASSUME TypeOK, TypeOK', Transfer
    PROVE  LWW!Exchange
  <1>1. \A p \in Devices : Held[p] = local[p] /\ Held'[p] = local'[p]
    BY CloudAssumption DEF Held
  <1>2. Held[Cloud] = server /\ Held'[Cloud] = server'
    BY DEF Held
  <1>3. \A d \in Devices, r \in Rows :
            <<r, local[d][r]>> \in LWW!Stored /\ <<r, server[r]>> \in LWW!Stored
    BY <1>1, <1>2 DEF LWW!Stored
  <1>4. ASSUME NEW p \in Afloat'
        PROVE  p \in Afloat \cup LWW!Stored
    <2>1. PICK r \in Rows, s \in Nat : p = <<r, s>>
      BY <1>4 DEF Afloat, Carried, TypeOK
    <2>2. \/ r \in web'.row /\ s = web'.stamp
          \/ s # 0 /\ \E d \in Devices : s = batch'[d][r] \/ s = pulled'[d][r]
      BY <1>4, <2>1 DEF Afloat, Carried
    <2>3. CASE r \in web'.row /\ s = web'.stamp
      BY <2>1, <2>3, AfloatIsInTransit DEF Transfer, NoWeb, InTransit
    <2>4. ASSUME s # 0, NEW d \in Devices,
                 s = batch'[d][r] \/ s = pulled'[d][r]
          PROVE  p \in Afloat \cup LWW!Stored
      <3>1. s \in {batch[d][r], local[d][r], pulled[d][r], server[r]}
        BY <2>4 DEF Transfer
      <3>2. InTransit(r, s) \/ s = local[d][r] \/ s = server[r]
        BY <2>4, <3>1 DEF InTransit
      <3>3. QED
        BY <1>3, <2>1, <3>2, AfloatIsInTransit
    <2>5. QED
      BY <2>2, <2>3, <2>4
  <1>5. ASSUME NEW p \in Devices \cup {Cloud}, NEW r \in Rows
        PROVE  \/ Held'[p][r] = Held[p][r]
               \/ Held'[p][r] > Held[p][r] /\ <<r, Held'[p][r]>> \in Afloat
    <2>1. Adopts(Held[p], Held'[p])
      BY <1>1, <1>2 DEF Transfer
    <2>2. QED
      BY <2>1, AfloatIsInTransit DEF Adopts
  <1>6. QED
    BY <1>4, <1>5 DEF LWW!Exchange, Transfer

(* A conditional upsert of rows in transit is an adoption.                 *)
LEMMA MergeAdopts ==
    ASSUME NEW a \in [Rows -> Nat], NEW b \in [Rows -> Nat],
           \A r \in Rows : b[r] # 0 => InTransit(r, b[r])
    PROVE  Adopts(a, Merge(a, b))
  BY DEF Merge, Adopts

LEMMA WebCommitTransfers ==
    ASSUME TypeOK, Guarded = Rows, WebCommit
    PROVE  Transfer
  <1>1. server' = Merge(server, WebRows)
    BY DEF WebCommit, TypeOK, Merge
  <1>2. \A r \in Rows : WebRows[r] # 0 => InTransit(r, WebRows[r])
    BY WebRowsType DEF InTransit
  <1>3. Adopts(server, server')
    BY <1>1, <1>2, WebRowsType, MergeAdopts DEF TypeOK
  <1>4. QED
    BY <1>3 DEF WebCommit, Transfer, Adopts, storeVars, cycleVars

(* With every table guarded no row mirrors another.                        *)
LEMMA AloneWritten ==
    ASSUME Guarded = Rows, NEW store, NEW r \in Rows
    PROVE  Written(store, r) = {r}
  BY AccountsAssumption DEF Written, Touched

LEMMA ServerAdopts ==
    ASSUME TypeOK, NEW d \in Devices, ServerAccepts(d)
    PROVE  Adopts(server, server')
  <1>1. \A r \in Rows : batch[d][r] # 0 => InTransit(r, batch[d][r])
    BY DEF InTransit
  <1>2. QED
    BY <1>1, MergeAdopts DEF TypeOK, ServerAccepts

(* With every table guarded, a step is a write, a hand-over or a transfer. *)
LEMMA StepRefines ==
    ASSUME TypeOK, TypeOK', Guarded = Rows, [Next]_vars
    PROVE  [LWW!LWWNext]_(LWW!lwwVars)
  <1> SUFFICES \/ LWW!LWWNext
               \/ Transfer
    BY TransferIsExchange DEF LWW!LWWNext
  <1>1. ASSUME NEW d \in Devices, NEW r \in Rows, LocalEdit(d, r)
        PROVE  LWW!LWWNext
    <2>1. Afloat' = Afloat
      BY <1>1 DEF LocalEdit, serverVars, cycleVars, Afloat, Carried
    <2>2. Held' = [Held EXCEPT ![d][r] = clock']
      <3>1. Written(local[d], r) = {r}
        BY AloneWritten
      <3>2. local' = [local EXCEPT ![d] =
                        [q \in Rows |-> IF q \in {r} THEN clock'
                                                     ELSE local[d][q]]]
        BY <1>1, <3>1 DEF LocalEdit
      <3>3. [q \in Rows |-> IF q \in {r} THEN clock' ELSE local[d][q]]
                = [local[d] EXCEPT ![r] = clock']
        BY DEF TypeOK
      <3>4. local' = [local EXCEPT ![d][r] = clock']
        BY <3>2, <3>3
      <3>5. server' = server
        BY <1>1 DEF LocalEdit, serverVars
      <3>6. QED
        BY <3>4, <3>5, CloudAssumption DEF Held, TypeOK
    <2>3. LWW!Write(d, r)
      BY <1>1, <2>1, <2>2 DEF LWW!Write, LocalEdit
    <2>4. QED
      BY <2>3 DEF LWW!LWWNext
  <1>2. ASSUME NEW r \in Rows, WebStamp(r)
        PROVE  LWW!LWWNext
    <2>1. Held' = Held
      BY <1>2 DEF WebStamp, storeVars, Held
    <2>2. Afloat' = Afloat \cup {<<r, clock'>>}
      BY <1>2, AloneWritten DEF WebStamp, NoWeb, cycleVars, Afloat, Carried
    <2>3. LWW!Hand(r)
      BY <1>2, <2>1, <2>2 DEF LWW!Hand, WebStamp
    <2>4. QED
      BY <2>3 DEF LWW!LWWNext
  <1>3. CASE WebCommit
    BY <1>3, WebCommitTransfers
  <1>4. ASSUME NEW d \in Devices, NEW full \in BOOLEAN, BeginCycle(d, full)
        PROVE  Transfer
    BY <1>4 DEF Transfer, Adopts, BeginCycle, TypeOK, serverVars, storeVars
  <1>5. ASSUME NEW d \in Devices, PushSucceeds(d)
        PROVE  Transfer
    BY <1>5, ServerAdopts DEF Transfer, Adopts, PushSucceeds, storeVars
  <1>6. ASSUME NEW d \in Devices, EndCycle(d), UNCHANGED <<clock, web, local>>,
               ServerAccepts(d) \/ server' = server
        PROVE  Transfer
    BY <1>6, ServerAdopts, EndCycleEffect DEF Transfer, Adopts
  <1>7. ASSUME NEW d \in Devices,
               PushRefused(d) \/ PushLost(d) \/ PushAnswerLost(d)
        PROVE  Transfer
    BY <1>6, <1>7
       DEF PushRefused, PushLost, PushAnswerLost, MarkBatchFailed, serverVars
  <1>8. ASSUME NEW d \in Devices, SaveCursor(d) \/ Abort(d)
        PROVE  Transfer
    BY <1>6, <1>8 DEF SaveCursor, Abort, serverVars, storeVars
  <1>9. ASSUME NEW d \in Devices, NEW r \in Rows, ClearEntry(d, r)
        PROVE  Transfer
    BY <1>9 DEF Transfer, Adopts, ClearEntry, TypeOK, serverVars
  <1>10. ASSUME NEW d \in Devices, Pull(d)
         PROVE  Transfer
    BY <1>10 DEF Transfer, Adopts, Pull, TypeOK, serverVars, storeVars
  <1>11. ASSUME NEW d \in Devices, Apply(d)
         PROVE  Transfer
    <2>1. \A r \in Rows : pulled[d][r] # 0 => InTransit(r, pulled[d][r])
      BY DEF InTransit
    <2>2. Adopts(local[d], Merge(local[d], pulled[d]))
      BY <2>1, MergeAdopts DEF TypeOK
    <2>3. \A e \in Devices : Adopts(local[e], local'[e])
      BY <1>11, <2>2 DEF Apply, TypeOK, Adopts
    <2>4. QED
      BY <1>11, <2>3 DEF Transfer, Adopts, Apply, serverVars
  <1>12. ASSUME NEW d \in Devices, NEW r \in Rows, RetryDue(d, r)
         PROVE  Transfer
    BY <1>12 DEF Transfer, Adopts, RetryDue, serverVars, cycleVars
  <1>13. CASE UNCHANGED vars
    BY <1>13 DEF Transfer, Adopts, vars, serverVars, storeVars, cycleVars
  <1>14. ASSUME NEW d \in Devices, Restart(d)
         PROVE  Transfer
    <2>1. Accounts = {}
      BY AccountsAssumption
    <2>2. /\ EndCycle(d)
          /\ UNCHANGED <<clock, server, web>>
          /\ \A e \in Devices, r \in Rows : local'[e][r] = local[e][r]
      BY <1>14, <2>1, RestartEffect
    <2>3. \A e \in Devices, r \in Rows :
            /\ batch'[e][r] \in {0, batch[e][r]}
            /\ pulled'[e][r] \in {0, pulled[e][r]}
      BY <2>2, EndCycleEffect
    <2>4. QED
      BY <2>2, <2>3 DEF Transfer, Adopts
  <1>15. QED
    BY <1>1, <1>2, <1>3, <1>4, <1>5, <1>7, <1>8, <1>9, <1>10, <1>11, <1>12,
       <1>13, <1>14
       DEF Next, Edit, Progress, Failure

LEMMA InitRefines == Init => LWW!LWWInit
  <1> SUFFICES ASSUME Init
               PROVE  LWW!LWWInit
    OBVIOUS
  <1>1. Held = [p \in Devices \cup {Cloud} |-> [r \in Rows |-> 0]]
    BY DEF Init, Held, NoRows
  <1>2. Afloat = {}
    BY NoRowsType DEF Init, Afloat, Carried, NoWeb, NoRows
  <1>3. QED
    BY <1>1, <1>2 DEF LWW!LWWInit, Init

(* Where the server compares stamps, whatever is lost, repeated or cut off *)
(* the engine is a Last Write Wins store: a replica gives a version up     *)
(* only for a newer one, and stores none that no client wrote.             *)
THEOREM EngineIsLWW ==
    ASSUME Guarded = Rows
    PROVE  Spec => ImplementsLWW
  <1>1. Init => LWW!LWWInit
    BY InitRefines
  <1>2. TypeOK /\ TypeOK' /\ [Next]_vars => [LWW!LWWNext]_(LWW!lwwVars)
    BY StepRefines
  <1>3. QED
    BY <1>1, <1>2, TypeCorrect, PTL DEF Spec, ImplementsLWW, LWW!LWWSpec

=============================================================================
