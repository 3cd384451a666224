------------------------- MODULE SyncWakeups_proofs -------------------------
(***************************************************************************)
(* Proofs about SyncWakeups for every set of devices, setups and rows,     *)
(* every batch size and capacity of the queues, and any number of edits    *)
(* and failures.                                                           *)
(***************************************************************************)
EXTENDS SyncWakeups, FiniteSetTheorems, TLAPS

-----------------------------------------------------------------------------
(* Type correctness                                                        *)

LEMMA EnqueueType ==
    ASSUME NEW n \in 0..Buffer
    PROVE  Enqueue(n) \in 0..Buffer /\ Enqueue(n) > 0
  BY BufferAssumption DEF Enqueue

LEMMA TypesKept ==
    ASSUME TypeOK, [Next]_vars
    PROVE  TypeOK'
  <1>1. CASE WebEdit
    BY <1>1 DEF WebEdit, EditMade, TypeOK, Stages, outboxVars, signalVars,
       cycleVars, newsVars, linkVars, screenVars
  <1>2. CASE WebAnnounce
    BY <1>2, EnqueueType DEF WebAnnounce, Publish, TypeOK, Stages, outboxVars,
       signalVars, cycleVars, newsVars, linkVars, screenVars
  <1>3. CASE SilentWebEdit
    BY <1>3 DEF SilentWebEdit, EditMade, TypeOK, Stages, outboxVars,
       signalVars, cycleVars, newsVars, linkVars, screenVars
  <1>4. ASSUME NEW d \in Devices, NEW r \in Rows, LocalEdit(d, r) PROVE TypeOK'
    BY <1>4 DEF LocalEdit, EditMade, Queued, TypeOK, Stages, outboxVars,
       signalVars, cycleVars, newsVars, linkVars, screenVars
  <1>5. ASSUME NEW d \in Devices, NEW r \in Rows, SilentEdit(d, r) PROVE TypeOK'
    BY <1>5 DEF SilentEdit, EditMade, Queued, TypeOK, Stages, outboxVars,
       signalVars, cycleVars, newsVars, linkVars, screenVars
  <1>6. ASSUME NEW d \in Devices, Notify(d) PROVE TypeOK'
    BY <1>6 DEF Notify, TypeOK, Stages, outboxVars, signalVars, cycleVars,
       newsVars, linkVars, screenVars
  <1>7. ASSUME NEW d \in Devices, Due(d) PROVE TypeOK'
    BY <1>7 DEF Due, TypeOK, Stages, outboxVars, signalVars, cycleVars,
       newsVars, linkVars, screenVars
  <1>8. ASSUME NEW d \in Devices, Receive(d) PROVE TypeOK'
    BY <1>8, BufferAssumption DEF Receive, TypeOK, Stages, outboxVars,
       signalVars, cycleVars, newsVars, linkVars, screenVars
  <1>9. ASSUME NEW d \in Devices, Signalled(d) PROVE TypeOK'
    BY <1>9 DEF Signalled, Begin, Batches, TypeOK, Stages, outboxVars,
       signalVars, cycleVars, newsVars, linkVars, screenVars
  <1>10. ASSUME NEW d \in Devices, PushCommit(d) PROVE TypeOK'
    BY <1>10 DEF PushCommit, TypeOK, Stages, outboxVars, signalVars,
       cycleVars, newsVars, linkVars, screenVars
  <1>11. ASSUME NEW d \in Devices, PushAnnounce(d) PROVE TypeOK'
    BY <1>11, EnqueueType DEF PushAnnounce, Publish, TypeOK, Stages,
       outboxVars, signalVars, cycleVars, newsVars, linkVars, screenVars
  <1>12. ASSUME NEW d \in Devices, Fetch(d) PROVE TypeOK'
    BY <1>12 DEF Fetch, TypeOK, Stages, outboxVars, signalVars, cycleVars,
       newsVars, linkVars, screenVars
  <1>13. ASSUME NEW d \in Devices, Apply(d) PROVE TypeOK'
    BY <1>13 DEF Apply, TypeOK, Stages, outboxVars, signalVars, cycleVars,
       newsVars, linkVars, screenVars
  <1>14. ASSUME NEW d \in Devices, Save(d) PROVE TypeOK'
    BY <1>14, BufferAssumption DEF Save, Status, Room, TypeOK, Stages,
       outboxVars, signalVars, cycleVars, newsVars, linkVars, screenVars
  <1>15. ASSUME NEW d \in Devices, Update(d) PROVE TypeOK'
    <2>1. /\ stage' \in [Devices -> Stages] /\ fetched' \in [Devices -> BOOLEAN]
          /\ UNCHANGED <<watching, statuses>>
      BY <1>15 DEF Update, TypeOK, Stages
    <2>2. /\ stale' \in [Devices -> BOOLEAN]
          /\ unseen' \in [Devices -> BOOLEAN]
      BY <1>15 DEF Update, Unheard, TypeOK
    <2>3. updates' \in [Devices -> Nat]
      BY <1>15 DEF Update, TypeOK
    <2>4. \A e \in Devices : updates'[e] + statuses'[e] <= Buffer
      BY <1>15, <2>1, BufferAssumption DEF Update, Room, TypeOK
    <2>5. QED
      BY <1>15, <2>1, <2>2, <2>3, <2>4 DEF Update, TypeOK, outboxVars,
         signalVars, newsVars, linkVars
  <1>16. ASSUME NEW d \in Devices, Tick(d) PROVE TypeOK'
    BY <1>16 DEF Tick, Begin, Batches, TypeOK, Stages, outboxVars, signalVars,
       cycleVars, newsVars, linkVars, screenVars
  <1>17. ASSUME NEW d \in Devices, Skip(d) PROVE TypeOK'
    BY <1>17 DEF Skip, Fault, TypeOK, Stages, outboxVars, signalVars,
       cycleVars, newsVars, linkVars, screenVars
  <1>18. ASSUME NEW d \in Devices, CycleFails(d) PROVE TypeOK'
    <2>1. /\ due' \in [Devices -> SUBSET Rows]
          /\ waiting' \in [Devices -> SUBSET Rows]
      BY <1>18 DEF CycleFails, Retried, TypeOK
    <2>2. /\ quiet' \in [Devices -> SUBSET Rows]
          /\ sending' \in [Devices -> SUBSET Rows]
      BY <1>18, <2>1 DEF CycleFails, Retried, TypeOK
    <2>3. /\ statuses' \in [Devices -> Nat] /\ UNCHANGED updates
          /\ \A e \in Devices : updates'[e] + statuses'[e] <= Buffer
      BY <1>18, BufferAssumption DEF CycleFails, Status, Room, TypeOK

    <2>4. /\ behind' \in [Devices -> BOOLEAN]
          /\ missed' \in [Devices -> BOOLEAN]
          /\ fetched' \in [Devices -> BOOLEAN]
      BY <1>18 DEF CycleFails, TypeOK
    <2>5. /\ stale' \in [Devices -> BOOLEAN]
          /\ unseen' \in [Devices -> BOOLEAN]
      BY <1>18 DEF CycleFails, Unheard, TypeOK
    <2>6. faults' \in Nat /\ stage' \in [Devices -> Stages]
      BY <1>18 DEF CycleFails, Fault, TypeOK, Stages
    <2>7. QED
      BY <1>18, <2>1, <2>2, <2>3, <2>4, <2>5, <2>6 DEF CycleFails, TypeOK,
         signalVars, linkVars
  <1>19. ASSUME NEW d \in Devices, AnswerLost(d) PROVE TypeOK'
    <2>1. /\ due' \in [Devices -> SUBSET Rows]
          /\ waiting' \in [Devices -> SUBSET Rows]
      BY <1>19 DEF AnswerLost, Retried, TypeOK
    <2>2. /\ quiet' \in [Devices -> SUBSET Rows]
          /\ sending' \in [Devices -> SUBSET Rows]
      BY <1>19, <2>1 DEF AnswerLost, Retried, TypeOK
    <2>3. /\ statuses' \in [Devices -> Nat] /\ UNCHANGED updates
          /\ \A e \in Devices : updates'[e] + statuses'[e] <= Buffer
      BY <1>19, BufferAssumption DEF AnswerLost, Status, Room, TypeOK

    <2>4. /\ behind' \in [Devices -> BOOLEAN]
          /\ missed' \in [Devices -> BOOLEAN]
          /\ queue' \in [Devices -> 0..Buffer] /\ UNCHANGED linked
      BY <1>19, EnqueueType DEF AnswerLost, Publish, TypeOK
    <2>5. faults' \in Nat /\ stage' \in [Devices -> Stages]
      BY <1>19 DEF AnswerLost, Fault, TypeOK, Stages
    <2>6. QED
      BY <1>19, <2>1, <2>2, <2>3, <2>4, <2>5 DEF AnswerLost, TypeOK, signalVars
  <1>20. ASSUME NEW d \in Devices, Unlink(d) PROVE TypeOK'
    BY <1>20, BufferAssumption DEF Unlink, Fault, TypeOK, Stages, outboxVars,
       signalVars, cycleVars, newsVars, linkVars, screenVars
  <1>21. ASSUME NEW d \in Devices, Unwatch(d) PROVE TypeOK'
    BY <1>21, BufferAssumption DEF Unwatch, Fault, TypeOK, Stages, outboxVars,
       signalVars, cycleVars, newsVars, linkVars, screenVars
  <1>22. ASSUME NEW d \in Devices, Link(d) PROVE TypeOK'
    BY <1>22 DEF Link, TypeOK, Stages, outboxVars, signalVars, cycleVars,
       newsVars, linkVars, screenVars
  <1>23. ASSUME NEW d \in Devices, Watch(d) PROVE TypeOK'
    BY <1>23 DEF Watch, TypeOK, Stages, outboxVars, signalVars, cycleVars,
       newsVars, linkVars, screenVars
  <1>24. ASSUME NEW d \in Devices, Report(d) PROVE TypeOK'
    BY <1>24, BufferAssumption DEF Report, Status, Room, TypeOK, Stages,
       outboxVars, signalVars, cycleVars, newsVars, linkVars, screenVars
  <1>25. ASSUME NEW d \in Devices, Refetch(d) PROVE TypeOK'
    BY <1>25, BufferAssumption DEF Refetch, Refetched, TypeOK, Stages,
       outboxVars, signalVars, cycleVars, newsVars, linkVars, screenVars
  <1>26. ASSUME NEW d \in Devices, ShowStatus(d) PROVE TypeOK'
    BY <1>26, BufferAssumption DEF ShowStatus, TypeOK, Stages, outboxVars,
       signalVars, cycleVars, newsVars, linkVars, screenVars
  <1>27. ASSUME NEW d \in Devices, Focus(d) PROVE TypeOK'
    BY <1>27 DEF Focus, Refetched, TypeOK, Stages, outboxVars, signalVars,
       cycleVars, newsVars, linkVars, screenVars
  <1>28. CASE UNCHANGED vars
    BY <1>28 DEF vars, TypeOK, Stages, outboxVars, signalVars, cycleVars,
       newsVars, linkVars, screenVars
  <1>29. QED
    BY <1>1, <1>2, <1>3, <1>4, <1>5, <1>6, <1>7, <1>8, <1>9, <1>10, <1>11,
       <1>12, <1>13, <1>14, <1>15, <1>16, <1>17, <1>18, <1>19, <1>20, <1>21,
       <1>22, <1>23, <1>24, <1>25, <1>26, <1>27, <1>28 DEF Next, Cycle,
       Failure

(* Every variable of SyncWakeups keeps its type; no queue holds more than  *)
(* a subscription's capacity, status events and updates together.          *)
THEOREM TypeCorrect == Spec => []TypeOK
  <1>1. Init => TypeOK
    <2>1. 0 \in 0..Buffer
      BY BufferAssumption
    <2>2. /\ No \in [Devices -> BOOLEAN]
          /\ [d \in Devices |-> d \in setup.running] \in [Devices -> BOOLEAN]
          /\ [d \in Devices |-> d \notin setup.running]
               \in [Devices -> BOOLEAN]
      BY DEF No
    <2>3. Zero \in [Devices -> 0..Buffer] /\ Zero \in [Devices -> Nat]
      BY <2>1 DEF Zero
    <2>4. None \in [Devices -> SUBSET Rows]
      BY DEF None
    <2>5. [d \in Devices |-> IF d \in setup.running THEN "pulling" ELSE "off"]
            \in [Devices -> Stages]
      BY DEF Stages
    <2>6. SUFFICES ASSUME Init PROVE TypeOK
      OBVIOUS
    <2>7. edits \in Nat /\ faults \in Nat /\ announcing \in Nat
      BY <2>6 DEF Init
    <2>8. /\ due \in [Devices -> SUBSET Rows]
          /\ waiting \in [Devices -> SUBSET Rows]
          /\ quiet \in [Devices -> SUBSET Rows]
          /\ sending \in [Devices -> SUBSET Rows]
      BY <2>4, <2>6, Zenon DEF Init
    <2>9. /\ signal \in [Devices -> BOOLEAN]
          /\ fetched \in [Devices -> BOOLEAN]
          /\ behind \in [Devices -> BOOLEAN]
          /\ missed \in [Devices -> BOOLEAN]
          /\ linked \in [Devices -> BOOLEAN]
      BY <2>2, <2>6, Zenon DEF Init
    <2>10. /\ stale \in [Devices -> BOOLEAN]
           /\ unseen \in [Devices -> BOOLEAN]
           /\ watching \in [Devices -> BOOLEAN]
      BY <2>2, <2>6, Zenon DEF Init
    <2>11. /\ notifying \in [Devices -> Nat]
           /\ queue \in [Devices -> 0..Buffer]
           /\ updates \in [Devices -> Nat]
           /\ statuses \in [Devices -> Nat]
      BY <2>3, <2>6, Zenon DEF Init
    <2>12. stage \in [Devices -> Stages]
      BY <2>5, <2>6, Zenon DEF Init
    <2>13. \A d \in Devices : updates[d] + statuses[d] <= Buffer
      BY <2>6, BufferAssumption DEF Init, Zero
    <2>14. setup \in Setups
      BY <2>6 DEF Init
    <2>15. QED
      BY <2>7, <2>8, <2>9, <2>10, <2>11, <2>12, <2>13, <2>14, Zenon DEF TypeOK
  <1>2. TypeOK /\ [Next]_vars => TypeOK'
    BY TypesKept
  <1>3. QED
    BY <1>1, <1>2, PTL DEF Spec

-----------------------------------------------------------------------------
(* News of the cloud's rows                                                *)

LEMMA NewsKept ==
    ASSUME TypeOK, NewsOnItsWay, [Next]_vars
    PROVE  NewsOnItsWay'
  <1>1. CASE UNCHANGED <<announcing, stage, behind, queue, signal>>
    BY <1>1 DEF TypeOK, Stages, NewsOnItsWay
  <1>2. CASE WebEdit
    BY <1>2 DEF WebEdit, EditMade, NewsOnItsWay, TypeOK, Stages, outboxVars,
       signalVars, cycleVars, newsVars, linkVars, screenVars
  <1>3. CASE WebAnnounce
    BY <1>3, EnqueueType DEF WebAnnounce, Publish, NewsOnItsWay, TypeOK,
       Stages, outboxVars, signalVars, cycleVars, newsVars, linkVars,
       screenVars
  <1>4. ASSUME NEW d \in Devices, Notify(d) PROVE NewsOnItsWay'
    BY <1>4 DEF Notify, NewsOnItsWay, TypeOK, Stages, outboxVars, signalVars,
       cycleVars, newsVars, linkVars, screenVars
  <1>5. ASSUME NEW d \in Devices, Receive(d) PROVE NewsOnItsWay'
    BY <1>5, BufferAssumption DEF Receive, NewsOnItsWay, TypeOK, Stages,
       outboxVars, signalVars, cycleVars, newsVars, linkVars, screenVars
  <1>6. ASSUME NEW d \in Devices, Signalled(d) PROVE NewsOnItsWay'
    BY <1>6 DEF Signalled, Begin, Batches, NewsOnItsWay, TypeOK, Stages,
       outboxVars, signalVars, cycleVars, newsVars, linkVars, screenVars
  <1>7. ASSUME NEW d \in Devices, PushCommit(d) PROVE NewsOnItsWay'
    BY <1>7 DEF PushCommit, NewsOnItsWay, TypeOK, Stages, outboxVars,
       signalVars, cycleVars, newsVars, linkVars, screenVars
  <1>8. ASSUME NEW d \in Devices, PushAnnounce(d) PROVE NewsOnItsWay'
    BY <1>8, EnqueueType DEF PushAnnounce, Publish, NewsOnItsWay, TypeOK,
       Stages, outboxVars, signalVars, cycleVars, newsVars, linkVars,
       screenVars
  <1>9. ASSUME NEW d \in Devices, Fetch(d) PROVE NewsOnItsWay'
    BY <1>9 DEF Fetch, NewsOnItsWay, TypeOK, Stages, outboxVars, signalVars,
       cycleVars, newsVars, linkVars, screenVars
  <1>10. ASSUME NEW d \in Devices, Apply(d) PROVE NewsOnItsWay'
    BY <1>10 DEF Apply, NewsOnItsWay, TypeOK, Stages, outboxVars, signalVars,
       cycleVars, newsVars, linkVars, screenVars
  <1>11. ASSUME NEW d \in Devices, Save(d) PROVE NewsOnItsWay'
    BY <1>11, BufferAssumption DEF Save, Status, Room, NewsOnItsWay, TypeOK,
       Stages, outboxVars, signalVars, cycleVars, newsVars, linkVars,
       screenVars
  <1>12. ASSUME NEW d \in Devices, Update(d) PROVE NewsOnItsWay'
    BY <1>12, BufferAssumption DEF Update, Room, Unheard, NewsOnItsWay,
       TypeOK, Stages, outboxVars, signalVars, cycleVars, newsVars, linkVars,
       screenVars
  <1>13. ASSUME NEW d \in Devices, Tick(d) PROVE NewsOnItsWay'
    BY <1>13 DEF Tick, Begin, Batches, NewsOnItsWay, TypeOK, Stages,
       outboxVars, signalVars, cycleVars, newsVars, linkVars, screenVars
  <1>14. ASSUME NEW d \in Devices, Skip(d) PROVE NewsOnItsWay'
    BY <1>14 DEF Skip, Fault, NewsOnItsWay, TypeOK, Stages, outboxVars,
       signalVars, cycleVars, newsVars, linkVars, screenVars
  <1>15. ASSUME NEW d \in Devices, CycleFails(d) PROVE NewsOnItsWay'
    BY <1>15, BufferAssumption DEF CycleFails, Fault, Retried, Dropped,
       Status, Room, Unheard, NewsOnItsWay, TypeOK, Stages, outboxVars,
       signalVars, cycleVars, newsVars, linkVars, screenVars
  <1>16. ASSUME NEW d \in Devices, AnswerLost(d) PROVE NewsOnItsWay'
    BY <1>16, EnqueueType DEF AnswerLost, Fault, Publish, Retried, Status,
       Room, NewsOnItsWay, TypeOK, Stages, outboxVars, signalVars, cycleVars,
       newsVars, linkVars, screenVars
  <1>17. ASSUME NEW d \in Devices, Unlink(d) PROVE NewsOnItsWay'
    BY <1>17, BufferAssumption DEF Unlink, Fault, NewsOnItsWay, TypeOK,
       Stages, outboxVars, signalVars, cycleVars, newsVars, linkVars,
       screenVars
  <1>18. CASE SilentWebEdit
    BY <1>1, <1>18 DEF SilentWebEdit, EditMade, outboxVars, signalVars,
       cycleVars, newsVars, linkVars, screenVars
  <1>19. ASSUME NEW d \in Devices, NEW r \in Rows, LocalEdit(d, r)
        PROVE  NewsOnItsWay'
    BY <1>1, <1>19 DEF LocalEdit, EditMade, Queued, outboxVars, signalVars,
       cycleVars, newsVars, linkVars, screenVars
  <1>20. ASSUME NEW d \in Devices, NEW r \in Rows, SilentEdit(d, r)
        PROVE  NewsOnItsWay'
    BY <1>1, <1>20 DEF SilentEdit, EditMade, Queued, outboxVars, signalVars,
       cycleVars, newsVars, linkVars, screenVars
  <1>21. ASSUME NEW d \in Devices, Due(d) PROVE NewsOnItsWay'
    BY <1>1, <1>21 DEF Due, outboxVars, signalVars, cycleVars, newsVars,
       linkVars, screenVars
  <1>22. ASSUME NEW d \in Devices, Link(d) PROVE NewsOnItsWay'
    BY <1>1, <1>22 DEF Link, outboxVars, signalVars, cycleVars, newsVars,
       linkVars, screenVars
  <1>23. ASSUME NEW d \in Devices, Watch(d) PROVE NewsOnItsWay'
    BY <1>1, <1>23 DEF Watch, outboxVars, signalVars, cycleVars, newsVars,
       linkVars, screenVars
  <1>24. ASSUME NEW d \in Devices, Unwatch(d) PROVE NewsOnItsWay'
    BY <1>1, <1>24 DEF Unwatch, Fault, outboxVars, signalVars, cycleVars,
       newsVars, linkVars, screenVars
  <1>25. ASSUME NEW d \in Devices, Report(d) PROVE NewsOnItsWay'
    BY <1>1, <1>25 DEF Report, Status, Room, outboxVars, signalVars,
       cycleVars, newsVars, linkVars, screenVars
  <1>26. ASSUME NEW d \in Devices, Refetch(d) PROVE NewsOnItsWay'
    BY <1>1, <1>26 DEF Refetch, Refetched, outboxVars, signalVars, cycleVars,
       newsVars, linkVars, screenVars
  <1>27. ASSUME NEW d \in Devices, ShowStatus(d) PROVE NewsOnItsWay'
    BY <1>1, <1>27 DEF ShowStatus, outboxVars, signalVars, cycleVars,
       newsVars, linkVars, screenVars
  <1>28. ASSUME NEW d \in Devices, Focus(d) PROVE NewsOnItsWay'
    BY <1>1, <1>28 DEF Focus, Refetched, outboxVars, signalVars, cycleVars,
       newsVars, linkVars, screenVars
  <1>29. CASE UNCHANGED vars
    BY <1>1, <1>29 DEF vars, outboxVars, signalVars, cycleVars, newsVars,
       linkVars, screenVars
  <1>30. QED
    BY <1>2, <1>3, <1>4, <1>5, <1>6, <1>7, <1>8, <1>9, <1>10, <1>11, <1>12,
       <1>13, <1>14, <1>15, <1>16, <1>17, <1>18, <1>19, <1>20, <1>21, <1>22,
       <1>23, <1>24, <1>25, <1>26, <1>27, <1>28, <1>29 DEF Next, Cycle,
       Failure

(* Of the rows a device lacks, those that were or will be announced to it  *)
(* have their news on its way, with any number of devices echoing each     *)
(* other's pushes over queues of any capacity.                             *)
THEOREM NewsNeverDropped == Spec => []NewsOnItsWay
  <1>1. Init => NewsOnItsWay
    BY DEF Init, NewsOnItsWay
  <1>2. TypeOK /\ NewsOnItsWay /\ [Next]_vars => NewsOnItsWay'
    BY NewsKept
  <1>3. QED
    BY <1>1, <1>2, TypeCorrect, PTL DEF Spec

-----------------------------------------------------------------------------
(* Signals for the worker                                                  *)

(* A cycle leaves nothing due only when it takes it all.                   *)
LEMMA BatchTakesSome ==
    ASSUME NEW entries, {} \in Batches(entries)
    PROVE  entries = {}
  BY FS_EmptySet, BatchAssumption DEF Batches

(* Besides, a batch is under way only while it is being pushed: a cycle    *)
(* that fails later puts nothing back.                                     *)
SignalInv ==
    /\ EditsHaveSignal
    /\ \A d \in Devices :
           sending[d] = {} \/ stage[d] \in {"pushing", "announcing"}

LEMMA SignalInvKept ==
    ASSUME TypeOK, SignalInv, [Next]_vars
    PROVE  SignalInv'
  <1>1. CASE UNCHANGED <<due, quiet, notifying, signal, queue, stage, sending>>
    BY <1>1 DEF TypeOK, Stages, SignalInv, EditsHaveSignal
  <1>2. CASE WebAnnounce
    BY <1>2, EnqueueType DEF WebAnnounce, Publish, SignalInv, EditsHaveSignal,
       TypeOK, Stages, outboxVars, signalVars, cycleVars, newsVars, linkVars,
       screenVars
  <1>3. ASSUME NEW d \in Devices, NEW r \in Rows, LocalEdit(d, r)
        PROVE  SignalInv'
    BY <1>3 DEF LocalEdit, EditMade, Queued, SignalInv, EditsHaveSignal,
       TypeOK, Stages, outboxVars, signalVars, cycleVars, newsVars, linkVars,
       screenVars
  <1>4. ASSUME NEW d \in Devices, NEW r \in Rows, SilentEdit(d, r)
        PROVE  SignalInv'
    BY <1>4 DEF SilentEdit, EditMade, Queued, SignalInv, EditsHaveSignal,
       TypeOK, Stages, outboxVars, signalVars, cycleVars, newsVars, linkVars,
       screenVars
  <1>5. ASSUME NEW d \in Devices, Notify(d) PROVE SignalInv'
    BY <1>5 DEF Notify, SignalInv, EditsHaveSignal, TypeOK, Stages,
       outboxVars, signalVars, cycleVars, newsVars, linkVars, screenVars
  <1>6. ASSUME NEW d \in Devices, Due(d) PROVE SignalInv'
    BY <1>6 DEF Due, SignalInv, EditsHaveSignal, TypeOK, Stages, outboxVars,
       signalVars, cycleVars, newsVars, linkVars, screenVars
  <1>7. ASSUME NEW d \in Devices, Receive(d) PROVE SignalInv'
    BY <1>7, BufferAssumption DEF Receive, SignalInv, EditsHaveSignal, TypeOK,
       Stages, outboxVars, signalVars, cycleVars, newsVars, linkVars,
       screenVars
  <1>8. ASSUME NEW d \in Devices, Signalled(d) PROVE SignalInv'
    <2>1. Begin(d)
      BY <1>8 DEF Signalled
    <2>2. PICK batch \in Batches(due[d]) :
            /\ sending' = [sending EXCEPT ![d] = batch]
            /\ due' = [due EXCEPT ![d] = due[d] \ batch]
            /\ stage' = [stage EXCEPT ![d] = IF batch = {} THEN "pulling"
                                                           ELSE "pushing"]
      BY <2>1 DEF Begin
    <2>3. batch = {} => due[d] = {}
      BY BatchTakesSome
    <2>4. signal' \in [Devices -> BOOLEAN]
          /\ \A e \in Devices \ {d} : signal'[e] = signal[e]
      BY <1>8 DEF Signalled, TypeOK
    <2>5. /\ quiet' = [quiet EXCEPT ![d] = {}]
          /\ UNCHANGED <<notifying, queue>>
          /\ stage[d] = "wait"
      BY <2>1 DEF Begin, linkVars
    <2>6. EditsHaveSignal'
      BY <2>2, <2>3, <2>4, <2>5 DEF SignalInv, EditsHaveSignal, TypeOK
    <2>7. QED
      BY <2>2, <2>5, <2>6 DEF SignalInv, TypeOK
  <1>9. ASSUME NEW d \in Devices, PushCommit(d) PROVE SignalInv'
    BY <1>9 DEF PushCommit, SignalInv, EditsHaveSignal, TypeOK, Stages,
       outboxVars, signalVars, cycleVars, newsVars, linkVars, screenVars
  <1>10. ASSUME NEW d \in Devices, PushAnnounce(d) PROVE SignalInv'
    BY <1>10, EnqueueType DEF PushAnnounce, Publish, SignalInv,
       EditsHaveSignal, TypeOK, Stages, outboxVars, signalVars, cycleVars,
       newsVars, linkVars, screenVars
  <1>11. ASSUME NEW d \in Devices, Fetch(d) PROVE SignalInv'
    BY <1>11 DEF Fetch, SignalInv, EditsHaveSignal, TypeOK, Stages,
       outboxVars, signalVars, cycleVars, newsVars, linkVars, screenVars
  <1>12. ASSUME NEW d \in Devices, Apply(d) PROVE SignalInv'
    BY <1>12 DEF Apply, SignalInv, EditsHaveSignal, TypeOK, Stages,
       outboxVars, signalVars, cycleVars, newsVars, linkVars, screenVars
  <1>13. ASSUME NEW d \in Devices, Save(d) PROVE SignalInv'
    BY <1>13, BufferAssumption DEF Save, Status, Room, SignalInv,
       EditsHaveSignal, TypeOK, Stages, outboxVars, signalVars, cycleVars,
       newsVars, linkVars, screenVars
  <1>14. ASSUME NEW d \in Devices, Update(d) PROVE SignalInv'
    BY <1>14, BufferAssumption DEF Update, Room, Unheard, SignalInv,
       EditsHaveSignal, TypeOK, Stages, outboxVars, signalVars, cycleVars,
       newsVars, linkVars, screenVars
  <1>15. ASSUME NEW d \in Devices, Tick(d) PROVE SignalInv'
    <2>1. Begin(d)
      BY <1>15 DEF Tick
    <2>2. PICK batch \in Batches(due[d]) :
            /\ sending' = [sending EXCEPT ![d] = batch]
            /\ due' = [due EXCEPT ![d] = due[d] \ batch]
            /\ stage' = [stage EXCEPT ![d] = IF batch = {} THEN "pulling"
                                                           ELSE "pushing"]
      BY <2>1 DEF Begin
    <2>3. batch = {} => due[d] = {}
      BY BatchTakesSome
    <2>4. signal' \in [Devices -> BOOLEAN]
          /\ \A e \in Devices \ {d} : signal'[e] = signal[e]
      BY <1>15 DEF Tick, TypeOK
    <2>5. /\ quiet' = [quiet EXCEPT ![d] = {}]
          /\ UNCHANGED <<notifying, queue>>
          /\ stage[d] = "wait"
      BY <2>1 DEF Begin, linkVars
    <2>6. EditsHaveSignal'
      BY <2>2, <2>3, <2>4, <2>5 DEF SignalInv, EditsHaveSignal, TypeOK
    <2>7. QED
      BY <2>2, <2>5, <2>6 DEF SignalInv, TypeOK
  <1>16. ASSUME NEW d \in Devices, Skip(d) PROVE SignalInv'
    BY <1>16 DEF Skip, Fault, SignalInv, EditsHaveSignal, TypeOK, Stages,
       outboxVars, signalVars, cycleVars, newsVars, linkVars, screenVars
  <1>17. ASSUME NEW d \in Devices, CycleFails(d) PROVE SignalInv'
    BY <1>17, BufferAssumption DEF CycleFails, Fault, Retried, Dropped,
       Status, Room, Unheard, SignalInv, EditsHaveSignal, TypeOK, Stages,
       outboxVars, signalVars, cycleVars, newsVars, linkVars, screenVars
  <1>18. ASSUME NEW d \in Devices, AnswerLost(d) PROVE SignalInv'
    BY <1>18, EnqueueType DEF AnswerLost, Fault, Publish, Retried, Status,
       Room, SignalInv, EditsHaveSignal, TypeOK, Stages, outboxVars,
       signalVars, cycleVars, newsVars, linkVars, screenVars
  <1>19. ASSUME NEW d \in Devices, Unlink(d) PROVE SignalInv'
    BY <1>19, BufferAssumption DEF Unlink, Fault, SignalInv, EditsHaveSignal,
       TypeOK, Stages, outboxVars, signalVars, cycleVars, newsVars, linkVars,
       screenVars
  <1>20. CASE WebEdit
    BY <1>1, <1>20 DEF WebEdit, EditMade, outboxVars, signalVars, cycleVars,
       newsVars, linkVars, screenVars
  <1>21. CASE SilentWebEdit
    BY <1>1, <1>21 DEF SilentWebEdit, EditMade, outboxVars, signalVars,
       cycleVars, newsVars, linkVars, screenVars
  <1>22. ASSUME NEW d \in Devices, Link(d) PROVE SignalInv'
    BY <1>1, <1>22 DEF Link, outboxVars, signalVars, cycleVars, newsVars,
       linkVars, screenVars
  <1>23. ASSUME NEW d \in Devices, Watch(d) PROVE SignalInv'
    BY <1>1, <1>23 DEF Watch, outboxVars, signalVars, cycleVars, newsVars,
       linkVars, screenVars
  <1>24. ASSUME NEW d \in Devices, Unwatch(d) PROVE SignalInv'
    BY <1>1, <1>24 DEF Unwatch, Fault, outboxVars, signalVars, cycleVars,
       newsVars, linkVars, screenVars
  <1>25. ASSUME NEW d \in Devices, Report(d) PROVE SignalInv'
    BY <1>1, <1>25 DEF Report, Status, Room, outboxVars, signalVars,
       cycleVars, newsVars, linkVars, screenVars
  <1>26. ASSUME NEW d \in Devices, Refetch(d) PROVE SignalInv'
    BY <1>1, <1>26 DEF Refetch, Refetched, outboxVars, signalVars, cycleVars,
       newsVars, linkVars, screenVars
  <1>27. ASSUME NEW d \in Devices, ShowStatus(d) PROVE SignalInv'
    BY <1>1, <1>27 DEF ShowStatus, outboxVars, signalVars, cycleVars,
       newsVars, linkVars, screenVars
  <1>28. ASSUME NEW d \in Devices, Focus(d) PROVE SignalInv'
    BY <1>1, <1>28 DEF Focus, Refetched, outboxVars, signalVars, cycleVars,
       newsVars, linkVars, screenVars
  <1>29. CASE UNCHANGED vars
    BY <1>1, <1>29 DEF vars, outboxVars, signalVars, cycleVars, newsVars,
       linkVars, screenVars
  <1>30. QED
    BY <1>2, <1>3, <1>4, <1>5, <1>6, <1>7, <1>8, <1>9, <1>10, <1>11, <1>12,
       <1>13, <1>14, <1>15, <1>16, <1>17, <1>18, <1>19, <1>20, <1>21, <1>22,
       <1>23, <1>24, <1>25, <1>26, <1>27, <1>28, <1>29 DEF Next, Cycle,
       Failure

(* An entry that a request left due has a wake-up behind it, however many  *)
(* reasons the one-place bus dropped and however small the batches.        *)
THEOREM SignalsNeverLost == Spec => []EditsHaveSignal
  <1>1. Init => SignalInv
    BY DEF Init, SignalInv, EditsHaveSignal, None
  <1>2. TypeOK /\ SignalInv /\ [Next]_vars => SignalInv'
    BY SignalInvKept
  <1>3. SignalInv => EditsHaveSignal
    BY DEF SignalInv
  <1>4. QED
    BY <1>1, <1>2, <1>3, TypeCorrect, PTL DEF Spec

-----------------------------------------------------------------------------
(* Events for the screen                                                   *)

(* A cycle between its commit and its event counts only if it is going to  *)
(* send one: one that changed nothing does not.                            *)
ScreenInv ==
    \A d \in Devices :
        stale[d] =>
            \/ fetched[d] /\ stage[d] \in {"saving", "updating"}
            \/ updates[d] > 0

LEMMA ScreenKept ==
    ASSUME TypeOK, ScreenInv, [Next]_vars
    PROVE  ScreenInv'
  <1>1. CASE UNCHANGED <<stage, fetched, stale, updates>>
    BY <1>1 DEF TypeOK, Stages, ScreenInv
  <1>2. ASSUME NEW d \in Devices, Signalled(d) PROVE ScreenInv'
    BY <1>2 DEF Signalled, Begin, Batches, ScreenInv, TypeOK, Stages,
       outboxVars, signalVars, cycleVars, newsVars, linkVars, screenVars
  <1>3. ASSUME NEW d \in Devices, PushCommit(d) PROVE ScreenInv'
    BY <1>3 DEF PushCommit, ScreenInv, TypeOK, Stages, outboxVars, signalVars,
       cycleVars, newsVars, linkVars, screenVars
  <1>4. ASSUME NEW d \in Devices, PushAnnounce(d) PROVE ScreenInv'
    BY <1>4, EnqueueType DEF PushAnnounce, Publish, ScreenInv, TypeOK, Stages,
       outboxVars, signalVars, cycleVars, newsVars, linkVars, screenVars
  <1>5. ASSUME NEW d \in Devices, Fetch(d) PROVE ScreenInv'
    BY <1>5 DEF Fetch, ScreenInv, TypeOK, Stages, outboxVars, signalVars,
       cycleVars, newsVars, linkVars, screenVars
  <1>6. ASSUME NEW d \in Devices, Apply(d) PROVE ScreenInv'
    BY <1>6 DEF Apply, ScreenInv, TypeOK, Stages, outboxVars, signalVars,
       cycleVars, newsVars, linkVars, screenVars
  <1>7. ASSUME NEW d \in Devices, Save(d) PROVE ScreenInv'
    BY <1>7, BufferAssumption DEF Save, Status, Room, ScreenInv, TypeOK,
       Stages, outboxVars, signalVars, cycleVars, newsVars, linkVars,
       screenVars
  <1>8. ASSUME NEW d \in Devices, Update(d) PROVE ScreenInv'
    <2>1. CASE Room(d)
      BY <1>8, <2>1 DEF Update, TypeOK, ScreenInv, Stages
    <2>2. CASE ~Room(d)
      BY <1>8, <2>2 DEF Update, Unheard, TypeOK, ScreenInv, Stages
    <2>3. QED
      BY <2>1, <2>2
  <1>9. ASSUME NEW d \in Devices, Tick(d) PROVE ScreenInv'
    BY <1>9 DEF Tick, Begin, Batches, ScreenInv, TypeOK, Stages, outboxVars,
       signalVars, cycleVars, newsVars, linkVars, screenVars
  <1>10. ASSUME NEW d \in Devices, CycleFails(d) PROVE ScreenInv'
    BY <1>10, BufferAssumption DEF CycleFails, Fault, Retried, Dropped,
       Status, Room, Unheard, ScreenInv, TypeOK, Stages, outboxVars,
       signalVars, cycleVars, newsVars, linkVars, screenVars
  <1>11. ASSUME NEW d \in Devices, AnswerLost(d) PROVE ScreenInv'
    BY <1>11, EnqueueType DEF AnswerLost, Fault, Publish, Retried, Status,
       Room, ScreenInv, TypeOK, Stages, outboxVars, signalVars, cycleVars,
       newsVars, linkVars, screenVars
  <1>12. ASSUME NEW d \in Devices, Unwatch(d) PROVE ScreenInv'
    BY <1>12, BufferAssumption DEF Unwatch, Fault, ScreenInv, TypeOK, Stages,
       outboxVars, signalVars, cycleVars, newsVars, linkVars, screenVars
  <1>13. ASSUME NEW d \in Devices, Refetch(d) PROVE ScreenInv'
    BY <1>13, BufferAssumption DEF Refetch, Refetched, ScreenInv, TypeOK,
       Stages, outboxVars, signalVars, cycleVars, newsVars, linkVars,
       screenVars
  <1>14. ASSUME NEW d \in Devices, Focus(d) PROVE ScreenInv'
    BY <1>14 DEF Focus, Refetched, ScreenInv, TypeOK, Stages, outboxVars,
       signalVars, cycleVars, newsVars, linkVars, screenVars
  <1>15. CASE WebEdit
    BY <1>1, <1>15 DEF WebEdit, EditMade, outboxVars, signalVars, cycleVars,
       newsVars, linkVars, screenVars
  <1>16. CASE WebAnnounce
    BY <1>1, <1>16 DEF WebAnnounce, Publish, outboxVars, signalVars,
       cycleVars, newsVars, linkVars, screenVars
  <1>17. CASE SilentWebEdit
    BY <1>1, <1>17 DEF SilentWebEdit, EditMade, outboxVars, signalVars,
       cycleVars, newsVars, linkVars, screenVars
  <1>18. ASSUME NEW d \in Devices, NEW r \in Rows, LocalEdit(d, r)
        PROVE  ScreenInv'
    BY <1>1, <1>18 DEF LocalEdit, EditMade, Queued, outboxVars, signalVars,
       cycleVars, newsVars, linkVars, screenVars
  <1>19. ASSUME NEW d \in Devices, NEW r \in Rows, SilentEdit(d, r)
        PROVE  ScreenInv'
    BY <1>1, <1>19 DEF SilentEdit, EditMade, Queued, outboxVars, signalVars,
       cycleVars, newsVars, linkVars, screenVars
  <1>20. ASSUME NEW d \in Devices, Notify(d) PROVE ScreenInv'
    BY <1>1, <1>20 DEF Notify, outboxVars, signalVars, cycleVars, newsVars,
       linkVars, screenVars
  <1>21. ASSUME NEW d \in Devices, Due(d) PROVE ScreenInv'
    BY <1>1, <1>21 DEF Due, outboxVars, signalVars, cycleVars, newsVars,
       linkVars, screenVars
  <1>22. ASSUME NEW d \in Devices, Receive(d) PROVE ScreenInv'
    BY <1>1, <1>22 DEF Receive, outboxVars, signalVars, cycleVars, newsVars,
       linkVars, screenVars
  <1>23. ASSUME NEW d \in Devices, Skip(d) PROVE ScreenInv'
    BY <1>1, <1>23 DEF Skip, Fault, outboxVars, signalVars, cycleVars,
       newsVars, linkVars, screenVars
  <1>24. ASSUME NEW d \in Devices, Link(d) PROVE ScreenInv'
    BY <1>1, <1>24 DEF Link, outboxVars, signalVars, cycleVars, newsVars,
       linkVars, screenVars
  <1>25. ASSUME NEW d \in Devices, Watch(d) PROVE ScreenInv'
    BY <1>1, <1>25 DEF Watch, outboxVars, signalVars, cycleVars, newsVars,
       linkVars, screenVars
  <1>26. ASSUME NEW d \in Devices, Unlink(d) PROVE ScreenInv'
    BY <1>1, <1>26 DEF Unlink, Fault, outboxVars, signalVars, cycleVars,
       newsVars, linkVars, screenVars
  <1>27. ASSUME NEW d \in Devices, Report(d) PROVE ScreenInv'
    BY <1>1, <1>27 DEF Report, Status, Room, outboxVars, signalVars,
       cycleVars, newsVars, linkVars, screenVars
  <1>28. ASSUME NEW d \in Devices, ShowStatus(d) PROVE ScreenInv'
    BY <1>1, <1>28 DEF ShowStatus, outboxVars, signalVars, cycleVars,
       newsVars, linkVars, screenVars
  <1>29. CASE UNCHANGED vars
    BY <1>1, <1>29 DEF vars, outboxVars, signalVars, cycleVars, newsVars,
       linkVars, screenVars
  <1>30. QED
    BY <1>2, <1>3, <1>4, <1>5, <1>6, <1>7, <1>8, <1>9, <1>10, <1>11, <1>12,
       <1>13, <1>14, <1>15, <1>16, <1>17, <1>18, <1>19, <1>20, <1>21, <1>22,
       <1>23, <1>24, <1>25, <1>26, <1>27, <1>28, <1>29 DEF Next, Cycle,
       Failure

(* A screen that shows less than its store holds has a sync_updated on its *)
(* way, unless its event was lost or there was none to send.               *)
THEOREM ScreensHear == Spec => []ScreenWillHear
  <1>1. Init => ScreenInv
    BY DEF Init, ScreenInv, No
  <1>2. TypeOK /\ ScreenInv /\ [Next]_vars => ScreenInv'
    BY ScreenKept
  <1>3. ScreenInv => ScreenWillHear
    BY DEF ScreenInv, ScreenWillHear
  <1>4. QED
    BY <1>1, <1>2, <1>3, TypeCorrect, PTL DEF Spec

=============================================================================
