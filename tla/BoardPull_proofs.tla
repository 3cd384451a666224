-------------------------- MODULE BoardPull_proofs --------------------------
(***************************************************************************)
(* Proofs about BoardPull for any boards and any number of edits.          *)
(***************************************************************************)
EXTENDS BoardPull, TLAPS

Copy == [stamp : Nat, dead : BOOLEAN]

LEMMA MergeRow ==
    ASSUME NEW store \in Copies, NEW incoming \in Copies
    PROVE  /\ Merge(store, incoming) \in Copies
           /\ \A row \in Rows :
                Merge(store, incoming)[row] =
                  IF incoming[row].stamp > store[row].stamp
                  THEN incoming[row] ELSE store[row]
  BY DEF Merge, Copies

LEMMA NoCopiesRow ==
    NoCopies \in Copies /\ \A row \in Rows : NoCopies[row] = Absent
  BY DEF NoCopies, Copies, Absent

(* The cloud's rows are as old as the clock says, and so are the ones on   *)
(* their way to it.                                                        *)
InTime ==
    \A row \in Rows :
        /\ cloud[row].stamp <= clock /\ pending[row] <= clock
        /\ cloud[row].stamp = 0 => cloud[row] = Absent

(* `copies` are rows the cloud has or had.                                 *)
Past(copies) ==
    \A row \in Rows :
        /\ copies[row].stamp <= cloud[row].stamp
        /\ copies[row].stamp = cloud[row].stamp => copies[row] = cloud[row]

(* The cloud's rows change only to younger ones.                           *)
CloudAdvances ==
    \A row \in Rows :
        cloud'[row] = cloud[row] \/ cloud[row].stamp < cloud'[row].stamp

IInv == TypeOK /\ InTime /\ Past(local) /\ Past(answer)

LEMMA PastKept ==
    ASSUME TypeOK, TypeOK', CloudAdvances, NEW copies \in Copies, Past(copies)
    PROVE  Past(copies)'
  <1> SUFFICES ASSUME NEW row \in Rows
               PROVE  /\ copies[row].stamp <= cloud'[row].stamp
                      /\ copies[row].stamp = cloud'[row].stamp =>
                           copies[row] = cloud'[row]
    BY DEF Past
  <1>1. /\ copies[row].stamp \in Nat /\ cloud[row].stamp \in Nat
        /\ cloud'[row].stamp \in Nat
    BY DEF TypeOK, Copies
  <1>2. cloud'[row] = cloud[row] \/ cloud[row].stamp < cloud'[row].stamp
    BY DEF CloudAdvances
  <1>3. /\ copies[row].stamp <= cloud[row].stamp
        /\ copies[row].stamp = cloud[row].stamp => copies[row] = cloud[row]
    BY DEF Past
  <1>4. QED
    BY <1>1, <1>2, <1>3

(* A step of the cloud: its rows change, the device does not.              *)
LEMMA CloudStep ==
    ASSUME IInv, UNCHANGED deviceVars, TypeOK', InTime', CloudAdvances
    PROVE  IInv'
  <1>1. local \in Copies /\ answer \in Copies
    BY DEF IInv, TypeOK
  <1>2. Past(local)' /\ Past(answer)'
    BY <1>1, PastKept DEF IInv, deviceVars, Past
  <1>3. QED
    BY <1>2 DEF IInv

(* A row, or the rows of a board, stamped with the next instant.           *)
LEMMA StampStep ==
    ASSUME IInv, UNCHANGED deviceVars, Tick, pending' = pending,
           cloud' \in Copies,
           \A row \in Rows :
             cloud'[row] = cloud[row] \/ cloud'[row].stamp = clock + 1
    PROVE  IInv'
  <1>0. /\ clock \in Nat /\ clock' = clock + 1
        /\ \A row \in Rows : /\ cloud[row].stamp \in Nat
                             /\ cloud[row].stamp <= clock
                             /\ pending[row] \in Nat /\ pending[row] <= clock
                             /\ cloud[row].stamp = 0 => cloud[row] = Absent
    BY DEF IInv, TypeOK, InTime, Copies, Tick
  <1>1. TypeOK'
    BY <1>0 DEF IInv, TypeOK, deviceVars
  <1>2. InTime' /\ CloudAdvances
    BY <1>0 DEF InTime, CloudAdvances
  <1>3. QED
    BY <1>1, <1>2, CloudStep

LEMMA InitInvariant == Init => IInv
  BY NoCopiesRow DEF Init, IInv, TypeOK, InTime, Past, Stages, Absent

LEMMA InvariantKept == IInv /\ [Next]_vars => IInv'
  <1> SUFFICES ASSUME IInv, [Next]_vars PROVE IInv'
    OBVIOUS
  <1>0. /\ cloud \in Copies /\ local \in Copies /\ answer \in Copies
        /\ clock \in Nat /\ cursor \in Nat /\ until \in Nat
        /\ pending \in [Rows -> Nat]
        /\ \A row \in Rows :
             /\ pending[row] \in Nat
             /\ cloud[row] \in Copy /\ cloud[row].stamp \in Nat
             /\ local[row] \in Copy /\ answer[row] \in Copy
    BY DEF IInv, TypeOK, Copies, Copy
  <1>1. ASSUME NEW row \in Rows, WebSave(row)
        PROVE  IInv'
    <2>1. /\ UNCHANGED <<pending, deviceVars>> /\ Tick
          /\ cloud' = [cloud EXCEPT ![row] = Stamped]
      BY <1>1 DEF WebSave
    <2>2. Stamped \in Copy /\ Stamped.stamp = clock + 1
      BY <1>0 DEF Stamped, Copy
    <2>3. cloud' \in Copies
      BY <1>0, <2>1, <2>2 DEF Copies, Copy
    <2>4. \A x \in Rows :
            cloud'[x] = cloud[x] \/ cloud'[x].stamp = clock + 1
      BY <1>0, <2>1, <2>2 DEF Copies
    <2>5. QED
      BY <2>1, <2>3, <2>4, StampStep
  <1>2. ASSUME NEW row \in Rows, WebDelete(row)
        PROVE  IInv'
    <2> DEFINE dead == [stamp |-> clock + 1, dead |-> TRUE]
    <2>1. /\ UNCHANGED <<pending, deviceVars>> /\ Tick
          /\ cloud' = [cloud EXCEPT ![row] = dead]
      BY <1>2 DEF WebDelete
    <2>2. dead \in Copy /\ dead.stamp = clock + 1
      BY <1>0 DEF Copy
    <2> HIDE DEF dead
    <2>3. cloud' \in Copies
      BY <1>0, <2>1, <2>2 DEF Copies, Copy
    <2>4. \A x \in Rows :
            cloud'[x] = cloud[x] \/ cloud'[x].stamp = clock + 1
      BY <1>0, <2>1, <2>2 DEF Copies
    <2>5. QED
      BY <2>1, <2>3, <2>4, StampStep
  <1>3. ASSUME NEW row \in Rows, OfflineSave(row)
        PROVE  IInv'
    <2>1. /\ clock' = clock + 1 /\ UNCHANGED <<cloud, deviceVars>>
          /\ pending' = [pending EXCEPT ![row] = clock + 1]
      BY <1>3 DEF OfflineSave, Tick
    <2>2. TypeOK'
      BY <1>0, <2>1 DEF IInv, TypeOK, deviceVars
    <2>3. \A x \in Rows : /\ pending'[x] <= clock'
                          /\ cloud[x].stamp <= clock'
                          /\ cloud[x].stamp = 0 => cloud[x] = Absent
      BY <1>0, <2>1 DEF IInv, InTime
    <2>4. InTime' /\ CloudAdvances
      BY <2>1, <2>3 DEF InTime, CloudAdvances
    <2>5. QED
      BY <2>1, <2>2, <2>4, CloudStep
  <1>4. ASSUME NEW b \in Boards, WebDeleteBoard(b)
        PROVE  IInv'
    <2>1. /\ UNCHANGED <<pending, deviceVars>> /\ Tick /\ cloud' = Cascade(b)
      BY <1>4 DEF WebDeleteBoard
    <2> DEFINE dead == [stamp |-> clock + 1, dead |-> TRUE]
    <2>2. dead \in Copy /\ dead.stamp = clock + 1
      BY <1>0 DEF Copy
    <2>3. cloud' = [x \in Rows |-> IF x[2] = b /\ Live(cloud, x)
                                   THEN dead ELSE cloud[x]]
      BY <2>1 DEF Cascade
    <2> HIDE DEF dead
    <2>4. cloud' \in Copies
      BY <1>0, <2>2, <2>3 DEF Copies, Copy
    <2>5. \A x \in Rows :
            cloud'[x] = cloud[x] \/ cloud'[x].stamp = clock + 1
      BY <2>2, <2>3
    <2>6. QED
      BY <2>1, <2>4, <2>5, StampStep
  <1>5. ASSUME NEW batch \in SUBSET Rows, Push(batch)
        PROVE  IInv'
    <2> DEFINE incoming == [row \in Rows |->
                   IF row \in batch
                   THEN [stamp |-> pending[row], dead |-> FALSE]
                   ELSE Absent]
    <2>1. /\ cloud' = Merge(cloud, incoming)
          /\ pending' = [row \in Rows |->
                           IF row \in batch THEN 0 ELSE pending[row]]
          /\ UNCHANGED <<clock, deviceVars>>
      BY <1>5 DEF Push
    <2>2. /\ incoming \in Copies
          /\ \A x \in Rows : /\ incoming[x].stamp \in Nat
                             /\ incoming[x].stamp <= clock
      BY <1>0 DEF Copies, Absent, IInv, InTime
    <2> HIDE DEF incoming
    <2>3. /\ cloud' \in Copies
          /\ \A x \in Rows :
               \/ cloud'[x] = cloud[x]
               \/ /\ cloud'[x] = incoming[x]
                  /\ cloud[x].stamp < incoming[x].stamp
      BY <1>0, <2>1, <2>2, MergeRow
    <2>4. TypeOK'
      BY <1>0, <2>1, <2>3 DEF IInv, TypeOK, deviceVars
    <2>5. \A x \in Rows : pending'[x] <= clock
      BY <1>0, <2>1 DEF IInv, InTime
    <2>6. InTime' /\ CloudAdvances
      BY <1>0, <2>1, <2>2, <2>3, <2>5 DEF IInv, InTime, CloudAdvances
    <2>7. QED
      BY <2>1, <2>4, <2>6, CloudStep
  <1>6. CASE BeginPull \/ Refuse
    <2>1. /\ answer' = NoCopies /\ UNCHANGED <<cloudVars, local, cursor>>
          /\ stage' \in Stages /\ until' \in Nat
      BY <1>0, <1>6 DEF BeginPull, Refuse, Stages
    <2>2. Past(NoCopies)
      BY <1>0, NoCopiesRow DEF IInv, InTime, Past, Absent
    <2>3. QED
      BY <1>0, <2>1, <2>2, NoCopiesRow
         DEF IInv, TypeOK, InTime, Past, cloudVars
  <1>7. CASE ReadTable
    <2>1. /\ UNCHANGED <<cloudVars, local, cursor, until>>
          /\ answer' = [row \in Rows |-> IF row[1] = stage /\ Selected(row)
                                         THEN cloud[row] ELSE answer[row]]
      BY <1>7 DEF ReadTable
    <2>2. stage' \in Stages
      BY <1>7 DEF ReadTable, Kinds, NextStage, Stages
    <2>3. answer' \in Copies
      BY <1>0, <2>1 DEF Copies, Copy
    <2>4. \A x \in Rows : answer'[x] = cloud[x] \/ answer'[x] = answer[x]
      BY <2>1
    <2>5. Past(answer')
      BY <1>0, <2>4 DEF IInv, Past
    <2>6. QED
      BY <2>1, <2>2, <2>3, <2>5 DEF IInv, TypeOK, InTime, Past, cloudVars
  <1>8. CASE Apply
    <2>1. /\ local' = Merge(local, answer) /\ answer' = NoCopies
          /\ UNCHANGED <<cloudVars, until>>
          /\ cursor' \in Nat /\ stage' \in Stages
      BY <1>0, <1>8 DEF Apply, Stages
    <2>2. /\ local' \in Copies
          /\ \A x \in Rows : local'[x] = local[x] \/ local'[x] = answer[x]
      BY <1>0, <2>1, MergeRow
    <2>3. Past(local')
      BY <2>2 DEF IInv, Past
    <2>4. Past(NoCopies)
      BY <1>0, NoCopiesRow DEF IInv, InTime, Past, Absent
    <2>5. QED
      BY <1>0, <2>1, <2>2, <2>3, <2>4, NoCopiesRow
         DEF IInv, TypeOK, InTime, Past, cloudVars
  <1>9. CASE UNCHANGED vars
    BY <1>9 DEF vars, cloudVars, deviceVars, IInv, TypeOK, InTime, Past
  <1>10. QED
    BY <1>1, <1>2, <1>3, <1>4, <1>5, <1>6, <1>7, <1>8, <1>9
       DEF Next, PullStep

(* A device never holds a row newer than the cloud's, nor at one stamp a   *)
(* different one, although PullChanges reads its tables one by one while   *)
(* others write them (applyPulledChanges).                                 *)
THEOREM CopiesArePast == Spec => []LocalIsPastCloud
  <1>1. IInv => LocalIsPastCloud
    BY DEF IInv, Past, LocalIsPastCloud
  <1>2. QED
    BY <1>1, InitInvariant, InvariantKept, PTL DEF Spec

=============================================================================
