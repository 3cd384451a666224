------------------------ MODULE RemoteSession_proofs ------------------------
(***************************************************************************)
(* Proofs about RemoteSession for every set of users and goroutines, every *)
(* length of the run and any number of failures.                           *)
(***************************************************************************)
EXTENDS RemoteSession, TLAPS

LEMMA NoTokenIsNone == NoToken \notin Tokens
  BY UserAssumption DEF NoToken, Tokens

LEMMA TokenOfUser ==
    ASSUME NEW u \in Users, NEW t \in Nat
    PROVE  [user |-> u, at |-> t] \in Tokens
  BY DEF Tokens

LEMMA UserOfToken == \A t \in Tokens : t.user \in Users
  BY DEF Tokens

LEMMA FreshIsToken ==
    ASSUME now \in Nat, NEW u \in Users
    PROVE  Fresh(u) \in Tokens /\ Fresh(u).user = u
  BY TokenOfUser DEF Fresh

-----------------------------------------------------------------------------
(* Type correctness                                                        *)

HoldsToken == \A p \in Processes : pc[p] # "idle" => held[p] \in Tokens

TypeInv == TypeOK /\ HoldsToken

LEMMA GotoType ==
    ASSUME TypeInv, NEW p \in Processes, NEW stage \in Stages,
           NEW token \in Tokens, Goto(p, stage, token)
    PROVE  /\ pc' \in [Processes -> Stages]
           /\ held' \in [Processes -> Tokens \cup {NoToken}]
           /\ HoldsToken'
  BY DEF TypeInv, TypeOK, HoldsToken, Goto

LEMMA FinishType ==
    ASSUME TypeInv, NEW p \in Processes, Finish(p)
    PROVE  /\ pc' \in [Processes -> Stages]
           /\ held' \in [Processes -> Tokens \cup {NoToken}]
           /\ HoldsToken'
  BY DEF TypeInv, TypeOK, HoldsToken, Finish, Goto, Stages

LEMMA StartType ==
    ASSUME TypeInv, NEW p \in Processes, NEW stage \in Stages,
           NEW token \in Tokens, NEW improper \in BOOLEAN,
           Start(p, stage, token, improper)
    PROVE  /\ pc' \in [Processes -> Stages]
           /\ held' \in [Processes -> Tokens \cup {NoToken}]
           /\ HoldsToken'
           /\ disturbed' \in BOOLEAN
  <1>1. Goto(p, stage, token)
    BY DEF Start
  <1>2. disturbed' \in BOOLEAN
    BY DEF Start, TypeInv, TypeOK
  <1>3. QED
    BY <1>1, <1>2, GotoType

LEMMA StepKeepsTypes ==
    ASSUME TypeInv, NEW p \in Processes, Step(p)
    PROVE  TypeInv'
  <1>1. /\ {"rotating", "refused", "answered", "persisting"} \subseteq Stages
        /\ now \in Nat
        /\ pc[p] # "idle" => held[p] \in Tokens /\ held[p].user \in Users
    BY UserOfToken DEF Stages, TypeInv, TypeOK, HoldsToken
  <1>2. CASE Check(p)
    <2>1. held[p] \in Tokens
      BY <1>1, <1>2 DEF Check
    <2>2. HoldsToken' /\ pc' \in [Processes -> Stages]
             /\ held' \in [Processes -> Tokens \cup {NoToken}]
      BY <1>1, <1>2, <2>1, GotoType DEF Check
    <2>3. QED
      BY <1>2, <2>2 DEF Check, TypeInv, TypeOK, serverVars
  <1>3. CASE Rotate(p)
    <2>1. /\ Fresh(held[p].user) \in Tokens
          /\ held[p] \in Tokens
      BY <1>1, <1>3, FreshIsToken DEF Rotate
    <2>2. valid' \in SUBSET Tokens /\ revoked' \in SUBSET Tokens
      BY <1>3, <2>1 DEF Rotate, serverVars, TypeInv, TypeOK
    <2>3. HoldsToken' /\ pc' \in [Processes -> Stages]
             /\ held' \in [Processes -> Tokens \cup {NoToken}]
      BY <1>1, <1>3, <2>1, GotoType, FinishType DEF Rotate
    <2>4. QED
      BY <1>3, <2>2, <2>3 DEF Rotate, TypeInv, TypeOK
  <1>4. CASE IssueToken(p)
    <2>1. Fresh(held[p].user) \in Tokens
      BY <1>1, <1>4, FreshIsToken DEF IssueToken
    <2>2. valid' \in SUBSET Tokens
      BY <1>4, <2>1 DEF IssueToken, TypeInv, TypeOK
    <2>3. HoldsToken' /\ pc' \in [Processes -> Stages]
             /\ held' \in [Processes -> Tokens \cup {NoToken}]
      BY <1>1, <1>4, <2>1, GotoType, FinishType DEF IssueToken
    <2>4. QED
      BY <1>4, <2>2, <2>3 DEF IssueToken, TypeInv, TypeOK
  <1>5. CASE Refused(p)
    BY <1>5, FinishType DEF Refused, TypeInv, TypeOK, serverVars
  <1>6. CASE Install(p)
    <2>1. HoldsToken' /\ pc' \in [Processes -> Stages]
             /\ held' \in [Processes -> Tokens \cup {NoToken}]
      BY <1>1, <1>6, GotoType DEF Install
    <2>2. QED
      BY <1>1, <1>6, <2>1 DEF Install, TypeInv, TypeOK, serverVars
  <1>7. CASE Persist(p)
    BY <1>1, <1>7, FinishType DEF Persist, TypeInv, TypeOK, serverVars
  <1>8. CASE Restore(p)
    BY <1>1, <1>8, FinishType DEF Restore, TypeInv, TypeOK, serverVars
  <1>9. QED
    BY <1>2, <1>3, <1>4, <1>5, <1>6, <1>7, <1>8 DEF Step

LEMMA FaultType ==
    ASSUME TypeInv, Fault
    PROVE  faults' \in Nat
  BY DEF Fault, TypeInv, TypeOK

LEMMA NextKeepsTypes == TypeInv /\ [Next]_vars => TypeInv'
  <1>. SUFFICES ASSUME TypeInv, [Next]_vars
                PROVE  TypeInv'
    OBVIOUS
  <1>. USE DEF TypeInv, TypeOK, serverVars
  <1>1. CASE Tick
    BY <1>1 DEF Tick, HoldsToken, processVars
  <1>2. ASSUME NEW p \in Processes, Step(p)
        PROVE  TypeInv'
    BY <1>2, StepKeepsTypes
  <1>3. ASSUME NEW p \in Processes, AnswerLost(p)
        PROVE  TypeInv'
    BY <1>3, FinishType, FaultType DEF AnswerLost
  <1>4. ASSUME NEW p \in Processes, PersistFails(p)
        PROVE  TypeInv'
    BY <1>4, FinishType, FaultType DEF PersistFails
  <1>5. ASSUME NEW p \in Refreshers, Refresh(p)
        PROVE  TypeInv'
    <2>1. p \in Processes /\ "asking" \in Stages /\ memory \in Tokens
      BY <1>5 DEF Refresh, Processes, Stages
    <2>2. QED
      BY <1>5, <2>1, StartType DEF Refresh
  <1>6. ASSUME NEW p \in Refreshers, LoadPersisted(p)
        PROVE  TypeInv'
    <2>1. p \in Processes /\ "loaded" \in Stages /\ disk \in Tokens
      BY <1>6 DEF LoadPersisted, Processes, Stages
    <2>2. QED
      BY <1>6, <2>1, StartType DEF LoadPersisted
  <1>7. ASSUME NEW p \in Logins, NEW u \in Users, Login(p, u)
        PROVE  TypeInv'
    <2>1. p \in Processes /\ "login" \in Stages
            /\ [user |-> u, at |-> 0] \in Tokens
      BY TokenOfUser DEF Processes, Stages
    <2>2. QED
      BY <1>7, <2>1, StartType DEF Login
  <1>12. ASSUME NEW p \in Logins, RestoreRequest(p)
         PROVE  TypeInv'
    <2>1. p \in Processes /\ "loaded" \in Stages /\ disk \in Tokens
      BY <1>12 DEF RestoreRequest, Processes, Stages
    <2>2. QED
      BY <1>12, <2>1, StartType DEF RestoreRequest
  <1>13. ASSUME NEW p \in Logins, NEW token \in valid \cup revoked,
                RestoreSupplied(p, token)
         PROVE  TypeInv'
    <2>1. p \in Processes /\ "supplied" \in Stages /\ token \in Tokens
      BY DEF Processes, Stages
    <2>2. (~Usable(token)) \in BOOLEAN
      BY DEF Usable
    <2>3. QED
      BY <1>13, <2>1, <2>2, StartType DEF RestoreSupplied
  <1>8. CASE Logout
    BY <1>8 DEF Logout, HoldsToken, processVars
  <1>9. CASE Crash
    BY <1>9, FaultType DEF Crash, HoldsToken, Stages
  <1>10. CASE UNCHANGED vars
    BY <1>10 DEF vars, HoldsToken, processVars
  <1>11. QED
    BY <1>1, <1>2, <1>3, <1>4, <1>5, <1>6, <1>7, <1>8, <1>9, <1>10,
       <1>12, <1>13
       DEF Next, Wake

LEMMA InitTypes == Init => TypeInv
  <1>. SUFFICES ASSUME Init PROVE TypeInv
    OBVIOUS
  <1>1. pc \in [Processes -> Stages] /\ HoldsToken
    BY DEF Init, HoldsToken, Stages
  <1>2. held \in [Processes -> Tokens \cup {NoToken}]
    BY DEF Init
  <1>3. disturbed \in BOOLEAN
    BY DEF Init
  <1>4. QED
    BY <1>1, <1>2, <1>3 DEF Init, TypeInv, TypeOK

(* The variables always have their types; in particular what a goroutine   *)
(* holds is a token of a real user or nothing, at every stage of a         *)
(* refresh, a login, a restore or a failure of one of them.                *)
THEOREM TypeCorrect == Spec => []TypeOK
  <1>1. Init => TypeInv
    BY InitTypes
  <1>2. TypeInv => TypeOK
    BY DEF TypeInv
  <1>3. QED
    BY <1>1, <1>2, NextKeepsTypes, PTL DEF Spec

-----------------------------------------------------------------------------
(* The session between operations.  As long as nothing was disturbed at    *)
(* most one goroutine is busy, and what memory and disk hold is known at   *)
(* each of its stages.                                                     *)

Carrying == {"answered", "persisting"}

Good ==
    /\ disk # NoToken => Usable(disk)
    /\ memory # NoToken => memory = disk

OneBusy == \A p, q \in Busy : p = q

StageOK(p) ==
    /\ pc[p] # "refused"
    /\ pc[p] = "loaded" => held[p] = disk /\ disk # NoToken
    /\ pc[p] \in {"asking", "rotating"} =>
            held[p] = memory /\ memory # NoToken
    /\ pc[p] = "login" => held[p].user = wanted
    /\ pc[p] \in Carrying \cup {"supplied"} => Usable(held[p])
    /\ pc[p] = "persisting" => memory = held[p]

SessionInv ==
    ~disturbed =>
        /\ OneBusy
        /\ \A p \in Processes : StageOK(p)
        /\ (\A p \in Processes : pc[p] \notin Carrying) => Good

LEMMA SessionInvImplies == TypeOK /\ SessionInv => SessionUsable
  BY DEF TypeOK, SessionInv, SessionUsable, Busy, Good, Carrying

(* An undisturbed goroutine that is under way is alone.                    *)
LEMMA Alone ==
    ASSUME SessionInv, ~disturbed, NEW p \in Processes, pc[p] # "idle"
    PROVE  \A q \in Processes : q # p => pc[q] = "idle"
  BY DEF SessionInv, OneBusy, Busy

(* It goes back to idle and leaves a good session ...                      *)
LEMMA FinishRestores ==
    ASSUME TypeInv, NEW p \in Processes, Finish(p), Good',
           \A q \in Processes : q # p => pc[q] = "idle"
    PROVE  SessionInv'
  <1>1. \A q \in Processes : pc'[q] = "idle"
    BY DEF Finish, Goto, TypeInv, TypeOK
  <1>2. OneBusy' /\ \A q \in Processes : StageOK(q)'
    BY <1>1 DEF OneBusy, Busy, StageOK, Carrying
  <1>3. QED
    BY <1>2 DEF SessionInv

(* ... or to a stage that is in order, with a good session if it needs it. *)
LEMMA GotoRestores ==
    ASSUME TypeInv, NEW p \in Processes, NEW stage, NEW token,
           Goto(p, stage, token), StageOK(p)', stage \notin Carrying => Good',
           \A q \in Processes : q # p => pc[q] = "idle"
    PROVE  SessionInv'
  <1>1. /\ pc'[p] = stage
        /\ \A q \in Processes : q # p => pc'[q] = "idle"
    BY DEF Goto, TypeInv, TypeOK
  <1>2. OneBusy'
    BY <1>1 DEF OneBusy, Busy
  <1>3. \A q \in Processes : StageOK(q)'
    BY <1>1 DEF StageOK, Carrying
  <1>4. QED
    BY <1>1, <1>2, <1>3 DEF SessionInv

LEMMA StepKeepsSession ==
    ASSUME TypeInv, SessionInv, ~disturbed', NEW p \in Processes, Step(p)
    PROVE  SessionInv'
  <1>1. ~disturbed /\ pc[p] # "idle"
    BY DEF Step, Check, Rotate, IssueToken, Refused, Install, Persist, Restore
  <1>2. \A q \in Processes : q # p => pc[q] = "idle"
    BY <1>1, Alone
  <1>3. StageOK(p) /\ (pc[p] \notin Carrying => Good)
    BY <1>1, <1>2 DEF SessionInv, Carrying
  <1>4. now \in Nat /\ held[p] \in Tokens /\ held[p].user \in Users
    BY <1>1, UserOfToken DEF TypeInv, TypeOK, HoldsToken
  <1>5. CASE Check(p)
    <2>1. held[p] = memory /\ memory # NoToken /\ Good
      BY <1>3, <1>5 DEF Check, StageOK, Carrying
    <2>2. held[p] \in valid
      BY <2>1 DEF Good, Usable
    <2>3. Goto(p, "rotating", held[p]) /\ Good'
      BY <1>5, <2>1, <2>2 DEF Check, Good, Usable, serverVars
    <2>4. StageOK(p)'
      BY <1>5, <2>1, <2>3 DEF Goto, StageOK, Carrying, TypeInv, TypeOK, Check
    <2>5. QED
      BY <1>2, <2>3, <2>4, GotoRestores
  <1>6. CASE Rotate(p)
    <2>1. Good /\ held[p] = memory /\ memory # NoToken
      BY <1>3, <1>6 DEF Rotate, StageOK, Carrying
    <2>2. CASE CanIssue(held[p].user)
      <3>1. held[p].user = wanted
        BY <2>1 DEF Good, Usable
      <3>2. Goto(p, "answered", Fresh(held[p].user))
              /\ Fresh(held[p].user) \in valid' /\ wanted' = wanted
        BY <1>6, <2>2 DEF Rotate
      <3>3. StageOK(p)'
        <4>1. Fresh(held[p].user).user = wanted
          BY <1>4, <3>1, FreshIsToken
        <4>2. pc'[p] = "answered" /\ held'[p] = Fresh(held[p].user)
          BY <3>2 DEF Goto, TypeInv, TypeOK
        <4>3. QED
          BY <3>2, <4>1, <4>2 DEF StageOK, Carrying, Usable
      <3>4. QED
        BY <1>2, <3>2, <3>3, GotoRestores DEF Carrying
    <2>3. CASE ~CanIssue(held[p].user)
      <3>1. Finish(p) /\ Good'
        BY <1>6, <2>1, <2>3 DEF Rotate, Good, Usable, serverVars
      <3>2. QED
        BY <1>2, <3>1, FinishRestores
    <2>4. QED
      BY <2>2, <2>3
  <1>7. CASE IssueToken(p)
    <2>1. Good /\ held[p].user = wanted
      BY <1>3, <1>7 DEF IssueToken, StageOK, Carrying
    <2>2. CASE CanIssue(held[p].user)
      <3>1. Goto(p, "answered", Fresh(held[p].user))
              /\ Fresh(held[p].user) \in valid' /\ wanted' = wanted
        BY <1>7, <2>2 DEF IssueToken
      <3>2. StageOK(p)'
        <4>1. Fresh(held[p].user).user = wanted
          BY <1>4, <2>1, FreshIsToken
        <4>2. pc'[p] = "answered" /\ held'[p] = Fresh(held[p].user)
          BY <3>1 DEF Goto, TypeInv, TypeOK
        <4>3. QED
          BY <3>1, <4>1, <4>2 DEF StageOK, Carrying, Usable
      <3>3. QED
        BY <1>2, <3>1, <3>2, GotoRestores DEF Carrying
    <2>3. CASE ~CanIssue(held[p].user)
      <3>1. Finish(p) /\ Good'
        BY <1>7, <2>1, <2>3 DEF IssueToken, Good, Usable
      <3>2. QED
        BY <1>2, <3>1, FinishRestores
    <2>4. QED
      BY <2>2, <2>3
  <1>8. CASE Refused(p)
    BY <1>3, <1>8 DEF Refused, StageOK
  <1>9. CASE Install(p)
    <2>1. Usable(held[p])
      BY <1>3, <1>9 DEF Install, StageOK, Carrying
    <2>2. Goto(p, "persisting", held[p]) /\ memory' = held[p]
            /\ valid' = valid /\ wanted' = wanted
      BY <1>9 DEF Install, serverVars
    <2>3. pc'[p] = "persisting" /\ held'[p] = held[p]
      BY <2>2 DEF Goto, TypeInv, TypeOK
    <2>4. StageOK(p)'
      BY <2>1, <2>2, <2>3 DEF StageOK, Carrying, Usable
    <2>5. QED
      BY <1>2, <2>2, <2>4, GotoRestores DEF Carrying
  <1>10. CASE Persist(p)
    <2>1. Usable(held[p]) /\ memory = held[p]
      BY <1>3, <1>10 DEF Persist, StageOK, Carrying
    <2>2. Finish(p) /\ Good'
      BY <1>10, <2>1 DEF Persist, Good, Usable, serverVars
    <2>3. QED
      BY <1>2, <2>2, FinishRestores
  <1>11. CASE Restore(p)
    <2>1. Good /\ held[p] = disk
      BY <1>3, <1>11 DEF Restore, StageOK, Carrying
    <2>2. Finish(p) /\ Good'
      BY <1>11, <2>1 DEF Restore, Good, Usable, serverVars
    <2>3. QED
      BY <1>2, <2>2, FinishRestores
  <1>12. QED
    BY <1>5, <1>6, <1>7, <1>8, <1>9, <1>10, <1>11 DEF Step

(* A goroutine that starts undisturbed finds everybody idle.               *)
LEMMA StartFindsGood ==
    ASSUME TypeInv, SessionInv, ~disturbed', NEW p \in Processes,
           NEW stage, NEW token, NEW improper,
           Start(p, stage, token, improper)
    PROVE  /\ Goto(p, stage, token) /\ ~improper
           /\ \A q \in Processes : pc[q] = "idle"
           /\ Good
  <1>1. ~disturbed /\ Busy = {}
    BY DEF Start
  <1>2. \A q \in Processes : pc[q] = "idle"
    BY <1>1 DEF Busy
  <1>3. Good
    BY <1>1, <1>2 DEF SessionInv, Carrying
  <1>4. QED
    BY <1>2, <1>3 DEF Start

LEMMA NextKeepsSession ==
    TypeInv /\ SessionInv /\ [Next]_vars => SessionInv'
  <1>. SUFFICES ASSUME TypeInv, SessionInv, [Next]_vars, ~disturbed'
                PROVE  SessionInv'
    BY DEF SessionInv
  <1>1. CASE Tick
    BY <1>1 DEF Tick, SessionInv, OneBusy, Busy, StageOK, Carrying, Good,
                Usable, serverVars, processVars
  <1>2. ASSUME NEW p \in Processes, Step(p)
        PROVE  SessionInv'
    BY <1>2, StepKeepsSession
  <1>3. ASSUME NEW p \in Processes, AnswerLost(p)
        PROVE  SessionInv'
    <2>1. ~disturbed /\ pc[p] # "idle" /\ pc[p] \notin Carrying /\ Finish(p)
      BY <1>3 DEF AnswerLost, Carrying
    <2>2. \A q \in Processes : q # p => pc[q] = "idle"
      BY <2>1, Alone
    <2>3. Good'
      BY <1>3, <2>1, <2>2
         DEF SessionInv, Carrying, AnswerLost, Good, Usable, serverVars
    <2>4. QED
      BY <2>1, <2>2, <2>3, FinishRestores
  <1>4. ASSUME NEW p \in Processes, PersistFails(p)
        PROVE  SessionInv'
    BY <1>4 DEF PersistFails
  <1>5. ASSUME NEW p \in Refreshers, Refresh(p)
        PROVE  SessionInv'
    <2>1. p \in Processes /\ Start(p, "asking", memory, FALSE) /\ memory # NoToken
      BY <1>5 DEF Refresh, Processes
    <2>2. /\ Goto(p, "asking", memory) /\ Good
          /\ \A q \in Processes : pc[q] = "idle"
      BY <2>1, StartFindsGood
    <2>3. Good'
      BY <1>5, <2>2 DEF Refresh, Good, Usable, serverVars
    <2>4. pc'[p] = "asking" /\ held'[p] = memory
      BY <2>1, <2>2 DEF Goto, TypeInv, TypeOK
    <2>5. StageOK(p)'
      BY <1>5, <2>1, <2>4 DEF Refresh, StageOK, Carrying
    <2>6. QED
      BY <2>1, <2>2, <2>3, <2>5, GotoRestores
  <1>6. ASSUME NEW p \in Refreshers, LoadPersisted(p)
        PROVE  SessionInv'
    <2>1. p \in Processes /\ Start(p, "loaded", disk, FALSE) /\ disk # NoToken
      BY <1>6 DEF LoadPersisted, Processes
    <2>2. /\ Goto(p, "loaded", disk) /\ Good
          /\ \A q \in Processes : pc[q] = "idle"
      BY <2>1, StartFindsGood
    <2>3. Good'
      BY <1>6, <2>2 DEF LoadPersisted, Good, Usable, serverVars
    <2>4. pc'[p] = "loaded" /\ held'[p] = disk
      BY <2>1, <2>2 DEF Goto, TypeInv, TypeOK
    <2>5. StageOK(p)'
      BY <1>6, <2>1, <2>4 DEF LoadPersisted, StageOK, Carrying
    <2>6. QED
      BY <2>1, <2>2, <2>3, <2>5, GotoRestores
  <1>7. ASSUME NEW p \in Logins, NEW u \in Users, Login(p, u)
        PROVE  SessionInv'
    <2>. DEFINE token == [user |-> u, at |-> 0]
    <2>1. p \in Processes /\ Start(p, "login", token, wanted \notin {NoUser, u})
      BY <1>7 DEF Login, Processes
    <2>2. /\ Goto(p, "login", token) /\ Good /\ wanted \in {NoUser, u}
          /\ \A q \in Processes : pc[q] = "idle"
      BY <2>1, StartFindsGood
    <2>3. wanted # u => disk = NoToken
      BY <2>2, UserOfToken, UserAssumption DEF Good, Usable, TypeInv, TypeOK
    <2>4. wanted' = u /\ Good'
      BY <1>7, <2>2, <2>3 DEF Login, Good, Usable, serverVars
    <2>5. pc'[p] = "login" /\ held'[p] = token
      BY <2>1, <2>2 DEF Goto, TypeInv, TypeOK
    <2>6. StageOK(p)'
      BY <2>4, <2>5 DEF StageOK, Carrying
    <2>7. QED
      BY <2>1, <2>2, <2>4, <2>6, GotoRestores
  <1>12. ASSUME NEW p \in Logins, RestoreRequest(p)
         PROVE  SessionInv'
    <2>1. p \in Processes /\ Start(p, "loaded", disk, FALSE) /\ disk # NoToken
      BY <1>12 DEF RestoreRequest, Processes
    <2>2. /\ Goto(p, "loaded", disk) /\ Good
          /\ \A q \in Processes : pc[q] = "idle"
      BY <2>1, StartFindsGood
    <2>3. Good'
      BY <1>12, <2>2 DEF RestoreRequest, Good, Usable, serverVars
    <2>4. pc'[p] = "loaded" /\ held'[p] = disk
      BY <2>1, <2>2 DEF Goto, TypeInv, TypeOK
    <2>5. StageOK(p)'
      BY <1>12, <2>1, <2>4 DEF RestoreRequest, StageOK, Carrying
    <2>6. QED
      BY <2>1, <2>2, <2>3, <2>5, GotoRestores
  <1>13. ASSUME NEW p \in Logins, NEW token \in valid \cup revoked,
                RestoreSupplied(p, token)
         PROVE  SessionInv'
    <2>1. p \in Processes /\ Start(p, "supplied", token, ~Usable(token))
      BY <1>13 DEF RestoreSupplied, Processes
    <2>2. /\ Goto(p, "supplied", token) /\ Good /\ Usable(token)
          /\ \A q \in Processes : pc[q] = "idle"
      BY <2>1, StartFindsGood
    <2>3. Good' /\ Usable(token)'
      BY <1>13, <2>2 DEF RestoreSupplied, Good, Usable, serverVars
    <2>4. pc'[p] = "supplied" /\ held'[p] = token
      BY <2>1, <2>2 DEF Goto, TypeInv, TypeOK
    <2>5. StageOK(p)'
      BY <2>3, <2>4 DEF StageOK, Carrying, Usable
    <2>6. QED
      BY <2>1, <2>2, <2>3, <2>5, GotoRestores
  <1>8. CASE Logout
    <2>1. ~disturbed /\ \A q \in Processes : pc[q] = "idle"
      BY <1>8 DEF Logout, Busy
    <2>2. pc' = pc /\ held' = held /\ Good'
      BY <1>8 DEF Logout, Good, processVars
    <2>3. OneBusy' /\ \A q \in Processes : StageOK(q)'
      BY <2>1, <2>2 DEF OneBusy, Busy, StageOK, Carrying
    <2>4. QED
      BY <2>2, <2>3 DEF SessionInv
  <1>9. CASE Crash
    <2>1. ~disturbed /\ \A q \in Processes : pc[q] \notin Carrying
      BY <1>9 DEF Crash, Carrying
    <2>2. Good
      BY <2>1 DEF SessionInv
    <2>3. Good' /\ \A q \in Processes : pc'[q] = "idle"
      BY <1>9, <2>2 DEF Crash, Good, Usable, serverVars
    <2>4. OneBusy' /\ \A q \in Processes : StageOK(q)'
      BY <2>3 DEF OneBusy, Busy, StageOK, Carrying
    <2>5. QED
      BY <2>3, <2>4 DEF SessionInv
  <1>10. CASE UNCHANGED vars
    BY <1>10 DEF vars, SessionInv, OneBusy, Busy, StageOK, Carrying, Good,
                 Usable, serverVars, processVars
  <1>11. QED
    BY <1>1, <1>2, <1>3, <1>4, <1>5, <1>6, <1>7, <1>8, <1>9, <1>10,
       <1>12, <1>13
       DEF Next, Wake

(* Between operations the session in memory is the persisted one, and both *)
(* are tokens of the signed-in user that the server accepts, unless two    *)
(* operations overlapped, a token the server issued was lost, a restore    *)
(* request brought a pair that is not usable or a user signed in over      *)
(* another: no refused refresh, repeated sign-in, restored pair, crash or  *)
(* relaunch leaves a token the server has revoked or another user's.       *)
THEOREM UndisturbedSessionUsable == Spec => []SessionUsable
  <1>1. Init => TypeInv /\ SessionInv
    <2>. SUFFICES ASSUME Init PROVE TypeInv /\ SessionInv
      OBVIOUS
    <2>1. TypeInv
      BY InitTypes
    <2>2. \A p \in Processes : pc[p] = "idle"
      BY DEF Init
    <2>3. OneBusy /\ \A p \in Processes : StageOK(p)
      BY <2>2 DEF OneBusy, Busy, StageOK, Carrying
    <2>4. Good
      BY DEF Init, Good
    <2>5. QED
      BY <2>1, <2>3, <2>4 DEF SessionInv
  <1>2. TypeInv /\ SessionInv /\ [Next]_vars => (TypeInv /\ SessionInv)'
    BY NextKeepsTypes, NextKeepsSession
  <1>3. TypeInv /\ SessionInv => SessionUsable
    BY SessionInvImplies DEF TypeInv
  <1>4. QED
    BY <1>1, <1>2, <1>3, PTL DEF Spec

=============================================================================
