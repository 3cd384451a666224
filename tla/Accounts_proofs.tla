-------------------------- MODULE Accounts_proofs --------------------------
(***************************************************************************)
(* Proofs about Accounts for any accounts, sign-ins and changes.           *)
(***************************************************************************)
EXTENDS Accounts, TLAPS

-----------------------------------------------------------------------------
(* Types                                                                   *)

After == {"hydrate", "bootstrap", "sync", "syncing", "answer"}
Stages == {"authenticate", "profile"} \cup After

SignInStates ==
    {Idle}
    \cup [stage : Stages, asked : Users, password : Users,
          profile : Users \cup {None}, full : BOOLEAN,
          kind : {"background", "blocking", "registration"}]

CycleStates ==
    {Idle}
    \cup [stage : {"pull", "apply", "save"}, by : SignIns \cup {None},
          from : Nat, of : Users \cup {None}, got : SUBSET Nat, upto : Nat,
          overtaken : BOOLEAN]

(* A cycle that has an answer has one for an account, of a past instant.   *)
Answered(c) ==
    c.stage \in {"apply", "save"} =>
        /\ c.of \in Users /\ c.upto \in 1..clock
        /\ c.stage = "apply" => c.got \subseteq cloud[c.of]

(* A sign-in waits for the cycle that runs for it.                         *)
Waits ==
    \A s \in SignIns : At(s, "syncing") <=> cycle # Idle /\ cycle.by = s

SignInTypes ==
    /\ signIn \in [SignIns -> SignInStates]
    /\ session \in Users \cup {None}
    /\ row \in [Users -> Users \cup {None}]
    /\ overlapped \subseteq Users

CycleTypes ==
    /\ clock \in 1..MaxTime
    /\ cloud \in [Users -> SUBSET Nat]
    /\ \A u \in Users : \A t \in cloud[u] : 0 < t /\ t <= clock
    /\ held \in [Users -> SUBSET Nat]
    /\ \A u \in Users : held[u] \subseteq cloud[u]
    /\ cursor \in 1..clock \cup {None}
    /\ missed \subseteq Users
    /\ cycle \in CycleStates /\ Answered(cycle)

Types == SignInTypes /\ CycleTypes /\ Waits

LEMMA SignInCases ==
    ASSUME NEW q \in SignInStates
    PROVE  /\ q = Idle => q.stage = "idle"
           /\ q.stage \in Stages => q # Idle
           /\ q # Idle => /\ q.asked \in Users /\ q.password \in Users
                          /\ q.profile \in Users \cup {None}
                          /\ q.stage \in Stages
  BY DEF SignInStates, Idle, Stages, After

LEMMA CycleCases ==
    ASSUME NEW c \in CycleStates
    PROVE  /\ c = Idle => c.stage = "idle"
           /\ c.stage \in {"pull", "apply", "save"} => c # Idle
           /\ c # Idle => /\ c.by \in SignIns \cup {None} /\ c.from \in Nat
                          /\ c.of \in Users \cup {None} /\ c.upto \in Nat
                          /\ c.got \subseteq Nat
  BY DEF CycleStates, Idle

LEMMA Goes ==
    ASSUME SignInTypes, NEW s \in SignIns, signIn[s] # Idle,
           NEW stage \in Stages, GoTo(s, stage)
    PROVE  /\ signIn' \in [SignIns -> SignInStates]
           /\ \A o \in SignIns \ {s} : signIn'[o] = signIn[o]
           /\ signIn'[s].stage = stage
           /\ signIn'[s] = [signIn[s] EXCEPT !.stage = stage]
  BY DEF SignInTypes, GoTo, SignInStates

LEMMA InitTypes == Init => Types
  <1> SUFFICES ASSUME Init PROVE Types
    OBVIOUS
  <1>1. SignInTypes
    BY DEF Init, SignInTypes, SignInStates
  <1>2. /\ clock \in 1..MaxTime /\ cloud \in [Users -> SUBSET Nat]
        /\ \A u \in Users : \A t \in cloud[u] : 0 < t /\ t <= clock
    BY AccountsBounds DEF Init
  <1>3. CycleTypes
    BY <1>2 DEF Init, CycleTypes, CycleStates, Answered, Idle
  <1>4. Waits
    BY DEF Init, Waits, At, Idle
  <1>5. QED
    BY <1>1, <1>3, <1>4 DEF Types

(* Waiting is kept by a step that starts and ends no cycle.                *)
LEMMA WaitsSame ==
    ASSUME Waits, cycle' = Idle <=> cycle = Idle,
           cycle # Idle => cycle'.by = cycle.by,
           \A s \in SignIns : \/ signIn'[s] = signIn[s]
                              \/ /\ signIn[s].stage # "syncing"
                                 /\ signIn'[s].stage # "syncing"
    PROVE  Waits'
  BY DEF Waits, At

(* The rest of the types, by a step that changes no sign-in ...            *)
LEMMA CycleTypesSame ==
    ASSUME CycleTypes, UNCHANGED <<cloud, clock, held, cursor, missed, cycle>>
    PROVE  CycleTypes'
  BY DEF CycleTypes, Answered

(* ... and by one that adds a row to the cloud.                            *)
LEMMA NewRowTypes ==
    ASSUME CycleTypes, NEW u \in Users, NewRow(u),
           UNCHANGED <<held, cursor, missed, cycle>>
    PROVE  /\ CycleTypes' /\ clock' = clock + 1
           /\ cloud' = [cloud EXCEPT ![u] = @ \cup {clock'}]
  <1>1. /\ clock \in Nat /\ clock' = clock + 1 /\ clock' \in 1..MaxTime
        /\ cloud' = [cloud EXCEPT ![u] = @ \cup {clock'}]
    BY AccountsBounds DEF NewRow, CycleTypes
  <1>2. /\ cloud' \in [Users -> SUBSET Nat]
        /\ \A x \in Users : cloud[x] \subseteq cloud'[x]
        /\ \A x \in Users : \A t \in cloud'[x] :
             t \in cloud[x] \/ t = clock + 1
    BY <1>1 DEF CycleTypes
  <1>3. \A x \in Users : \A t \in cloud'[x] : 0 < t /\ t <= clock'
    BY <1>1, <1>2 DEF CycleTypes
  <1>4. 1..clock \subseteq 1..clock'
    BY <1>1
  <1>5. Answered(cycle)'
    BY <1>2, <1>4 DEF CycleTypes, Answered
  <1>6. QED
    BY <1>1, <1>2, <1>3, <1>4, <1>5 DEF CycleTypes

(* The steps of a sign-in that leave the cycle alone.                      *)
SignInStep(s) ==
    \/ AuthenticateRemote(s) \/ GetRemoteProfile(s) \/ FailSignIn(s)
    \/ Hydrate(s) \/ InitialSync(s) \/ Answer(s)

LEMMA SignInStepTypes ==
    ASSUME Types, NEW s \in SignIns, SignInStep(s)
    PROVE  Types'
  <1> USE DEF cloudVars, storeVars
  <1>0. /\ SignInTypes /\ CycleTypes /\ Waits
        /\ signIn[s] \in SignInStates /\ signIn[s].stage # "syncing"
        /\ signIn[s] # Idle
        /\ signIn[s].asked \in Users /\ signIn[s].password \in Users
        /\ signIn[s].profile \in Users \cup {None}
    <2>1. /\ SignInTypes /\ CycleTypes /\ Waits
          /\ signIn[s] \in SignInStates
      BY DEF Types, SignInTypes
    <2>2. signIn[s].stage \in Stages \ {"syncing"}
      BY DEF SignInStep, AuthenticateRemote, GetRemoteProfile, FailSignIn,
             Hydrate, InitialSync, Answer, At, Stages, After
    <2>3. QED
      BY <2>1, <2>2, SignInCases
  <1>1. UNCHANGED <<cloud, clock, held, cursor, missed, cycle>>
    BY DEF SignInStep, AuthenticateRemote, GetRemoteProfile, FailSignIn,
           Hydrate, InitialSync, Answer
  <1>2. CycleTypes'
    BY <1>0, <1>1, CycleTypesSame
  <1>3. SignInTypes' /\ /\ \A o \in SignIns \ {s} : signIn'[o] = signIn[o]
                        /\ signIn'[s].stage # "syncing"
    <2>1. CASE AuthenticateRemote(s)
      <3>1. /\ GoTo(s, "profile") /\ session' \in Users /\ row' = row
            /\ overlapped' \subseteq Users
        BY <1>0, <2>1 DEF AuthenticateRemote, SignInTypes
      <3>2. /\ signIn' \in [SignIns -> SignInStates]
            /\ \A o \in SignIns \ {s} : signIn'[o] = signIn[o]
            /\ signIn'[s].stage = "profile"
        BY <1>0, <3>1, Goes DEF Stages
      <3>3. QED
        BY <1>0, <3>1, <3>2 DEF SignInTypes
    <2>2. CASE GetRemoteProfile(s)
      <3>1. /\ signIn' = [signIn EXCEPT ![s].stage = "hydrate",
                                        ![s].profile = session]
            /\ UNCHANGED <<session, row, overlapped>>
        BY <2>2 DEF GetRemoteProfile
      <3>2. QED
        BY <1>0, <3>1 DEF SignInTypes, SignInStates, Stages, After
    <2>3. CASE FailSignIn(s)
      BY <1>0, <2>3 DEF FailSignIn, GiveUp, SignInTypes, SignInStates, Idle
    <2>4. CASE Hydrate(s)
      <3>1. /\ row' \in [Users -> Users \cup {None}]
            /\ UNCHANGED <<session, overlapped>>
            /\ GiveUp(s) \/ GoTo(s, "bootstrap")
        BY <1>0, <2>4 DEF Hydrate, Upserted, SignInTypes
      <3>2. CASE GiveUp(s)
        BY <1>0, <3>1, <3>2 DEF GiveUp, SignInTypes, SignInStates, Idle
      <3>3. CASE GoTo(s, "bootstrap")
        <4>1. /\ signIn' \in [SignIns -> SignInStates]
              /\ \A o \in SignIns \ {s} : signIn'[o] = signIn[o]
              /\ signIn'[s].stage = "bootstrap"
          BY <1>0, <3>3, Goes DEF Stages, After
        <4>2. QED
          BY <1>0, <3>1, <4>1 DEF SignInTypes
      <3>4. QED
        BY <3>1, <3>2, <3>3
    <2>5. CASE InitialSync(s)
      <3> DEFINE full == cursor = None
      <3>1. /\ signIn' = [signIn EXCEPT ![s].stage = "sync",
                                        ![s].full = full]
            /\ UNCHANGED <<session, row, overlapped>>
        BY <2>5 DEF InitialSync
      <3>2. full \in BOOLEAN
        BY Zenon
      <3> HIDE DEF full
      <3>3. QED
        BY <1>0, <3>1, <3>2 DEF SignInTypes, SignInStates, Stages, After
    <2>6. CASE Answer(s)
      BY <1>0, <2>6 DEF Answer, GiveUp, SignInTypes, SignInStates, Idle
    <2>7. QED
      BY <2>1, <2>2, <2>3, <2>4, <2>5, <2>6 DEF SignInStep
  <1>4. Waits'
    BY <1>0, <1>1, <1>3, WaitsSame
  <1>5. QED
    BY <1>2, <1>3, <1>4 DEF Types

LEMMA EndCycleTypes ==
    ASSUME Types, EndCycle, cycle # Idle
    PROVE  /\ signIn' \in [SignIns -> SignInStates] /\ Waits'
           /\ cycle' = Idle
           /\ \A s \in SignIns :
                signIn'[s] = signIn[s] \/
                  /\ At(s, "syncing")
                  /\ signIn'[s] = [signIn[s] EXCEPT !.stage = "answer"]
  <1>1. CASE cycle.by = None
    BY <1>1, NoneAssumption
       DEF EndCycle, Types, SignInTypes, Waits, At
  <1>2. CASE cycle.by # None
    <2> DEFINE s == cycle.by
    <2>1. /\ s \in SignIns /\ GoTo(s, "answer") /\ cycle' = Idle
          /\ At(s, "syncing") /\ SignInTypes
          /\ \A o \in SignIns \ {s} : ~At(o, "syncing")
      BY <1>2, CycleCases DEF EndCycle, Types, CycleTypes, Waits
    <2>2. signIn[s] # Idle
      BY <2>1 DEF At, Idle
    <2>3. /\ signIn' \in [SignIns -> SignInStates]
          /\ \A o \in SignIns \ {s} : signIn'[o] = signIn[o]
          /\ signIn'[s].stage = "answer"
          /\ signIn'[s] = [signIn[s] EXCEPT !.stage = "answer"]
      BY <2>1, <2>2, Goes DEF Stages, After
    <2>4. \A o \in SignIns : ~At(o, "syncing")'
      <3>1. ASSUME NEW o \in SignIns PROVE signIn'[o].stage # "syncing"
        <4>1. CASE o = s
          BY <2>3, <4>1
        <4>2. CASE o # s
          BY <2>1, <2>3, <4>2 DEF At
        <4>3. QED
          BY <4>1, <4>2
      <3>2. QED
        BY <3>1 DEF At
    <2>5. QED
      BY <2>1, <2>3, <2>4 DEF Waits
  <1>3. QED
    BY <1>1, <1>2

LEMMA TypesKept ==
    ASSUME Types, [Next]_vars
    PROVE  Types'
  <1> USE DEF cloudVars, storeVars
  <1>0. /\ SignInTypes /\ CycleTypes /\ Waits
        /\ cycle \in CycleStates /\ clock \in Nat
    BY AccountsBounds DEF Types, CycleTypes
  <1>1. ASSUME NEW u \in Users, CloudChange(u)
        PROVE  Types'
    <2>1. /\ NewRow(u) /\ UNCHANGED <<held, cursor, missed, cycle>>
          /\ UNCHANGED <<signIn, session, row, overlapped>>
      BY <1>1 DEF CloudChange
    <2>2. QED
      BY <1>0, <2>1, NewRowTypes DEF Types, SignInTypes, Waits, At
  <1>2. ASSUME NEW s \in SignIns, NEW u \in Users, NEW p \in Users,
               BeginSignIn(s, u, p)
        PROVE  Types'
    <2> DEFINE kind == IF row[u] = p THEN "background" ELSE "blocking"
               q == [stage |-> "authenticate", asked |-> u, password |-> p,
                     profile |-> None, full |-> FALSE, kind |-> kind]
    <2>1. /\ signIn[s] = Idle /\ signIn' = [signIn EXCEPT ![s] = q]
          /\ UNCHANGED <<session, row, overlapped>>
          /\ UNCHANGED <<cloud, clock, held, cursor, missed, cycle>>
      BY <1>2 DEF BeginSignIn, Begin
    <2>2. q \in SignInStates /\ q.stage # "syncing"
      BY DEF SignInStates, Stages
    <2> HIDE DEF q
    <2>3. SignInTypes'
      BY <1>0, <2>1, <2>2 DEF SignInTypes
    <2>4. Waits'
      BY <1>0, <2>1, <2>2, WaitsSame DEF SignInTypes, Idle
    <2>5. QED
      BY <1>0, <2>1, <2>3, <2>4, CycleTypesSame DEF Types
  <1>3. ASSUME NEW s \in SignIns, NEW u \in Users, BeginRegister(s, u)
        PROVE  Types'
    <2> DEFINE q == [stage |-> "authenticate", asked |-> u, password |-> u,
                     profile |-> None, full |-> FALSE,
                     kind |-> "registration"]
    <2>1. /\ signIn[s] = Idle /\ signIn' = [signIn EXCEPT ![s] = q]
          /\ UNCHANGED <<session, row, overlapped>>
          /\ NewRow(u) /\ UNCHANGED <<held, cursor, missed, cycle>>
      BY <1>3 DEF BeginRegister, Begin, Registered
    <2>2. q \in SignInStates /\ q.stage # "syncing"
      BY DEF SignInStates, Stages
    <2> HIDE DEF q
    <2>3. SignInTypes'
      BY <1>0, <2>1, <2>2 DEF SignInTypes
    <2>4. Waits'
      BY <1>0, <2>1, <2>2, WaitsSame DEF SignInTypes, Idle
    <2>5. QED
      BY <1>0, <2>1, <2>3, <2>4, NewRowTypes DEF Types
  <1>4. ASSUME NEW s \in SignIns, SignInStep(s)
        PROVE  Types'
    BY <1>4, SignInStepTypes
  <1>5. ASSUME NEW s \in SignIns, BeginCycle(s)
        PROVE  Types'
    <2> DEFINE from == IF signIn[s].full THEN 0 ELSE LastPull
    <2>1. /\ cycle = Idle /\ At(s, "sync") /\ GoTo(s, "syncing")
          /\ cycle' = Cycle(s, from)
          /\ UNCHANGED <<session, row, overlapped>>
          /\ UNCHANGED <<cloud, clock, held, cursor, missed>>
      BY <1>5 DEF BeginCycle
    <2>2. from \in Nat
      BY <1>0 DEF CycleTypes, LastPull
    <2> HIDE DEF from
    <2>3. /\ Cycle(s, from) \in CycleStates /\ Cycle(s, from) # Idle
          /\ Cycle(s, from).by = s /\ Cycle(s, from).stage = "pull"
      BY <2>2, CycleCases DEF Cycle, CycleStates
    <2>4. CycleTypes'
      BY <1>0, <2>1, <2>3 DEF CycleTypes, Answered
    <2>5. signIn[s] # Idle
      BY <2>1 DEF At, Idle
    <2>6. /\ signIn' \in [SignIns -> SignInStates]
          /\ signIn'[s].stage = "syncing"
          /\ \A o \in SignIns \ {s} : signIn'[o] = signIn[o]
      BY <1>0, <2>1, <2>5, Goes DEF Stages, After
    <2>7. SignInTypes'
      BY <1>0, <2>1, <2>6 DEF SignInTypes
    <2>8. Waits'
      BY <1>0, <2>1, <2>3, <2>6 DEF Waits, At
    <2>9. QED
      BY <2>4, <2>7, <2>8 DEF Types
  <1>6. CASE BeginWorkerCycle
    <2>1. /\ cycle = Idle /\ cycle' = Cycle(None, LastPull)
          /\ UNCHANGED <<signIn, session, row, overlapped>>
          /\ UNCHANGED <<cloud, clock, held, cursor, missed>>
      BY <1>6 DEF BeginWorkerCycle
    <2>2. LastPull \in Nat
      BY <1>0 DEF CycleTypes, LastPull
    <2> DEFINE c == Cycle(None, LastPull)
    <2>3. /\ c \in CycleStates /\ c # Idle
          /\ c.by = None /\ c.stage = "pull"
      BY <2>2, CycleCases DEF Cycle, CycleStates
    <2> HIDE DEF c
    <2>4. CycleTypes'
      BY <1>0, <2>1, <2>3 DEF CycleTypes, Answered, c
    <2>5. SignInTypes' /\ Waits'
      BY <1>0, <2>1, <2>3, NoneAssumption DEF SignInTypes, Waits, At, c
    <2>6. QED
      BY <2>4, <2>5 DEF Types
  <1>7. CASE Pull
    <2> DEFINE got == {t \in cloud[session] : t > cycle.from}
               c == [cycle EXCEPT !.stage = "apply", !.of = session,
                                  !.upto = clock, !.got = got]
    <2>1. /\ cycle.stage = "pull" /\ session # None /\ cycle' = c
          /\ UNCHANGED <<signIn, session, row, overlapped>>
          /\ UNCHANGED <<cloud, clock, held, cursor, missed>>
      BY <1>7 DEF Pull
    <2>2. session \in Users /\ clock \in 1..clock
      BY <1>0, <2>1 DEF SignInTypes, CycleTypes
    <2>3. got \subseteq cloud[session] /\ got \subseteq Nat
      BY <1>0, <2>2 DEF CycleTypes
    <2> HIDE DEF got
    <2>4. /\ c \in CycleStates /\ cycle # Idle
          /\ c.stage = "apply" /\ c.of = session /\ c.upto = clock
          /\ c.got = got /\ c.by = cycle.by
      BY <1>0, <2>1, <2>2, <2>3, CycleCases DEF CycleStates, Idle
    <2>5. c # Idle
      BY <2>4 DEF Idle
    <2> HIDE DEF c
    <2>6. CycleTypes'
      BY <1>0, <2>1, <2>2, <2>3, <2>4 DEF CycleTypes, Answered
    <2>7. SignInTypes' /\ Waits'
      BY <1>0, <2>1, <2>4, <2>5, WaitsSame DEF SignInTypes
    <2>8. QED
      BY <2>6, <2>7 DEF Types
  <1>8. CASE Apply
    <2> DEFINE u == cycle.of
               c == [cycle EXCEPT !.stage = "save"]
    <2>1. /\ cycle.stage = "apply" /\ cycle' = c
          /\ held' = [held EXCEPT ![u] = @ \cup cycle.got]
          /\ row' = row \/ row' = [row EXCEPT ![u] = u]
          /\ UNCHANGED <<signIn, session, overlapped>>
          /\ UNCHANGED <<cloud, clock, cursor, missed>>
      BY <1>8 DEF Apply
    <2>2. /\ cycle # Idle /\ u \in Users /\ cycle.upto \in 1..clock
          /\ cycle.got \subseteq cloud[u]
      BY <1>0, <2>1, CycleCases DEF CycleTypes, Answered
    <2>3. /\ c \in CycleStates /\ c.stage = "save" /\ c.of = u
          /\ c.upto = cycle.upto /\ c.by = cycle.by
      BY <1>0, <2>1, <2>2 DEF CycleStates
    <2>4. c # Idle
      BY <2>3 DEF Idle
    <2> HIDE DEF c
    <2>5. /\ held' \in [Users -> SUBSET Nat]
          /\ \A x \in Users : held'[x] \subseteq cloud[x]
      BY <1>0, <2>1, <2>2 DEF CycleTypes
    <2>6. CycleTypes'
      BY <1>0, <2>1, <2>2, <2>3, <2>5 DEF CycleTypes, Answered
    <2>7. SignInTypes' /\ Waits'
      BY <1>0, <2>1, <2>2, <2>3, <2>4, WaitsSame DEF SignInTypes
    <2>8. QED
      BY <2>6, <2>7 DEF Types
  <1>9. CASE Save \/ FailCycle
    <2>1. cycle # Idle /\ EndCycle
      BY <1>0, <1>9, CycleCases DEF Save, FailCycle
    <2>2. /\ cursor' = cursor \/ /\ cycle.stage = "save"
                                 /\ cursor' = cycle.upto
          /\ missed' \subseteq Users
          /\ UNCHANGED <<session, row, overlapped, cloud, clock, held>>
      BY <1>0, <1>9 DEF Save, FailCycle, Forgets, CycleTypes, Answered
    <2>3. cursor' \in 1..clock \cup {None}
      BY <1>0, <2>2 DEF CycleTypes, Answered
    <2>4. /\ signIn' \in [SignIns -> SignInStates] /\ Waits'
          /\ cycle' = Idle
      BY <2>1, EndCycleTypes
    <2>5. CycleTypes'
      BY <1>0, <2>2, <2>3, <2>4 DEF CycleTypes, CycleStates, Answered, Idle
    <2>6. QED
      BY <1>0, <2>2, <2>4, <2>5 DEF Types, SignInTypes
  <1>10. CASE (\E calls \in {{"clear"}, {"clear", "purge"}} : SignOut(calls))
              \/ ClearSession \/ RefusePurge
    <2>1. /\ UNCHANGED <<signIn, row, overlapped>>
          /\ session' \in {session, None}
          /\ UNCHANGED <<cloud, clock, held, cursor, missed, cycle>>
      BY <1>10 DEF SignOut, ClearSession, RefusePurge
    <2>2. QED
      BY <1>0, <2>1, CycleTypesSame DEF Types, SignInTypes, Waits, At
  <1>11. CASE PurgeSQLite
    <2>1. /\ row' = [u \in Users |-> None] /\ held' = [u \in Users |-> {}]
          /\ cursor' = None /\ missed' = {}
          /\ cycle' = IF cycle = Idle THEN Idle
                                      ELSE [cycle EXCEPT !.overtaken = TRUE]
          /\ UNCHANGED <<signIn, session, overlapped, cloud, clock>>
      BY <1>11 DEF PurgeSQLite, Purged
    <2>2. /\ cycle' \in CycleStates /\ (cycle' = Idle <=> cycle = Idle)
          /\ cycle # Idle => /\ cycle'.by = cycle.by /\ cycle'.of = cycle.of
                             /\ cycle'.stage = cycle.stage
                             /\ cycle'.upto = cycle.upto
                             /\ cycle'.got = cycle.got
      BY <1>0, <2>1 DEF CycleStates, Idle
    <2>3. Answered(cycle)'
      BY <1>0, <2>1, <2>2 DEF CycleTypes, Answered, Idle
    <2>4. CycleTypes'
      BY <1>0, <2>1, <2>2, <2>3 DEF CycleTypes
    <2>5. SignInTypes' /\ Waits'
      BY <1>0, <2>1, <2>2, WaitsSame DEF SignInTypes
    <2>6. QED
      BY <2>4, <2>5 DEF Types
  <1>12. CASE Restart
    <2>1. /\ cycle' = Idle /\ signIn' = [s \in SignIns |-> Idle]
          /\ UNCHANGED <<session, row, overlapped>>
          /\ UNCHANGED <<cloud, clock, held, cursor, missed>>
      BY <1>12 DEF Restart
    <2>2. CycleTypes'
      BY <1>0, <2>1 DEF CycleTypes, CycleStates, Answered, Idle
    <2>3. SignInTypes' /\ Waits'
      BY <1>0, <2>1 DEF SignInTypes, SignInStates, Waits, At, Idle
    <2>4. QED
      BY <2>2, <2>3 DEF Types
  <1>13. CASE UNCHANGED vars
    BY <1>0, <1>13, CycleTypesSame DEF vars, Types, SignInTypes, Waits, At
  <1>14. QED
    BY <1>1, <1>2, <1>3, <1>4, <1>5, <1>6, <1>7, <1>8, <1>9, <1>10, <1>11,
       <1>12, <1>13
       DEF Next, Login, Register, RemoteSteps, SignInStep, CycleSteps

LEMMA TypesInvariant == Spec => []Types
  BY InitTypes, TypesKept, PTL DEF Spec

(* Types are kept, and a sign-in waits for a cycle only while that cycle   *)
(* runs for it (syncOnce, runInitialDesktopSync).                          *)
THEOREM TypeCorrect == Spec => []TypeOK
  <1>1. Types => TypeOK
    <2> SUFFICES ASSUME Types PROVE TypeOK
      OBVIOUS
    <2>1. clock \in 1..MaxTime /\ cursor \in 1..clock \cup {None}
      BY DEF Types, CycleTypes
    <2>2. cursor \in 1..MaxTime \cup {None}
      BY <2>1, AccountsBounds
    <2>3. QED
      BY <2>2 DEF Types, SignInTypes, CycleTypes, Waits, TypeOK
  <1>2. QED
    BY <1>1, TypesInvariant, PTL

-----------------------------------------------------------------------------
(* Sign-ins beside each other                                              *)

(* A sign-in past the cloud's check carries the password of the account it *)
(* asked for, and finds that account's session, or one that was set in     *)
(* between.                                                                *)
Unmixed(q) ==
    /\ q.stage \in {"profile"} \cup After => q.password = q.asked
    /\ q.stage = "profile" => session \in {None, q.asked} \cup overlapped
    /\ q.stage \in After => q.profile \in {q.asked} \cup overlapped

NoMix == SignInsDoNotMix /\ \A s \in SignIns : Unmixed(signIn[s])

LEMMA InitNoMix == Init => NoMix
  BY DEF Init, NoMix, SignInsDoNotMix, Unmixed, After, Idle

(* A step that sets no session but None, and in which every sign-in stays, *)
(* ends, or goes on after its hydration.                                   *)
LEMMA NoMixStep ==
    ASSUME Types, NoMix, UNCHANGED <<row, signedIn, overlapped>>,
           session' \in {session, None},
           \A s \in SignIns :
             \/ signIn'[s] = signIn[s] \/ signIn'[s].stage = "idle"
             \/ signIn'[s].stage = "authenticate"
             \/ /\ signIn[s].stage \in After /\ signIn'[s].stage \in After
                /\ signIn'[s].asked = signIn[s].asked
                /\ signIn'[s].password = signIn[s].password
                /\ signIn'[s].profile = signIn[s].profile
    PROVE  NoMix'
  <1>1. SignInsDoNotMix'
    BY DEF NoMix, SignInsDoNotMix
  <1>2. ASSUME NEW s \in SignIns PROVE Unmixed(signIn[s])'
    <2>1. Unmixed(signIn[s])
      BY DEF NoMix
    <2>2. QED
      BY <2>1 DEF Unmixed, After
  <1>3. QED
    BY <1>1, <1>2 DEF NoMix

LEMMA NoMixKept ==
    ASSUME Types, NoMix, [Next]_vars
    PROVE  NoMix'
  <1> USE DEF cloudVars, storeVars
  <1>0. /\ signIn \in [SignIns -> SignInStates]
        /\ row \in [Users -> Users \cup {None}]
        /\ session \in Users \cup {None}
        /\ \A s \in SignIns : Unmixed(signIn[s])
        /\ \A s \in SignIns :
             signIn[s].stage \in Stages =>
               /\ signIn[s] # Idle
               /\ signIn[s].asked \in Users /\ signIn[s].password \in Users
               /\ signIn[s].profile \in Users \cup {None}
    BY SignInCases DEF Types, SignInTypes, NoMix
  <1>1. ASSUME NEW s \in SignIns, NEW u \in Users, NEW p \in Users,
               BeginSignIn(s, u, p)
        PROVE  NoMix'
    <2>1. /\ UNCHANGED <<row, session, overlapped>>
          /\ \A o \in SignIns : \/ signIn'[o] = signIn[o]
                                \/ signIn'[o].stage = "authenticate"
      BY <1>0, <1>1 DEF BeginSignIn, Begin
    <2>2. ASSUME NEW o \in SignIns PROVE Unmixed(signIn[o])'
      BY <1>0, <2>1 DEF Unmixed, After
    <2>3. CASE row[u] = p
      <3>1. signedIn' = [asked |-> u, account |-> u, password |-> p]
        BY <1>1, <2>3 DEF BeginSignIn
      <3>2. u \in overlapped \/ p = u
        BY <2>3, NoneAssumption DEF NoMix, SignInsDoNotMix
      <3>3. SignInsDoNotMix'
        BY <2>1, <3>1, <3>2 DEF NoMix, SignInsDoNotMix
      <3>4. QED
        BY <2>2, <3>3 DEF NoMix
    <2>4. CASE row[u] # p
      <3>1. signedIn' = Nobody
        BY <1>1, <2>4 DEF BeginSignIn
      <3>2. SignInsDoNotMix'
        BY <2>1, <3>1 DEF NoMix, SignInsDoNotMix
      <3>3. QED
        BY <2>2, <3>2 DEF NoMix
    <2>5. QED
      BY <2>3, <2>4
  <1>2. ASSUME NEW s \in SignIns, NEW u \in Users, BeginRegister(s, u)
        PROVE  NoMix'
    <2>1. /\ UNCHANGED <<row, signedIn, session, overlapped>>
          /\ \A o \in SignIns : \/ signIn'[o] = signIn[o]
                                \/ signIn'[o].stage = "authenticate"
      BY <1>0, <1>2 DEF BeginRegister, Begin
    <2>2. QED
      BY <2>1, NoMixStep
  <1>3. ASSUME NEW s \in SignIns, AuthenticateRemote(s)
        PROVE  NoMix'
    <2> DEFINE u == signIn[s].asked
    <2>1. /\ At(s, "authenticate") /\ signIn[s].password = u
          /\ session' = u /\ GoTo(s, "profile")
          /\ UNCHANGED <<row, signedIn>>
          /\ overlapped \subseteq overlapped'
          /\ \A o \in SignIns :
               At(o, "profile") /\ signIn[o].asked # u => u \in overlapped'
      BY <1>3 DEF AuthenticateRemote, Accepts
    <2>2. /\ signIn[s] # Idle /\ SignInTypes
      BY <1>0, <2>1 DEF At, Stages, Types
    <2>3. /\ \A o \in SignIns \ {s} : signIn'[o] = signIn[o]
          /\ signIn'[s] = [signIn[s] EXCEPT !.stage = "profile"]
      BY <2>1, <2>2, Goes DEF Stages
    <2>4. /\ signIn'[s].stage = "profile" /\ signIn'[s].asked = u
          /\ signIn'[s].password = u
      BY <1>0, <2>1, <2>2, <2>3 DEF SignInStates
    <2>5. SignInsDoNotMix'
      BY <2>1 DEF NoMix, SignInsDoNotMix
    <2>6. ASSUME NEW o \in SignIns PROVE Unmixed(signIn[o])'
      <3>1. CASE o = s
        BY <2>1, <2>4, <3>1 DEF Unmixed, After
      <3>2. CASE o # s
        <4>1. Unmixed(signIn[o]) /\ signIn'[o] = signIn[o]
          BY <1>0, <2>3, <3>2
        <4>2. QED
          BY <2>1, <4>1 DEF Unmixed, At
      <3>3. QED
        BY <3>1, <3>2
    <2>7. QED
      BY <2>5, <2>6 DEF NoMix
  <1>4. ASSUME NEW s \in SignIns, GetRemoteProfile(s)
        PROVE  NoMix'
    <2>1. /\ At(s, "profile") /\ session # None
          /\ signIn' = [signIn EXCEPT ![s].stage = "hydrate",
                                      ![s].profile = session]
          /\ UNCHANGED <<row, signedIn, session, overlapped>>
      BY <1>4 DEF GetRemoteProfile
    <2>2. /\ \A o \in SignIns \ {s} : signIn'[o] = signIn[o]
          /\ signIn'[s].stage = "hydrate" /\ signIn'[s].profile = session
          /\ signIn'[s].asked = signIn[s].asked
          /\ signIn'[s].password = signIn[s].password
      BY <1>0, <2>1 DEF SignInStates, At, Stages
    <2>3. ASSUME NEW o \in SignIns PROVE Unmixed(signIn[o])'
      <3>1. Unmixed(signIn[o])
        BY <1>0
      <3>2. CASE o = s
        BY <2>1, <2>2, <3>1, <3>2 DEF Unmixed, At, After
      <3>3. CASE o # s
        BY <2>1, <2>2, <3>1, <3>3 DEF Unmixed
      <3>4. QED
        BY <3>2, <3>3
    <2>4. SignInsDoNotMix'
      BY <2>1 DEF NoMix, SignInsDoNotMix
    <2>5. QED
      BY <2>3, <2>4 DEF NoMix
  <1>5. ASSUME NEW s \in SignIns, FailSignIn(s)
        PROVE  NoMix'
    <2>1. /\ UNCHANGED <<row, signedIn, session, overlapped>>
          /\ \A o \in SignIns : \/ signIn'[o] = signIn[o]
                                \/ signIn'[o].stage = "idle"
      BY <1>0, <1>5 DEF FailSignIn, GiveUp, Idle
    <2>2. QED
      BY <2>1, NoMixStep
  <1>6. ASSUME NEW s \in SignIns, Hydrate(s)
        PROVE  NoMix'
    <2> DEFINE p == signIn[s].profile
    <2>1. /\ At(s, "hydrate") /\ row' = [row EXCEPT ![p] = signIn[s].password]
          /\ UNCHANGED <<signedIn, session, overlapped>>
          /\ GiveUp(s) \/ GoTo(s, "bootstrap")
      BY <1>6 DEF Hydrate, Upserted
    <2>2. /\ signIn[s] # Idle /\ SignInTypes /\ signIn[s].stage \in After
          /\ signIn[s].password = signIn[s].asked
          /\ p \in {signIn[s].asked} \cup overlapped
      BY <1>0, <2>1 DEF At, Stages, After, Types, Unmixed
    <2>3. \A o \in SignIns :
            \/ signIn'[o] = signIn[o] \/ signIn'[o].stage = "idle"
            \/ /\ signIn[o].stage \in After /\ signIn'[o].stage \in After
               /\ signIn'[o] = [signIn[o] EXCEPT !.stage = "bootstrap"]
      <3>1. CASE GiveUp(s)
        BY <1>0, <3>1 DEF GiveUp, Idle
      <3>2. CASE GoTo(s, "bootstrap")
        <4>1. /\ \A o \in SignIns \ {s} : signIn'[o] = signIn[o]
              /\ signIn'[s].stage = "bootstrap"
              /\ signIn'[s] = [signIn[s] EXCEPT !.stage = "bootstrap"]
          BY <2>2, <3>2, Goes DEF Stages, After
        <4>2. QED
          BY <2>2, <4>1 DEF After
      <3>3. QED
        BY <2>1, <3>1, <3>2
    <2>4. \A o \in SignIns :
            signIn'[o] = [signIn[o] EXCEPT !.stage = "bootstrap"] =>
               /\ signIn'[o].asked = signIn[o].asked \/ signIn[o] = Idle
               /\ signIn'[o].password = signIn[o].password
                  \/ signIn[o] = Idle
               /\ signIn'[o].profile = signIn[o].profile \/ signIn[o] = Idle
      BY <1>0 DEF SignInStates
    <2>5. ASSUME NEW o \in SignIns PROVE Unmixed(signIn[o])'
      <3>1. Unmixed(signIn[o])
        BY <1>0
      <3>2. signIn[o].stage \in After => signIn[o] # Idle
        BY <1>0 DEF Stages
      <3>3. QED
        BY <2>1, <2>3, <2>4, <3>1, <3>2 DEF Unmixed, After
    <2>6. \A u \in Users \ overlapped : row'[u] \in {None, u}
      BY <1>0, <2>1, <2>2 DEF NoMix, SignInsDoNotMix
    <2>7. SignInsDoNotMix'
      BY <2>1, <2>6 DEF NoMix, SignInsDoNotMix
    <2>8. QED
      BY <2>5, <2>7 DEF NoMix
  <1>7. ASSUME NEW s \in SignIns, InitialSync(s)
        PROVE  NoMix'
    <2> DEFINE full == cursor = None
    <2>1. /\ At(s, "bootstrap")
          /\ signIn' = [signIn EXCEPT ![s].stage = "sync", ![s].full = full]
          /\ UNCHANGED <<row, signedIn, session, overlapped>>
      BY <1>7 DEF InitialSync
    <2> HIDE DEF full
    <2>2. /\ \A o \in SignIns \ {s} : signIn'[o] = signIn[o]
          /\ signIn[s].stage \in After /\ signIn'[s].stage \in After
          /\ signIn'[s].asked = signIn[s].asked
          /\ signIn'[s].password = signIn[s].password
          /\ signIn'[s].profile = signIn[s].profile
      BY <1>0, <2>1 DEF SignInStates, At, Stages, After
    <2>3. QED
      BY <2>1, <2>2, NoMixStep
  <1>8. ASSUME NEW s \in SignIns, Answer(s)
        PROVE  NoMix'
    <2> DEFINE p == signIn[s].profile
    <2>1. /\ At(s, "answer") /\ GiveUp(s)
          /\ UNCHANGED <<row, session, overlapped>>
          /\ \/ signedIn' = signedIn
             \/ signedIn' = [asked |-> signIn[s].asked, account |-> p,
                             password |-> signIn[s].password]
      BY <1>8 DEF Answer
    <2>2. /\ signIn[s].password = signIn[s].asked
          /\ p \in {signIn[s].asked} \cup overlapped
      BY <1>0, <2>1 DEF At, After, Unmixed
    <2>3. SignInsDoNotMix'
      BY <2>1, <2>2 DEF NoMix, SignInsDoNotMix
    <2>4. ASSUME NEW o \in SignIns PROVE Unmixed(signIn[o])'
      BY <1>0, <2>1 DEF GiveUp, Unmixed, After, Idle
    <2>5. QED
      BY <2>3, <2>4 DEF NoMix
  <1>9. ASSUME NEW s \in SignIns, BeginCycle(s)
        PROVE  NoMix'
    <2>1. /\ At(s, "sync") /\ GoTo(s, "syncing")
          /\ UNCHANGED <<row, signedIn, session, overlapped>>
      BY <1>9 DEF BeginCycle
    <2>2. signIn[s] # Idle /\ SignInTypes
      BY <1>0, <2>1 DEF At, Stages, After, Types
    <2>3. /\ \A o \in SignIns \ {s} : signIn'[o] = signIn[o]
          /\ signIn'[s] = [signIn[s] EXCEPT !.stage = "syncing"]
      BY <2>1, <2>2, Goes DEF Stages, After
    <2>4. /\ signIn[s].stage \in After /\ signIn'[s].stage \in After
          /\ signIn'[s].asked = signIn[s].asked
          /\ signIn'[s].password = signIn[s].password
          /\ signIn'[s].profile = signIn[s].profile
      BY <1>0, <2>1, <2>2, <2>3 DEF SignInStates, At, Stages, After
    <2>5. QED
      BY <2>1, <2>3, <2>4, NoMixStep
  <1>10. CASE Apply
    <2>1. /\ UNCHANGED <<signIn, signedIn, session, overlapped>>
          /\ \/ row' = row
             \/ row' = [row EXCEPT ![cycle.of] = cycle.of]
      BY <1>10 DEF Apply
    <2>2. \A u \in Users \ overlapped : row'[u] \in {None, u}
      BY <1>0, <2>1 DEF NoMix, SignInsDoNotMix
    <2>3. QED
      BY <2>1, <2>2 DEF NoMix, SignInsDoNotMix, Unmixed
  <1>11. CASE Save \/ FailCycle
    <2>1. /\ cycle # Idle /\ EndCycle
          /\ UNCHANGED <<row, signedIn, session, overlapped>>
      BY <1>11, CycleCases DEF Save, FailCycle, Types, CycleTypes
    <2>2. ASSUME NEW s \in SignIns
          PROVE  signIn'[s] = signIn[s] \/
                   /\ signIn[s].stage \in After /\ signIn'[s].stage \in After
                   /\ signIn'[s].asked = signIn[s].asked
                   /\ signIn'[s].password = signIn[s].password
                   /\ signIn'[s].profile = signIn[s].profile
      <3>1. signIn'[s] = signIn[s] \/
              /\ At(s, "syncing")
              /\ signIn'[s] = [signIn[s] EXCEPT !.stage = "answer"]
        BY <2>1, EndCycleTypes
      <3>2. QED
        BY <1>0, <3>1 DEF SignInStates, At, Stages, After
    <2>3. QED
      BY <2>1, <2>2, NoMixStep
  <1>12. CASE (\E calls \in {{"clear"}, {"clear", "purge"}} : SignOut(calls))
    <2>1. /\ signedIn' = Nobody
          /\ UNCHANGED <<row, signIn, session, overlapped>>
      BY <1>12 DEF SignOut
    <2>2. QED
      BY <2>1 DEF NoMix, SignInsDoNotMix, Unmixed
  <1>13. CASE ClearSession \/ RefusePurge \/ BeginWorkerCycle \/ Pull
    <2>1. /\ UNCHANGED <<row, signIn, signedIn, overlapped>>
          /\ session' \in {session, None}
      BY <1>13 DEF ClearSession, RefusePurge, BeginWorkerCycle, Pull
    <2>2. QED
      BY <2>1, NoMixStep
  <1>14. CASE PurgeSQLite
    <2>1. /\ UNCHANGED <<signIn, signedIn, session, overlapped>>
          /\ row' = [u \in Users |-> None]
      BY <1>14 DEF PurgeSQLite, Purged
    <2>2. QED
      BY <2>1 DEF NoMix, SignInsDoNotMix, Unmixed
  <1>15. CASE Restart
    <2>1. /\ UNCHANGED <<row, signedIn, session, overlapped>>
          /\ \A s \in SignIns : signIn'[s].stage = "idle"
      BY <1>15 DEF Restart, Idle
    <2>2. QED
      BY <2>1, NoMixStep
  <1>16. CASE (\E u \in Users : CloudChange(u)) \/ UNCHANGED vars
    <2>1. UNCHANGED <<row, signIn, signedIn, session, overlapped>>
      BY <1>16 DEF CloudChange, vars
    <2>2. QED
      BY <2>1, NoMixStep
  <1>17. QED
    BY <1>1, <1>2, <1>3, <1>4, <1>5, <1>6, <1>7, <1>8, <1>9, <1>10, <1>11,
       <1>12, <1>13, <1>14, <1>15, <1>16
       DEF Next, Login, Register, RemoteSteps, CycleSteps

(* The store keeps an account's own password and a sign-in answers for the *)
(* account it asked for, unless another sign-in's two calls were going on  *)
(* (authenticateAndHydrateRemoteUser, GetRemoteProfile).                   *)
THEOREM SignInsAreSeparate == Spec => []SignInsDoNotMix
  <1>1. Types /\ NoMix /\ [Next]_vars => (Types /\ NoMix)'
    BY TypesKept, NoMixKept
  <1>2. NoMix => SignInsDoNotMix
    BY DEF NoMix
  <1>3. QED
    BY <1>1, <1>2, InitTypes, InitNoMix, PTL DEF Spec

-----------------------------------------------------------------------------
(* Behind the cursor                                                       *)

(* The store holds what the cloud has of an account between two instants.  *)
Between(u, from, upto) ==
    \A t \in cloud[u] : from < t /\ t <= upto => t \in held[u]

(* A cycle that no purge overtook has pulled on from the cursor that is    *)
(* saved, if from any; its answer is whole, and so is what it has applied. *)
CycleWhole ==
    /\ cycle # Idle /\ cycle.from # 0 /\ ~cycle.overtaken =>
         cursor # None /\ cursor = cycle.from
    /\ cycle.stage = "apply" =>
         \A t \in cloud[cycle.of] :
            cycle.from < t /\ t <= cycle.upto => t \in cycle.got
    /\ cycle.stage = "save" /\ ~cycle.overtaken =>
         Between(cycle.of, cycle.from, cycle.upto)

CursorKept == RowsUpToCursor /\ CycleWhole

LEMMA InitCursor == Init => CursorKept
  BY DEF Init, CursorKept, RowsUpToCursor, CycleWhole, Idle

(* A step that leaves the cursor, and ends the cycle if it touches it.     *)
LEMMA CursorSame ==
    ASSUME CursorKept, UNCHANGED <<cloud, held, cursor, missed>>,
           cycle' \in {cycle, Idle}
    PROVE  CursorKept'
  <1>1. RowsUpToCursor'
    BY DEF CursorKept, RowsUpToCursor
  <1>2. CycleWhole'
    BY DEF CursorKept, CycleWhole, Between, Idle
  <1>3. QED
    BY <1>1, <1>2 DEF CursorKept

LEMMA CursorNewRow ==
    ASSUME Types, CursorKept, NEW u \in Users, NewRow(u),
           UNCHANGED <<held, cursor, missed, cycle>>
    PROVE  CursorKept'
  <1>1. /\ clock' = clock + 1 /\ clock \in Nat /\ CycleTypes
        /\ cloud' = [cloud EXCEPT ![u] = @ \cup {clock'}]
    BY NewRowTypes, AccountsBounds DEF Types, CycleTypes
  <1>2. \A x \in Users : \A t \in cloud'[x] : t \in cloud[x] \/ t = clock + 1
    BY <1>1 DEF CycleTypes
  <1>3. cursor # None => cursor \in Nat /\ cursor <= clock
    BY <1>1 DEF CycleTypes
  <1>4. RowsUpToCursor'
    <2> SUFFICES ASSUME cursor # None, NEW x \in Users \ missed,
                        NEW t \in cloud'[x], t <= cursor
                 PROVE  t \in held[x]
      BY DEF RowsUpToCursor
    <2>1. t \in cloud[x]
      BY <1>1, <1>2, <1>3
    <2>2. QED
      BY <2>1 DEF CursorKept, RowsUpToCursor
  <1>5. cycle.stage \in {"apply", "save"} =>
          /\ cycle.of \in Users /\ cycle.upto \in Nat
          /\ cycle.upto <= clock
    BY <1>1 DEF CycleTypes, Answered
  <1>6. cycle.stage \in {"apply", "save"} =>
          \A t \in cloud'[cycle.of] :
             t <= cycle.upto => t \in cloud[cycle.of]
    BY <1>1, <1>2, <1>5
  <1>7. CycleWhole'
    BY <1>6 DEF CursorKept, CycleWhole, Between
  <1>8. QED
    BY <1>4, <1>7 DEF CursorKept

LEMMA CursorCycle ==
    ASSUME CursorKept, cycle = Idle, UNCHANGED <<cloud, held, cursor, missed>>,
           NEW by, NEW from \in {0, LastPull}, cycle' = Cycle(by, from)
    PROVE  CursorKept'
  <1>1. RowsUpToCursor'
    BY DEF CursorKept, RowsUpToCursor
  <1>2. cycle'.stage = "pull" /\ cycle'.from = from
    BY DEF Cycle
  <1>3. from # 0 => cursor # None /\ cursor = from
    BY DEF LastPull
  <1>4. CycleWhole'
    BY <1>2, <1>3 DEF CycleWhole
  <1>5. QED
    BY <1>1, <1>4 DEF CursorKept

LEMMA CursorKeptStep ==
    ASSUME Types, CursorKept, [Next]_vars
    PROVE  CursorKept'
  <1> USE DEF cloudVars, storeVars
  <1>0. /\ CycleTypes /\ cycle \in CycleStates
        /\ RowsUpToCursor /\ CycleWhole
        /\ session \in Users \cup {None}
    BY DEF Types, SignInTypes, CycleTypes, CursorKept
  <1>1. CASE \E u \in Users : CloudChange(u)
    BY <1>1, CursorNewRow DEF CloudChange
  <1>2. CASE \E s \in SignIns, u \in Users : BeginRegister(s, u)
    BY <1>2, CursorNewRow DEF BeginRegister, Registered
  <1>3. CASE \E s \in SignIns : SignInStep(s)
    <2>1. UNCHANGED <<cloud, held, cursor, missed, cycle>>
      BY <1>3 DEF SignInStep, AuthenticateRemote, GetRemoteProfile, FailSignIn,
                  Hydrate, InitialSync, Answer
    <2>2. QED
      BY <2>1, CursorSame
  <1>4. CASE \E s \in SignIns : BeginCycle(s)
    <2>1. PICK s \in SignIns : BeginCycle(s)
      BY <1>4
    <2> DEFINE from == IF signIn[s].full THEN 0 ELSE LastPull
    <2>2. /\ cycle = Idle /\ cycle' = Cycle(s, from)
          /\ UNCHANGED <<cloud, held, cursor, missed>>
      BY <2>1 DEF BeginCycle
    <2>3. from \in {0, LastPull}
      OBVIOUS
    <2> HIDE DEF from
    <2>4. QED
      BY <2>2, <2>3, CursorCycle
  <1>5. CASE BeginWorkerCycle
    <2>1. /\ cycle = Idle /\ cycle' = Cycle(None, LastPull)
          /\ UNCHANGED <<cloud, held, cursor, missed>>
      BY <1>5 DEF BeginWorkerCycle
    <2>2. LastPull \in {0, LastPull}
      OBVIOUS
    <2>3. QED
      BY <2>1, <2>2, CursorCycle
  <1>6. CASE Pull
    <2> DEFINE got == {t \in cloud[session] : t > cycle.from}
               c == [cycle EXCEPT !.stage = "apply", !.of = session,
                                  !.upto = clock, !.got = got]
    <2>1. /\ cycle.stage = "pull" /\ cycle' = c /\ session \in Users
          /\ UNCHANGED <<cloud, held, cursor, missed>>
      BY <1>0, <1>6 DEF Pull
    <2>2. cycle # Idle /\ cycle.from \in Nat
      BY <1>0, <2>1, CycleCases
    <2>3. /\ c.stage = "apply" /\ c.of = session /\ c.from = cycle.from
          /\ c.overtaken = cycle.overtaken /\ c.got = got
      BY <1>0, <2>1, <2>2 DEF CycleStates
    <2> HIDE DEF c
    <2>4. \A t \in cloud[session] : cycle.from < t => t \in got
      BY <1>0, <2>1, <2>2 DEF CycleTypes
    <2> HIDE DEF got
    <2>5. CycleWhole'
      BY <1>0, <2>1, <2>2, <2>3, <2>4 DEF CycleWhole
    <2>6. RowsUpToCursor'
      BY <1>0, <2>1 DEF RowsUpToCursor
    <2>7. QED
      BY <2>5, <2>6 DEF CursorKept
  <1>7. CASE Apply
    <2> DEFINE u == cycle.of
               c == [cycle EXCEPT !.stage = "save"]
    <2>1. /\ cycle.stage = "apply" /\ cycle' = c
          /\ held' = [held EXCEPT ![u] = @ \cup cycle.got]
          /\ UNCHANGED <<cloud, cursor, missed>>
      BY <1>7 DEF Apply
    <2>2. /\ cycle # Idle /\ u \in Users /\ held \in [Users -> SUBSET Nat]
      BY <1>0, <2>1, CycleCases DEF CycleTypes, Answered
    <2>3. /\ c.stage = "save" /\ c.of = u /\ c.from = cycle.from
          /\ c.upto = cycle.upto /\ c.overtaken = cycle.overtaken
      BY <1>0, <2>1, <2>2 DEF CycleStates
    <2> HIDE DEF c
    <2>4. /\ \A x \in Users : held[x] \subseteq held'[x]
          /\ cycle.got \subseteq held'[u]
      BY <2>1, <2>2
    <2>5. CycleWhole'
      BY <1>0, <2>1, <2>2, <2>3, <2>4 DEF CycleWhole, Between
    <2>6. RowsUpToCursor'
      BY <1>0, <2>1, <2>4 DEF RowsUpToCursor
    <2>7. QED
      BY <2>5, <2>6 DEF CursorKept
  <1>8. CASE Save
    <2> DEFINE u == cycle.of
    <2>1. /\ cycle.stage = "save" /\ cursor' = cycle.upto /\ cycle' = Idle
          /\ missed' = Forgets(u, cycle.from, cycle.overtaken)
          /\ UNCHANGED <<cloud, held>>
      BY <1>8 DEF Save, EndCycle
    <2>2. /\ cycle # Idle /\ u \in Users /\ cycle.from \in Nat
          /\ cycle.upto \in Nat
      BY <1>0, <2>1, CycleCases DEF CycleTypes, Answered
    <2>3. CycleWhole'
      BY <2>1 DEF CycleWhole, Idle
    <2>4. ASSUME NEW x \in Users \ missed'
          PROVE  /\ x = u /\ ~cycle.overtaken
                 /\ cycle.from = 0 \/ x \notin missed
      BY <2>1, <2>2, <2>4 DEF Forgets
    <2>5. RowsUpToCursor'
      <3> SUFFICES ASSUME NEW x \in Users \ missed', NEW t \in cloud[x],
                          t <= cycle.upto
                   PROVE  t \in held[x]
        BY <2>1 DEF RowsUpToCursor
      <3>1. t \in Nat /\ 0 < t
        BY <1>0 DEF CycleTypes
      <3>2. /\ x = u /\ ~cycle.overtaken
            /\ cycle.from = 0 \/ x \notin missed
        BY <2>4
      <3>3. cycle.from < t => t \in held[x]
        BY <1>0, <2>1, <3>2 DEF CycleWhole, Between
      <3>4. cycle.from # 0 => cursor # None /\ cursor = cycle.from
        BY <1>0, <2>2, <3>2 DEF CycleWhole
      <3>5. cycle.from # 0 /\ t <= cycle.from => t \in held[x]
        BY <1>0, <3>2, <3>4 DEF RowsUpToCursor
      <3>6. QED
        BY <2>2, <3>1, <3>3, <3>5
    <2>6. QED
      BY <2>3, <2>5 DEF CursorKept
  <1>9. CASE FailCycle \/ Restart
    <2>1. UNCHANGED <<cloud, held, cursor, missed>> /\ cycle' = Idle
      BY <1>9 DEF FailCycle, EndCycle, Restart
    <2>2. QED
      BY <2>1, CursorSame
  <1>10. CASE PurgeSQLite
    <2>1. /\ cursor' = None /\ cloud' = cloud
          /\ cycle' = IF cycle = Idle THEN Idle
                                      ELSE [cycle EXCEPT !.overtaken = TRUE]
      BY <1>10 DEF PurgeSQLite, Purged
    <2>2. CASE cycle = Idle
      BY <2>1, <2>2 DEF CursorKept, RowsUpToCursor, CycleWhole, Idle
    <2>3. CASE cycle # Idle
      <3>1. /\ cycle'.overtaken = TRUE /\ cycle'.stage = cycle.stage
            /\ cycle'.of = cycle.of /\ cycle'.from = cycle.from
            /\ cycle'.upto = cycle.upto /\ cycle'.got = cycle.got
        BY <1>0, <2>1, <2>3 DEF CycleStates
      <3>2. QED
        BY <1>0, <2>1, <3>1 DEF CursorKept, RowsUpToCursor, CycleWhole
    <2>4. QED
      BY <2>2, <2>3
  <1>11. CASE \/ \E s \in SignIns, u, p \in Users : BeginSignIn(s, u, p)
              \/ \E calls \in {{"clear"}, {"clear", "purge"}} : SignOut(calls)
              \/ ClearSession \/ RefusePurge \/ UNCHANGED vars
    <2>1. UNCHANGED <<cloud, held, cursor, missed, cycle>>
      BY <1>11 DEF BeginSignIn, SignOut, ClearSession, RefusePurge, vars
    <2>2. QED
      BY <2>1, CursorSame
  <1>12. QED
    BY <1>1, <1>2, <1>3, <1>4, <1>5, <1>6, <1>7, <1>8, <1>9, <1>10, <1>11
       DEF Next, Login, Register, RemoteSteps, SignInStep, CycleSteps

(* Behind the cursor nothing is missing of the accounts whose cycle moved  *)
(* it, so that a pull from the cursor is enough (saveSyncState,            *)
(* NeedsBootstrapPull).                                                    *)
THEOREM CursorIsEnough == Spec => []RowsUpToCursor
  <1>1. Types /\ CursorKept /\ [Next]_vars => (Types /\ CursorKept)'
    BY TypesKept, CursorKeptStep
  <1>2. CursorKept => RowsUpToCursor
    BY DEF CursorKept
  <1>3. QED
    BY <1>1, <1>2, InitTypes, InitCursor, PTL DEF Spec

=============================================================================
