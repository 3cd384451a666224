------------------------------ MODULE Accounts ------------------------------
(***************************************************************************)
(* The accounts of one desktop: signing in against the store and the       *)
(* cloud, the first synchronisation, signing out, and the purge.           *)
(*                                                                         *)
(* A sign-in whose password the store accepts answers at once and repeats  *)
(* itself against the cloud in the background; any other sign-in waits for *)
(* the cloud.  The cloud's part is two calls: the first sets the session   *)
(* the sidecar's synchronisation uses, the second asks for the profile of  *)
(* whatever session is set by then.  The sidecar keeps one session and one *)
(* pull cursor, whoever signs in; signing out sends two calls and waits    *)
(* for neither.                                                            *)
(*                                                                         *)
(* A password is the account whose password it is.  A cloud row is the     *)
(* stamp of its last change; an account's own row is one of its rows.      *)
(* Pushing is left to SyncEngine: here it is a cycle that fails.           *)
(***************************************************************************)
EXTENDS Integers, FiniteSets

CONSTANTS
    Users,
    SignIns,       \* sign-ins under way at a time, background ones included
    MaxTime,       \* bound: changes in the cloud
    MaxSignIns,    \* bound: sign-ins and registrations begun
    None           \* no account, no cursor

ASSUME NoneAssumption == None \notin Users \cup SignIns
ASSUME AccountsBounds == MaxTime \in Nat \ {0} /\ MaxSignIns \in Nat

VARIABLES
    own,           \* cloud: the stamp of an account's own row, or None
    cloud,         \* cloud: the stamps of the rows of each account
    clock,         \* cloud: its clock
    row,           \* store: whose password each account's row accepts
    held,          \* store: the rows pulled of each account
    cursor,        \* store: sync_state, up to where the cloud was pulled
    session,       \* sidecar: the account the remote session is of
    cycle,         \* sidecar: the synchronisation cycle that runs
    signIn,        \* sidecar: sign-ins under way
    signedIn,      \* window: who signed in, asking for whom
    leaving,       \* window: calls of a sign-out that are still to arrive
    begun,
    missed,        \* history: accounts past whose rows another account's
                   \* cycle, or one a purge overtook, moved the cursor
    overlapped     \* history: accounts whose session was set while another
                   \* sign-in was between its two calls

cloudVars == <<own, cloud, clock>>
storeVars == <<row, held, cursor>>
vars == <<cloudVars, storeVars, session, cycle, signIn, signedIn, leaving,
          begun, missed, overlapped>>

Idle == [stage |-> "idle"]
Nobody == [asked |-> None, account |-> None, password |-> None]

Init ==
    /\ own \in [Users -> {None, 1}]
    /\ cloud = [u \in Users |-> IF own[u] = None THEN {} ELSE {1}]
    /\ clock = 1
    /\ row = [u \in Users |-> None]
    /\ held = [u \in Users |-> {}]
    /\ cursor = None /\ session = None
    /\ cycle = Idle
    /\ signIn = [s \in SignIns |-> Idle]
    /\ signedIn = Nobody /\ leaving = {}
    /\ begun = 0
    /\ missed = {} /\ overlapped = {}

-----------------------------------------------------------------------------
(* The cloud                                                               *)

NewRow(u) ==
    /\ clock < MaxTime
    /\ clock' = clock + 1
    /\ cloud' = [cloud EXCEPT ![u] = @ \cup {clock'}]

(* Another device, or the web, writes a row of the account.                *)
CloudChange(u) ==
    /\ own[u] # None
    /\ NewRow(u)
    /\ UNCHANGED <<own, storeVars, session, cycle, signIn, signedIn, leaving,
                   begun, missed, overlapped>>

-----------------------------------------------------------------------------
(* Signing in                                                              *)

Begin(s, state) ==
    /\ signIn[s] = Idle
    /\ begun < MaxSignIns /\ begun' = begun + 1
    /\ signIn' = [signIn EXCEPT ![s] = state]

At(s, stage) == signIn[s].stage = stage
GoTo(s, stage) == signIn' = [signIn EXCEPT ![s].stage = stage]
GiveUp(s) == signIn' = [signIn EXCEPT ![s] = Idle]

(* authenticateDesktop: the row accepts the password and the answer is     *)
(* immediate, the rest following in the background; or all of it waits.    *)
BeginSignIn(s, u, p) ==
    /\ signedIn = Nobody
    /\ Begin(s, [stage |-> "authenticate", asked |-> u, password |-> p,
                 profile |-> None, full |-> FALSE, kind |->
                 IF row[u] = p THEN "background" ELSE "blocking"])
    /\ signedIn' = IF row[u] = p
                   THEN [asked |-> u, account |-> u, password |-> p]
                   ELSE Nobody
    /\ UNCHANGED <<cloudVars, storeVars, session, cycle, leaving, missed,
                   overlapped>>

(* Register, in the cloud.                                                 *)
Registered(u) ==
    /\ own[u] = None
    /\ NewRow(u)
    /\ own' = [own EXCEPT ![u] = clock']

(* registerRemote: the cloud refuses an e-mail that is taken; otherwise it *)
(* stores the account, and hydration follows.                              *)
BeginRegister(s, u) ==
    /\ signedIn = Nobody
    /\ Registered(u)
    /\ Begin(s, [stage |-> "authenticate", asked |-> u, password |-> u,
                 profile |-> None, full |-> FALSE, kind |-> "registration"])
    /\ UNCHANGED <<storeVars, session, cycle, signedIn, leaving, missed,
                   overlapped>>

(* Mutant of Accepts: a refused login goes on like an accepted one.        *)
AcceptsAny(u, p) == own[u] # None

(* The cloud's own check of the password.                                  *)
Accepts(u, p) == own[u] # None /\ p = u

(* AuthenticateRemoteSession: SetSession, and persistRemoteSession.        *)
AuthenticateRemote(s) ==
    LET u == signIn[s].asked
    IN  /\ At(s, "authenticate")
        /\ Accepts(u, signIn[s].password)
        /\ session' = u
        /\ GoTo(s, "profile")
        /\ overlapped' =
             IF \E o \in SignIns : At(o, "profile") /\ signIn[o].asked # u
             THEN overlapped \cup {u} ELSE overlapped
        /\ UNCHANGED <<cloudVars, storeVars, cycle, signedIn, leaving, begun,
                       missed>>

(* GetRemoteProfile: /users/me, of the session that is set now.            *)
GetRemoteProfile(s) ==
    /\ At(s, "profile") /\ session # None
    /\ signIn' = [signIn EXCEPT ![s].stage = "hydrate",
                                ![s].profile = session]
    /\ UNCHANGED <<cloudVars, storeVars, session, cycle, signedIn, leaving,
                   begun, missed, overlapped>>

(* The cloud refuses, does not answer, or the session is gone.  The store  *)
(* is asked again only with the password it refused before.                *)
FailSignIn(s) ==
    /\ signIn[s].stage \in {"authenticate", "profile"}
    /\ GiveUp(s)
    /\ UNCHANGED <<cloudVars, storeVars, session, cycle, signedIn, leaving,
                   begun, missed, overlapped>>

(* Upsert of the account's own row                                         *)
Upserted(u, password) == [row EXCEPT ![u] = password]

(* authenticateAndHydrateRemoteUser stores the profile's row with the hash *)
(* of the password this sign-in was given.                                 *)
Hydrate(s) ==
    /\ At(s, "hydrate")
    /\ row' = Upserted(signIn[s].profile, signIn[s].password)
    /\ IF signIn[s].kind = "registration" THEN GiveUp(s)
                                          ELSE GoTo(s, "bootstrap")
    /\ UNCHANGED <<cloudVars, held, cursor, session, cycle, signedIn, leaving,
                   begun, missed, overlapped>>

(* runInitialDesktopSync: NeedsBootstrapPull decides what is to be run.    *)
InitialSync(s) ==
    /\ At(s, "bootstrap")
    /\ signIn' = [signIn EXCEPT ![s].stage = "sync",
                                ![s].full = cursor = None]
    /\ UNCHANGED <<cloudVars, storeVars, session, cycle, signedIn, leaving,
                   begun, missed, overlapped>>

(* issueLocalSession, for the profile's account: its row must be there.    *)
Answer(s) ==
    LET u == signIn[s].profile
    IN  /\ At(s, "answer")
        /\ signedIn' =
             IF signIn[s].kind = "blocking" /\ row[u] # None
             THEN [asked |-> signIn[s].asked, account |-> u,
                   password |-> signIn[s].password]
             ELSE signedIn
        /\ GiveUp(s)
        /\ UNCHANGED <<cloudVars, storeVars, session, cycle, leaving, begun,
                       missed, overlapped>>

-----------------------------------------------------------------------------
(* The synchronisation cycle, one at a time                                *)

Cycle(by, from) ==
    [stage |-> "pull", by |-> by, from |-> from, of |-> None, got |-> {},
     upto |-> 0, overtaken |-> FALSE]

LastPull == IF cursor = None THEN 0 ELSE cursor

(* syncOnce: ForceFullPull reads no cursor.                                *)
BeginCycle(s) ==
    /\ cycle = Idle
    /\ At(s, "sync")
    /\ cycle' = Cycle(s, IF signIn[s].full THEN 0 ELSE LastPull)
    /\ GoTo(s, "syncing")
    /\ UNCHANGED <<cloudVars, storeVars, session, signedIn, leaving, begun,
                   missed, overlapped>>

(* The worker's cycle, on a signal or a tick, with a session only.         *)
BeginWorkerCycle ==
    /\ cycle = Idle /\ session # None
    /\ cycle' = Cycle(None, LastPull)
    /\ UNCHANGED <<cloudVars, storeVars, session, signIn, signedIn, leaving,
                   begun, missed, overlapped>>

EndCycle ==
    /\ cycle' = Idle
    /\ IF cycle.by = None THEN UNCHANGED signIn ELSE GoTo(cycle.by, "answer")

(* pullRemoteChanges: with the session that is set now.                    *)
Pull ==
    /\ cycle.stage = "pull" /\ session # None
    /\ cycle' = [cycle EXCEPT
                   !.stage = "apply", !.of = session, !.upto = clock,
                   !.got = {t \in cloud[session] : t > cycle.from}]
    /\ UNCHANGED <<cloudVars, storeVars, session, signIn, signedIn, leaving,
                   begun, missed, overlapped>>

(* applyPulledChanges: one transaction; rows of an account whose own row   *)
(* is neither stored nor among them are refused.  A stored own row is the  *)
(* younger one: hydration stamps it.                                       *)
Apply ==
    LET u == cycle.of
    IN  /\ cycle.stage = "apply"
        /\ cycle.got = {} \/ row[u] # None \/ own[u] \in cycle.got
        /\ held' = [held EXCEPT ![u] = @ \cup cycle.got]
        /\ row' = IF row[u] = None /\ own[u] \in cycle.got
                  THEN [row EXCEPT ![u] = u] ELSE row
        /\ cycle' = [cycle EXCEPT !.stage = "save"]
        /\ UNCHANGED <<cloudVars, cursor, session, signIn, signedIn, leaving,
                       begun, missed, overlapped>>

Forgets(u, from, overtaken) ==
    LET others == missed \cup (Users \ {u})
    IN  IF overtaken THEN others \cup {u}
        ELSE IF from = 0 THEN others \ {u}
        ELSE others

(* saveSyncState: the one cursor, whoever it was pulled for.               *)
Save ==
    /\ cycle.stage = "save"
    /\ cursor' = cycle.upto
    /\ missed' = Forgets(cycle.of, cycle.from, cycle.overtaken)
    /\ EndCycle
    /\ UNCHANGED <<cloudVars, row, held, session, signedIn, leaving, begun,
                   overlapped>>

(* The push or the pull fails, the rows are refused, or the timeout ends   *)
(* it: a sign-in that waits for the cycle goes on without it.              *)
FailCycle ==
    /\ cycle # Idle
    /\ EndCycle
    /\ UNCHANGED <<cloudVars, storeVars, session, signedIn, leaving, begun,
                   missed, overlapped>>

-----------------------------------------------------------------------------
(* Signing out, and stopping                                               *)

(* logout: two calls are sent, the purge only when the refresh failed, and *)
(* neither is awaited.                                                     *)
SignOut(calls) ==
    /\ signedIn # Nobody
    /\ signedIn' = Nobody
    /\ leaving' = leaving \cup calls
    /\ UNCHANGED <<cloudVars, storeVars, session, cycle, signIn, begun, missed,
                   overlapped>>

(* ClearSession                                                            *)
ClearSession ==
    /\ "clear" \in leaving
    /\ leaving' = leaving \ {"clear"}
    /\ session' = None
    /\ UNCHANGED <<cloudVars, storeVars, cycle, signIn, signedIn, begun,
                   missed, overlapped>>

(* Mutant of Purged: sync_state is left out of the statements.             *)
PurgedButCursor ==
    /\ row' = [u \in Users |-> None]
    /\ held' = [u \in Users |-> {}]
    /\ UNCHANGED cursor

(* purgeSQLiteData: every table of the store, in one transaction.          *)
Purged ==
    /\ row' = [u \in Users |-> None]
    /\ held' = [u \in Users |-> {}]
    /\ cursor' = None

(* PurgeSQLite: behind the access token, and beside any running cycle.     *)
PurgeSQLite ==
    /\ "purge" \in leaving
    /\ leaving' = leaving \ {"purge"}
    /\ Purged
    /\ missed' = {}
    /\ cycle' = IF cycle = Idle THEN Idle
                                ELSE [cycle EXCEPT !.overtaken = TRUE]
    /\ UNCHANGED <<cloudVars, session, signIn, signedIn, begun, overlapped>>

(* The purge is refused: the token that sent it has expired.               *)
RefusePurge ==
    /\ "purge" \in leaving
    /\ leaving' = leaving \ {"purge"}
    /\ UNCHANGED <<cloudVars, storeVars, session, cycle, signIn, signedIn,
                   begun, missed, overlapped>>

(* The sidecar stops and starts; the session was persisted.                *)
Restart ==
    /\ cycle' = Idle
    /\ signIn' = [s \in SignIns |-> Idle]
    /\ leaving' = {}
    /\ UNCHANGED <<cloudVars, storeVars, session, signedIn, begun, missed,
                   overlapped>>

-----------------------------------------------------------------------------
(* What a sign-in does with the cloud, in the background or awaited.       *)
RemoteSteps(s) ==
    \/ AuthenticateRemote(s) \/ GetRemoteProfile(s) \/ FailSignIn(s)
    \/ Hydrate(s) \/ InitialSync(s) \/ BeginCycle(s) \/ Answer(s)

Login(s) == \E u, p \in Users : BeginSignIn(s, u, p)

Register(s) == \E u \in Users : BeginRegister(s, u)

CycleSteps ==
    BeginWorkerCycle \/ Pull \/ Apply \/ Save \/ FailCycle

Next ==
    \/ \E s \in SignIns : Login(s) \/ Register(s) \/ RemoteSteps(s)
    \/ CycleSteps
    \/ \E calls \in {{"clear"}, {"clear", "purge"}} : SignOut(calls)
    \/ ClearSession \/ PurgeSQLite \/ RefusePurge
    \/ Restart
    \/ \E u \in Users : CloudChange(u)

Spec == Init /\ [][Next]_vars

-----------------------------------------------------------------------------
(* Properties                                                              *)

(* Types: whatever overlaps, a sign-in waits for a cycle only while that   *)
(* cycle runs for it (syncOnce), and rows are held of the cloud's only.    *)
TypeOK ==
    /\ row \in [Users -> Users \cup {None}]
    /\ session \in Users \cup {None}
    /\ cursor \in 1..MaxTime \cup {None}
    /\ \A u \in Users : held[u] \subseteq cloud[u]
    /\ missed \subseteq Users /\ overlapped \subseteq Users
    /\ \A s \in SignIns :
         At(s, "syncing") <=> cycle # Idle /\ cycle.by = s

(* Behind the cursor nothing is missing: the store holds every row an      *)
(* account had in the cloud when the cursor was saved, so that pulling     *)
(* from the cursor is enough (NeedsBootstrapPull, lastRemotePullSyncAt) -  *)
(* save for accounts behind another account's cursor, and after a purge    *)
(* beside a running cycle (PurgeSQLite takes no part in its mutex).        *)
RowsUpToCursor ==
    cursor # None =>
        \A u \in Users \ missed :
            \A t \in cloud[u] : t <= cursor => t \in held[u]

(* The store keeps an account's own password, and a sign-in answers for    *)
(* the account it asked for (authenticateAndHydrateRemoteUser) - unless    *)
(* that account's session was set while another sign-in was between        *)
(* AuthenticateRemoteSession and GetRemoteProfile.                         *)
SignInsDoNotMix ==
    /\ \A u \in Users \ overlapped : row[u] \in {None, u}
    /\ \/ signedIn = Nobody
       \/ signedIn.account \in overlapped
       \/ /\ signedIn.account = signedIn.asked
          /\ signedIn.password = signedIn.asked
=============================================================================
