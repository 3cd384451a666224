--------------------------- MODULE RemoteSession ---------------------------
(***************************************************************************)
(* The desktop sidecar's session with the cloud: the token pair that       *)
(* HTTPRemoteSyncService keeps in memory and in sync_runtime_flags, the    *)
(* refresh_tokens table of the server, and the goroutines that refresh,    *)
(* install, restore and clear the pair with no lock around the whole of    *)
(* any of these operations (http_sync_service.go, user_service.go).        *)
(*                                                                         *)
(* A refresh token is a signed JWT with no identifier of its own: two      *)
(* tokens of one user issued in the same second are the same string, and   *)
(* the table's UNIQUE hash refuses the second.  A token is therefore the   *)
(* pair of its user and its second.                                        *)
(***************************************************************************)
EXTENDS Naturals

CONSTANTS
    Users,
    NoUser,
    Refreshers,  \* the sync worker's cycle and the realtime client
    Logins,      \* login and restore requests, background revalidations
    MaxSeconds,  \* bound: seconds of real time
    MaxFaults    \* bound: lost answers, failed saves, crashes

ASSUME UserAssumption == NoUser \notin Users
ASSUME ProcessAssumption == Refreshers \cap Logins = {}
ASSUME BoundAssumption == MaxSeconds \in Nat /\ MaxFaults \in Nat

VARIABLES
    now,        \* the current second
    faults,     \* failures used up so far
    valid,      \* refresh tokens the server accepts
    revoked,    \* refresh tokens it has rotated away
    wanted,     \* the user signed in to the desktop application
    memory,     \* the service's session
    disk,       \* the persisted session
    pc,         \* where each goroutine stands
    held,       \* the token it sent, received or loaded
    disturbed   \* history: goroutines overlapped, a new token was lost or
                \* the application handed over what it should not have

serverVars == <<valid, revoked>>
processVars == <<pc, held>>
vars == <<now, faults, serverVars, wanted, memory, disk, processVars, disturbed>>

Processes == Refreshers \cup Logins
Stages == {"idle", "loaded", "asking", "rotating", "refused", "login",
           "supplied", "answered", "persisting"}

Tokens == [user : Users, at : Nat]
NoToken == [user |-> NoUser, at |-> 0]

Init ==
    /\ now = 0
    /\ faults = 0
    /\ valid = {}
    /\ revoked = {}
    /\ wanted = NoUser
    /\ memory = NoToken
    /\ disk = NoToken
    /\ pc = [p \in Processes |-> "idle"]
    /\ held = [p \in Processes |-> NoToken]
    /\ disturbed = FALSE

Fault == faults < MaxFaults /\ faults' = faults + 1

Busy == { p \in Processes : pc[p] # "idle" }

(* Goroutine p goes to a stage, holding a token.                           *)
Goto(p, stage, token) ==
    /\ pc' = [pc EXCEPT ![p] = stage]
    /\ held' = [held EXCEPT ![p] = token]

Finish(p) == Goto(p, "idle", NoToken)

(* A goroutine that starts while another is under way is remembered, and   *)
(* so is one that the application should not have started as it did.       *)
Start(p, stage, token, improper) ==
    /\ pc[p] = "idle"
    /\ Goto(p, stage, token)
    /\ disturbed' = (disturbed \/ improper \/ Busy # {})

Tick ==
    /\ now < MaxSeconds
    /\ now' = now + 1
    /\ UNCHANGED <<faults, serverVars, wanted, memory, disk, processVars,
                   disturbed>>

-----------------------------------------------------------------------------
(* The server                                                              *)

Fresh(u) == [user |-> u, at |-> now]
CanIssue(u) == Fresh(u) \notin valid \cup revoked

(* RefreshSession first reads the session of the token it is shown ...     *)
Check(p) ==
    /\ pc[p] = "asking"
    /\ Goto(p, IF held[p] \in valid THEN "rotating" ELSE "refused", held[p])
    /\ UNCHANGED <<now, faults, serverVars, wanted, memory, disk, disturbed>>

(* ... and Rotate later revokes it, without looking again, and stores its  *)
(* successor; a duplicate hash rolls both back and answers 500.            *)
Rotate(p) ==
    /\ pc[p] = "rotating"
    /\ IF CanIssue(held[p].user)
       THEN /\ valid' = (valid \ {held[p]}) \cup {Fresh(held[p].user)}
            /\ revoked' = revoked \cup {held[p]}
            /\ Goto(p, "answered", Fresh(held[p].user))
       ELSE Finish(p) /\ UNCHANGED serverVars
    /\ UNCHANGED <<now, faults, wanted, memory, disk, disturbed>>

(* A login stores a new session; the same duplicate makes it fail.         *)
IssueToken(p) ==
    /\ pc[p] = "login"
    /\ IF CanIssue(held[p].user)
       THEN /\ valid' = valid \cup {Fresh(held[p].user)}
            /\ Goto(p, "answered", Fresh(held[p].user))
       ELSE Finish(p) /\ UNCHANGED valid
    /\ UNCHANGED <<now, faults, revoked, wanted, memory, disk, disturbed>>

-----------------------------------------------------------------------------
(* The sidecar                                                             *)

(* A 401 on a sync request, or the realtime client before it connects.     *)
Refresh(p) ==
    /\ memory # NoToken
    /\ Start(p, "asking", memory, FALSE)
    /\ UNCHANGED <<now, faults, serverVars, wanted, memory, disk>>

(* Mutant of Refused: the 401 is treated as any other failure.             *)
RefusedIgnored(p) ==
    /\ pc[p] = "refused"
    /\ Finish(p)
    /\ UNCHANGED <<now, faults, serverVars, wanted, memory, disk, disturbed>>

(* A refused refresh clears whatever session is there by now.              *)
Refused(p) ==
    /\ pc[p] = "refused"
    /\ memory' = NoToken
    /\ disk' = NoToken
    /\ Finish(p)
    /\ UNCHANGED <<now, faults, serverVars, wanted, disturbed>>

(* SetSession, with an answer's pair or with the one a request brought.    *)
Install(p) ==
    /\ pc[p] \in {"answered", "supplied"}
    /\ memory' = held[p]
    /\ Goto(p, "persisting", held[p])
    /\ UNCHANGED <<now, faults, serverVars, wanted, disk, disturbed>>

(* Mutant of Persist: the pair is saved only when none is there yet.       *)
PersistOnce(p) ==
    /\ pc[p] = "persisting"
    /\ disk' = IF disk = NoToken THEN held[p] ELSE disk
    /\ Finish(p)
    /\ UNCHANGED <<now, faults, serverVars, wanted, memory, disturbed>>

Persist(p) ==
    /\ pc[p] = "persisting"
    /\ disk' = held[p]
    /\ Finish(p)
    /\ UNCHANGED <<now, faults, serverVars, wanted, memory, disturbed>>

(* Mutant of LoadPersisted: a session is loaded over the one in use only.  *)
LoadPersistedTwice(p) ==
    /\ memory # NoToken /\ disk # NoToken
    /\ Start(p, "loaded", disk, FALSE)
    /\ UNCHANGED <<now, faults, serverVars, wanted, memory, disk>>

(* EnsureRemoteSession, when there is none in memory, reads the persisted  *)
(* pair and installs it in a step of its own.                              *)
LoadPersisted(p) ==
    /\ memory = NoToken /\ disk # NoToken
    /\ Start(p, "loaded", disk, FALSE)
    /\ UNCHANGED <<now, faults, serverVars, wanted, memory, disk>>

Restore(p) ==
    /\ pc[p] = "loaded"
    /\ memory' = held[p]
    /\ Finish(p)
    /\ UNCHANGED <<now, faults, serverVars, wanted, disk, disturbed>>

(* The restore handler does so whatever is in memory ...                   *)
RestoreRequest(p) ==
    /\ disk # NoToken
    /\ Start(p, "loaded", disk, FALSE)
    /\ UNCHANGED <<now, faults, serverVars, wanted, memory, disk>>

Usable(token) == token \in valid /\ token.user = wanted

(* ... unless the request carries a pair: that one is installed and saved, *)
(* whichever pair the server ever issued it is.                            *)
RestoreSupplied(p, token) ==
    /\ Start(p, "supplied", token, ~Usable(token))
    /\ UNCHANGED <<now, faults, serverVars, wanted, memory, disk>>

(* The local credentials let the user in at once; the cloud login goes on  *)
(* in the background.  Nothing asks for a sign-out first.                  *)
Login(p, u) ==
    /\ wanted' = u
    /\ Start(p, "login", [user |-> u, at |-> 0], wanted \notin {NoUser, u})
    /\ UNCHANGED <<now, faults, serverVars, memory, disk>>

(* ClearSession, whatever is under way.                                    *)
Logout ==
    /\ wanted # NoUser
    /\ wanted' = NoUser
    /\ memory' = NoToken
    /\ disk' = NoToken
    /\ disturbed' = (disturbed \/ Busy # {})
    /\ UNCHANGED <<now, faults, serverVars, processVars>>

-----------------------------------------------------------------------------
(* Failures                                                                *)

(* The answer of a request does not arrive: the session is kept as it was. *)
AnswerLost(p) ==
    /\ pc[p] \in {"asking", "refused", "login", "answered"}
    /\ Fault
    /\ Finish(p)
    /\ disturbed' = (disturbed \/ pc[p] = "answered")
    /\ UNCHANGED <<now, serverVars, wanted, memory, disk>>

(* SQLite refuses the save: the new pair is in memory only.                *)
PersistFails(p) ==
    /\ pc[p] = "persisting"
    /\ Fault
    /\ Finish(p)
    /\ disturbed' = TRUE
    /\ UNCHANGED <<now, serverVars, wanted, memory, disk>>

(* The sidecar dies; the application keeps its own user in the keychain.   *)
Crash ==
    /\ Fault
    /\ memory' = NoToken
    /\ pc' = [p \in Processes |-> "idle"]
    /\ held' = [p \in Processes |-> NoToken]
    /\ disturbed' = (disturbed \/
                     \E p \in Processes : pc[p] \in {"answered", "persisting"})
    /\ UNCHANGED <<now, serverVars, wanted, disk>>

-----------------------------------------------------------------------------

Step(p) ==
    \/ Check(p) \/ Rotate(p) \/ IssueToken(p)
    \/ Refused(p) \/ Install(p) \/ Persist(p) \/ Restore(p)

Wake(p) == Refresh(p) \/ LoadPersisted(p)

Next ==
    \/ Tick
    \/ \E p \in Processes : Step(p) \/ AnswerLost(p) \/ PersistFails(p)
    \/ \E p \in Refreshers : Wake(p)
    \/ \E p \in Logins :
        \/ \E u \in Users : Login(p, u)
        \/ RestoreRequest(p)
        \/ \E token \in valid \cup revoked : RestoreSupplied(p, token)
    \/ Logout
    \/ Crash

Spec == Init /\ [][Next]_vars

(* A request that was sent ends, and the realtime client's loop ensures    *)
(* the session again before every connection.                              *)
Fairness ==
    /\ \A p \in Processes : WF_vars(Step(p))
    /\ \A p \in Refreshers : WF_vars(Wake(p))

FairSpec == Spec /\ Fairness

-----------------------------------------------------------------------------
(* Properties                                                              *)

TypeOK ==
    /\ now \in Nat
    /\ faults \in Nat
    /\ valid \in SUBSET Tokens
    /\ revoked \in SUBSET Tokens
    /\ wanted \in Users \cup {NoUser}
    /\ memory \in Tokens \cup {NoToken}
    /\ disk \in Tokens \cup {NoToken}
    /\ pc \in [Processes -> Stages]
    /\ held \in [Processes -> Tokens \cup {NoToken}]
    /\ disturbed \in BOOLEAN

(* Between operations the session in memory is the persisted one, and both *)
(* are tokens of the signed-in user that the server accepts (after a       *)
(* sign-out there is none), unless two operations overlapped, an answer or *)
(* a save was lost after the server issued a token, a restore request      *)
(* brought a pair that was not the user's or not good any more, or a user  *)
(* signed in over another one's session without a sign-out.                *)
SessionUsable ==
    ~disturbed /\ Busy = {} =>
        /\ disk # NoToken => Usable(disk)
        /\ memory # NoToken => memory = disk

(* A token the server has revoked does not stay in use: the next refresh   *)
(* clears or replaces it.                                                  *)
StaleTokensGo == memory \in revoked ~> memory \notin revoked

(* A persisted session is taken up again after a relaunch, unless it is    *)
(* cleared first.                                                          *)
PersistedSessionResumes ==
    memory = NoToken /\ disk # NoToken ~> memory # NoToken \/ disk = NoToken

=============================================================================
