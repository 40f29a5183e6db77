---------------------------- MODULE Installation ----------------------------
(***************************************************************************)
(* One GitHub installation: how github.service.ts claims, synchronizes and *)
(* reconciles it, and how github-webhook.controller.ts applies deliveries  *)
(* about it, while its owner suspends it and changes its repositories at   *)
(* GitHub, deletes an account and signs in with the next.                  *)
(*                                                                         *)
(* A command lists the repositories at GitHub before it locks the row it   *)
(* writes; a claim does so with its setup state locked.  A verification of *)
(* career.service.ts asks GitHub for its facts before it locks the row it  *)
(* relies on.  Deliveries come late, in any order, again, or never.  A     *)
(* mission is what ProofMission says it is; here only the repositories     *)
(* that missions have credit from.                                         *)
(***************************************************************************)
EXTENDS Naturals

CONSTANTS
    User,
    Repository,
    Attempt,        \* setup states users may ask for
    Request,        \* slots for requests between two steps
    NULL,
    MaxEvent,       \* bound on the changes at GitHub
    MaxCommand      \* bound on the claims, synchronizations, reconciliations
                    \*   and verifications

EventId == 1..MaxEvent

\* A change at GitHub and the delivery about it
Event == [kind : {"suspend", "unsuspend", "deleted", "added", "removed"},
          repositories : SUBSET Repository]

DeliveryState == {"LOCAL_APPLIED", "RECONCILED", "RECONCILE_FAILED"}

\* GithubInstallation with its active repositories
InstallationRow == [owner : User, status : {"ACTIVE", "SUSPENDED", "REVOKED"},
                    active : SUBSET Repository]

\* GithubInstallationClaimAttempt: open until consumed or ten minutes old
AttemptRow == [user : User, open : BOOLEAN]

\* What was listed at GitHub, after how many changes there
Listing == [repositories : SUBSET Repository, at : 0..MaxEvent]

InFlight ==
    [op : {"claim"}, attempt : Attempt, user : User, listing : Listing \cup {NULL}]
    \cup [op : {"synchronize"}, listing : Listing \cup {NULL}]
    \cup [op : {"reconcile"}, delivery : EventId, owner : User \cup {NULL},
          listing : Listing \cup {NULL}, stage : {"list", "failed", "done"}]
    \cup [op : {"verify"}, repository : Repository, listing : Listing \cup {NULL}]

ASSUME InstallationNull ==
    NULL \notin User \cup Event \cup DeliveryState \cup InstallationRow \cup AttemptRow
                  \cup Listing \cup InFlight
ASSUME InstallationBounds ==
    /\ MaxEvent \in Nat
    /\ MaxCommand \in Nat

VARIABLES
    status, granted,    \* the installation at GitHub and its repositories
    identity,           \* oauth_identities: the user GitHub's account is linked
                        \*   to, or NULL
    events,             \* changes at GitHub so far
    event,              \* [EventId -> Event or NULL]
    delivery,           \* github_webhook_deliveries: [EventId -> state or NULL]
    row,                \* github_installations, or NULL
    credit,             \* repositories from which missions have credit
    attempt,            \* [Attempt -> AttemptRow or NULL]
    request,            \* handlers between two steps
    commands,           \* commands so far
    newest,             \* history: the newest listing that was committed
    unclaimed,          \* history: deliveries reconciled when nobody had claimed
    overtaken,          \* history: a listing was committed after a later delivery
                        \*   that takes access away had been applied
    late                \* history: repositories last verified on facts that such
                        \*   a delivery had overtaken

github == <<status, granted, events, event>>
tables == <<delivery, row, credit, attempt>>
history == <<newest, unclaimed, overtaken, late>>
vars == <<status, granted, identity, events, event, delivery, row, credit, attempt,
          request, commands, newest, unclaimed, overtaken, late>>

Serving(w, op) == request[w] # NULL /\ request[w].op = op
Leave(w) == request' = [request EXCEPT ![w] = NULL]

Enter(w, r) ==
    /\ request[w] = NULL
    /\ commands < MaxCommand
    /\ commands' = commands + 1
    /\ request' = [request EXCEPT ![w] = r]

\* What GitHub lets the application do
Granted(r) == status = "ACTIVE" /\ r \in granted

\* getAuthorizedRepository
Accessible(r) == row # NULL /\ row.status = "ACTIVE" /\ r \in row.active

\* The delivery takes the access to r away.
Takes(d, r) ==
    /\ event[d] # NULL
    /\ \/ event[d].kind \in {"suspend", "deleted"}
       \/ event[d].kind = "removed" /\ r \in event[d].repositories

Init ==
    /\ status = "ACTIVE"
    /\ granted \in SUBSET Repository
    /\ identity \in User \cup {NULL}
    /\ events = 0
    /\ event = [d \in EventId |-> NULL]
    /\ delivery = [d \in EventId |-> NULL]
    /\ row = NULL
    /\ credit = {}
    /\ attempt = [a \in Attempt |-> NULL]
    /\ request = [w \in Request |-> NULL]
    /\ commands = 0
    /\ newest = 0
    /\ unclaimed = {}
    /\ overtaken = FALSE
    /\ late = {}

-----------------------------------------------------------------------------
(* GitHub *)

Happens(kind, repositories) ==
    /\ events < MaxEvent
    /\ events' = events + 1
    /\ event' = [event EXCEPT ![events'] = [kind |-> kind, repositories |-> repositories]]
    /\ UNCHANGED <<identity, tables, request, commands, history>>

Suspend ==
    /\ status = "ACTIVE"
    /\ status' = "SUSPENDED"
    /\ UNCHANGED granted
    /\ Happens("suspend", {})

Unsuspend ==
    /\ status = "SUSPENDED"
    /\ status' = "ACTIVE"
    /\ UNCHANGED granted
    /\ Happens("unsuspend", {})

Uninstall ==
    /\ status # "DELETED"
    /\ status' = "DELETED"
    /\ UNCHANGED granted
    /\ Happens("deleted", {})

AddRepository(r) ==
    /\ status # "DELETED"
    /\ r \notin granted
    /\ granted' = granted \cup {r}
    /\ UNCHANGED status
    /\ Happens("added", {r})

RemoveRepository(r) ==
    /\ status # "DELETED"
    /\ r \in granted
    /\ granted' = granted \ {r}
    /\ UNCHANGED status
    /\ Happens("removed", {r})

-----------------------------------------------------------------------------
(* Accounts *)

\* findOrCreateOAuthUser links GitHub's account to a user, who may have been
\* deleted since the user was read.
SignIn(u) ==
    /\ identity = NULL
    /\ identity' = u
    /\ UNCHANGED <<github, tables, request, commands, history>>

NotLocked(a) == FALSE
AttemptLocked(a) == \E w \in Request : Serving(w, "claim") /\ request[w].attempt = a

Owns(u) == row # NULL /\ row.owner = u

\* deleteAccount, which waits for a claim that holds one of the setup states it
\* deletes.  Requests that found their installation by its id find it no more,
\* not even when it is claimed again, and are refused.
DeleteAccount(u) ==
    /\ \A a \in Attempt : attempt[a] # NULL /\ attempt[a].user = u => ~AttemptLocked(a)
    /\ identity' = IF identity = u THEN NULL ELSE identity
    /\ attempt' = [a \in Attempt |->
          IF attempt[a] # NULL /\ attempt[a].user = u THEN NULL ELSE attempt[a]]
    /\ row' = IF Owns(u) THEN NULL ELSE row
    /\ credit' = IF Owns(u) THEN {} ELSE credit
    /\ request' = [w \in Request |->
          IF Owns(u) /\ (Serving(w, "synchronize") \/ Serving(w, "verify"))
          THEN NULL ELSE request[w]]
    /\ UNCHANGED <<github, delivery, commands, history>>

-----------------------------------------------------------------------------
(* Commands *)

\* createSetupState
CreateSetupState(a, u) ==
    /\ attempt[a] = NULL
    /\ attempt' = [attempt EXCEPT ![a] = [user |-> u, open |-> TRUE]]
    /\ UNCHANGED <<github, identity, delivery, row, credit, request, commands, history>>

AttemptExpires(a) ==
    /\ attempt[a] # NULL
    /\ attempt[a].open
    /\ attempt' = [attempt EXCEPT ![a].open = FALSE]
    /\ UNCHANGED <<github, identity, delivery, row, credit, request, commands, history>>

\* claimInstallation up to the identity of the installation at GitHub
ClaimBegin(w, a) ==
    /\ attempt[a] # NULL
    /\ attempt[a].open
    /\ ~AttemptLocked(a)
    /\ identity = attempt[a].user
    /\ status # "DELETED"
    /\ Enter(w, [op |-> "claim", attempt |-> a, user |-> identity, listing |-> NULL])
    /\ UNCHANGED <<github, identity, tables, history>>

\* synchronizeRepositories
SynchronizeBegin(w) ==
    /\ row # NULL
    /\ row.status = "ACTIVE"
    /\ Enter(w, [op |-> "synchronize", listing |-> NULL])
    /\ UNCHANGED <<github, identity, tables, history>>

\* refreshVerification up to getAuthorizedRepository
VerifyBegin(w, r) ==
    /\ Accessible(r)
    /\ Enter(w, [op |-> "verify", repository |-> r, listing |-> NULL])
    /\ UNCHANGED <<github, identity, tables, history>>

\* GitHub answers listInstallationRepositories, or a verification that asks for
\* facts of one repository; no token for an installation not active.
List(w) ==
    /\ request[w] # NULL
    /\ request[w].listing = NULL
    /\ Serving(w, "reconcile") => request[w].owner # NULL
    /\ Serving(w, "verify") => request[w].repository \in granted
    /\ status = "ACTIVE"
    /\ request' = [request EXCEPT ![w].listing = [repositories |-> granted, at |-> events]]
    /\ UNCHANGED <<github, identity, tables, commands, history>>

\* replaceRepositoryMembership: repositories no longer listed lose their credit.
Credited(listed) == credit \cap (listed \cup (Repository \ row.active))

\* What GitHub answered at a time was overtaken for r by a delivery.
OvertakenFor(at, r) == \E d \in EventId : d > at /\ delivery[d] # NULL /\ Takes(d, r)

CommittedAt(at) ==
    /\ newest' = IF at > newest THEN at ELSE newest
    /\ overtaken' = (overtaken \/ \E r \in Repository : OvertakenFor(at, r))
    /\ UNCHANGED <<unclaimed, late>>

SameOwner(u) == row.owner = u

\* The end of claimInstallation: a new row, or the owner's own made active
ClaimCommit(w) ==
    LET a == request[w].attempt
        u == request[w].user
        listing == request[w].listing IN
    /\ Serving(w, "claim")
    /\ listing # NULL
    /\ row # NULL => SameOwner(u)
    /\ row' = [owner |-> u, status |-> "ACTIVE", active |-> listing.repositories]
    /\ credit' = IF row = NULL THEN credit ELSE Credited(listing.repositories)
    /\ attempt' = [attempt EXCEPT ![a] = [user |-> u, open |-> FALSE]]
    /\ CommittedAt(listing.at)
    /\ Leave(w)
    /\ UNCHANGED <<github, identity, delivery, commands>>

ActiveBefore == TRUE
StillActive == row.status = "ACTIVE"

\* The end of synchronizeRepositories, of an installation that is still active
SynchronizeCommit(w) ==
    LET listing == request[w].listing IN
    /\ Serving(w, "synchronize")
    /\ listing # NULL
    /\ StillActive
    /\ row' = [row EXCEPT !.active = listing.repositories]
    /\ credit' = Credited(listing.repositories)
    /\ CommittedAt(listing.at)
    /\ Leave(w)
    /\ UNCHANGED <<github, identity, delivery, attempt, commands>>

\* A command that is refused, or fails at GitHub, or dies with its process; of
\* a reconciliation the delivery stays LOCAL_APPLIED.
Abandon(w) ==
    /\ request[w] # NULL
    /\ Leave(w)
    /\ UNCHANGED <<github, identity, tables, commands, history>>

-----------------------------------------------------------------------------
(* Deliveries *)

Reconciles(d) == event[d].kind \in {"unsuspend", "added"}

\* shouldReconcile, for a delivery that is known or new
ShouldReconcile(d) == Reconciles(d) /\ delivery[d] # "RECONCILED"

\* Missions whose credit an event takes: all of them, or those of a repository
CreditLeft(d) == credit \ {r \in Repository : Takes(d, r)}

AppliedButSuspend(d) ==
    CASE event[d].kind = "deleted" -> [row EXCEPT !.status = "REVOKED", !.active = {}]
      [] event[d].kind = "removed" -> [row EXCEPT !.active = @ \ event[d].repositories]
      [] OTHER -> row
Applied(d) ==
    CASE event[d].kind = "deleted" -> [row EXCEPT !.status = "REVOKED", !.active = {}]
      [] event[d].kind = "suspend" -> [row EXCEPT !.status = "SUSPENDED"]
      [] event[d].kind = "removed" -> [row EXCEPT !.active = @ \ event[d].repositories]
      [] OTHER -> row

StoredAsReconciled == "RECONCILED"
FirstState == "LOCAL_APPLIED"

\* The transaction of applyDelivery; what was delivered before is applied no
\* second time, but reconciled until that has succeeded.
Deliver(d) ==
    /\ event[d] # NULL
    /\ IF delivery[d] # NULL THEN UNCHANGED <<row, credit, delivery>>
       ELSE /\ delivery' = [delivery EXCEPT ![d] = FirstState]
            /\ row' = IF row = NULL THEN row ELSE Applied(d)
            /\ credit' = IF row = NULL THEN credit ELSE CreditLeft(d)
    /\ IF ShouldReconcile(d)
       THEN \E w \in Request :
                Enter(w, [op |-> "reconcile", delivery |-> d, owner |-> NULL,
                          listing |-> NULL, stage |-> "list"])
       ELSE UNCHANGED <<request, commands>>
    /\ UNCHANGED <<github, identity, attempt, history>>

\* reconcileInstallation up to the owner of the installation
ReconcileBegin(w) ==
    /\ Serving(w, "reconcile")
    /\ request[w].stage = "list"
    /\ request[w].owner = NULL
    /\ row # NULL
    /\ request' = [request EXCEPT ![w].owner = row.owner]
    /\ UNCHANGED <<github, identity, tables, commands, history>>

\* reconcileInstallation when nobody has claimed the installation
ReconcileNothing(w) ==
    /\ Serving(w, "reconcile")
    /\ request[w].stage = "list"
    /\ request[w].owner = NULL
    /\ row = NULL
    /\ request' = [request EXCEPT ![w].stage = "done"]
    /\ unclaimed' = unclaimed \cup {request[w].delivery}
    /\ UNCHANGED <<github, identity, tables, commands, newest, overtaken, late>>

\* Its transaction: whatever the row of the same owner says, it is active now.
ReconcileCommit(w) ==
    LET listing == request[w].listing IN
    /\ Serving(w, "reconcile")
    /\ listing # NULL
    /\ Owns(request[w].owner)
    /\ row' = [row EXCEPT !.status = "ACTIVE", !.active = listing.repositories]
    /\ credit' = Credited(listing.repositories)
    /\ CommittedAt(listing.at)
    /\ request' = [request EXCEPT ![w].stage = "done", ![w].owner = NULL, ![w].listing = NULL]
    /\ UNCHANGED <<github, identity, delivery, attempt, commands>>

ReconcileFails(w) ==
    /\ Serving(w, "reconcile")
    /\ request[w].stage = "list"
    /\ request' = [request EXCEPT ![w].stage = "failed", ![w].owner = NULL, ![w].listing = NULL]
    /\ UNCHANGED <<github, identity, tables, commands, history>>

\* The last transaction of applyDelivery
MarkDelivery(w) ==
    /\ Serving(w, "reconcile")
    /\ request[w].stage \in {"failed", "done"}
    /\ delivery' = [delivery EXCEPT ![request[w].delivery] =
          IF request[w].stage = "done" THEN "RECONCILED" ELSE "RECONCILE_FAILED"]
    /\ Leave(w)
    /\ UNCHANGED <<github, identity, row, credit, attempt, commands, history>>

LockedWhateverState(r) == row # NULL
LockedInstallation(r) == Accessible(r)

\* A verification that GitHub has answered gives its mission credit, in the
\* transaction that finds the installation and the repository in the tables.
Approve(w) ==
    LET r == request[w].repository
        facts == request[w].listing IN
    /\ Serving(w, "verify")
    /\ facts # NULL
    /\ LockedInstallation(r)
    /\ credit' = credit \cup {r}
    /\ late' = IF OvertakenFor(facts.at, r) THEN late \cup {r} ELSE late \ {r}
    /\ Leave(w)
    /\ UNCHANGED <<github, identity, delivery, row, attempt, commands, newest, unclaimed,
                   overtaken>>

Next ==
    \/ Suspend \/ Unsuspend \/ Uninstall
    \/ \E r \in Repository : AddRepository(r) \/ RemoveRepository(r)
    \/ \E u \in User : SignIn(u) \/ DeleteAccount(u)
    \/ \E a \in Attempt, u \in User : CreateSetupState(a, u)
    \/ \E a \in Attempt : AttemptExpires(a)
    \/ \E w \in Request, a \in Attempt : ClaimBegin(w, a)
    \/ \E w \in Request, r \in Repository : VerifyBegin(w, r)
    \/ \E w \in Request :
        \/ SynchronizeBegin(w) \/ List(w)
        \/ ClaimCommit(w) \/ SynchronizeCommit(w) \/ Approve(w) \/ Abandon(w)
        \/ ReconcileBegin(w) \/ ReconcileNothing(w) \/ ReconcileCommit(w)
        \/ ReconcileFails(w) \/ MarkDelivery(w)
    \/ \E d \in EventId : Deliver(d)

Spec == Init /\ [][Next]_vars

-----------------------------------------------------------------------------
(* Properties *)

\* The types, and that an installation deleted at GitHub has no active
\* repository until it is claimed or reconciled again.
InstallationTypeOK ==
    /\ status \in {"ACTIVE", "SUSPENDED", "DELETED"}
    /\ granted \subseteq Repository
    /\ identity \in User \cup {NULL}
    /\ events \in 0..MaxEvent
    /\ event \in [EventId -> Event \cup {NULL}]
    /\ delivery \in [EventId -> DeliveryState \cup {NULL}]
    /\ row \in InstallationRow \cup {NULL}
    /\ row # NULL /\ row.status = "REVOKED" => row.active = {}
    /\ credit \subseteq Repository
    /\ attempt \in [Attempt -> AttemptRow \cup {NULL}]
    /\ request \in [Request -> InFlight \cup {NULL}]
    /\ commands \in 0..MaxCommand
    /\ newest \in 0..MaxEvent
    /\ unclaimed \subseteq EventId
    /\ overtaken \in BOOLEAN
    /\ late \subseteq Repository

\* A delivery that takes the access to r away and was not applied yet
Outstanding(r) == \E d \in EventId : delivery[d] = NULL /\ Takes(d, r)

\* A mission has credit from a repository GitHub has withdrawn and said so only
\* if both checks of its last verification failed it: the facts were asked before
\* the withdrawal, whose delivery was applied before the lock, and the tables
\* admitted the repository by then because an overtaken listing was committed.
CreditIsGranted ==
    \A r \in credit : Granted(r) \/ Outstanding(r) \/ (overtaken /\ r \in late)

\* The tables admit a repository GitHub does not only until the delivery comes,
\* or because a listing made before a change was committed after its delivery:
\* reconcileInstallation sets an installation ACTIVE that was suspended or
\* deleted meanwhile.
AccessUnlessOvertaken ==
    ~overtaken => \A r \in Repository : Accessible(r) => Granted(r) \/ Outstanding(r)

\* A delivery stored as RECONCILED was followed by a listing that has what it
\* announced, through failures, restarts and deliveries of the same again.
ReconciledMeansListed ==
    \A d \in EventId :
        delivery[d] = "RECONCILED" => newest >= d \/ d \in unclaimed

\* An installation belongs to the account its GitHub account is linked to, so
\* the next account of its owner can claim it: whatever a claim read before an
\* account is deleted, no row of a deleted account is left in its way.
OwnerIsLinked == row # NULL => row.owner = identity
=============================================================================
