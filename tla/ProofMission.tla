---------------------------- MODULE ProofMission ----------------------------
(***************************************************************************)
(* The life of a proof mission: criteria, pull request binding, machine    *)
(* verification, human review, publication and its lease, as the handlers  *)
(* of services/api/src/career/career.service.ts change it, together with   *)
(* the GitHub webhook controller and the repository reconciliation, which  *)
(* change the same rows from the other side.                               *)
(*                                                                         *)
(* Atomicity.  A handler's database transaction is one action: it locks    *)
(* the mission row (FOR UPDATE) before it reads anything it decides on.    *)
(* What a handler reads BEFORE its transaction (the mission snapshot, the  *)
(* provider's facts, the criteria) is a step of its own and is kept in     *)
(* request[w] until the transaction.  reviewMission asks the provider for  *)
(* the head inside its transaction, once, while it holds the mission row,  *)
(* so a delivery about that mission waits for it: it is one action.        *)
(* A rolled back transaction or a failed provider call is AbandonRequest.  *)
(* A replayed idempotency key returns before anything is written, which is *)
(* a stuttering step here; a replayed renewal still checks, and withdraws  *)
(* the credit when something differs, which is RenewMismatch.              *)
(***************************************************************************)
EXTENDS Naturals, FiniteSets

CONSTANTS
    Mission,        \* the missions of one owner
    Pull,           \* pull requests a mission may be bound to
    Repository,     \* repositories of the owner's installation
    RepositoryOf,   \* [Pull -> Repository]
    Head,           \* head commits
    Check,          \* criteria a machine evaluates (merged, branch, path, check)
    HumanCheck,     \* the criterion only a reviewer confirms
    User,           \* accounts with a reviewer role, the owner may be one
    Owner,          \* the account that owns the missions
    Request,        \* slots for requests that are between two steps
    NULL,
    CriteriaInput,  \* lists of criteria an owner may send
    Operation,      \* multi-step commands an owner may send
    MaxCriteriaVersion, \* bound on criteriaVersion, which starts at 1
    MaxBindingVersion,  \* bound on bindingVersion, which starts at 0
    MaxEvents,      \* bound on the provider's changes
    Lease           \* PUBLICATION_LEASE_MS in ticks of the clock

Criterion == Check \cup {HumanCheck}

\* PullRequestFacts: what one observation of the provider says.
Facts == [pull : Pull, head : Head, passing : SUBSET Check]

\* ProofVerificationRun.  A row is identified by these columns: the unique
\* index on them makes an equal observation the same row.
Run == [mission : Mission, bindingVersion : Nat, criteriaVersion : Nat,
        criteria : SUBSET Criterion, facts : Facts]

Decision == {"APPROVED", "RETURNED"}

\* ProofReview
Review == [run : Run, reviewer : User, decision : Decision]

MissionState ==
    {"DRAFT", "BOUND", "REVIEW_PENDING", "APPROVED", "RETURNED", "ARCHIVED"}

\* ProofMission with its criteria
MissionRow == [state : MissionState, pull : Pull \cup {NULL},
               bindingVersion : Nat, criteriaVersion : Nat,
               criteria : SUBSET Criterion,
               run : Run \cup {NULL}, review : Review \cup {NULL}]

PublicationState == {"ACTIVE", "UNPUBLISHED", "INVALIDATED"}

LeaseTime == 0..Lease

\* PublishedProof: lease is what is left of validUntil, 0 when it has elapsed.
Publication == [state : PublicationState, run : Run, review : Review,
                lease : LeaseTime]

ProfileState == {"NONE", "ENABLED", "DISABLED"}

\* A webhook delivery GitHub has made or will make: check stands for
\* check_run and status, which carry a head and no pull number.
Delivery == [id : 1..MaxEvents, kind : {"pull_request", "check"},
             pull : Pull, head : Head]

\* A request after its unlocked reads.
InFlight == [op : Operation, stage : {"snapshot", "pull", "fetched", "ready"},
             mission : Mission, pull : Pull, bindingVersion : Nat,
             criteriaVersion : Nat, facts : Facts \cup {NULL},
             criteria : SUBSET Criterion]

ASSUME NullAssumption ==
    /\ NULL \notin Pull
    /\ NULL \notin Run
    /\ NULL \notin Review
    /\ NULL \notin Facts
    /\ NULL \notin Publication
    /\ NULL \notin InFlight
ASSUME RepositoryAssumption == RepositoryOf \in [Pull -> Repository]
ASSUME CriterionAssumption == HumanCheck \notin Check
ASSUME InputAssumption ==
    /\ CriteriaInput \subseteq (SUBSET Criterion) \ {{}}
    /\ Operation \subseteq {"refresh", "renew", "publish"}
ASSUME BoundAssumption ==
    /\ MaxCriteriaVersion \in Nat
    /\ MaxBindingVersion \in Nat
    /\ MaxEvents \in Nat
    /\ Lease \in Nat \ {0}

VARIABLES
    mission,    \* proof_missions and proof_criteria
    runs,       \* proof_verification_runs
    reviews,    \* proof_reviews
    publication,\* published_proofs of the owner's profile, by mission
    profile,    \* proof_profiles.state of the owner
    available,  \* repository row active and installation ACTIVE
    applied,    \* github_webhook_deliveries
    request,    \* handlers between their unlocked reads and their transaction
    provider,   \* GitHub: the facts of every pull request now
    sent,       \* GitHub: deliveries made so far
    events      \* GitHub: number of changes so far

database == <<mission, runs, reviews, publication, profile, available, applied>>
github == <<provider, sent, events>>
vars == <<mission, runs, reviews, publication, profile, available, applied,
          request, provider, sent, events>>

-----------------------------------------------------------------------------
(* Helpers of the handlers *)

\* machineCriteriaPassed over evaluateCriteria: the human criterion is left out.
MachineCriteriaPassed(criteria, facts) == criteria \cap Check \subseteq facts.passing

Passed(run) == MachineCriteriaPassed(run.criteria, run.facts)

\* The state-dependent part of requireCurrentPassingRun.
CurrentPassingRun(row) ==
    /\ row.run # NULL
    /\ Passed(row.run)
    /\ row.run.bindingVersion = row.bindingVersion
    /\ row.run.criteriaVersion = row.criteriaVersion

\* Mutants of Cleared: one of the two columns is forgotten.
ClearedButRun(row, s) == [row EXCEPT !.state = s, !.review = NULL]

ClearedButReview(row, s) == [row EXCEPT !.state = s, !.run = NULL]

\* clearEligibility with the state every caller but archiveMission sets.
Cleared(row, s) == [row EXCEPT !.state = s, !.run = NULL, !.review = NULL]

\* invalidatePublications
Invalidated(p) ==
    IF p # NULL /\ p.state = "ACTIVE" THEN [p EXCEPT !.state = "INVALIDATED"] ELSE p

\* The update of unpublishProof and updateProofProfile.
Unpublished(p) ==
    IF p # NULL /\ p.state = "ACTIVE" THEN [p EXCEPT !.state = "UNPUBLISHED"] ELSE p

\* Mutant: the criteria may have been replaced since the snapshot.
BindingUnchangedButCriteria(row, req) ==
    row.bindingVersion = req.bindingVersion /\ row.pull = req.pull

\* assertBindingUnchanged
BindingUnchanged(row, req) ==
    /\ row.bindingVersion = req.bindingVersion
    /\ row.criteriaVersion = req.criteriaVersion
    /\ row.pull = req.pull

Granted(p) == available[RepositoryOf[p]]

\* A review that carries the current approval of row's run by another account.
EligibleReview(row) ==
    /\ row.review \in reviews
    /\ row.review.run = row.run
    /\ row.review.decision = "APPROVED"
    /\ row.review.reviewer # Owner

\* Mutant of Decided: a returned run may be decided again.
ApprovedBefore(run) == \E r \in reviews : r.run = run /\ r.decision = "APPROVED"

Decided(run) == \E r \in reviews : r.run = run

\* The mission goes to state s without run and review, its publication stops.
ClearEligibility(m, s) ==
    /\ mission' = [mission EXCEPT ![m] = Cleared(@, s)]
    /\ publication' = [publication EXCEPT ![m] = Invalidated(@)]

\* Mutant of InvalidateAll: the publications are forgotten.
InvalidateMissionsOnly(S) ==
    /\ mission' = [m \in Mission |->
                     IF m \in S /\ mission[m].state # "ARCHIVED"
                     THEN Cleared(mission[m], "BOUND") ELSE mission[m]]
    /\ UNCHANGED publication

\* GithubWebhookController.invalidate and GithubService.invalidateRepositoryCredit
InvalidateAll(S) ==
    LET hit == {m \in S : mission[m].state # "ARCHIVED"} IN
    /\ mission' = [m \in Mission |->
                     IF m \in hit THEN Cleared(mission[m], "BOUND") ELSE mission[m]]
    /\ publication' = [m \in Mission |->
                     IF m \in hit THEN Invalidated(publication[m]) ELSE publication[m]]

BoundTo(R) == {m \in Mission : /\ mission[m].pull # NULL
                               /\ RepositoryOf[mission[m].pull] \in R}

-----------------------------------------------------------------------------
(* Initial state: missions as createMission saves them, nothing published *)

NewMission == [state |-> "DRAFT", pull |-> NULL, bindingVersion |-> 0,
               criteriaVersion |-> 1, criteria |-> {}, run |-> NULL,
               review |-> NULL]

Init ==
    /\ mission = [m \in Mission |-> NewMission]
    /\ runs = {}
    /\ reviews = {}
    /\ publication = [m \in Mission |-> NULL]
    /\ profile = "NONE"
    /\ available = [r \in Repository |-> TRUE]
    /\ applied = {}
    /\ request = [w \in Request |-> NULL]
    /\ provider \in [Pull -> Facts]
    /\ \A p \in Pull : provider[p].pull = p
    /\ sent = {}
    /\ events = 0

-----------------------------------------------------------------------------
(* Commands that are one transaction *)

\* replaceCriteria
ReplaceCriteria(m, c) ==
    LET row == mission[m] IN
    /\ row.state \in {"DRAFT", "BOUND", "RETURNED"}
    /\ row.criteriaVersion < MaxCriteriaVersion
    /\ mission' = [mission EXCEPT ![m] =
            [Cleared(row, IF row.pull # NULL THEN "BOUND" ELSE "DRAFT") EXCEPT
                !.criteria = c, !.criteriaVersion = @ + 1]]
    /\ publication' = [publication EXCEPT ![m] = Invalidated(@)]
    /\ UNCHANGED <<runs, reviews, profile, available, applied, request, github>>

\* bindPullRequest: what it resolves at the provider before its transaction
\* is the identity of the pull request, which never changes.
BindPullRequest(m, p) ==
    LET row == mission[m] IN
    /\ Granted(p)
    /\ row.state # "ARCHIVED"
    /\ row.bindingVersion < MaxBindingVersion
    /\ mission' = [mission EXCEPT ![m] =
            [Cleared(row, "BOUND") EXCEPT !.pull = p, !.bindingVersion = @ + 1]]
    /\ publication' = [publication EXCEPT ![m] = Invalidated(@)]
    /\ UNCHANGED <<runs, reviews, profile, available, applied, request, github>>

\* submitForReview
SubmitForReview(m) ==
    LET row == mission[m] IN
    /\ row.state \in {"BOUND", "RETURNED"}
    /\ CurrentPassingRun(row)
    /\ ~Decided(row.run)
    /\ mission' = [mission EXCEPT ![m].state = "REVIEW_PENDING"]
    /\ UNCHANGED <<runs, reviews, publication, profile, available, applied,
                   request, github>>

\* What reviewMission checks before it asks the provider for the head.
UnderReview(m, u) ==
    LET row == mission[m] IN
    /\ u # Owner
    /\ row.state = "REVIEW_PENDING"
    /\ CurrentPassingRun(row)
    /\ Granted(row.pull)

\* reviewMission when the provider's head is the head of the run
ReviewMission(m, u, d) ==
    LET row == mission[m]
        review == [run |-> row.run, reviewer |-> u, decision |-> d] IN
    /\ UnderReview(m, u)
    /\ provider[row.pull].head = row.run.facts.head
    /\ ~Decided(row.run)
    /\ reviews' = reviews \cup {review}
    /\ mission' = [mission EXCEPT ![m] = [row EXCEPT !.state = d, !.review = review]]
    /\ publication' = IF d = "RETURNED"
                      THEN [publication EXCEPT ![m] = Invalidated(@)]
                      ELSE publication
    /\ UNCHANGED <<runs, profile, available, applied, request, github>>

\* reviewMission when the head has moved: the run loses its credit, then 409
ReviewStaleHead(m, u) ==
    LET row == mission[m] IN
    /\ UnderReview(m, u)
    /\ provider[row.pull].head # row.run.facts.head
    /\ ClearEligibility(m, "BOUND")
    /\ UNCHANGED <<runs, reviews, profile, available, applied, request, github>>

\* archiveMission
ArchiveMission(m) ==
    /\ mission[m].state # "REVIEW_PENDING"
    /\ ClearEligibility(m, "ARCHIVED")
    /\ UNCHANGED <<runs, reviews, profile, available, applied, request, github>>

\* updateProofProfile: turning the profile off unpublishes every proof.
UpdateProofProfile(s) ==
    /\ profile' = s
    /\ publication' = IF s = "DISABLED"
                      THEN [m \in Mission |-> Unpublished(publication[m])]
                      ELSE publication
    /\ UNCHANGED <<mission, runs, reviews, available, applied, request, github>>

\* unpublishProof
UnpublishProof(m) ==
    /\ profile # "NONE"
    /\ publication' = [publication EXCEPT ![m] = Unpublished(@)]
    /\ UNCHANGED <<mission, runs, reviews, profile, available, applied, request,
                   github>>

-----------------------------------------------------------------------------
(* Commands that read before their transaction *)

\* requireOwnedBoundMission: the unlocked snapshot
BeginRequest(w, op, m) ==
    LET row == mission[m] IN
    /\ request[w] = NULL
    /\ row.pull # NULL
    /\ row.state # "ARCHIVED"
    /\ request' = [request EXCEPT ![w] =
            [op |-> op, stage |-> "snapshot", mission |-> m, pull |-> row.pull,
             bindingVersion |-> row.bindingVersion,
             criteriaVersion |-> row.criteriaVersion,
             facts |-> NULL, criteria |-> {}]]
    /\ UNCHANGED <<database, github>>

\* The first answer of getPullRequestFacts, the pull request with its head and
\* branches; publishProof asks for the head only and reads no criteria.
FetchPull(w) ==
    LET req == request[w] IN
    /\ req # NULL
    /\ req.stage = "snapshot"
    /\ Granted(req.pull)
    /\ request' = [request EXCEPT ![w] =
            [req EXCEPT !.facts = provider[req.pull],
                        !.stage = IF req.op = "publish" THEN "ready" ELSE "pull"]]
    /\ UNCHANGED <<database, github>>

\* What getPullRequestFacts can end with: some criteria rest on the first
\* answer, others on the later ones (files, checks and statuses); the checks
\* of a head that is no longer the head are not in the model.
Torn(before, now, passing) ==
    before.head = now.head =>
        /\ before.passing \cap now.passing \subseteq passing
        /\ passing \subseteq before.passing \cup now.passing

\* The later answers of getPullRequestFacts, asked for the head of the first
FetchDetails(w) ==
    LET req == request[w] IN
    /\ req # NULL
    /\ req.stage = "pull"
    /\ \E passing \in SUBSET Check :
        /\ Torn(req.facts, provider[req.pull], passing)
        /\ request' = [request EXCEPT ![w] =
                [req EXCEPT !.facts = [req.facts EXCEPT !.passing = passing],
                            !.stage = "fetched"]]
    /\ UNCHANGED <<database, github>>

\* The criteria as refreshVerification and renewPublicationLease read them
ReadCriteria(w) ==
    LET req == request[w] IN
    /\ req # NULL
    /\ req.stage = "fetched"
    /\ request' = [request EXCEPT ![w] =
            [req EXCEPT !.criteria = mission[req.mission].criteria, !.stage = "ready"]]
    /\ UNCHANGED <<database, github>>

\* A provider error, a lost client, or a transaction that throws
AbandonRequest(w) ==
    /\ request[w] # NULL
    /\ request' = [request EXCEPT ![w] = NULL]
    /\ UNCHANGED <<database, github>>

\* Mutant of Locked: the installation and the repository are not locked again.
LockedButInstallation(w, op) ==
    LET req == request[w] IN
    /\ req # NULL
    /\ req.op = op
    /\ req.stage = "ready"
    /\ BindingUnchanged(mission[req.mission], req)

\* The start of the three transactions: lockInstallation, lockOwnedMission,
\* assertBindingUnchanged.
Locked(w, op) ==
    LET req == request[w] IN
    /\ req # NULL
    /\ req.op = op
    /\ req.stage = "ready"
    /\ Granted(req.pull)
    /\ BindingUnchanged(mission[req.mission], req)

\* The run refreshVerification finds or inserts.
Observation(req) ==
    LET row == mission[req.mission] IN
    [mission |-> req.mission, bindingVersion |-> row.bindingVersion,
     criteriaVersion |-> row.criteriaVersion, criteria |-> req.criteria,
     facts |-> req.facts]

\* refreshVerification
RefreshVerification(w) ==
    LET req == request[w]
        m == req.mission
        run == Observation(req) IN
    /\ Locked(w, "refresh")
    /\ req.criteria # {}
    /\ req.facts.pull = mission[m].pull
    /\ runs' = runs \cup {run}
    /\ mission' = [mission EXCEPT ![m] =
            [mission[m] EXCEPT !.run = run, !.review = NULL, !.state = "BOUND"]]
    /\ publication' = [publication EXCEPT ![m] = Invalidated(@)]
    /\ request' = [request EXCEPT ![w] = NULL]
    /\ UNCHANGED <<reviews, profile, available, applied, github>>

\* publishProof when the head it read is the head of the approved run
PublishProof(w) ==
    LET req == request[w]
        m == req.mission
        row == mission[m]
        old == publication[m] IN
    /\ Locked(w, "publish")
    /\ row.state = "APPROVED"
    /\ CurrentPassingRun(row)
    /\ req.facts.head = row.run.facts.head
    /\ EligibleReview(row)
    /\ profile = "ENABLED"
    /\ old # NULL => old.lease > 0
    /\ publication' = [publication EXCEPT ![m] =
            [state |-> "ACTIVE", run |-> row.run, review |-> row.review,
             lease |-> IF old = NULL THEN Lease ELSE old.lease]]
    /\ request' = [request EXCEPT ![w] = NULL]
    /\ UNCHANGED <<mission, runs, reviews, profile, available, applied, github>>

\* publishProof when the head it read is another
PublishStaleHead(w) ==
    LET req == request[w]
        row == mission[req.mission] IN
    /\ Locked(w, "publish")
    /\ row.state = "APPROVED"
    /\ CurrentPassingRun(row)
    /\ req.facts.head # row.run.facts.head
    /\ ClearEligibility(req.mission, "BOUND")
    /\ request' = [request EXCEPT ![w] = NULL]
    /\ UNCHANGED <<runs, reviews, profile, available, applied, github>>

\* Mutant of StillVerified: the facts are not compared.
StillApproved(row, req) == row.state = "APPROVED"

\* renewPublicationLease: the approval and everything it rests on as observed
StillVerified(row, req) ==
    /\ row.state = "APPROVED"
    /\ req.facts = row.run.facts
    /\ req.criteria = row.run.criteria
    /\ MachineCriteriaPassed(req.criteria, req.facts)

\* Mutant of Renewed: the lease is added to what is left of the old one.
RenewedFromOldEnd(old, row) ==
    [old EXCEPT !.run = row.run, !.review = row.review, !.lease = @ + Lease]

\* A publication that is not active takes the approval of the mission over; an
\* active one has it already.
Renewed(old, row) ==
    [old EXCEPT !.run = row.run, !.review = row.review, !.lease = Lease]

RenewPublicationLease(w) ==
    LET req == request[w]
        m == req.mission
        row == mission[m]
        old == publication[m] IN
    /\ Locked(w, "renew")
    /\ CurrentPassingRun(row)
    /\ StillVerified(row, req)
    /\ EligibleReview(row)
    /\ profile = "ENABLED"
    /\ old # NULL
    /\ old.state = "ACTIVE" => old.run = row.run /\ old.review = row.review
    /\ publication' = [publication EXCEPT ![m] = Renewed(old, row)]
    /\ request' = [request EXCEPT ![w] = NULL]
    /\ UNCHANGED <<mission, runs, reviews, profile, available, applied, github>>

\* renewPublicationLease when anything differs: credit and publication go
RenewMismatch(w) ==
    LET req == request[w]
        row == mission[req.mission] IN
    /\ Locked(w, "renew")
    /\ CurrentPassingRun(row)
    /\ ~StillVerified(row, req)
    /\ ClearEligibility(req.mission, "BOUND")
    /\ request' = [request EXCEPT ![w] = NULL]
    /\ UNCHANGED <<runs, reviews, profile, available, applied, github>>

-----------------------------------------------------------------------------
(* GitHub: changes of pull requests, deliveries, access *)

\* A push, a merge, a rebase, an edit: anything a pull_request event reports,
\* changes of the facts or not.
PullRequestEvent(p, f) ==
    /\ events < MaxEvents
    /\ f.pull = p
    /\ events' = events + 1
    /\ provider' = [provider EXCEPT ![p] = f]
    /\ sent' = sent \cup {[id |-> events + 1, kind |-> "pull_request",
                           pull |-> p, head |-> f.head]}
    /\ UNCHANGED <<database, request>>

\* A check or a status of the head changes.
CheckEvent(p, f) ==
    /\ events < MaxEvents
    /\ f.pull = p
    /\ f.head = provider[p].head
    /\ f.passing # provider[p].passing
    /\ events' = events + 1
    /\ provider' = [provider EXCEPT ![p] = f]
    /\ sent' = sent \cup {[id |-> events + 1, kind |-> "check",
                           pull |-> p, head |-> f.head]}
    /\ UNCHANGED <<database, request>>

\* Mutant of Affected: a pull_request delivery is looked up by its head too.
AffectedByHead(d) ==
    {m \in BoundTo({RepositoryOf[d.pull]}) :
        mission[m].run # NULL /\ mission[m].run.facts.head = d.head}

\* Missions a delivery is about: by pull request, or by repository and the
\* head of the current run.
Affected(d) ==
    IF d.kind = "pull_request"
    THEN {m \in Mission : mission[m].pull = d.pull}
    ELSE {m \in BoundTo({RepositoryOf[d.pull]}) :
             mission[m].run # NULL /\ mission[m].run.facts.head = d.head}

\* applyDelivery for pull_request, check_run and status: a delivery may come
\* late, out of order or never; a redelivered id inserts nothing and returns.
ApplyDelivery(d) ==
    /\ d \in sent \ applied
    /\ applied' = applied \cup {d}
    /\ InvalidateAll(Affected(d))
    /\ UNCHANGED <<runs, reviews, profile, available, request, github>>

\* applyDelivery for installation deleted or suspend, and repositories removed
AccessRevoked(R) ==
    /\ available' = [r \in Repository |-> available[r] /\ r \notin R]
    /\ InvalidateAll(BoundTo(R))
    /\ UNCHANGED <<runs, reviews, profile, applied, request, github>>

\* reconcileInstallation and synchronizeRepositories: the repositories become
\* exactly R, and missions of the dropped ones lose their credit.
MembershipReplaced(R) ==
    LET dropped == {r \in Repository : available[r] /\ r \notin R} IN
    /\ available' = [r \in Repository |-> r \in R]
    /\ InvalidateAll(BoundTo(dropped))
    /\ UNCHANGED <<runs, reviews, profile, applied, request, github>>

\* The clock: every lease that has not elapsed gets shorter.
Tick ==
    /\ \E m \in Mission : publication[m] # NULL /\ publication[m].lease > 0
    /\ publication' = [m \in Mission |->
            IF publication[m] # NULL /\ publication[m].lease > 0
            THEN [publication[m] EXCEPT !.lease = @ - 1] ELSE publication[m]]
    /\ UNCHANGED <<mission, runs, reviews, profile, available, applied, request,
                   github>>

-----------------------------------------------------------------------------
Next ==
    \/ \E m \in Mission :
        \/ \E c \in CriteriaInput : ReplaceCriteria(m, c)
        \/ \E p \in Pull : BindPullRequest(m, p)
        \/ SubmitForReview(m)
        \/ \E u \in User :
            \/ \E d \in Decision : ReviewMission(m, u, d)
            \/ ReviewStaleHead(m, u)
        \/ ArchiveMission(m)
        \/ UnpublishProof(m)
        \/ \E w \in Request, op \in Operation : BeginRequest(w, op, m)
    \/ \E s \in {"ENABLED", "DISABLED"} : UpdateProofProfile(s)
    \/ \E w \in Request :
        \/ FetchPull(w)
        \/ FetchDetails(w)
        \/ ReadCriteria(w)
        \/ AbandonRequest(w)
        \/ RefreshVerification(w)
        \/ PublishProof(w)
        \/ PublishStaleHead(w)
        \/ RenewPublicationLease(w)
        \/ RenewMismatch(w)
    \/ \E p \in Pull, f \in Facts : PullRequestEvent(p, f) \/ CheckEvent(p, f)
    \/ \E d \in sent : ApplyDelivery(d)
    \/ \E R \in SUBSET Repository : AccessRevoked(R) \/ MembershipReplaced(R)
    \/ Tick

Spec == Init /\ [][Next]_vars

\* Only the clock is assumed to advance: no webhook, request or user is.
TimedSpec == Spec /\ WF_vars(Tick)

-----------------------------------------------------------------------------
(* What the public page shows: the WHERE clause of getPublicProofProfile *)
Visible(m) ==
    LET row == mission[m]
        p == publication[m] IN
    /\ profile = "ENABLED"
    /\ p # NULL
    /\ p.state = "ACTIVE"
    /\ p.lease > 0
    /\ row.state = "APPROVED"
    /\ row.run = p.run
    /\ row.review = p.review
    /\ CurrentPassingRun(row)
    /\ EligibleReview(row)
    /\ Granted(row.pull)

\* A delivery GitHub has made that the API has not applied (or never will).
Outstanding(kind, p) == \E d \in sent \ applied : d.kind = kind /\ d.pull = p

HeadMoved(m) == mission[m].run.facts.head # provider[mission[m].pull].head

FactsMoved(m) == mission[m].run.facts # provider[mission[m].pull]

-----------------------------------------------------------------------------
(* Safety *)

TypeOK ==
    /\ mission \in [Mission -> MissionRow]
    /\ runs \in SUBSET Run
    /\ reviews \in SUBSET Review
    /\ publication \in [Mission -> Publication \cup {NULL}]
    /\ profile \in ProfileState
    /\ available \in [Repository -> BOOLEAN]
    /\ applied \in SUBSET Delivery
    /\ request \in [Request -> InFlight \cup {NULL}]
    /\ \A w \in Request : request[w] # NULL /\ request[w].stage # "snapshot" =>
                           request[w].facts # NULL
    /\ provider \in [Pull -> Facts]
    /\ sent \in SUBSET Delivery
    /\ events \in 0..MaxEvents

RowConsistent(m, row) ==
    /\ row.run # NULL => row.run \in runs /\ row.run.mission = m
    /\ row.state \in {"REVIEW_PENDING", "APPROVED", "RETURNED"} =>
         row.pull # NULL /\ CurrentPassingRun(row)
    /\ row.state \in {"APPROVED", "RETURNED"} =>
         /\ row.review \in reviews
         /\ row.review.run = row.run
         /\ row.review.decision = row.state
         /\ row.review.reviewer # Owner
    /\ row.state \notin {"APPROVED", "RETURNED"} => row.review = NULL
    /\ row.state = "BOUND" => row.pull # NULL
    /\ row.state = "DRAFT" => row.pull = NULL
    /\ row.state \in {"DRAFT", "ARCHIVED"} => row.run = NULL

\* The lifecycle of the row.  A mission in review or decided has a passing run
\* of exactly the binding and the criteria it has now; a decided one also the
\* review of that run, by another account, with that decision; no other state
\* keeps a review; a draft or archived mission keeps no run.  A superset of
\* CHK_proof_missions_state_consistency, across every command and webhook.
LifecycleConsistent == \A m \in Mission : RowConsistent(m, mission[m])

RestsOnApproval(m) ==
    LET p == publication[m] IN
    p # NULL /\ p.state = "ACTIVE" =>
        /\ profile = "ENABLED"
        /\ mission[m].state = "APPROVED"
        /\ p.run = mission[m].run
        /\ p.review = mission[m].review

\* A published proof rests on the approval the mission has now, not on an
\* earlier one, and stops when the owner turns the profile off: whatever takes
\* the approval away (a command, a webhook, lost access) stops the proof too.
ActiveProofRestsOnApproval == \A m \in Mission : RestsOnApproval(m)

\* However refreshes, submissions and reviewers interleave, a verification run
\* is decided once.
OneDecisionPerRun ==
    \A r1, r2 \in reviews : r1.run = r2.run => r1 = r2

\* A run was evaluated against the pull request and the criteria its versions
\* name, although both were read before the transaction that stored it.
RunsMatchTheirVersions ==
    \A r \in runs :
        LET row == mission[r.mission] IN
        /\ r.bindingVersion = row.bindingVersion => r.facts.pull = row.pull
        /\ r.criteriaVersion = row.criteriaVersion => r.criteria = row.criteria

\* A mission keeps verification credit only while the installation grants the
\* repository of its pull request.
CreditNeedsAccess ==
    \A m \in Mission : mission[m].run # NULL => Granted(mission[m].pull)

\* An approval of a head that is no longer the head of the pull request has a
\* pull_request delivery still to come: a head change can be late or lost on
\* the way, but it is never overtaken by a review in progress.
StaleHeadIsOutstanding ==
    \A m \in Mission :
        mission[m].state = "APPROVED" /\ HeadMoved(m) =>
            Outstanding("pull_request", mission[m].pull)

-----------------------------------------------------------------------------
(* What the safety invariants need to be inductive *)

\* A run that is current carries the versions the mission has now: whoever
\* increments one clears the run.
CurrentRunVersions ==
    \A m \in Mission :
        LET row == mission[m] IN
        row.run # NULL => /\ row.run.bindingVersion = row.bindingVersion
                          /\ row.run.criteriaVersion = row.criteriaVersion

\* No stored run is ahead of the versions of its mission.
RunsNotAhead ==
    \A r \in runs :
        /\ r.bindingVersion <= mission[r.mission].bindingVersion
        /\ r.criteriaVersion <= mission[r.mission].criteriaVersion

\* A request holds what the versions of its snapshot name, as long as the
\* mission still has these versions.
RequestsMatchTheirVersions ==
    \A w \in Request :
        LET req == request[w]
            row == mission[req.mission] IN
        req # NULL =>
            /\ req.bindingVersion <= row.bindingVersion
            /\ req.criteriaVersion <= row.criteriaVersion
            /\ req.bindingVersion = row.bindingVersion => req.pull = row.pull
            /\ req.stage # "snapshot" => req.facts.pull = req.pull
            /\ (req.stage = "ready" /\ req.op # "publish"
                  /\ req.criteriaVersion = row.criteriaVersion)
                 => req.criteria = row.criteria

ProviderConsistent == \A p \in Pull : provider[p].pull = p

DeliveriesNumbered == applied \subseteq sent /\ \A d \in sent : d.id <= events

VersionsInv ==
    /\ CurrentRunVersions
    /\ RunsNotAhead
    /\ RunsMatchTheirVersions
    /\ RequestsMatchTheirVersions
    /\ ProviderConsistent
    /\ DeliveriesNumbered

-----------------------------------------------------------------------------
(* Actions *)

\* Credit that was taken from a decided run never comes back to it: a refresh
\* that observes the same facts again makes the run current but not decided,
\* and it can not be submitted or reviewed a second time.
Credited(m, run) == mission[m].run = run /\ mission[m].review # NULL

WithdrawnCreditNeverReturns ==
    [][\A m \in Mission, r \in {v.run : v \in reviews} :
        ~Credited(m, r) => ~Credited(m, r)']_vars

\* The lease of a proof is only extended while GitHub's facts were observed to
\* be those of the approved run, or when the proof is first published.
LeaseExtendedOnVerifiedFacts ==
    [][\A m \in Mission :
        /\ publication[m] # NULL
        /\ publication'[m] # NULL
        /\ publication'[m].lease > publication[m].lease
        => /\ mission[m].state = "APPROVED"
           /\ \E w \in Request : /\ request[w] # NULL
                                 /\ request[w].facts = mission[m].run.facts]_vars

-----------------------------------------------------------------------------
(* Liveness *)

\* Even when no webhook is ever applied, a public proof whose facts changed at
\* GitHub does not stay public: the lease elapses, and renewing it compares
\* the facts.
StaleProofExpires ==
    \A m \in Mission : (Visible(m) /\ FactsMoved(m)) ~> ~(Visible(m) /\ FactsMoved(m))

-----------------------------------------------------------------------------
(* What the product says of itself and the code does not keep *)

\* A public proof shows the latest verification, up to deliveries on their way.
VisibleProofIsLatest ==
    \A m \in Mission :
        Visible(m) /\ FactsMoved(m) =>
            \/ Outstanding("pull_request", mission[m].pull)
            \/ Outstanding("check", mission[m].pull)
=============================================================================
