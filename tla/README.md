# Jagalchi platform: a formal model

TLA+ models of the core logic of the platform (`services/api`), the TLC runs
that check them on small instances, and theorems about them that TLAPS checks
for every value of the constants. Paths below are relative to the repository;
"career.service" and the like are files of `services/api/src`.

## 1. The system

A monorepo: a NestJS API over PostgreSQL (`services/api`), a Django service
with AI endpoints (`services/ai`), a Next.js application (`apps/web`), an Expo
shell around it (`apps/mobile`) and deployment scripts (`deploy`). One replica
of the API runs at a time; its transactions are READ COMMITTED, and
`pessimistic_write` is `SELECT ... FOR UPDATE`. All durable state is in
PostgreSQL.

| Component | State it keeps | Operations | What makes it correct |
|---|---|---|---|
| Career (`career/`) | missions with criteria and versions, verification runs, reviews, publications with a lease, profiles, command keys | create, replace criteria, bind, refresh, submit, review, archive, publish, unpublish, renew, profile on/off | a run is of the versions it carries; a decision is of one run, by another account, once; a public proof rests on the current approval; it does not outlive its facts for long |
| GitHub client and installation (`github/`) | installations, repositories, claim attempts | claim, synchronize, reconcile, authorize, read facts and heads | no credit without access; membership follows the provider; an installation belongs to the linked account |
| GitHub webhook (`github/github-webhook.controller`) | deliveries, deduplicated by id | verify, deduplicate, invalidate, reconcile | a change takes credit away exactly from the missions it is about; a repeated delivery changes nothing |
| Tickets (`tickets/`) | accounts, ledger, purchases | open, monthly grant, reserve, commit, refund, fulfill a purchase | the balance is the ledger and never negative; each source is credited once; each charge is settled or refunded once |
| AI jobs (`ai/`) | none of its own | reserve, call, commit or refund | a result is paid for; a failure is refunded |
| Realtime (`realtime/`) | event log with sequence numbers, sockets, rooms | connect, join and replay, edit | an edit is in the log once; its document is told the truth; one socket per user |
| Roadmaps (`roadmaps/`) | roadmaps, forks, reactions, progress, directories | create, fork, react, update, remove; create, move, rename, delete a directory | directories are a forest; counters match rows |
| Auth (`auth/`) | users, refresh sessions, challenges, OAuth attempts, identities and grants | register, login, refresh, logout, reset, challenges, OAuth, profile, roles, delete account | one good refresh token per sign-in and none that comes back; a proof is used once; a deleted account is not refreshed |
| Web session (`apps/web/src/api`, `features/auth`, `lib/analytics`) | refresh cookie, access token, refresh in flight, analytics identity | load, refresh, log in, log out, delete account, reload | a session that was signed out stays so; analytics name the user on display |
| Roadmap editor (`apps/web/src/features/roadmap-editor`, `lib/realtime-client`) | the graph shown, the title saved last, edits on their way | load, autosave, publish, replay | see Realtime |
| Social (`social/`) | comments, follows, notifications, preferences | comment, reply, edit, delete, follow, unfollow, notify, mark read, prefer | what happens is notified once |
| Uploads (`uploads/`) | upload assets; the objects are in an object store | sign, put, complete, remove | an asset that is READY has its object |
| Rate limit | counters of a library | throttle | |
| AI service, the other pages, mobile, deployment | caches; pages; a WebView; scripts | | |

How they interact. A career handler reads its mission without a lock, asks
GitHub for facts, and then opens a transaction that locks installation,
repository and mission and re-checks what it read. A webhook changes the same
missions, publications and repositories from the other side, whenever GitHub
chooses. A reviewer decides on what a page loaded earlier. An AI job is three
transactions of the ticket ledger around a call to another service; a purchase
is a verified store transaction, sent again by the app until it is
acknowledged. Realtime edits, the editor's PATCH and the roadmap handlers write
the same row. The browser refreshes its session while the user logs out of it,
and a password reset, an account deletion and a refresh meet in the database.
An account deletion also takes the user's GitHub installation and frees the
GitHub account for another user.

What is hard here: reads before a transaction that are used in it; deliveries
that are late, lost, repeated or reordered; provider answers that belong to
different moments; two requests with one key; look-ups without a lock that only
a unique index backs; rows saved from a copy read before; locks taken in
different orders; a restart between a reservation and its settlement; sockets
lost on either side before the other.
`PROJECT.json` lists each such hazard with its line and the properties that
watch it.

## 2. The modules

| Module | What it is |
|---|---|
| `ProofMission` | missions, runs, reviews, publications, profile state, access, deliveries, requests in flight and GitHub itself |
| `ProofReviewDesk` | `ProofMission` composed with what a reviewer's page shows |
| `Installation` | one GitHub installation: setup states, claims, synchronizations, reconciliations, verifications, deliveries and their states, the owner's changes at GitHub, sign-ins and deletions of accounts |
| `TicketWallet` | abstract: credit a source once, charge a key once, settle or refund once |
| `Tickets` | accounts, ledger, purchases, AI jobs, the calendar and restarts; implements `TicketWallet` |
| `SignIns` | abstract: tokens of a sign-in that are rotated one by one, at most one of them good |
| `Accounts` | users, refresh sessions, challenges, OAuth, with the locks requests hold and the rows they save; implements `SignIns` |
| `WebSession` | one browser: cookie, token, refresh, endings, sign-ins and the analytics identity, against a server that is `SignIns` |
| `RoadmapLibrary` | roadmaps with likes and forks, and the directories of one user |
| `Uploads` | extends it by asset rows, their objects and the requests between the two |
| `Social` | extends it by comments, follows, notifications and preferences |
| `RoadmapContent` | all three together: what an abandoned request leaves behind |
| `RoadmapEditing` | the title of one roadmap in several documents: log, gateway, PATCH, editor hooks and client |
| `MC...` | values of the constants and symmetry for TLC |
| `ProofMissionProofs`, `ProofMissionVersions` | theorems about `ProofMission` |
| `InstallationProofs` | theorems about `Installation` |
| `AccountsProofs` | theorems about `Accounts`, that it implements `SignIns` among them |
| `WebSessionProofs` | theorems about `WebSession`, that it keeps to `SignIns` among them |
| `RoadmapContentProofs` | theorems about `RoadmapContent` and the three modules it is made of |
| `RoadmapEditingProofs` | theorems about `RoadmapEditing` |
| `TicketsProofs` | theorems about `Tickets`, that it implements `TicketWallet` among them |

`SignIns` is used twice: `Accounts` is shown to implement it, and `WebSession`
uses it as its server, so that what the browser is promised rests on what the
handlers were shown to do.

### ProofMission and the code

A command that is one transaction is one action of the same name
(`ReplaceCriteria`, `BindPullRequest`, `SubmitForReview`, `ArchiveMission`,
`UpdateProofProfile`, `UnpublishProof`). `reviewMission` asks for the head of
the pull request inside its transaction, holding the mission row, and is one
action with two outcomes, `ReviewMission` and `ReviewStaleHead`.

`refreshVerification`, `renewPublicationLease` and `publishProof` read before
their transaction, and each read is a step: `BeginRequest` (the mission
snapshot), `FetchPull` and `FetchDetails` (the two rounds of answers of
`getPullRequestFacts`, which can belong to different moments: `Torn`),
`ReadCriteria`, and then one of `RefreshVerification`, `PublishProof`,
`PublishStaleHead`, `RenewPublicationLease`, `RenewMismatch`. `Locked` is the
common start of the three transactions. A request may be abandoned at any step
(provider error, exception, lost client, restart): nothing of it is persisted
before its transaction, so a restart of the process abandons every request and
needs no action of its own.

A row is a record with the columns the handlers decide on. Identifiers of runs
and reviews are the rows themselves: the unique indexes on the observation of a
run and on the run of a review make equal rows one row. Facts are a head and
the set of criteria that pass; the digests the code compares are equality of
facts and of criteria. `lease` is what is left of `validUntil`, in ticks.

GitHub is `provider` (facts now), `sent` (deliveries made) and the two actions
`PullRequestEvent` and `CheckEvent`. `ApplyDelivery` takes any delivery not
applied yet, so deliveries are late and reordered; nothing forces it, so they
are lost; a repeated one is refused by the unique delivery id and changes
nothing. `AccessRevoked` is suspension, deletion and removal;
`MembershipReplaced` is a synchronization or reconciliation, with any listing
the provider may have given, however old.

### Tickets and the code

`openAccount`, `fulfill` and `reserveAiUsage` look up before they lock, so each
is a look-up step and a write step (`OpenLookup`/`OpenInsert`,
`FulfillLookup`/`FulfillInsert`, `ReserveLookup`/`ReserveInsert` or
`ReserveFails`). `HasGrant` is the unique index of the ledger: the write that
meets an existing key is rolled back. The monthly grant, commit and refund lock
the row first and are one step. A job goes from `reserving` over `calling` to
`succeeded` or `failed`; `Restart` loses every request and open transaction and
keeps the database. `delivered` and `refundTold` are history variables: the
answers clients were given.

`Tickets` implements `TicketWallet` under the mapping at its end: the balance
of a user without an account is 0, `credited` is the set of grants in the
ledger, `charged` is the status and the cost of each key.

### Installation and the code

`claimInstallation`, `synchronizeRepositories` and `reconcileInstallation` list
repositories at GitHub and then write, so each is a `...Begin`, `List` and
`...Commit`; a listing remembers after how many changes at GitHub it was made.
A claim holds the lock of its setup state in between (`AttemptLocked`). A
reconciliation reads the owner before it lists (`ReconcileBegin`) and commits
only to a row of that owner. The webhook's transaction is `Deliver`;
`RECONCILED` and `RECONCILE_FAILED` are written after the reconciliation by
`MarkDelivery`, and `Abandon` may come before it. A repeated delivery is
reconciled until that has succeeded (`ShouldReconcile`). GitHub is `status`,
`granted` and the numbered `event`s; nothing forces a delivery.

`credit` is what `ProofMission` says about missions, reduced to the
repositories that missions have credit from. `refreshVerification` gives it in
three steps, as the code does: it looks at the tables without a lock
(`VerifyBegin`, getAuthorizedRepository), GitHub answers (`List`), and the
transaction looks at the tables again under the installation's lock (`Approve`,
`LockedInstallation`). Deliveries and commits of reconciliations may fall
between any two of them.

`SignIn` links the GitHub account to a user, and `DeleteAccount` is what
auth.service.ts does here when it deletes one: identity, setup states,
installation and repositories go, after a claim that holds one of those setup
states. Requests that know the installation by its id are refused from then on,
since a row claimed anew has another.

### Accounts and the code

A statement outside a transaction is one action, and so is a transaction,
except where it waits with a lock in hand: `refresh` (`RefreshBegin`,
`RefreshCommit`), `resetPassword` (`ResetBegin`, `ResetSave`, `ResetCommit`)
and `deleteAccount` (`DeleteBegin`, `DeleteCommit`). A lock is held by the
request in whose record it shows. Repository.save() of a row that was read
before brings every column of the copy back: `SaveUser`, `ResetCommit`,
`VerifyWrong`, `VerifyRight`. A deletion that waits for a session and a refresh
that waits for the user can wait for each other; PostgreSQL then fails one of
the two, which is its `Abandon`. Times are flags: a challenge is recent,
valid, expired; a proof exists until it expires.

### WebSession and the code

Each request is sent, served and answered in three steps, and one whose answer
nobody waits for is in `orphans` and may still be served: a reload, a lost
connection, a refresh dropped by its epoch. `refreshEpoch`, `sessionEnding` and
`refresh` are the module variables of api/client.ts, `generation` and
`interval` the refs of use-refresh-token.ts, `identity` the marker, the distinct
id and the flags of lib/analytics/client.ts. `Reconciled` gives every outcome
its try blocks allow, a document that dies between two writes included.

### RoadmapLibrary and the code

Reactions and forks change a roadmap under its lock and are one step. `update`,
`moveDirectory`, `renameDirectory` and `deleteDirectory` read and save in two
or three steps. `overwritten` and `raced` record that a save used a row that had
changed meanwhile; the properties say what holds up to that.

### Uploads, Social and the code

Neither service has a transaction. `complete` is the row (`CompleteBegin`), the
store's answer (`CompleteHead`) and either the save (`CompleteSave`) or the
removal that `remove` (`RemoveBegin`) makes too: first the object, then the row
(`DeleteObject`, `DeleteRow`). `Put` is the browser at the object store. A
comment and a follow are checked, inserted and notified (`CommentBegin`,
`CommentInsert`, `Notify`; `FollowBegin`, `FollowInsert`, `Notify`); an edit, a
deletion and a change of preferences are read and saved. Any request may end
between its steps: `LibraryStep` of `RoadmapContent` records the removals and
notifications that were lost with it. Whether uploads are switched on is not
kept: switched off, no request begins.

### RoadmapEditing and the code

An edit is one debounced autosave; it becomes an event, if there is a socket,
and a PATCH. The event goes through the states of realtime-client.ts: emitted,
answered, replaying after a conflict, counted, emitted again up to `Attempts`
times. A socket is lost by its document (`Disconnect`) and by the server
(`Noticed`) in two steps and in either order: a tab that was suspended may hold
a socket the server has given up, whose slot another document has taken. What
is emitted or answered on a socket the server does not count any more is lost
(`Carries`). The server takes no second socket of a user before it has lost the
first (`Taken`). `broken` says that an event which is about no node was merged
as a node.

## 3. The runs

Symmetry is used in runs of safety properties only. Deadlock is checked where
the cfg does not switch it off: it is off where a run ends because a bound on
requests, changes, edits or months is reached.

| Run | Asks | Instance |
|---|---|---|
| `mission_commands` | types, lifecycle, proofs rest on approvals, no credit without access, stale heads are outstanding, withdrawn credit stays withdrawn, leases grow on verified facts | 1 mission, 1 request at a time of any of the three kinds, 2 changes at GitHub, 2 criteria versions |
| `mission_concurrent` | one decision per run, runs match their versions | 2 requests (refresh, publish), 3 criteria versions, nothing changes at GitHub |
| `mission_lease` | a stale public proof expires | the clock fair, a lease of 2 ticks, no webhook need arrive |
| `installation` | types, credit is granted, access unless overtaken, reconciled means listed, the owner is the linked account | 2 users, 2 setup states, 1 repository, 2 requests at a time, 3 changes at GitHub, 3 commands |
| `tickets` | the balance is the ledger, results are paid, refunds are kept, the wallet is implemented, reservations are settled | 2 keys, 2 jobs, 1 purchase, 2 parallel equal requests, 2 months, 1 restart |
| `accounts` | types, proofs are spent once, deleted accounts are not refreshed, `SignIns` is implemented | 2 accounts, 1 address, 2 requests at a time out of 4, of eleven operations |
| `web_session` | types, signed out stays signed out, analytics follow the user, endings release the page | 2 sign-ins of 2 accounts, 2 rotations, 1 ending per document, 1 reload |
| `roadmap_library` | types, forest, counters, READY uploads have objects, events are notified once | 2 users, 2 roadmaps, 3 directories, 1 upload, 2 comments, 2 requests at a time; six workloads of 5 to 8 requests |
| `roadmap_editing` | types, edits are logged once and answered truly, one socket in the room | 2 documents, 2 titles, 2 edits, 2 sockets, pages of 1 event, 2 attempts |
| `mission_latest`, `review_desk`, `roadmap_graph` | three statements of the code base that it does not keep | as small as shows it |

The properties, in the order they matter:

* `LifecycleConsistent`: state, current run and current review of a mission
  agree, across all commands and webhooks. It contains the database's
  `CHK_proof_missions_state_consistency` and adds what the database can not
  say: the run passes and has the versions the mission has now.
* `ActiveProofRestsOnApproval`: seven handlers take an approval away, and each
  also has to stop the publication.
* `StaleHeadIsOutstanding`: an approval can be outdated only while the delivery
  about it is on its way. It holds because `reviewMission` reads the head while
  it holds the row, so the delivery has to wait for it.
* `RunsMatchTheirVersions`: the criteria and facts of a run were read before
  the transaction that stores it; the version check makes them the right ones.
* `CreditNeedsAccess`, `OneDecisionPerRun`, `WithdrawnCreditNeverReturns`,
  `LeaseExtendedOnVerifiedFacts`.
* `StaleProofExpires` (liveness).
* `CreditIsGranted`, `AccessUnlessOvertaken`: what the tables say of an
  installation against what GitHub says, up to the deliveries still to come;
  the second unless a listing was committed that a delivery had overtaken
  (`overtaken`), which reconcileInstallation allows. The first has one more look
  at the tables behind it: a withdrawn repository gives credit only if such a
  listing was committed and the facts of its last verification were overtaken as
  well (`late`). That does happen (section 4), and the run fails without the
  exception.
* `ReconciledMeansListed`.
* `OwnerIsLinked`: an account is deleted while a claim of it waits for GitHub;
  only the setup state both lock keeps an installation from being left to an
  account that is gone, where nobody else could claim it.
* `BalanceIsLedger`, `TicketTypeOK` (no negative balance), `ResultIsPaid`,
  `RefundIsTrue`, `ImplementsWallet`, `ReservationSettles` (liveness).
* `ImplementsSignIns`: logouts, resets, deletions and refreshes that overtake
  each other leave one good token per sign-in, and none comes back.
  `ProofSpentOncePerVerification`, `DeletedNeverRefreshes`.
* `SignedOutStays`, `ReadyMeansMe`, `EndingReleases` (liveness).
* `ForestUnlessRaced`, `CountsUnlessOverwritten`: the walk of moveDirectory, and
  the row locks of reactions and forks, are enough until a row that was read
  before is saved over a newer one.
* `ReadyHasObject`: what `complete` asks and the order in which a removal goes
  about it keep a READY upload downloadable, but for a removal that ended half
  way or was overtaken by a `complete`.
* `EachIsToldOnce`: of equal follows in parallel one is inserted and notified;
  a notification that was not written was suppressed or lost with its request,
  and nothing writes it later.
* `AnswersAreTrue`, `OneEditor`, whichever side loses a socket first.

Bounds. Versions up to 2 give one change after the first snapshot, which is
what a version check is there to notice; `mission_concurrent` has a third, so
that two requests can be of different old versions. One change at GitHub is
enough to make an approval stale, two to let deliveries overtake each other.
Two requests are enough for every race between a read and a transaction: a
transaction is one step, so a third request only adds another writer like the
second. Rebinding a mission (`MaxBindingVersion` above 1) is in no run: what
holds over it is proved (section 5), as is `ActiveProofRestsOnApproval` for any
number of requests, which TLC checks with one. A lease of one tick makes expiry and
renewal race; `mission_lease` has two, so that a request could renew a stale
proof between the ticks if it did not compare the facts. Three commands on an
installation are a claim, a reconciliation and a verification that overlap, or a
synchronization among them; three changes are a withdrawal, its reversal and
another. In `Tickets`, two jobs
and two keys cover jobs that share a key and jobs that compete for a balance
that pays for one of them. Four requests on accounts are, for instance, a
login, a refresh, a deletion and a login on its way, or a challenge, its
verification, a reset and another verification. A behaviour of
`roadmap_library` has one of six workloads, since uploads, follows and
directories do not read each other's rows: eight requests build three
directories and two moves that race; seven fork and like a roadmap while it is
updated, or put, complete and remove an upload more than once; six make a
comment, a reply, an edit and a deletion; six of all of the library's own mix
roadmaps and directories. Two edits of two documents are enough for a conflict; pages
of one event make a replay take more than one.

Fairness. `TimedSpec` assumes the clock (`WF(Tick)`) and nothing else: users,
requests and webhooks owe nothing. `FairTicketSpec` assumes that a job that
holds a reservation goes on, as long as the process is not restarted: the call
ends by `AbortSignal.timeout` (ai-jobs.service.ts), and what follows is the same
function; after a restart a RESERVED row stays as it is, for nothing in the
code looks for such rows. `FairSpec` of `WebSession`
assumes that a logout or deletion under way is sent and answered or fails; a
fetch of a browser does one of the two.

## 4. What the code does not keep

Three statements are contradicted, each by a run that ends in a counterexample:

* **A check delivery can be lost for a refresh in progress**
  (`mission_latest`), and review and publication look at the head only. The
  lease bounds how long the outdated proof stays public (`StaleProofExpires`).
* **A reviewer may decide on a run the page did not show** (`review_desk`).
* **An event that is about the roadmap is merged as a node** (`roadmap_graph`):
  a document that receives or replays a title holds a graph every later PATCH of
  which is refused.

Behaviour that contradicts nothing written down, but that the models show and a
reader should know of:

* An archived mission comes back to BOUND by a refresh begun before:
  `assertBindingUnchanged` compares versions and binding, not the state.
* A refresh may find a run that was decided; it can not be submitted again. When
  credit was withdrawn although the facts are the same in the end, the mission
  can not be reviewed until something changes at GitHub.
* A reconciliation sets an installation ACTIVE that was suspended or deleted
  after its listing, until the next delivery (`overtaken`). A verification whose
  facts were asked before the suspension finds the repository authorized again
  and stores its run, with no delivery left to take it back (`late`).
* A profile, role or password saved from a row read before a deletion brings
  the deleted account back (its sessions stay ended).
* A session issued while a password reset waits survives the reset.
* Two moves of directories can close a cycle; saving a roadmap or a directory
  read before a deletion brings it back (`raced`, `overwritten`).
* An edit of a comment read before its deletion brings the comment back;
  a `complete` that read its asset before a removal inserts the row again
  (`reinserted`), and a removal that fails between store and database
  leaves a READY asset without its object (`interrupted`).
* A follow whose request ends before its notification is never notified: asked
  for again, it is found and answered (`untold`).
* Two changes of notification preferences at the same time: the second save
  brings back what the first one switched off.
* PATCHes of successive autosaves are not awaited; the older title can be stored
  last.
* A restart leaves reservations that nothing settles.

## 5. The proofs

Every invariant and every action property that a passing run checks, and every
refinement, is also a theorem, for every value of the constants. What a theorem
says of a model it says without the bounds of its run.

`ProofMissionProofs`: `TypeCorrect`. `TypeOK` is inductive as it is written,
with the clause that a request past its snapshot holds facts, which the
transactions rely on. Then, each from `TypeOK` and what was proved before it:

* `LifecycleCorrect`. `LifecycleConsistent` needs nothing more to be
  inductive: every handler either sets run, review and state together or
  clears both pointers.
* `ActiveProofCorrect`. A publication becomes active only with the mission's
  own run and review; every step that changes one of them stops it.
* `OneDecisionCorrect`. `reviews` grows only by a run that was not decided.
* `AccessCorrect`. A run is only set under `Locked`, which holds the access;
  access only goes away in a step that clears the run.

`ProofMissionVersions` proves the rest of the mission's safety properties, for
any number of rebindings:

* `VersionsCorrect`, `RunsMatchCorrect`. `VersionsInv` adds to
  `RunsMatchTheirVersions` what makes it inductive: no run is ahead of its
  mission, the current run has the current versions, and a request in flight
  either has outdated versions or has read what the mission still holds.
* `StaleHeadCorrect`. A head that is not the provider's has its delivery in
  `sent` and not in `applied`; deliveries are numbered, so a new one is never
  one that was applied.
* `WithdrawnCorrect`, `LeaseCorrect`: action properties, from the invariants
  above and one lemma per step that sets a review or a lease.

`InstallationProofs`: `InstallationTypeCorrect`, from the types and what a
request rests on (its setup state, its row). Over the numbering of changes and
deliveries (`Numbered`),

* `CreditCorrect`: a step keeps credit only of repositories it does not
  withdraw (`CreditSteps`); what GitHub withdraws gets a number no delivery has
  (`Withdrawn`), and an outstanding delivery stays so until it is applied
  (`GrantStays`). For a new approval, the tables admit the repository, so that
  it is granted or a delivery outstanding, or an overtaken listing was committed
  (`AccessUnlessOvertaken`); and GitHub had granted it when it gave the facts,
  so that it still does, or a delivery is outstanding, or one has overtaken them
  (`FactsAreOfRepository`, `ApprovedAccess`). The exception needs both.
* `AccessCorrect`: a listing in flight is true up to changes with a higher
  number (`ListingsAreTrue`); its commit is wrong only about those, and if one
  of them was delivered, the listing was overtaken.
* `ReconciledCorrect`: a reconciliation lists after the change it answers.
* `OwnerCorrect`, for which the numbers do not matter: the user of a claim in
  flight is the linked one (`ClaimsAreLinked`), since the deletion of the account
  waits for it, and a link is only made where there is none.

`RoadmapEditingProofs`: `OneEditorCorrect` (`RoomInv`: the room holds the socket
the gateway counts, or none), `EditingTypeCorrect` (with what bounds sequences
by the log), and `AnswersCorrect`: `LogInv` says that an edit is in the log
exactly when it is accepted or the answer on its way says so, which also shows
that a document of this client never sends an edit again that is in the log.

`AccountsProofs` proves every safety property of `Accounts` from `AccountsInv`,
one lemma per kind of step:

* `AccountsTypeCorrect`. A request rests on rows that are still there
  (`Knows`), without which a step would write a row that does not exist.
* `DeletedNeverRefreshesCorrect`. `SessionsOK` says that a good session that was
  rotated belongs to an active account. It is kept because a copy that is saved
  was read from an active account, a session is held by one refresh at a time
  (`RequestsOK`), and a deletion waits for those that are held.
* `AccountsImplementSignIns`. `SessionsOK` has one good session per sign-in and
  a stored first session for each, so that ending sessions ends their tokens
  and no other (`TokensEnded`), and inserting one adds its token
  (`TokenInserted`). `OneGoodToken` follows.
* `SpentOnceCorrect`. `SpentInv`: a challenge whose proof may be used, or is held
  by a reset, was verified more often than its proof was used; a copy that
  verifyEmailChallenge saves was read before the challenge was consumed.

`TicketsProofs` proves `TicketTypeCorrect`, `ResultIsPaidCorrect` and
`RefundIsTrueCorrect` from one inductive invariant, `TicketInv`. It adds to the
three properties that an account exists if and only if its signup grant does,
that only users with an account have charges, that a job past its reservation
has a row, and that what a client was told is about a row. Without the first
two, a refund or a second signup could not be shown to act on an existing
balance.

* `WalletImplemented`: `TicketSpec => ImplementsWallet`. Each writing action has
  a lemma that names the wallet step it is (`CreditStep` for the three kinds of
  grant, `ReserveInsertReserves`, `CommitSettles`, `RefundJobRefunds`); all other
  actions leave the ledger and so the wallet alone.
* `LedgerBalances`, over the wallet steps: `AccountsAddUp` says in the terms of
  the wallet that a balance is the sum of its credits minus the sum of the
  charges that are due, and that both are finitely many. A credit adds one
  (`CreditAddsUp`), a reservation and a refund add and drop one (`DueAdds`,
  `DueDrops`), a settlement keeps them (`DueKeeps`). What a sum over a finite set
  is when an element is added (`SumAdds`), and that it depends on the values in
  the set only (`SumDepends`), are lemmas about the fold of the library, proved
  with a smallest counterexample in place of induction.

`WebSessionProofs`:

* `WebTypes`. `WebTypeOK` is inductive as it is written.
* `WebIdentity`. `MarkerIsDistinct` adds what every write of the analytics
  client keeps: a marker that can be read names the distinct id, and whoever is
  disabled or ending is not ready. Every change of the user is followed by a
  reconciliation (`FollowedSound`), which leaves the identity under the new
  distinct id or not ready.
* `WebSignedOut`. `HeldOK` says that a sign-in the browser can still act for
  (`Held`: by its cookie, its access token or the refresh under way) is not signed
  out, and that a login about to be answered is of a sign-in held nowhere yet.
  `RefreshOK` says that an answer is of the sign-in of its token and that no
  refresh is under way while the session ends, without which an answer could
  follow the logout.
* `WebServer`: the steps of the browser change the server as `SignIns` allows, so
  that what the browser is promised rests on what `Accounts` is proved to be.

`RoadmapContentProofs`, about the composition, whose steps interleave the
requests of the three services:

* `ContentTypes`, with what requests about comments rely on (`CommentsOK`): a row
  that was read is still there, with its roadmap and its parent.
* `UploadsHaveObjects`. `CompletesOK`: a complete that has seen the object, which
  is gone by now, is marked as late, so that its save is one of the exceptions.
* `NewsIsToldOnce`. The number of requests about to notify changes by one when a
  cause arises and when it is told or lost; `NewsOK` keeps them finite.
* `CountsAreExact`. A reaction and a fork change the number and the set counted
  at once; `UpdatesOK` says that an update writes back the counters it has read,
  and the source of the fork as it is, `SourcesOK` that a fork and a reaction are
  of a roadmap there is.
* `DirectoriesAreAForest`, for trees of any depth. `WalkOK` is what
  `moveDirectory` relies on: as long as its walk is not outdated, every set of
  directories that the move would close to a cycle contains the directory the
  walk has come to. When the walk ends at the root there is none. `RenamesOK`: a
  rename that is not outdated writes the parent there is.

Assumptions are the ones the modules declare. `NULL` is none of the rows,
requests or tokens, and `Root` no directory: the columns are nullable and the
identifiers are generated. Costs and packs are positive, as `AI_FEATURE_COSTS`
and the products are; every pull request has a repository, every roadmap an
owner, every sign-in an account; the criterion for humans is not one for
machines; accounts that exist have a password to hold. Users and roadmaps are
finitely many, which counting them needs. Bounds are natural numbers, and what a
workload allows is a set of operations and a number.

Only model-checked: the three liveness properties, `StaleProofExpires`,
`ReservationSettles` and `EndingReleases`, because fairness is out of the
prover's reach; and the three properties that the code does not keep,
which are refuted by a run (section 4).

## 6. The plan

Done: `ProofMission` (the product's central promise, with the most races),
`ProofReviewDesk`, `Installation`, `Tickets` over `TicketWallet`, `Accounts` and
`WebSession` around `SignIns`, `RoadmapLibrary`, `RoadmapEditing`, `Uploads` and
`Social` in `RoadmapContent`. Next:

1. `CommandIdempotency`: `claimCommand` with expiry and parallel retries.
2. `LockOrder`: the locks of the career handlers, webhook and account deletion
   and the connection pool as resources.
3. Completion of nodes and the progress of a roadmap, whose graph changes; targets and evidence of the career module.

## 7. Not modelled

* Targets and legacy evidence of the career module.
* Completion of nodes and the percentage, lists and search of roadmaps; the
  operations on nodes and edges that `applyOperation` accepts and no client
  sends; cursors.
* What deleteAccount does in domains other than sessions, identities and the
  GitHub installation; profile texts; signatures of tokens,
  proofs and webhooks, which are taken to be sound.
* `command_idempotency_keys`: a replayed command changes nothing and is a
  stuttering step.
* Rate limits (keys for a library), the migration runner and the deployment
  scripts (start-up and operations), the AI service (stateless from here), the
  mobile shell, and the pages of the web application that render what a query
  returned: most of the lines of the repository, and none of its decisions.
