------------------------ MODULE ProofMissionVersions ------------------------
(* Theorems about what runs, requests, deliveries and leases of ProofMission *)
(* rest on, for every value of its constants.                                *)
EXTENDS ProofMissionProofs

-----------------------------------------------------------------------------
(* How a step may change a mission *)

\* Versions grow, and as long as they stay so does what they name.
Evolves(old, new) ==
    /\ old.bindingVersion <= new.bindingVersion
    /\ old.criteriaVersion <= new.criteriaVersion
    /\ new.bindingVersion = old.bindingVersion => new.pull = old.pull
    /\ new.criteriaVersion = old.criteriaVersion => new.criteria = old.criteria

WithoutCredit(row) ==
    /\ row.run = NULL
    /\ row.review = NULL
    /\ row.state \in {"DRAFT", "BOUND", "ARCHIVED"}

Refreshes(m) == \E w \in Request : RefreshVerification(w) /\ request[w].mission = m
Reviews(m) == \E u \in User, d \in Decision : ReviewMission(m, u, d)

RowChange(m) ==
    \/ mission'[m] = mission[m]
    \/ WithoutCredit(mission'[m]) /\ Evolves(mission[m], mission'[m])
    \/ SubmitForReview(m)
    \/ Reviews(m)
    \/ Refreshes(m)

LEMMA ClearedChange ==
    ASSUME NEW row \in MissionRow, NEW s \in {"DRAFT", "BOUND", "ARCHIVED"}
    PROVE  /\ WithoutCredit(Cleared(row, s))
           /\ Evolves(row, Cleared(row, s))
BY DEF Cleared, WithoutCredit, Evolves, MissionRow

LEMMA InvalidateAllChange ==
    ASSUME TypeOK, NEW S, InvalidateAll(S)
    PROVE  \A m \in Mission : RowChange(m)
BY ClearedChange DEF InvalidateAll, RowChange, TypeOK

LEMMA ClearEligibilityChange ==
    ASSUME TypeOK, NEW m \in Mission, NEW s \in {"BOUND", "ARCHIVED"}, ClearEligibility(m, s)
    PROVE  \A n \in Mission : RowChange(n)
BY ClearedChange DEF ClearEligibility, RowChange, TypeOK

LEMMA RowChanges == TypeOK /\ [Next]_vars => \A m \in Mission : RowChange(m)
<1> SUFFICES ASSUME TypeOK, [Next]_vars PROVE \A m \in Mission : RowChange(m)
  OBVIOUS
<1> USE DEF database, github
<1>1. ASSUME UNCHANGED mission PROVE \A m \in Mission : RowChange(m)
  BY <1>1 DEF RowChange
<1>2. ASSUME NEW m \in Mission, NEW c \in CriteriaInput, ReplaceCriteria(m, c)
      PROVE  \A n \in Mission : RowChange(n)
  <2> DEFINE new == [Cleared(mission[m], IF mission[m].pull # NULL THEN "BOUND" ELSE "DRAFT")
                       EXCEPT !.criteria = c, !.criteriaVersion = @ + 1]
  <2>1. mission' = [mission EXCEPT ![m] = new] /\ mission[m] \in MissionRow
    BY <1>2 DEF ReplaceCriteria, TypeOK
  <2>2. WithoutCredit(new) /\ Evolves(mission[m], new)
    BY <2>1 DEF Cleared, WithoutCredit, Evolves, MissionRow
  <2> HIDE DEF new
  <2>3. QED
    BY <2>1, <2>2 DEF RowChange, TypeOK
<1>3. ASSUME NEW m \in Mission, NEW p \in Pull, BindPullRequest(m, p)
      PROVE  \A n \in Mission : RowChange(n)
  <2> DEFINE new == [Cleared(mission[m], "BOUND") EXCEPT !.pull = p, !.bindingVersion = @ + 1]
  <2>1. mission' = [mission EXCEPT ![m] = new] /\ mission[m] \in MissionRow
    BY <1>3 DEF BindPullRequest, TypeOK
  <2>2. WithoutCredit(new) /\ Evolves(mission[m], new)
    BY <2>1 DEF Cleared, WithoutCredit, Evolves, MissionRow
  <2> HIDE DEF new
  <2>3. QED
    BY <2>1, <2>2 DEF RowChange, TypeOK
<1>4. ASSUME NEW m \in Mission, SubmitForReview(m)
      PROVE  \A n \in Mission : RowChange(n)
  <2>1. \A n \in Mission \ {m} : mission'[n] = mission[n]
    BY <1>4 DEF SubmitForReview, TypeOK
  <2>2. QED
    BY <1>4, <2>1 DEF RowChange
<1>5. ASSUME NEW m \in Mission, NEW u \in User, NEW d \in Decision, ReviewMission(m, u, d)
      PROVE  \A n \in Mission : RowChange(n)
  <2>1. \A n \in Mission \ {m} : mission'[n] = mission[n]
    BY <1>5 DEF ReviewMission, TypeOK
  <2>2. QED
    BY <1>5, <2>1 DEF RowChange, Reviews
<1>6. ASSUME NEW w \in Request, RefreshVerification(w)
      PROVE  \A n \in Mission : RowChange(n)
  <2>1. \A n \in Mission \ {request[w].mission} : mission'[n] = mission[n]
    BY <1>6 DEF RefreshVerification, TypeOK
  <2>2. QED
    BY <1>6, <2>1 DEF RowChange, Refreshes
<1>7. ASSUME NEW w \in Request, PublishStaleHead(w) \/ RenewMismatch(w)
      PROVE  \A n \in Mission : RowChange(n)
  BY <1>7, ReadyRequest, ClearEligibilityChange DEF PublishStaleHead, RenewMismatch
<1>8. ASSUME NEW m \in Mission, \/ ArchiveMission(m)
                                \/ \E u \in User : ReviewStaleHead(m, u)
      PROVE  \A n \in Mission : RowChange(n)
  BY <1>8, ClearEligibilityChange DEF ArchiveMission, ReviewStaleHead
<1>9. ASSUME NEW d, ApplyDelivery(d)
      PROVE  \A n \in Mission : RowChange(n)
  BY <1>9, InvalidateAllChange DEF ApplyDelivery
<1>10. ASSUME NEW R, AccessRevoked(R) \/ MembershipReplaced(R)
       PROVE  \A n \in Mission : RowChange(n)
  BY <1>10, InvalidateAllChange DEF AccessRevoked, MembershipReplaced
<1>11. QED
  BY <1>1, <1>2, <1>3, <1>4, <1>5, <1>6, <1>7, <1>8, <1>9, <1>10
  DEF Next, vars, UnpublishProof, BeginRequest, UpdateProofProfile, FetchPull, FetchDetails,
      ReadCriteria, AbandonRequest, PublishProof, RenewPublicationLease, PullRequestEvent,
      CheckEvent, Tick

\* A mission that keeps its run keeps everything about it.
LEMMA KeptRun ==
    ASSUME TypeOK, [Next]_vars, NEW m \in Mission
    PROVE  \/ mission'[m].run = NULL
           \/ Refreshes(m)
           \/ /\ mission'[m].run = mission[m].run
              /\ mission'[m].bindingVersion = mission[m].bindingVersion
              /\ mission'[m].criteriaVersion = mission[m].criteriaVersion
              /\ mission'[m].pull = mission[m].pull
<1>1. RowChange(m)
  BY RowChanges
<1>2. CASE SubmitForReview(m)
  BY <1>2 DEF SubmitForReview, TypeOK, MissionRow
<1>3. CASE Reviews(m)
  <2> PICK u \in User, d \in Decision : ReviewMission(m, u, d)
    BY <1>3 DEF Reviews
  <2> DEFINE review == [run |-> mission[m].run, reviewer |-> u, decision |-> d]
  <2>1. mission' = [mission EXCEPT ![m] = [mission[m] EXCEPT !.state = d, !.review = review]]
    BY DEF ReviewMission
  <2> HIDE DEF review
  <2>2. QED
    BY <2>1 DEF TypeOK, MissionRow
<1>4. QED
  BY <1>1, <1>2, <1>3 DEF RowChange, WithoutCredit

\* What a refresh writes
LEMMA Refreshed ==
    ASSUME TypeOK, NEW m \in Mission, NEW w \in Request, RefreshVerification(w), request[w].mission = m
    PROVE  /\ request[w] \in InFlight
           /\ runs' = runs \cup {Observation(request[w])}
           /\ \A n \in Mission \ {m} : mission'[n] = mission[n]
           /\ mission'[m].run = Observation(request[w])
           /\ mission'[m].review = NULL
           /\ mission'[m].state = "BOUND"
           /\ mission'[m].pull = mission[m].pull
           /\ mission'[m].criteria = mission[m].criteria
           /\ mission'[m].bindingVersion = mission[m].bindingVersion
           /\ mission'[m].criteriaVersion = mission[m].criteriaVersion
<1> DEFINE run == Observation(request[w])
           new == [mission[m] EXCEPT !.run = run, !.review = NULL, !.state = "BOUND"]
<1>1. request[w] \in InFlight
  BY ReadyRequest DEF RefreshVerification
<1>2. mission' = [mission EXCEPT ![m] = new] /\ runs' = runs \cup {run}
  BY DEF RefreshVerification
<1> HIDE DEF run
<1>3. mission'[m] = new /\ mission[m] \in MissionRow
  BY <1>2 DEF TypeOK
<1>4. /\ new.run = run /\ new.review = NULL /\ new.state = "BOUND"
      /\ new.pull = mission[m].pull /\ new.criteria = mission[m].criteria
      /\ new.bindingVersion = mission[m].bindingVersion
      /\ new.criteriaVersion = mission[m].criteriaVersion
  BY <1>3 DEF MissionRow
<1> HIDE DEF new
<1>5. QED
  BY <1>1, <1>2, <1>3, <1>4 DEF run, TypeOK

\* Every step lets every mission evolve.
LEMMA RowsEvolve ==
    ASSUME TypeOK, [Next]_vars, NEW m \in Mission
    PROVE  Evolves(mission[m], mission'[m])
<1>1. RowChange(m) /\ mission[m] \in MissionRow
  BY RowChanges DEF TypeOK
<1>2. CASE mission'[m] = mission[m]
  BY <1>1, <1>2 DEF Evolves, MissionRow
<1>3. CASE SubmitForReview(m)
  BY <1>1, <1>3 DEF SubmitForReview, TypeOK, MissionRow, Evolves
<1>4. CASE Reviews(m)
  <2> PICK u \in User, d \in Decision : ReviewMission(m, u, d)
    BY <1>4 DEF Reviews
  <2> DEFINE review == [run |-> mission[m].run, reviewer |-> u, decision |-> d]
  <2>1. mission' = [mission EXCEPT ![m] = [mission[m] EXCEPT !.state = d, !.review = review]]
    BY DEF ReviewMission
  <2> HIDE DEF review
  <2>2. QED
    BY <1>1, <2>1 DEF TypeOK, MissionRow, Evolves
<1>5. CASE Refreshes(m)
  BY <1>1, <1>5, Refreshed DEF Refreshes, MissionRow, Evolves
<1>6. QED
  BY <1>1, <1>2, <1>3, <1>4, <1>5 DEF RowChange

\* Only a refresh stores a run.
LEMMA RunsStored ==
    ASSUME TypeOK, [Next]_vars
    PROVE  \/ runs' = runs
           \/ \E w \in Request : RefreshVerification(w)
BY DEF Next, vars, database, ReplaceCriteria, BindPullRequest, SubmitForReview, ReviewMission,
       ReviewStaleHead, ArchiveMission, UnpublishProof, BeginRequest, UpdateProofProfile,
       FetchPull, FetchDetails, ReadCriteria, AbandonRequest, PublishProof, PublishStaleHead,
       RenewPublicationLease, RenewMismatch, PullRequestEvent, CheckEvent, ApplyDelivery,
       AccessRevoked, MembershipReplaced, Tick

-----------------------------------------------------------------------------
(* VersionsInv *)

LEMMA CurrentRunStep ==
    TypeOK /\ CurrentRunVersions /\ [Next]_vars => CurrentRunVersions'
<1> SUFFICES ASSUME TypeOK, CurrentRunVersions, [Next]_vars, NEW m \in Mission,
                    mission'[m].run # NULL
             PROVE  /\ mission'[m].run.bindingVersion = mission'[m].bindingVersion
                    /\ mission'[m].run.criteriaVersion = mission'[m].criteriaVersion
  BY DEF CurrentRunVersions
<1>1. CASE Refreshes(m)
  <2> PICK w \in Request : RefreshVerification(w) /\ request[w].mission = m
    BY <1>1 DEF Refreshes
  <2>1. /\ mission'[m].run = Observation(request[w])
        /\ mission'[m].bindingVersion = mission[m].bindingVersion
        /\ mission'[m].criteriaVersion = mission[m].criteriaVersion
    BY Refreshed
  <2>2. QED
    BY <2>1 DEF Observation
<1>2. CASE ~Refreshes(m)
  BY <1>2, KeptRun DEF CurrentRunVersions
<1>3. QED
  BY <1>1, <1>2

LEMMA RunsStep ==
    TypeOK /\ VersionsInv /\ [Next]_vars => RunsNotAhead' /\ RunsMatchTheirVersions'
<1> SUFFICES ASSUME TypeOK, VersionsInv, [Next]_vars, NEW r \in runs',
                    NEW row, row = mission'[r.mission]
             PROVE  /\ r.bindingVersion <= row.bindingVersion
                    /\ r.criteriaVersion <= row.criteriaVersion
                    /\ r.bindingVersion = row.bindingVersion => r.facts.pull = row.pull
                    /\ r.criteriaVersion = row.criteriaVersion => r.criteria = row.criteria
  BY DEF RunsNotAhead, RunsMatchTheirVersions
<1>1. CASE r \in runs
  <2> DEFINE old == mission[r.mission]
  <2>1. r \in Run /\ r.mission \in Mission /\ old \in MissionRow /\ row \in MissionRow
    BY <1>1, TypeStep DEF TypeOK, Run
  <2>2. Evolves(old, row)
    BY <2>1, RowsEvolve
  <2>3. /\ r.bindingVersion <= old.bindingVersion
        /\ r.criteriaVersion <= old.criteriaVersion
        /\ r.bindingVersion = old.bindingVersion => r.facts.pull = old.pull
        /\ r.criteriaVersion = old.criteriaVersion => r.criteria = old.criteria
    BY <1>1 DEF VersionsInv, RunsNotAhead, RunsMatchTheirVersions
  <2>4. /\ r.bindingVersion \in Nat /\ r.criteriaVersion \in Nat
        /\ old.bindingVersion \in Nat /\ old.criteriaVersion \in Nat
        /\ row.bindingVersion \in Nat /\ row.criteriaVersion \in Nat
    BY <2>1 DEF Run, MissionRow
  <2> HIDE DEF old
  <2>5. QED
    BY <2>2, <2>3, <2>4 DEF Evolves
<1>2. CASE r \notin runs
  <2> PICK w \in Request : RefreshVerification(w)
    BY <1>2, RunsStored
  <2> DEFINE req == request[w]
             m == req.mission
  <2>1. m \in Mission /\ req \in InFlight
    BY ReadyRequest DEF RefreshVerification
  <2>2. /\ r = Observation(req)
        /\ row.pull = mission[m].pull
        /\ row.criteria = mission[m].criteria
        /\ row.bindingVersion = mission[m].bindingVersion
        /\ row.criteriaVersion = mission[m].criteriaVersion
    <3>1. /\ runs' = runs \cup {Observation(req)}
          /\ mission'[m].pull = mission[m].pull
          /\ mission'[m].criteria = mission[m].criteria
          /\ mission'[m].bindingVersion = mission[m].bindingVersion
          /\ mission'[m].criteriaVersion = mission[m].criteriaVersion
      BY <2>1, Refreshed
    <3>2. r = Observation(req) /\ Observation(req).mission = m
      BY <1>2, <3>1 DEF Observation
    <3> HIDE DEF req, m
    <3>3. QED
      BY <3>1, <3>2
  <2>3. req.criteria = mission[m].criteria /\ req.facts.pull = mission[m].pull
    BY DEF RefreshVerification, Locked, BindingUnchanged, VersionsInv, RequestsMatchTheirVersions
  <2>4. mission[m].bindingVersion \in Nat /\ mission[m].criteriaVersion \in Nat
    BY <2>1 DEF TypeOK, MissionRow
  <2>5. QED
    BY <2>2, <2>3, <2>4 DEF Observation
<1>3. QED
  BY <1>1, <1>2

\* What a request holds once it has read: only its own steps change it, and
\* the criteria it reads are those of the row at that moment.
RequestMatches(req, row) ==
    req # NULL =>
        /\ req.bindingVersion <= row.bindingVersion
        /\ req.criteriaVersion <= row.criteriaVersion
        /\ req.bindingVersion = row.bindingVersion => req.pull = row.pull
        /\ req.stage # "snapshot" => req.facts.pull = req.pull
        /\ (req.stage = "ready" /\ req.op # "publish" /\ req.criteriaVersion = row.criteriaVersion)
             => req.criteria = row.criteria

LEMMA MatchesStays ==
    ASSUME TypeOK, RequestsMatchTheirVersions, [Next]_vars, NEW w \in Request,
           request'[w] = request[w]
    PROVE  RequestMatches(request'[w], mission'[request'[w].mission])
<1> SUFFICES ASSUME request[w] # NULL
             PROVE  RequestMatches(request[w], mission'[request[w].mission])
  BY DEF RequestMatches
<1> DEFINE req == request[w]
           old == mission[req.mission]
           new == mission'[req.mission]
<1>1. req \in InFlight /\ req.mission \in Mission
  BY DEF TypeOK, InFlight
<1>2. Evolves(old, new) /\ old \in MissionRow /\ new \in MissionRow
  BY <1>1, RowsEvolve, TypeStep DEF TypeOK
<1>3. RequestMatches(req, old)
  BY DEF RequestsMatchTheirVersions, RequestMatches
<1>4. /\ req.bindingVersion \in Nat /\ req.criteriaVersion \in Nat
      /\ old.bindingVersion \in Nat /\ old.criteriaVersion \in Nat
      /\ new.bindingVersion \in Nat /\ new.criteriaVersion \in Nat
  BY <1>1, <1>2 DEF InFlight, MissionRow
<1> HIDE DEF req, old, new
<1>5. RequestMatches(req, new)
  BY <1>2, <1>3, <1>4 DEF Evolves, RequestMatches
<1>6. QED
  BY <1>5 DEF req, new

\* The steps of a request, which change no mission
LEMMA RequestSteps ==
    ASSUME TypeOK, [Next]_vars, NEW w \in Request
    PROVE  \/ request'[w] = request[w]
           \/ request'[w] = NULL
           \/ \E op \in Operation, m \in Mission : BeginRequest(w, op, m)
           \/ FetchPull(w) \/ FetchDetails(w) \/ ReadCriteria(w)
<1> USE DEF database, github
<1>1. CASE request' = request
  BY <1>1
<1>2. ASSUME NEW v \in Request,
             \/ AbandonRequest(v) \/ RefreshVerification(v) \/ PublishProof(v)
             \/ PublishStaleHead(v) \/ RenewPublicationLease(v) \/ RenewMismatch(v)
      PROVE  request'[w] \in {request[w], NULL}
  BY <1>2 DEF AbandonRequest, RefreshVerification, PublishProof, PublishStaleHead,
              RenewPublicationLease, RenewMismatch, TypeOK
<1>3. ASSUME NEW v \in Request,
             \/ \E op \in Operation, m \in Mission : BeginRequest(v, op, m)
             \/ FetchPull(v) \/ FetchDetails(v) \/ ReadCriteria(v),
             v # w
      PROVE  request'[w] = request[w]
  BY <1>3 DEF BeginRequest, FetchPull, FetchDetails, ReadCriteria, TypeOK
<1>4. QED
  BY <1>1, <1>2, <1>3
  DEF Next, vars, ReplaceCriteria, BindPullRequest, SubmitForReview, ReviewMission,
      ReviewStaleHead, ArchiveMission, UnpublishProof, UpdateProofProfile,
      PullRequestEvent, CheckEvent, ApplyDelivery, AccessRevoked, MembershipReplaced, Tick

LEMMA RequestsStep ==
    TypeOK /\ VersionsInv /\ [Next]_vars => RequestsMatchTheirVersions'
<1> SUFFICES ASSUME TypeOK, VersionsInv, [Next]_vars, NEW w \in Request
             PROVE  RequestMatches(request'[w], mission'[request'[w].mission])
  BY DEF RequestsMatchTheirVersions, RequestMatches
<1>1. CASE request'[w] = request[w]
  BY <1>1, MatchesStays DEF VersionsInv
<1>2. CASE request'[w] = NULL
  BY <1>2 DEF RequestMatches
<1>3. ASSUME NEW op \in Operation, NEW m \in Mission, BeginRequest(w, op, m)
      PROVE  RequestMatches(request'[w], mission'[request'[w].mission])
  <2>1. /\ request'[w] = [op |-> op, stage |-> "snapshot", mission |-> m,
                          pull |-> mission[m].pull,
                          bindingVersion |-> mission[m].bindingVersion,
                          criteriaVersion |-> mission[m].criteriaVersion,
                          facts |-> NULL, criteria |-> {}]
        /\ mission' = mission
    BY <1>3 DEF BeginRequest, TypeOK, database
  <2>2. mission[m].bindingVersion \in Nat /\ mission[m].criteriaVersion \in Nat
    BY DEF TypeOK, MissionRow
  <2>3. QED
    BY <2>1, <2>2 DEF RequestMatches
<1>4. ASSUME FetchPull(w)
      PROVE  RequestMatches(request'[w], mission'[request'[w].mission])
  <2> DEFINE req == request[w]
             stage == IF req.op = "publish" THEN "ready" ELSE "pull"
             new == [req EXCEPT !.facts = provider[req.pull], !.stage = stage]
  <2>1. req \in InFlight /\ RequestMatches(req, mission[req.mission])
    BY <1>4 DEF FetchPull, TypeOK, VersionsInv, RequestsMatchTheirVersions, RequestMatches
  <2>2. request' = [request EXCEPT ![w] = new] /\ mission' = mission
    BY <1>4 DEF FetchPull, database
  <2>3. provider[req.pull].pull = req.pull
    BY <2>1 DEF VersionsInv, ProviderConsistent, InFlight
  <2>4. /\ new.facts.pull = req.pull /\ new.mission = req.mission /\ new.pull = req.pull
        /\ new.op = req.op /\ new.stage = stage
        /\ new.bindingVersion = req.bindingVersion /\ new.criteriaVersion = req.criteriaVersion
    BY <2>1, <2>3 DEF InFlight
  <2>5. request'[w] = new /\ req # NULL
    BY <1>4, <2>2 DEF TypeOK, FetchPull
  <2> HIDE DEF new
  <2>6. QED
    BY <2>1, <2>2, <2>4, <2>5 DEF RequestMatches
<1>5. ASSUME FetchDetails(w)
      PROVE  RequestMatches(request'[w], mission'[request'[w].mission])
  <2> DEFINE req == request[w]
  <2>1. /\ req \in InFlight /\ req # NULL /\ req.stage = "pull"
        /\ req.facts \in Facts
        /\ RequestMatches(req, mission[req.mission])
    BY <1>5 DEF FetchDetails, TypeOK, InFlight, VersionsInv, RequestsMatchTheirVersions, RequestMatches
  <2> PICK passing \in SUBSET Check :
         request' = [request EXCEPT ![w] = [req EXCEPT !.facts = [req.facts EXCEPT !.passing = passing],
                                                       !.stage = "fetched"]]
    BY <1>5 DEF FetchDetails
  <2> DEFINE facts == [req.facts EXCEPT !.passing = passing]
             new == [req EXCEPT !.facts = facts, !.stage = "fetched"]
  <2>2. facts.pull = req.facts.pull
    BY <2>1 DEF Facts
  <2>3. request' = [request EXCEPT ![w] = new] /\ mission' = mission
    BY <1>5 DEF FetchDetails, database
  <2> HIDE DEF facts
  <2>4. /\ new.facts = facts /\ new.mission = req.mission /\ new.pull = req.pull
        /\ new.stage = "fetched"
        /\ new.bindingVersion = req.bindingVersion /\ new.criteriaVersion = req.criteriaVersion
    BY <2>1 DEF InFlight
  <2>5. request'[w] = new
    BY <2>3 DEF TypeOK
  <2> HIDE DEF new
  <2>6. QED
    BY <2>1, <2>2, <2>3, <2>4, <2>5 DEF RequestMatches
<1>6. ASSUME ReadCriteria(w)
      PROVE  RequestMatches(request'[w], mission'[request'[w].mission])
  <2> DEFINE req == request[w]
             new == [req EXCEPT !.criteria = mission[req.mission].criteria, !.stage = "ready"]
  <2>1. /\ req \in InFlight /\ req # NULL /\ req.stage = "fetched"
        /\ RequestMatches(req, mission[req.mission])
    BY <1>6 DEF ReadCriteria, TypeOK, VersionsInv, RequestsMatchTheirVersions, RequestMatches
  <2>2. request'[w] = new /\ mission' = mission
    BY <1>6 DEF ReadCriteria, database, TypeOK
  <2>3. /\ new.facts = req.facts /\ new.mission = req.mission /\ new.pull = req.pull
        /\ new.criteria = mission[req.mission].criteria
        /\ new.bindingVersion = req.bindingVersion /\ new.criteriaVersion = req.criteriaVersion
    BY <2>1 DEF InFlight
  <2> HIDE DEF new
  <2>4. QED
    BY <2>1, <2>2, <2>3 DEF RequestMatches
<1>7. QED
  BY <1>1, <1>2, <1>3, <1>4, <1>5, <1>6, RequestSteps

\* GitHub's side of a step
LEMMA GithubSteps ==
    ASSUME [Next]_vars
    PROVE  \/ UNCHANGED <<provider, sent, events>>
           \/ \E p \in Pull, f \in Facts : PullRequestEvent(p, f) \/ CheckEvent(p, f)
<1> USE DEF database, github
<1>1. ASSUME NEW m \in Mission,
             \/ \E c \in CriteriaInput : ReplaceCriteria(m, c)
             \/ \E p \in Pull : BindPullRequest(m, p)
             \/ SubmitForReview(m) \/ ArchiveMission(m) \/ UnpublishProof(m)
             \/ \E u \in User : \/ \E d \in Decision : ReviewMission(m, u, d)
                                \/ ReviewStaleHead(m, u)
             \/ \E w \in Request, op \in Operation : BeginRequest(w, op, m)
      PROVE  UNCHANGED github
  BY <1>1 DEF ReplaceCriteria, BindPullRequest, SubmitForReview, ReviewMission,
              ReviewStaleHead, ArchiveMission, UnpublishProof, BeginRequest
<1>2. ASSUME NEW w \in Request,
             \/ FetchPull(w) \/ FetchDetails(w) \/ ReadCriteria(w) \/ AbandonRequest(w)
             \/ RefreshVerification(w) \/ PublishProof(w) \/ PublishStaleHead(w)
             \/ RenewPublicationLease(w) \/ RenewMismatch(w)
      PROVE  UNCHANGED github
  BY <1>2 DEF FetchPull, FetchDetails, ReadCriteria, AbandonRequest, RefreshVerification,
              PublishProof, PublishStaleHead, RenewPublicationLease, RenewMismatch
<1>3. ASSUME \/ \E s \in {"ENABLED", "DISABLED"} : UpdateProofProfile(s)
             \/ \E d \in sent : ApplyDelivery(d)
             \/ \E R \in SUBSET Repository : AccessRevoked(R) \/ MembershipReplaced(R)
             \/ Tick
             \/ UNCHANGED vars
      PROVE  UNCHANGED github
  BY <1>3 DEF UpdateProofProfile, ApplyDelivery, AccessRevoked, MembershipReplaced, Tick, vars
<1>4. QED
  BY <1>1, <1>2, <1>3 DEF Next

\* Only a delivery is applied.
LEMMA DeliverySteps ==
    ASSUME [Next]_vars
    PROVE  applied' = applied \/ \E d \in sent : ApplyDelivery(d)
BY DEF Next, vars, database, ReplaceCriteria, BindPullRequest, SubmitForReview, ReviewMission,
       ReviewStaleHead, ArchiveMission, UnpublishProof, BeginRequest, UpdateProofProfile,
       FetchPull, FetchDetails, ReadCriteria, AbandonRequest, RefreshVerification, PublishProof,
       PublishStaleHead, RenewPublicationLease, RenewMismatch, PullRequestEvent, CheckEvent,
       AccessRevoked, MembershipReplaced, Tick

LEMMA GithubStep ==
    TypeOK /\ VersionsInv /\ [Next]_vars => ProviderConsistent' /\ DeliveriesNumbered'
<1> SUFFICES ASSUME TypeOK, VersionsInv, [Next]_vars
             PROVE  ProviderConsistent' /\ DeliveriesNumbered'
  OBVIOUS
<1>1. ProviderConsistent'
  BY GithubSteps DEF VersionsInv, ProviderConsistent, PullRequestEvent, CheckEvent, TypeOK
<1>2. applied' \subseteq sent'
  BY GithubSteps, DeliverySteps
  DEF VersionsInv, DeliveriesNumbered, ApplyDelivery, PullRequestEvent, CheckEvent, database, github
<1>3. \A d \in sent' : d.id <= events'
  <2>1. events \in Nat /\ \A d \in sent : d.id \in Nat /\ d.id <= events
    BY BoundAssumption DEF TypeOK, VersionsInv, DeliveriesNumbered, Delivery
  <2>2. ASSUME NEW p \in Pull, NEW f \in Facts, PullRequestEvent(p, f) \/ CheckEvent(p, f)
        PROVE  events' = events + 1 /\ \A d \in sent' : d \in sent \/ d.id = events + 1
    BY <2>2 DEF PullRequestEvent, CheckEvent
  <2>3. QED
    BY <2>1, <2>2, GithubSteps
<1>4. QED
  BY <1>1, <1>2, <1>3 DEF DeliveriesNumbered

LEMMA VersionsStep == TypeOK /\ VersionsInv /\ [Next]_vars => VersionsInv'
BY CurrentRunStep, RunsStep, RequestsStep, GithubStep DEF VersionsInv

\* Whoever changes the binding or the criteria of a mission counts its version
\* and clears its run, so versions tell apart what they stand for: for runs
\* that are stored and for requests that hold what they read.
THEOREM VersionsCorrect == Spec => []VersionsInv
<1>1. Init => VersionsInv
  BY DEF Init, NewMission, VersionsInv, CurrentRunVersions, RunsNotAhead,
         RunsMatchTheirVersions, RequestsMatchTheirVersions, ProviderConsistent, DeliveriesNumbered
<1>2. QED
  BY <1>1, VersionsStep, TypeCorrect, PTL DEF Spec

\* No run was evaluated against another pull request or other criteria than
\* its versions name, although they were read before its transaction.
THEOREM RunsMatchCorrect == Spec => []RunsMatchTheirVersions
<1>1. VersionsInv => RunsMatchTheirVersions
  BY DEF VersionsInv
<1>2. QED
  BY <1>1, VersionsCorrect, PTL

-----------------------------------------------------------------------------
(* StaleHeadIsOutstanding *)

\* An approved mission was approved before, or is being approved.
LEMMA ApprovedBy ==
    ASSUME TypeOK, [Next]_vars, NEW m \in Mission, mission'[m].state = "APPROVED"
    PROVE  \/ mission'[m] = mission[m]
           \/ \E u \in User, d \in Decision :
                 ReviewMission(m, u, d) /\ mission'[m].run = mission[m].run
                                       /\ mission'[m].pull = mission[m].pull
<1>1. RowChange(m)
  BY RowChanges
<1>2. CASE SubmitForReview(m)
  BY <1>2 DEF SubmitForReview, TypeOK, MissionRow
<1>3. CASE Reviews(m)
  <2> PICK u \in User, d \in Decision : ReviewMission(m, u, d)
    BY <1>3 DEF Reviews
  <2> DEFINE review == [run |-> mission[m].run, reviewer |-> u, decision |-> d]
  <2>1. mission' = [mission EXCEPT ![m] = [mission[m] EXCEPT !.state = d, !.review = review]]
    BY DEF ReviewMission
  <2> HIDE DEF review
  <2>2. mission'[m].run = mission[m].run /\ mission'[m].pull = mission[m].pull
    BY <2>1 DEF TypeOK, MissionRow
  <2>3. QED
    BY <2>2
<1>4. CASE Refreshes(m)
  BY <1>4, Refreshed DEF Refreshes
<1>5. QED
  BY <1>1, <1>2, <1>3, <1>4 DEF RowChange, WithoutCredit

LEMMA StaleHeadStep ==
    TypeOK /\ LifecycleConsistent /\ VersionsInv /\ StaleHeadIsOutstanding /\ [Next]_vars
        => StaleHeadIsOutstanding'
<1> SUFFICES ASSUME TypeOK, LifecycleConsistent, VersionsInv, StaleHeadIsOutstanding, [Next]_vars,
                    NEW m \in Mission, mission'[m].state = "APPROVED", HeadMoved(m)'
             PROVE  Outstanding("pull_request", mission[m].pull)'
  BY DEF StaleHeadIsOutstanding
<1> DEFINE pull == mission[m].pull
           head == mission[m].run.facts.head
\* A review compares the head while it holds the mission.
<1>1. CASE mission'[m] # mission[m]
  <2> PICK u \in User, d \in Decision :
         ReviewMission(m, u, d) /\ mission'[m].run = mission[m].run /\ mission'[m].pull = pull
    BY <1>1, ApprovedBy
  <2>1. provider[pull].head = head /\ provider' = provider
    BY DEF ReviewMission, github
  <2>2. QED
    BY <2>1 DEF HeadMoved
<1>2. CASE mission'[m] = mission[m]
  <2>1. pull \in Pull
    BY <1>2 DEF LifecycleConsistent, RowConsistent, TypeOK, MissionRow
  \* A head that moves in this step is announced by a delivery of its own.
  <2>2. CASE provider'[pull].head # provider[pull].head
    <3> PICK p \in Pull, f \in Facts : PullRequestEvent(p, f) \/ CheckEvent(p, f)
      BY <2>2, GithubSteps
    <3>1. PullRequestEvent(p, f) /\ p = pull
      BY <2>1, <2>2 DEF PullRequestEvent, CheckEvent, TypeOK
    <3> DEFINE d == [id |-> events + 1, kind |-> "pull_request", pull |-> p, head |-> f.head]
    <3>2. d \in sent' /\ applied' = applied
      BY <3>1 DEF PullRequestEvent, database
    <3>3. d \notin applied
      <4>1. \A e \in applied : e.id <= events
        BY DEF VersionsInv, DeliveriesNumbered
      <4>2. d.id = events + 1 /\ events \in Nat
        BY BoundAssumption DEF TypeOK
      <4> HIDE DEF d
      <4>3. QED
        BY <4>1, <4>2
    <3>4. d.kind = "pull_request" /\ d.pull = mission'[m].pull
      BY <1>2, <3>1
    <3> HIDE DEF d
    <3>5. QED
      BY <3>2, <3>3, <3>4 DEF Outstanding
  \* A head that moved before has its delivery; if it is applied now, it takes
  \* the approval.
  <2>3. CASE provider'[pull].head = provider[pull].head
    <3>1. PICK d \in sent \ applied : d.kind = "pull_request" /\ d.pull = pull
      BY <1>2, <2>3 DEF StaleHeadIsOutstanding, HeadMoved, Outstanding
    <3>2. sent \subseteq sent'
      BY GithubSteps DEF PullRequestEvent, CheckEvent
    <3>3. CASE d \in applied'
      <4>1. ApplyDelivery(d)
        BY <3>1, <3>3, DeliverySteps DEF ApplyDelivery
      <4>2. m \in Affected(d) /\ mission[m].state = "APPROVED"
        BY <1>2, <3>1 DEF Affected
      <4>3. mission'[m] = Cleared(mission[m], "BOUND")
        BY <4>1, <4>2 DEF ApplyDelivery, InvalidateAll
      <4>4. QED
        BY <4>3 DEF Cleared, TypeOK, MissionRow
    <3>4. QED
      BY <1>2, <3>1, <3>2, <3>3 DEF Outstanding
  <2>4. QED
    BY <2>2, <2>3
<1>3. QED
  BY <1>1, <1>2

\* An approval of a head that moved always has a pull_request delivery still
\* to come: no review in progress overtakes a delivery that was applied.
THEOREM StaleHeadCorrect == Spec => []StaleHeadIsOutstanding
<1>1. Init => StaleHeadIsOutstanding
  BY DEF Init, NewMission, StaleHeadIsOutstanding
<1>2. QED
  BY <1>1, StaleHeadStep, TypeCorrect, LifecycleCorrect, VersionsCorrect, PTL DEF Spec

-----------------------------------------------------------------------------
(* What a step may do to a withdrawn credit and to a lease *)

LEMMA WithdrawnStep ==
    ASSUME TypeOK, [Next]_vars, NEW m \in Mission, NEW v \in reviews,
           Credited(m, v.run)'
    PROVE  Credited(m, v.run)
<1>0. mission'[m].run = v.run' /\ mission'[m].review # NULL
  BY DEF Credited
<1>1. RowChange(m)
  BY RowChanges
<1>2. CASE SubmitForReview(m)
  BY <1>0, <1>2 DEF SubmitForReview, TypeOK, MissionRow, Credited
<1>3. CASE Reviews(m)
  <2> PICK u \in User, d \in Decision : ReviewMission(m, u, d)
    BY <1>3 DEF Reviews
  <2> DEFINE review == [run |-> mission[m].run, reviewer |-> u, decision |-> d]
  <2>1. /\ mission' = [mission EXCEPT ![m] = [mission[m] EXCEPT !.state = d, !.review = review]]
        /\ ~Decided(mission[m].run)
    BY DEF ReviewMission
  <2> HIDE DEF review
  <2>2. mission'[m].run = mission[m].run
    BY <2>1 DEF TypeOK, MissionRow
  <2>3. QED
    BY <1>0, <2>1, <2>2 DEF Decided
<1>4. CASE Refreshes(m)
  BY <1>0, <1>4, Refreshed DEF Refreshes
<1>5. QED
  BY <1>0, <1>1, <1>2, <1>3, <1>4 DEF RowChange, WithoutCredit, Credited

\* Credit once taken from a decided run never comes back to it.
THEOREM WithdrawnCorrect == Spec => WithdrawnCreditNeverReturns
<1>1. TypeOK /\ [Next]_vars =>
        [\A m \in Mission, r \in {v.run : v \in reviews} :
            ~Credited(m, r) => ~Credited(m, r)']_vars
  BY WithdrawnStep
<1>2. QED
  BY <1>1, TypeCorrect, PTL DEF Spec, WithdrawnCreditNeverReturns

\* A lease that grows is renewed on facts equal to those of the approved run.
LeaseGrowsOnFacts(m) ==
    /\ publication[m] # NULL
    /\ publication'[m] # NULL
    /\ publication'[m].lease > publication[m].lease
    => /\ mission[m].state = "APPROVED"
       /\ \E w \in Request : request[w] # NULL /\ request[w].facts = mission[m].run.facts

LEMMA StoppedKeepsLease ==
    ASSUME TypeOK, NEW m \in Mission,
           publication'[m] \in {publication[m], Invalidated(publication[m]), Unpublished(publication[m])}
    PROVE  LeaseGrowsOnFacts(m)
BY DEF LeaseGrowsOnFacts, Invalidated, Unpublished, TypeOK, Publication, LeaseTime

LEMMA LeaseStep ==
    ASSUME TypeOK, [Next]_vars, NEW m \in Mission
    PROVE  LeaseGrowsOnFacts(m)
<1> USE DEF database, github
<1>1. CASE publication' = publication
  BY <1>1, StoppedKeepsLease
<1>2. ASSUME NEW n \in Mission, \/ publication' = [publication EXCEPT ![n] = Invalidated(@)]
                                \/ publication' = [publication EXCEPT ![n] = Unpublished(@)]
      PROVE  LeaseGrowsOnFacts(m)
  BY <1>2, StoppedKeepsLease DEF TypeOK
<1>3. ASSUME NEW s, UpdateProofProfile(s)
      PROVE  LeaseGrowsOnFacts(m)
  BY <1>1, <1>3, StoppedKeepsLease DEF UpdateProofProfile
<1>4. ASSUME NEW S, InvalidateAll(S)
      PROVE  LeaseGrowsOnFacts(m)
  BY <1>4, StoppedKeepsLease DEF InvalidateAll
<1>5. ASSUME NEW n \in Mission,
             \/ \E c \in CriteriaInput : ReplaceCriteria(n, c)
             \/ \E p \in Pull : BindPullRequest(n, p)
             \/ SubmitForReview(n) \/ ArchiveMission(n) \/ UnpublishProof(n)
             \/ \E u \in User : \/ \E d \in Decision : ReviewMission(n, u, d)
                                \/ ReviewStaleHead(n, u)
             \/ \E w \in Request, op \in Operation : BeginRequest(w, op, n)
      PROVE  LeaseGrowsOnFacts(m)
  BY <1>1, <1>2, <1>5
  DEF ReplaceCriteria, BindPullRequest, SubmitForReview, ArchiveMission, UnpublishProof,
      ReviewMission, ReviewStaleHead, ClearEligibility, BeginRequest
<1>6. ASSUME NEW w \in Request, \/ RefreshVerification(w) \/ PublishStaleHead(w) \/ RenewMismatch(w)
      PROVE  LeaseGrowsOnFacts(m)
  BY <1>2, <1>6, ReadyRequest
  DEF RefreshVerification, PublishStaleHead, RenewMismatch, ClearEligibility
<1>7. ASSUME NEW w \in Request, PublishProof(w)
      PROVE  LeaseGrowsOnFacts(m)
  <2> DEFINE n == request[w].mission
             new == [state |-> "ACTIVE", run |-> mission[n].run, review |-> mission[n].review,
                     lease |-> IF publication[n] = NULL THEN Lease ELSE publication[n].lease]
  <2>1. publication' = [publication EXCEPT ![n] = new]
    BY <1>7 DEF PublishProof
  <2>2. publication[n] # NULL => new.lease = publication[n].lease
    OBVIOUS
  <2>3. publication[m] # NULL => publication[m].lease \in Nat
    BY DEF TypeOK, Publication, LeaseTime
  <2> HIDE DEF new
  <2>4. QED
    BY <2>1, <2>2, <2>3 DEF LeaseGrowsOnFacts, TypeOK
<1>8. ASSUME NEW w \in Request, RenewPublicationLease(w)
      PROVE  LeaseGrowsOnFacts(m)
  <2> DEFINE n == request[w].mission
  <2>1. /\ publication' = [publication EXCEPT ![n] = Renewed(publication[n], mission[n])]
        /\ mission[n].state = "APPROVED"
        /\ request[w] # NULL
        /\ request[w].facts = mission[n].run.facts
    BY <1>8 DEF RenewPublicationLease, Locked, StillVerified
  <2>2. publication[m] # NULL => publication[m].lease \in Nat
    BY DEF TypeOK, Publication, LeaseTime
  <2>3. m # n => publication'[m] = publication[m]
    BY <2>1 DEF TypeOK
  <2>4. QED
    BY <2>1, <2>2, <2>3 DEF LeaseGrowsOnFacts
<1>9. ASSUME Tick
      PROVE  LeaseGrowsOnFacts(m)
  <2>1. publication'[m] = IF publication[m] # NULL /\ publication[m].lease > 0
                          THEN [publication[m] EXCEPT !.lease = @ - 1] ELSE publication[m]
    BY <1>9 DEF Tick
  <2>2. publication[m] # NULL => publication[m] \in Publication /\ publication[m].lease \in Nat
    BY DEF TypeOK, Publication, LeaseTime
  <2>3. QED
    BY <2>1, <2>2 DEF LeaseGrowsOnFacts, Publication
<1>10. ASSUME NEW w \in Request, FetchPull(w) \/ FetchDetails(w) \/ ReadCriteria(w) \/ AbandonRequest(w)
       PROVE  LeaseGrowsOnFacts(m)
  BY <1>1, <1>10 DEF FetchPull, FetchDetails, ReadCriteria, AbandonRequest
<1>11. ASSUME \/ \E p \in Pull, f \in Facts : PullRequestEvent(p, f) \/ CheckEvent(p, f)
              \/ UNCHANGED vars
       PROVE  LeaseGrowsOnFacts(m)
  BY <1>1, <1>11 DEF PullRequestEvent, CheckEvent, vars
<1>12. ASSUME \/ \E d \in sent : ApplyDelivery(d)
              \/ \E R \in SUBSET Repository : AccessRevoked(R) \/ MembershipReplaced(R)
       PROVE  LeaseGrowsOnFacts(m)
  BY <1>4, <1>12 DEF ApplyDelivery, AccessRevoked, MembershipReplaced
<1>13. QED
  BY <1>3, <1>5, <1>6, <1>7, <1>8, <1>9, <1>10, <1>11, <1>12 DEF Next

\* A lease is only extended for an approved mission whose facts a request has
\* observed to be those of the approved run.
THEOREM LeaseCorrect == Spec => LeaseExtendedOnVerifiedFacts
<1>1. TypeOK /\ [Next]_vars =>
        [\A m \in Mission :
            /\ publication[m] # NULL
            /\ publication'[m] # NULL
            /\ publication'[m].lease > publication[m].lease
            => /\ mission[m].state = "APPROVED"
               /\ \E w \in Request : /\ request[w] # NULL
                                     /\ request[w].facts = mission[m].run.facts]_vars
  BY LeaseStep DEF LeaseGrowsOnFacts
<1>2. QED
  BY <1>1, TypeCorrect, PTL DEF Spec, LeaseExtendedOnVerifiedFacts
=============================================================================
