------------------------- MODULE ProofMissionProofs -------------------------
(* Theorems about ProofMission, for every value of its constants: its type  *)
(* invariant, then its safety invariants, each inductive on top of the ones *)
(* before it.                                                               *)
EXTENDS ProofMission, TLAPS

LEMMA ClearedType ==
    ASSUME NEW row \in MissionRow, NEW s \in MissionState
    PROVE  Cleared(row, s) \in MissionRow
BY DEF Cleared, MissionRow

LEMMA PublicationChangeType ==
    ASSUME NEW p \in Publication \cup {NULL}
    PROVE  /\ Invalidated(p) \in Publication \cup {NULL}
           /\ Unpublished(p) \in Publication \cup {NULL}
BY DEF Invalidated, Unpublished, Publication, PublicationState

LEMMA ClearEligibilityType ==
    ASSUME NEW m \in Mission, NEW s \in MissionState, TypeOK, ClearEligibility(m, s)
    PROVE  /\ mission' \in [Mission -> MissionRow]
           /\ publication' \in [Mission -> Publication \cup {NULL}]
BY ClearedType, PublicationChangeType DEF TypeOK, ClearEligibility

LEMMA InvalidateAllType ==
    ASSUME NEW S, TypeOK, InvalidateAll(S)
    PROVE  /\ mission' \in [Mission -> MissionRow]
           /\ publication' \in [Mission -> Publication \cup {NULL}]
<1>1. "BOUND" \in MissionState
  BY DEF MissionState
<1>2. QED
  BY <1>1, ClearedType, PublicationChangeType DEF TypeOK, InvalidateAll

\* A request that reaches its transaction holds the facts it fetched.
LEMMA ReadyRequest ==
    ASSUME TypeOK, NEW w \in Request, NEW op, Locked(w, op)
    PROVE  /\ request[w] \in InFlight
           /\ request[w].mission \in Mission
           /\ request[w].facts \in Facts
BY DEF TypeOK, Locked, InFlight

LEMMA TypeStep == TypeOK /\ [Next]_vars => TypeOK'
<1> SUFFICES ASSUME TypeOK, [Next]_vars PROVE TypeOK'
  OBVIOUS
<1> USE DEF database, github
<1>1. ASSUME NEW m \in Mission, NEW c \in CriteriaInput, ReplaceCriteria(m, c)
      PROVE  TypeOK'
  <2>1. c \in SUBSET Criterion
    BY InputAssumption
  <2> DEFINE row == Cleared(mission[m], IF mission[m].pull # NULL THEN "BOUND" ELSE "DRAFT")
             version == row.criteriaVersion + 1
             new == [row EXCEPT !.criteria = c, !.criteriaVersion = version]
  <2>2. row \in MissionRow
    BY ClearedType DEF TypeOK, MissionState
  <2>3. mission' \in [Mission -> MissionRow]
    <3>1. new \in MissionRow
      <4> HIDE DEF row
      <4>1. version \in Nat
        BY <2>2 DEF MissionRow
      <4> HIDE DEF version
      <4> QED BY <2>1, <2>2, <4>1 DEF MissionRow
    <3>2. mission' = [mission EXCEPT ![m] = new]
      BY <1>1 DEF ReplaceCriteria
    <3> HIDE DEF new
    <3> QED BY <3>1, <3>2 DEF TypeOK
  <2>4. publication' \in [Mission -> Publication \cup {NULL}]
    BY <1>1, PublicationChangeType DEF ReplaceCriteria, TypeOK
  <2>5. QED
    BY <1>1, <2>3, <2>4 DEF ReplaceCriteria, TypeOK
<1>2. ASSUME NEW m \in Mission, NEW p \in Pull, BindPullRequest(m, p)
      PROVE  TypeOK'
  <2> DEFINE row == Cleared(mission[m], "BOUND")
             version == row.bindingVersion + 1
             new == [row EXCEPT !.pull = p, !.bindingVersion = version]
  <2>1. row \in MissionRow
    BY ClearedType DEF TypeOK, MissionState
  <2>2. mission' \in [Mission -> MissionRow]
    <3>1. new \in MissionRow
      <4> HIDE DEF row
      <4>1. version \in Nat
        BY <2>1 DEF MissionRow
      <4> HIDE DEF version
      <4> QED BY <2>1, <4>1 DEF MissionRow
    <3>2. mission' = [mission EXCEPT ![m] = new]
      BY <1>2 DEF BindPullRequest
    <3> HIDE DEF new
    <3> QED BY <3>1, <3>2 DEF TypeOK
  <2>3. publication' \in [Mission -> Publication \cup {NULL}]
    BY <1>2, PublicationChangeType DEF BindPullRequest, TypeOK
  <2>4. QED
    BY <1>2, <2>2, <2>3 DEF BindPullRequest, TypeOK
<1>3. ASSUME NEW m \in Mission, SubmitForReview(m)
      PROVE  TypeOK'
  BY <1>3 DEF SubmitForReview, TypeOK, MissionRow, MissionState
<1>4. ASSUME NEW m \in Mission, NEW u \in User, NEW d \in Decision, ReviewMission(m, u, d)
      PROVE  TypeOK'
  <2> DEFINE review == [run |-> mission[m].run, reviewer |-> u, decision |-> d]
  <2>1. review \in Review
    BY <1>4 DEF ReviewMission, UnderReview, CurrentPassingRun, TypeOK, MissionRow, Review
  <2> DEFINE new == [mission[m] EXCEPT !.state = d, !.review = review]
  <2>2. mission' = [mission EXCEPT ![m] = new]
    BY <1>4 DEF ReviewMission
  <2>3. mission' \in [Mission -> MissionRow]
    <3>1. new \in MissionRow
      <4> DEFINE row == mission[m]
      <4>1. row \in MissionRow
        BY DEF TypeOK
      <4> HIDE DEF row, review
      <4>2. [row EXCEPT !.state = d, !.review = review] \in MissionRow
        BY <2>1, <4>1 DEF MissionRow, MissionState, Decision
      <4> QED BY <4>2 DEF row
    <3> HIDE DEF new
    <3> QED BY <2>2, <3>1 DEF TypeOK
  <2>4. publication' \in [Mission -> Publication \cup {NULL}]
    BY <1>4, PublicationChangeType DEF ReviewMission, TypeOK
  <2>5. reviews' \in SUBSET Review
    BY <1>4, <2>1 DEF ReviewMission, TypeOK
  <2>6. QED
    BY <1>4, <2>3, <2>4, <2>5 DEF ReviewMission, TypeOK
<1>5. ASSUME NEW m \in Mission, NEW u \in User, ReviewStaleHead(m, u)
      PROVE  TypeOK'
  BY <1>5, ClearEligibilityType DEF ReviewStaleHead, TypeOK, MissionState
<1>6. ASSUME NEW m \in Mission, ArchiveMission(m)
      PROVE  TypeOK'
  BY <1>6, ClearEligibilityType DEF ArchiveMission, TypeOK, MissionState
<1>7. ASSUME NEW m \in Mission, UnpublishProof(m)
      PROVE  TypeOK'
  BY <1>7, PublicationChangeType DEF UnpublishProof, TypeOK
<1>8. ASSUME NEW w \in Request, NEW op \in Operation, NEW m \in Mission, BeginRequest(w, op, m)
      PROVE  TypeOK'
  <2> DEFINE new == [op |-> op, stage |-> "snapshot", mission |-> m,
                     pull |-> mission[m].pull,
                     bindingVersion |-> mission[m].bindingVersion,
                     criteriaVersion |-> mission[m].criteriaVersion,
                     facts |-> NULL, criteria |-> {}]
  <2>1. request' = [request EXCEPT ![w] = new]
    BY <1>8 DEF BeginRequest
  <2>2. new \in InFlight
    BY <1>8 DEF BeginRequest, TypeOK, InFlight, MissionRow
  <2>3. new.stage = "snapshot"
    OBVIOUS
  <2>4. QED
    <3> HIDE DEF new
    <3> QED BY <1>8, <2>1, <2>2, <2>3 DEF BeginRequest, TypeOK
<1>9. ASSUME NEW s \in {"ENABLED", "DISABLED"}, UpdateProofProfile(s)
      PROVE  TypeOK'
  <2>1. publication' \in [Mission -> Publication \cup {NULL}]
    BY <1>9, PublicationChangeType DEF UpdateProofProfile, TypeOK
  <2>2. QED
    BY <1>9, <2>1 DEF UpdateProofProfile, TypeOK, ProfileState
<1>10. ASSUME NEW w \in Request, FetchPull(w)
       PROVE  TypeOK'
  <2> DEFINE new == [request[w] EXCEPT
                        !.facts = provider[request[w].pull],
                        !.stage = IF request[w].op = "publish" THEN "ready" ELSE "pull"]
  <2>1. request' = [request EXCEPT ![w] = new]
    BY <1>10 DEF FetchPull
  <2>2. request[w] \in InFlight /\ provider[request[w].pull] \in Facts
    BY <1>10 DEF FetchPull, TypeOK, InFlight
  <2>3. new \in InFlight /\ new.facts # NULL
    BY <2>2, NullAssumption DEF InFlight
  <2>4. QED
    <3> HIDE DEF new
    <3> QED BY <1>10, <2>1, <2>3 DEF FetchPull, TypeOK
<1>10a. ASSUME NEW w \in Request, FetchDetails(w)
       PROVE  TypeOK'
  <2>1. PICK passing \in SUBSET Check :
          request' = [request EXCEPT ![w] =
             [request[w] EXCEPT !.facts = [request[w].facts EXCEPT !.passing = passing],
                                !.stage = "fetched"]]
    BY <1>10a DEF FetchDetails
  <2> DEFINE facts == [request[w].facts EXCEPT !.passing = passing]
             new == [request[w] EXCEPT !.facts = facts, !.stage = "fetched"]
  <2>2. request[w] \in InFlight /\ request[w].facts \in Facts
    BY <1>10a DEF FetchDetails, TypeOK, InFlight
  <2>3. facts \in Facts
    BY <2>2 DEF Facts
  <2>4. new \in InFlight /\ new.facts # NULL
    <3> HIDE DEF facts
    <3> QED BY <2>2, <2>3, NullAssumption DEF InFlight
  <2>5. request' = [request EXCEPT ![w] = new]
    BY <2>1
  <2>6. QED
    <3> HIDE DEF new
    <3> QED BY <1>10a, <2>4, <2>5 DEF FetchDetails, TypeOK
<1>11. ASSUME NEW w \in Request, ReadCriteria(w)
       PROVE  TypeOK'
  <2> DEFINE read == mission[request[w].mission].criteria
             new == [request[w] EXCEPT !.criteria = read, !.stage = "ready"]
  <2>1. request' = [request EXCEPT ![w] = new]
    BY <1>11 DEF ReadCriteria
  <2>2. request[w] \in InFlight /\ request[w].facts # NULL
    BY <1>11 DEF ReadCriteria, TypeOK
  <2>3. read \in SUBSET Criterion
    BY <2>2 DEF TypeOK, InFlight, MissionRow
  <2>4. new \in InFlight /\ new.facts # NULL
    <3> HIDE DEF read
    <3> QED BY <2>2, <2>3 DEF InFlight
  <2>5. QED
    <3> HIDE DEF new
    <3> QED BY <1>11, <2>1, <2>4 DEF ReadCriteria, TypeOK
<1>12. ASSUME NEW w \in Request, AbandonRequest(w)
       PROVE  TypeOK'
  BY <1>12 DEF AbandonRequest, TypeOK
<1>13. ASSUME NEW w \in Request, RefreshVerification(w)
       PROVE  TypeOK'
  <2> DEFINE req == request[w]
             m == req.mission
             run == Observation(req)
             new == [mission[m] EXCEPT !.run = run, !.review = NULL, !.state = "BOUND"]
  <2>1. req \in InFlight /\ m \in Mission /\ req.facts \in Facts
    BY <1>13, ReadyRequest DEF RefreshVerification
  <2>2. run \in Run
    <3>1. mission[m] \in MissionRow
      BY <2>1 DEF TypeOK
    <3>2. mission[m].bindingVersion \in Nat /\ mission[m].criteriaVersion \in Nat
      BY <3>1 DEF MissionRow
    <3> QED BY <2>1, <3>2 DEF Observation, Run, InFlight
  <2>3. new \in MissionRow
    <3> DEFINE row == mission[m]
    <3>1. row \in MissionRow
      BY <2>1 DEF TypeOK
    <3> HIDE DEF row, run
    <3>2. [row EXCEPT !.run = run, !.review = NULL, !.state = "BOUND"] \in MissionRow
      BY <2>2, <3>1 DEF MissionRow, MissionState
    <3> QED BY <3>2 DEF row
  <2>4. mission' \in [Mission -> MissionRow]
    <3>1. mission' = [mission EXCEPT ![m] = new]
      BY <1>13 DEF RefreshVerification
    <3> HIDE DEF new, m
    <3> QED BY <2>3, <3>1 DEF TypeOK
  <2>5. publication' \in [Mission -> Publication \cup {NULL}]
    BY <1>13, PublicationChangeType DEF RefreshVerification, TypeOK
  <2>6. runs' \in SUBSET Run
    BY <1>13, <2>2 DEF RefreshVerification, TypeOK
  <2>7. QED
    BY <1>13, <2>4, <2>5, <2>6 DEF RefreshVerification, TypeOK
<1>14. ASSUME NEW w \in Request, PublishProof(w)
       PROVE  TypeOK'
  <2> DEFINE m == request[w].mission
             old == publication[m]
             new == [state |-> "ACTIVE", run |-> mission[m].run,
                     review |-> mission[m].review,
                     lease |-> IF old = NULL THEN Lease ELSE old.lease]
  <2>1. m \in Mission
    BY <1>14, ReadyRequest DEF PublishProof
  <2>2. mission[m].run \in Run /\ mission[m].review \in Review
    <3>1. mission[m].run # NULL /\ mission[m].review \in reviews
      BY <1>14 DEF PublishProof, CurrentPassingRun, EligibleReview
    <3>2. mission[m] \in MissionRow /\ reviews \subseteq Review
      BY <2>1 DEF TypeOK
    <3>3. mission[m].run \in Run \cup {NULL}
      BY <3>2 DEF MissionRow
    <3> QED BY <3>1, <3>2, <3>3
  <2>3. new \in Publication
    <3> HIDE DEF m
    <3>1. old \in Publication \cup {NULL}
      BY <2>1 DEF TypeOK
    <3> HIDE DEF old
    <3> QED BY <2>2, <3>1, BoundAssumption DEF Publication, PublicationState, LeaseTime
  <2>4. publication' = [publication EXCEPT ![m] = new]
    BY <1>14 DEF PublishProof
  <2>5. QED
    <3> HIDE DEF m, new
    <3> QED BY <1>14, <2>3, <2>4 DEF PublishProof, TypeOK
<1>15. ASSUME NEW w \in Request, PublishStaleHead(w)
       PROVE  TypeOK'
  BY <1>15, ReadyRequest, ClearEligibilityType DEF PublishStaleHead, TypeOK, MissionState
<1>16. ASSUME NEW w \in Request, RenewPublicationLease(w)
       PROVE  TypeOK'
  <2> DEFINE m == request[w].mission
             old == publication[m]
             new == [old EXCEPT !.run = mission[m].run, !.review = mission[m].review,
                                !.lease = Lease]
  <2>1. m \in Mission
    BY <1>16, ReadyRequest DEF RenewPublicationLease
  <2>2. /\ mission[m].run \in Run
        /\ mission[m].review \in Review
        /\ old \in Publication
    BY <1>16, <2>1 DEF RenewPublicationLease, CurrentPassingRun, EligibleReview, TypeOK, MissionRow
  <2>3. new \in Publication
    <3> HIDE DEF m, old
    <3>1. Lease \in LeaseTime
      BY BoundAssumption DEF LeaseTime
    <3> QED BY <2>2, <3>1 DEF Publication
  <2>4. publication' = [publication EXCEPT ![m] = new]
    BY <1>16 DEF RenewPublicationLease, Renewed
  <2>5. QED
    <3> HIDE DEF m, new
    <3> QED BY <1>16, <2>3, <2>4 DEF RenewPublicationLease, TypeOK
<1>17. ASSUME NEW w \in Request, RenewMismatch(w)
       PROVE  TypeOK'
  BY <1>17, ReadyRequest, ClearEligibilityType DEF RenewMismatch, TypeOK, MissionState
<1>18. ASSUME NEW p \in Pull, NEW f \in Facts, PullRequestEvent(p, f)
       PROVE  TypeOK'
  BY <1>18, BoundAssumption DEF PullRequestEvent, TypeOK, Delivery, Facts
<1>19. ASSUME NEW p \in Pull, NEW f \in Facts, CheckEvent(p, f)
       PROVE  TypeOK'
  BY <1>19, BoundAssumption DEF CheckEvent, TypeOK, Delivery, Facts
<1>20. ASSUME NEW d \in sent, ApplyDelivery(d)
       PROVE  TypeOK'
  BY <1>20, InvalidateAllType DEF ApplyDelivery, TypeOK
<1>21. ASSUME NEW R \in SUBSET Repository, AccessRevoked(R)
       PROVE  TypeOK'
  BY <1>21, InvalidateAllType DEF AccessRevoked, TypeOK
<1>22. ASSUME NEW R \in SUBSET Repository, MembershipReplaced(R)
       PROVE  TypeOK'
  BY <1>22, InvalidateAllType DEF MembershipReplaced, TypeOK
<1>23. CASE Tick
  BY <1>23, BoundAssumption DEF Tick, TypeOK, Publication, LeaseTime
<1>24. CASE UNCHANGED vars
  BY <1>24 DEF vars, TypeOK
<1>25. QED
  BY <1>10a, <1>1, <1>2, <1>3, <1>4, <1>5, <1>6, <1>7, <1>8, <1>9, <1>10, <1>11, <1>12,
     <1>13, <1>14, <1>15, <1>16, <1>17, <1>18, <1>19, <1>20, <1>21, <1>22,
     <1>23, <1>24
  DEF Next

LEMMA TypeInit == Init => TypeOK
BY BoundAssumption
DEF Init, TypeOK, NewMission, MissionRow, MissionState, ProfileState

\* Type correctness: every handler, delivery and fact leaves rows of the types
\* the entities declare, and a request past its fetch holds facts.
THEOREM TypeCorrect == Spec => []TypeOK
BY TypeInit, TypeStep, PTL DEF Spec

-----------------------------------------------------------------------------
(* LifecycleConsistent *)

\* A row that clearEligibility clears is consistent in any of the three states
\* its callers give it.
LEMMA ClearedConsistent ==
    ASSUME NEW m \in Mission, NEW row \in MissionRow,
           NEW s \in {"DRAFT", "BOUND", "ARCHIVED"},
           s = "BOUND" => row.pull # NULL,
           s = "DRAFT" => row.pull = NULL,
           mission'[m] = Cleared(row, s)
    PROVE  RowConsistent(m, mission[m])'
BY DEF Cleared, RowConsistent, MissionRow

\* A row nobody writes stays consistent: runs and reviews only grow.
LEMMA UntouchedConsistent ==
    ASSUME LifecycleConsistent, NEW m \in Mission, mission'[m] = mission[m],
           runs \subseteq runs', reviews \subseteq reviews'
    PROVE  RowConsistent(m, mission[m])'
BY DEF LifecycleConsistent, RowConsistent, CurrentPassingRun, Passed,
       MachineCriteriaPassed

LEMMA ClearEligibilityConsistent ==
    ASSUME TypeOK, LifecycleConsistent, NEW m \in Mission,
           NEW s \in {"BOUND", "ARCHIVED"}, s = "BOUND" => mission[m].pull # NULL,
           ClearEligibility(m, s), UNCHANGED <<runs, reviews>>
    PROVE  LifecycleConsistent'
<1> SUFFICES ASSUME NEW n \in Mission PROVE RowConsistent(n, mission[n])'
  BY DEF LifecycleConsistent
<1>1. CASE n = m
  BY <1>1, ClearedConsistent DEF ClearEligibility, TypeOK
<1>2. CASE n # m
  BY <1>2, UntouchedConsistent DEF ClearEligibility, TypeOK
<1>3. QED
  BY <1>1, <1>2

LEMMA InvalidateAllConsistent ==
    ASSUME TypeOK, LifecycleConsistent, NEW S \in SUBSET Mission,
           \A m \in S : mission[m].pull # NULL,
           InvalidateAll(S), UNCHANGED <<runs, reviews>>
    PROVE  LifecycleConsistent'
<1> SUFFICES ASSUME NEW m \in Mission PROVE RowConsistent(m, mission[m])'
  BY DEF LifecycleConsistent
<1>1. CASE mission'[m] = mission[m]
  BY <1>1, UntouchedConsistent
<1>2. CASE mission'[m] # mission[m]
  <2>1. m \in S /\ mission'[m] = Cleared(mission[m], "BOUND")
    BY <1>2 DEF InvalidateAll
  <2>2. QED
    BY <2>1, ClearedConsistent DEF TypeOK
<1>3. QED
  BY <1>1, <1>2

\* The missions a delivery or a change of access reaches are bound.
LEMMA ReachedAreBound ==
    /\ \A R : BoundTo(R) \subseteq Mission /\ \A m \in BoundTo(R) : mission[m].pull # NULL
    /\ \A d \in Delivery : /\ Affected(d) \subseteq Mission
                           /\ \A m \in Affected(d) : mission[m].pull # NULL
BY NullAssumption DEF BoundTo, Affected, Delivery

LEMMA LifecycleStep ==
    TypeOK /\ TypeOK' /\ LifecycleConsistent /\ [Next]_vars => LifecycleConsistent'
<1> SUFFICES ASSUME TypeOK, TypeOK', LifecycleConsistent, [Next]_vars
             PROVE  LifecycleConsistent'
  OBVIOUS
<1> USE DEF database, github
<1>1. ASSUME NEW m \in Mission, NEW c \in CriteriaInput, ReplaceCriteria(m, c)
      PROVE  LifecycleConsistent'
  <2> SUFFICES ASSUME NEW n \in Mission PROVE RowConsistent(n, mission[n])'
    BY DEF LifecycleConsistent
  <2>1. CASE n = m
    BY <1>1, <2>1 DEF ReplaceCriteria, Cleared, RowConsistent, TypeOK, MissionRow
  <2>2. CASE n # m
    BY <1>1, <2>2, UntouchedConsistent DEF ReplaceCriteria, TypeOK
  <2>3. QED
    BY <2>1, <2>2
<1>2. ASSUME NEW m \in Mission, NEW p \in Pull, BindPullRequest(m, p)
      PROVE  LifecycleConsistent'
  <2> SUFFICES ASSUME NEW n \in Mission PROVE RowConsistent(n, mission[n])'
    BY DEF LifecycleConsistent
  <2>1. CASE n = m
    BY <1>2, <2>1, NullAssumption
    DEF BindPullRequest, Cleared, RowConsistent, TypeOK, MissionRow
  <2>2. CASE n # m
    BY <1>2, <2>2, UntouchedConsistent DEF BindPullRequest, TypeOK
  <2>3. QED
    BY <2>1, <2>2
<1>3. ASSUME NEW m \in Mission, SubmitForReview(m)
      PROVE  LifecycleConsistent'
  <2> SUFFICES ASSUME NEW n \in Mission PROVE RowConsistent(n, mission[n])'
    BY DEF LifecycleConsistent
  <2>1. CASE n = m
    <3>1. /\ mission[m] \in MissionRow
          /\ mission'[m] = [mission[m] EXCEPT !.state = "REVIEW_PENDING"]
          /\ runs' = runs
      BY <1>3 DEF SubmitForReview, TypeOK
    <3>2. /\ mission[m].pull # NULL
          /\ mission[m].review = NULL
          /\ mission[m].run \in runs
          /\ mission[m].run.mission = m
          /\ CurrentPassingRun(mission[m])
      BY <1>3 DEF SubmitForReview, LifecycleConsistent, RowConsistent,
                  CurrentPassingRun, Decided
    <3>3. /\ mission'[m].state = "REVIEW_PENDING"
          /\ mission'[m].review = mission[m].review
          /\ mission'[m].run = mission[m].run
          /\ mission'[m].pull = mission[m].pull
          /\ mission'[m].bindingVersion = mission[m].bindingVersion
          /\ mission'[m].criteriaVersion = mission[m].criteriaVersion
      BY <3>1 DEF MissionRow
    <3>4. QED
      BY <2>1, <3>1, <3>2, <3>3 DEF RowConsistent, CurrentPassingRun
  <2>2. CASE n # m
    BY <1>3, <2>2, UntouchedConsistent DEF SubmitForReview, TypeOK
  <2>3. QED
    BY <2>1, <2>2
<1>4. ASSUME NEW m \in Mission, NEW u \in User, NEW d \in Decision, ReviewMission(m, u, d)
      PROVE  LifecycleConsistent'
  <2> SUFFICES ASSUME NEW n \in Mission PROVE RowConsistent(n, mission[n])'
    BY DEF LifecycleConsistent
  <2>1. CASE n = m
    <3> DEFINE review == [run |-> mission[m].run, reviewer |-> u, decision |-> d]
    <3> DEFINE new == [mission[m] EXCEPT !.state = d, !.review = review]
    <3>0. mission' = [mission EXCEPT ![m] = new] /\ reviews' = reviews \cup {review}
      BY <1>4 DEF ReviewMission
    <3>1. /\ review \in reviews'
          /\ mission'[m] = new
          /\ mission[m] \in MissionRow
          /\ runs' = runs
          /\ u # Owner
      <4> HIDE DEF review, new
      <4> QED BY <1>4, <3>0 DEF ReviewMission, UnderReview, TypeOK
    <3>2. /\ review.run = mission[m].run
          /\ review.reviewer = u
          /\ review.decision = d
      OBVIOUS
    <3> HIDE DEF review
    <3>3. /\ mission'[m].state = d
          /\ mission'[m].review = review
          /\ mission'[m].run = mission[m].run
          /\ mission'[m].pull = mission[m].pull
          /\ mission'[m].bindingVersion = mission[m].bindingVersion
          /\ mission'[m].criteriaVersion = mission[m].criteriaVersion
      BY <3>1 DEF MissionRow
    <3>4. /\ mission[m].pull # NULL
          /\ mission[m].run \in runs
          /\ mission[m].run.mission = m
          /\ CurrentPassingRun(mission[m])
      BY <1>4 DEF ReviewMission, UnderReview, LifecycleConsistent, RowConsistent,
                  CurrentPassingRun
    <3>5. QED
      BY <2>1, <3>1, <3>2, <3>3, <3>4 DEF RowConsistent, CurrentPassingRun, Decision
  <2>2. CASE n # m
    BY <1>4, <2>2, UntouchedConsistent DEF ReviewMission, TypeOK
  <2>3. QED
    BY <2>1, <2>2
<1>5. ASSUME NEW m \in Mission, NEW u \in User, ReviewStaleHead(m, u)
      PROVE  LifecycleConsistent'
  <2>1. mission[m].pull # NULL
    BY <1>5 DEF ReviewStaleHead, UnderReview, LifecycleConsistent, RowConsistent
  <2>2. QED
    BY <1>5, <2>1, ClearEligibilityConsistent DEF ReviewStaleHead
<1>6. ASSUME NEW m \in Mission, ArchiveMission(m)
      PROVE  LifecycleConsistent'
  BY <1>6, ClearEligibilityConsistent DEF ArchiveMission
<1>13. ASSUME NEW w \in Request, RefreshVerification(w)
       PROVE  LifecycleConsistent'
  <2> DEFINE m == request[w].mission
             run == Observation(request[w])
  <2>1. m \in Mission /\ request[w] \in InFlight
    BY <1>13, ReadyRequest DEF RefreshVerification
  <2>2. mission[m].pull # NULL
    BY <1>13, <2>1, NullAssumption
    DEF RefreshVerification, Locked, BindingUnchanged, InFlight
  <2>3. run \in runs' /\ run.mission = m
    BY <1>13 DEF RefreshVerification, Observation
  <2>4. mission' = [mission EXCEPT ![m] =
                       [mission[m] EXCEPT !.run = run, !.review = NULL, !.state = "BOUND"]]
    BY <1>13 DEF RefreshVerification
  <2>5. runs \subseteq runs' /\ reviews' = reviews
    BY <1>13 DEF RefreshVerification
  <2> HIDE DEF m, run
  <2> SUFFICES ASSUME NEW n \in Mission PROVE RowConsistent(n, mission[n])'
    BY DEF LifecycleConsistent
  <2>6. CASE n = m
    BY <2>1, <2>2, <2>3, <2>4, <2>6 DEF RowConsistent, TypeOK, MissionRow
  <2>7. CASE n # m
    BY <2>4, <2>5, <2>7, UntouchedConsistent DEF TypeOK
  <2>8. QED
    BY <2>6, <2>7
<1>15. ASSUME NEW w \in Request, PublishStaleHead(w)
       PROVE  LifecycleConsistent'
  <2>1. request[w].mission \in Mission /\ mission[request[w].mission].pull # NULL
    BY <1>15, ReadyRequest
    DEF PublishStaleHead, LifecycleConsistent, RowConsistent
  <2>2. QED
    BY <1>15, <2>1, ClearEligibilityConsistent DEF PublishStaleHead
<1>17. ASSUME NEW w \in Request, RenewMismatch(w)
       PROVE  LifecycleConsistent'
  <2>1. request[w].mission \in Mission /\ mission[request[w].mission].pull # NULL
    BY <1>17, ReadyRequest, NullAssumption
    DEF RenewMismatch, Locked, BindingUnchanged, InFlight
  <2>2. QED
    BY <1>17, <2>1, ClearEligibilityConsistent DEF RenewMismatch
<1>20. ASSUME NEW d \in sent, ApplyDelivery(d)
       PROVE  LifecycleConsistent'
  BY <1>20, InvalidateAllConsistent, ReachedAreBound DEF ApplyDelivery, TypeOK
<1>21. ASSUME NEW R \in SUBSET Repository, AccessRevoked(R)
       PROVE  LifecycleConsistent'
  BY <1>21, InvalidateAllConsistent, ReachedAreBound DEF AccessRevoked
<1>22. ASSUME NEW R \in SUBSET Repository, MembershipReplaced(R)
       PROVE  LifecycleConsistent'
  BY <1>22, InvalidateAllConsistent, ReachedAreBound DEF MembershipReplaced
<1>23. ASSUME UNCHANGED <<mission, runs, reviews>>
       PROVE  LifecycleConsistent'
  BY <1>23, UntouchedConsistent DEF LifecycleConsistent
<1>24. QED
  BY <1>1, <1>2, <1>3, <1>4, <1>5, <1>6, <1>13, <1>15, <1>17, <1>20, <1>21, <1>22, <1>23
  DEF Next, vars, UnpublishProof, BeginRequest, UpdateProofProfile, FetchPull, FetchDetails,
      ReadCriteria, AbandonRequest, PublishProof, RenewPublicationLease,
      PullRequestEvent, CheckEvent, Tick

\* Whatever commands, webhooks and requests in flight interleave, a mission in
\* review or decided has the passing run and the review its state promises.
THEOREM LifecycleCorrect == Spec => []LifecycleConsistent
<1>1. Init => LifecycleConsistent
  BY DEF Init, NewMission, LifecycleConsistent, RowConsistent
<1>2. QED
  BY <1>1, LifecycleStep, TypeCorrect, PTL DEF Spec

-----------------------------------------------------------------------------
(* ActiveProofRestsOnApproval *)

LEMMA StoppedProof ==
    ASSUME NEW p \in Publication \cup {NULL}
    PROVE  /\ Invalidated(p) # NULL => Invalidated(p).state # "ACTIVE"
           /\ Unpublished(p) # NULL => Unpublished(p).state # "ACTIVE"
BY DEF Invalidated, Unpublished, Publication

LEMMA UntouchedProof ==
    ASSUME ActiveProofRestsOnApproval, NEW m \in Mission,
           mission'[m] = mission[m], publication'[m] = publication[m],
           profile' = profile
    PROVE  RestsOnApproval(m)'
BY DEF ActiveProofRestsOnApproval, RestsOnApproval

\* Whoever invalidates one proof and leaves the other missions alone.
LEMMA InvalidatedProof ==
    ASSUME TypeOK, ActiveProofRestsOnApproval, NEW m \in Mission,
           \A n \in Mission \ {m} : mission'[n] = mission[n],
           publication' = [publication EXCEPT ![m] = Invalidated(@)],
           profile' = profile
    PROVE  ActiveProofRestsOnApproval'
<1> SUFFICES ASSUME NEW n \in Mission PROVE RestsOnApproval(n)'
  BY DEF ActiveProofRestsOnApproval
<1>1. CASE n = m
  BY <1>1, StoppedProof DEF RestsOnApproval, TypeOK
<1>2. CASE n # m
  BY <1>2, UntouchedProof DEF TypeOK
<1>3. QED
  BY <1>1, <1>2

LEMMA InvalidateAllProofs ==
    ASSUME TypeOK, ActiveProofRestsOnApproval, NEW S \in SUBSET Mission,
           InvalidateAll(S), profile' = profile
    PROVE  ActiveProofRestsOnApproval'
<1> SUFFICES ASSUME NEW m \in Mission PROVE RestsOnApproval(m)'
  BY DEF ActiveProofRestsOnApproval
<1>1. CASE m \in S /\ mission[m].state # "ARCHIVED"
  BY <1>1, StoppedProof DEF InvalidateAll, RestsOnApproval, TypeOK
<1>2. CASE ~(m \in S /\ mission[m].state # "ARCHIVED")
  BY <1>2, UntouchedProof DEF InvalidateAll
<1>3. QED
  BY <1>1, <1>2

LEMMA ActiveProofStep ==
    TypeOK /\ ActiveProofRestsOnApproval /\ [Next]_vars => ActiveProofRestsOnApproval'
<1> SUFFICES ASSUME TypeOK, ActiveProofRestsOnApproval, [Next]_vars
             PROVE  ActiveProofRestsOnApproval'
  OBVIOUS
<1> USE DEF database, github
<1>1. ASSUME NEW m \in Mission, NEW c \in CriteriaInput, ReplaceCriteria(m, c)
      PROVE  ActiveProofRestsOnApproval'
  BY <1>1, InvalidatedProof DEF ReplaceCriteria, TypeOK
<1>2. ASSUME NEW m \in Mission, NEW p \in Pull, BindPullRequest(m, p)
      PROVE  ActiveProofRestsOnApproval'
  BY <1>2, InvalidatedProof DEF BindPullRequest, TypeOK
<1>3. ASSUME NEW m \in Mission, SubmitForReview(m)
      PROVE  ActiveProofRestsOnApproval'
  <2> SUFFICES ASSUME NEW n \in Mission PROVE RestsOnApproval(n)'
    BY DEF ActiveProofRestsOnApproval
  <2>1. CASE n = m
    BY <1>3, <2>1 DEF SubmitForReview, ActiveProofRestsOnApproval, RestsOnApproval
  <2>2. CASE n # m
    BY <1>3, <2>2, UntouchedProof DEF SubmitForReview, TypeOK
  <2>3. QED
    BY <2>1, <2>2
<1>4. ASSUME NEW m \in Mission, NEW u \in User, NEW d \in Decision, ReviewMission(m, u, d)
      PROVE  ActiveProofRestsOnApproval'
  <2>1. ~(publication[m] # NULL /\ publication[m].state = "ACTIVE")
    BY <1>4 DEF ReviewMission, UnderReview, ActiveProofRestsOnApproval, RestsOnApproval
  <2>2. \A n \in Mission \ {m} : mission'[n] = mission[n]
    BY <1>4 DEF ReviewMission, TypeOK
  <2>3. publication' = publication \/ publication' = [publication EXCEPT ![m] = Invalidated(@)]
    BY <1>4 DEF ReviewMission
  <2>4. profile' = profile
    BY <1>4 DEF ReviewMission
  <2>5. CASE publication' = publication
    BY <2>1, <2>2, <2>4, <2>5
    DEF ActiveProofRestsOnApproval, RestsOnApproval
  <2>6. QED
    BY <2>2, <2>3, <2>4, <2>5, InvalidatedProof
<1>5. ASSUME NEW m \in Mission, NEW u \in User, ReviewStaleHead(m, u)
      PROVE  ActiveProofRestsOnApproval'
  BY <1>5, InvalidatedProof DEF ReviewStaleHead, ClearEligibility, TypeOK
<1>6. ASSUME NEW m \in Mission, ArchiveMission(m)
      PROVE  ActiveProofRestsOnApproval'
  BY <1>6, InvalidatedProof DEF ArchiveMission, ClearEligibility, TypeOK
<1>7. ASSUME NEW m \in Mission, UnpublishProof(m)
      PROVE  ActiveProofRestsOnApproval'
  <2> SUFFICES ASSUME NEW n \in Mission PROVE RestsOnApproval(n)'
    BY DEF ActiveProofRestsOnApproval
  <2>1. CASE n = m
    BY <1>7, <2>1, StoppedProof DEF UnpublishProof, RestsOnApproval, TypeOK
  <2>2. CASE n # m
    BY <1>7, <2>2, UntouchedProof DEF UnpublishProof, TypeOK
  <2>3. QED
    BY <2>1, <2>2
<1>9. ASSUME NEW s \in {"ENABLED", "DISABLED"}, UpdateProofProfile(s)
      PROVE  ActiveProofRestsOnApproval'
  <2> SUFFICES ASSUME NEW n \in Mission PROVE RestsOnApproval(n)'
    BY DEF ActiveProofRestsOnApproval
  <2>1. CASE s = "DISABLED"
    BY <1>9, <2>1, StoppedProof DEF UpdateProofProfile, RestsOnApproval, TypeOK
  <2>2. CASE s = "ENABLED"
    BY <1>9, <2>2
    DEF UpdateProofProfile, ActiveProofRestsOnApproval, RestsOnApproval
  <2>3. QED
    BY <2>1, <2>2
<1>13. ASSUME NEW w \in Request, RefreshVerification(w)
       PROVE  ActiveProofRestsOnApproval'
  BY <1>13, ReadyRequest, InvalidatedProof DEF RefreshVerification, TypeOK
<1>14. ASSUME NEW w \in Request, PublishProof(w)
       PROVE  ActiveProofRestsOnApproval'
  <2> DEFINE m == request[w].mission
  <2>1. m \in Mission
    BY <1>14, ReadyRequest DEF PublishProof
  <2>2. /\ mission' = mission
        /\ profile' = profile
        /\ profile = "ENABLED"
        /\ mission[m].state = "APPROVED"
        /\ publication'[m].run = mission[m].run
        /\ publication'[m].review = mission[m].review
        /\ \A n \in Mission \ {m} : publication'[n] = publication[n]
    BY <1>14, <2>1 DEF PublishProof, TypeOK
  <2> HIDE DEF m
  <2> SUFFICES ASSUME NEW n \in Mission PROVE RestsOnApproval(n)'
    BY DEF ActiveProofRestsOnApproval
  <2>3. CASE n = m
    BY <2>2, <2>3 DEF RestsOnApproval
  <2>4. CASE n # m
    BY <2>2, <2>4, UntouchedProof
  <2>5. QED
    BY <2>3, <2>4
<1>15. ASSUME NEW w \in Request, PublishStaleHead(w)
       PROVE  ActiveProofRestsOnApproval'
  BY <1>15, ReadyRequest, InvalidatedProof DEF PublishStaleHead, ClearEligibility, TypeOK
<1>16. ASSUME NEW w \in Request, RenewPublicationLease(w)
       PROVE  ActiveProofRestsOnApproval'
  <2> DEFINE m == request[w].mission
  <2>1. m \in Mission /\ publication[m] \in Publication
    BY <1>16, ReadyRequest DEF RenewPublicationLease, TypeOK
  <2>2. /\ mission' = mission
        /\ profile' = profile
        /\ profile = "ENABLED"
        /\ mission[m].state = "APPROVED"
        /\ publication' = [publication EXCEPT ![m] =
             [publication[m] EXCEPT !.run = mission[m].run,
                                    !.review = mission[m].review, !.lease = Lease]]
    BY <1>16 DEF RenewPublicationLease, Renewed, StillVerified
  <2> HIDE DEF m
  <2> SUFFICES ASSUME NEW n \in Mission PROVE RestsOnApproval(n)'
    BY DEF ActiveProofRestsOnApproval
  <2>3. CASE n = m
    BY <2>1, <2>2, <2>3 DEF RestsOnApproval, TypeOK, Publication
  <2>4. CASE n # m
    BY <2>2, <2>4, UntouchedProof DEF TypeOK
  <2>5. QED
    BY <2>3, <2>4
<1>17. ASSUME NEW w \in Request, RenewMismatch(w)
       PROVE  ActiveProofRestsOnApproval'
  BY <1>17, ReadyRequest, InvalidatedProof DEF RenewMismatch, ClearEligibility, TypeOK
<1>20. ASSUME NEW d \in sent, ApplyDelivery(d)
       PROVE  ActiveProofRestsOnApproval'
  BY <1>20, InvalidateAllProofs, ReachedAreBound DEF ApplyDelivery, TypeOK
<1>21. ASSUME NEW R \in SUBSET Repository, AccessRevoked(R)
       PROVE  ActiveProofRestsOnApproval'
  BY <1>21, InvalidateAllProofs, ReachedAreBound DEF AccessRevoked
<1>22. ASSUME NEW R \in SUBSET Repository, MembershipReplaced(R)
       PROVE  ActiveProofRestsOnApproval'
  BY <1>22, InvalidateAllProofs, ReachedAreBound DEF MembershipReplaced
<1>23. CASE Tick
  <2>1. \A m \in Mission : publication[m] \in Publication \cup {NULL}
    BY DEF TypeOK
  <2>2. \A m \in Mission :
           \/ publication'[m] = publication[m]
           \/ /\ publication[m] \in Publication
              /\ publication'[m] = [publication[m] EXCEPT !.lease = @ - 1]
    BY <1>23, <2>1 DEF Tick
  <2>3. mission' = mission /\ profile' = profile
    BY <1>23 DEF Tick
  <2>4. QED
    BY <2>2, <2>3, NullAssumption
    DEF ActiveProofRestsOnApproval, RestsOnApproval, Publication
<1>24. ASSUME UNCHANGED <<mission, publication, profile>>
       PROVE  ActiveProofRestsOnApproval'
  BY <1>24 DEF ActiveProofRestsOnApproval, RestsOnApproval
<1>25. QED
  BY <1>1, <1>2, <1>3, <1>4, <1>5, <1>6, <1>7, <1>9, <1>13, <1>14, <1>15, <1>16,
     <1>17, <1>20, <1>21, <1>22, <1>23, <1>24
  DEF Next, vars, BeginRequest, FetchPull, FetchDetails, ReadCriteria, AbandonRequest,
      PullRequestEvent, CheckEvent

\* A published proof rests on the approval its mission has now: no path that
\* takes the approval away leaves the publication active.
THEOREM ActiveProofCorrect == Spec => []ActiveProofRestsOnApproval
<1>1. Init => ActiveProofRestsOnApproval
  BY DEF Init, ActiveProofRestsOnApproval, RestsOnApproval
<1>2. QED
  BY <1>1, ActiveProofStep, TypeCorrect, PTL DEF Spec

-----------------------------------------------------------------------------
(* OneDecisionPerRun *)

\* A verification run is decided once, although refreshes can make a decided
\* run current again.
THEOREM OneDecisionCorrect == Spec => []OneDecisionPerRun
<1>1. Init => OneDecisionPerRun
  BY DEF Init, OneDecisionPerRun
<1>2. OneDecisionPerRun /\ [Next]_vars => OneDecisionPerRun'
  <2> SUFFICES ASSUME OneDecisionPerRun, [Next]_vars
               PROVE  OneDecisionPerRun'
    OBVIOUS
  <2>1. ASSUME NEW m \in Mission, NEW u \in User, NEW d \in Decision, ReviewMission(m, u, d)
        PROVE  OneDecisionPerRun'
    <3> DEFINE review == [run |-> mission[m].run, reviewer |-> u, decision |-> d]
    <3>1. /\ reviews' = reviews \cup {review}
          /\ review.run = mission[m].run
          /\ \A r \in reviews : r.run # mission[m].run
      BY <2>1 DEF ReviewMission, Decided
    <3> HIDE DEF review
    <3>2. QED
      BY <3>1 DEF OneDecisionPerRun
  <2>2. CASE reviews' = reviews
    BY <2>2 DEF OneDecisionPerRun
  <2>3. QED
    BY <2>1, <2>2
    DEF Next, vars, database, github, ReplaceCriteria, BindPullRequest,
        SubmitForReview, ReviewStaleHead, ArchiveMission, UnpublishProof,
        BeginRequest, UpdateProofProfile, FetchPull, FetchDetails, ReadCriteria,
        AbandonRequest, RefreshVerification, PublishProof, PublishStaleHead,
        RenewPublicationLease, RenewMismatch, PullRequestEvent, CheckEvent,
        ApplyDelivery, AccessRevoked, MembershipReplaced, Tick
<1>3. QED
  BY <1>1, <1>2, PTL DEF Spec

-----------------------------------------------------------------------------
(* CreditNeedsAccess *)

LEMMA AccessStep ==
    TypeOK /\ LifecycleConsistent /\ CreditNeedsAccess /\ [Next]_vars => CreditNeedsAccess'
<1> SUFFICES ASSUME TypeOK, LifecycleConsistent, CreditNeedsAccess, [Next]_vars
             PROVE  CreditNeedsAccess'
  OBVIOUS
<1> USE DEF database, github
\* What every step but a refresh and a change of access does to a row.
<1>1. ASSUME available' = available,
             \A m \in Mission : \/ mission'[m].run = NULL
                                \/ /\ mission'[m].run = mission[m].run
                                   /\ mission'[m].pull = mission[m].pull
      PROVE  CreditNeedsAccess'
  BY <1>1 DEF CreditNeedsAccess, Granted
<1>2. ASSUME NEW m \in Mission, NEW c \in CriteriaInput, ReplaceCriteria(m, c)
      PROVE  CreditNeedsAccess'
  BY <1>1, <1>2 DEF ReplaceCriteria, Cleared, TypeOK, MissionRow
<1>3. ASSUME NEW m \in Mission, NEW p \in Pull, BindPullRequest(m, p)
      PROVE  CreditNeedsAccess'
  BY <1>1, <1>3 DEF BindPullRequest, Cleared, TypeOK, MissionRow
<1>4. ASSUME NEW m \in Mission, SubmitForReview(m)
      PROVE  CreditNeedsAccess'
  BY <1>1, <1>4 DEF SubmitForReview, TypeOK, MissionRow
<1>5. ASSUME NEW m \in Mission, NEW u \in User, NEW d \in Decision, ReviewMission(m, u, d)
      PROVE  CreditNeedsAccess'
  <2> DEFINE review == [run |-> mission[m].run, reviewer |-> u, decision |-> d]
             new == [mission[m] EXCEPT !.state = d, !.review = review]
  <2>1. mission' = [mission EXCEPT ![m] = new] /\ available' = available
    BY <1>5 DEF ReviewMission
  <2>2. new.run = mission[m].run /\ new.pull = mission[m].pull
    <3> HIDE DEF review
    <3> QED BY DEF TypeOK, MissionRow
  <2> HIDE DEF new
  <2>3. QED
    BY <1>1, <2>1, <2>2 DEF TypeOK
<1>6. ASSUME NEW m \in Mission, NEW s, ClearEligibility(m, s), available' = available
      PROVE  CreditNeedsAccess'
  BY <1>1, <1>6 DEF ClearEligibility, Cleared, TypeOK, MissionRow
<1>7. ASSUME NEW S \in SUBSET Mission, InvalidateAll(S)
      PROVE  \A m \in Mission : \/ mission'[m].run = NULL
                                \/ /\ m \notin S \/ mission[m].state = "ARCHIVED"
                                   /\ mission'[m] = mission[m]
  BY <1>7 DEF InvalidateAll, Cleared, TypeOK, MissionRow
<1>8. ASSUME NEW w \in Request, RefreshVerification(w)
      PROVE  CreditNeedsAccess'
  <2> DEFINE m == request[w].mission
             run == Observation(request[w])
             new == [mission[m] EXCEPT !.run = run, !.review = NULL, !.state = "BOUND"]
  <2>1. m \in Mission /\ Granted(mission[m].pull)
    BY <1>8, ReadyRequest DEF RefreshVerification, Locked, BindingUnchanged
  <2>2. mission' = [mission EXCEPT ![m] = new] /\ available' = available
    BY <1>8 DEF RefreshVerification
  <2>3. new.pull = mission[m].pull
    <3> HIDE DEF m, run
    <3> QED BY <2>1 DEF TypeOK, MissionRow
  <2> HIDE DEF new, m
  <2>4. QED
    BY <2>1, <2>2, <2>3 DEF CreditNeedsAccess, Granted, TypeOK
<1>9. ASSUME NEW d \in sent, ApplyDelivery(d)
      PROVE  CreditNeedsAccess'
  <2>1. Affected(d) \subseteq Mission /\ available' = available /\ InvalidateAll(Affected(d))
    BY <1>9, ReachedAreBound DEF ApplyDelivery, TypeOK
  <2>2. QED
    BY <1>1, <1>7, <2>1
<1>10. ASSUME NEW lost \in SUBSET Repository, InvalidateAll(BoundTo(lost)),
              \A r \in Repository : available[r] /\ r \notin lost => available'[r]
       PROVE  CreditNeedsAccess'
  <2> SUFFICES ASSUME NEW m \in Mission, mission'[m].run # NULL
               PROVE  Granted(mission[m].pull)'
    BY DEF CreditNeedsAccess
  <2>1. /\ m \notin BoundTo(lost) \/ mission[m].state = "ARCHIVED"
        /\ mission'[m] = mission[m]
    BY <1>7, <1>10, ReachedAreBound
  <2>2. mission[m].pull \in Pull /\ m \notin BoundTo(lost) /\ Granted(mission[m].pull)
    BY <2>1 DEF LifecycleConsistent, RowConsistent, CreditNeedsAccess, TypeOK,
                MissionRow, MissionState
  <2>3. RepositoryOf[mission[m].pull] \in Repository \ lost
    BY <2>2, RepositoryAssumption, NullAssumption DEF BoundTo
  <2>4. QED
    BY <1>10, <2>1, <2>2, <2>3 DEF Granted
<1>11. ASSUME NEW R \in SUBSET Repository, AccessRevoked(R)
       PROVE  CreditNeedsAccess'
  BY <1>10, <1>11 DEF AccessRevoked
<1>12. ASSUME NEW R \in SUBSET Repository, MembershipReplaced(R)
       PROVE  CreditNeedsAccess'
  <2> DEFINE lost == {r \in Repository : available[r] /\ r \notin R}
  <2>1. InvalidateAll(BoundTo(lost)) /\ available' = [r \in Repository |-> r \in R]
    BY <1>12 DEF MembershipReplaced
  <2>2. \A r \in Repository : available[r] /\ r \notin lost => available'[r]
    BY <2>1
  <2>3. lost \in SUBSET Repository
    OBVIOUS
  <2> HIDE DEF lost
  <2>4. QED
    BY <1>10, <2>1, <2>2, <2>3
<1>13. ASSUME UNCHANGED <<mission, available>>
       PROVE  CreditNeedsAccess'
  BY <1>13 DEF CreditNeedsAccess, Granted
<1>14. ASSUME NEW w \in Request, PublishStaleHead(w) \/ RenewMismatch(w)
       PROVE  CreditNeedsAccess'
  BY <1>6, <1>14, ReadyRequest DEF PublishStaleHead, RenewMismatch
<1>15. QED
  BY <1>2, <1>3, <1>4, <1>5, <1>6, <1>8, <1>9, <1>11, <1>12, <1>13, <1>14
  DEF Next, vars, ReviewStaleHead, ArchiveMission, UnpublishProof, BeginRequest,
      UpdateProofProfile, FetchPull, FetchDetails, ReadCriteria, AbandonRequest, PublishProof,
      RenewPublicationLease, PullRequestEvent, CheckEvent, Tick

\* No mission keeps a run without access to its repository: a refresh that was
\* authorized before a revocation notices it in its transaction.
THEOREM AccessCorrect == Spec => []CreditNeedsAccess
<1>1. Init => CreditNeedsAccess
  BY DEF Init, NewMission, CreditNeedsAccess
<1>2. QED
  BY <1>1, AccessStep, TypeCorrect, LifecycleCorrect, PTL DEF Spec
=============================================================================
