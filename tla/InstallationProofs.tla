------------------------- MODULE InstallationProofs -------------------------
(* Theorems about Installation, for every value of its constants. *)
EXTENDS Installation, TLAPS

ClaimRequest == [op : {"claim"}, attempt : Attempt, user : User, listing : Listing \cup {NULL}]
SynchronizeRequest == [op : {"synchronize"}, listing : Listing \cup {NULL}]
ReconcileRequest == [op : {"reconcile"}, delivery : EventId, owner : User \cup {NULL},
                     listing : Listing \cup {NULL}, stage : {"list", "failed", "done"}]
VerifyRequest == [op : {"verify"}, repository : Repository, listing : Listing \cup {NULL}]

\* A reconciliation lists after it has read the owner, and before it ends.
InOrder(r) ==
    /\ r.owner = NULL => r.listing = NULL
    /\ r.owner # NULL => r.stage = "list"

\* What a request in flight rests on
RequestsKnow ==
    \A w \in Request :
        /\ Serving(w, "synchronize") => row # NULL
        /\ Serving(w, "reconcile") => InOrder(request[w])

TypeInv == InstallationTypeOK /\ RequestsKnow

\* A request is of the type its operation names.
LEMMA RequestTypes ==
    ASSUME InstallationTypeOK, NEW w \in Request
    PROVE  /\ Serving(w, "claim") => request[w] \in ClaimRequest
           /\ Serving(w, "synchronize") => request[w] \in SynchronizeRequest
           /\ Serving(w, "reconcile") => request[w] \in ReconcileRequest
           /\ Serving(w, "verify") => request[w] \in VerifyRequest
           /\ request[w] # NULL => \/ Serving(w, "claim")
                                   \/ Serving(w, "synchronize")
                                   \/ Serving(w, "reconcile")
                                   \/ Serving(w, "verify")
           /\ request[w] # NULL => request[w].listing \in Listing \cup {NULL}
BY DEF InstallationTypeOK, InFlight, Serving, ClaimRequest, SynchronizeRequest,
       ReconcileRequest, VerifyRequest

LEMMA TypeInit == Init => TypeInv
<1> SUFFICES ASSUME Init PROVE TypeInv
  OBVIOUS
<1>1. InstallationTypeOK
  <2>1. 0 \in 0..MaxEvent /\ 0 \in 0..MaxCommand
    BY InstallationBounds
  <2>2. row \in InstallationRow \cup {NULL} /\ ~(row # NULL)
    BY DEF Init
  <2>3. /\ event \in [EventId -> Event \cup {NULL}]
        /\ delivery \in [EventId -> DeliveryState \cup {NULL}]
    BY DEF Init
  <2>4. /\ attempt \in [Attempt -> AttemptRow \cup {NULL}]
        /\ request \in [Request -> InFlight \cup {NULL}]
    BY DEF Init
  <2>5. /\ status \in {"ACTIVE", "SUSPENDED", "DELETED"} /\ granted \subseteq Repository
        /\ identity \in User \cup {NULL} /\ credit \subseteq Repository
        /\ unclaimed \subseteq EventId /\ overtaken \in BOOLEAN
        /\ late \subseteq Repository
    BY DEF Init
  <2>6. events = 0 /\ commands = 0 /\ newest = 0
    BY DEF Init
  <2>7. QED
    BY <2>1, <2>2, <2>3, <2>4, <2>5, <2>6 DEF InstallationTypeOK
<1>2. \A w \in Request : request[w] = NULL
  BY DEF Init
<1>3. RequestsKnow
  BY <1>2 DEF RequestsKnow, Serving
<1>4. QED
  BY <1>1, <1>3 DEF TypeInv

\* The step of GitHub that Happens describes
LEMMA HappensType ==
    ASSUME TypeInv, NEW R \in SUBSET Repository,
           NEW k \in {"suspend", "unsuspend", "deleted", "added", "removed"}, Happens(k, R),
           status' \in {"ACTIVE", "SUSPENDED", "DELETED"}, granted' \subseteq Repository
    PROVE  TypeInv'
<1>1. events' \in 0..MaxEvent /\ events' \in EventId
  BY InstallationBounds DEF Happens, TypeInv, InstallationTypeOK, EventId
<1>2. event' \in [EventId -> Event \cup {NULL}]
  BY <1>1 DEF Happens, TypeInv, InstallationTypeOK, Event
<1>3. InstallationTypeOK'
  BY <1>1, <1>2 DEF Happens, TypeInv, InstallationTypeOK, tables, history
<1>4. RequestsKnow'
  BY DEF Happens, TypeInv, RequestsKnow, Serving, InOrder, tables
<1>5. QED
  BY <1>3, <1>4 DEF TypeInv

\* A request leaves.
LEMMA LeaveKnows ==
    ASSUME TypeInv, NEW w \in Request, Leave(w), row # NULL => row' # NULL
    PROVE  /\ request' \in [Request -> InFlight \cup {NULL}]
           /\ RequestsKnow'
<1>1. /\ request' = [request EXCEPT ![w] = NULL]
      /\ request \in [Request -> InFlight \cup {NULL}]
  BY DEF Leave, TypeInv, InstallationTypeOK
<1>2. ASSUME NEW v \in Request, request'[v] # NULL
      PROVE  request'[v] = request[v]
  BY <1>1, <1>2
<1>3. RequestsKnow'
  BY <1>2 DEF RequestsKnow, Serving, TypeInv, InOrder
<1>4. QED
  BY <1>1, <1>3

\* A request enters that knows what it has to.
LEMMA EnterKnows ==
    ASSUME TypeInv, NEW w \in Request, NEW r \in InFlight, Enter(w, r), r.listing = NULL,
           r.op = "synchronize" => row # NULL,
           r.op = "reconcile" => r.owner = NULL,
           row # NULL => row' # NULL
    PROVE  /\ request' \in [Request -> InFlight \cup {NULL}]
           /\ commands' \in 0..MaxCommand
           /\ RequestsKnow'
<1>1. /\ request' = [request EXCEPT ![w] = r]
      /\ request \in [Request -> InFlight \cup {NULL}]
  BY DEF Enter, TypeInv, InstallationTypeOK
<1>2. commands' \in 0..MaxCommand
  BY InstallationBounds DEF Enter, TypeInv, InstallationTypeOK
<1>3. \A v \in Request : request'[v] = request[v] \/ request'[v] = r
  BY <1>1
<1>4. RequestsKnow'
  BY <1>3 DEF RequestsKnow, Serving, TypeInv, InOrder
<1>5. QED
  BY <1>1, <1>2, <1>4

LEMMA CommittedType ==
    ASSUME InstallationTypeOK, NEW at \in 0..MaxEvent, CommittedAt(at)
    PROVE  /\ newest' \in 0..MaxEvent /\ overtaken' \in BOOLEAN
           /\ unclaimed' = unclaimed /\ late' = late
BY DEF InstallationTypeOK, CommittedAt

LEMMA TypeStep == TypeInv /\ [Next]_vars => TypeInv'
<1> SUFFICES ASSUME TypeInv, [Next]_vars PROVE TypeInv'
  OBVIOUS
<1> USE DEF github, tables, history
<1>0. InstallationTypeOK /\ RequestsKnow
  BY DEF TypeInv
<1>1. CASE Suspend \/ Unsuspend \/ Uninstall
  BY <1>0, <1>1, HappensType DEF Suspend, Unsuspend, Uninstall, InstallationTypeOK
<1>2. ASSUME NEW r \in Repository, AddRepository(r) \/ RemoveRepository(r)
      PROVE  TypeInv'
  BY <1>0, <1>2, HappensType DEF AddRepository, RemoveRepository, InstallationTypeOK
<1>3. ASSUME NEW w \in Request, Approve(w)
      PROVE  TypeInv'
  <2>1. request[w].repository \in Repository
    BY <1>0, <1>3, RequestTypes DEF Approve, VerifyRequest
  <2>2. /\ request' \in [Request -> InFlight \cup {NULL}]
        /\ RequestsKnow'
    BY <1>3, LeaveKnows DEF Approve
  <2>3. QED
    BY <1>0, <1>3, <2>1, <2>2 DEF Approve, InstallationTypeOK, TypeInv
<1>4. ASSUME NEW u \in User, SignIn(u)
      PROVE  TypeInv'
  BY <1>0, <1>4 DEF SignIn, InstallationTypeOK, TypeInv, RequestsKnow, Serving, InOrder
<1>41. ASSUME NEW u \in User, DeleteAccount(u)
       PROVE  TypeInv'
  <2>1. /\ row' = NULL \/ row' = row
        /\ ~Owns(u) => row' = row
        /\ credit' \subseteq credit
        /\ identity' \in {identity, NULL}
    <3>1. Owns(u) => row' = NULL /\ credit' = {}
      BY <1>41 DEF DeleteAccount
    <3>2. ~Owns(u) => row' = row /\ credit' = credit
      BY <1>41 DEF DeleteAccount
    <3>3. identity' \in {identity, NULL}
      BY <1>41 DEF DeleteAccount
    <3>4. QED
      BY <3>1, <3>2, <3>3
  <2>2. attempt' \in [Attempt -> AttemptRow \cup {NULL}]
    BY <1>0, <1>41 DEF DeleteAccount, InstallationTypeOK
  <2>3. request' \in [Request -> InFlight \cup {NULL}]
    BY <1>0, <1>41 DEF DeleteAccount, InstallationTypeOK
  <2>4. InstallationTypeOK'
    BY <1>0, <1>41, <2>1, <2>2, <2>3 DEF DeleteAccount, InstallationTypeOK
  <2>5. ASSUME NEW w \in Request, request'[w] # NULL
        PROVE  request'[w] = request[w] /\ (Owns(u) => ~Serving(w, "synchronize"))
    BY <1>41, <2>5 DEF DeleteAccount
  <2>6. RequestsKnow'
    BY <1>0, <2>1, <2>5 DEF RequestsKnow, Serving, InOrder, Owns
  <2>7. QED
    BY <2>4, <2>6 DEF TypeInv
<1>5. ASSUME NEW a \in Attempt, NEW u \in User, CreateSetupState(a, u)
      PROVE  TypeInv'
  <2> DEFINE new == [user |-> u, open |-> TRUE]
  <2>0. new \in AttemptRow
    BY DEF AttemptRow
  <2>1. new \in AttemptRow /\ new # NULL /\ attempt' = [attempt EXCEPT ![a] = new]
    BY <1>5, <2>0, InstallationNull DEF CreateSetupState
  <2> HIDE DEF new
  <2>2. InstallationTypeOK'
    BY <1>0, <1>5, <2>1 DEF CreateSetupState, InstallationTypeOK
  <2>3. RequestsKnow'
    BY <1>0, <1>5 DEF CreateSetupState, RequestsKnow, Serving, InOrder
  <2>4. QED
    BY <2>2, <2>3 DEF TypeInv
<1>6. ASSUME NEW a \in Attempt, AttemptExpires(a)
      PROVE  TypeInv'
  <2>1. attempt[a] \in AttemptRow
    BY <1>0, <1>6 DEF AttemptExpires, InstallationTypeOK
  <2>2. [attempt[a] EXCEPT !.open = FALSE] \in AttemptRow
    BY <2>1 DEF AttemptRow
  <2>3. attempt' \in [Attempt -> AttemptRow \cup {NULL}]
    BY <1>0, <1>6, <2>2 DEF AttemptExpires, InstallationTypeOK
  <2>4. InstallationTypeOK'
    BY <1>0, <1>6, <2>3 DEF AttemptExpires, InstallationTypeOK
  <2>5. RequestsKnow'
    BY <1>0, <1>6 DEF AttemptExpires, RequestsKnow, Serving, InOrder
  <2>6. QED
    BY <2>4, <2>5 DEF TypeInv
<1>7. ASSUME NEW w \in Request, NEW a \in Attempt, ClaimBegin(w, a)
      PROVE  TypeInv'
  <2> DEFINE r == [op |-> "claim", attempt |-> a, user |-> identity, listing |-> NULL]
  <2>0. identity \in User
    <3>1. attempt[a] \in AttemptRow /\ identity = attempt[a].user
      BY <1>0, <1>7 DEF ClaimBegin, InstallationTypeOK
    <3>2. QED
      BY <3>1 DEF AttemptRow
  <2>1. r \in InFlight
    BY <2>0 DEF InFlight
  <2>2. Enter(w, r) /\ row' = row /\ attempt' = attempt
    BY <1>7 DEF ClaimBegin, tables
  <2>3. /\ request' \in [Request -> InFlight \cup {NULL}]
        /\ commands' \in 0..MaxCommand
        /\ RequestsKnow'
    BY <2>1, <2>2, EnterKnows
  <2>4. QED
    BY <1>0, <1>7, <2>3 DEF ClaimBegin, InstallationTypeOK, TypeInv
<1>8. ASSUME NEW w \in Request, SynchronizeBegin(w)
      PROVE  TypeInv'
  <2> DEFINE r == [op |-> "synchronize", listing |-> NULL]
  <2>1. r \in InFlight
    BY DEF InFlight
  <2>2. Enter(w, r) /\ row # NULL /\ row' = row /\ attempt' = attempt
    BY <1>8 DEF SynchronizeBegin
  <2>3. /\ request' \in [Request -> InFlight \cup {NULL}]
        /\ commands' \in 0..MaxCommand
        /\ RequestsKnow'
    BY <2>1, <2>2, EnterKnows
  <2>4. QED
    BY <1>0, <1>8, <2>3 DEF SynchronizeBegin, InstallationTypeOK, TypeInv
<1>81. ASSUME NEW w \in Request, NEW q \in Repository, VerifyBegin(w, q)
       PROVE  TypeInv'
  <2> DEFINE r == [op |-> "verify", repository |-> q, listing |-> NULL]
  <2>1. r \in InFlight
    BY DEF InFlight
  <2>2. Enter(w, r) /\ row' = row /\ attempt' = attempt
    BY <1>81 DEF VerifyBegin
  <2>3. /\ request' \in [Request -> InFlight \cup {NULL}]
        /\ commands' \in 0..MaxCommand
        /\ RequestsKnow'
    BY <2>1, <2>2, EnterKnows
  <2>4. QED
    BY <1>0, <1>81, <2>3 DEF VerifyBegin, InstallationTypeOK, TypeInv
<1>9. ASSUME NEW w \in Request, List(w)
      PROVE  TypeInv'
  <2> DEFINE l == [repositories |-> granted, at |-> events]
             r == [request[w] EXCEPT !.listing = l]
  <2>1. l \in Listing /\ l # NULL
    BY <1>0, InstallationNull DEF InstallationTypeOK, Listing
  <2> HIDE DEF l
  <2>2. request' = [request EXCEPT ![w] = r] /\ request[w] # NULL
    BY <1>9 DEF List, l
  <2>3. /\ r \in InFlight
        /\ r.op = request[w].op
        /\ r.op = "reconcile" => r.owner = request[w].owner /\ r.stage = request[w].stage
        /\ r.listing = l
    <3>1. CASE Serving(w, "claim")
      BY <1>0, <2>1, <3>1, RequestTypes DEF ClaimRequest, InFlight, Serving
    <3>2. CASE Serving(w, "synchronize")
      BY <1>0, <2>1, <3>2, RequestTypes DEF SynchronizeRequest, InFlight, Serving
    <3>3. CASE Serving(w, "reconcile")
      BY <1>0, <2>1, <3>3, RequestTypes DEF ReconcileRequest, InFlight, Serving
    <3>4. CASE Serving(w, "verify")
      BY <1>0, <2>1, <3>4, RequestTypes DEF VerifyRequest, InFlight, Serving
    <3>5. QED
      BY <1>0, <2>2, <3>1, <3>2, <3>3, <3>4, RequestTypes
  <2>4. r.op = "reconcile" => InOrder(r)
    BY <1>0, <1>9, <2>2, <2>3 DEF List, Serving, RequestsKnow, InOrder
  <2> HIDE DEF r
  <2>5. InstallationTypeOK'
    BY <1>0, <1>9, <2>2, <2>3 DEF List, InstallationTypeOK
  <2>6. row' = row
    BY <1>9 DEF List, tables
  <2>7. RequestsKnow'
    <3> SUFFICES ASSUME NEW v \in Request
                 PROVE  /\ Serving(v, "synchronize")' => row' # NULL
                        /\ Serving(v, "reconcile")' => InOrder(request'[v])
      BY DEF RequestsKnow, InOrder
    <3>1. CASE v = w
      <4>1. request'[v] = r
        BY <1>0, <2>2, <3>1 DEF InstallationTypeOK
      <4>2. QED
        BY <1>0, <2>2, <2>3, <2>4, <2>6, <3>1, <4>1 DEF RequestsKnow, Serving
    <3>2. CASE v # w
      <4>1. request'[v] = request[v]
        BY <1>0, <2>2, <3>2 DEF InstallationTypeOK
      <4>2. QED
        BY <1>0, <2>6, <4>1 DEF RequestsKnow, Serving
    <3>3. QED
      BY <3>1, <3>2
  <2>8. QED
    BY <2>5, <2>7 DEF TypeInv
<1>10. ASSUME NEW w \in Request, ClaimCommit(w)
       PROVE  TypeInv'
  <2> DEFINE a == request[w].attempt
             l == request[w].listing
             u == request[w].user
             new == [owner |-> u, status |-> "ACTIVE", active |-> l.repositories]
             used == [user |-> u, open |-> FALSE]
  <2>1. a \in Attempt /\ u \in User /\ l \in Listing
    BY <1>0, <1>10, RequestTypes DEF ClaimCommit, ClaimRequest
  <2>2. l.at \in 0..MaxEvent /\ l.repositories \subseteq Repository
    BY <2>1 DEF Listing
  <2>3. /\ row' = new
        /\ attempt' = [attempt EXCEPT ![a] = used]
        /\ Leave(w)
        /\ CommittedAt(l.at)
        /\ credit' = credit \/ credit' = Credited(l.repositories)
        /\ UNCHANGED <<github, identity, delivery, commands>>
    BY <1>10 DEF ClaimCommit
  <2>4. new \in InstallationRow /\ new # NULL
    BY <2>1, <2>2, InstallationNull DEF InstallationRow
  <2>5. used \in AttemptRow
    BY <2>1 DEF AttemptRow
  <2> HIDE DEF l, used
  <2>6. attempt' \in [Attempt -> AttemptRow \cup {NULL}]
    BY <1>0, <2>1, <2>3, <2>5 DEF InstallationTypeOK
  <2>7. /\ request' \in [Request -> InFlight \cup {NULL}]
        /\ RequestsKnow'
    BY <2>3, <2>4, LeaveKnows
  <2>8. /\ newest' \in 0..MaxEvent /\ overtaken' \in BOOLEAN
        /\ unclaimed' = unclaimed /\ late' = late
    BY <1>0, <2>2, <2>3, CommittedType
  <2>9. credit' \subseteq Repository
    BY <1>0, <2>3 DEF Credited, InstallationTypeOK
  <2>10. row'.status = "ACTIVE"
    BY <2>3
  <2> HIDE DEF new
  <2>11. InstallationTypeOK'
    BY <1>0, <2>3, <2>4, <2>6, <2>7, <2>8, <2>9, <2>10 DEF InstallationTypeOK
  <2>12. QED
    BY <2>7, <2>11 DEF TypeInv
<1>11. ASSUME NEW w \in Request, SynchronizeCommit(w)
       PROVE  TypeInv'
  <2> DEFINE l == request[w].listing
             new == [row EXCEPT !.active = l.repositories]
  <2>0. Serving(w, "synchronize") /\ l # NULL /\ row.status = "ACTIVE"
    BY <1>11 DEF SynchronizeCommit, StillActive
  <2>1. row \in InstallationRow /\ row.status = "ACTIVE" /\ l \in Listing
    <3>1. row # NULL
      BY <1>0, <2>0 DEF RequestsKnow
    <3>2. l \in Listing \cup {NULL}
      BY <1>0, <2>0, RequestTypes DEF SynchronizeRequest
    <3>3. QED
      BY <1>0, <2>0, <3>1, <3>2 DEF InstallationTypeOK
  <2>2. l.at \in 0..MaxEvent /\ l.repositories \subseteq Repository
    BY <2>1 DEF Listing
  <2>3. /\ row' = new
        /\ Leave(w)
        /\ CommittedAt(l.at)
        /\ credit' = Credited(l.repositories)
        /\ UNCHANGED <<github, identity, delivery, attempt, commands>>
    BY <1>11 DEF SynchronizeCommit
  <2> HIDE DEF l
  <2>4. new \in InstallationRow /\ new # NULL /\ new.status = "ACTIVE"
    BY <2>1, <2>2, InstallationNull DEF InstallationRow
  <2> HIDE DEF new
  <2>5. /\ request' \in [Request -> InFlight \cup {NULL}]
        /\ RequestsKnow'
    BY <2>3, <2>4, LeaveKnows
  <2>6. /\ newest' \in 0..MaxEvent /\ overtaken' \in BOOLEAN
        /\ unclaimed' = unclaimed /\ late' = late
    BY <1>0, <2>2, <2>3, CommittedType
  <2>7. credit' \subseteq Repository
    BY <1>0, <2>3 DEF Credited, InstallationTypeOK
  <2>8. InstallationTypeOK'
    BY <1>0, <2>3, <2>4, <2>5, <2>6, <2>7 DEF InstallationTypeOK
  <2>9. QED
    BY <2>5, <2>8 DEF TypeInv
<1>12. ASSUME NEW w \in Request, Abandon(w)
       PROVE  TypeInv'
  <2>1. /\ request' \in [Request -> InFlight \cup {NULL}]
        /\ RequestsKnow'
    BY <1>12, LeaveKnows DEF Abandon
  <2>2. QED
    BY <1>0, <1>12, <2>1 DEF Abandon, InstallationTypeOK, TypeInv
<1>13. ASSUME NEW d \in EventId, Deliver(d)
       PROVE  TypeInv'
  <2>1. event[d] \in Event
    BY <1>0, <1>13 DEF Deliver, InstallationTypeOK
  <2>2. ASSUME row # NULL
        PROVE  /\ Applied(d) \in InstallationRow
               /\ Applied(d).status = "REVOKED" => Applied(d).active = {}
    <3>1. row \in InstallationRow /\ (row.status = "REVOKED" => row.active = {})
      BY <1>0, <2>2 DEF InstallationTypeOK
    <3>2. CASE event[d].kind = "deleted"
      BY <3>1, <3>2 DEF Applied, InstallationRow
    <3>3. CASE event[d].kind = "suspend"
      BY <3>1, <3>3 DEF Applied, InstallationRow
    <3>4. CASE event[d].kind = "removed"
      BY <3>1, <3>4 DEF Applied, InstallationRow
    <3>5. CASE event[d].kind \notin {"deleted", "suspend", "removed"}
      <4>1. Applied(d) = row
        BY <3>5 DEF Applied
      <4>2. QED
        BY <3>1, <4>1
    <3>6. QED
      BY <3>2, <3>3, <3>4, <3>5
  <2>3. /\ row' = row \/ (row # NULL /\ row' = Applied(d))
        /\ credit' = credit \/ credit' = CreditLeft(d)
        /\ delivery' = delivery \/ delivery' = [delivery EXCEPT ![d] = "LOCAL_APPLIED"]
        /\ UNCHANGED <<github, identity, attempt, history>>
    <3>1. CASE delivery[d] # NULL
      BY <1>13, <3>1 DEF Deliver
    <3>2. CASE delivery[d] = NULL /\ row = NULL
      BY <1>13, <3>2 DEF Deliver, FirstState
    <3>3. CASE delivery[d] = NULL /\ row # NULL
      BY <1>13, <3>3 DEF Deliver, FirstState
    <3>4. QED
      BY <3>1, <3>2, <3>3
  <2>4. /\ row' \in InstallationRow \cup {NULL}
        /\ row' # NULL /\ row'.status = "REVOKED" => row'.active = {}
        /\ row # NULL => row' # NULL
    BY <1>0, <2>2, <2>3, InstallationNull DEF InstallationTypeOK
  <2>6. credit' \subseteq Repository
    BY <1>0, <2>3 DEF CreditLeft, InstallationTypeOK
  <2>7. delivery' \in [EventId -> DeliveryState \cup {NULL}]
    BY <1>0, <2>3 DEF DeliveryState, InstallationTypeOK
  <2>8. /\ request' \in [Request -> InFlight \cup {NULL}]
        /\ commands' \in 0..MaxCommand
        /\ RequestsKnow'
    <3>1. CASE UNCHANGED <<request, commands>>
      BY <1>0, <2>3, <2>4, <3>1 DEF InstallationTypeOK, RequestsKnow, Serving, InOrder
    <3>2. CASE ~UNCHANGED <<request, commands>>
      <4> DEFINE r == [op |-> "reconcile", delivery |-> d, owner |-> NULL,
                       listing |-> NULL, stage |-> "list"]
      <4>1. PICK w \in Request : Enter(w, r)
        BY <1>13, <3>2 DEF Deliver
      <4>2. r \in InFlight
        BY DEF InFlight
      <4>3. QED
        BY <2>3, <2>4, <4>1, <4>2, EnterKnows
    <3>3. QED
      BY <3>1, <3>2
  <2>9. QED
    BY <1>0, <2>3, <2>4, <2>6, <2>7, <2>8 DEF InstallationTypeOK, TypeInv
<1>14. ASSUME NEW w \in Request, NEW r \in ReconcileRequest, InOrder(r),
              request' = [request EXCEPT ![w] = r],
              row # NULL => row' # NULL
       PROVE  /\ request' \in [Request -> InFlight \cup {NULL}]
              /\ RequestsKnow'
  <2>1. r \in InFlight /\ r.op = "reconcile"
    BY <1>14 DEF InFlight, ReconcileRequest
  <2>2. request' \in [Request -> InFlight \cup {NULL}]
    BY <1>0, <1>14, <2>1 DEF InstallationTypeOK
  <2>3. \A v \in Request : request'[v] = request[v] \/ request'[v] = r
    BY <1>0, <1>14 DEF InstallationTypeOK
  <2>4. RequestsKnow'
    BY <1>0, <1>14, <2>1, <2>3 DEF RequestsKnow, Serving, InOrder
  <2>5. QED
    BY <2>2, <2>4
<1>140. ASSUME NEW w \in Request, ReconcileBegin(w)
        PROVE  TypeInv'
  <2>1. /\ request[w] \in ReconcileRequest /\ request[w].stage = "list"
        /\ request[w].listing = NULL
    BY <1>0, <1>140, RequestTypes DEF ReconcileBegin, RequestsKnow, InOrder
  <2> DEFINE r == [request[w] EXCEPT !.owner = row.owner]
  <2>2. row.owner \in User
    BY <1>0, <1>140 DEF ReconcileBegin, InstallationTypeOK, InstallationRow
  <2>3. r \in ReconcileRequest /\ r.stage = "list" /\ r.owner = row.owner
    BY <2>1, <2>2 DEF ReconcileRequest
  <2>4. InOrder(r)
    BY <2>2, <2>3, InstallationNull DEF InOrder
  <2>5. request' = [request EXCEPT ![w] = r] /\ row' = row
    BY <1>140 DEF ReconcileBegin, tables
  <2> HIDE DEF r
  <2>6. request' \in [Request -> InFlight \cup {NULL}] /\ RequestsKnow'
    BY <1>14, <2>3, <2>4, <2>5
  <2>7. QED
    BY <1>0, <1>140, <2>6 DEF ReconcileBegin, InstallationTypeOK, TypeInv
<1>15. ASSUME NEW w \in Request, ReconcileNothing(w)
       PROVE  TypeInv'
  <2>1. /\ request[w] \in ReconcileRequest
        /\ request[w].owner = NULL /\ request[w].listing = NULL
    BY <1>0, <1>15, RequestTypes DEF ReconcileNothing, RequestsKnow, InOrder
  <2> DEFINE r == [request[w] EXCEPT !.stage = "done"]
  <2>2. r \in ReconcileRequest /\ InOrder(r)
    BY <2>1 DEF ReconcileRequest, InOrder
  <2>3. request' = [request EXCEPT ![w] = r]
    BY <1>15 DEF ReconcileNothing
  <2>4. request[w].delivery \in EventId
    BY <2>1 DEF ReconcileRequest
  <2> HIDE DEF r
  <2>5. request' \in [Request -> InFlight \cup {NULL}] /\ RequestsKnow'
    BY <1>14, <1>15, <2>2, <2>3 DEF ReconcileNothing
  <2>6. QED
    BY <1>0, <1>15, <2>4, <2>5 DEF ReconcileNothing, InstallationTypeOK, TypeInv
<1>16. ASSUME NEW w \in Request, ReconcileCommit(w)
       PROVE  TypeInv'
  <2> DEFINE l == request[w].listing
             new == [row EXCEPT !.status = "ACTIVE", !.active = l.repositories]
             r == [request[w] EXCEPT !.stage = "done", !.owner = NULL, !.listing = NULL]
  <2>0. Serving(w, "reconcile") /\ l # NULL /\ row # NULL
    BY <1>16 DEF ReconcileCommit, Owns
  <2>1. row \in InstallationRow /\ l \in Listing /\ request[w] \in ReconcileRequest
    <3>1. request[w] \in ReconcileRequest
      BY <1>0, <2>0, RequestTypes
    <3>2. l \in Listing
      BY <2>0, <3>1 DEF ReconcileRequest
    <3>3. QED
      BY <1>0, <2>0, <3>1, <3>2 DEF InstallationTypeOK
  <2>2. l.at \in 0..MaxEvent /\ l.repositories \subseteq Repository
    BY <2>1 DEF Listing
  <2>3. r \in ReconcileRequest /\ InOrder(r)
    BY <2>1 DEF ReconcileRequest, InOrder
  <2>4. /\ row' = new
        /\ request' = [request EXCEPT ![w] = r]
        /\ CommittedAt(l.at)
        /\ credit' = Credited(l.repositories)
        /\ UNCHANGED <<github, identity, delivery, attempt, commands>>
    BY <1>16 DEF ReconcileCommit
  <2> HIDE DEF l, r
  <2>5. new \in InstallationRow /\ new # NULL /\ new.status = "ACTIVE"
    BY <2>1, <2>2, InstallationNull DEF InstallationRow
  <2> HIDE DEF new
  <2>6. request' \in [Request -> InFlight \cup {NULL}] /\ RequestsKnow'
    BY <1>14, <2>3, <2>4, <2>5
  <2>7. /\ newest' \in 0..MaxEvent /\ overtaken' \in BOOLEAN
        /\ unclaimed' = unclaimed /\ late' = late
    BY <1>0, <2>2, <2>4, CommittedType
  <2>8. credit' \subseteq Repository
    BY <1>0, <2>4 DEF Credited, InstallationTypeOK
  <2>9. InstallationTypeOK'
    BY <1>0, <2>4, <2>5, <2>6, <2>7, <2>8 DEF InstallationTypeOK
  <2>10. QED
    BY <2>6, <2>9 DEF TypeInv
<1>17. ASSUME NEW w \in Request, ReconcileFails(w)
       PROVE  TypeInv'
  <2>1. request[w] \in ReconcileRequest
    BY <1>0, <1>17, RequestTypes DEF ReconcileFails
  <2> DEFINE r == [request[w] EXCEPT !.stage = "failed", !.owner = NULL, !.listing = NULL]
  <2>2. r \in ReconcileRequest /\ InOrder(r)
    BY <2>1 DEF ReconcileRequest, InOrder
  <2>3. request' = [request EXCEPT ![w] = r]
    BY <1>17 DEF ReconcileFails
  <2> HIDE DEF r
  <2>4. request' \in [Request -> InFlight \cup {NULL}] /\ RequestsKnow'
    BY <1>14, <1>17, <2>2, <2>3 DEF ReconcileFails
  <2>5. QED
    BY <1>0, <1>17, <2>4 DEF ReconcileFails, InstallationTypeOK, TypeInv
<1>18. ASSUME NEW w \in Request, MarkDelivery(w)
       PROVE  TypeInv'
  <2>1. /\ request' \in [Request -> InFlight \cup {NULL}]
        /\ RequestsKnow'
    BY <1>18, LeaveKnows DEF MarkDelivery
  <2>2. delivery' \in [EventId -> DeliveryState \cup {NULL}]
    BY <1>0, <1>18 DEF MarkDelivery, DeliveryState, InstallationTypeOK
  <2>3. QED
    BY <1>0, <1>18, <2>1, <2>2 DEF MarkDelivery, InstallationTypeOK, TypeInv
<1>19. CASE UNCHANGED vars
  BY <1>0, <1>19 DEF vars, InstallationTypeOK, TypeInv, RequestsKnow, Serving, InOrder
<1>20. QED
  BY <1>1, <1>2, <1>3, <1>4, <1>41, <1>5, <1>6, <1>7, <1>8, <1>81, <1>9, <1>10, <1>11, <1>12, <1>13, <1>140, <1>15,
     <1>16, <1>17, <1>18, <1>19 DEF Next

LEMMA TypeCorrect == Spec => []TypeInv
<1>1. QED
  BY TypeInit, TypeStep, PTL DEF Spec

\* The type invariant holds: an installation deleted at GitHub has no active
\* repository, whatever lists, claims and deliveries do around the deletion.
THEOREM InstallationTypeCorrect == Spec => []InstallationTypeOK
<1>1. TypeInv => InstallationTypeOK
  BY DEF TypeInv
<1>2. QED
  BY <1>1, TypeCorrect, PTL

-----------------------------------------------------------------------------
(* What the steps do to requests, and what requests know of deliveries *)

Listed == [repositories |-> granted, at |-> events]

\* A request before and after a step that does not end it
RequestStep(w) ==
    \/ request'[w] = request[w]
    \/ /\ request'[w].op \in {"synchronize", "verify"}
       /\ request'[w].listing = NULL
    \/ /\ \E a \in Attempt : ClaimBegin(w, a) /\ request'[w].attempt = a
       /\ request'[w].op = "claim"
       /\ request'[w].user = identity
       /\ request'[w].listing = NULL
    \/ /\ \E d \in EventId : Deliver(d) /\ request'[w].delivery = d
       /\ request'[w].op = "reconcile"
       /\ request'[w].stage = "list"
       /\ request'[w].listing = NULL
    \/ /\ List(w)
       /\ request[w] # NULL
       /\ request'[w].op = request[w].op
       /\ request'[w].listing = Listed
       /\ Serving(w, "reconcile") =>
             /\ request'[w].delivery = request[w].delivery
             /\ request'[w].stage = "list"
       /\ Serving(w, "verify") => request'[w].repository \in granted
       /\ Serving(w, "claim") =>
             /\ request'[w].attempt = request[w].attempt
             /\ request'[w].user = request[w].user
    \/ /\ Serving(w, "reconcile")
       /\ request'[w].op = "reconcile"
       /\ request'[w].delivery = request[w].delivery
       /\ request'[w].listing = NULL
       /\ request'[w].stage = "done" => ReconcileNothing(w) \/ ReconcileCommit(w)

LEMMA RequestSteps ==
    ASSUME TypeInv, [Next]_vars, NEW v \in Request, request'[v] # NULL
    PROVE  RequestStep(v)
<1>0. InstallationTypeOK /\ request \in [Request -> InFlight \cup {NULL}]
  BY DEF TypeInv, InstallationTypeOK
<1>1. CASE UNCHANGED request
  BY <1>1 DEF RequestStep
<1>2. ASSUME NEW w \in Request, Leave(w) PROVE RequestStep(v)
  BY <1>0, <1>2 DEF Leave, RequestStep
<1>3. ASSUME NEW w \in Request, NEW a \in Attempt, ClaimBegin(w, a) PROVE RequestStep(v)
  BY <1>0, <1>3 DEF ClaimBegin, Enter, RequestStep
<1>4. ASSUME NEW w \in Request, SynchronizeBegin(w) PROVE RequestStep(v)
  BY <1>0, <1>4 DEF SynchronizeBegin, Enter, RequestStep
<1>41. ASSUME NEW w \in Request, NEW q \in Repository, VerifyBegin(w, q) PROVE RequestStep(v)
  BY <1>0, <1>41 DEF VerifyBegin, Enter, RequestStep
<1>5. ASSUME NEW d \in EventId, Deliver(d) PROVE RequestStep(v)
  <2>1. CASE UNCHANGED request
    BY <1>1, <2>1
  <2>2. CASE ~UNCHANGED request
    <3>1. PICK w \in Request :
             Enter(w, [op |-> "reconcile", delivery |-> d, owner |-> NULL,
                       listing |-> NULL, stage |-> "list"])
      BY <1>5, <2>2 DEF Deliver
    <3>2. CASE v = w
      BY <1>0, <1>5, <3>1, <3>2 DEF Enter, RequestStep
    <3>3. CASE v # w
      BY <1>0, <3>1, <3>3 DEF Enter, RequestStep
    <3>4. QED
      BY <3>2, <3>3
  <2>3. QED
    BY <2>1, <2>2
<1>6. ASSUME NEW w \in Request, List(w) PROVE RequestStep(v)
  <2>1. CASE v # w
    BY <1>0, <1>6, <2>1 DEF List, RequestStep
  <2>2. CASE v = w
    <3>1. request'[w] = [request[w] EXCEPT !.listing = Listed] /\ request[w] # NULL
      BY <1>0, <1>6 DEF List, Listed
    <3>2. CASE Serving(w, "reconcile")
      <4>1. request[w] \in ReconcileRequest /\ request[w].stage = "list"
        BY <1>0, <1>6, <3>2, RequestTypes DEF List, TypeInv, RequestsKnow, InOrder
      <4>2. QED
        BY <1>6, <2>2, <3>1, <4>1 DEF RequestStep, ReconcileRequest, Serving
    <3>3. CASE Serving(w, "claim")
      <4>1. request[w] \in ClaimRequest
        BY <1>0, <3>3, RequestTypes
      <4>2. QED
        BY <1>6, <2>2, <3>1, <3>3, <4>1 DEF RequestStep, ClaimRequest, Serving
    <3>4. CASE Serving(w, "synchronize")
      <4>1. request[w] \in SynchronizeRequest
        BY <1>0, <3>4, RequestTypes
      <4>2. QED
        BY <1>6, <2>2, <3>1, <3>4, <4>1 DEF RequestStep, SynchronizeRequest, Serving
    <3>5. CASE Serving(w, "verify")
      <4>1. request[w] \in VerifyRequest
        BY <1>0, <3>5, RequestTypes
      <4>2. request[w].repository \in granted
        BY <1>6, <2>2, <3>5 DEF List
      <4>3. QED
        BY <1>6, <2>2, <3>1, <3>5, <4>1, <4>2 DEF RequestStep, VerifyRequest, Serving
    <3>6. QED
      BY <1>0, <3>1, <3>2, <3>3, <3>4, <3>5, RequestTypes
  <2>3. QED
    BY <2>1, <2>2
<1>7. ASSUME NEW w \in Request,
             \/ ReconcileBegin(w) \/ ReconcileNothing(w) \/ ReconcileCommit(w)
             \/ ReconcileFails(w)
      PROVE  RequestStep(v)
  <2>1. CASE v # w
    BY <1>0, <1>7, <2>1
    DEF ReconcileBegin, ReconcileNothing, ReconcileCommit, ReconcileFails, RequestStep
  <2>2. CASE v = w
    <3>1. request[w] \in ReconcileRequest /\ Serving(w, "reconcile")
      BY <1>0, <1>7, RequestTypes
      DEF ReconcileBegin, ReconcileNothing, ReconcileCommit, ReconcileFails
    <3>10. request[w].owner = NULL => request[w].listing = NULL
      BY <3>1 DEF TypeInv, RequestsKnow, InOrder
    <3>11. CASE ReconcileBegin(w)
      <4>1. /\ request'[w] = [request[w] EXCEPT !.owner = row.owner]
            /\ request[w].listing = NULL /\ request[w].stage = "list"
        BY <1>0, <3>10, <3>11 DEF ReconcileBegin
      <4>2. QED
        BY <2>2, <3>1, <4>1 DEF RequestStep, ReconcileRequest
    <3>2. CASE ReconcileNothing(w)
      <4>1. request[w].listing = NULL
        BY <3>2, <3>10 DEF ReconcileNothing
      <4>2. QED
        BY <1>0, <2>2, <3>1, <3>2, <4>1 DEF ReconcileNothing, RequestStep, ReconcileRequest
    <3>3. CASE ReconcileCommit(w)
      <4>1. request'[w] = [request[w] EXCEPT !.stage = "done", !.owner = NULL, !.listing = NULL]
        BY <1>0, <3>3 DEF ReconcileCommit
      <4>2. QED
        BY <2>2, <3>1, <3>3, <4>1 DEF RequestStep, ReconcileRequest
    <3>4. CASE ReconcileFails(w)
      <4>1. request'[w] = [request[w] EXCEPT !.stage = "failed", !.owner = NULL, !.listing = NULL]
        BY <1>0, <3>4 DEF ReconcileFails
      <4>2. QED
        BY <2>2, <3>1, <4>1 DEF RequestStep, ReconcileRequest
    <3>5. QED
      BY <1>7, <3>2, <3>3, <3>4, <3>11
  <2>3. QED
    BY <2>1, <2>2
<1>71. ASSUME NEW u \in User, DeleteAccount(u) PROVE RequestStep(v)
  BY <1>71 DEF DeleteAccount, RequestStep
<1>8. QED
  BY <1>1, <1>2, <1>3, <1>4, <1>41, <1>5, <1>6, <1>7, <1>71
  DEF Next, Suspend, Unsuspend, Uninstall, AddRepository, RemoveRepository, Happens, Approve,
      SignIn, CreateSetupState, AttemptExpires, Abandon, ClaimCommit, SynchronizeCommit,
      MarkDelivery, vars

\* Changes are numbered as they happen, and delivered after; a reconciliation
\* belongs to a delivery that is stored.
Numbered ==
    /\ \A d \in EventId :
        /\ event[d] # NULL => d <= events
        /\ delivery[d] # NULL => event[d] # NULL
    /\ \A w \in Request : Serving(w, "reconcile") => delivery[request[w].delivery] # NULL

DeliveryInv == TypeInv /\ Numbered

LEMMA DeliveryOf ==
    ASSUME TypeInv, NEW w \in Request, Serving(w, "reconcile")
    PROVE  request[w].delivery \in EventId
BY RequestTypes DEF TypeInv, ReconcileRequest

\* Events and deliveries are never forgotten; a new event has a new number.
LEMMA EventsStay ==
    ASSUME DeliveryInv, [Next]_vars
    PROVE  /\ events' >= events
           /\ \A d \in EventId : event[d] # NULL => event'[d] = event[d]
           /\ \A d \in EventId : delivery[d] # NULL => delivery'[d] # NULL
           /\ \A d \in EventId : delivery'[d] # NULL => delivery[d] # NULL \/ Deliver(d)
           /\ \A d \in EventId : event'[d] # NULL => d <= events'
<1>0. /\ InstallationTypeOK /\ TypeInv /\ Numbered
      /\ events \in 0..MaxEvent /\ MaxEvent \in Nat
      /\ event \in [EventId -> Event \cup {NULL}]
      /\ delivery \in [EventId -> DeliveryState \cup {NULL}]
  BY InstallationBounds DEF DeliveryInv, TypeInv, InstallationTypeOK
<1>1. ASSUME NEW k, NEW R, Happens(k, R)
      PROVE  /\ events' = events + 1 /\ delivery' = delivery
             /\ event' = [event EXCEPT ![events + 1] = [kind |-> k, repositories |-> R]]
  BY <1>1 DEF Happens, tables
<1>2. CASE \E k, R : Happens(k, R)
  <2>1. PICK k, R : Happens(k, R)
    BY <1>2
  <2>2. \A d \in EventId : event[d] # NULL => d # events + 1
    BY <1>0 DEF Numbered, EventId
  <2>3. \A d \in EventId : event'[d] # NULL => event[d] # NULL \/ d = events + 1
    BY <1>0, <1>1, <2>1
  <2>4. \A d \in EventId : event[d] # NULL => event'[d] = event[d]
    BY <1>0, <1>1, <2>1, <2>2
  <2>5. events' = events + 1 /\ delivery' = delivery
    BY <1>1, <2>1
  <2>6. \A d \in EventId : event'[d] # NULL => d <= events'
    BY <1>0, <2>3, <2>5 DEF Numbered, EventId
  <2>7. QED
    BY <1>0, <2>4, <2>5, <2>6 DEF Numbered
<1>3. CASE UNCHANGED <<events, event, delivery>>
  BY <1>0, <1>3 DEF Numbered, EventId
<1>4. ASSUME NEW d \in EventId, Deliver(d)
      PROVE  /\ UNCHANGED <<events, event>>
             /\ delivery' = delivery \/ delivery' = [delivery EXCEPT ![d] = "LOCAL_APPLIED"]
  BY <1>4 DEF Deliver, FirstState, github
<1>5. "LOCAL_APPLIED" # NULL /\ "RECONCILED" # NULL /\ "RECONCILE_FAILED" # NULL
  BY InstallationNull DEF DeliveryState
<1>6. CASE \E d \in EventId : Deliver(d)
  BY <1>0, <1>4, <1>5, <1>6 DEF Numbered, EventId
<1>7. ASSUME NEW w \in Request, MarkDelivery(w)
      PROVE  /\ UNCHANGED <<events, event>>
             /\ \E m \in {"RECONCILED", "RECONCILE_FAILED"} :
                   delivery' = [delivery EXCEPT ![request[w].delivery] = m]
             /\ delivery[request[w].delivery] # NULL
  BY <1>0, <1>7 DEF MarkDelivery, github, Numbered
<1>8. CASE \E w \in Request : MarkDelivery(w)
  <2>1. PICK w \in Request : MarkDelivery(w)
    BY <1>8
  <2>2. PICK m \in {"RECONCILED", "RECONCILE_FAILED"} :
           delivery' = [delivery EXCEPT ![request[w].delivery] = m]
    BY <1>7, <2>1
  <2>3. \A d \in EventId : delivery[d] # NULL <=> delivery'[d] # NULL
    BY <1>0, <1>5, <1>7, <2>1, <2>2
  <2>4. UNCHANGED <<events, event>>
    BY <1>7, <2>1
  <2>5. QED
    BY <1>0, <2>3, <2>4 DEF Numbered, EventId
<1>9. QED
  BY <1>2, <1>3, <1>6, <1>8
  DEF Next, Suspend, Unsuspend, Uninstall, AddRepository, RemoveRepository, Approve,
      SignIn, DeleteAccount, CreateSetupState, AttemptExpires, ClaimBegin, SynchronizeBegin, VerifyBegin, List, Abandon,
      ClaimCommit, SynchronizeCommit, ReconcileBegin, ReconcileNothing, ReconcileCommit, ReconcileFails,
      github, tables, vars

LEMMA DeliveryInit == Init => DeliveryInv
<1>1. Init => Numbered
  BY DEF Init, Numbered, Serving
<1>2. QED
  BY <1>1, TypeInit DEF DeliveryInv

LEMMA DeliveryStep == DeliveryInv /\ [Next]_vars => DeliveryInv'
<1> SUFFICES ASSUME DeliveryInv, [Next]_vars PROVE DeliveryInv'
  OBVIOUS
<1>1. TypeInv /\ TypeInv' /\ Numbered
  BY TypeStep DEF DeliveryInv
<1>2. ASSUME NEW d \in EventId
      PROVE  /\ event'[d] # NULL => d <= events'
             /\ delivery'[d] # NULL => event'[d] # NULL
  BY <1>1, EventsStay DEF Numbered, Deliver
<1>3. ASSUME NEW w \in Request, Serving(w, "reconcile")'
      PROVE  delivery'[request'[w].delivery] # NULL
  <2>1. RequestStep(w) /\ request'[w].op = "reconcile"
    BY <1>1, <1>3, RequestSteps DEF Serving
  <2>2. CASE \E d \in EventId : Deliver(d) /\ request'[w].delivery = d
    <3>1. PICK d \in EventId : Deliver(d) /\ request'[w].delivery = d
      BY <2>2
    <3>2. delivery \in [EventId -> DeliveryState \cup {NULL}] /\ "LOCAL_APPLIED" # NULL
      BY <1>1, InstallationNull DEF TypeInv, InstallationTypeOK, DeliveryState
    <3>3. delivery'[d] # NULL
      BY <3>1, <3>2 DEF Deliver, FirstState
    <3>4. QED
      BY <3>1, <3>3
  <2>3. CASE Serving(w, "reconcile") /\ request'[w].delivery = request[w].delivery
    <3>1. request[w].delivery \in EventId /\ delivery[request[w].delivery] # NULL
      BY <1>1, <2>3, DeliveryOf DEF Numbered
    <3>2. QED
      BY <2>3, <3>1, EventsStay
  <2>4. Serving(w, "reconcile") => request[w] # NULL
    BY DEF Serving
  <2>5. QED
    BY <1>3, <2>1, <2>2, <2>3 DEF RequestStep, Serving
<1>4. QED
  BY <1>1, <1>2, <1>3 DEF DeliveryInv, Numbered

LEMMA DeliveryCorrect == Spec => []DeliveryInv
<1>1. QED
  BY DeliveryInit, DeliveryStep, PTL DEF Spec

-----------------------------------------------------------------------------
(* Access that is taken away *)

\* What GitHub takes away, it announces with a change of a new number.
LEMMA Withdrawn ==
    ASSUME DeliveryInv, [Next]_vars, NEW r \in Repository, Granted(r), ~Granted(r)'
    PROVE  /\ Outstanding(r)'
           /\ \E d \in EventId : d > events /\ Takes(d, r)'
<1>0. /\ event \in [EventId -> Event \cup {NULL}] /\ events \in 0..MaxEvent
      /\ MaxEvent \in Nat /\ Numbered
  BY InstallationBounds DEF DeliveryInv, TypeInv, InstallationTypeOK
<1>1. ASSUME NEW k \in {"suspend", "deleted", "removed"}, NEW R \in SUBSET Repository,
             Happens(k, R), k = "removed" => r \in R
      PROVE  /\ Outstanding(r)'
             /\ \E d \in EventId : d > events /\ Takes(d, r)'
  <2> DEFINE new == [kind |-> k, repositories |-> R]
  <2>0. PICK d \in EventId : d = events + 1
    BY <1>0, <1>1 DEF Happens, EventId
  <2>1. /\ d \in EventId /\ d > events
        /\ event' = [event EXCEPT ![d] = new] /\ delivery' = delivery
    BY <1>0, <1>1, <2>0 DEF Happens, tables, EventId
  <2>2. new \in Event
    BY DEF Event
  <2>3. event'[d] = new /\ new # NULL
    BY <1>0, <2>1, <2>2, InstallationNull
  <2>4. delivery[d] = NULL
    BY <1>0, <2>1 DEF Numbered, EventId
  <2>5. Takes(d, r)'
    BY <1>1, <2>3 DEF Takes
  <2>6. QED
    BY <2>1, <2>4, <2>5 DEF Outstanding
<1>2. CASE Suspend
  BY <1>1, <1>2 DEF Suspend
<1>3. CASE Uninstall
  BY <1>1, <1>3 DEF Uninstall
<1>4. ASSUME NEW q \in Repository, RemoveRepository(q)
      PROVE  q = r
  BY <1>4 DEF RemoveRepository, Granted
<1>5. CASE RemoveRepository(r)
  BY <1>1, <1>5 DEF RemoveRepository
<1>6. status = "ACTIVE" /\ r \in granted /\ ~(status' = "ACTIVE" /\ r \in granted')
  BY DEF Granted
<1>7. QED
  BY <1>2, <1>3, <1>4, <1>5, <1>6
  DEF Next, Unsuspend, AddRepository, Approve, SignIn, DeleteAccount, CreateSetupState, AttemptExpires,
      ClaimBegin, SynchronizeBegin, VerifyBegin, List, Abandon, ClaimCommit, SynchronizeCommit,
      ReconcileBegin, ReconcileNothing, ReconcileCommit, ReconcileFails, MarkDelivery, Deliver, github, vars

\* A step that does not apply the delivery which takes r away
KeepsAccess(r) == \A d \in EventId : Deliver(d) /\ delivery[d] = NULL => ~Takes(d, r)

LEMMA GrantStays ==
    ASSUME DeliveryInv, [Next]_vars, NEW r \in Repository, KeepsAccess(r),
           Granted(r) \/ Outstanding(r)
    PROVE  Granted(r)' \/ Outstanding(r)'
<1>1. CASE Granted(r)
  BY <1>1, Withdrawn
<1>2. CASE Outstanding(r)
  <2>1. PICK d \in EventId : delivery[d] = NULL /\ Takes(d, r)
    BY <1>2 DEF Outstanding
  <2>2. event'[d] = event[d] /\ delivery'[d] = NULL
    BY <2>1, EventsStay DEF KeepsAccess, Takes
  <2>3. QED
    BY <2>1, <2>2 DEF Outstanding, Takes
<1>3. QED
  BY <1>1, <1>2

\* A row stays unless the account of its owner is deleted.
LEMMA RowStays ==
    ASSUME TypeInv, [Next]_vars, row # NULL, ~\E u \in User : DeleteAccount(u)
    PROVE  row' # NULL
<1>0. /\ InstallationTypeOK /\ row \in InstallationRow
      /\ \A x \in InstallationRow : x # NULL
  BY InstallationNull DEF TypeInv, InstallationTypeOK
<1>1. ASSUME NEW w \in Request, ClaimCommit(w) PROVE row' # NULL
  <2>1. Serving(w, "claim") /\ request[w].listing # NULL
    BY <1>1 DEF ClaimCommit
  <2>2. request[w] \in ClaimRequest
    BY <1>0, <2>1, RequestTypes
  <2>3. request[w].user \in User /\ request[w].listing \in Listing
    BY <2>1, <2>2 DEF ClaimRequest
  <2> DEFINE l == request[w].listing
             u == request[w].user
  <2>4. u \in User /\ l.repositories \subseteq Repository
    BY <2>3 DEF Listing
  <2>5. row' = [owner |-> u, status |-> "ACTIVE", active |-> l.repositories]
    BY <1>1 DEF ClaimCommit
  <2> HIDE DEF l, u
  <2>6. row' \in InstallationRow
    BY <2>4, <2>5 DEF InstallationRow
  <2>7. QED
    BY <1>0, <2>6
<1>2. ASSUME NEW w \in Request, SynchronizeCommit(w) \/ ReconcileCommit(w) PROVE row' # NULL
  <2>1. request[w] # NULL /\ request[w].listing # NULL
    BY <1>2 DEF SynchronizeCommit, ReconcileCommit, Serving
  <2>2. request[w].listing \in Listing
    BY <1>0, <2>1, RequestTypes
  <2> DEFINE R == request[w].listing.repositories
  <2>3. R \subseteq Repository
    BY <2>2 DEF Listing
  <2>4. \/ row' = [row EXCEPT !.active = R]
        \/ row' = [row EXCEPT !.status = "ACTIVE", !.active = R]
    BY <1>2 DEF SynchronizeCommit, ReconcileCommit
  <2> HIDE DEF R
  <2>5. row' \in InstallationRow
    BY <1>0, <2>3, <2>4 DEF InstallationRow
  <2>6. QED
    BY <1>0, <2>5
<1>3. ASSUME NEW d \in EventId, Deliver(d) PROVE row' # NULL
  <2>1. row' = row \/ row' = Applied(d)
    BY <1>3 DEF Deliver
  <2>2. Applied(d) \in InstallationRow
    BY <1>0 DEF Applied, InstallationRow
  <2>3. QED
    BY <1>0, <2>1, <2>2
<1>4. CASE UNCHANGED row
  BY <1>0, <1>4
<1>5. QED
  BY <1>1, <1>2, <1>3, <1>4
  DEF Next, Suspend, Unsuspend, Uninstall, AddRepository, RemoveRepository, Happens, Approve,
      SignIn, CreateSetupState, AttemptExpires, ClaimBegin, SynchronizeBegin, VerifyBegin, List, Abandon,
      ReconcileBegin, ReconcileNothing, ReconcileFails, MarkDelivery, tables, vars

-----------------------------------------------------------------------------
(* Access *)

\* A listing says what GitHub granted when it was made.
ListingIsTrue(l) ==
    /\ l.at <= events
    /\ \A r \in l.repositories :
          Granted(r) \/ \E d \in EventId : d > l.at /\ Takes(d, r)

ListingsAreTrue ==
    \A w \in Request :
        request[w] # NULL /\ request[w].listing # NULL => ListingIsTrue(request[w].listing)

AccessInv ==
    /\ DeliveryInv
    /\ ListingsAreTrue
    /\ AccessUnlessOvertaken

LEMMA ListingStaysTrue ==
    ASSUME DeliveryInv, [Next]_vars, NEW l \in Listing, ListingIsTrue(l)
    PROVE  ListingIsTrue(l)'
<1>0. l.at \in Nat /\ events \in Nat /\ events' \in Nat /\ l.repositories \subseteq Repository
  <2>1. DeliveryInv' /\ MaxEvent \in Nat
    BY DeliveryStep, InstallationBounds
  <2>2. QED
    BY <2>1 DEF DeliveryInv, TypeInv, InstallationTypeOK, Listing
<1>1. l.at <= events'
  BY <1>0, EventsStay DEF ListingIsTrue
<1>2. ASSUME NEW r \in l.repositories
      PROVE  Granted(r)' \/ \E d \in EventId : d > l.at /\ Takes(d, r)'
  <2>1. CASE Granted(r)
    <3>1. Granted(r)' \/ \E d \in EventId : d > events /\ Takes(d, r)'
      BY <1>0, <2>1, Withdrawn
    <3>2. \A d \in EventId : d > events => d > l.at
      BY <1>0 DEF ListingIsTrue, EventId
    <3>3. QED
      BY <3>1, <3>2
  <2>2. CASE \E d \in EventId : d > l.at /\ Takes(d, r)
    <3>1. PICK d \in EventId : d > l.at /\ Takes(d, r)
      BY <2>2
    <3>2. event'[d] = event[d]
      BY <3>1, EventsStay DEF Takes
    <3>3. Takes(d, r)'
      BY <3>1, <3>2 DEF Takes
    <3>4. QED
      BY <3>1, <3>3
  <2>3. QED
    BY <2>1, <2>2 DEF ListingIsTrue
<1>3. QED
  BY <1>1, <1>2 DEF ListingIsTrue

LEMMA ListingsStep ==
    ASSUME DeliveryInv, ListingsAreTrue, [Next]_vars
    PROVE  ListingsAreTrue'
<1>0. TypeInv /\ InstallationTypeOK
  BY DEF DeliveryInv, TypeInv
<1>1. ASSUME NEW w \in Request, NEW l, l = request'[w].listing, request'[w] # NULL, l # NULL
      PROVE  ListingIsTrue(l)'
  <2>1. RequestStep(w)
    BY <1>0, <1>1, RequestSteps DEF DeliveryInv
  <2>2. CASE request'[w] = request[w]
    <3>1. ListingIsTrue(l)
      BY <1>1, <2>2 DEF ListingsAreTrue
    <3>2. l \in Listing
      BY <1>0, <1>1, <2>2, RequestTypes
    <3>3. QED
      BY <3>1, <3>2, ListingStaysTrue
  <2>3. CASE List(w) /\ request'[w].listing = Listed
    <3>1. status = "ACTIVE" /\ UNCHANGED <<status, granted, events, event>>
      BY <2>3 DEF List, github
    <3>2. l.at = events /\ l.repositories = granted
      BY <1>1, <2>3 DEF Listed
    <3>3. QED
      BY <1>0, <3>1, <3>2 DEF ListingIsTrue, Granted, InstallationTypeOK
  <2>4. QED
    BY <1>1, <2>1, <2>2, <2>3 DEF RequestStep
<1>2. QED
  BY <1>1 DEF ListingsAreTrue, ListingIsTrue, Takes, Granted

\* A commit of a listing, which nothing has overtaken, gives true access.
LEMMA CommittedAccess ==
    ASSUME DeliveryInv, [Next]_vars, NEW l \in Listing, ListingIsTrue(l), CommittedAt(l.at), ~overtaken',
           UNCHANGED <<github, delivery>>, NEW r \in l.repositories
    PROVE  Granted(r)' \/ Outstanding(r)'
<1>0. r \in Repository /\ UNCHANGED <<status, granted, event, delivery>>
  BY DEF Listing, github
<1>1. CASE Granted(r)
  BY <1>0, <1>1 DEF Granted
<1>2. CASE \E d \in EventId : d > l.at /\ Takes(d, r)
  <2>1. PICK d \in EventId : d > l.at /\ Takes(d, r)
    BY <1>2
  <2>2. delivery[d] = NULL
    BY <1>0, <2>1 DEF CommittedAt, OvertakenFor
  <2>3. QED
    BY <1>0, <2>1, <2>2 DEF Outstanding, Takes
<1>3. QED
  BY <1>1, <1>2 DEF ListingIsTrue

LEMMA AccessStep == AccessInv /\ [Next]_vars => AccessInv'
<1> SUFFICES ASSUME AccessInv, [Next]_vars PROVE AccessInv'
  OBVIOUS
<1>0. DeliveryInv /\ TypeInv /\ InstallationTypeOK /\ ListingsAreTrue
  BY DEF AccessInv, DeliveryInv, TypeInv
<1>1. DeliveryInv' /\ ListingsAreTrue'
  BY <1>0, DeliveryStep, ListingsStep
<1>2. ASSUME ~overtaken', NEW r \in Repository, Accessible(r)'
      PROVE  Granted(r)' \/ Outstanding(r)'
  <2>1. ASSUME NEW w \in Request, NEW l, l = request[w].listing, request[w] # NULL, l # NULL,
               CommittedAt(l.at), UNCHANGED <<github, delivery>>,
               row'.active = l.repositories
        PROVE  Granted(r)' \/ Outstanding(r)'
    <3>1. l \in Listing /\ ListingIsTrue(l)
      BY <1>0, <2>1, RequestTypes DEF ListingsAreTrue
    <3>2. r \in l.repositories
      BY <1>2, <2>1 DEF Accessible
    <3>3. QED
      BY <1>0, <1>2, <2>1, <3>1, <3>2, CommittedAccess
  <2>2. ASSUME NEW w \in Request, ClaimCommit(w)
        PROVE  Granted(r)' \/ Outstanding(r)'
    BY <2>1, <2>2 DEF ClaimCommit, Serving
  <2>3. ASSUME NEW w \in Request, SynchronizeCommit(w) \/ ReconcileCommit(w)
        PROVE  Granted(r)' \/ Outstanding(r)'
    <3>1. row # NULL
      BY <1>0, <2>3 DEF SynchronizeCommit, ReconcileCommit, Owns, TypeInv, RequestsKnow
    <3>2. row'.active = request[w].listing.repositories
      BY <1>0, <2>3, <3>1
      DEF SynchronizeCommit, ReconcileCommit, InstallationTypeOK, InstallationRow
    <3>3. QED
      BY <2>1, <2>3, <3>2 DEF SynchronizeCommit, ReconcileCommit, Serving
  <2>4. CASE KeepsAccess(r) /\ UNCHANGED overtaken /\ Accessible(r)
    <3>1. Granted(r) \/ Outstanding(r)
      BY <1>2, <2>4 DEF AccessInv, AccessUnlessOvertaken
    <3>2. QED
      BY <1>0, <2>4, <3>1, GrantStays
  <2>5. ASSUME NEW d \in EventId, Deliver(d)
        PROVE  KeepsAccess(r) /\ UNCHANGED overtaken /\ Accessible(r)
    <3>1. UNCHANGED overtaken /\ event[d] \in Event
      BY <1>0, <2>5 DEF Deliver, history, InstallationTypeOK
    <3>2. row # NULL /\ row \in InstallationRow
      <4>1. row' = row \/ row # NULL
        BY <2>5 DEF Deliver
      <4>2. QED
        BY <1>0, <1>2, <4>1 DEF Accessible, InstallationTypeOK
    <3>3. row' = row \/ row' = Applied(d)
      BY <2>5 DEF Deliver
    <3>4. ASSUME NEW e \in EventId, Accessible(r)', row' = Applied(e)
          PROVE  Accessible(r) /\ ~Takes(e, r)
      <4>1. Applied(e).status = "ACTIVE" /\ r \in Applied(e).active
        BY <3>4 DEF Accessible
      <4>2. QED
        BY <3>2, <4>1 DEF Accessible, Applied, InstallationRow, Takes
    <3>5. Accessible(r)
      BY <1>2, <3>2, <3>3, <3>4 DEF Accessible
    <3>6. ASSUME NEW e \in EventId, Deliver(e), delivery[e] = NULL
          PROVE  ~Takes(e, r)
      <4>1. row' = Applied(e)
        BY <3>2, <3>6 DEF Deliver
      <4>2. QED
        BY <1>2, <3>4, <4>1
    <3>7. QED
      BY <3>1, <3>5, <3>6 DEF KeepsAccess
  <2>6. CASE UNCHANGED <<row, overtaken>> /\ ~\E d \in EventId : Deliver(d)
    BY <1>2, <2>4, <2>6 DEF KeepsAccess, Accessible
  <2>61. ASSUME NEW u \in User, DeleteAccount(u)
         PROVE  Granted(r)' \/ Outstanding(r)'
    <3>1. row' = row
      BY <1>2, <2>61 DEF DeleteAccount, Accessible
    <3>2. UNCHANGED overtaken /\ ~\E d \in EventId : Deliver(d) /\ delivery[d] = NULL
      <4>1. UNCHANGED <<overtaken, delivery>>
        BY <2>61 DEF DeleteAccount, history
      <4>2. ASSUME NEW d \in EventId, Deliver(d), delivery[d] = NULL PROVE FALSE
        <5>1. delivery'[d] = "LOCAL_APPLIED"
          BY <1>0, <4>2 DEF Deliver, FirstState, InstallationTypeOK
        <5>2. QED
          BY <4>1, <4>2, <5>1, InstallationNull DEF DeliveryState
      <4>3. QED
        BY <4>1, <4>2
    <3>3. QED
      BY <1>2, <2>4, <3>1, <3>2 DEF KeepsAccess, Accessible
  <2>7. QED
    BY <2>2, <2>3, <2>4, <2>5, <2>6, <2>61
    DEF Next, Suspend, Unsuspend, Uninstall, AddRepository, RemoveRepository, Happens, Approve,
        SignIn, CreateSetupState, AttemptExpires, ClaimBegin, SynchronizeBegin, VerifyBegin, List, Abandon,
        ReconcileBegin, ReconcileNothing, ReconcileFails, MarkDelivery, tables, history, vars
<1>3. AccessUnlessOvertaken'
  BY <1>2 DEF AccessUnlessOvertaken
<1>4. QED
  BY <1>1, <1>3 DEF AccessInv

\* Until a listing is committed after the delivery that overtook it, the tables
\* admit no repository that GitHub has withdrawn and said so.
THEOREM AccessCorrect == Spec => []AccessUnlessOvertaken
<1>1. Init => AccessInv
  BY DeliveryInit DEF Init, AccessInv, ListingsAreTrue, AccessUnlessOvertaken, Accessible
<1>2. AccessInv => AccessUnlessOvertaken
  BY DEF AccessInv
<1>3. QED
  BY <1>1, <1>2, AccessStep, PTL DEF Spec

-----------------------------------------------------------------------------
(* Credit *)

\* What GitHub said of the repository it was asked about
FactsAreOfRepository ==
    \A w \in Request :
        Serving(w, "verify") /\ request[w].listing # NULL =>
            request[w].repository \in request[w].listing.repositories

CreditInv ==
    /\ AccessInv
    /\ FactsAreOfRepository
    /\ row = NULL => credit = {}
    /\ CreditIsGranted

LEMMA FactsStep ==
    ASSUME TypeInv, FactsAreOfRepository, [Next]_vars
    PROVE  FactsAreOfRepository'
<1>1. ASSUME NEW w \in Request, request'[w] # NULL, request'[w].op = "verify",
             request'[w].listing # NULL
      PROVE  request'[w].repository \in request'[w].listing.repositories
  <2>1. RequestStep(w)
    BY <1>1, RequestSteps
  <2>2. CASE request'[w] = request[w]
    BY <1>1, <2>2 DEF FactsAreOfRepository, Serving
  <2>3. CASE /\ request[w] # NULL
             /\ request'[w].op = request[w].op
             /\ request'[w].listing = Listed
             /\ Serving(w, "verify") => request'[w].repository \in granted
    BY <1>1, <2>3 DEF Serving, Listed
  <2>4. QED
    BY <1>1, <2>1, <2>2, <2>3 DEF RequestStep
<1>2. QED
  BY <1>1 DEF FactsAreOfRepository, Serving

\* A verification of r gives its mission credit.
Approves(r) == \E w \in Request : Approve(w) /\ request[w].repository = r

LEMMA CreditSteps ==
    ASSUME CreditInv, [Next]_vars
    PROVE  /\ \A r \in credit' : KeepsAccess(r) /\ (r \in credit \/ Approves(r))
           /\ row' = NULL => credit' = {}
<1>0. TypeInv /\ credit \subseteq Repository /\ (row = NULL => credit = {})
  BY DEF CreditInv, AccessInv, DeliveryInv, TypeInv, InstallationTypeOK
<1>1. \A r \in credit' : KeepsAccess(r)
  <2> SUFFICES ASSUME NEW r \in credit', NEW d \in EventId, Deliver(d), delivery[d] = NULL
               PROVE  ~Takes(d, r)
    BY DEF KeepsAccess
  <2>1. row # NULL
    BY <1>0 DEF Deliver
  <2>2. credit' = CreditLeft(d)
    BY <2>1 DEF Deliver
  <2>3. QED
    BY <1>0, <2>2 DEF CreditLeft
<1>2. \A r \in credit' : r \in credit \/ Approves(r)
  <2>1. CASE \E w \in Request : Approve(w)
    BY <2>1 DEF Approve, Approves
  <2>2. CASE credit' \subseteq credit
    BY <2>2
  <2>3. QED
    BY <2>1, <2>2
    DEF Next, Suspend, Unsuspend, Uninstall, AddRepository, RemoveRepository, Happens,
        SignIn, DeleteAccount, CreateSetupState, AttemptExpires, ClaimBegin, SynchronizeBegin, VerifyBegin,
        List, Abandon, ClaimCommit, SynchronizeCommit, ReconcileBegin, ReconcileNothing, ReconcileCommit,
        ReconcileFails, MarkDelivery, Deliver, Credited, CreditLeft, tables, vars
<1>3. ASSUME row' = NULL PROVE credit' = {}
  <2>1. CASE row = NULL
    <3>1. credit = {}
      BY <1>0, <2>1
    <3>2. ASSUME NEW r PROVE ~Approves(r)
      BY <2>1 DEF Approves, Approve, LockedInstallation, Accessible
    <3>3. QED
      BY <1>2, <3>1, <3>2
  <2>2. ASSUME NEW u \in User, DeleteAccount(u), row # NULL
        PROVE  credit' = {}
    BY <1>3, <2>2 DEF DeleteAccount
  <2>3. QED
    BY <1>0, <1>3, <2>1, <2>2, RowStays
<1>4. QED
  BY <1>1, <1>2, <1>3

\* The exceptions are history: only a new verification takes one back.
LEMMA LatenessStays ==
    ASSUME [Next]_vars
    PROVE  /\ overtaken => overtaken'
           /\ \A r \in late : r \in late' \/ Approves(r)
<1>1. ASSUME NEW at, CommittedAt(at)
      PROVE  late' = late /\ (overtaken => overtaken')
  BY <1>1 DEF CommittedAt
<1>2. ASSUME NEW w \in Request, Approve(w)
      PROVE  overtaken' = overtaken /\ \A r \in late : r \in late' \/ Approves(r)
  BY <1>2 DEF Approve, Approves
<1>3. ASSUME NEW w \in Request, ClaimCommit(w) \/ SynchronizeCommit(w) \/ ReconcileCommit(w)
      PROVE  late' = late /\ (overtaken => overtaken')
  BY <1>1, <1>3 DEF ClaimCommit, SynchronizeCommit, ReconcileCommit
<1>4. CASE UNCHANGED <<late, overtaken>>
  BY <1>4
<1>5. QED
  BY <1>2, <1>3, <1>4
  DEF Next, Suspend, Unsuspend, Uninstall, AddRepository, RemoveRepository, Happens,
      SignIn, DeleteAccount, CreateSetupState, AttemptExpires, ClaimBegin, SynchronizeBegin, VerifyBegin,
      List, Abandon, ReconcileBegin, ReconcileNothing, ReconcileFails, MarkDelivery, Deliver, history, vars

\* A verification that one of its two checks protects
LEMMA ApprovedAccess ==
    ASSUME AccessInv, FactsAreOfRepository, NEW r \in Repository, Approves(r), ~(overtaken /\ r \in late')
    PROVE  Granted(r) \/ Outstanding(r)
<1>1. PICK w \in Request : Approve(w) /\ request[w].repository = r
  BY DEF Approves
<1> DEFINE facts == request[w].listing
<1>2. /\ Serving(w, "verify") /\ facts # NULL /\ Accessible(r)
      /\ late' = IF OvertakenFor(facts.at, r) THEN late \cup {r} ELSE late \ {r}
  BY <1>1 DEF Approve, LockedInstallation
<1>3. CASE ~overtaken
  BY <1>2, <1>3 DEF AccessInv, AccessUnlessOvertaken
<1>4. CASE r \notin late'
  <2>1. ListingIsTrue(facts) /\ r \in facts.repositories
    BY <1>1, <1>2 DEF AccessInv, ListingsAreTrue, FactsAreOfRepository, Serving
  <2>2. ~OvertakenFor(facts.at, r)
    BY <1>2, <1>4
  <2>3. QED
    BY <2>1, <2>2 DEF ListingIsTrue, OvertakenFor, Outstanding
<1>5. QED
  BY <1>3, <1>4

LEMMA CreditStep == CreditInv /\ [Next]_vars => CreditInv'
<1> SUFFICES ASSUME CreditInv, [Next]_vars PROVE CreditInv'
  OBVIOUS
<1>1. AccessInv /\ AccessInv' /\ DeliveryInv /\ DeliveryInv'
  BY AccessStep DEF CreditInv, AccessInv
<1>2. credit' \subseteq Repository
  BY <1>1 DEF DeliveryInv, TypeInv, InstallationTypeOK
<1>3. ASSUME NEW r \in credit', ~(overtaken' /\ r \in late')
      PROVE  Granted(r)' \/ Outstanding(r)'
  <2>1. KeepsAccess(r) /\ (r \in credit \/ Approves(r)) /\ r \in Repository
    BY <1>2, CreditSteps
  <2>2. ~(overtaken /\ r \in late') /\ (Approves(r) \/ ~(overtaken /\ r \in late))
    BY <1>3, LatenessStays
  <2>3. Granted(r) \/ Outstanding(r)
    <3>1. CASE r \in credit /\ ~Approves(r)
      BY <2>2, <3>1 DEF CreditInv, CreditIsGranted
    <3>2. CASE Approves(r)
      BY <1>1, <2>1, <2>2, <3>2, ApprovedAccess DEF CreditInv
    <3>3. QED
      BY <2>1, <3>1, <3>2
  <2>4. QED
    BY <1>1, <2>1, <2>3, GrantStays
<1>4. CreditIsGranted'
  BY <1>3 DEF CreditIsGranted
<1>5. FactsAreOfRepository'
  BY <1>1, FactsStep DEF CreditInv, DeliveryInv
<1>6. QED
  BY <1>1, <1>4, <1>5, CreditSteps DEF CreditInv

\* A mission has credit from a repository that GitHub has withdrawn and said so
\* only if the facts of its verification and the tables under its lock were both
\* overtaken: for any number of repositories, requests and changes, delivered in
\* any order between the answers of GitHub and the commits that rest on them.
THEOREM CreditCorrect == Spec => []CreditIsGranted
<1>1. Init => AccessInv
  BY DeliveryInit DEF Init, AccessInv, ListingsAreTrue, AccessUnlessOvertaken, Accessible
<1>2. Init => CreditInv
  BY <1>1 DEF Init, CreditInv, CreditIsGranted, FactsAreOfRepository, Serving
<1>3. CreditInv => CreditIsGranted
  BY DEF CreditInv
<1>4. QED
  BY <1>2, <1>3, CreditStep, PTL DEF Spec

-----------------------------------------------------------------------------
(* Reconciliation *)

\* A reconciliation lists after the change it answers, and is done when that
\* listing was committed or nobody had claimed the installation.
ReconciliationsAreTrue ==
    \A w \in Request :
        Serving(w, "reconcile") =>
            /\ request[w].listing # NULL => request[w].listing.at >= request[w].delivery
            /\ request[w].stage = "done" =>
                  newest >= request[w].delivery \/ request[w].delivery \in unclaimed

ReconcileInv ==
    /\ DeliveryInv
    /\ ReconciliationsAreTrue
    /\ ReconciledMeansListed

LEMMA HistoryGrows ==
    ASSUME TypeInv, [Next]_vars
    PROVE  /\ newest \in Nat /\ newest' \in Nat /\ newest' >= newest
           /\ unclaimed \subseteq unclaimed'
<1>1. newest \in Nat /\ newest' \in Nat
  <2>1. TypeInv' /\ MaxEvent \in Nat
    BY TypeStep, InstallationBounds
  <2>2. QED
    BY <2>1 DEF TypeInv, InstallationTypeOK
<1>2. ASSUME NEW at, CommittedAt(at)
      PROVE  newest' \in {newest, at} /\ (newest' = newest \/ at > newest) /\ UNCHANGED unclaimed
  BY <1>2 DEF CommittedAt
<1>3. ASSUME NEW w \in Request, ClaimCommit(w) \/ SynchronizeCommit(w) \/ ReconcileCommit(w)
      PROVE  newest' >= newest /\ UNCHANGED unclaimed
  <2>1. CommittedAt(request[w].listing.at)
    BY <1>3 DEF ClaimCommit, SynchronizeCommit, ReconcileCommit
  <2>2. QED
    BY <1>1, <1>2, <2>1
<1>4. CASE UNCHANGED newest /\ unclaimed \subseteq unclaimed'
  BY <1>1, <1>4
<1>5. QED
  BY <1>1, <1>3, <1>4
  DEF Next, Suspend, Unsuspend, Uninstall, AddRepository, RemoveRepository, Happens, Approve,
      SignIn, DeleteAccount, CreateSetupState, AttemptExpires, ClaimBegin, SynchronizeBegin, VerifyBegin, List, Abandon,
      ReconcileBegin, ReconcileNothing, ReconcileFails, MarkDelivery, Deliver, history, vars

LEMMA ReconcileStep == ReconcileInv /\ [Next]_vars => ReconcileInv'
<1> SUFFICES ASSUME ReconcileInv, [Next]_vars PROVE ReconcileInv'
  OBVIOUS
<1>0. DeliveryInv /\ TypeInv /\ InstallationTypeOK /\ Numbered /\ ReconciliationsAreTrue
  BY DEF ReconcileInv, DeliveryInv, TypeInv
<1>1. DeliveryInv'
  BY <1>0, DeliveryStep
<1>2. ASSUME NEW w \in Request, Serving(w, "reconcile")'
      PROVE  /\ request'[w].listing # NULL => request'[w].listing.at >= request'[w].delivery
             /\ request'[w].stage = "done" =>
                   newest' >= request'[w].delivery \/ request'[w].delivery \in unclaimed'
  <2>1. RequestStep(w) /\ request'[w].op = "reconcile" /\ request'[w] # NULL
    BY <1>0, <1>2, RequestSteps DEF Serving
  <2>2. CASE request'[w] = request[w]
    <3>1. Serving(w, "reconcile") /\ request[w].delivery \in EventId
      BY <1>0, <2>1, <2>2, DeliveryOf DEF Serving
    <3>2. newest \in Nat /\ newest' \in Nat /\ newest' >= newest /\ unclaimed \subseteq unclaimed'
      BY <1>0, HistoryGrows
    <3>3. QED
      BY <1>0, <2>2, <3>1, <3>2 DEF ReconciliationsAreTrue, EventId
  <2>3. CASE /\ List(w) /\ Serving(w, "reconcile")
             /\ request'[w].listing = Listed
             /\ request'[w].delivery = request[w].delivery
             /\ request'[w].stage = "list"
    <3>1. request[w].delivery \in EventId /\ request[w].delivery <= events
      BY <1>0, <2>3, DeliveryOf DEF Numbered
    <3>2. events \in Nat
      BY <1>0, InstallationBounds DEF InstallationTypeOK
    <3>3. QED
      BY <2>3, <3>1, <3>2 DEF Listed, EventId
  <2>4. CASE /\ Serving(w, "reconcile")
             /\ request'[w].delivery = request[w].delivery
             /\ request'[w].listing = NULL
             /\ ReconcileNothing(w)
    BY <2>4 DEF ReconcileNothing
  <2>5. CASE /\ Serving(w, "reconcile")
             /\ request'[w].delivery = request[w].delivery
             /\ request'[w].listing = NULL
             /\ ReconcileCommit(w)
    <3>1. /\ request[w].listing # NULL
          /\ newest' = IF request[w].listing.at > newest THEN request[w].listing.at ELSE newest
      BY <2>5 DEF ReconcileCommit, CommittedAt
    <3>2. request[w].listing.at >= request[w].delivery
      BY <1>0, <2>5, <3>1 DEF ReconciliationsAreTrue
    <3>3. request[w].listing.at \in Nat /\ newest \in Nat /\ request[w].delivery \in Nat
      <4>1. request[w].listing \in Listing /\ request[w].delivery \in EventId
        BY <1>0, <2>5, <3>1, RequestTypes, DeliveryOf DEF Serving
      <4>2. QED
        BY <1>0, <4>1, HistoryGrows, InstallationBounds DEF Listing, EventId
    <3>4. newest' >= request[w].delivery
      BY <3>1, <3>2, <3>3
    <3>5. QED
      BY <2>5, <3>4
  <2>6. CASE request'[w].listing = NULL /\ request'[w].stage # "done"
    BY <2>6
  <2>7. QED
    BY <2>1, <2>2, <2>3, <2>4, <2>5, <2>6 DEF RequestStep, Serving
<1>3. ASSUME NEW d \in EventId, delivery'[d] = "RECONCILED"
      PROVE  newest' >= d \/ d \in unclaimed'
  <2>0. /\ newest \in Nat /\ newest' \in Nat /\ newest' >= newest /\ unclaimed \subseteq unclaimed'
        /\ d \in Nat
    BY <1>0, HistoryGrows DEF EventId
  <2>1. CASE delivery[d] = "RECONCILED"
    BY <2>0, <2>1 DEF ReconcileInv, ReconciledMeansListed
  <2>2. ASSUME NEW w \in Request, MarkDelivery(w), delivery[d] # "RECONCILED"
        PROVE  newest' >= d \/ d \in unclaimed'
    <3>1. d = request[w].delivery /\ request[w].stage = "done"
      BY <1>0, <1>3, <2>2 DEF MarkDelivery, InstallationTypeOK
    <3>2. newest >= d \/ d \in unclaimed
      BY <1>0, <2>2, <3>1 DEF MarkDelivery, ReconciliationsAreTrue
    <3>3. QED
      BY <2>0, <3>2
  <2>3. ASSUME NEW e \in EventId, Deliver(e)
        PROVE  delivery[d] = "RECONCILED"
    BY <1>0, <1>3, <2>3 DEF Deliver, FirstState, InstallationTypeOK
  <2>4. CASE UNCHANGED delivery
    BY <1>3, <2>1, <2>4
  <2>5. QED
    BY <2>1, <2>2, <2>3, <2>4
    DEF Next, Suspend, Unsuspend, Uninstall, AddRepository, RemoveRepository, Happens, Approve,
        SignIn, DeleteAccount, CreateSetupState, AttemptExpires, ClaimBegin, SynchronizeBegin, VerifyBegin, List, Abandon,
        ClaimCommit, SynchronizeCommit, ReconcileBegin, ReconcileNothing, ReconcileCommit, ReconcileFails,
        tables, vars
<1>4. QED
  BY <1>1, <1>2, <1>3 DEF ReconcileInv, ReconciliationsAreTrue, ReconciledMeansListed

\* A delivery is stored as RECONCILED only after a listing that has what it
\* announced, whatever fails, is abandoned or is delivered twice.
THEOREM ReconciledCorrect == Spec => []ReconciledMeansListed
<1>1. Init => ReconcileInv
  <2>1. ASSUME Init PROVE ReconcileInv
    <3>1. \A d \in EventId : delivery[d] = NULL
      BY <2>1 DEF Init
    <3>2. NULL # "RECONCILED"
      BY InstallationNull DEF DeliveryState
    <3>3. \A w \in Request : request[w] = NULL
      BY <2>1 DEF Init
    <3>4. QED
      BY <2>1, <3>1, <3>2, <3>3, DeliveryInit
      DEF ReconcileInv, ReconciliationsAreTrue, ReconciledMeansListed, Serving
  <2>2. QED
    BY <2>1
<1>2. ReconcileInv => ReconciledMeansListed
  BY DEF ReconcileInv
<1>3. QED
  BY <1>1, <1>2, ReconcileStep, PTL DEF Spec
-----------------------------------------------------------------------------
(* The owner *)

\* A claim holds the setup state of the user that GitHub's account is linked to.
ClaimsAreLinked ==
    \A w \in Request :
        Serving(w, "claim") =>
            /\ attempt[request[w].attempt] # NULL
            /\ attempt[request[w].attempt].user = request[w].user
            /\ identity = request[w].user

OwnerInv == TypeInv /\ ClaimsAreLinked /\ OwnerIsLinked

\* A claim after a step is the claim before, or begins with the step.
LEMMA ClaimSteps ==
    ASSUME TypeInv, [Next]_vars, NEW v \in Request, Serving(v, "claim")'
    PROVE  \/ /\ Serving(v, "claim")
              /\ request'[v].attempt = request[v].attempt
              /\ request'[v].user = request[v].user
           \/ \E a \in Attempt :
                 /\ ClaimBegin(v, a)
                 /\ request'[v].attempt = a /\ request'[v].user = identity
<1>1. request'[v] # NULL /\ request'[v].op = "claim"
  BY DEF Serving
<1>2. RequestStep(v)
  BY <1>1, RequestSteps
<1>3. CASE request'[v] = request[v]
  BY <1>1, <1>3 DEF Serving
<1>4. CASE request'[v] # request[v]
  BY <1>1, <1>2, <1>4 DEF RequestStep, Serving
<1>5. QED
  BY <1>3, <1>4

\* Only the end of a claim writes an owner, and only deleteAccount a claim's
\* setup state or the link to GitHub.
LEMMA OwnerSteps ==
    ASSUME TypeInv, [Next]_vars, row' # NULL
    PROVE  \/ row # NULL /\ row'.owner = row.owner
           \/ \E w \in Request : ClaimCommit(w) /\ row'.owner = request[w].user
<1>0. row \in InstallationRow \cup {NULL}
  BY DEF TypeInv, InstallationTypeOK
<1>1. ASSUME NEW w \in Request, ClaimCommit(w) PROVE row'.owner = request[w].user
  BY <1>1 DEF ClaimCommit
<1>2. ASSUME NEW w \in Request, SynchronizeCommit(w) \/ ReconcileCommit(w)
      PROVE  row # NULL /\ row'.owner = row.owner
  <2>1. row # NULL
    BY <1>2 DEF SynchronizeCommit, ReconcileCommit, Owns, TypeInv, RequestsKnow
  <2>2. QED
    BY <1>0, <1>2, <2>1 DEF SynchronizeCommit, ReconcileCommit, InstallationRow
<1>3. ASSUME NEW d \in EventId, Deliver(d) PROVE row # NULL /\ row'.owner = row.owner
  <2>1. row' = row \/ row' = Applied(d)
    BY <1>3 DEF Deliver
  <2>2. row # NULL
    BY <1>3 DEF Deliver
  <2>3. Applied(d).owner = row.owner
    BY <1>0, <2>2 DEF Applied, InstallationRow
  <2>4. QED
    BY <2>1, <2>2, <2>3
<1>4. ASSUME NEW u \in User, DeleteAccount(u) PROVE row' = row
  BY <1>4 DEF DeleteAccount
<1>5. CASE row' = row
  BY <1>5
<1>6. QED
  BY <1>1, <1>2, <1>3, <1>4, <1>5
  DEF Next, Suspend, Unsuspend, Uninstall, AddRepository, RemoveRepository, Happens, Approve,
      SignIn, CreateSetupState, AttemptExpires, ClaimBegin, SynchronizeBegin, VerifyBegin, List,
      Abandon, ReconcileBegin, ReconcileNothing, ReconcileFails, MarkDelivery, tables, vars

\* The link to GitHub changes by sign-in, when there is none, and by deletion of
\* the account that has it.
LEMMA LinkChanges ==
    ASSUME TypeInv, [Next]_vars, identity # NULL, identity' # identity
    PROVE  DeleteAccount(identity)
<1>1. PICK u \in User : SignIn(u) \/ DeleteAccount(u)
  BY DEF Next, Suspend, Unsuspend, Uninstall, AddRepository, RemoveRepository, Happens, Approve,
         CreateSetupState, AttemptExpires, ClaimBegin, SynchronizeBegin, VerifyBegin, List, Abandon,
         ClaimCommit, SynchronizeCommit, ReconcileBegin, ReconcileNothing, ReconcileCommit,
         ReconcileFails, MarkDelivery, Deliver, vars
<1>2. DeleteAccount(u) /\ identity = u
  BY <1>1 DEF SignIn, DeleteAccount
<1>3. QED
  BY <1>2

\* A claim keeps its setup state from deletion, and with it the link to GitHub.
LEMMA ClaimKeepsLink ==
    ASSUME OwnerInv, [Next]_vars, NEW w \in Request, Serving(w, "claim")
    PROVE  /\ identity' = identity
           /\ attempt'[request[w].attempt] # NULL
           /\ attempt'[request[w].attempt].user = request[w].user
<1> DEFINE a == request[w].attempt
           u == request[w].user
<1>0. /\ TypeInv /\ attempt \in [Attempt -> AttemptRow \cup {NULL}]
      /\ \A x \in AttemptRow : x # NULL
      /\ a \in Attempt /\ u \in User /\ u # NULL
  BY RequestTypes, InstallationNull DEF OwnerInv, TypeInv, InstallationTypeOK, ClaimRequest
<1>1. attempt[a] # NULL /\ attempt[a].user = u /\ identity = u
  BY DEF OwnerInv, ClaimsAreLinked
<1>2. AttemptLocked(a)
  BY DEF AttemptLocked
<1>3. ASSUME NEW v \in User, DeleteAccount(v) PROVE v # u
  BY <1>0, <1>1, <1>2, <1>3 DEF DeleteAccount
<1>4. identity' = identity
  BY <1>0, <1>1, <1>3, LinkChanges
<1>5. attempt'[a] # NULL /\ attempt'[a].user = u
  <2> HIDE DEF a, u
  <2>1. CASE attempt' = attempt
    BY <1>1, <2>1
  <2>2. ASSUME NEW b \in Attempt, NEW v \in User, CreateSetupState(b, v)
        PROVE  attempt'[a] = attempt[a]
    BY <1>0, <1>1, <2>2 DEF CreateSetupState
  <2>3. ASSUME NEW b \in Attempt, AttemptExpires(b)
        PROVE  attempt'[a] # NULL /\ attempt'[a].user = u
    <3>1. CASE a = b
      <4>1. attempt[a] \in AttemptRow
        BY <1>0, <1>1
      <4>2. attempt'[a] = [attempt[a] EXCEPT !.open = FALSE]
        BY <1>0, <2>3, <3>1 DEF AttemptExpires
      <4>3. attempt'[a] \in AttemptRow /\ attempt'[a].user = attempt[a].user
        BY <4>1, <4>2 DEF AttemptRow
      <4>4. QED
        BY <1>0, <1>1, <4>3
    <3>2. CASE a # b
      BY <1>0, <1>1, <2>3, <3>2 DEF AttemptExpires
    <3>3. QED
      BY <3>1, <3>2
  <2>4. ASSUME NEW v \in Request, ClaimCommit(v)
        PROVE  attempt'[a] # NULL /\ attempt'[a].user = u
    <3>1. Serving(v, "claim") /\ request[v].attempt \in Attempt /\ request[v].user \in User
      BY <1>0, <2>4, RequestTypes DEF ClaimCommit, ClaimRequest, TypeInv
    <3>2. attempt' = [attempt EXCEPT ![request[v].attempt] = [user |-> request[v].user, open |-> FALSE]]
      BY <2>4 DEF ClaimCommit
    <3>3. request[v].attempt = a => request[v].user = u
      BY <1>1, <3>1 DEF OwnerInv, ClaimsAreLinked
    <3>4. CASE request[v].attempt = a
      <4>1. attempt'[a] = [user |-> u, open |-> FALSE]
        BY <1>0, <3>2, <3>3, <3>4
      <4>2. attempt'[a] \in AttemptRow /\ attempt'[a].user = u
        BY <1>0, <4>1 DEF AttemptRow
      <4>3. QED
        BY <1>0, <4>2
    <3>5. CASE request[v].attempt # a
      BY <1>0, <1>1, <3>2, <3>5
    <3>6. QED
      BY <3>4, <3>5
  <2>5. ASSUME NEW v \in User, DeleteAccount(v) PROVE attempt'[a] = attempt[a]
    BY <1>0, <1>1, <1>3, <2>5 DEF DeleteAccount
  <2>6. QED
    BY <1>1, <2>1, <2>2, <2>3, <2>4, <2>5
    DEF Next, Suspend, Unsuspend, Uninstall, AddRepository, RemoveRepository, Happens, Approve,
        SignIn, ClaimBegin, SynchronizeBegin, VerifyBegin, List, Abandon, SynchronizeCommit,
        ReconcileBegin, ReconcileNothing, ReconcileCommit, ReconcileFails, MarkDelivery, Deliver,
        tables, vars
<1>6. QED
  BY <1>4, <1>5

LEMMA OwnerStep == OwnerInv /\ [Next]_vars => OwnerInv'
<1> SUFFICES ASSUME OwnerInv, [Next]_vars PROVE OwnerInv'
  OBVIOUS
<1>0. TypeInv /\ TypeInv'
  BY TypeStep DEF OwnerInv
<1>1. ASSUME NEW v \in Request, Serving(v, "claim")'
      PROVE  /\ attempt'[request'[v].attempt] # NULL
             /\ attempt'[request'[v].attempt].user = request'[v].user
             /\ identity' = request'[v].user
  <2>1. CASE /\ Serving(v, "claim")
             /\ request'[v].attempt = request[v].attempt
             /\ request'[v].user = request[v].user
    <3>1. identity = request[v].user
      BY <2>1 DEF OwnerInv, ClaimsAreLinked
    <3>2. QED
      BY <2>1, <3>1, ClaimKeepsLink
  <2>2. ASSUME NEW a \in Attempt, ClaimBegin(v, a), request'[v].attempt = a,
               request'[v].user = identity
        PROVE  /\ attempt'[a] # NULL
               /\ attempt'[a].user = identity
               /\ identity' = identity
    BY <2>2 DEF ClaimBegin, tables
  <2>3. QED
    BY <1>0, <1>1, <2>1, <2>2, ClaimSteps
<1>2. ASSUME row' # NULL PROVE row'.owner = identity'
  <2>1. CASE row # NULL /\ row'.owner = row.owner
    <3>1. identity = row.owner
      BY <2>1 DEF OwnerInv, OwnerIsLinked
    <3>2. identity # NULL
      BY <1>0, <2>1, <3>1, InstallationNull DEF TypeInv, InstallationTypeOK, InstallationRow
    <3>3. ~DeleteAccount(identity)
      BY <1>2, <2>1, <3>1 DEF DeleteAccount, Owns
    <3>4. QED
      BY <1>0, <2>1, <3>1, <3>2, <3>3, LinkChanges
  <2>2. ASSUME NEW w \in Request, ClaimCommit(w), row'.owner = request[w].user
        PROVE  row'.owner = identity'
    <3>1. Serving(w, "claim")
      BY <2>2 DEF ClaimCommit
    <3>2. identity = request[w].user
      BY <3>1 DEF OwnerInv, ClaimsAreLinked
    <3>3. QED
      BY <2>2, <3>1, <3>2, ClaimKeepsLink
  <2>3. QED
    BY <1>0, <1>2, <2>1, <2>2, OwnerSteps
<1>3. ClaimsAreLinked'
  BY <1>1 DEF ClaimsAreLinked
<1>4. QED
  BY <1>0, <1>2, <1>3 DEF OwnerInv, OwnerIsLinked

\* An installation belongs to the account that GitHub's account is linked to, in
\* every order of claims, sign-ins, deletions of accounts and deliveries.
THEOREM OwnerCorrect == Spec => []OwnerIsLinked
<1>1. Init => OwnerInv
  BY TypeInit DEF Init, OwnerInv, ClaimsAreLinked, OwnerIsLinked, Serving
<1>2. OwnerInv => OwnerIsLinked
  BY DEF OwnerInv
<1>3. QED
  BY <1>1, <1>2, OwnerStep, PTL DEF Spec
=============================================================================
