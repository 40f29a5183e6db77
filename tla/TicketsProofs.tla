--------------------------- MODULE TicketsProofs ---------------------------
(* Theorems about Tickets, for every value of its constants: what the rows *)
(* of the ledger keep, that Tickets implements TicketWallet, and that every *)
(* balance is the sum of its ledger.                                        *)
EXTENDS Tickets, FiniteSetTheorems, WellFoundedInduction, TLAPS

\* An account exists if and only if its signup grant is in the ledger.
AccountOpened == \A u \in User : account[u] # NULL <=> Signup \in grants[u]

\* Only a user with an account has rows of AI usage.
ChargedHasAccount ==
    \A u \in User, k \in Key : usage[u][k] # NULL => account[u] # NULL

\* A request past its reservation has a row to settle.
JobHasReservation ==
    \A j \in Job :
        job[j] # NULL /\ job[j].stage # "reserving" =>
            usage[job[j].user][job[j].key] # NULL

\* What the client was told is about a row of the ledger.
AnswersHaveRows == \A d \in delivered \cup refundTold : usage[d[1]][d[2]] # NULL

TicketInv ==
    /\ TicketTypeOK
    /\ AccountOpened
    /\ ChargedHasAccount
    /\ JobHasReservation
    /\ AnswersHaveRows
    /\ ResultIsPaid
    /\ RefundIsTrue

-----------------------------------------------------------------------------
(* The kinds of grant *)

LEMMA GrantKinds ==
    /\ Signup \in Grant
    /\ \A n \in Month : Monthly(n) \in Grant /\ Monthly(n) # Signup
    /\ \A t \in Transaction : Purchase(t) \in Grant /\ Purchase(t) # Signup
<1>1. Signup \in Grant
  BY DEF Signup, Grant
<1>2. ASSUME NEW n \in Month PROVE Monthly(n) \in Grant /\ Monthly(n) # Signup
  BY DEF Monthly, Signup, Grant
<1>3. ASSUME NEW t \in Transaction PROVE Purchase(t) \in Grant /\ Purchase(t) # Signup
  BY DEF Purchase, Signup, Grant
<1>4. QED
  BY <1>1, <1>2, <1>3

LEMMA GrantTickets ==
    /\ Tickets(Signup) = SignupGrant
    /\ \A n \in Month : Tickets(Monthly(n)) = MonthlyGrant
    /\ \A t \in Transaction : Tickets(Purchase(t)) = Pack[t]
BY DEF Tickets, Signup, Monthly, Purchase

-----------------------------------------------------------------------------
(* One lemma for each action that writes more than its own request *)

LEMMA OpenInsertStep ==
    ASSUME TicketInv, NEW u \in User, OpenInsert(u)
    PROVE  TicketInv'
<1> USE DEF TicketInv, told
<1>1. [balance |-> SignupGrant, lastMonth |-> month] \in Account
  BY GrantAssumption DEF Account, TicketTypeOK
<1>2. /\ account' \in [User -> Account \cup {NULL}]
      /\ grants' \in [User -> SUBSET Grant]
  <2>1. CASE HasGrant(u, Signup)
    BY <2>1 DEF OpenInsert, TicketTypeOK
  <2>2. CASE ~HasGrant(u, Signup)
    <3> DEFINE row == [balance |-> SignupGrant, lastMonth |-> month]
    <3>1. /\ account' = [account EXCEPT ![u] = row]
          /\ grants' = [grants EXCEPT ![u] = @ \cup {Signup}]
      BY <2>2 DEF OpenInsert
    <3>2. row \in Account
      BY <1>1
    <3> HIDE DEF row
    <3>3. account' \in [User -> Account \cup {NULL}]
      BY <3>1, <3>2 DEF TicketTypeOK
    <3>4. grants' \in [User -> SUBSET Grant]
      BY <3>1, GrantKinds DEF TicketTypeOK
    <3>5. QED
      BY <3>3, <3>4
  <2>3. QED
    BY <2>1, <2>2
<1>2a. opening' \in [User -> 0..MaxParallel]
  BY TicketBoundAssumption DEF OpenInsert, TicketTypeOK
<1>3. AccountOpened' /\ ChargedHasAccount'
  BY <1>1, NullAssumption DEF OpenInsert, TicketTypeOK, AccountOpened, ChargedHasAccount, HasGrant
<1>4. QED
  BY <1>2, <1>2a, <1>3
     DEF OpenInsert, TicketTypeOK, JobHasReservation, AnswersHaveRows, ResultIsPaid, RefundIsTrue

LEMMA ApplyMonthlyGrantStep ==
    ASSUME TicketInv, NEW u \in User, ApplyMonthlyGrant(u)
    PROVE  TicketInv'
<1> USE DEF TicketInv, told
<1> DEFINE row == [balance |-> account[u].balance + MonthlyGrant, lastMonth |-> month]
<1>1. row \in Account
  BY GrantAssumption DEF ApplyMonthlyGrant, Account, TicketTypeOK
<1>2. account' = [account EXCEPT ![u] = row]
  BY DEF ApplyMonthlyGrant, TicketTypeOK
<1> HIDE DEF row
<1>3. /\ account' \in [User -> Account \cup {NULL}]
      /\ grants' \in [User -> SUBSET Grant]
  BY <1>1, <1>2, GrantKinds DEF ApplyMonthlyGrant, TicketTypeOK
<1>4. AccountOpened' /\ ChargedHasAccount'
  BY <1>1, <1>2, NullAssumption, GrantKinds DEF ApplyMonthlyGrant, TicketTypeOK, AccountOpened, ChargedHasAccount
<1>5. QED
  BY <1>3, <1>4 DEF ApplyMonthlyGrant, TicketTypeOK, JobHasReservation,
                    AnswersHaveRows, ResultIsPaid, RefundIsTrue

LEMMA FulfillInsertStep ==
    ASSUME TicketInv, NEW t \in Transaction, FulfillInsert(t)
    PROVE  TicketInv'
<1> USE DEF TicketInv, told
<1> DEFINE u == Buyer[t]
           row == [account[u] EXCEPT !.balance = @ + Pack[t]]
<1>1. u \in User /\ Pack[t] \in Nat
  BY PurchaseAssumption
<1>2. fulfilling' \in [Transaction -> 0..MaxParallel]
  BY TicketBoundAssumption DEF FulfillInsert, TicketTypeOK
<1>3. CASE account[u] = NULL \/ HasGrant(u, Purchase(t))
  BY <1>2, <1>3 DEF FulfillInsert, TicketTypeOK, AccountOpened, ChargedHasAccount, JobHasReservation,
                    AnswersHaveRows, ResultIsPaid, RefundIsTrue
<1>4. CASE ~(account[u] = NULL \/ HasGrant(u, Purchase(t)))
  <2>1. row \in Account
    BY <1>1, <1>4 DEF Account, TicketTypeOK
  <2>2. /\ account' = [account EXCEPT ![u] = row]
        /\ grants' = [grants EXCEPT ![u] = @ \cup {Purchase(t)}]
    BY <1>4 DEF FulfillInsert, TicketTypeOK
  <2> HIDE DEF row
  <2>3. /\ account' \in [User -> Account \cup {NULL}]
        /\ grants' \in [User -> SUBSET Grant]
    BY <2>1, <2>2, GrantKinds DEF TicketTypeOK
  <2>4. AccountOpened' /\ ChargedHasAccount'
    <3>1. \A v \in User : account'[v] # NULL <=> account[v] # NULL
      BY <1>1, <1>4, <2>1, <2>2, NullAssumption DEF TicketTypeOK
    <3>2. \A v \in User : Signup \in grants'[v] <=> Signup \in grants[v]
      BY <1>1, <2>2, GrantKinds DEF TicketTypeOK
    <3>3. UNCHANGED usage
      BY DEF FulfillInsert
    <3>4. QED
      BY <3>1, <3>2, <3>3 DEF AccountOpened, ChargedHasAccount
  <2>5. QED
    BY <1>2, <2>3, <2>4 DEF FulfillInsert, TicketTypeOK, JobHasReservation,
                            AnswersHaveRows, ResultIsPaid, RefundIsTrue
<1>5. QED
  BY <1>3, <1>4

LEMMA ReserveLookupStep ==
    ASSUME TicketInv, NEW j \in Job, NEW u \in User, NEW k \in Key, NEW f \in Feature,
           NEW direct \in BOOLEAN, ReserveLookup(j, u, k, f, direct)
    PROVE  TicketInv'
<1> USE DEF TicketInv, told, ledger
<1> DEFINE task == [user |-> u, key |-> k, feature |-> f, direct |-> direct,
                    stage |-> IF usage[u][k] = NULL THEN "reserving" ELSE "calling"]
<1>1. task \in Task
  BY DEF Task
<1>2. job' = [job EXCEPT ![j] = task]
  BY DEF ReserveLookup
<1>3. JobHasReservation'
  BY <1>2 DEF ReserveLookup, JobHasReservation, TicketTypeOK
<1> HIDE DEF task
<1>4. job' \in [Job -> Task \cup {NULL}]
  BY <1>1, <1>2 DEF TicketTypeOK
<1>5. QED
  BY <1>3, <1>4 DEF ReserveLookup, TicketTypeOK, AccountOpened, ChargedHasAccount, AnswersHaveRows,
                    ResultIsPaid, RefundIsTrue

LEMMA ReserveInsertStep ==
    ASSUME TicketInv, NEW j \in Job, ReserveInsert(j)
    PROVE  TicketInv'
<1> USE DEF TicketInv, told
<1> DEFINE task == job[j]
           u == task.user
           k == task.key
           row == [feature |-> task.feature, status |-> "RESERVED"]
           new == [account[u] EXCEPT !.balance = @ - Cost[task.feature]]
<1>1. /\ task \in Task
      /\ u \in User /\ k \in Key /\ task.feature \in Feature
      /\ account[u] \in Account /\ account[u] # NULL
      /\ usage[u][k] = NULL
  BY DEF ReserveInsert, CanReserve, TicketTypeOK, Task
<1>2. new \in Account
  BY <1>1, CostAssumption DEF ReserveInsert, CanReserve, Affords, Account
<1>3. row \in Usage
  BY <1>1 DEF Usage
<1>4. /\ account' = [account EXCEPT ![u] = new]
      /\ usage' = [usage EXCEPT ![u] = [usage[u] EXCEPT ![k] = row]]
      /\ job' = [job EXCEPT ![j] = IF task.direct THEN NULL ELSE [task EXCEPT !.stage = "calling"]]
      /\ UNCHANGED <<grants, opening, fulfilling, month, restarts, told>>
  BY <1>1 DEF ReserveInsert, TicketTypeOK
<1>5. [task EXCEPT !.stage = "calling"] \in Task
  BY <1>1 DEF Task
<1> HIDE DEF new, row
<1>6. TicketTypeOK'
  BY <1>1, <1>2, <1>3, <1>4, <1>5 DEF TicketTypeOK
<1>7. AccountOpened'
  BY <1>1, <1>2, <1>4, NullAssumption DEF TicketTypeOK, AccountOpened
<1>8. \A v \in User, l \in Key : usage'[v][l] = IF v = u /\ l = k THEN row ELSE usage[v][l]
  BY <1>1, <1>4 DEF TicketTypeOK
<1>9. row # NULL
  BY <1>3, NullAssumption
<1>9a. ChargedHasAccount'
  <2>1. \A v \in User : account[v] # NULL => account'[v] # NULL
    BY <1>2, <1>4, NullAssumption DEF TicketTypeOK
  <2>2. account'[u] # NULL
    BY <1>1, <1>2, <1>4, NullAssumption DEF TicketTypeOK
  <2>3. QED
    BY <1>1, <1>8, <2>1, <2>2 DEF TicketTypeOK, ChargedHasAccount
<1>10. JobHasReservation'
  <2> SUFFICES ASSUME NEW i \in Job, job'[i] # NULL, job'[i].stage # "reserving"
               PROVE  usage'[job'[i].user][job'[i].key] # NULL
    BY DEF JobHasReservation
  <2>1. CASE i = j
    <3>1. job'[i].user = u /\ job'[i].key = k
      BY <1>1, <1>4, <2>1 DEF TicketTypeOK, Task
    <3>2. QED BY <3>1, <1>1, <1>8, <1>9
  <2>2. CASE i # j
    <3>1. job'[i] = job[i]
      BY <1>4, <2>2 DEF TicketTypeOK
    <3>2. job[i].user \in User /\ job[i].key \in Key
      BY <3>1 DEF TicketTypeOK, Task
    <3>3. QED BY <3>1, <3>2, <1>8, <1>9 DEF JobHasReservation
  <2>3. QED BY <2>1, <2>2
<1>11. AnswersHaveRows' /\ ResultIsPaid' /\ RefundIsTrue'
  BY <1>1, <1>4, <1>8, <1>9
     DEF TicketTypeOK, AnswersHaveRows, ResultIsPaid, RefundIsTrue
<1>12. QED
  BY <1>6, <1>7, <1>9a, <1>10, <1>11

\* Commit and RefundJob rewrite the status of the row of their request.
LEMMA SettledRow ==
    ASSUME TicketInv, NEW j \in Job, job[j] # NULL, job[j].stage # "reserving",
           NEW s \in {"COMMITTED", "REFUNDED"},
           usage' = [usage EXCEPT ![job[j].user][job[j].key].status = s]
    PROVE  /\ usage' \in [User -> [Key -> Usage \cup {NULL}]]
           /\ \A v \in User, l \in Key :
                /\ usage[v][l] # NULL => usage'[v][l] # NULL
                /\ usage'[v][l] = IF v = job[j].user /\ l = job[j].key
                                  THEN [usage[v][l] EXCEPT !.status = s]
                                  ELSE usage[v][l]
<1> DEFINE u == job[j].user
           k == job[j].key
           row == [usage[u][k] EXCEPT !.status = s]
<1>1. u \in User /\ k \in Key
  BY DEF TicketInv, TicketTypeOK, Task
<1>2. usage[u][k] \in Usage
  BY <1>1 DEF TicketInv, TicketTypeOK, JobHasReservation
<1>3. row \in Usage
  BY <1>2 DEF Usage
<1>4. usage' = [usage EXCEPT ![u] = [usage[u] EXCEPT ![k] = row]]
  BY <1>1 DEF TicketInv, TicketTypeOK
<1>5. row = [usage[u][k] EXCEPT !.status = s]
  OBVIOUS
<1> HIDE DEF u, k, row
<1>6. \A v \in User, l \in Key :
         usage'[v][l] = IF v = u /\ l = k THEN row ELSE usage[v][l]
  BY <1>1, <1>4 DEF TicketInv, TicketTypeOK
<1>7. usage' \in [User -> [Key -> Usage \cup {NULL}]]
  <2>1. [usage[u] EXCEPT ![k] = row] \in [Key -> Usage \cup {NULL}]
    BY <1>1, <1>3 DEF TicketInv, TicketTypeOK
  <2>2. QED
    BY <1>1, <1>4, <2>1 DEF TicketInv, TicketTypeOK
<1>8. row # NULL
  BY <1>3, NullAssumption
<1>9. QED
  BY <1>5, <1>6, <1>7, <1>8 DEF u, k

LEMMA CommitStep ==
    ASSUME TicketInv, NEW j \in Job, Commit(j)
    PROVE  TicketInv'
<1> DEFINE u == job[j].user
           k == job[j].key
<1>1. /\ job[j] # NULL /\ job[j].stage # "reserving"
      /\ u \in User /\ k \in Key
      /\ usage[u][k] \in Usage
  BY DEF Commit, TicketInv, TicketTypeOK, Task, JobHasReservation
<1>2. /\ job' = [job EXCEPT ![j] = NULL]
      /\ UNCHANGED <<account, grants, opening, fulfilling, month, restarts, refundTold>>
  BY DEF Commit
<1>3. AccountOpened'
  BY <1>2 DEF TicketInv, AccountOpened
<1>4. job' \in [Job -> Task \cup {NULL}]
  BY <1>2 DEF TicketInv, TicketTypeOK
<1>5. CASE ~Committable(usage[u][k].status)
  <2>1. UNCHANGED <<usage, delivered>>
    BY <1>5 DEF Commit
  <2>2. QED
    BY <1>2, <1>3, <1>4, <2>1 DEF TicketInv, TicketTypeOK, ChargedHasAccount, JobHasReservation,
                                  AnswersHaveRows, ResultIsPaid, RefundIsTrue
<1>6. CASE Committable(usage[u][k].status)
  <2>1. /\ usage' = [usage EXCEPT ![u][k].status = "COMMITTED"]
        /\ delivered' = delivered \cup {<<u, k>>}
    BY <1>6 DEF Commit
  <2>2. /\ usage' \in [User -> [Key -> Usage \cup {NULL}]]
        /\ \A v \in User, l \in Key :
             /\ usage[v][l] # NULL => usage'[v][l] # NULL
             /\ usage'[v][l] = IF v = u /\ l = k
                               THEN [usage[v][l] EXCEPT !.status = "COMMITTED"]
                               ELSE usage[v][l]
    BY <1>1, <2>1, SettledRow
  <2>3. usage[u][k].status # "REFUNDED"
    BY <1>6 DEF Committable
  <2>4. usage'[u][k].status = "COMMITTED" /\ usage'[u][k] # NULL
    BY <1>1, <2>2, NullAssumption DEF Usage
  <2>5. delivered' \in SUBSET (User \X Key) /\ refundTold' \in SUBSET (User \X Key)
    BY <1>1, <1>2, <2>1 DEF TicketInv, TicketTypeOK
  <2> HIDE DEF u, k
  <2>6. TicketTypeOK'
    BY <1>2, <1>4, <2>2, <2>5 DEF TicketInv, TicketTypeOK
  <2>7. JobHasReservation'
    <3> SUFFICES ASSUME NEW i \in Job, job'[i] # NULL, job'[i].stage # "reserving"
                 PROVE  usage'[job'[i].user][job'[i].key] # NULL
      BY DEF JobHasReservation
    <3>1. job'[i] = job[i]
      BY <1>2 DEF TicketInv, TicketTypeOK
    <3>2. job[i].user \in User /\ job[i].key \in Key
      BY <3>1 DEF TicketInv, TicketTypeOK, Task
    <3>3. usage[job[i].user][job[i].key] # NULL
      BY <3>1 DEF TicketInv, JobHasReservation
    <3>4. usage'[job[i].user][job[i].key] # NULL
      BY <2>2, <3>2, <3>3
    <3>5. QED
      BY <3>1, <3>4
  <2>7a. ChargedHasAccount'
    BY <1>1, <1>2, <2>2, NullAssumption DEF TicketInv, TicketTypeOK, ChargedHasAccount
  <2>8. AnswersHaveRows'
    BY <1>2, <2>1, <2>2, <2>4 DEF TicketInv, TicketTypeOK, AnswersHaveRows
  <2>9. ResultIsPaid'
    BY <1>1, <2>1, <2>2, <2>4 DEF TicketInv, TicketTypeOK, ResultIsPaid
  <2>10. RefundIsTrue'
    BY <1>1, <1>2, <2>2, <2>3 DEF TicketInv, TicketTypeOK, RefundIsTrue
  <2>11. QED
    BY <1>3, <2>6, <2>7, <2>7a, <2>8, <2>9, <2>10 DEF TicketInv
<1>7. QED
  BY <1>5, <1>6

LEMMA RefundJobStep ==
    ASSUME TicketInv, NEW j \in Job, RefundJob(j)
    PROVE  TicketInv'
<1> DEFINE u == job[j].user
           k == job[j].key
<1>1. /\ job[j] # NULL /\ job[j].stage # "reserving"
      /\ u \in User /\ k \in Key
      /\ usage[u][k] \in Usage
  BY DEF RefundJob, TicketInv, TicketTypeOK, Task, JobHasReservation
<1>2. /\ job' = [job EXCEPT ![j] = NULL]
      /\ UNCHANGED <<grants, opening, fulfilling, month, restarts, delivered>>
  BY DEF RefundJob
<1>3. job' \in [Job -> Task \cup {NULL}]
  BY <1>2 DEF TicketInv, TicketTypeOK
<1>4. CASE ~Refundable(usage[u][k].status)
  <2>1. /\ UNCHANGED <<usage, account>>
        /\ refundTold' = IF usage[u][k].status = "COMMITTED" THEN refundTold
                         ELSE refundTold \cup {<<u, k>>}
    BY <1>4 DEF RefundJob
  <2>2. usage[u][k].status \in {"COMMITTED", "REFUNDED"} /\ usage[u][k] # NULL
    BY <1>1, <1>4, NullAssumption DEF Refundable, Usage
  <2>3. refundTold' \in SUBSET (User \X Key)
    BY <1>1, <2>1 DEF TicketInv, TicketTypeOK
  <2> HIDE DEF u, k
  <2>4. TicketTypeOK' /\ AccountOpened' /\ ChargedHasAccount' /\ JobHasReservation' /\ ResultIsPaid'
    BY <1>2, <1>3, <2>1, <2>3
       DEF TicketInv, TicketTypeOK, AccountOpened, ChargedHasAccount, JobHasReservation, ResultIsPaid
  <2>5. AnswersHaveRows' /\ RefundIsTrue'
    BY <1>2, <2>1, <2>2 DEF TicketInv, AnswersHaveRows, RefundIsTrue
  <2>6. QED
    BY <2>4, <2>5 DEF TicketInv
<1>5. CASE Refundable(usage[u][k].status)
  <2> DEFINE new == [account[u] EXCEPT !.balance = @ + Cost[usage[u][k].feature]]
  <2>1. /\ usage' = [usage EXCEPT ![u][k].status = "REFUNDED"]
        /\ account' = [account EXCEPT ![u].balance = @ + Cost[usage[u][k].feature]]
        /\ refundTold' = refundTold \cup {<<u, k>>}
    BY <1>5 DEF RefundJob
  <2>2. /\ usage' \in [User -> [Key -> Usage \cup {NULL}]]
        /\ \A v \in User, l \in Key :
             /\ usage[v][l] # NULL => usage'[v][l] # NULL
             /\ usage'[v][l] = IF v = u /\ l = k
                               THEN [usage[v][l] EXCEPT !.status = "REFUNDED"]
                               ELSE usage[v][l]
    BY <1>1, <2>1, SettledRow
  <2>3. usage[u][k].status = "RESERVED"
    BY <1>5 DEF Refundable
  <2>4. usage'[u][k].status = "REFUNDED" /\ usage'[u][k] # NULL
    BY <1>1, <2>2, NullAssumption DEF Usage
  <2>5. account[u] \in Account
    BY <1>1, NullAssumption DEF TicketInv, TicketTypeOK, ChargedHasAccount
  <2>6. new \in Account
    BY <1>1, <2>5, CostAssumption DEF Account, Usage
  <2>7. account' = [account EXCEPT ![u] = new]
    BY <2>1
  <2>8. refundTold' \in SUBSET (User \X Key)
    BY <1>1, <2>1 DEF TicketInv, TicketTypeOK
  <2> HIDE DEF u, k, new
  <2>9. TicketTypeOK'
    BY <1>2, <1>3, <2>2, <2>6, <2>7, <2>8 DEF TicketInv, TicketTypeOK
  <2>10. AccountOpened' /\ ChargedHasAccount'
    <3>1. \A v \in User : account'[v] # NULL <=> account[v] # NULL
      BY <1>1, <2>5, <2>6, <2>7, NullAssumption DEF TicketInv, TicketTypeOK
    <3>2. \A v \in User, l \in Key : usage'[v][l] # NULL => usage[v][l] # NULL
      BY <1>1, <2>2, NullAssumption
    <3>3. QED
      BY <1>2, <3>1, <3>2 DEF TicketInv, AccountOpened, ChargedHasAccount
  <2>11. JobHasReservation'
    <3> SUFFICES ASSUME NEW i \in Job, job'[i] # NULL, job'[i].stage # "reserving"
                 PROVE  usage'[job'[i].user][job'[i].key] # NULL
      BY DEF JobHasReservation
    <3>1. job'[i] = job[i]
      BY <1>2 DEF TicketInv, TicketTypeOK
    <3>2. job[i].user \in User /\ job[i].key \in Key
      BY <3>1 DEF TicketInv, TicketTypeOK, Task
    <3>3. usage[job[i].user][job[i].key] # NULL
      BY <3>1 DEF TicketInv, JobHasReservation
    <3>4. usage'[job[i].user][job[i].key] # NULL
      BY <2>2, <3>2, <3>3
    <3>5. QED
      BY <3>1, <3>4
  <2>12. AnswersHaveRows'
    BY <1>2, <2>1, <2>2, <2>4 DEF TicketInv, TicketTypeOK, AnswersHaveRows
  <2>13. RefundIsTrue'
    BY <1>1, <2>1, <2>2, <2>4 DEF TicketInv, TicketTypeOK, RefundIsTrue
  <2>14. ResultIsPaid'
    BY <1>1, <1>2, <2>2, <2>3 DEF TicketInv, TicketTypeOK, ResultIsPaid
  <2>15. QED
    BY <2>9, <2>10, <2>11, <2>12, <2>13, <2>14 DEF TicketInv
<1>6. QED
  BY <1>4, <1>5

-----------------------------------------------------------------------------
(* The invariant *)

LEMMA TicketInvInit == TicketInit => TicketInv
<1> SUFFICES ASSUME TicketInit PROVE TicketInv
  OBVIOUS
<1>1. TicketTypeOK
  BY TicketBoundAssumption DEF TicketInit, TicketTypeOK, NewJobs, Month
<1>2. QED
  BY <1>1 DEF TicketInit, TicketInv, NewJobs, AccountOpened, ChargedHasAccount,
              JobHasReservation, AnswersHaveRows, ResultIsPaid, RefundIsTrue

LEMMA TicketInvStep == TicketInv /\ [TicketNext]_ticketVars => TicketInv'
<1> SUFFICES ASSUME TicketInv, [TicketNext]_ticketVars PROVE TicketInv'
  OBVIOUS
<1> USE DEF told, ledger
<1>1. ASSUME NEW u \in User, OpenLookup(u) PROVE TicketInv'
  <2>1. opening' \in [User -> 0..MaxParallel]
    BY <1>1, TicketBoundAssumption DEF OpenLookup, TicketInv, TicketTypeOK
  <2>2. QED
    BY <1>1, <2>1
       DEF OpenLookup, TicketInv, TicketTypeOK, AccountOpened, ChargedHasAccount,
           JobHasReservation, AnswersHaveRows, ResultIsPaid, RefundIsTrue
<1>2. ASSUME NEW t \in Transaction, FulfillLookup(t) PROVE TicketInv'
  <2>1. fulfilling' \in [Transaction -> 0..MaxParallel]
    BY <1>2, TicketBoundAssumption DEF FulfillLookup, TicketInv, TicketTypeOK
  <2>2. QED
    BY <1>2, <2>1
       DEF FulfillLookup, TicketInv, TicketTypeOK, AccountOpened, ChargedHasAccount,
           JobHasReservation, AnswersHaveRows, ResultIsPaid, RefundIsTrue
<1>3. ASSUME NEW j \in Job, ReserveFails(j) PROVE TicketInv'
  BY <1>3 DEF ReserveFails, TicketInv, TicketTypeOK, AccountOpened, ChargedHasAccount,
              JobHasReservation, AnswersHaveRows, ResultIsPaid, RefundIsTrue
<1>4. ASSUME NEW j \in Job, AiAnswers(j) PROVE TicketInv'
  <2>1. PICK s \in {"succeeded", "failed"} : job' = [job EXCEPT ![j].stage = s]
    BY <1>4 DEF AiAnswers
  <2>2. job[j] # NULL /\ job[j] \in Task /\ job[j].stage # "reserving"
    BY <1>4 DEF AiAnswers, TicketInv, TicketTypeOK
  <2> DEFINE new == [job[j] EXCEPT !.stage = s]
  <2>3. new \in Task /\ new.user = job[j].user /\ new.key = job[j].key
    BY <2>2 DEF Task
  <2>4. job' = [job EXCEPT ![j] = new]
    BY <2>1
  <2> HIDE DEF new
  <2>5. TicketTypeOK'
    BY <1>4, <2>3, <2>4 DEF AiAnswers, TicketInv, TicketTypeOK
  <2>6. JobHasReservation'
    BY <1>4, <2>2, <2>3, <2>4 DEF AiAnswers, TicketInv, TicketTypeOK, JobHasReservation
  <2>7. QED
    BY <1>4, <2>5, <2>6 DEF AiAnswers, TicketInv, AccountOpened, ChargedHasAccount,
                            AnswersHaveRows, ResultIsPaid, RefundIsTrue
<1>5. CASE NextMonth
  <2>1. month' \in Month
    BY <1>5, TicketBoundAssumption DEF NextMonth, TicketInv, TicketTypeOK, Month
  <2>2. QED
    BY <1>5, <2>1
       DEF NextMonth, TicketInv, TicketTypeOK, AccountOpened, ChargedHasAccount,
           JobHasReservation, AnswersHaveRows, ResultIsPaid, RefundIsTrue
<1>6. CASE Restart
  <2>1. restarts' \in 0..MaxRestart
    BY <1>6, TicketBoundAssumption DEF Restart, TicketInv, TicketTypeOK
  <2>2. /\ opening' \in [User -> 0..MaxParallel]
        /\ fulfilling' \in [Transaction -> 0..MaxParallel]
        /\ job' \in [Job -> Task \cup {NULL}]
    BY <1>6, TicketBoundAssumption DEF Restart, NewJobs
  <2>3. QED
    BY <1>6, <2>1, <2>2
       DEF Restart, NewJobs, TicketInv, TicketTypeOK, AccountOpened, ChargedHasAccount,
           JobHasReservation, AnswersHaveRows, ResultIsPaid, RefundIsTrue
<1>7. CASE UNCHANGED ticketVars
  BY <1>7 DEF ticketVars, TicketInv, TicketTypeOK, AccountOpened, ChargedHasAccount,
              JobHasReservation, AnswersHaveRows, ResultIsPaid, RefundIsTrue
<1>8. QED
  BY <1>1, <1>2, <1>3, <1>4, <1>5, <1>6, <1>7, OpenInsertStep, ApplyMonthlyGrantStep,
     FulfillInsertStep, ReserveLookupStep, ReserveInsertStep, CommitStep, RefundJobStep
     DEF TicketNext

LEMMA TicketInvariant == TicketSpec => []TicketInv
BY TicketInvInit, TicketInvStep, PTL DEF TicketSpec

\* Every row of the ledger keeps its shape; in particular no balance is ever
\* negative, however many reservations race for the last tickets.
THEOREM TicketTypeCorrect == TicketSpec => []TicketTypeOK
BY TicketInvariant, PTL DEF TicketInv

\* A result a client was given is paid for and stays paid: no parallel request
\* with the same key can turn the settled reservation back into a refund.
THEOREM ResultIsPaidCorrect == TicketSpec => []ResultIsPaid
BY TicketInvariant, PTL DEF TicketInv

\* Tickets a client was told to have back are never charged again.
THEOREM RefundIsTrueCorrect == TicketSpec => []RefundIsTrue
BY TicketInvariant, PTL DEF TicketInv

-----------------------------------------------------------------------------
(* Tickets implements TicketWallet: every step of the handlers is a step   *)
(* of the wallet or leaves it as it is.                                    *)

\* What a step does to the balances the wallet shows.
LEMMA BalanceAfter ==
    ASSUME TicketTypeOK, NEW u \in User, NEW n \in Int, NEW row \in Account,
           account' = [account EXCEPT ![u] = row],
           row.balance = Balance(u) + n
    PROVE  [v \in User |-> Balance(v)]' = [[v \in User |-> Balance(v)] EXCEPT ![u] = @ + n]
<1>1. \A v \in User : account'[v] = IF v = u THEN row ELSE account[v]
  BY DEF TicketTypeOK
<1>2. Balance(u)' = Balance(u) + n
  BY <1>1, NullAssumption DEF Balance
<1>3. \A v \in User : v # u => Balance(v)' = Balance(v)
  BY <1>1 DEF Balance
<1>4. QED
  BY <1>2, <1>3

LEMMA WalletUnchanged ==
    ASSUME UNCHANGED ledger
    PROVE  UNCHANGED Wallet!walletVars
BY DEF ledger, Wallet!walletVars, Balance, Charged

\* A step that adds a grant and its tickets is a credit of the wallet.
LEMMA CreditStep ==
    ASSUME TicketTypeOK, NEW u \in User, NEW g \in Grant, NEW row \in Account,
           g \notin grants[u],
           Tickets(g) \in Nat,
           account' = [account EXCEPT ![u] = row],
           row.balance = Balance(u) + Tickets(g),
           grants' = [grants EXCEPT ![u] = @ \cup {g}],
           UNCHANGED usage
    PROVE  Wallet!Credit(u, g)
<1>1. [v \in User |-> Balance(v)]' = [[v \in User |-> Balance(v)] EXCEPT ![u] = @ + Tickets(g)]
  <2> DEFINE n == Tickets(g)
  <2>1. n \in Int /\ row.balance = Balance(u) + n
    OBVIOUS
  <2> HIDE DEF n
  <2>2. [v \in User |-> Balance(v)]' = [[v \in User |-> Balance(v)] EXCEPT ![u] = @ + n]
    BY <2>1, BalanceAfter
  <2>3. QED
    BY <2>2 DEF n
<1>2. [h \in Grant |-> Tickets(h)][g] = Tickets(g)
  OBVIOUS
<1>3. UNCHANGED Charged
  BY DEF Charged
<1>4. QED
  BY <1>1, <1>2, <1>3 DEF Wallet!Credit

LEMMA OpenInsertCredits ==
    ASSUME TicketInv, NEW u \in User, OpenInsert(u)
    PROVE  Wallet!Credit(u, Signup) \/ UNCHANGED Wallet!walletVars
<1>1. CASE HasGrant(u, Signup)
  BY <1>1, WalletUnchanged DEF OpenInsert, ledger
<1>2. CASE ~HasGrant(u, Signup)
  <2> DEFINE row == [balance |-> SignupGrant, lastMonth |-> month]
  <2>1. row \in Account /\ Balance(u) = 0 /\ row.balance = SignupGrant
    BY <1>2, GrantAssumption DEF HasGrant, TicketInv, TicketTypeOK, AccountOpened, Account, Balance
  <2>2. /\ account' = [account EXCEPT ![u] = row]
        /\ grants' = [grants EXCEPT ![u] = @ \cup {Signup}]
        /\ Signup \notin grants[u]
        /\ UNCHANGED usage
    BY <1>2 DEF OpenInsert, HasGrant
  <2> HIDE DEF row
  <2>3. Tickets(Signup) \in Nat /\ row.balance = Balance(u) + Tickets(Signup)
    BY <2>1, GrantTickets, GrantAssumption
  <2>4. QED
    BY <2>1, <2>2, <2>3, CreditStep, GrantKinds DEF TicketInv
<1>3. QED
  BY <1>1, <1>2

LEMMA ApplyMonthlyGrantCredits ==
    ASSUME TicketInv, NEW u \in User, ApplyMonthlyGrant(u)
    PROVE  Wallet!Credit(u, Monthly(month))
<1> DEFINE row == [balance |-> account[u].balance + MonthlyGrant, lastMonth |-> month]
<1>1. /\ row \in Account
      /\ row.balance = Balance(u) + MonthlyGrant
  BY GrantAssumption DEF ApplyMonthlyGrant, Account, TicketInv, TicketTypeOK, Balance
<1>2. /\ account' = [account EXCEPT ![u] = row]
      /\ grants' = [grants EXCEPT ![u] = @ \cup {Monthly(month)}]
      /\ Monthly(month) \notin grants[u]
      /\ UNCHANGED usage
  BY DEF ApplyMonthlyGrant, HasGrant
<1>3. month \in Month
  BY DEF TicketInv, TicketTypeOK
<1> HIDE DEF row
<1>4. Tickets(Monthly(month)) = MonthlyGrant /\ Monthly(month) \in Grant
  BY <1>3, GrantTickets, GrantKinds
<1>5. QED
  BY <1>1, <1>2, <1>4, CreditStep, GrantAssumption DEF TicketInv

LEMMA FulfillInsertCredits ==
    ASSUME TicketInv, NEW t \in Transaction, FulfillInsert(t)
    PROVE  Wallet!Credit(Buyer[t], Purchase(t)) \/ UNCHANGED Wallet!walletVars
<1> DEFINE u == Buyer[t]
           row == [account[u] EXCEPT !.balance = @ + Pack[t]]
<1>1. CASE account[u] = NULL \/ HasGrant(u, Purchase(t))
  BY <1>1, WalletUnchanged DEF FulfillInsert, ledger
<1>2. CASE ~(account[u] = NULL \/ HasGrant(u, Purchase(t)))
  <2>1. u \in User /\ Pack[t] \in Nat
    BY PurchaseAssumption
  <2>2. row \in Account /\ row.balance = Balance(u) + Pack[t]
    BY <1>2, <2>1 DEF TicketInv, TicketTypeOK, Account, Balance
  <2>3. /\ account' = [account EXCEPT ![u] = row]
        /\ grants' = [grants EXCEPT ![u] = @ \cup {Purchase(t)}]
        /\ Purchase(t) \notin grants[u]
        /\ UNCHANGED usage
    BY <1>2 DEF FulfillInsert, HasGrant
  <2>4. Tickets(Purchase(t)) = Pack[t] /\ Purchase(t) \in Grant
    BY GrantTickets, GrantKinds
  <2> HIDE DEF u, row
  <2>5. Wallet!Credit(u, Purchase(t))
    BY <2>1, <2>2, <2>3, <2>4, CreditStep DEF TicketInv
  <2>6. QED
    BY <2>5 DEF u
<1>3. QED
  BY <1>1, <1>2

-----------------------------------------------------------------------------
(* Charges *)

\* What the wallet shows of the row of a key.
LEMMA ChargedAfter ==
    ASSUME TicketTypeOK, NEW u \in User, NEW k \in Key, NEW row \in Usage,
           usage' = [usage EXCEPT ![u] = [usage[u] EXCEPT ![k] = row]]
    PROVE  Charged' = [Charged EXCEPT ![u][k] =
                          [status |-> row.status, amount |-> Cost[row.feature]]]
<1> DEFINE new == [status |-> row.status, amount |-> Cost[row.feature]]
<1>1. \A v \in User, l \in Key :
         usage'[v][l] = IF v = u /\ l = k THEN row ELSE usage[v][l]
  BY DEF TicketTypeOK
<1>2. row # NULL
  BY NullAssumption
<1>3. \A v \in User, l \in Key :
         Charged'[v][l] = IF v = u /\ l = k THEN new ELSE Charged[v][l]
  BY <1>1, <1>2 DEF Charged
<1> HIDE DEF new
<1> DEFINE S == {Charged[v][l] : v \in User, l \in Key}
<1>4. Charged \in [User -> [Key -> S]]
  BY DEF Charged
<1> HIDE DEF S
<1>5. Charged' = [v \in User |-> [l \in Key |-> Charged'[v][l]]]
  BY DEF Charged
<1>6. [Charged EXCEPT ![u][k] = new] =
         [v \in User |-> [l \in Key |-> IF v = u /\ l = k THEN new ELSE Charged[v][l]]]
  <2> DEFINE inner == [Charged[u] EXCEPT ![k] = new]
  <2>1. inner = [l \in Key |-> IF l = k THEN new ELSE Charged[u][l]]
    BY <1>4
  <2>2. \A v \in User : Charged[v] = [l \in Key |-> Charged[v][l]]
    BY <1>4
  <2> HIDE DEF inner
  <2>3. [Charged EXCEPT ![u] = inner] = [v \in User |-> IF v = u THEN inner ELSE Charged[v]]
    BY <1>4
  <2>4. ASSUME NEW v \in User
        PROVE  (IF v = u THEN inner ELSE Charged[v]) =
                  [l \in Key |-> IF v = u /\ l = k THEN new ELSE Charged[v][l]]
    BY <2>1, <2>2
  <2>5. QED
    BY <2>3, <2>4 DEF inner
<1>7. QED
  BY <1>3, <1>5, <1>6 DEF new

LEMMA ReserveInsertReserves ==
    ASSUME TicketInv, NEW j \in Job, ReserveInsert(j)
    PROVE  \E u \in User, k \in Key, price \in {Cost[f] : f \in Feature} :
               Wallet!Reserve(u, k, price)
<1> DEFINE task == job[j]
           u == task.user
           k == task.key
           cost == Cost[task.feature]
           row == [feature |-> task.feature, status |-> "RESERVED"]
           new == [account[u] EXCEPT !.balance = @ - cost]
<1>1. /\ u \in User /\ k \in Key /\ task.feature \in Feature
      /\ account[u] \in Account /\ account[u] # NULL
      /\ usage[u][k] = NULL
      /\ account[u].balance >= cost
      /\ cost \in Nat
  BY CostAssumption DEF ReserveInsert, CanReserve, Affords, TicketInv, TicketTypeOK, Task
<1>2. new \in Account /\ Balance(u) = account[u].balance /\ new.balance = Balance(u) + (-cost)
  BY <1>1 DEF Account, Balance
<1>3. row \in Usage /\ row.status = "RESERVED" /\ Cost[row.feature] = cost
  BY <1>1 DEF Usage
<1>4. /\ account' = [account EXCEPT ![u] = new]
      /\ usage' = [usage EXCEPT ![u] = [usage[u] EXCEPT ![k] = row]]
      /\ UNCHANGED grants
  BY <1>1 DEF ReserveInsert, TicketInv, TicketTypeOK
<1>5. Charged[u][k].status = "NONE"
  BY <1>1 DEF Charged
<1>6. cost \in {Cost[f] : f \in Feature}
  BY <1>1
<1> HIDE DEF u, k, cost, row, new
<1>7. Charged' = [Charged EXCEPT ![u][k] = [status |-> "RESERVED", amount |-> cost]]
  BY <1>1, <1>3, <1>4, ChargedAfter DEF TicketInv
<1>8. [v \in User |-> Balance(v)]' = [[v \in User |-> Balance(v)] EXCEPT ![u] = @ - cost]
  <2> DEFINE n == -cost
  <2>1. n \in Int /\ new.balance = Balance(u) + n
    BY <1>1, <1>2
  <2> HIDE DEF n
  <2>2. [v \in User |-> Balance(v)]' = [[v \in User |-> Balance(v)] EXCEPT ![u] = @ + n]
    BY <1>1, <1>2, <1>4, <2>1, BalanceAfter DEF TicketInv
  <2>3. Balance(u) \in Int /\ Balance(u) + n = Balance(u) - cost
    BY <1>1, <1>2 DEF n, Account
  <2>4. QED
    BY <1>1, <2>2, <2>3
<1>9. cost <= [v \in User |-> Balance(v)][u]
  BY <1>1, <1>2 DEF Account
<1>10. Wallet!Reserve(u, k, cost)
  BY <1>4, <1>5, <1>7, <1>8, <1>9 DEF Wallet!Reserve
<1>11. QED
  BY <1>1, <1>6, <1>10

LEMMA CommitSettles ==
    ASSUME TicketInv, NEW j \in Job, Commit(j)
    PROVE  \/ \E u \in User, k \in Key : Wallet!Settle(u, k)
           \/ UNCHANGED Wallet!walletVars
<1> DEFINE u == job[j].user
           k == job[j].key
           row == [usage[u][k] EXCEPT !.status = "COMMITTED"]
<1>1. /\ u \in User /\ k \in Key
      /\ usage[u][k] \in Usage /\ usage[u][k] # NULL
      /\ UNCHANGED <<account, grants>>
  BY DEF Commit, TicketInv, TicketTypeOK, Task, JobHasReservation
<1>2. CASE ~Committable(usage[u][k].status)
  BY <1>1, <1>2, WalletUnchanged DEF Commit, ledger
<1>3. CASE Committable(usage[u][k].status)
  <2>1. /\ row \in Usage /\ row.status = "COMMITTED"
        /\ row.feature = usage[u][k].feature
    BY <1>1 DEF Usage
  <2>2. usage' = [usage EXCEPT ![u] = [usage[u] EXCEPT ![k] = row]]
    BY <1>1, <1>3 DEF Commit, TicketInv, TicketTypeOK
  <2>3. Charged[u][k] = [status |-> usage[u][k].status, amount |-> Cost[row.feature]]
    BY <1>1, <2>1 DEF Charged
  <2>4. usage[u][k].status = "COMMITTED" => row = usage[u][k]
    BY <1>1 DEF Usage
  <2> HIDE DEF u, k, row
  <2>5. Charged' = [Charged EXCEPT ![u][k] =
                       [status |-> "COMMITTED", amount |-> Cost[row.feature]]]
    BY <1>1, <2>1, <2>2, ChargedAfter DEF TicketInv
  <2>6. UNCHANGED [v \in User |-> Balance(v)]
    BY <1>1 DEF Balance
  <2>7. CASE usage[u][k].status = "RESERVED"
    <3>1. [Charged[u][k] EXCEPT !.status = "COMMITTED"] =
             [status |-> "COMMITTED", amount |-> Cost[row.feature]]
      BY <2>3
    <3>2. Wallet!Settle(u, k)
      <4>1. Charged' = [Charged EXCEPT ![u][k].status = "COMMITTED"]
        BY <2>5, <3>1, Zenon
      <4>2. Charged[u][k].status = "RESERVED"
        BY <2>3, <2>7
      <4>3. UNCHANGED grants
        BY <1>1
      <4>4. QED
        BY <2>6, <4>1, <4>2, <4>3, Zenon DEF Wallet!Settle
    <3>3. QED
      BY <1>1, <3>2
  <2>8. CASE usage[u][k].status = "COMMITTED"
    <3>1. usage' = usage
      BY <1>1, <2>2, <2>4, <2>8 DEF TicketInv, TicketTypeOK
    <3>2. QED
      BY <1>1, <3>1, WalletUnchanged DEF ledger
  <2>9. QED
    BY <1>3, <2>7, <2>8 DEF Committable
<1>4. QED
  BY <1>2, <1>3

LEMMA RefundJobRefunds ==
    ASSUME TicketInv, NEW j \in Job, RefundJob(j)
    PROVE  \/ \E u \in User, k \in Key : Wallet!Refund(u, k)
           \/ UNCHANGED Wallet!walletVars
<1> DEFINE u == job[j].user
           k == job[j].key
           cost == Cost[usage[u][k].feature]
           row == [usage[u][k] EXCEPT !.status = "REFUNDED"]
           new == [account[u] EXCEPT !.balance = @ + cost]
<1>1. /\ u \in User /\ k \in Key
      /\ usage[u][k] \in Usage /\ usage[u][k] # NULL
      /\ UNCHANGED grants
  BY DEF RefundJob, TicketInv, TicketTypeOK, Task, JobHasReservation
<1>2. CASE ~Refundable(usage[u][k].status)
  BY <1>1, <1>2, WalletUnchanged DEF RefundJob, ledger
<1>3. CASE Refundable(usage[u][k].status)
  <2>1. /\ row \in Usage /\ row.status = "REFUNDED"
        /\ Cost[row.feature] = cost
        /\ cost \in Nat
    BY <1>1, CostAssumption DEF Usage
  <2>2. account[u] \in Account /\ account[u] # NULL
    BY <1>1, NullAssumption DEF TicketInv, TicketTypeOK, ChargedHasAccount
  <2>3. new \in Account /\ new.balance = Balance(u) + cost
    BY <2>1, <2>2 DEF Account, Balance
  <2>4. /\ account' = [account EXCEPT ![u] = new]
        /\ usage' = [usage EXCEPT ![u] = [usage[u] EXCEPT ![k] = row]]
    BY <1>1, <1>3 DEF RefundJob, TicketInv, TicketTypeOK
  <2>5. Charged[u][k] = [status |-> "RESERVED", amount |-> cost]
    BY <1>1, <1>3 DEF Charged, Refundable
  <2> HIDE DEF u, k, cost, row, new
  <2>6. Charged' = [Charged EXCEPT ![u][k] = [status |-> "REFUNDED", amount |-> cost]]
    BY <1>1, <2>1, <2>4, ChargedAfter DEF TicketInv
  <2>7. Charged' = [Charged EXCEPT ![u][k].status = "REFUNDED"]
    <3>1. [Charged[u][k] EXCEPT !.status = "REFUNDED"] = [status |-> "REFUNDED", amount |-> cost]
      BY <2>5
    <3>2. QED
      BY <2>6, <3>1, Zenon
  <2>8. [v \in User |-> Balance(v)]' = [[v \in User |-> Balance(v)] EXCEPT ![u] = @ + cost]
    <3>1. cost \in Int
      BY <2>1
    <3>2. QED
      BY <1>1, <2>3, <2>4, <3>1, BalanceAfter DEF TicketInv
  <2>9. Wallet!Refund(u, k)
    BY <1>1, <2>5, <2>7, <2>8 DEF Wallet!Refund
  <2>10. QED
    BY <1>1, <2>9
<1>4. QED
  BY <1>2, <1>3

-----------------------------------------------------------------------------
(* The refinement *)

LEMMA WalletInitially == TicketInit => Wallet!WalletInit
BY DEF TicketInit, Wallet!WalletInit, Balance, Charged

LEMMA WalletStep ==
    TicketInv /\ [TicketNext]_ticketVars => [Wallet!WalletNext]_(Wallet!walletVars)
<1> SUFFICES ASSUME TicketInv, [TicketNext]_ticketVars
             PROVE  Wallet!WalletNext \/ UNCHANGED Wallet!walletVars
  OBVIOUS
<1>1. ASSUME NEW u \in User, NEW g \in Grant, Wallet!Credit(u, g)
      PROVE  Wallet!WalletNext
  BY <1>1 DEF Wallet!WalletNext
<1>2. ASSUME NEW u \in User, OpenInsert(u)
      PROVE  Wallet!WalletNext \/ UNCHANGED Wallet!walletVars
  BY <1>1, <1>2, OpenInsertCredits, GrantKinds
<1>3. ASSUME NEW u \in User, ApplyMonthlyGrant(u)
      PROVE  Wallet!WalletNext
  <2>1. Monthly(month) \in Grant
    BY GrantKinds DEF TicketInv, TicketTypeOK
  <2>2. QED
    BY <1>1, <1>3, <2>1, ApplyMonthlyGrantCredits
<1>4. ASSUME NEW t \in Transaction, FulfillInsert(t)
      PROVE  Wallet!WalletNext \/ UNCHANGED Wallet!walletVars
  <2>1. Buyer[t] \in User /\ Purchase(t) \in Grant
    BY GrantKinds, PurchaseAssumption
  <2>2. QED
    BY <1>1, <1>4, <2>1, FulfillInsertCredits
<1>5. ASSUME NEW j \in Job, ReserveInsert(j)
      PROVE  Wallet!WalletNext
  BY <1>5, ReserveInsertReserves DEF Wallet!WalletNext
<1>6. ASSUME NEW j \in Job, Commit(j)
      PROVE  Wallet!WalletNext \/ UNCHANGED Wallet!walletVars
  BY <1>6, CommitSettles DEF Wallet!WalletNext
<1>7. ASSUME NEW j \in Job, RefundJob(j)
      PROVE  Wallet!WalletNext \/ UNCHANGED Wallet!walletVars
  BY <1>7, RefundJobRefunds DEF Wallet!WalletNext
<1>8. ASSUME UNCHANGED ledger
      PROVE  UNCHANGED Wallet!walletVars
  BY <1>8, WalletUnchanged
<1>9. CASE \E u \in User : OpenLookup(u)
  BY <1>8, <1>9 DEF OpenLookup
<1>10. CASE \E t \in Transaction : FulfillLookup(t)
  BY <1>8, <1>10 DEF FulfillLookup
<1>11. CASE \E j \in Job :
               \/ \E u \in User, k \in Key, f \in Feature, direct \in BOOLEAN :
                    ReserveLookup(j, u, k, f, direct)
               \/ ReserveFails(j)
               \/ AiAnswers(j)
  BY <1>8, <1>11 DEF ReserveLookup, ReserveFails, AiAnswers
<1>12. CASE NextMonth \/ Restart
  BY <1>8, <1>12 DEF NextMonth, Restart
<1>13. CASE UNCHANGED ticketVars
  BY <1>8, <1>13 DEF ticketVars, ledger
<1>14. QED
  BY <1>2, <1>3, <1>4, <1>5, <1>6, <1>7, <1>9, <1>10, <1>11, <1>12, <1>13 DEF TicketNext

\* Whatever requests race, whatever arrives twice and wherever the process
\* stops, a user sees a wallet in which every source of tickets is credited
\* once, every key is charged once and never beyond the balance, and every
\* charge is settled or refunded once and for good.
THEOREM WalletImplemented == TicketSpec => ImplementsWallet
BY WalletInitially, WalletStep, TicketInvariant, PTL
   DEF TicketSpec, ImplementsWallet, Wallet!WalletSpec

-----------------------------------------------------------------------------
(* Sums over finite sets.  SumFunctionOnSet folds a recursive function over  *)
(* the subsets of its indices; the lemmas say that this function exists and *)
(* is unique, and what the sum is without it.  They reason by a smallest    *)
(* counterexample.                                                          *)

\* The element a fold takes next
Pick(s) == CHOOSE x \in s : TRUE

\* g is the recursive function the sum of f over A is defined by.
Sums(f, A, g) ==
    g = [s \in SUBSET A |-> IF s = {} THEN 0 ELSE f[Pick(s)] + g[s \ {Pick(s)}]]

LEMMA SumIsChosen ==
    ASSUME NEW f, NEW A
    PROVE  SumFunctionOnSet(f, A) = (CHOOSE g : Sums(f, A, g))[A]
BY DEF SumFunctionOnSet, FoldFunctionOnSet, MapThenFoldSet, Sums, Pick

\* Among subsets of a finite set one is smallest.
LEMMA SmallestSet ==
    ASSUME NEW A, IsFiniteSet(A), NEW B, B \subseteq SUBSET A, B # {}
    PROVE  \E s \in B : \A t \in SUBSET s : t # s => t \notin B
<1> DEFINE R == StrictSubsetOrdering(A)
<1>1. IsWellFoundedOn(R, SUBSET A)
  BY FS_StrictSubsetOrderingWellFounded, FS_FiniteSubsetsOfFinite
<1> HIDE DEF R
<1>2. \E s \in B : \A t \in B : ~ (<<t, s>> \in R)
  BY <1>1, WFMin
<1>3. PICK s \in B : \A t \in B : ~ (<<t, s>> \in R)
  BY <1>2
<1>4. ASSUME NEW t \in SUBSET s, t # s, t \in B PROVE FALSE
  <2>1. <<t, s>> \in R
    BY <1>3, <1>4 DEF R, StrictSubsetOrdering
  <2>2. QED
    BY <1>3, <1>4, <2>1
<1>5. QED
  BY <1>3, <1>4

LEMMA PickIsIn == \A s : s # {} => Pick(s) \in s
BY DEF Pick

\* It does not depend on the set the sum is over.
LEMMA SumsAgree ==
    ASSUME NEW f, NEW A, NEW B, NEW g, NEW h, IsFiniteSet(A),
           Sums(f, A, g), Sums(f, B, h)
    PROVE  \A s \in SUBSET A : s \subseteq B => g[s] = h[s]
<1> DEFINE Bad == {s \in SUBSET A : s \subseteq B /\ g[s] # h[s]}
<1>1. SUFFICES ASSUME Bad # {} PROVE FALSE
  OBVIOUS
<1>2. PICK s \in Bad : \A t \in SUBSET s : t # s => t \notin Bad
  <2>1. Bad \subseteq SUBSET A
    OBVIOUS
  <2> HIDE DEF Bad
  <2>2. QED
    BY <1>1, <2>1, SmallestSet
<1>3. /\ g[s] = IF s = {} THEN 0 ELSE f[Pick(s)] + g[s \ {Pick(s)}]
      /\ h[s] = IF s = {} THEN 0 ELSE f[Pick(s)] + h[s \ {Pick(s)}]
  BY <1>2 DEF Sums
<1>4. s # {}
  BY <1>2, <1>3
<1>5. g[s \ {Pick(s)}] = h[s \ {Pick(s)}]
  BY <1>2, <1>4, PickIsIn
<1>6. QED
  BY <1>2, <1>3, <1>4, <1>5

LEMMA SumsExist ==
    ASSUME NEW f, NEW A, IsFiniteSet(A)
    PROVE  \E g : Sums(f, A, g)
<1> DEFINE Bad == {s \in SUBSET A : ~ \E g : Sums(f, s, g)}
<1>1. SUFFICES ASSUME Bad # {} PROVE FALSE
  OBVIOUS
<1>2. PICK s \in Bad : \A t \in SUBSET s : t # s => t \notin Bad
  <2>1. Bad \subseteq SUBSET A
    OBVIOUS
  <2> HIDE DEF Bad
  <2>2. QED
    BY <1>1, <2>1, SmallestSet
<1> DEFINE G(t) == CHOOSE g : Sums(f, t, g)
           rest == s \ {Pick(s)}
           h == [t \in SUBSET s |->
                   IF t # s THEN G(t)[t]
                   ELSE IF s = {} THEN 0 ELSE f[Pick(s)] + G(rest)[rest]]
<1>3. ASSUME NEW t \in SUBSET s, t # s PROVE Sums(f, t, G(t))
  BY <1>2, <1>3
<1>4. ASSUME NEW t \in SUBSET s
      PROVE  h[t] = IF t = {} THEN 0 ELSE f[Pick(t)] + h[t \ {Pick(t)}]
  <2>1. CASE t = s
    BY <2>1, PickIsIn
  <2>2. CASE t # s /\ t = {}
    <3>1. Sums(f, t, G(t)) /\ h[t] = G(t)[t]
      BY <1>3, <2>2
    <3>2. QED
      BY <2>2, <3>1 DEF Sums
  <2>3. CASE t # s /\ t # {}
    <3> DEFINE r == t \ {Pick(t)}
    <3>1. r \in SUBSET s /\ r \in SUBSET t /\ r # s
      BY <2>3, PickIsIn
    <3>2. Sums(f, t, G(t)) /\ Sums(f, r, G(r))
      BY <1>3, <2>3, <3>1
    <3>3. h[t] = G(t)[t] /\ h[r] = G(r)[r]
      BY <2>3, <3>1
    <3>4. IsFiniteSet(r)
      BY <1>2, <3>1, FS_Subset
    <3> HIDE DEF G, h
    <3>5. G(r)[r] = G(t)[r]
      BY <3>1, <3>2, <3>4, SumsAgree
    <3>6. G(t)[t] = f[Pick(t)] + G(t)[r]
      BY <2>3, <3>2 DEF Sums
    <3>7. QED
      BY <2>3, <3>3, <3>5, <3>6
  <2>4. QED
    BY <2>1, <2>2, <2>3
<1>5. Sums(f, s, h)
  <2>1. h = [t \in SUBSET s |-> h[t]]
    OBVIOUS
  <2> HIDE DEF h
  <2>2. QED
    BY <1>4, <2>1 DEF Sums
<1>6. QED
  BY <1>2, <1>5

LEMMA SumUnfolds ==
    ASSUME NEW f, NEW A, IsFiniteSet(A)
    PROVE  SumFunctionOnSet(f, A) =
             IF A = {} THEN 0 ELSE f[Pick(A)] + SumFunctionOnSet(f, A \ {Pick(A)})
<1> DEFINE G(t) == CHOOSE g : Sums(f, t, g)
           r == A \ {Pick(A)}
<1>1. IsFiniteSet(r)
  BY FS_Subset
<1>2. Sums(f, A, G(A)) /\ Sums(f, r, G(r))
  BY <1>1, SumsExist
<1>3. SumFunctionOnSet(f, A) = G(A)[A] /\ SumFunctionOnSet(f, r) = G(r)[r]
  BY SumIsChosen
<1> HIDE DEF G
<1>4. G(A)[A] = IF A = {} THEN 0 ELSE f[Pick(A)] + G(A)[r]
  BY <1>2 DEF Sums
<1>5. G(r)[r] = G(A)[r]
  BY <1>1, <1>2, SumsAgree
<1>6. QED
  BY <1>3, <1>4, <1>5

LEMMA SumIsNat ==
    ASSUME NEW f, NEW A, IsFiniteSet(A), \A x \in A : f[x] \in Nat
    PROVE  SumFunctionOnSet(f, A) \in Nat
<1> DEFINE Bad == {s \in SUBSET A : SumFunctionOnSet(f, s) \notin Nat}
<1>1. SUFFICES ASSUME Bad # {} PROVE FALSE
  OBVIOUS
<1>2. PICK s \in Bad : \A t \in SUBSET s : t # s => t \notin Bad
  <2>1. Bad \subseteq SUBSET A
    OBVIOUS
  <2> HIDE DEF Bad
  <2>2. QED
    BY <1>1, <2>1, SmallestSet
<1>3. IsFiniteSet(s)
  BY <1>2, FS_Subset
<1>4. SumFunctionOnSet(f, s) =
        IF s = {} THEN 0 ELSE f[Pick(s)] + SumFunctionOnSet(f, s \ {Pick(s)})
  BY <1>3, SumUnfolds
<1>5. s # {}
  BY <1>2, <1>4
<1>6. f[Pick(s)] \in Nat /\ SumFunctionOnSet(f, s \ {Pick(s)}) \in Nat
  BY <1>2, <1>5, PickIsIn
<1>7. QED
  BY <1>2, <1>4, <1>5, <1>6

\* The order in which elements are taken does not matter.
LEMMA SumAdds ==
    ASSUME NEW f, NEW A, IsFiniteSet(A), NEW y, y \notin A,
           \A x \in A \cup {y} : f[x] \in Nat
    PROVE  SumFunctionOnSet(f, A \cup {y}) = SumFunctionOnSet(f, A) + f[y]
<1> DEFINE U == A \cup {y}
           Fits(s) == \A x \in U \ s :
             SumFunctionOnSet(f, s \cup {x}) = SumFunctionOnSet(f, s) + f[x]
           Bad == {s \in SUBSET U : ~Fits(s)}
<1>1. SUFFICES ASSUME Bad # {} PROVE FALSE
  OBVIOUS
<1>2. IsFiniteSet(U)
  BY FS_AddElement
<1>3. PICK s \in Bad : \A t \in SUBSET s : t # s => t \notin Bad
  <2>1. Bad \subseteq SUBSET U
    OBVIOUS
  <2> HIDE DEF Bad
  <2>2. QED
    BY <1>1, <1>2, <2>1, SmallestSet
<1>4. PICK x \in U \ s :
         SumFunctionOnSet(f, s \cup {x}) # SumFunctionOnSet(f, s) + f[x]
  BY <1>3
<1> DEFINE T == s \cup {x}
           p == Pick(T)
<1>5. p \in T
  BY PickIsIn
<1>6. IsFiniteSet(s) /\ IsFiniteSet(T)
  BY <1>2, <1>3, <1>4, FS_Subset
<1>7. SumFunctionOnSet(f, T) = f[p] + SumFunctionOnSet(f, T \ {p})
  BY <1>6, SumUnfolds
<1> HIDE DEF p
<1>8. CASE p = x
  <2>1. T \ {p} = s
    BY <1>4, <1>8
  <2>2. SumFunctionOnSet(f, s) \in Nat /\ f[x] \in Nat
    BY <1>3, <1>4, <1>6, SumIsNat
  <2>3. QED
    BY <1>4, <1>7, <1>8, <2>1, <2>2
<1>9. CASE p # x
  <2> DEFINE r == s \ {p}
  <2>1. p \in s /\ r \in SUBSET s /\ r # s /\ r \in SUBSET U
    BY <1>3, <1>5, <1>9
  <2>2. Fits(r)
    BY <1>3, <2>1
  <2>3. x \in U \ r /\ p \in U \ r
    BY <1>3, <1>4, <2>1
  <2>4. T \ {p} = r \cup {x} /\ s = r \cup {p}
    BY <1>9, <2>1
  <2>5. SumFunctionOnSet(f, T \ {p}) = SumFunctionOnSet(f, r) + f[x]
    BY <2>2, <2>3, <2>4
  <2>6. SumFunctionOnSet(f, s) = SumFunctionOnSet(f, r) + f[p]
    BY <2>2, <2>3, <2>4
  <2>7. SumFunctionOnSet(f, r) \in Nat /\ f[x] \in Nat /\ f[p] \in Nat
    <3>1. IsFiniteSet(r)
      BY <1>6, FS_Subset
    <3>2. \A z \in r : f[z] \in Nat
      BY <2>1
    <3>3. QED
      BY <2>3, <3>1, <3>2, SumIsNat
  <2>8. QED
    BY <1>4, <1>7, <2>5, <2>6, <2>7
<1>10. QED
  BY <1>8, <1>9

\* Only the values on the set matter.
LEMMA SumDepends ==
    ASSUME NEW f, NEW g, NEW A, IsFiniteSet(A), \A x \in A : f[x] = g[x]
    PROVE  SumFunctionOnSet(f, A) = SumFunctionOnSet(g, A)
<1> DEFINE Bad == {s \in SUBSET A : SumFunctionOnSet(f, s) # SumFunctionOnSet(g, s)}
<1>1. SUFFICES ASSUME Bad # {} PROVE FALSE
  OBVIOUS
<1>2. PICK s \in Bad : \A t \in SUBSET s : t # s => t \notin Bad
  <2>1. Bad \subseteq SUBSET A
    OBVIOUS
  <2> HIDE DEF Bad
  <2>2. QED
    BY <1>1, <2>1, SmallestSet
<1>3. IsFiniteSet(s)
  BY <1>2, FS_Subset
<1>4. /\ SumFunctionOnSet(f, s) =
           IF s = {} THEN 0 ELSE f[Pick(s)] + SumFunctionOnSet(f, s \ {Pick(s)})
      /\ SumFunctionOnSet(g, s) =
           IF s = {} THEN 0 ELSE g[Pick(s)] + SumFunctionOnSet(g, s \ {Pick(s)})
  BY <1>3, SumUnfolds
<1>5. s # {}
  BY <1>2, <1>4
<1>6. /\ f[Pick(s)] = g[Pick(s)]
      /\ SumFunctionOnSet(f, s \ {Pick(s)}) = SumFunctionOnSet(g, s \ {Pick(s)})
  BY <1>2, <1>5, PickIsIn
<1>7. QED
  BY <1>2, <1>4, <1>5, <1>6

-----------------------------------------------------------------------------
(* The balance is the sum of the ledger *)

\* The keys that count against a balance, given what the wallet shows of them.
Due(c) == {k \in Key : c[k].status \in {"RESERVED", "COMMITTED"}}

\* A balance, the grants in its ledger and the charges to it fit together.
AddsUp(b, g, c) ==
    /\ g \subseteq Grant /\ IsFiniteSet(g)
    /\ IsFiniteSet(Due(c))
    /\ \A k \in Due(c) : c[k].amount \in Nat
    /\ b = SumFunctionOnSet([x \in Grant |-> Tickets(x)], g)
             - SumFunctionOnSet([k \in Key |-> c[k].amount], Due(c))

LEMMA TicketsAreNat == \A g \in Grant : Tickets(g) \in Nat
<1>1. SUFFICES ASSUME NEW g \in Grant PROVE Tickets(g) \in Nat
  OBVIOUS
<1>2. CASE g \in {"signup"} \X {0}
  BY <1>2, GrantAssumption DEF Tickets
<1>3. CASE g \in {"monthly"} \X Month
  BY <1>3, GrantAssumption DEF Tickets
<1>4. CASE g \in {"purchase"} \X Transaction
  BY <1>4, PurchaseAssumption DEF Tickets
<1>5. QED
  BY <1>2, <1>3, <1>4 DEF Grant

LEMMA SumsAreNat ==
    ASSUME NEW b, NEW g, NEW c, AddsUp(b, g, c)
    PROVE  /\ SumFunctionOnSet([x \in Grant |-> Tickets(x)], g) \in Nat
           /\ SumFunctionOnSet([k \in Key |-> c[k].amount], Due(c)) \in Nat
<1>1. SumFunctionOnSet([x \in Grant |-> Tickets(x)], g) \in Nat
  <2> DEFINE f == [x \in Grant |-> Tickets(x)]
  <2>1. IsFiniteSet(g) /\ \A x \in g : f[x] \in Nat
    BY TicketsAreNat DEF AddsUp
  <2> HIDE DEF f
  <2>2. SumFunctionOnSet(f, g) \in Nat
    BY <2>1, SumIsNat
  <2>3. QED
    BY <2>2 DEF f
<1>2. SumFunctionOnSet([k \in Key |-> c[k].amount], Due(c)) \in Nat
  <2> DEFINE f == [k \in Key |-> c[k].amount]
  <2>1. IsFiniteSet(Due(c)) /\ \A k \in Due(c) : f[k] \in Nat
    BY DEF AddsUp, Due
  <2> HIDE DEF f
  <2>2. SumFunctionOnSet(f, Due(c)) \in Nat
    BY <2>1, SumIsNat
  <2>3. QED
    BY <2>2 DEF f
<1>3. QED
  BY <1>1, <1>2

LEMMA CreditAddsUp ==
    ASSUME NEW b \in Int, NEW g, NEW c, AddsUp(b, g, c), NEW x \in Grant, x \notin g
    PROVE  AddsUp(b + Tickets(x), g \cup {x}, c)
<1> DEFINE f == [y \in Grant |-> Tickets(y)]
           d == SumFunctionOnSet([k \in Key |-> c[k].amount], Due(c))
           s == SumFunctionOnSet(f, g)
<1>1. s \in Nat /\ d \in Nat /\ b = s - d
  BY SumsAreNat DEF AddsUp
<1>2. IsFiniteSet(g) /\ g \cup {x} \subseteq Grant /\ IsFiniteSet(g \cup {x})
  BY FS_AddElement DEF AddsUp
<1>3. (\A y \in g \cup {x} : f[y] \in Nat) /\ f[x] = Tickets(x)
  BY <1>2, TicketsAreNat
<1> HIDE DEF f
<1>4. SumFunctionOnSet(f, g \cup {x}) = s + f[x]
  BY <1>2, <1>3, SumAdds
<1>5. f[x] \in Nat
  BY <1>3
<1> HIDE DEF s, d
<1>6. b + Tickets(x) = SumFunctionOnSet(f, g \cup {x}) - d
  BY <1>1, <1>3, <1>4, <1>5
<1>7. QED
  BY <1>2, <1>6 DEF AddsUp, f, d

\* A key that starts to count, or stops counting, is the only one that does.
LEMMA DueAdds ==
    ASSUME NEW b, NEW g, NEW c, AddsUp(b, g, c), NEW d, NEW k \in Key, k \notin Due(c),
           Due(d) = Due(c) \cup {k}, d[k].amount \in Nat,
           \A l \in Due(c) : d[l].amount = c[l].amount
    PROVE  AddsUp(b - d[k].amount, g, d)
<1> DEFINE f == [l \in Key |-> c[l].amount]
           h == [l \in Key |-> d[l].amount]
           n == SumFunctionOnSet([x \in Grant |-> Tickets(x)], g)
           s == SumFunctionOnSet(f, Due(c))
           t == SumFunctionOnSet(h, Due(d))
<1>1. n \in Nat /\ s \in Nat /\ b = n - s
  BY SumsAreNat DEF AddsUp
<1>2. IsFiniteSet(Due(c)) /\ IsFiniteSet(Due(d)) /\ \A l \in Due(d) : d[l].amount \in Nat
  BY FS_AddElement DEF AddsUp
<1>3. /\ \A l \in Due(c) : f[l] = h[l]
      /\ \A l \in Due(c) \cup {k} : h[l] \in Nat
      /\ h[k] = d[k].amount
  BY <1>2 DEF Due
<1> HIDE DEF f, h
<1>4. SumFunctionOnSet(h, Due(c) \cup {k}) = SumFunctionOnSet(h, Due(c)) + h[k]
  BY <1>2, <1>3, SumAdds
<1>5. SumFunctionOnSet(h, Due(c)) = s
  BY <1>2, <1>3, SumDepends
<1>6. t = s + h[k]
  BY <1>4, <1>5
<1> HIDE DEF n, s, t
<1>7. b - d[k].amount = n - t
  <2> DEFINE a == d[k].amount
  <2>1. a \in Nat /\ t = s + a
    BY <1>3, <1>6
  <2> HIDE DEF a
  <2>2. b - a = n - t
    BY <1>1, <2>1
  <2>3. QED
    BY <2>2 DEF a
<1>8. QED
  BY <1>2, <1>7 DEF AddsUp, n, t, h

LEMMA DueDrops ==
    ASSUME NEW b, NEW g, NEW c, AddsUp(b, g, c), NEW d, NEW k \in Due(c),
           Due(d) = Due(c) \ {k}, \A l \in Due(d) : d[l].amount = c[l].amount
    PROVE  AddsUp(b + c[k].amount, g, d)
<1> DEFINE f == [l \in Key |-> c[l].amount]
           h == [l \in Key |-> d[l].amount]
           n == SumFunctionOnSet([x \in Grant |-> Tickets(x)], g)
           s == SumFunctionOnSet(f, Due(c))
           t == SumFunctionOnSet(h, Due(d))
<1>1. n \in Nat /\ s \in Nat /\ b = n - s
  BY SumsAreNat DEF AddsUp
<1>2. IsFiniteSet(Due(c)) /\ IsFiniteSet(Due(d)) /\ \A l \in Due(d) : d[l].amount \in Nat
  BY FS_Subset DEF AddsUp
<1>3. /\ \A l \in Due(d) : f[l] = h[l]
      /\ \A l \in Due(d) \cup {k} : f[l] \in Nat
      /\ f[k] = c[k].amount
      /\ Due(c) = Due(d) \cup {k} /\ k \notin Due(d)
  BY <1>2 DEF Due, AddsUp
<1>3a. \A l \in Due(d) : h[l] \in Nat
  BY <1>2 DEF Due
<1> HIDE DEF f, h
<1>4. SumFunctionOnSet(f, Due(d) \cup {k}) = SumFunctionOnSet(f, Due(d)) + f[k]
  BY <1>2, <1>3, SumAdds
<1>5. SumFunctionOnSet(f, Due(d)) = t
  BY <1>2, <1>3, SumDepends
<1>6. s = t + f[k]
  BY <1>3, <1>4, <1>5
<1>6a. t \in Nat
  BY <1>2, <1>3a, SumIsNat
<1> HIDE DEF n, s, t
<1>7. b + c[k].amount = n - t
  <2> DEFINE a == c[k].amount
  <2>1. a \in Nat /\ s = t + a
    BY <1>3, <1>6
  <2> HIDE DEF a
  <2>2. b + a = n - t
    BY <1>1, <1>6a, <2>1
  <2>3. QED
    BY <2>2 DEF a
<1>8. QED
  BY <1>2, <1>7 DEF AddsUp, n, t, h

LEMMA DueKeeps ==
    ASSUME NEW b, NEW g, NEW c, AddsUp(b, g, c), NEW d,
           Due(d) = Due(c), \A l \in Due(d) : d[l].amount = c[l].amount
    PROVE  AddsUp(b, g, d)
<1> DEFINE f == [l \in Key |-> c[l].amount]
           h == [l \in Key |-> d[l].amount]
<1>1. IsFiniteSet(Due(c)) /\ \A l \in Due(c) : f[l] = h[l]
  BY DEF AddsUp, Due
<1> HIDE DEF f, h
<1>2. SumFunctionOnSet(f, Due(c)) = SumFunctionOnSet(h, Due(c))
  BY <1>1, SumDepends
<1>3. QED
  BY <1>2 DEF AddsUp, f, h

-----------------------------------------------------------------------------
\* The inductive invariant: every balance adds up, in the terms of the wallet.
AccountsAddUp == \A u \in User : AddsUp(Balance(u), grants[u], Charged[u])

LEMMA NoTicketsAtFirst == TicketInit => AccountsAddUp
<1> SUFFICES ASSUME TicketInit, NEW u \in User PROVE AddsUp(Balance(u), grants[u], Charged[u])
  BY DEF AccountsAddUp
<1>1. Balance(u) = 0 /\ grants[u] = {} /\ Due(Charged[u]) = {}
  BY DEF TicketInit, Balance, Charged, Due
<1>2. \A f : SumFunctionOnSet(f, {}) = 0
  BY SumUnfolds, FS_EmptySet
<1>3. IsFiniteSet({})
  BY FS_EmptySet
<1>4. QED
  BY <1>1, <1>2, <1>3 DEF AddsUp

LEMMA BalancesAreInt ==
    TicketTypeOK => \A u \in User : Balance(u) \in Int
BY DEF TicketTypeOK, Balance, Account

LEMMA WalletKeepsSums ==
    ASSUME TicketTypeOK, AccountsAddUp, Wallet!WalletNext
    PROVE  AccountsAddUp'
<1> DEFINE Goal(v) == AddsUp(Balance(v)', grants'[v], Charged'[v])
<1>1. PICK u \in User :
        \/ \E s \in Grant : Wallet!Credit(u, s)
        \/ \E k \in Key :
            \/ \E price \in {Cost[f] : f \in Feature} : Wallet!Reserve(u, k, price)
            \/ Wallet!Settle(u, k)
            \/ Wallet!Refund(u, k)
  BY DEF Wallet!WalletNext
<1> DEFINE bal == [v \in User |-> Balance(v)]
           S == {Charged[v][l] : v \in User, l \in Key}
<1>2. /\ \A v \in User : bal[v] = Balance(v) /\ bal'[v] = Balance(v)'
      /\ bal \in [User -> Int] /\ DOMAIN bal' = User
  BY BalancesAreInt
<1>3. Charged \in [User -> [Key -> S]] /\ grants \in [User -> SUBSET Grant]
  BY DEF Charged, TicketTypeOK
<1>4. \A v \in User : AddsUp(Balance(v), grants[v], Charged[v])
  BY DEF AccountsAddUp
<1>5. Balance(u) \in Int
  BY BalancesAreInt
<1>6. SUFFICES \A v \in User : Goal(v)
  BY DEF AccountsAddUp
<1> HIDE DEF S
<1>7. ASSUME NEW x \in Grant, Wallet!Credit(u, x) PROVE \A v \in User : Goal(v)
  <2>1. /\ x \notin grants[u]
        /\ grants' = [grants EXCEPT ![u] = @ \cup {x}]
        /\ bal' = [bal EXCEPT ![u] = @ + Tickets(x)]
        /\ Charged' = Charged
    BY <1>7 DEF Wallet!Credit
  <2> HIDE DEF bal
  <2>2. AddsUp(Balance(u) + Tickets(x), grants[u] \cup {x}, Charged[u])
    BY <1>4, <1>5, <2>1, CreditAddsUp
  <2>3. Goal(u)
    BY <1>2, <1>3, <2>1, <2>2
  <2>4. ASSUME NEW v \in User, v # u PROVE Goal(v)
    BY <1>2, <1>3, <1>4, <2>1, <2>4
  <2>5. QED
    BY <2>3, <2>4
<1>8. ASSUME NEW k \in Key, NEW price \in {Cost[f] : f \in Feature}, Wallet!Reserve(u, k, price)
      PROVE  \A v \in User : Goal(v)
  <2> DEFINE row == [status |-> "RESERVED", amount |-> price]
  <2>1. /\ Charged[u][k].status = "NONE"
        /\ Charged' = [Charged EXCEPT ![u] = [Charged[u] EXCEPT ![k] = row]]
        /\ bal' = [bal EXCEPT ![u] = @ - price]
        /\ grants' = grants
    BY <1>3, <1>8 DEF Wallet!Reserve
  <2>2. price \in Nat
    BY CostAssumption
  <2> HIDE DEF bal
  <2> DEFINE c == Charged[u]
             d == [Charged[u] EXCEPT ![k] = row]
  <2>3. \A l \in Key : d[l] = IF l = k THEN row ELSE c[l]
    BY <1>3
  <2>4. row.status = "RESERVED" /\ row.amount = price
    OBVIOUS
  <2> HIDE DEF row, d
  <2>5. k \notin Due(c) /\ Due(d) = Due(c) \cup {k}
    BY <2>1, <2>3, <2>4 DEF Due
  <2>6. d[k].amount = price /\ \A l \in Due(c) : d[l].amount = c[l].amount
    BY <2>3, <2>4, <2>5 DEF Due
  <2> HIDE DEF c
  <2>7. AddsUp(Balance(u), grants[u], c)
    BY <1>4 DEF c
  <2>8. AddsUp(Balance(u) - price, grants[u], d)
    BY <2>2, <2>5, <2>6, <2>7, DueAdds
  <2>9. Charged'[u] = d /\ Balance(u)' = Balance(u) - price
    BY <1>2, <1>3, <2>1 DEF d
  <2>10. Goal(u)
    BY <2>1, <2>8, <2>9
  <2>11. ASSUME NEW v \in User, v # u PROVE Goal(v)
    BY <1>2, <1>3, <1>4, <2>1, <2>11
  <2>12. QED
    BY <2>10, <2>11
<1>9. ASSUME NEW k \in Key, Wallet!Settle(u, k) PROVE \A v \in User : Goal(v)
  <2> DEFINE row == [Charged[u][k] EXCEPT !.status = "COMMITTED"]
  <2>1. /\ Charged[u][k].status = "RESERVED"
        /\ Charged' = [Charged EXCEPT ![u] = [Charged[u] EXCEPT ![k] = row]]
        /\ bal' = bal
        /\ grants' = grants
    BY <1>3, <1>9 DEF Wallet!Settle
  <2> HIDE DEF bal
  <2> DEFINE c == Charged[u]
             d == [Charged[u] EXCEPT ![k] = row]
  <2>3. \A l \in Key : d[l] = IF l = k THEN row ELSE c[l]
    BY <1>3
  <2>4. row.status = "COMMITTED" /\ row.amount = c[k].amount
    BY DEF Charged
  <2> HIDE DEF row, d
  <2>5. Due(d) = Due(c)
    BY <2>1, <2>3, <2>4 DEF Due
  <2>6. \A l \in Due(d) : d[l].amount = c[l].amount
    BY <2>3, <2>4 DEF Due
  <2> HIDE DEF c
  <2>7. AddsUp(Balance(u), grants[u], c)
    BY <1>4 DEF c
  <2>8. AddsUp(Balance(u), grants[u], d)
    BY <2>5, <2>6, <2>7, DueKeeps
  <2>9. Charged'[u] = d /\ Balance(u)' = Balance(u)
    BY <1>2, <1>3, <2>1 DEF d
  <2>10. Goal(u)
    BY <2>1, <2>8, <2>9
  <2>11. ASSUME NEW v \in User, v # u PROVE Goal(v)
    BY <1>2, <1>3, <1>4, <2>1, <2>11
  <2>12. QED
    BY <2>10, <2>11
<1>10. ASSUME NEW k \in Key, Wallet!Refund(u, k) PROVE \A v \in User : Goal(v)
  <2> DEFINE row == [Charged[u][k] EXCEPT !.status = "REFUNDED"]
  <2>1. /\ Charged[u][k].status = "RESERVED"
        /\ Charged' = [Charged EXCEPT ![u] = [Charged[u] EXCEPT ![k] = row]]
        /\ bal' = [bal EXCEPT ![u] = @ + Charged[u][k].amount]
        /\ grants' = grants
    BY <1>3, <1>10 DEF Wallet!Refund
  <2> HIDE DEF bal
  <2> DEFINE c == Charged[u]
             d == [Charged[u] EXCEPT ![k] = row]
  <2>3. \A l \in Key : d[l] = IF l = k THEN row ELSE c[l]
    BY <1>3
  <2>4. row.status = "REFUNDED"
    BY DEF Charged
  <2> HIDE DEF row, d
  <2>5. k \in Due(c) /\ Due(d) = Due(c) \ {k}
    BY <2>1, <2>3, <2>4 DEF Due
  <2>6. \A l \in Due(d) : d[l].amount = c[l].amount
    BY <2>3, <2>5 DEF Due
  <2>6a. bal' = [bal EXCEPT ![u] = @ + c[k].amount]
    BY <2>1
  <2> HIDE DEF c
  <2>7. AddsUp(Balance(u), grants[u], c)
    BY <1>4 DEF c
  <2>8. AddsUp(Balance(u) + c[k].amount, grants[u], d)
    BY <2>5, <2>6, <2>7, DueDrops
  <2>9. Charged'[u] = d /\ Balance(u)' = Balance(u) + c[k].amount
    BY <1>2, <1>3, <2>1, <2>6a DEF d
  <2>10. Goal(u)
    BY <2>1, <2>8, <2>9
  <2>11. ASSUME NEW v \in User, v # u PROVE Goal(v)
    BY <1>2, <1>3, <1>4, <2>1, <2>11
  <2>12. QED
    BY <2>10, <2>11
<1>11. QED
  BY <1>1, <1>7, <1>8, <1>9, <1>10

LEMMA AccountsAddUpStep ==
    TicketInv /\ AccountsAddUp /\ [TicketNext]_ticketVars => AccountsAddUp'
<1> SUFFICES ASSUME TicketInv, AccountsAddUp, [TicketNext]_ticketVars PROVE AccountsAddUp'
  OBVIOUS
<1>1. Wallet!WalletNext \/ UNCHANGED Wallet!walletVars
  BY WalletStep
<1>2. CASE Wallet!WalletNext
  BY <1>2, WalletKeepsSums DEF TicketInv
<1>3. CASE UNCHANGED Wallet!walletVars
  <2> DEFINE bal == [v \in User |-> Balance(v)]
  <2>1. bal' = bal /\ grants' = grants /\ Charged' = Charged
    BY <1>3 DEF Wallet!walletVars
  <2>2. \A v \in User : bal[v] = Balance(v) /\ bal'[v] = Balance(v)'
    OBVIOUS
  <2> HIDE DEF bal
  <2>3. QED
    BY <2>1, <2>2 DEF AccountsAddUp
<1>4. QED
  BY <1>1, <1>2, <1>3

\* What the wallet adds up is what the rows of the ledger add up to.
LEMMA LedgerAddsUp == TicketInv /\ AccountsAddUp => BalanceIsLedger
<1> SUFFICES ASSUME TicketInv, AccountsAddUp, NEW u \in User
             PROVE  Balance(u) = Credits(u) - Debits(u)
  BY DEF BalanceIsLedger
<1> DEFINE c == Charged[u]
           f == [x \in Grant |-> Tickets(x)]
           g == [x \in grants[u] |-> Tickets(x)]
           h == [k \in Key |-> c[k].amount]
           i == [k \in Spent(u) |-> Cost[usage[u][k].feature]]
<1>1. AddsUp(Balance(u), grants[u], c)
  BY DEF AccountsAddUp
<1>2. /\ IsFiniteSet(grants[u]) /\ grants[u] \subseteq Grant /\ IsFiniteSet(Due(c))
      /\ Balance(u) = SumFunctionOnSet(f, grants[u]) - SumFunctionOnSet(h, Due(c))
  BY <1>1 DEF AddsUp
<1>3. Due(c) = Spent(u)
  BY DEF Due, Spent, Charged, TicketInv, TicketTypeOK, Usage
<1>4. Credits(u) = SumFunctionOnSet(g, grants[u]) /\ Debits(u) = SumFunctionOnSet(i, Spent(u))
  BY DEF Credits, Debits, SumFunction
<1>5. (\A x \in grants[u] : f[x] = g[x]) /\ (\A k \in Spent(u) : h[k] = i[k])
  BY <1>2 DEF Charged, Spent
<1> HIDE DEF c, f, g, h, i
<1>6. SumFunctionOnSet(f, grants[u]) = SumFunctionOnSet(g, grants[u])
  BY <1>2, <1>5, SumDepends
<1>7. SumFunctionOnSet(h, Spent(u)) = SumFunctionOnSet(i, Spent(u))
  BY <1>2, <1>3, <1>5, SumDepends
<1>8. QED
  BY <1>2, <1>3, <1>4, <1>6, <1>7

\* Whatever requests race, whatever arrives twice and wherever the process
\* stops, the balance of every account is the sum of the rows of its ledger.
THEOREM LedgerBalances == TicketSpec => []BalanceIsLedger
BY TicketInvariant, NoTicketsAtFirst, AccountsAddUpStep, LedgerAddsUp, PTL DEF TicketSpec
=============================================================================
