------------------------------ MODULE Tickets ------------------------------
(***************************************************************************)
(* Ticket accounts, their ledger and the AI jobs that are paid with them:  *)
(* services/api/src/tickets, tickets/purchases and ai/ai-jobs.service.ts.  *)
(*                                                                         *)
(* Atomicity.  The transactions run at READ COMMITTED.  Opening an account,*)
(* reserving and fulfilling a purchase look for an existing row WITHOUT a  *)
(* lock and write later, so the look-up and the write are two steps; what  *)
(* makes the write safe is the unique index on (user, idempotency key) of  *)
(* the ledger, whose violation rolls the transaction back.  The monthly    *)
(* grant, the commit and the refund lock the row they decide on first and  *)
(* are one step.  Between the steps of an AI job anything may happen, a    *)
(* restart of the single API process included.                             *)
(***************************************************************************)
EXTENDS Integers, FiniteSets, FiniteSetsExt

CONSTANTS
    User,
    Key,            \* idempotency keys a client sends
    Feature,
    Cost,           \* AI_FEATURE_COSTS
    Transaction,    \* store transactions a verifier accepts
    Buyer,          \* [Transaction -> User]: a purchase is bound to an account
    Pack,           \* [Transaction -> Nat]: tickets of the product
    SignupGrant,
    MonthlyGrant,
    Job,            \* slots for AI requests and reservations under way
    NULL,
    MaxParallel,    \* bound on equal requests between look-up and write
    MaxMonth,       \* bound on the calendar
    MaxRestart      \* bound on restarts of the process

ASSUME CostAssumption == Cost \in [Feature -> Nat \ {0}]
ASSUME PurchaseAssumption ==
    /\ Buyer \in [Transaction -> User]
    /\ Pack \in [Transaction -> Nat \ {0}]
ASSUME GrantAssumption == SignupGrant \in Nat /\ MonthlyGrant \in Nat
ASSUME TicketBoundAssumption ==
    /\ MaxParallel \in Nat
    /\ MaxMonth \in Nat
    /\ MaxRestart \in Nat

Month == 0..MaxMonth

\* Ledger rows that add tickets, by what their idempotency key is made of.
Grant == ({"signup"} \X {0}) \cup ({"monthly"} \X Month) \cup ({"purchase"} \X Transaction)

Signup == <<"signup", 0>>
Monthly(n) == <<"monthly", n>>
Purchase(t) == <<"purchase", t>>

Tickets(g) ==
    CASE g[1] = "signup" -> SignupGrant
      [] g[1] = "monthly" -> MonthlyGrant
      [] g[1] = "purchase" -> Pack[g[2]]

\* A ledger row of kind AI_USAGE; its amount is the cost of its feature.
Usage == [feature : Feature, status : {"RESERVED", "COMMITTED", "REFUNDED"}]

Account == [balance : Nat, lastMonth : Month]

\* A request that names a key: direct is POST tickets/ai/reservations, which
\* stops after the reservation; any other is POST ai/jobs.
Task == [user : User, key : Key, feature : Feature, direct : BOOLEAN,
         stage : {"reserving", "calling", "succeeded", "failed"}]

ASSUME NullAssumption == NULL \notin Account /\ NULL \notin Usage /\ NULL \notin Task

VARIABLES
    account,    \* ticket_accounts
    grants,     \* ticket_ledger rows that add tickets (and ticket_purchases)
    usage,      \* ticket_ledger rows of AI usage, by user and key
    opening,    \* openAccount calls past their look-up
    fulfilling, \* fulfill calls past their look-up
    job,        \* AI requests under way
    month,      \* the calendar
    restarts,   \* restarts so far
    delivered,  \* (user, key) whose job returned a result
    refundTold  \* (user, key) whose job answered ticketsRefunded: true

ledger == <<account, grants, usage>>
told == <<delivered, refundTold>>
ticketVars == <<account, grants, usage, opening, fulfilling, job, month,
                restarts, delivered, refundTold>>

NewJobs == [j \in Job |-> NULL]

TicketInit ==
    /\ account = [u \in User |-> NULL]
    /\ grants = [u \in User |-> {}]
    /\ usage = [u \in User |-> [k \in Key |-> NULL]]
    /\ opening = [u \in User |-> 0]
    /\ fulfilling = [t \in Transaction |-> 0]
    /\ job = NewJobs
    /\ month = 0
    /\ restarts = 0
    /\ delivered = {}
    /\ refundTold = {}

-----------------------------------------------------------------------------
(* Opening an account and the monthly grant *)

OpenLookup(u) ==
    /\ account[u] = NULL
    /\ opening[u] < MaxParallel
    /\ opening' = [opening EXCEPT ![u] = @ + 1]
    /\ UNCHANGED <<ledger, fulfilling, job, month, restarts, told>>

\* Mutant of HasGrant: the ledger has no unique index.
NoUniqueIndex(u, g) == FALSE

\* The unique index on (user_id, idempotency_key), for rows that add tickets
HasGrant(u, g) == g \in grants[u]

\* The rows openAccount saves; an account another call saved in between makes
\* the signup row a duplicate and the whole transaction is rolled back.
OpenInsert(u) ==
    /\ opening[u] > 0
    /\ opening' = [opening EXCEPT ![u] = @ - 1]
    /\ IF HasGrant(u, Signup)
       THEN UNCHANGED <<account, grants>>
       ELSE /\ account' = [account EXCEPT ![u] =
                              [balance |-> SignupGrant, lastMonth |-> month]]
            /\ grants' = [grants EXCEPT ![u] = @ \cup {Signup}]
    /\ UNCHANGED <<usage, fulfilling, job, month, restarts, told>>

\* applyMonthlyGrantIfDue, which every read of the balance starts with
ApplyMonthlyGrant(u) ==
    /\ account[u] # NULL
    /\ account[u].lastMonth < month
    /\ ~HasGrant(u, Monthly(month))
    /\ account' = [account EXCEPT ![u] =
                      [balance |-> @.balance + MonthlyGrant, lastMonth |-> month]]
    /\ grants' = [grants EXCEPT ![u] = @ \cup {Monthly(month)}]
    /\ UNCHANGED <<usage, opening, fulfilling, job, month, restarts, told>>

-----------------------------------------------------------------------------
(* Purchases *)

\* fulfill: verified by the store, then looked up without a lock
FulfillLookup(t) ==
    /\ ~HasGrant(Buyer[t], Purchase(t))
    /\ fulfilling[t] < MaxParallel
    /\ fulfilling' = [fulfilling EXCEPT ![t] = @ + 1]
    /\ UNCHANGED <<ledger, opening, job, month, restarts, told>>

\* The account is locked and credited, then the ledger and the purchase row
\* are inserted; a duplicate rolls back and answers "already-fulfilled".
FulfillInsert(t) ==
    LET u == Buyer[t] IN
    /\ fulfilling[t] > 0
    /\ fulfilling' = [fulfilling EXCEPT ![t] = @ - 1]
    /\ IF account[u] = NULL \/ HasGrant(u, Purchase(t))
       THEN UNCHANGED <<account, grants>>
       ELSE /\ account' = [account EXCEPT ![u].balance = @ + Pack[t]]
            /\ grants' = [grants EXCEPT ![u] = @ \cup {Purchase(t)}]
    /\ UNCHANGED <<usage, opening, job, month, restarts, told>>

-----------------------------------------------------------------------------
(* Reservations and AI jobs *)

\* The unlocked look-up of reserveAiUsage.  A row of another feature is a
\* conflict; a row of this one is returned whatever its status is.
ReserveLookup(j, u, k, f, direct) ==
    /\ job[j] = NULL
    /\ usage[u][k] # NULL => usage[u][k].feature = f /\ ~direct
    /\ job' = [job EXCEPT ![j] =
            [user |-> u, key |-> k, feature |-> f, direct |-> direct,
             stage |-> IF usage[u][k] = NULL THEN "reserving" ELSE "calling"]]
    /\ UNCHANGED <<ledger, opening, fulfilling, month, restarts, told>>

\* Mutant of Affords: off by one at the boundary.
AffordsAlmost(balance, f) == balance + 1 >= Cost[f]

\* INSUFFICIENT_TICKETS otherwise
Affords(balance, f) == balance >= Cost[f]

CanReserve(u, k, f) ==
    /\ account[u] # NULL
    /\ Affords(account[u].balance, f)
    /\ usage[u][k] = NULL

\* The rest of reserveAiUsage: the account is locked, charged, and the row is
\* inserted.
ReserveInsert(j) ==
    LET task == job[j]
        u == task.user
        cost == Cost[task.feature] IN
    /\ task # NULL
    /\ task.stage = "reserving"
    /\ CanReserve(u, task.key, task.feature)
    /\ account' = [account EXCEPT ![u].balance = @ - cost]
    /\ usage' = [usage EXCEPT ![u][task.key] =
                    [feature |-> task.feature, status |-> "RESERVED"]]
    /\ job' = [job EXCEPT ![j] =
                  IF task.direct THEN NULL ELSE [task EXCEPT !.stage = "calling"]]
    /\ UNCHANGED <<grants, opening, fulfilling, month, restarts, told>>

\* No account, INSUFFICIENT_TICKETS, or a row another request inserted: the
\* transaction is rolled back and the request ends.
ReserveFails(j) ==
    LET task == job[j] IN
    /\ task # NULL
    /\ task.stage = "reserving"
    /\ ~CanReserve(task.user, task.key, task.feature)
    /\ job' = [job EXCEPT ![j] = NULL]
    /\ UNCHANGED <<ledger, opening, fulfilling, month, restarts, told>>

\* Mutant of AiAnswers: a failure outside the try block ends the request.
AiFailureEscapes(j) ==
    /\ job[j] # NULL
    /\ job[j].stage = "calling"
    /\ job' \in {[job EXCEPT ![j].stage = "succeeded"], [job EXCEPT ![j] = NULL]}
    /\ UNCHANGED <<ledger, opening, fulfilling, month, restarts, told>>

\* The AI service answers, fails, or the request runs into AI_TIMEOUT_MS.
AiAnswers(j) ==
    /\ job[j] # NULL
    /\ job[j].stage = "calling"
    /\ \E s \in {"succeeded", "failed"} : job' = [job EXCEPT ![j].stage = s]
    /\ UNCHANGED <<ledger, opening, fulfilling, month, restarts, told>>

\* Mutant of Committable: a refunded reservation is committed all the same.
AlwaysCommittable(status) == TRUE

\* changeReservationStatus throws for a row that is finalized otherwise.
Committable(status) == status \in {"RESERVED", "COMMITTED"}

\* commitAiUsage, then the result is returned; a conflict is all the client gets.
Commit(j) ==
    LET task == job[j]
        row == usage[task.user][task.key] IN
    /\ task # NULL
    /\ task.stage = "succeeded"
    /\ IF Committable(row.status)
       THEN /\ usage' = [usage EXCEPT ![task.user][task.key].status = "COMMITTED"]
            /\ delivered' = delivered \cup {<<task.user, task.key>>}
       ELSE UNCHANGED <<usage, delivered>>
    /\ job' = [job EXCEPT ![j] = NULL]
    /\ UNCHANGED <<account, grants, opening, fulfilling, month, restarts, refundTold>>

\* Mutant of Refundable: whatever was charged is given back.
AlwaysRefundable(status) == status # "REFUNDED"

\* refundAiUsage gives a reservation back; a refunded one is returned as it
\* is, and a committed one is a conflict.
Refundable(status) == status = "RESERVED"

RefundJob(j) ==
    LET task == job[j]
        u == task.user
        row == usage[u][task.key] IN
    /\ task # NULL
    /\ task.stage = "failed"
    /\ IF Refundable(row.status)
       THEN /\ usage' = [usage EXCEPT ![u][task.key].status = "REFUNDED"]
            /\ account' = [account EXCEPT ![u].balance = @ + Cost[row.feature]]
       ELSE UNCHANGED <<usage, account>>
    /\ refundTold' = IF row.status = "COMMITTED" /\ ~Refundable(row.status)
                     THEN refundTold ELSE refundTold \cup {<<u, task.key>>}
    /\ job' = [job EXCEPT ![j] = NULL]
    /\ UNCHANGED <<grants, opening, fulfilling, month, restarts, delivered>>

-----------------------------------------------------------------------------
(* The environment *)

NextMonth ==
    /\ month < MaxMonth
    /\ month' = month + 1
    /\ UNCHANGED <<ledger, opening, fulfilling, job, restarts, told>>

\* The process is stopped: open transactions are rolled back, requests are lost.
Restart ==
    /\ restarts < MaxRestart
    /\ restarts' = restarts + 1
    /\ opening' = [u \in User |-> 0]
    /\ fulfilling' = [t \in Transaction |-> 0]
    /\ job' = NewJobs
    /\ UNCHANGED <<ledger, month, told>>

JobStep(j) == AiAnswers(j) \/ Commit(j) \/ RefundJob(j)

TicketNext ==
    \/ \E u \in User : OpenLookup(u) \/ OpenInsert(u) \/ ApplyMonthlyGrant(u)
    \/ \E t \in Transaction : FulfillLookup(t) \/ FulfillInsert(t)
    \/ \E j \in Job :
        \/ \E u \in User, k \in Key, f \in Feature, direct \in BOOLEAN :
             ReserveLookup(j, u, k, f, direct)
        \/ ReserveInsert(j)
        \/ ReserveFails(j)
        \/ AiAnswers(j)
        \/ Commit(j)
        \/ RefundJob(j)
    \/ NextMonth
    \/ Restart

TicketSpec == TicketInit /\ [][TicketNext]_ticketVars

\* An AI call ends by AbortSignal.timeout and what follows runs by itself.
FairTicketSpec == TicketSpec /\ \A j \in Job : WF_ticketVars(JobStep(j))

-----------------------------------------------------------------------------
(* Properties *)

TicketTypeOK ==
    /\ account \in [User -> Account \cup {NULL}]
    /\ grants \in [User -> SUBSET Grant]
    /\ usage \in [User -> [Key -> Usage \cup {NULL}]]
    /\ opening \in [User -> 0..MaxParallel]
    /\ fulfilling \in [Transaction -> 0..MaxParallel]
    /\ job \in [Job -> Task \cup {NULL}]
    /\ month \in Month
    /\ restarts \in 0..MaxRestart
    /\ delivered \in SUBSET (User \X Key)
    /\ refundTold \in SUBSET (User \X Key)

Balance(u) == IF account[u] = NULL THEN 0 ELSE account[u].balance

Spent(u) == {k \in Key : usage[u][k] # NULL /\ usage[u][k].status # "REFUNDED"}

Credits(u) == SumFunction([g \in grants[u] |-> Tickets(g)])

Debits(u) == SumFunction([k \in Spent(u) |-> Cost[usage[u][k].feature]])

\* The balance is what the rows of the ledger add up to, whatever runs in
\* parallel and wherever the process stops.
BalanceIsLedger == \A u \in User : Balance(u) = Credits(u) - Debits(u)

\* A result a client was given is paid for, and stays paid.
ResultIsPaid ==
    \A d \in delivered : usage[d[1]][d[2]].status = "COMMITTED"

\* Whoever was told that the tickets came back has them back for good.
RefundIsTrue ==
    \A d \in refundTold : usage[d[1]][d[2]].status = "REFUNDED"

\* A job that holds a reservation settles it, unless the process stops first:
\* whatever the AI answers, the error path runs as far as the refund.
ReservationSettles ==
    \A j \in Job, u \in User, k \in Key, r \in 0..MaxRestart :
        (/\ restarts = r
         /\ job[j] # NULL /\ job[j].user = u /\ job[j].key = k /\ job[j].stage = "calling")
            ~> (restarts # r \/ (usage[u][k] # NULL /\ usage[u][k].status # "RESERVED"))

-----------------------------------------------------------------------------
(* Tickets implements TicketWallet *)

Charged == [u \in User |-> [k \in Key |->
    IF usage[u][k] = NULL THEN [status |-> "NONE", amount |-> 0]
    ELSE [status |-> usage[u][k].status, amount |-> Cost[usage[u][k].feature]]]]

Wallet == INSTANCE TicketWallet WITH
    Source <- Grant,
    Value <- [g \in Grant |-> Tickets(g)],
    Price <- {Cost[f] : f \in Feature},
    balance <- [u \in User |-> Balance(u)],
    credited <- grants,
    charged <- Charged

\* Parallel requests, duplicates and restarts never show the user more than
\* the wallet allows.
ImplementsWallet == Wallet!WalletSpec
=============================================================================
