\* One user, two keys, two jobs, a purchase, a month and a restart.
SPECIFICATION FairTicketSpec
CONSTANTS
    NULL = NULL
    u1 = u1
    u2 = u2
    k1 = k1
    k2 = k2
    cheap = cheap
    dear = dear
    t1 = t1
    t2 = t2
    j1 = j1
    j2 = j2
    User = {u1}
    Key = {k1, k2}
    Feature = {dear}
    Cost <- MCCost
    Transaction = {t1}
    Buyer <- OneBuyer
    Pack <- MCPack
    SignupGrant = 3
    MonthlyGrant = 1
    Job = {j1, j2}
    MaxParallel = 2
    MaxMonth = 1
    MaxRestart = 1
INVARIANTS
    TicketTypeOK
    BalanceIsLedger
    ResultIsPaid
    RefundIsTrue
PROPERTIES
    ImplementsWallet
    ReservationSettles
CHECK_DEADLOCK FALSE
