---------------------------- MODULE TicketWallet ----------------------------
(***************************************************************************)
(* What the ticket ledger promises its users, without handlers, rows or    *)
(* processes: a source of tickets is credited once, a key is charged once  *)
(* and only what the balance covers, and a charge is settled or refunded,  *)
(* once and for good.                                                      *)
(***************************************************************************)
EXTENDS Integers

CONSTANTS
    User,
    Source,     \* what tickets come from: the signup, a month, a purchase
    Value,      \* [Source -> Nat]
    Key,        \* idempotency keys of charges
    Price       \* amounts a charge may have

VARIABLES
    balance,    \* [User -> Int]
    credited,   \* [User -> SUBSET Source]
    charged     \* [User -> [Key -> [status, amount]]]

walletVars == <<balance, credited, charged>>

Charge == [status : {"NONE", "RESERVED", "COMMITTED", "REFUNDED"}, amount : Price \cup {0}]

WalletInit ==
    /\ balance = [u \in User |-> 0]
    /\ credited = [u \in User |-> {}]
    /\ charged = [u \in User |-> [k \in Key |-> [status |-> "NONE", amount |-> 0]]]

Credit(u, s) ==
    /\ s \notin credited[u]
    /\ credited' = [credited EXCEPT ![u] = @ \cup {s}]
    /\ balance' = [balance EXCEPT ![u] = @ + Value[s]]
    /\ UNCHANGED charged

Reserve(u, k, price) ==
    /\ charged[u][k].status = "NONE"
    /\ price <= balance[u]
    /\ charged' = [charged EXCEPT ![u][k] = [status |-> "RESERVED", amount |-> price]]
    /\ balance' = [balance EXCEPT ![u] = @ - price]
    /\ UNCHANGED credited

Settle(u, k) ==
    /\ charged[u][k].status = "RESERVED"
    /\ charged' = [charged EXCEPT ![u][k].status = "COMMITTED"]
    /\ UNCHANGED <<balance, credited>>

Refund(u, k) ==
    /\ charged[u][k].status = "RESERVED"
    /\ charged' = [charged EXCEPT ![u][k].status = "REFUNDED"]
    /\ balance' = [balance EXCEPT ![u] = @ + charged[u][k].amount]
    /\ UNCHANGED credited

WalletNext ==
    \E u \in User :
        \/ \E s \in Source : Credit(u, s)
        \/ \E k \in Key :
            \/ \E price \in Price : Reserve(u, k, price)
            \/ Settle(u, k)
            \/ Refund(u, k)

WalletSpec == WalletInit /\ [][WalletNext]_walletVars
=============================================================================
