----------------------------- MODULE MCTickets -----------------------------
(* Small instances of Tickets for TLC. *)
EXTENDS Tickets, TLC

CONSTANTS u1, u2, k1, k2, cheap, dear, t1, t2, j1, j2

MCCost == [f \in Feature |-> IF f = cheap THEN 1 ELSE 2]
OneBuyer == [t \in Transaction |-> u1]
MCPack == [t \in Transaction |-> 2]

JobSymmetry == Permutations(Job)
JobKeySymmetry == Permutations(Job) \cup Permutations(Key)
=============================================================================
