---------------------------- MODULE MCTokenExchange ----------------------------
EXTENDS TokenExchange, TLC

CONSTANTS c1, c2, t1, t2, d1, d2, d3

(* d1 and d2 run the same app, d3 the app of another tenant. *)
MCTenantOf == [c \in Clients |-> IF c = c2 THEN t2 ELSE t1]
MCClientOf == [d \in Devices |-> IF d = d3 THEN c2 ELSE c1]

Slots == Permutations(Requests)

(* A client that rotates its hints may do so in any order. *)
SlotsAndHints == Slots \union Permutations(Hints)
================================================================================
