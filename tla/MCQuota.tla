-------------------------------- MODULE MCQuota --------------------------------
(* One tenant with a daily budget of three units, and two batches, of one  *)
(* and of two units.                                                       *)
EXTENDS Quota

CONSTANTS i1, i2, c1, c2

MCTenantOf    == [i \in Installs |-> CHOOSE t \in Tenants : TRUE]
MCDailyEvents == [t \in Tenants |-> 3]
MCUnits       == [c \in Calls |-> IF c = c1 THEN 1 ELSE 2]

(* Two installs share the daily budget: i1 may send one unit a second, i2  *)
(* has no rate limit.                                                      *)
MCInst == [c \in Calls |-> IF c = c1 THEN i1 ELSE i2]
MCRPS  == [i \in Installs |-> IF i = i1 THEN 1 ELSE 0]

(* One install that may send two units a second. *)
MCOneInst == [c \in Calls |-> i1]
MCTwoRPS  == [i \in Installs |-> 2]
================================================================================
