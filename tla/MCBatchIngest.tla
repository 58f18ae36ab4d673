----------------------------- MODULE MCBatchIngest -----------------------------
(***************************************************************************)
(* Small instances of BatchIngest: one or two installs of one tenant.      *)
(* Event a2 was stamped by a clock three days ahead, the others yesterday, *)
(* in another session; "bad" fails validation, "odd" does not decode and   *)
(* "big" is three times the size of the others.                            *)
(***************************************************************************)
EXTENDS BatchIngest, FiniteSetsExt, TLC

MCTenantOf == [i \in Installs |-> CHOOSE t \in Tenants : TRUE]
MCOwner    == [e \in Events |-> IF "i2" \in Installs /\ e = "odd"
                                THEN "i2" ELSE "i1"]
MCSession  == [e \in Events |-> IF e = "a2" THEN "s2" ELSE "s1"]
MCTsClient == [e \in Events |-> IF e = "a2" THEN StartTime + 3 ELSE StartTime - 1]

(* A body is as large as its events together. *)
EventBytes(e) == IF e = "big" THEN 3 ELSE 1
MCBodyBytes   == [S \in SUBSET Events |-> MapThenSumSet(EventBytes, S)]

(* A rate no batch exceeds, and one that a batch of two exceeds. *)
MCHighRPS  == [i \in Installs |-> Cardinality(Events)]
MCLowRPS   == [i \in Installs |-> 1]

(* Request slots are interchangeable. *)
Slots      == Permutations(Requests)
================================================================================
