------------------------------- MODULE MCStartup -------------------------------
EXTENDS Startup, TLC

(* The first ClickHouse file has two statements, the other one. *)
MCStatements == [f \in 1 .. ChFiles |-> IF f = 1 THEN 2 ELSE 1]

Replicas == Permutations(Pods)
================================================================================
