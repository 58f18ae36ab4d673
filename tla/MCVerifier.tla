------------------------------- MODULE MCVerifier -------------------------------
(* One key at the start and one to rotate to; until it is published, a     *)
(* token that names the second key is one with a forged kid.               *)
EXTENDS Verifier, TLC

Slots == Permutations(Requests)
=================================================================================
