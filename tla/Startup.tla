-------------------------------- MODULE Startup --------------------------------
(***************************************************************************)
(* The life of the ingest pods (services/ingest/cmd/main.go): each one     *)
(* migrates Postgres under an advisory lock and ClickHouse without one,    *)
(* bootstraps and loads the signing key, serves, drains and stops, while   *)
(* the others do the same, pods die, and an operator rotates the key.      *)
(* One action per statement that another pod may see or disturb.           *)
(***************************************************************************)
EXTENDS Integers, FiniteSets

CONSTANTS
    Pods,
    PgFiles, ChFiles,         \* the .sql files are 1 .. n, in lexical order
    Statements,               \* the statements of each ClickHouse file
    PoolSize,                 \* connections of a pod's pgx pool
    Kids, ConfKids,           \* key ids, and the values SIGNING_KID may have
    TokenTTL, ClockSkew,
    RetireWait,               \* how long the operator waits before retiring
    MaxFaults, MaxRotations, MaxClock,
    None, Operator

ASSUME StartupAssumption ==
    /\ PgFiles \in Nat /\ ChFiles \in Nat
    /\ Statements \in [1 .. ChFiles -> Nat \ {0}]
    /\ PoolSize \in Nat /\ PoolSize >= 2
    /\ ConfKids \subseteq Kids
    /\ TokenTTL \in Nat /\ ClockSkew \in Nat
    /\ RetireWait \in Nat /\ RetireWait > TokenTTL + ClockSkew
    /\ MaxFaults \in Nat /\ MaxRotations \in Nat /\ MaxClock \in Nat
    /\ None \notin Pods \union Kids /\ Operator \notin Pods

VARIABLES
    clock, faults, rotations,
    lock,        \* the pod whose session holds the advisory lock, or None
    pgLedger,    \* Postgres schema_migrations
    pgRuns,      \* how often a file's statements were committed
    chLedger,    \* ClickHouse schema_migrations
    chRuns,      \* how often a statement ran
    keys,        \* signing_keys: the row of each kid
    lastMint,    \* when a key last signed a token, or None
    pod,         \* the process of each pod
    rolled,      \* pods started since the last rotation
    rolledAt     \* when the last pod that was not left

dials    == <<clock, faults, rotations>>
postgres == <<lock, pgLedger, pgRuns>>
click    == <<chLedger, chRuns>>
operator == <<rolled, rolledAt>>
vars     == <<dials, postgres, click, keys, lastMint, pod, operator>>

PgNames == 1 .. PgFiles
ChNames == 1 .. ChFiles
Stmts   == UNION {{f} \X (1 .. Statements[f]) : f \in ChNames}

(* A row has a state and the process whose key pair it holds: two pods that *)
(* generate a key for one kid generate different keys.                      *)
Makers   == Pods \union {Operator}
KeyPairs == Kids \X Makers
NoRow    == [state |-> "absent", maker |-> None]

Steps == {"down", "lock", "pg", "pgtx", "ledger", "ch", "insert",
          "recheck", "load", "loaded", "serving", "draining"}
Process == [pc : Steps, file : Nat, stmt : Nat, applied : SUBSET ChNames,
            conns : Nat, kid : Kids \union {None}, minter : KeyPairs \union {None}]
Down    == [pc |-> "down", file |-> 1, stmt |-> 1, applied |-> {},
            conns |-> 0, kid |-> None, minter |-> None]

At(p, step) == pod[p].pc = step

(* signing_keys_one_active is unique over these rows. *)
Active     == {k \in Kids : keys[k].state = "active"}
PublicJWKS == {<<k, keys[k].maker>> : k \in {c \in Kids : keys[c].state \in {"active", "inactive"}}}

StoreTypes ==
    /\ clock \in 0 .. MaxClock /\ faults \in 0 .. MaxFaults
    /\ rotations \in 0 .. MaxRotations
    /\ lock \in Pods \union {None}
    /\ pgLedger \subseteq PgNames /\ pgRuns \in [PgNames -> Nat]
    /\ chLedger \subseteq ChNames /\ chRuns \in [Stmts -> Nat]
    /\ keys \in [Kids -> [state : {"absent", "active", "inactive", "retired"},
                          maker : Makers \union {None}]]
    /\ lastMint \in [KeyPairs -> 0 .. MaxClock \union {None}]
    /\ rolled \subseteq Pods /\ rolledAt \in 0 .. MaxClock

TypeOK ==
    /\ StoreTypes
    /\ pod \in [Pods -> Process]
    /\ \A p \in Pods : pod[p].conns <= PoolSize

Init ==
    /\ clock = 0 /\ faults = MaxFaults /\ rotations = MaxRotations
    /\ lock = None
    /\ pgLedger = {} /\ pgRuns = [f \in PgNames |-> 0]
    /\ chLedger = {} /\ chRuns = [s \in Stmts |-> 0]
    /\ keys = [k \in Kids |-> NoRow]
    /\ lastMint = [kp \in KeyPairs |-> None]
    /\ pod = [p \in Pods |-> Down]
    /\ rolled = {} /\ rolledAt = 0

--------------------------------------------------------------------------------
Becomes(p, process) == pod' = [pod EXCEPT ![p] = process]

(* The process is gone: the server ends its sessions, and with them the     *)
(* advisory lock and an open transaction.                                   *)
Exit(p) ==
    /\ Becomes(p, Down)
    /\ lock' = IF lock = p THEN None ELSE lock
    /\ rolledAt' = IF p \in rolled THEN rolledAt ELSE clock

(* The process comes up and opens both stores.                              *)
Start(p) ==
    /\ At(p, "down")
    /\ Becomes(p, [pod[p] EXCEPT !.pc = "lock"])
    /\ rolled' = rolled \union {p}
    /\ UNCHANGED <<dials, postgres, click, keys, lastMint, rolledAt>>

(* MUTANT of Granted: no wait for the lock. *)
GrantedAtOnce == TRUE
Granted       == lock = None

(* controlplane.Migrate takes one connection for the lock and waits for it; *)
(* the ledger's DDL needs another one.                                      *)
Lock(p) ==
    /\ At(p, "lock") /\ Granted
    /\ pod[p].conns + 1 < PoolSize
    /\ lock' = p
    /\ Becomes(p, [pod[p] EXCEPT !.pc = "pg", !.conns = @ + 1])
    /\ UNCHANGED <<dials, pgLedger, pgRuns, click, keys, lastMint, operator>>

(* MUTANT of Rollback: the connection is released once more. *)
RollbackTwice(conns) == conns - 1
Rollback(conns)      == conns

(* The transaction of the next file: rolled back if the ledger has it.      *)
Begin(p) ==
    /\ At(p, "pg") /\ pod[p].file \in PgNames
    /\ pod[p].conns < PoolSize
    /\ \/ /\ pod[p].file \in pgLedger
          /\ Becomes(p, [pod[p] EXCEPT !.file = @ + 1, !.conns = Rollback(@)])
       \/ /\ pod[p].file \notin pgLedger
          /\ Becomes(p, [pod[p] EXCEPT !.pc = "pgtx", !.conns = @ + 1])
    /\ UNCHANGED <<dials, postgres, click, keys, lastMint, operator>>

(* MUTANT of Conflict: the ledger row is inserted ON CONFLICT DO NOTHING. *)
NoConflict(p) == FALSE
Conflict(p)   == pod[p].file \in pgLedger

(* The file's DDL and its ledger row commit together.  If another pod has   *)
(* committed the file since Begin, the DDL or the ledger's primary key      *)
(* fails, nothing is committed and main exits.                              *)
Commit(p) ==
    /\ At(p, "pgtx")
    /\ \/ /\ ~Conflict(p)
          /\ pgLedger' = pgLedger \union {pod[p].file}
          /\ pgRuns' = [pgRuns EXCEPT ![pod[p].file] = @ + 1]
          /\ Becomes(p, [pod[p] EXCEPT !.pc = "pg", !.file = @ + 1, !.conns = @ - 1])
          /\ UNCHANGED <<lock, rolledAt>>
       \/ Conflict(p) /\ Exit(p) /\ UNCHANGED <<pgLedger, pgRuns>>
    /\ UNCHANGED <<dials, click, keys, lastMint, rolled>>

(* MUTANT of Unlock: the connection goes back to the pool with the lock on it. *)
UnlockSkipped(p) == lock
Unlock(p)        == IF lock = p THEN None ELSE lock

(* Every file is in the ledger: unlock, on the session that took the lock,  *)
(* and give the connection back.                                            *)
Migrated(p) ==
    /\ At(p, "pg") /\ pod[p].file \notin PgNames
    /\ lock' = Unlock(p)
    /\ Becomes(p, [pod[p] EXCEPT !.pc = "ledger", !.conns = @ - 1, !.file = 1])
    /\ UNCHANGED <<dials, pgLedger, pgRuns, click, keys, lastMint, operator>>

AppliedMigrations == chLedger

(* clickhouse.Migrate reads its ledger once, before the first file.         *)
ReadLedger(p) ==
    /\ At(p, "ledger")
    /\ Becomes(p, [pod[p] EXCEPT !.pc = "ch", !.applied = AppliedMigrations])
    /\ UNCHANGED <<dials, postgres, click, keys, lastMint, operator>>

(* MUTANT of Complete: the file's first statement is taken for all of it. *)
CompleteAfterOne(p) == pod[p].stmt > 1
Complete(p)         == <<pod[p].file, pod[p].stmt>> \notin Stmts

(* A file the pod did not see in the ledger: its statements, one by one,    *)
(* and then its ledger row.                                                 *)
Execute(p) ==
    /\ At(p, "ch") /\ pod[p].file \in ChNames \ pod[p].applied /\ ~Complete(p)
    /\ chRuns' = [chRuns EXCEPT ![<<pod[p].file, pod[p].stmt>>] = @ + 1]
    /\ Becomes(p, [pod[p] EXCEPT !.stmt = @ + 1])
    /\ UNCHANGED <<dials, postgres, chLedger, keys, lastMint, operator>>

Record(p) ==
    /\ At(p, "ch") /\ pod[p].file \in ChNames \ pod[p].applied /\ Complete(p)
    /\ chLedger' = chLedger \union {pod[p].file}
    /\ Becomes(p, [pod[p] EXCEPT !.file = @ + 1, !.stmt = 1])
    /\ UNCHANGED <<dials, postgres, chRuns, keys, lastMint, operator>>

Skip(p) ==
    /\ At(p, "ch") /\ pod[p].file \in pod[p].applied
    /\ Becomes(p, [pod[p] EXCEPT !.file = @ + 1])
    /\ UNCHANGED <<dials, postgres, click, keys, lastMint, operator>>

(* EnsureSigningKey(SIGNING_KID) is one INSERT ... WHERE NOT EXISTS, but    *)
(* its test reads a snapshot: others commit between test and insertion.     *)
NotExists(p) ==
    /\ At(p, "ch") /\ pod[p].file \notin ChNames
    /\ \/ Active # {} /\ Becomes(p, [Down EXCEPT !.pc = "recheck"])
       \/ /\ Active = {}
          /\ \E kid \in ConfKids :
                Becomes(p, [Down EXCEPT !.pc = "insert", !.kid = kid])
    /\ UNCHANGED <<dials, postgres, click, keys, lastMint, operator>>

(* MUTANT of Taken: no signing_keys_one_active. *)
TakenKid(kid) == keys[kid].state # "absent"
Taken(kid)    == keys[kid].state # "absent" \/ Active # {}

(* ON CONFLICT DO NOTHING, for the primary key and for the partial index.   *)
Insert(p) ==
    /\ At(p, "insert")
    /\ \/ /\ ~Taken(pod[p].kid)
          /\ keys' = [keys EXCEPT ![pod[p].kid] = [state |-> "active", maker |-> p]]
          /\ Becomes(p, [pod[p] EXCEPT !.pc = "load", !.kid = None])
       \/ /\ Taken(pod[p].kid)
          /\ Becomes(p, [pod[p] EXCEPT !.pc = "recheck", !.kid = None])
          /\ UNCHANGED keys
    /\ UNCHANGED <<dials, postgres, click, lastMint, operator>>

(* Nothing was inserted: some active key must exist. *)
Recheck(p) ==
    /\ At(p, "recheck")
    /\ \/ /\ Active # {}
          /\ Becomes(p, [pod[p] EXCEPT !.pc = "load"])
          /\ UNCHANGED <<lock, rolledAt>>
       \/ Active = {} /\ Exit(p)
    /\ UNCHANGED <<dials, pgLedger, pgRuns, click, keys, lastMint, rolled>>

(* MUTANT of ActiveSigningKey: the key pair this process generated. *)
OwnKey(p)           == ConfKids \X {p}
ActiveSigningKey(p) == {<<k, keys[k].maker>> : k \in Active}

(* The minter keeps its key for the rest of the process. *)
NewMinter(process, kp) == [process EXCEPT !.pc = "loaded", !.minter = kp]

Load(p) ==
    /\ At(p, "load")
    /\ \/ /\ \E kp \in ActiveSigningKey(p) : Becomes(p, NewMinter(pod[p], kp))
          /\ UNCHANGED <<lock, rolledAt>>
       \/ ActiveSigningKey(p) = {} /\ Exit(p)
    /\ UNCHANGED <<dials, pgLedger, pgRuns, click, keys, lastMint, rolled>>

Listen(p) ==
    /\ At(p, "loaded")
    /\ Becomes(p, [pod[p] EXCEPT !.pc = "serving"])
    /\ UNCHANGED <<dials, postgres, click, keys, lastMint, operator>>

(* POST /v1/auth/token signs with the minter's key, while draining too.     *)
Mint(p) ==
    /\ At(p, "serving") \/ At(p, "draining")
    /\ lastMint' = [lastMint EXCEPT ![pod[p].minter] = clock]
    /\ UNCHANGED <<dials, postgres, click, keys, pod, operator>>

(* SIGTERM: Shutdown lets the requests in progress finish, up to a limit.   *)
Stop(p) ==
    /\ At(p, "serving") /\ p \notin rolled
    /\ Becomes(p, [pod[p] EXCEPT !.pc = "draining"])
    /\ UNCHANGED <<dials, postgres, click, keys, lastMint, operator>>

Drained(p) ==
    /\ At(p, "draining")
    /\ Exit(p)
    /\ UNCHANGED <<dials, pgLedger, pgRuns, click, keys, lastMint, rolled>>

--------------------------------------------------------------------------------
(* Faults.  A pod dies, or one of its calls fails and main exits.           *)
Die(p) ==
    /\ faults > 0 /\ ~At(p, "down")
    /\ faults' = faults - 1
    /\ Exit(p)
    /\ UNCHANGED <<clock, rotations, pgLedger, pgRuns, click, keys, lastMint, rolled>>

(* The server drops the idle session that holds the lock; the pod, which    *)
(* works on another connection, does not notice.                            *)
LoseLock ==
    /\ faults > 0 /\ lock # None
    /\ faults' = faults - 1
    /\ lock' = None
    /\ UNCHANGED <<clock, rotations, pgLedger, pgRuns, click, keys, lastMint, pod, operator>>

(* Rotation by the operator, one statement each: the unique index wants the *)
(* old key inactive before a new one is inserted, and rejects the new one   *)
(* if a pod has bootstrapped a key in between.  Then the pods are restarted *)
(* one by one (Stop), and the old key is retired after a wait.              *)
Deactivate(k) ==
    /\ rotations > 0 /\ keys[k].state = "active"
    /\ rotations' = rotations - 1
    /\ keys' = [keys EXCEPT ![k].state = "inactive"]
    /\ rolled' = {p \in Pods : At(p, "down")}
    /\ rolledAt' = clock
    /\ UNCHANGED <<clock, faults, postgres, click, lastMint, pod>>

Activate(k) ==
    /\ keys[k].state = "absent" /\ Active = {}
    /\ \E c \in Kids : keys[c].state # "absent"
    /\ keys' = [keys EXCEPT ![k] = [state |-> "active", maker |-> Operator]]
    /\ UNCHANGED <<dials, postgres, click, lastMint, pod, operator>>

Retire(k) ==
    /\ keys[k].state = "inactive"
    /\ rolled = Pods /\ clock >= rolledAt + RetireWait
    /\ keys' = [keys EXCEPT ![k].state = "retired"]
    /\ UNCHANGED <<dials, postgres, click, lastMint, pod, operator>>

Tick ==
    /\ clock < MaxClock
    /\ clock' = clock + 1
    /\ UNCHANGED <<faults, rotations, postgres, click, keys, lastMint, pod, operator>>

Boot(p) ==
    \/ Start(p) \/ Lock(p) \/ Begin(p) \/ Commit(p) \/ Migrated(p)
    \/ ReadLedger(p) \/ Execute(p) \/ Record(p) \/ Skip(p)
    \/ NotExists(p) \/ Insert(p) \/ Recheck(p) \/ Load(p) \/ Listen(p)

Next ==
    \/ \E p \in Pods : Boot(p) \/ Mint(p) \/ Stop(p) \/ Drained(p) \/ Die(p)
    \/ \E k \in Kids : Deactivate(k) \/ Activate(k) \/ Retire(k)
    \/ LoseLock \/ Tick

(* Kubernetes restarts what exited, the stores answer, and the operator     *)
(* completes a rotation: the new key, and a restart of every pod.           *)
Fairness ==
    /\ \A p \in Pods : WF_vars(Boot(p)) /\ WF_vars(Stop(p)) /\ WF_vars(Drained(p))
    /\ WF_vars(\E k \in Kids : Activate(k))

Spec == Init /\ [][Next]_vars /\ Fairness

--------------------------------------------------------------------------------
(* Migrate's promise for Postgres, "applies each unapplied .sql file exactly *)
(* once": whatever pods die, and even when the server drops the advisory     *)
(* lock under a pod that is migrating, a file is committed once, after the   *)
(* files before it, and the ledger says so.                                  *)
PgExactlyOnce ==
    \A f \in PgNames :
        /\ pgRuns[f] = (IF f \in pgLedger THEN 1 ELSE 0)
        /\ f \in pgLedger => 1 .. f \subseteq pgLedger

(* The same promise for ClickHouse, where only the ledger stands for it.     *)
ChExactlyOnce == \A s \in Stmts : chRuns[s] <= 1

(* What the ClickHouse ledger is good for: a file is recorded only when all  *)
(* its statements and all files before it have run, so that no pod that      *)
(* trusts the ledger skips a file another pod left half applied; and a pod   *)
(* that takes traffic finds both schemas complete ("a pod that came up       *)
(* against an un-migrated schema fails every request").                      *)
SchemaBeforeTraffic ==
    /\ \A f \in chLedger, s \in Stmts : s[1] <= f => chRuns[s] > 0
    /\ \A p \in Pods :
          At(p, "serving") => /\ pgLedger = PgNames
                              /\ \A s \in Stmts : chRuns[s] > 0

(* EnsureSigningKey: pods that start cold, with any SIGNING_KID each, never  *)
(* leave two active keys.                                                    *)
OneActiveKey == Cardinality(Active) <= 1

(* Every token a verifier would still accept by its times was signed with a  *)
(* key pair that the JWKS publishes: over cold starts that race for the      *)
(* first key, pods that keep the old key until they have drained, and        *)
(* retirement ("a token the service just issued always verifies").           *)
TokensStayVerifiable ==
    \A kp \in KeyPairs :
        lastMint[kp] # None /\ clock <= lastMint[kp] + TokenTTL + ClockSkew
            => kp \in PublicJWKS

(* The lock's purpose: "the loser's error triggers a startup crash-loop".    *)
(* Until the first fault, no pod exits while it migrates.                    *)
NoCrashLoop ==
    [][\A p \in Pods : pod[p].pc \in {"lock", "pg", "pgtx", "ledger", "ch"}
                          /\ pod'[p].pc = "down" => faults' < MaxFaults]_vars

(* Once the faults and the rotations are over every pod serves for good: no  *)
(* pod waits for ever for the lock or for a connection of its own pool, and  *)
(* none is left in a crash loop without a key.                               *)
EveryPodServes == \A p \in Pods : <>[](At(p, "serving"))
================================================================================
