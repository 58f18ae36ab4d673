------------------------------ MODULE StartupProofs ------------------------------
(***************************************************************************)
(* Proofs about Startup for any number of pods, files, statements, keys,   *)
(* faults and rotations.                                                   *)
(*                                                                         *)
(* Local says what a process holds at each of its steps; on top of it,     *)
(* each inductive by itself: PgMigrating and ChMigrating, what a process   *)
(* relies on in the two schemas; Serial, what the advisory lock gives      *)
(* until the first fault; and Keyed, which keys pods and tokens rely on.   *)
(***************************************************************************)
EXTENDS Startup, FiniteSetTheorems, TLAPS

(* The connections, and the values of a process, at each of its steps. *)
LocalOf(x) ==
    /\ x.pc = "pg" => x.conns = 1
    /\ x.pc = "pgtx" => x.conns = 2 /\ x.file \in PgNames
    /\ x.pc \notin {"pg", "pgtx"} => x.conns = 0
    /\ x.pc \in {"down", "lock"} => x.file = 1
    /\ x.pc \in {"down", "lock", "pg", "pgtx", "ledger"} => x.stmt = 1
    /\ x.pc = "ledger" => x.file = 1
    /\ x.pc = "insert" => x.kid \in Kids
    /\ x.pc \in {"loaded", "serving", "draining"} => x.minter \in KeyPairs
    /\ x.file # 0 /\ x.stmt # 0

RowsOwned == \A k \in Kids : keys[k].state # "absent" => keys[k].maker \in Makers

Local == TypeOK /\ (\A p \in Pods : LocalOf(pod[p])) /\ RowsOwned

(* A step that gives one process another record of the right shape. *)
LEMMA PodStep ==
    ASSUME Local, NEW p \in Pods, NEW x \in Process, LocalOf(x),
           pod' = [pod EXCEPT ![p] = x]
    PROVE  /\ pod' \in [Pods -> Process]
           /\ \A q \in Pods : pod'[q].conns <= PoolSize
           /\ \A q \in Pods : LocalOf(pod'[q])
<1>1. x.conns <= PoolSize
  BY StartupAssumption DEF LocalOf, Process, Steps
<1>2. \A q \in Pods : pod'[q] = IF q = p THEN x ELSE pod[q]
  BY DEF Local, TypeOK
<1> QED BY <1>1, <1>2 DEF Local, TypeOK

(* The other processes keep theirs. *)
LEMMA OnePod ==
    ASSUME Local, NEW p \in Pods, NEW x, Becomes(p, x)
    PROVE  pod'[p] = x /\ \A q \in Pods \ {p} : pod'[q] = pod[q]
  BY DEF Local, TypeOK, Becomes

(* The step that process p takes, where and with what it goes on. *)
Shift(p, pc, file, stmt, applied) ==
    /\ \A q \in Pods \ {p} : pod'[q] = pod[q]
    /\ pod'[p].pc = pc /\ pod'[p].file = file
    /\ pod'[p].stmt = stmt /\ pod'[p].applied = applied

(* The shift of each action. *)
LEMMA Shifts ==
    ASSUME Local, NEW p \in Pods
    PROVE  /\ Start(p) => Shift(p, "lock", pod[p].file, pod[p].stmt, pod[p].applied)
           /\ Lock(p) => Shift(p, "pg", pod[p].file, pod[p].stmt, pod[p].applied)
           /\ Begin(p) /\ pod[p].file \in pgLedger
                 => Shift(p, "pg", pod[p].file + 1, pod[p].stmt, pod[p].applied)
           /\ Begin(p) /\ pod[p].file \notin pgLedger
                 => Shift(p, "pgtx", pod[p].file, pod[p].stmt, pod[p].applied)
           /\ Commit(p) /\ ~Conflict(p)
                 => Shift(p, "pg", pod[p].file + 1, pod[p].stmt, pod[p].applied)
           /\ Migrated(p) => Shift(p, "ledger", 1, pod[p].stmt, pod[p].applied)
           /\ ReadLedger(p) => Shift(p, "ch", pod[p].file, pod[p].stmt, chLedger)
           /\ Execute(p) => Shift(p, "ch", pod[p].file, pod[p].stmt + 1, pod[p].applied)
           /\ Record(p) => Shift(p, "ch", pod[p].file + 1, 1, pod[p].applied)
           /\ Skip(p) => Shift(p, "ch", pod[p].file + 1, pod[p].stmt, pod[p].applied)
           /\ NotExists(p) => \/ Shift(p, "recheck", 1, 1, {})
                              \/ Shift(p, "insert", 1, 1, {})
           /\ Insert(p) /\ Taken(pod[p].kid)
                 => Shift(p, "recheck", pod[p].file, pod[p].stmt, pod[p].applied)
           /\ Insert(p) /\ ~Taken(pod[p].kid)
                 => Shift(p, "load", pod[p].file, pod[p].stmt, pod[p].applied)
           /\ Recheck(p) /\ Active # {}
                 => Shift(p, "load", pod[p].file, pod[p].stmt, pod[p].applied)
           /\ Load(p) /\ ActiveSigningKey(p) # {}
                 => Shift(p, "loaded", pod[p].file, pod[p].stmt, pod[p].applied)
           /\ Listen(p) => Shift(p, "serving", pod[p].file, pod[p].stmt, pod[p].applied)
           /\ Stop(p) => Shift(p, "draining", pod[p].file, pod[p].stmt, pod[p].applied)
           /\ Exit(p) => Shift(p, "down", 1, 1, {})
<1> USE DEF Shift, At
<1>1. pod[p] \in Process /\ pod \in [Pods -> Process]
  BY DEF Local, TypeOK
<1>2. ASSUME Start(p) PROVE Shift(p, "lock", pod[p].file, pod[p].stmt, pod[p].applied)
  BY <1>1, <1>2 DEF Becomes, Start, Process
<1>3. ASSUME Lock(p) PROVE Shift(p, "pg", pod[p].file, pod[p].stmt, pod[p].applied)
  BY <1>1, <1>3 DEF Becomes, Lock, Process
<1>4. ASSUME Begin(p), pod[p].file \in pgLedger
      PROVE  Shift(p, "pg", pod[p].file + 1, pod[p].stmt, pod[p].applied)
  BY <1>1, <1>4 DEF Becomes, Begin, Process
<1>5. ASSUME Begin(p), pod[p].file \notin pgLedger
      PROVE  Shift(p, "pgtx", pod[p].file, pod[p].stmt, pod[p].applied)
  <2>1. Becomes(p, [pod[p] EXCEPT !.pc = "pgtx", !.conns = @ + 1])
    BY <1>5 DEF Begin
  <2> QED BY <1>1, <2>1 DEF Becomes, Process
<1>6. ASSUME Commit(p), ~Conflict(p)
      PROVE  Shift(p, "pg", pod[p].file + 1, pod[p].stmt, pod[p].applied)
  <2>1. Becomes(p, [pod[p] EXCEPT !.pc = "pg", !.file = @ + 1, !.conns = @ - 1])
    BY <1>6 DEF Commit
  <2> QED BY <1>1, <2>1 DEF Becomes, Process
<1>7. ASSUME Migrated(p) PROVE Shift(p, "ledger", 1, pod[p].stmt, pod[p].applied)
  BY <1>1, <1>7 DEF Becomes, Migrated, Process
<1>8. ASSUME ReadLedger(p) PROVE Shift(p, "ch", pod[p].file, pod[p].stmt, chLedger)
  BY <1>1, <1>8 DEF Becomes, ReadLedger, AppliedMigrations, Process
<1>9. ASSUME Execute(p) PROVE Shift(p, "ch", pod[p].file, pod[p].stmt + 1, pod[p].applied)
  BY <1>1, <1>9 DEF Becomes, Execute, Process
<1>10. ASSUME Record(p) PROVE Shift(p, "ch", pod[p].file + 1, 1, pod[p].applied)
  BY <1>1, <1>10 DEF Becomes, Record, Process
<1>11. ASSUME Skip(p) PROVE Shift(p, "ch", pod[p].file + 1, pod[p].stmt, pod[p].applied)
  BY <1>1, <1>11 DEF Becomes, Skip, Process
<1>12. ASSUME NotExists(p)
       PROVE  Shift(p, "recheck", 1, 1, {}) \/ Shift(p, "insert", 1, 1, {})
  <2>1. CASE Becomes(p, [Down EXCEPT !.pc = "recheck"])
    BY <1>1, <2>1 DEF Becomes, Down
  <2>2. ASSUME NEW kid, Becomes(p, [Down EXCEPT !.pc = "insert", !.kid = kid])
        PROVE  Shift(p, "insert", 1, 1, {})
    BY <1>1, <2>2 DEF Becomes, Down
  <2> QED BY <1>12, <2>1, <2>2 DEF NotExists
<1>13. ASSUME Insert(p), Taken(pod[p].kid)
       PROVE  Shift(p, "recheck", pod[p].file, pod[p].stmt, pod[p].applied)
  BY <1>1, <1>13 DEF Becomes, Insert, Process
<1>14. ASSUME Insert(p), ~Taken(pod[p].kid)
       PROVE  Shift(p, "load", pod[p].file, pod[p].stmt, pod[p].applied)
  <2>1. Becomes(p, [pod[p] EXCEPT !.pc = "load", !.kid = None])
    BY <1>14 DEF Insert
  <2> QED BY <1>1, <2>1 DEF Becomes, Process
<1>15. ASSUME Recheck(p), Active # {}
       PROVE  Shift(p, "load", pod[p].file, pod[p].stmt, pod[p].applied)
  BY <1>1, <1>15 DEF Becomes, Recheck, Process
<1>16. ASSUME Load(p), ActiveSigningKey(p) # {}
       PROVE  Shift(p, "loaded", pod[p].file, pod[p].stmt, pod[p].applied)
  <2>1. PICK kp : Becomes(p, NewMinter(pod[p], kp))
    BY <1>16 DEF Load
  <2> QED BY <1>1, <2>1 DEF Becomes, NewMinter, Process
<1>17. ASSUME Listen(p) PROVE Shift(p, "serving", pod[p].file, pod[p].stmt, pod[p].applied)
  BY <1>1, <1>17 DEF Becomes, Listen, Process
<1>18. ASSUME Stop(p) PROVE Shift(p, "draining", pod[p].file, pod[p].stmt, pod[p].applied)
  BY <1>1, <1>18 DEF Becomes, Stop, Process
<1>19. ASSUME Exit(p) PROVE Shift(p, "down", 1, 1, {})
  BY <1>1, <1>19 DEF Becomes, Exit, Down
<1> HIDE DEF Shift, At
<1> QED BY <1>2, <1>3, <1>4, <1>5, <1>6, <1>7, <1>8, <1>9, <1>10, <1>11, <1>12, <1>13,
           <1>14, <1>15, <1>16, <1>17, <1>18, <1>19

(* The record of a process that is gone. *)
LEMMA DownLocal == Down \in Process /\ LocalOf(Down)
  BY DEF Down, Process, Steps, LocalOf

(* The initial state. *)
LEMMA InitLocal == Init => Local
<1> SUFFICES ASSUME Init PROVE Local
  OBVIOUS
<1>1. NoRow \in [state : {"absent", "active", "inactive", "retired"},
                maker : Makers \union {None}]
  BY DEF NoRow
<1>2. StoreTypes
  BY <1>1, StartupAssumption DEF Init, StoreTypes
<1>3. TypeOK
  BY <1>2, DownLocal, StartupAssumption DEF Init, TypeOK, Down
<1>4. RowsOwned
  BY DEF Init, RowsOwned, NoRow
<1> QED BY <1>3, <1>4, DownLocal DEF Init, Local

(* Facts about an exit that no step of a process can spoil. *)
LEMMA ExitLocal ==
    ASSUME Local, NEW p \in Pods, Exit(p)
    PROVE  /\ lock' \in Pods \union {None} /\ rolledAt' \in 0 .. MaxClock
           /\ Becomes(p, Down)
  BY DEF Exit, Local, TypeOK, StoreTypes

(* The steps of a process keep its shape. *)
LEMMA BootLocal == ASSUME Local, NEW p \in Pods, Boot(p) PROVE Local'
<1> USE DEF At, Becomes
<1>1. pod[p] \in Process /\ LocalOf(pod[p])
  BY DEF Local, TypeOK
<1>0. /\ pod[p].file + 1 \in Nat /\ pod[p].stmt + 1 \in Nat /\ pod[p].conns + 1 \in Nat
      /\ pod[p].file + 1 # 0 /\ pod[p].stmt + 1 # 0
      /\ pod[p].conns # 0 => pod[p].conns - 1 \in Nat
  BY <1>1 DEF Process
<1>2. PICK x \in Process : LocalOf(x) /\ pod' = [pod EXCEPT ![p] = x]
  <2>1. ASSUME Exit(p) PROVE \E x \in Process : LocalOf(x) /\ pod' = [pod EXCEPT ![p] = x]
    BY <2>1, DownLocal DEF Exit
  <2>2. CASE Start(p)
    BY <1>1, <2>2 DEF Start, Process, Steps, LocalOf
  <2>3. CASE Lock(p)
    <3> DEFINE x == [pod[p] EXCEPT !.pc = "pg", !.conns = @ + 1]
    <3>1. x \in Process
      BY <1>0, <1>1, <2>3 DEF Lock, Process, Steps, LocalOf
    <3>2. LocalOf(x)
      BY <1>0, <1>1, <2>3 DEF Lock, Process, Steps, LocalOf
    <3>3. pod' = [pod EXCEPT ![p] = x]
      BY <2>3 DEF Lock
    <3> QED BY <3>1, <3>2, <3>3
  <2>4. CASE Begin(p)
    <3>1. CASE pod[p].file \in pgLedger
      <4> DEFINE x == [pod[p] EXCEPT !.file = @ + 1, !.conns = Rollback(@)]
      <4>1. x \in Process /\ LocalOf(x)
        <5>1. x \in Process
          BY <1>0, <1>1, <2>4 DEF Begin, Rollback, Process, Steps, LocalOf, PgNames
        <5>2. LocalOf(x)
          BY <1>0, <1>1, <2>4 DEF Begin, Rollback, Process, Steps, LocalOf, PgNames
        <5> QED BY <5>1, <5>2
      <4>2. pod' = [pod EXCEPT ![p] = x]
        BY <2>4, <3>1 DEF Begin
      <4> QED BY <4>1, <4>2
    <3>2. CASE pod[p].file \notin pgLedger
      <4> DEFINE x == [pod[p] EXCEPT !.pc = "pgtx", !.conns = @ + 1]
      <4>1. x \in Process /\ LocalOf(x)
        <5>1. x \in Process
          BY <1>0, <1>1, <2>4 DEF Begin, Process, Steps, LocalOf
        <5>2. LocalOf(x)
          BY <1>0, <1>1, <2>4 DEF Begin, Process, Steps, LocalOf
        <5> QED BY <5>1, <5>2
      <4>2. pod' = [pod EXCEPT ![p] = x]
        BY <2>4, <3>2 DEF Begin
      <4> QED BY <4>1, <4>2
    <3> QED BY <3>1, <3>2
  <2>5. CASE Commit(p)
    <3>1. CASE ~Conflict(p)
      <4> DEFINE x == [pod[p] EXCEPT !.pc = "pg", !.file = @ + 1, !.conns = @ - 1]
      <4>1. x \in Process /\ LocalOf(x)
        <5>0. pod[p].conns - 1 \in Nat
          BY <1>0, <1>1, <2>5 DEF Commit, LocalOf
        <5>1. x \in Process
          BY <1>0, <1>1, <5>0 DEF Process, Steps
        <5>2. LocalOf(x)
          BY <1>0, <1>1, <2>5 DEF Commit, Process, Steps, LocalOf, PgNames
        <5> QED BY <5>1, <5>2
      <4>2. pod' = [pod EXCEPT ![p] = x]
        BY <2>5, <3>1 DEF Commit
      <4> QED BY <4>1, <4>2
    <3> QED BY <2>1, <2>5, <3>1 DEF Commit
  <2>6. CASE Migrated(p)
    <3> DEFINE x == [pod[p] EXCEPT !.pc = "ledger", !.conns = @ - 1, !.file = 1]
    <3>1. x \in Process /\ LocalOf(x)
      <4>1. x \in Process
        BY <1>0, <1>1, <2>6 DEF Migrated, Process, Steps, LocalOf
      <4>2. LocalOf(x)
        BY <1>0, <1>1, <2>6 DEF Migrated, Process, Steps, LocalOf
      <4> QED BY <4>1, <4>2
    <3>2. pod' = [pod EXCEPT ![p] = x]
      BY <2>6 DEF Migrated
    <3> QED BY <3>1, <3>2
  <2>7. CASE ReadLedger(p)
    <3> DEFINE x == [pod[p] EXCEPT !.pc = "ch", !.applied = AppliedMigrations]
    <3>1. AppliedMigrations \in SUBSET ChNames
      BY DEF AppliedMigrations, Local, TypeOK, StoreTypes
    <3>2. x \in Process /\ LocalOf(x)
      BY <1>1, <2>7, <3>1 DEF ReadLedger, Process, Steps, LocalOf
    <3>3. pod' = [pod EXCEPT ![p] = x]
      BY <2>7 DEF ReadLedger
    <3> QED BY <3>2, <3>3
  <2>8. CASE Execute(p)
    <3> DEFINE x == [pod[p] EXCEPT !.stmt = @ + 1]
    <3>1. x \in Process /\ LocalOf(x)
      BY <1>0, <1>1, <2>8 DEF Execute, Process, Steps, LocalOf
    <3>2. pod' = [pod EXCEPT ![p] = x]
      BY <2>8 DEF Execute
    <3> QED BY <3>1, <3>2
  <2>9. CASE Record(p)
    <3> DEFINE x == [pod[p] EXCEPT !.file = @ + 1, !.stmt = 1]
    <3>1. x \in Process /\ LocalOf(x)
      <4>1. x \in Process
        BY <1>0, <1>1, <2>9 DEF Record, Process, Steps, LocalOf
      <4>2. LocalOf(x)
        BY <1>0, <1>1, <2>9 DEF Record, Process, Steps, LocalOf
      <4> QED BY <4>1, <4>2
    <3>2. pod' = [pod EXCEPT ![p] = x]
      BY <2>9 DEF Record
    <3> QED BY <3>1, <3>2
  <2>10. CASE Skip(p)
    <3> DEFINE x == [pod[p] EXCEPT !.file = @ + 1]
    <3>1. x \in Process /\ LocalOf(x)
      BY <1>0, <1>1, <2>10 DEF Skip, Process, Steps, LocalOf
    <3>2. pod' = [pod EXCEPT ![p] = x]
      BY <2>10 DEF Skip
    <3> QED BY <3>1, <3>2
  <2>11. CASE NotExists(p)
    <3>1. CASE Active # {}
      <4> DEFINE x == [Down EXCEPT !.pc = "recheck"]
      <4>1. x \in Process /\ LocalOf(x)
        BY DEF Down, Process, Steps, LocalOf
      <4>2. pod' = [pod EXCEPT ![p] = x]
        BY <2>11, <3>1 DEF NotExists
      <4> QED BY <4>1, <4>2
    <3>2. CASE Active = {}
      <4>1. PICK kid \in ConfKids :
               pod' = [pod EXCEPT ![p] = [Down EXCEPT !.pc = "insert", !.kid = kid]]
        BY <2>11, <3>2 DEF NotExists
      <4> DEFINE x == [Down EXCEPT !.pc = "insert", !.kid = kid]
      <4>2. kid \in Kids
        BY <4>1, StartupAssumption
      <4>3. x \in Process
        BY <4>2 DEF Down, Process, Steps
      <4>4. LocalOf(x)
        BY <4>2 DEF Down, LocalOf
      <4> QED BY <4>1, <4>3, <4>4
    <3> QED BY <3>1, <3>2
  <2>12. CASE Insert(p)
    <3> DEFINE x == [pod[p] EXCEPT !.pc = "load", !.kid = None]
               y == [pod[p] EXCEPT !.pc = "recheck", !.kid = None]
    <3>1. x \in Process /\ LocalOf(x) /\ y \in Process /\ LocalOf(y)
      BY <1>1, <2>12 DEF Insert, Process, Steps, LocalOf
    <3>2. pod' = [pod EXCEPT ![p] = x] \/ pod' = [pod EXCEPT ![p] = y]
      BY <2>12 DEF Insert
    <3> QED BY <3>1, <3>2
  <2>13. CASE Recheck(p)
    BY <1>1, <2>1, <2>13 DEF Recheck, Process, Steps, LocalOf
  <2>14. CASE Load(p)
    <3>1. ActiveSigningKey(p) \subseteq KeyPairs
      BY DEF ActiveSigningKey, Active, KeyPairs, Local, RowsOwned
    <3> QED BY <1>1, <2>1, <2>14, <3>1 DEF Load, NewMinter, Process, Steps, LocalOf
  <2>15. CASE Listen(p)
    BY <1>1, <2>15 DEF Listen, Process, Steps, LocalOf
  <2> QED BY <2>2, <2>3, <2>4, <2>5, <2>6, <2>7, <2>8, <2>9, <2>10, <2>11, <2>12,
             <2>13, <2>14, <2>15 DEF Boot
<1>3. StoreTypes' /\ RowsOwned'
  <2> USE DEF Local, TypeOK
  <2>1. CASE UNCHANGED <<dials, pgLedger, pgRuns, click, keys, lastMint, rolled>>
             /\ lock' \in Pods \union {None} /\ rolledAt' \in 0 .. MaxClock
    BY <2>1 DEF StoreTypes, RowsOwned, dials, click
  <2>2. CASE Start(p)
    BY <2>2 DEF Start, StoreTypes, RowsOwned, dials, postgres, click
  <2>3. CASE Commit(p) /\ ~Conflict(p)
    BY <1>1, <2>3 DEF Commit, StoreTypes, RowsOwned, dials, click, LocalOf, Process
  <2>4. CASE Execute(p)
    BY <1>1, <2>4 DEF Execute, Complete, StoreTypes, RowsOwned, dials, postgres, operator
  <2>5. CASE Record(p)
    BY <2>5 DEF Record, StoreTypes, RowsOwned, dials, postgres, operator
  <2>6. CASE Insert(p)
    BY <1>1, <2>6 DEF Insert, StoreTypes, RowsOwned, dials, postgres, click, operator,
                      LocalOf, Makers
  <2>7. CASE Lock(p) \/ Begin(p) \/ Migrated(p) \/ ReadLedger(p) \/ Skip(p)
             \/ NotExists(p) \/ Listen(p)
    BY <2>1, <2>7 DEF Lock, Begin, Migrated, Unlock, ReadLedger, Skip, NotExists, Listen,
                      StoreTypes, postgres, operator
  <2>8. CASE (Commit(p) /\ Conflict(p)) \/ Recheck(p) \/ Load(p)
    BY <2>1, <2>8 DEF Commit, Exit, Recheck, Load, StoreTypes
  <2> QED BY <2>2, <2>3, <2>4, <2>5, <2>6, <2>7, <2>8 DEF Boot
<1> QED BY <1>2, <1>3, PodStep DEF Local, TypeOK

(* So do traffic, stopping and dying. *)
LEMMA ServeLocal ==
    ASSUME Local, NEW p \in Pods, Mint(p) \/ Stop(p) \/ Drained(p) \/ Die(p) PROVE Local'
<1> USE DEF At, Becomes
<1>1. pod[p] \in Process /\ LocalOf(pod[p])
  BY DEF Local, TypeOK
<1>2. CASE Mint(p)
  <2>1. lastMint' \in [KeyPairs -> 0 .. MaxClock \union {None}]
    BY <1>2 DEF Mint, Local, TypeOK, StoreTypes
  <2> QED BY <1>2, <2>1 DEF Mint, Local, TypeOK, StoreTypes, RowsOwned, dials, postgres,
                           click, operator
<1>3. CASE Stop(p)
  <2>1. PICK x \in Process : LocalOf(x) /\ pod' = [pod EXCEPT ![p] = x]
    BY <1>1, <1>3 DEF Stop, Process, Steps, LocalOf
  <2>2. StoreTypes' /\ RowsOwned'
    BY <1>3 DEF Stop, Local, TypeOK, StoreTypes, RowsOwned, dials, postgres, click, operator
  <2> QED BY <2>1, <2>2, PodStep DEF Local, TypeOK
<1>4. CASE Drained(p) \/ Die(p)
  <2>1. Exit(p) /\ UNCHANGED <<clock, rotations, pgLedger, pgRuns, click, keys, lastMint, rolled>>
        /\ faults' \in 0 .. MaxFaults
    <3>1. CASE Drained(p)
      BY <3>1 DEF Drained, dials, Local, TypeOK, StoreTypes
    <3>2. CASE Die(p)
      <4>1. faults \in 0 .. MaxFaults /\ faults > 0 /\ faults' = faults - 1
        BY <3>2 DEF Die, Local, TypeOK, StoreTypes
      <4>2. faults' \in 0 .. MaxFaults
        BY <4>1, StartupAssumption
      <4> QED BY <3>2, <4>2 DEF Die
    <3> QED BY <1>4, <3>1, <3>2
  <2>2. StoreTypes' /\ RowsOwned'
    BY <2>1, ExitLocal DEF Local, TypeOK, StoreTypes, RowsOwned, click
  <2> QED BY <2>1, <2>2, DownLocal, ExitLocal, PodStep DEF Local, TypeOK
<1> QED BY <1>2, <1>3, <1>4

(* And what happens outside the pods. *)
LEMMA OutsideLocal ==
    ASSUME Local, \/ \E k \in Kids : Deactivate(k) \/ Activate(k) \/ Retire(k)
                  \/ LoseLock \/ Tick \/ UNCHANGED vars
    PROVE  Local'
<1> USE DEF Local, TypeOK
<1>1. CASE \E k \in Kids : Deactivate(k) \/ Activate(k) \/ Retire(k)
  <2>1. PICK k \in Kids : Deactivate(k) \/ Activate(k) \/ Retire(k)
    BY <1>1
  <2>2. pod' = pod
    BY <2>1 DEF Deactivate, Activate, Retire
  <2>3. StoreTypes' /\ RowsOwned'
    <3>1. CASE Deactivate(k)
      <4>1. rotations' \in 0 .. MaxRotations
        BY <3>1, StartupAssumption DEF Deactivate, StoreTypes
      <4> QED BY <3>1, <4>1 DEF Deactivate, StoreTypes, RowsOwned, postgres, click
    <3>2. CASE Activate(k)
      BY <3>2 DEF Activate, StoreTypes, RowsOwned, dials, postgres, click, operator, Makers
    <3>3. CASE Retire(k)
      BY <3>3 DEF Retire, StoreTypes, RowsOwned, dials, postgres, click, operator
    <3> QED BY <2>1, <3>1, <3>2, <3>3
  <2> QED BY <2>2, <2>3
<1>2. CASE LoseLock \/ Tick \/ UNCHANGED vars
  <2>1. StoreTypes' /\ RowsOwned' /\ pod' = pod
    BY <1>2, StartupAssumption DEF LoseLock, Tick, vars, StoreTypes, RowsOwned, dials, postgres,
                click, operator
  <2> QED BY <2>1
<1> QED BY <1>1, <1>2

(* Local is an invariant. *)
LEMMA NextLocal == Local /\ [Next]_vars => Local'
  BY BootLocal, ServeLocal, OutsideLocal DEF Next

(* Every process and every table stays within its type, and no pod holds   *)
(* more connections than its pool has.                                     *)
THEOREM TypeCorrect == Spec => []TypeOK
<1>1. Spec => []Local
  BY InitLocal, NextLocal, PTL DEF Spec
<1> QED BY <1>1, PTL DEF Local

--------------------------------------------------------------------------------
MigratedPg == {"ledger", "ch", "insert", "recheck", "load", "loaded", "serving", "draining"}
MigratedCh == MigratedPg \ {"ledger", "ch"}

(* What a process may rely on in Postgres: the files it has passed are      *)
(* committed, and all of them once it has unlocked.                         *)
PgOf(x) ==
    /\ x.pc \in {"pg", "pgtx"} => \A f \in PgNames : f < x.file => f \in pgLedger
    /\ x.pc \in MigratedPg => pgLedger = PgNames

PgMigrating == PgExactlyOnce /\ \A p \in Pods : PgOf(pod[p])

(* A step that leaves Postgres alone, of a process that relies on no more.  *)
LEMMA PgKeeps ==
    ASSUME PgMigrating, NEW p \in Pods, NEW pc, NEW file, NEW stmt, NEW applied,
           Shift(p, pc, file, stmt, applied), UNCHANGED <<pgLedger, pgRuns>>,
           pc \in {"pg", "pgtx"} => \A f \in PgNames : f < file => f \in pgLedger,
           pc \in MigratedPg => pgLedger = PgNames
    PROVE  PgMigrating'
<1>1. ASSUME NEW q \in Pods PROVE PgOf(pod[q])'
  <2>1. PgOf(pod[q])
    BY DEF PgMigrating
  <2>2. CASE q = p
    BY <2>2 DEF PgOf, Shift
  <2>3. CASE q # p
    BY <2>1, <2>3 DEF PgOf, Shift
  <2> QED BY <2>2, <2>3
<1> QED BY <1>1 DEF PgMigrating, PgExactlyOnce

(* The next file is committed: it was not in the ledger, and the files      *)
(* before it were.                                                          *)
LEMMA CommitPg ==
    ASSUME Local, PgMigrating, NEW p \in Pods, Commit(p), ~Conflict(p) PROVE PgMigrating'
<1> DEFINE n == pod[p].file
<1>1. n \in PgNames /\ n \notin pgLedger /\ PgOf(pod[p]) /\ pod[p].pc = "pgtx"
  BY DEF Commit, Conflict, At, Local, LocalOf, PgMigrating
<1>2. \A f \in PgNames : f < n => f \in pgLedger
  BY <1>1 DEF PgOf
<1>3. pgLedger' = pgLedger \union {n}
  BY DEF Commit
<1>4. \A f \in PgNames : pgRuns'[f] = IF f = n THEN pgRuns[f] + 1 ELSE pgRuns[f]
  BY DEF Commit, Local, TypeOK, StoreTypes
<1>5. PgExactlyOnce'
  <2> SUFFICES ASSUME NEW f \in PgNames
               PROVE  /\ pgRuns'[f] = (IF f \in pgLedger' THEN 1 ELSE 0)
                      /\ f \in pgLedger' => 1 .. f \subseteq pgLedger'
    BY DEF PgExactlyOnce
  <2>1. pgRuns[f] = (IF f \in pgLedger THEN 1 ELSE 0) /\ (f \in pgLedger => 1 .. f \subseteq pgLedger)
    BY DEF PgMigrating, PgExactlyOnce
  <2>2. 1 .. n \subseteq pgLedger'
    BY <1>1, <1>2, <1>3, StartupAssumption DEF PgNames
  <2> QED BY <1>1, <1>3, <1>4, <2>1, <2>2
<1>6. Shift(p, "pg", n + 1, pod[p].stmt, pod[p].applied)
  BY Shifts
<1>7. ASSUME NEW q \in Pods PROVE PgOf(pod[q])'
  <2>1. PgOf(pod[q])
    BY DEF PgMigrating
  <2>2. CASE q = p
    <3>1. pod'[q].pc = "pg" /\ pod'[q].file = n + 1
      BY <1>6, <2>2 DEF Shift
    <3>2. \A f \in PgNames : f < n + 1 => f \in pgLedger'
      BY <1>1, <1>2, <1>3 DEF PgNames
    <3> QED BY <3>1, <3>2 DEF PgOf, MigratedPg
  <2>3. CASE q # p
    <3>1. pod'[q] = pod[q] /\ pgLedger \subseteq pgLedger' /\ pgLedger' \subseteq PgNames
      BY <1>1, <1>3, <1>6, <2>3 DEF Shift, Local, TypeOK, StoreTypes
    <3> QED BY <2>1, <3>1 DEF PgOf
  <2> QED BY <2>2, <2>3
<1> QED BY <1>5, <1>7 DEF PgMigrating

(* The initial state. *)
LEMMA InitPg == Init => PgMigrating
  BY DEF Init, PgMigrating, PgExactlyOnce, PgOf, Down, MigratedPg

(* PgMigrating is an invariant. *)
LEMMA NextPg == Local /\ PgMigrating /\ [Next]_vars => PgMigrating'
<1> SUFFICES ASSUME Local, PgMigrating, [Next]_vars PROVE PgMigrating'
  OBVIOUS
<1>1. ASSUME NEW p \in Pods, Boot(p) \/ Stop(p) \/ Drained(p) \/ Die(p) PROVE PgMigrating'
  <2>1. pod[p] \in Process /\ LocalOf(pod[p]) /\ PgOf(pod[p])
    BY DEF Local, TypeOK, PgMigrating
  <2>2. ASSUME Exit(p), UNCHANGED <<pgLedger, pgRuns>> PROVE PgMigrating'
    BY <2>2, Shifts, PgKeeps DEF MigratedPg
  <2>3. ASSUME NEW pc, NEW file, NEW stmt, NEW applied, Shift(p, pc, file, stmt, applied),
               pc \notin {"pg", "pgtx"}, pod[p].pc \in MigratedPg,
               UNCHANGED <<pgLedger, pgRuns>>
        PROVE  PgMigrating'
    BY <2>1, <2>3, PgKeeps DEF PgOf
  <2>4. CASE Start(p)
    <3>1. UNCHANGED <<pgLedger, pgRuns>>
      BY <2>4 DEF Start, postgres
    <3> QED BY <2>4, <3>1, Shifts, PgKeeps DEF MigratedPg
  <2>5. CASE Lock(p)
    <3>1. UNCHANGED <<pgLedger, pgRuns>> /\ \A f \in PgNames : f < pod[p].file => f \in pgLedger
      BY <2>1, <2>5 DEF Lock, At, LocalOf, PgNames
    <3> QED BY <2>5, <3>1, Shifts, PgKeeps DEF MigratedPg
  <2>6. CASE Begin(p)
    <3>1. UNCHANGED <<pgLedger, pgRuns>> /\ \A f \in PgNames : f < pod[p].file => f \in pgLedger
      BY <2>1, <2>6 DEF Begin, At, PgOf, postgres
    <3>2. CASE pod[p].file \in pgLedger
      <4>1. \A f \in PgNames : f < pod[p].file + 1 => f \in pgLedger
        BY <2>1, <3>1, <3>2 DEF Process, PgNames
      <4> QED BY <2>6, <3>1, <3>2, <4>1, Shifts, PgKeeps DEF MigratedPg
    <3>3. CASE pod[p].file \notin pgLedger
      BY <2>6, <3>1, <3>3, Shifts, PgKeeps DEF MigratedPg
    <3> QED BY <3>2, <3>3
  <2>7. CASE Commit(p)
    <3>1. CASE Conflict(p)
      BY <2>2, <2>7, <3>1 DEF Commit
    <3> QED BY <2>7, <3>1, CommitPg
  <2>8. CASE Migrated(p)
    <3>1. /\ UNCHANGED <<pgLedger, pgRuns>> /\ pod[p].file \notin PgNames
          /\ \A f \in PgNames : f < pod[p].file => f \in pgLedger
      BY <2>1, <2>8 DEF Migrated, At, PgOf
    <3>2. \A f \in PgNames : f < pod[p].file
      BY <2>1, <3>1, StartupAssumption DEF LocalOf, Process, PgNames
    <3>3. pgLedger = PgNames
      BY <3>1, <3>2 DEF Local, TypeOK, StoreTypes
    <3> QED BY <2>8, <3>1, <3>3, Shifts, PgKeeps
  <2>9. CASE ReadLedger(p) \/ Execute(p) \/ Record(p) \/ Skip(p) \/ NotExists(p)
    <3>1. pod[p].pc \in MigratedPg /\ UNCHANGED <<pgLedger, pgRuns>>
      BY <2>9 DEF ReadLedger, Execute, Record, Skip, NotExists, At, postgres, MigratedPg
    <3> QED BY <2>3, <2>9, <3>1, Shifts
  <2>10. CASE Insert(p) \/ Listen(p) \/ Stop(p)
    <3>1. pod[p].pc \in MigratedPg /\ UNCHANGED <<pgLedger, pgRuns>>
      BY <2>10 DEF Insert, Listen, Stop, At, postgres, MigratedPg
    <3> QED BY <2>3, <2>10, <3>1, Shifts
  <2>11. CASE Recheck(p) \/ Load(p)
    <3>1. pod[p].pc \in MigratedPg /\ UNCHANGED <<pgLedger, pgRuns>>
      BY <2>11 DEF Recheck, Load, At, MigratedPg
    <3>2. CASE Exit(p)
      BY <2>2, <3>1, <3>2
    <3>3. CASE ~Exit(p)
      <4>1. (Recheck(p) => Active # {}) /\ (Load(p) => ActiveSigningKey(p) # {})
        BY <3>3 DEF Recheck, Load
      <4> QED BY <2>3, <2>11, <3>1, <4>1, Shifts
    <3> QED BY <3>2, <3>3
  <2>12. CASE Drained(p) \/ Die(p)
    BY <2>2, <2>12 DEF Drained, Die
  <2> QED BY <1>1, <2>4, <2>5, <2>6, <2>7, <2>8, <2>9, <2>10, <2>11, <2>12 DEF Boot
<1>2. CASE UNCHANGED <<pgLedger, pgRuns, pod>>
  BY <1>2 DEF PgMigrating, PgExactlyOnce, PgOf
<1>3. ASSUME NEW p \in Pods, Mint(p) PROVE PgMigrating'
  BY <1>2, <1>3 DEF Mint, postgres
<1>4. ASSUME NEW k \in Kids, Deactivate(k) \/ Activate(k) \/ Retire(k) PROVE PgMigrating'
  BY <1>2, <1>4 DEF Deactivate, Activate, Retire, postgres
<1>5. CASE LoseLock \/ Tick \/ UNCHANGED vars
  BY <1>2, <1>5 DEF LoseLock, Tick, vars, postgres
<1> QED BY <1>1, <1>3, <1>4, <1>5 DEF Next

(* Each Postgres file is committed once and in order, with the lock or      *)
(* without it: the ledger's primary key alone is enough.                    *)
THEOREM PostgresAppliedOnce == Spec => []PgExactlyOnce
<1>1. Spec => [](Local /\ PgMigrating)
  BY InitLocal, InitPg, NextLocal, NextPg, PTL DEF Spec
<1> QED BY <1>1, PTL DEF PgMigrating

--------------------------------------------------------------------------------
(* And in ClickHouse, where it trusts the ledger it read.                   *)
Passed(x, s) == s[1] < x.file \/ (s[1] = x.file /\ s[2] < x.stmt)
ChOf(x) ==
    /\ x.pc = "ch" => /\ x.applied \subseteq chLedger
                      /\ x.file \in x.applied => x.stmt = 1
                      /\ \A s \in Stmts : Passed(x, s) => chRuns[s] > 0
    /\ x.pc \in MigratedCh => \A s \in Stmts : chRuns[s] > 0

Recorded == \A f \in chLedger, s \in Stmts : s[1] <= f => chRuns[s] > 0

ChMigrating == Recorded /\ \A p \in Pods : ChOf(pod[p])

(* The statements of a file are numbered from 1. *)
LEMMA StmtShape ==
    /\ \A s \in Stmts : /\ s = <<s[1], s[2]>> /\ s[1] \in ChNames /\ s[1] \in Nat
                        /\ s[2] \in Nat /\ s[2] >= 1 /\ s[2] <= Statements[s[1]]
    /\ \A f \in ChNames, n \in Nat : n >= 1 /\ n <= Statements[f] => <<f, n>> \in Stmts
<1>1. \A f \in ChNames : Statements[f] \in Nat /\ f \in Nat
  BY StartupAssumption DEF ChNames
<1>2. ASSUME NEW s \in Stmts
      PROVE  /\ s = <<s[1], s[2]>> /\ s[1] \in ChNames /\ s[1] \in Nat
             /\ s[2] \in Nat /\ s[2] >= 1 /\ s[2] <= Statements[s[1]]
  <2>1. PICK f \in ChNames : s \in {f} \X (1 .. Statements[f])
    BY DEF Stmts
  <2> QED BY <1>1, <2>1
<1>3. ASSUME NEW f \in ChNames, NEW n \in Nat, n >= 1, n <= Statements[f]
      PROVE  <<f, n>> \in Stmts
  <2>1. <<f, n>> \in {f} \X (1 .. Statements[f])
    BY <1>1, <1>3
  <2> QED BY <2>1 DEF Stmts
<1> QED BY <1>2, <1>3

(* A step that leaves ClickHouse alone, of a process that relies on no more. *)
LEMMA ChKeeps ==
    ASSUME ChMigrating, NEW p \in Pods, \A q \in Pods \ {p} : pod'[q] = pod[q],
           ChOf(pod'[p]), UNCHANGED <<chLedger, chRuns>>
    PROVE  ChMigrating'
<1>1. ASSUME NEW q \in Pods PROVE ChOf(pod[q])'
  <2>1. ChOf(pod[q])
    BY DEF ChMigrating
  <2>2. CASE q = p
    BY <2>2 DEF ChOf, Passed
  <2>3. CASE q # p
    BY <2>1, <2>3 DEF ChOf, Passed
  <2> QED BY <2>2, <2>3
<1> QED BY <1>1 DEF ChMigrating, Recorded

(* The ledger and the counts only grow, and take nothing from the others.   *)
LEMMA ChGrows ==
    ASSUME ChMigrating, NEW q \in Pods, pod'[q] = pod[q], chLedger \subseteq chLedger',
           \A s \in Stmts : chRuns[s] > 0 => chRuns'[s] > 0
    PROVE  ChOf(pod[q])'
<1>1. ChOf(pod[q])
  BY DEF ChMigrating
<1> QED BY <1>1 DEF ChOf, Passed

(* A statement runs. *)
LEMMA ExecuteCh == ASSUME Local, ChMigrating, NEW p \in Pods, Execute(p) PROVE ChMigrating'
<1> DEFINE x == pod[p]
           t == <<x.file, x.stmt>>
<1>1. x.file \in Nat /\ x.stmt \in Nat /\ x.file \notin x.applied /\ t \in Stmts /\ x.pc = "ch"
  BY DEF Execute, Complete, At, Local, TypeOK, Process
<1>2. chLedger' = chLedger /\ \A s \in Stmts : chRuns'[s] = IF s = t THEN chRuns[s] + 1 ELSE chRuns[s]
  BY DEF Execute, Local, TypeOK, StoreTypes
<1>3. \A s \in Stmts : chRuns[s] \in Nat
  BY DEF Local, TypeOK, StoreTypes
<1>4. chRuns'[t] > 0 /\ \A s \in Stmts : chRuns[s] > 0 => chRuns'[s] > 0
  BY <1>1, <1>2, <1>3
<1>5. Shift(p, "ch", x.file, x.stmt + 1, x.applied)
  BY Shifts
<1>6. ChOf(pod[p])'
  <2>1. ChOf(x)
    BY DEF ChMigrating
  <2>2. ASSUME NEW s \in Stmts, Passed(pod'[p], s) PROVE chRuns'[s] > 0
    <3>1. s[1] < x.file \/ (s[1] = x.file /\ s[2] < x.stmt + 1)
      BY <1>5, <2>2 DEF Passed, Shift
    <3>2. Passed(x, s) \/ s = t
      BY <1>1, <3>1, StmtShape DEF Passed
    <3> QED BY <1>1, <1>4, <2>1, <3>2 DEF ChOf
  <2>3. pod'[p].pc = "ch" /\ pod'[p].file = x.file /\ pod'[p].applied = x.applied
    BY <1>5 DEF Shift
  <2>4. x.applied \subseteq chLedger
    BY <1>1, <2>1 DEF ChOf
  <2> QED BY <1>1, <1>2, <2>2, <2>3, <2>4 DEF ChOf, Passed, MigratedCh
<1>7. ASSUME NEW q \in Pods PROVE ChOf(pod[q])'
  BY <1>2, <1>4, <1>5, <1>6, ChGrows DEF Shift
<1> QED BY <1>2, <1>4, <1>7 DEF ChMigrating, Recorded

(* A file is recorded: all its statements have run, and all before it.      *)
LEMMA RecordCh == ASSUME Local, ChMigrating, NEW p \in Pods, Record(p) PROVE ChMigrating'
<1> DEFINE x == pod[p]
<1>1. /\ x.file \in ChNames /\ x.file \in Nat /\ x.stmt \in Nat /\ x.stmt # 0
      /\ <<x.file, x.stmt>> \notin Stmts /\ x.pc = "ch" /\ ChOf(x)
  BY DEF Record, Complete, At, Local, TypeOK, Process, LocalOf, ChMigrating
<1>2. chRuns' = chRuns /\ chLedger' = chLedger \union {x.file}
  BY DEF Record
<1>3. x.stmt > Statements[x.file]
  <2>1. Statements[x.file] \in Nat
    BY <1>1, StartupAssumption DEF ChNames
  <2>2. ~(x.stmt >= 1 /\ x.stmt <= Statements[x.file])
    BY <1>1, StmtShape
  <2> QED BY <1>1, <2>1, <2>2
<1>4. ASSUME NEW s \in Stmts, s[1] <= x.file PROVE chRuns[s] > 0
  <2>1. s[1] < x.file \/ (s[1] = x.file /\ s[2] < x.stmt)
    BY <1>1, <1>3, <1>4, StmtShape, StartupAssumption DEF ChNames
  <2> QED BY <1>1, <2>1 DEF ChOf, Passed
<1>5. Recorded'
  BY <1>2, <1>4 DEF Recorded, ChMigrating
<1>6. Shift(p, "ch", x.file + 1, 1, x.applied)
  BY Shifts
<1>7. ChOf(pod[p])'
  <2>1. ASSUME NEW s \in Stmts, Passed(pod'[p], s) PROVE chRuns[s] > 0
    <3>1. s[1] < x.file + 1 \/ s[2] < 1
      BY <1>6, <2>1 DEF Passed, Shift
    <3>2. s[1] <= x.file
      BY <1>1, <3>1, StmtShape
    <3> QED BY <1>4, <3>2
  <2>2. pod'[p].pc = "ch" /\ pod'[p].stmt = 1 /\ pod'[p].applied = x.applied
    BY <1>6 DEF Shift
  <2> QED BY <1>1, <1>2, <2>1, <2>2 DEF ChOf, Passed, MigratedCh
<1>8. ASSUME NEW q \in Pods PROVE ChOf(pod[q])'
  BY <1>2, <1>6, <1>7, ChGrows DEF Shift
<1> QED BY <1>5, <1>8 DEF ChMigrating

(* A file the ledger had is passed over. *)
LEMMA SkipCh == ASSUME Local, ChMigrating, NEW p \in Pods, Skip(p) PROVE ChMigrating'
<1> DEFINE x == pod[p]
<1>1. x.file \in Nat /\ x.pc = "ch" /\ x.file \in x.applied /\ ChOf(x) /\ UNCHANGED <<chLedger, chRuns>>
  BY DEF Skip, At, Local, TypeOK, Process, ChMigrating, click
<1>2. x.stmt = 1 /\ x.file \in chLedger /\ x.applied \subseteq chLedger
  BY <1>1 DEF ChOf
<1>3. Shift(p, "ch", x.file + 1, 1, x.applied)
  BY <1>2, Shifts
<1>4. ASSUME NEW s \in Stmts, Passed(pod'[p], s) PROVE chRuns[s] > 0
  <2>1. s[1] < x.file + 1 \/ s[2] < 1
    BY <1>3, <1>4 DEF Passed, Shift
  <2>2. s[1] <= x.file
    BY <1>1, <2>1, StmtShape
  <2> QED BY <1>2, <2>2 DEF ChMigrating, Recorded
<1>5. ChOf(pod'[p])
  BY <1>2, <1>3, <1>4 DEF ChOf, Shift, MigratedCh
<1> QED BY <1>1, <1>3, <1>5, ChKeeps DEF Shift

(* The first and the last step of clickhouse.Migrate. *)
LEMMA EndsCh ==
    ASSUME Local, ChMigrating, NEW p \in Pods, ReadLedger(p) \/ NotExists(p) PROVE ChMigrating'
<1> DEFINE x == pod[p]
<1>1. x \in Process /\ LocalOf(x) /\ ChOf(x) /\ UNCHANGED <<chLedger, chRuns>>
  BY DEF ReadLedger, NotExists, Local, TypeOK, ChMigrating, click
<1>2. CASE ReadLedger(p)
  <2>1. x.file = 1 /\ x.stmt = 1
    BY <1>1, <1>2 DEF ReadLedger, At, LocalOf
  <2>2. Shift(p, "ch", 1, 1, chLedger)
    BY <1>2, <2>1, Shifts
  <2>3. \A s \in Stmts : ~Passed(pod'[p], s)
    BY <2>2, StmtShape DEF Passed, Shift, ChNames
  <2>4. ChOf(pod'[p])
    BY <2>2, <2>3 DEF ChOf, Shift, MigratedCh
  <2> QED BY <1>1, <2>2, <2>4, ChKeeps DEF Shift
<1>3. CASE NotExists(p)
  <2>1. x.pc = "ch" /\ x.file \notin ChNames
    BY <1>3 DEF NotExists, At
  <2>2. \A s \in Stmts : s[1] < x.file
    BY <1>1, <2>1, StmtShape, StartupAssumption DEF LocalOf, Process, ChNames
  <2>3. \A s \in Stmts : chRuns[s] > 0
    BY <1>1, <2>1, <2>2 DEF ChOf, Passed
  <2>4. pod'[p].pc # "ch" /\ \A q \in Pods \ {p} : pod'[q] = pod[q]
    BY <1>3, Shifts DEF Shift
  <2>5. ChOf(pod'[p])
    BY <2>3, <2>4 DEF ChOf
  <2> QED BY <1>1, <2>4, <2>5, ChKeeps
<1> QED BY <1>2, <1>3

(* The initial state. *)
LEMMA InitCh == Init => ChMigrating
  BY DEF Init, ChMigrating, Recorded, ChOf, Down, MigratedPg, MigratedCh

(* ChMigrating is an invariant. *)
LEMMA NextCh == Local /\ ChMigrating /\ [Next]_vars => ChMigrating'
<1> SUFFICES ASSUME Local, ChMigrating, [Next]_vars PROVE ChMigrating'
  OBVIOUS
<1>1. ASSUME NEW p \in Pods, Boot(p) \/ Stop(p) \/ Drained(p) \/ Die(p) PROVE ChMigrating'
  <2>1. ChOf(pod[p])
    BY DEF ChMigrating
  <2>2. ASSUME NEW pc, NEW file, NEW stmt, NEW applied, Shift(p, pc, file, stmt, applied),
               pc # "ch", pc \in MigratedCh => pod[p].pc \in MigratedCh,
               UNCHANGED <<chLedger, chRuns>>
        PROVE  ChMigrating'
    <3>1. ChOf(pod'[p])
      BY <2>1, <2>2 DEF ChOf, Shift
    <3> QED BY <2>2, <3>1, ChKeeps DEF Shift
  <2>3. ASSUME Exit(p), UNCHANGED click PROVE ChMigrating'
    BY <2>2, <2>3, Shifts DEF MigratedPg, MigratedCh, click
  <2>4. CASE Start(p) \/ Lock(p) \/ Begin(p) \/ Migrated(p)
    <3>1. UNCHANGED <<chLedger, chRuns>>
      BY <2>4 DEF Start, Lock, Begin, Migrated, click
    <3> QED BY <2>2, <2>4, <3>1, Shifts DEF MigratedPg, MigratedCh
  <2>5. CASE Commit(p)
    <3>1. UNCHANGED <<chLedger, chRuns>>
      BY <2>5 DEF Commit, click
    <3>2. CASE Conflict(p)
      BY <2>3, <2>5, <3>2 DEF Commit
    <3> QED BY <2>2, <2>5, <3>1, <3>2, Shifts DEF MigratedPg, MigratedCh
  <2>6. CASE Insert(p) \/ Listen(p) \/ Stop(p)
    <3>1. pod[p].pc \in MigratedCh /\ UNCHANGED <<chLedger, chRuns>>
      BY <2>6 DEF Insert, Listen, Stop, At, click, MigratedPg, MigratedCh
    <3> QED BY <2>2, <2>6, <3>1, Shifts
  <2>7. CASE Recheck(p) \/ Load(p)
    <3>1. pod[p].pc \in MigratedCh /\ UNCHANGED <<chLedger, chRuns>> /\ UNCHANGED click
      BY <2>7 DEF Recheck, Load, At, click, MigratedPg, MigratedCh
    <3>2. CASE Exit(p)
      BY <2>3, <3>1, <3>2
    <3>3. CASE ~Exit(p)
      <4>1. (Recheck(p) => Active # {}) /\ (Load(p) => ActiveSigningKey(p) # {})
        BY <3>3 DEF Recheck, Load
      <4> QED BY <2>2, <2>7, <3>1, <4>1, Shifts
    <3> QED BY <3>2, <3>3
  <2>8. CASE Drained(p) \/ Die(p)
    BY <2>3, <2>8 DEF Drained, Die
  <2> QED BY <1>1, <2>4, <2>5, <2>6, <2>7, <2>8, ExecuteCh, RecordCh, SkipCh, EndsCh DEF Boot
<1>2. CASE UNCHANGED <<chLedger, chRuns, pod>>
  BY <1>2 DEF ChMigrating, Recorded, ChOf, Passed
<1>3. ASSUME NEW p \in Pods, Mint(p) PROVE ChMigrating'
  BY <1>2, <1>3 DEF Mint, click
<1>4. ASSUME NEW k \in Kids, Deactivate(k) \/ Activate(k) \/ Retire(k) PROVE ChMigrating'
  BY <1>2, <1>4 DEF Deactivate, Activate, Retire, click
<1>5. CASE LoseLock \/ Tick \/ UNCHANGED vars
  BY <1>2, <1>5 DEF LoseLock, Tick, vars, click
<1> QED BY <1>1, <1>3, <1>4, <1>5 DEF Next

(* A recorded file is complete, and a pod that serves finds both schemas    *)
(* complete, for any number of files and statements.                        *)
THEOREM SchemasComplete == Spec => []SchemaBeforeTraffic
<1>1. PgMigrating /\ ChMigrating => SchemaBeforeTraffic
  <2> SUFFICES ASSUME PgMigrating, ChMigrating PROVE SchemaBeforeTraffic
    OBVIOUS
  <2>1. ASSUME NEW p \in Pods, At(p, "serving")
        PROVE  pgLedger = PgNames /\ \A s \in Stmts : chRuns[s] > 0
    <3>1. pod[p].pc \in MigratedCh /\ pod[p].pc \in MigratedPg
      BY <2>1 DEF At, MigratedPg, MigratedCh
    <3> QED BY <3>1 DEF PgMigrating, PgOf, ChMigrating, ChOf
  <2> QED BY <2>1 DEF SchemaBeforeTraffic, ChMigrating, Recorded
<1>2. Spec => [](Local /\ PgMigrating /\ ChMigrating)
  BY InitLocal, InitPg, InitCh, NextLocal, NextPg, NextCh, PTL DEF Spec
<1> QED BY <1>1, <1>2, PTL

--------------------------------------------------------------------------------
(* Until the first fault the advisory lock does its work.                   *)
Serial ==
    faults = MaxFaults =>
        \A p \in Pods : /\ pod[p].pc \in {"pg", "pgtx"} => lock = p
                        /\ At(p, "pgtx") => pod[p].file \notin pgLedger

(* The initial state. *)
LEMMA InitSerial == Init => Serial
  BY DEF Init, Serial, Down, At

(* A step of one process that neither enters nor is in a migration.         *)
LEMMA SerialKeeps ==
    ASSUME Serial, faults = MaxFaults, NEW p \in Pods,
           \A q \in Pods \ {p} : pod'[q] = pod[q], pod'[p].pc \notin {"pg", "pgtx"},
           lock' = lock \/ lock = p, pgLedger' = pgLedger
    PROVE  Serial'
<1>1. \A q \in Pods : /\ pod[q].pc = "pg" \/ pod[q].pc = "pgtx" => lock = q
                      /\ pod[q].pc = "pgtx" => pod[q].file \notin pgLedger
  BY DEF Serial, At
<1> QED BY <1>1 DEF Serial, At

(* Every step of a pod, until the first fault. *)
LEMMA PodSerial ==
    ASSUME Local, Serial, faults = MaxFaults, NEW p \in Pods,
           Boot(p) \/ Stop(p) \/ Drained(p)
    PROVE  Serial'
<1>1. \A q \in Pods : /\ pod[q].pc = "pg" \/ pod[q].pc = "pgtx" => lock = q
                      /\ pod[q].pc = "pgtx" => pod[q].file \notin pgLedger
  BY DEF Serial, At
<1>2. ASSUME Exit(p), pgLedger' = pgLedger PROVE Serial'
  <2>1. Shift(p, "down", 1, 1, {}) /\ (lock' = lock \/ lock = p)
    BY <1>2, Shifts DEF Exit
  <2> QED BY <1>2, <2>1, SerialKeeps DEF Shift
<1>3. ASSUME NEW pc, NEW file, NEW stmt, NEW applied, Shift(p, pc, file, stmt, applied),
             pc \notin {"pg", "pgtx"}, lock' = lock, pgLedger' = pgLedger
      PROVE  Serial'
  BY <1>3, SerialKeeps DEF Shift
<1>4. CASE Lock(p)
  <2>1. lock = None /\ lock' = p /\ pgLedger' = pgLedger
    BY <1>4 DEF Lock, Granted
  <2>2. \A q \in Pods : pod[q].pc # "pg" /\ pod[q].pc # "pgtx"
    BY <1>1, <2>1, StartupAssumption
  <2>3. pod'[p].pc = "pg" /\ \A q \in Pods \ {p} : pod'[q] = pod[q]
    BY <1>4, Shifts DEF Shift
  <2> QED BY <2>1, <2>2, <2>3 DEF Serial, At
<1>5. CASE Begin(p)
  <2>1. lock' = lock /\ pgLedger' = pgLedger /\ pod[p].pc = "pg"
    BY <1>5 DEF Begin, At, postgres
  <2>2. /\ \A q \in Pods \ {p} : pod'[q] = pod[q]
        /\ pod'[p].pc = "pgtx" => pod'[p].file \notin pgLedger
    BY <1>5, Shifts DEF Shift
  <2> QED BY <1>1, <2>1, <2>2 DEF Serial, At
<1>6. CASE Commit(p)
  <2>1. pod[p].pc = "pgtx" /\ ~Conflict(p) /\ lock = p
    BY <1>1, <1>6 DEF Commit, At, Conflict
  <2>2. lock' = lock
    BY <1>6, <2>1 DEF Commit
  <2>3. pod'[p].pc = "pg" /\ \A q \in Pods \ {p} : pod'[q] = pod[q]
    BY <1>6, <2>1, Shifts DEF Shift
  <2> QED BY <1>1, <2>1, <2>2, <2>3 DEF Serial, At
<1>7. CASE Migrated(p)
  <2>1. pod'[p].pc = "ledger" /\ \A q \in Pods \ {p} : pod'[q] = pod[q]
    BY <1>7, Shifts DEF Shift
  <2>2. pgLedger' = pgLedger /\ lock = p
    BY <1>1, <1>7 DEF Migrated, At
  <2> QED BY <2>1, <2>2, SerialKeeps
<1>8. CASE Start(p) \/ ReadLedger(p) \/ Execute(p) \/ Record(p) \/ Skip(p) \/ NotExists(p)
  <2>1. lock' = lock /\ pgLedger' = pgLedger
    BY <1>8 DEF Start, ReadLedger, Execute, Record, Skip, NotExists, postgres
  <2> QED BY <1>3, <1>8, <2>1, Shifts
<1>9. CASE Insert(p) \/ Listen(p) \/ Stop(p)
  <2>1. lock' = lock /\ pgLedger' = pgLedger
    BY <1>9 DEF Insert, Listen, Stop, postgres
  <2> QED BY <1>3, <1>9, <2>1, Shifts
<1>10. CASE Recheck(p) \/ Load(p) \/ Drained(p)
  <2>1. pgLedger' = pgLedger
    BY <1>10 DEF Recheck, Load, Drained
  <2>2. CASE Exit(p)
    BY <1>2, <2>1, <2>2
  <2>3. CASE ~Exit(p)
    <3>1. /\ (Recheck(p) => Active # {}) /\ (Load(p) => ActiveSigningKey(p) # {})
          /\ ~Drained(p) /\ lock' = lock
      BY <1>10, <2>3 DEF Recheck, Load, Drained
    <3> QED BY <1>3, <1>10, <2>1, <3>1, Shifts
  <2> QED BY <2>2, <2>3
<1> QED BY <1>4, <1>5, <1>6, <1>7, <1>8, <1>9, <1>10 DEF Boot

(* Faults are only spent. *)
LEMMA FaultsSpent ==
    ASSUME Local, [Next]_vars, ~(faults' < MaxFaults)
    PROVE  /\ faults = MaxFaults
           /\ \/ \E p \in Pods : Boot(p) \/ Stop(p) \/ Drained(p)
              \/ UNCHANGED <<lock, pgLedger, pod>>
<1>1. faults \in Nat /\ faults <= MaxFaults /\ MaxFaults \in Nat
  BY StartupAssumption DEF Local, TypeOK, StoreTypes
<1>2. ASSUME NEW p \in Pods, Boot(p) PROVE faults' = faults
  BY <1>2 DEF Boot, Start, Lock, Begin, Commit, Migrated, ReadLedger, Execute, Record, Skip,
              NotExists, Insert, Recheck, Load, Listen, dials
<1>3. ASSUME NEW p \in Pods, Stop(p) \/ Drained(p) PROVE faults' = faults
  BY <1>3 DEF Stop, Drained, dials
<1>4. ASSUME NEW p \in Pods, Mint(p) PROVE faults' = faults /\ UNCHANGED <<lock, pgLedger, pod>>
  BY <1>4 DEF Mint, dials, postgres
<1>5. ASSUME NEW k \in Kids, Deactivate(k) \/ Activate(k) \/ Retire(k)
      PROVE  faults' = faults /\ UNCHANGED <<lock, pgLedger, pod>>
  BY <1>5 DEF Deactivate, Activate, Retire, dials, postgres
<1>6. ASSUME Tick \/ UNCHANGED vars PROVE faults' = faults /\ UNCHANGED <<lock, pgLedger, pod>>
  BY <1>6 DEF Tick, vars, dials, postgres
<1>7. ASSUME LoseLock \/ \E p \in Pods : Die(p) PROVE FALSE
  <2>1. faults' = faults - 1
    BY <1>7 DEF LoseLock, Die
  <2> QED BY <1>1, <2>1
<1> QED BY <1>1, <1>2, <1>3, <1>4, <1>5, <1>6, <1>7 DEF Next

(* Serial is an invariant. *)
LEMMA NextSerial == Local /\ Serial /\ [Next]_vars => Serial'
<1> SUFFICES ASSUME Local, Serial, [Next]_vars, faults' = MaxFaults PROVE Serial'
  BY DEF Serial
<1>1. ~(faults' < MaxFaults)
  BY StartupAssumption
<1>2. CASE UNCHANGED <<lock, pgLedger, pod>> /\ faults = MaxFaults
  BY <1>2 DEF Serial, At
<1> QED BY <1>1, <1>2, FaultsSpent, PodSerial

(* No pod exits in a migration before the first fault, for any number of    *)
(* pods that start together: what the advisory lock is for.                 *)
THEOREM LockPreventsCrashLoop == Spec => NoCrashLoop
<1> DEFINE Crash(p) == /\ pod[p].pc \in {"lock", "pg", "pgtx", "ledger", "ch"}
                       /\ pod'[p].pc = "down"
<1>1. ASSUME Local, Serial, [Next]_vars, NEW p \in Pods, Crash(p) PROVE faults' < MaxFaults
  <2> SUFFICES ASSUME ~(faults' < MaxFaults) PROVE FALSE
    OBVIOUS
  <2>1. faults = MaxFaults
    BY <1>1, FaultsSpent
  <2>2. ~UNCHANGED <<lock, pgLedger, pod>>
    BY <1>1
  <2>3. PICK q \in Pods : Boot(q) \/ Stop(q) \/ Drained(q)
    BY <1>1, <2>2, FaultsSpent
  <2>4. ASSUME NEW pc, NEW file, NEW stmt, NEW applied, Shift(q, pc, file, stmt, applied)
        PROVE  q = p /\ pc = "down"
    BY <1>1, <2>4 DEF Shift
  <2>5. CASE Start(q) \/ Lock(q) \/ Begin(q) \/ Migrated(q) \/ ReadLedger(q) \/ Execute(q)
             \/ Record(q) \/ Skip(q) \/ NotExists(q)
    BY <1>1, <2>4, <2>5, Shifts
  <2>6. CASE Insert(q) \/ Listen(q) \/ Stop(q)
    BY <1>1, <2>4, <2>6, Shifts
  <2>7. CASE Commit(q)
    <3>1. ~Conflict(q)
      BY <1>1, <2>1, <2>7 DEF Serial, Commit, Conflict, At
    <3> QED BY <1>1, <2>4, <2>7, <3>1, Shifts
  <2>8. CASE Recheck(q) \/ Load(q) \/ Drained(q)
    <3>1. pod[q].pc \notin {"lock", "pg", "pgtx", "ledger", "ch"}
      BY <2>8 DEF Recheck, Load, Drained, At
    <3>2. q # p
      BY <1>1, <3>1
    <3>3. ~Exit(q)
      BY <1>1, <2>4, <3>2, Shifts
    <3>4. /\ (Recheck(q) => Active # {}) /\ (Load(q) => ActiveSigningKey(q) # {})
          /\ ~Drained(q)
      BY <3>3 DEF Recheck, Load, Drained
    <3> QED BY <1>1, <2>4, <2>8, <3>2, <3>4, Shifts
  <2> QED BY <2>3, <2>5, <2>6, <2>7, <2>8 DEF Boot
<1>2. Local /\ Serial /\ [Next]_vars
        => [\A p \in Pods : pod[p].pc \in {"lock", "pg", "pgtx", "ledger", "ch"}
                              /\ pod'[p].pc = "down" => faults' < MaxFaults]_vars
  BY <1>1
<1>3. Spec => [](Local /\ Serial)
  BY InitLocal, InitSerial, NextLocal, NextSerial, PTL DEF Spec
<1> QED BY <1>2, <1>3, PTL DEF Spec, NoCrashLoop

--------------------------------------------------------------------------------
Holding == {"loaded", "serving", "draining"}

(* The pods that hold a key from before the last rotation are gone.         *)
Quiet == \A p \in Pods \ rolled : At(p, "down")

(* A minter's key is published, and a pod started since the last rotation   *)
(* holds the active one.                                                    *)
KeyOf(p) ==
    pod[p].pc \in Holding =>
        LET kp == pod[p].minter IN
            /\ keys[kp[1]].maker = kp[2]
            /\ keys[kp[1]].state \in {"active", "inactive"}
            /\ p \in rolled => keys[kp[1]].state = "active"

(* How long a key pair has signed, by the state of its row. *)
SignedOf(kp) ==
    lastMint[kp] # None =>
        /\ keys[kp[1]].maker = kp[2] /\ keys[kp[1]].state # "absent"
        /\ lastMint[kp] <= clock
        /\ keys[kp[1]].state = "inactive" /\ Quiet => lastMint[kp] <= rolledAt
        /\ keys[kp[1]].state = "retired" => lastMint[kp] + TokenTTL + ClockSkew < clock

Keyed ==
    /\ \A c, d \in Active : c = d
    /\ rolledAt <= clock
    /\ \A p \in Pods : KeyOf(p)
    /\ \A kp \in KeyPairs : SignedOf(kp)

(* The initial state. *)
LEMMA InitKeyed == Init => Keyed
<1> SUFFICES ASSUME Init PROVE Keyed
  OBVIOUS
<1>1. Active = {}
  BY DEF Init, Active, NoRow
<1>2. ASSUME NEW p \in Pods PROVE KeyOf(p)
  BY DEF Init, KeyOf, Down, Holding
<1>3. ASSUME NEW kp \in KeyPairs PROVE SignedOf(kp)
  BY DEF Init, SignedOf
<1> QED BY <1>1, <1>2, <1>3 DEF Init, Keyed

(* A step of one pod that goes on, with the minter it had if it has one.    *)
LEMMA GoesOnKeyed ==
    ASSUME Keyed, NEW p \in Pods, \A q \in Pods \ {p} : pod'[q] = pod[q],
           pod[p].pc # "down", pod'[p].pc # "down",
           pod'[p].pc \in Holding => pod[p].pc \in Holding /\ pod'[p].minter = pod[p].minter,
           UNCHANGED <<clock, keys, lastMint, operator>>
    PROVE  Keyed'
<1>2. ASSUME NEW q \in Pods PROVE KeyOf(q)'
  <2>1. KeyOf(q)
    BY DEF Keyed
  <2> QED BY <2>1 DEF KeyOf, operator
<1>3. Quiet' => Quiet
  BY DEF Quiet, At, operator
<1>4. ASSUME NEW kp \in KeyPairs PROVE SignedOf(kp)'
  <2>1. SignedOf(kp)
    BY DEF Keyed
  <2> QED BY <1>3, <2>1 DEF SignedOf, operator
<1>5. Active' = Active
  BY DEF Active
<1> QED BY <1>2, <1>4, <1>5 DEF Keyed, operator

(* A pod that leaves: if it was the last with an old key, rolledAt is now.  *)
LEMMA ExitKeyed ==
    ASSUME Local, Keyed, NEW p \in Pods, Exit(p), UNCHANGED <<clock, keys, lastMint, rolled>>
    PROVE  Keyed'
<1>1. \A q \in Pods : pod'[q] = IF q = p THEN Down ELSE pod[q]
  BY DEF Local, TypeOK, Exit, Becomes
<1>2. ASSUME NEW q \in Pods PROVE KeyOf(q)'
  <2>1. KeyOf(q)
    BY DEF Keyed
  <2> QED BY <1>1, <2>1 DEF KeyOf, Down, Holding
<1>3. CASE p \in rolled
  <2>1. Quiet' => Quiet
    BY <1>1, <1>3 DEF Quiet, At
  <2>2. rolledAt' = rolledAt
    BY <1>3 DEF Exit
  <2>3. ASSUME NEW kp \in KeyPairs PROVE SignedOf(kp)'
    <3>1. SignedOf(kp)
      BY DEF Keyed
    <3> QED BY <2>1, <2>2, <3>1 DEF SignedOf
  <2> QED BY <1>2, <2>2, <2>3 DEF Keyed, Active
<1>4. CASE p \notin rolled
  <2>1. rolledAt' = clock
    BY <1>4 DEF Exit
  <2>2. ASSUME NEW kp \in KeyPairs PROVE SignedOf(kp)'
    <3>1. SignedOf(kp)
      BY DEF Keyed
    <3> QED BY <2>1, <3>1 DEF SignedOf
  <2>3. clock' <= clock'
    BY DEF Local, TypeOK, StoreTypes
  <2> QED BY <1>2, <2>1, <2>2, <2>3 DEF Keyed, Active
<1> QED BY <1>3, <1>4

(* The first steps of a pod: it counts as rolled, and holds no key yet.     *)
LEMMA StartKeyed == ASSUME Local, Keyed, NEW p \in Pods, Start(p) PROVE Keyed'
<1>1. \A q \in Pods : pod'[q] = IF q = p THEN [pod[p] EXCEPT !.pc = "lock"] ELSE pod[q]
  BY DEF Local, TypeOK, Start, Becomes
<1>2. ASSUME NEW q \in Pods PROVE KeyOf(q)'
  <2>1. KeyOf(q)
    BY DEF Keyed
  <2>2. pod[p] \in Process
    BY DEF Local, TypeOK
  <2>3. CASE q = p
    <3>1. pod'[q].pc = "lock"
      BY <1>1, <2>2, <2>3 DEF Process
    <3> QED BY <3>1 DEF KeyOf, Holding
  <2>4. CASE q # p
    BY <1>1, <2>1, <2>4 DEF KeyOf, Start
  <2> QED BY <2>3, <2>4
<1>3. Quiet' => Quiet
  BY <1>1 DEF Quiet, At, Start
<1>4. ASSUME NEW kp \in KeyPairs PROVE SignedOf(kp)'
  <2>1. SignedOf(kp)
    BY DEF Keyed
  <2> QED BY <1>3, <2>1 DEF SignedOf, Start, dials
<1> QED BY <1>2, <1>4 DEF Keyed, Active, Start, dials

(* A new row of an absent kid, when no key is active: the only active one.  *)
LEMMA NewRowKeyed ==
    ASSUME Local, Keyed, NEW k \in Kids, NEW m \in Makers,
           keys[k].state = "absent", Active = {},
           keys' = [keys EXCEPT ![k] = [state |-> "active", maker |-> m]],
           UNCHANGED <<clock, lastMint, operator>>,
           \A q \in Pods : /\ pod'[q].pc = "down" <=> pod[q].pc = "down"
                           /\ pod'[q].pc \in Holding => pod'[q] = pod[q]
    PROVE  Keyed'
<1>1. \A c \in Kids : keys'[c] = IF c = k THEN [state |-> "active", maker |-> m] ELSE keys[c]
  BY DEF Local, TypeOK, StoreTypes
<1>2. \A c, d \in Active' : c = d
  BY <1>1 DEF Active
<1>3. ASSUME NEW q \in Pods PROVE KeyOf(q)'
  <2>1. KeyOf(q)
    BY DEF Keyed
  <2>2. LocalOf(pod[q])
    BY DEF Local
  <2>3. CASE pod'[q].pc \in Holding
    <3>1. pod'[q] = pod[q] /\ pod[q].minter \in KeyPairs
      BY <2>2, <2>3 DEF LocalOf, Holding
    <3>2. pod[q].minter[1] \in Kids /\ pod[q].minter[1] # k
      BY <2>1, <2>3, <3>1 DEF KeyOf, KeyPairs
    <3>3. keys'[pod[q].minter[1]] = keys[pod[q].minter[1]]
      BY <1>1, <3>2
    <3> QED BY <2>1, <3>1, <3>3 DEF KeyOf, operator
  <2> QED BY <2>3 DEF KeyOf
<1>4. Quiet' => Quiet
  BY DEF Quiet, At, operator
<1>5. ASSUME NEW kp \in KeyPairs PROVE SignedOf(kp)'
  <2>1. SignedOf(kp)
    BY DEF Keyed
  <2>2. CASE lastMint[kp] # None
    <3>1. kp[1] \in Kids /\ kp[1] # k
      BY <2>1, <2>2 DEF SignedOf, KeyPairs
    <3>2. keys'[kp[1]] = keys[kp[1]]
      BY <1>1, <3>1
    <3> QED BY <1>4, <2>1, <3>2 DEF SignedOf, operator
  <2> QED BY <2>2 DEF SignedOf
<1> QED BY <1>2, <1>3, <1>5 DEF Keyed, operator

(* The minter is made with the active key. *)
LEMMA LoadKeyed ==
    ASSUME Local, Keyed, NEW p \in Pods, Load(p), ActiveSigningKey(p) # {} PROVE Keyed'
<1>1. PICK k \in Active : Becomes(p, NewMinter(pod[p], <<k, keys[k].maker>>))
  BY DEF Load, ActiveSigningKey
<1>2. UNCHANGED <<clock, keys, lastMint, operator>>
  BY DEF Load, ActiveSigningKey, dials, operator
<1>3. \A q \in Pods : pod'[q] = IF q = p THEN NewMinter(pod[p], <<k, keys[k].maker>>) ELSE pod[q]
  BY <1>1 DEF Local, TypeOK, Becomes
<1>4. pod'[p].pc = "loaded" /\ pod'[p].minter = <<k, keys[k].maker>>
  BY <1>3 DEF Local, TypeOK, Process, NewMinter
<1>5. ASSUME NEW q \in Pods PROVE KeyOf(q)'
  <2>1. KeyOf(q)
    BY DEF Keyed
  <2>2. CASE q = p
    BY <1>1, <1>2, <1>4, <2>2 DEF KeyOf, Active
  <2>3. CASE q # p
    BY <1>2, <1>3, <2>1, <2>3 DEF KeyOf, operator
  <2> QED BY <2>2, <2>3
<1>6. Quiet' => Quiet
  BY <1>2, <1>3, <1>4 DEF Quiet, At, operator
<1>7. ASSUME NEW kp \in KeyPairs PROVE SignedOf(kp)'
  <2>1. SignedOf(kp)
    BY DEF Keyed
  <2> QED BY <1>2, <1>6, <2>1 DEF SignedOf, operator
<1> QED BY <1>2, <1>5, <1>7 DEF Keyed, operator, Active

(* Signing: only with a published key, and, once the others are gone, with  *)
(* the active one.                                                          *)
LEMMA MintKeyed == ASSUME Local, Keyed, NEW p \in Pods, Mint(p) PROVE Keyed'
<1> DEFINE kp == pod[p].minter
<1>1. pod[p].pc \in Holding /\ kp \in KeyPairs /\ KeyOf(p) /\ SignedOf(kp)
  <2>1. pod[p].pc \in Holding /\ LocalOf(pod[p]) /\ KeyOf(p)
    BY DEF Mint, At, Holding, Local, Keyed
  <2>2. kp \in KeyPairs
    BY <2>1 DEF LocalOf, Holding
  <2> QED BY <2>1, <2>2 DEF Keyed
<1>2. UNCHANGED <<clock, keys, pod, rolled, rolledAt>>
  BY DEF Mint, dials, operator
<1>3. \A c \in KeyPairs : lastMint'[c] = IF c = kp THEN clock ELSE lastMint[c]
  BY <1>1 DEF Mint, Local, TypeOK, StoreTypes
<1>4. clock <= clock /\ kp[1] \in Kids
  BY <1>1 DEF Local, TypeOK, StoreTypes, KeyPairs
<1>5. keys[kp[1]].state = "inactive" => ~Quiet
  BY <1>1 DEF KeyOf, Quiet, At, Holding
<1>6. ASSUME NEW c \in KeyPairs PROVE SignedOf(c)'
  <2>1. SignedOf(c) /\ (Quiet' <=> Quiet)
    BY <1>2 DEF Keyed, Quiet, At
  <2>2. CASE c # kp
    BY <1>2, <1>3, <2>1, <2>2 DEF SignedOf
  <2>3. CASE c = kp
    <3>1. /\ keys'[c[1]].maker = c[2] /\ keys'[c[1]].state \in {"active", "inactive"}
          /\ ~(keys'[c[1]].state = "inactive" /\ Quiet')
      BY <1>1, <1>2, <1>5, <2>1, <2>3 DEF KeyOf
    <3> QED BY <1>2, <1>3, <1>4, <2>3, <3>1 DEF SignedOf
  <2> QED BY <2>2, <2>3
<1>7. ASSUME NEW q \in Pods PROVE KeyOf(q)'
  BY <1>2 DEF Keyed, KeyOf
<1> QED BY <1>2, <1>6, <1>7 DEF Keyed, Active

(* A rotation begins: every pod that is up counts as old. *)
LEMMA DeactivateKeyed == ASSUME Local, Keyed, NEW k \in Kids, Deactivate(k) PROVE Keyed'
<1>1. /\ keys[k].state = "active" /\ UNCHANGED <<clock, lastMint, pod>> /\ rolledAt' = clock
      /\ rolled' = {p \in Pods : pod[p].pc = "down"}
  BY DEF Deactivate, At
<1>2. \A c \in Kids : /\ keys'[c].maker = keys[c].maker
                      /\ keys'[c].state = IF c = k THEN "inactive" ELSE keys[c].state
  BY DEF Deactivate, Local, TypeOK, StoreTypes
<1>3. \A c, d \in Active' : c = d
  BY <1>2 DEF Active, Keyed
<1>4. ASSUME NEW q \in Pods PROVE KeyOf(q)'
  <2>1. KeyOf(q) /\ LocalOf(pod[q])
    BY DEF Keyed, Local
  <2>2. CASE pod[q].pc \in Holding
    <3>1. pod[q].minter[1] \in Kids /\ q \notin rolled'
      BY <1>1, <2>1, <2>2 DEF LocalOf, Holding, KeyPairs
    <3> QED BY <1>1, <1>2, <2>1, <3>1 DEF KeyOf
  <2> QED BY <1>1, <2>2 DEF KeyOf
<1>5. ASSUME NEW kp \in KeyPairs PROVE SignedOf(kp)'
  <2>1. SignedOf(kp) /\ kp[1] \in Kids
    BY DEF Keyed, KeyPairs
  <2> QED BY <1>1, <1>2, <2>1 DEF SignedOf
<1>6. clock <= clock
  BY DEF Local, TypeOK, StoreTypes
<1> QED BY <1>1, <1>3, <1>4, <1>5, <1>6 DEF Keyed

(* A key is retired when every pod is new and the tokens of the old ones    *)
(* have expired.                                                            *)
LEMMA RetireKeyed == ASSUME Local, Keyed, NEW k \in Kids, Retire(k) PROVE Keyed'
<1>1. /\ keys[k].state = "inactive" /\ UNCHANGED <<clock, lastMint, pod, rolled, rolledAt>>
      /\ rolled = Pods /\ clock >= rolledAt + RetireWait
  BY DEF Retire, dials, operator
<1>2. \A c \in Kids : /\ keys'[c].maker = keys[c].maker
                      /\ keys'[c].state = IF c = k THEN "retired" ELSE keys[c].state
  BY DEF Retire, Local, TypeOK, StoreTypes
<1>3. \A c, d \in Active' : c = d
  BY <1>2 DEF Active, Keyed
<1>4. ASSUME NEW q \in Pods PROVE KeyOf(q)'
  <2>1. KeyOf(q) /\ LocalOf(pod[q])
    BY DEF Keyed, Local
  <2>2. CASE pod[q].pc \in Holding
    <3>1. pod[q].minter[1] \in Kids /\ pod[q].minter[1] # k
      BY <1>1, <2>1, <2>2 DEF LocalOf, Holding, KeyPairs, KeyOf
    <3> QED BY <1>1, <1>2, <2>1, <3>1 DEF KeyOf
  <2> QED BY <1>1, <2>2 DEF KeyOf
<1>5. Quiet /\ Quiet'
  BY <1>1 DEF Quiet
<1>6. ASSUME NEW kp \in KeyPairs PROVE SignedOf(kp)'
  <2>1. SignedOf(kp) /\ kp[1] \in Kids
    BY DEF Keyed, KeyPairs
  <2>2. CASE kp[1] = k /\ lastMint[kp] # None
    <3>1. lastMint[kp] <= rolledAt /\ lastMint[kp] \in Nat
      BY <1>1, <1>5, <2>1, <2>2 DEF SignedOf, Local, TypeOK, StoreTypes
    <3>2. lastMint[kp] + TokenTTL + ClockSkew < clock
      BY <1>1, <3>1, StartupAssumption DEF Local, TypeOK, StoreTypes
    <3> QED BY <1>1, <1>2, <2>1, <2>2, <3>2 DEF SignedOf
  <2>3. CASE kp[1] # k \/ lastMint[kp] = None
    BY <1>1, <1>2, <1>5, <2>1, <2>3 DEF SignedOf
  <2> QED BY <2>2, <2>3
<1> QED BY <1>1, <1>3, <1>4, <1>6 DEF Keyed

(* Time passes. *)
LEMMA TickKeyed == ASSUME Local, Keyed, Tick PROVE Keyed'
<1>1. clock' = clock + 1 /\ UNCHANGED <<keys, lastMint, pod, rolled, rolledAt>>
  BY DEF Tick, operator
<1>2. clock \in Nat /\ rolledAt \in Nat
  BY DEF Local, TypeOK, StoreTypes
<1>3. ASSUME NEW q \in Pods PROVE KeyOf(q)'
  BY <1>1 DEF Keyed, KeyOf
<1>4. ASSUME NEW kp \in KeyPairs PROVE SignedOf(kp)'
  <2>1. SignedOf(kp) /\ (lastMint[kp] \in Nat \/ lastMint[kp] = None) /\ (Quiet' <=> Quiet)
    BY <1>1 DEF Keyed, Local, TypeOK, StoreTypes, Quiet, At
  <2> QED BY <1>1, <1>2, <2>1, StartupAssumption DEF SignedOf
<1>5. rolledAt' <= clock'
  BY <1>1, <1>2 DEF Keyed
<1> QED BY <1>1, <1>3, <1>4, <1>5 DEF Keyed, Active

(* Every step of a pod. *)
LEMMA PodKeyed ==
    ASSUME Local, Keyed, NEW p \in Pods,
           Boot(p) \/ Mint(p) \/ Stop(p) \/ Drained(p) \/ Die(p)
    PROVE  Keyed'
<1>1. pod[p] \in Process /\ LocalOf(pod[p])
  BY DEF Local, TypeOK
<1>2. ASSUME Exit(p) /\ UNCHANGED <<clock, keys, lastMint, rolled>> PROVE Keyed'
  BY <1>2, ExitKeyed
<1>3. ASSUME NEW pc, NEW file, NEW stmt, NEW applied, Shift(p, pc, file, stmt, applied),
             pc \notin Holding \union {"down"}, pod[p].pc # "down",
             UNCHANGED <<clock, keys, lastMint, operator>>
      PROVE  Keyed'
  BY <1>3, GoesOnKeyed DEF Shift
<1>4. CASE Start(p) \/ Mint(p)
  BY <1>4, StartKeyed, MintKeyed
<1>5. CASE Lock(p) \/ Begin(p) \/ Migrated(p)
  <2>1. pod[p].pc # "down" /\ UNCHANGED <<clock, keys, lastMint, operator>>
    BY <1>5 DEF Lock, Begin, Migrated, At, dials
  <2> QED BY <1>3, <1>5, <2>1, Shifts DEF Holding
<1>6. CASE ReadLedger(p) \/ Execute(p) \/ Record(p) \/ Skip(p) \/ NotExists(p)
  <2>1. pod[p].pc # "down" /\ UNCHANGED <<clock, keys, lastMint, operator>>
    BY <1>6 DEF ReadLedger, Execute, Record, Skip, NotExists, At, dials
  <2> QED BY <1>3, <1>6, <2>1, Shifts DEF Holding
<1>7. CASE Commit(p)
  <2>1. CASE Conflict(p)
    BY <1>2, <1>7, <2>1 DEF Commit, dials
  <2>2. CASE ~Conflict(p)
    <3>1. pod[p].pc # "down" /\ UNCHANGED <<clock, keys, lastMint, operator>>
      BY <1>7, <2>2 DEF Commit, At, dials, operator
    <3> QED BY <1>3, <1>7, <2>2, <3>1, Shifts DEF Holding
  <2> QED BY <2>1, <2>2
<1>8. CASE Insert(p)
  <2>1. CASE Taken(pod[p].kid)
    <3>1. pod[p].pc # "down" /\ UNCHANGED <<clock, keys, lastMint, operator>>
      BY <1>8, <2>1 DEF Insert, At, dials
    <3> QED BY <1>3, <1>8, <2>1, <3>1, Shifts DEF Holding
  <2>2. CASE ~Taken(pod[p].kid)
    <3>1. pod[p].kid \in Kids /\ keys[pod[p].kid].state = "absent" /\ Active = {}
      BY <1>1, <1>8, <2>2 DEF Insert, At, LocalOf, Taken
    <3>2. /\ keys' = [keys EXCEPT ![pod[p].kid] = [state |-> "active", maker |-> p]]
          /\ UNCHANGED <<clock, lastMint, operator>> /\ pod[p].pc = "insert"
      BY <1>8, <2>2 DEF Insert, At, dials
    <3>3. pod'[p].pc = "load" /\ \A q \in Pods \ {p} : pod'[q] = pod[q]
      BY <1>8, <2>2, Shifts DEF Shift
    <3>4. \A q \in Pods : /\ pod'[q].pc = "down" <=> pod[q].pc = "down"
                          /\ pod'[q].pc \in Holding => pod'[q] = pod[q]
      BY <3>2, <3>3 DEF Holding
    <3> QED BY <3>1, <3>2, <3>4, NewRowKeyed DEF Makers
  <2> QED BY <2>1, <2>2
<1>9. CASE Recheck(p)
  <2>1. CASE Active = {}
    BY <1>2, <1>9, <2>1 DEF Recheck, dials
  <2>2. CASE Active # {}
    <3>1. pod[p].pc # "down" /\ UNCHANGED <<clock, keys, lastMint, operator>>
      BY <1>9, <2>2 DEF Recheck, At, dials, operator
    <3> QED BY <1>3, <1>9, <2>2, <3>1, Shifts DEF Holding
  <2> QED BY <2>1, <2>2
<1>10. CASE Load(p)
  <2>1. CASE ActiveSigningKey(p) = {}
    BY <1>2, <1>10, <2>1 DEF Load, dials
  <2> QED BY <1>10, <2>1, LoadKeyed
<1>11. CASE Listen(p) \/ Stop(p)
  <2>1. /\ pod'[p].pc \in {"serving", "draining"} /\ pod'[p].minter = pod[p].minter
        /\ \A q \in Pods \ {p} : pod'[q] = pod[q]
    BY <1>1, <1>11, OnePod DEF Listen, Stop, Process
  <2>2. pod[p].pc \in Holding /\ pod[p].pc # "down" /\ UNCHANGED <<clock, keys, lastMint, operator>>
    BY <1>11 DEF Listen, Stop, At, dials, Holding
  <2> QED BY <2>1, <2>2, GoesOnKeyed
<1>12. CASE Drained(p) \/ Die(p)
  BY <1>2, <1>12 DEF Drained, Die, dials
<1> QED BY <1>4, <1>5, <1>6, <1>7, <1>8, <1>9, <1>10, <1>11, <1>12 DEF Boot

(* Keyed is an invariant. *)
LEMMA NextKeyed == Local /\ Keyed /\ [Next]_vars => Keyed'
<1> SUFFICES ASSUME Local, Keyed, [Next]_vars PROVE Keyed'
  OBVIOUS
<1>1. ASSUME NEW k \in Kids, Activate(k) PROVE Keyed'
  <2>1. keys[k].state = "absent" /\ Active = {} /\ Operator \in Makers
    BY <1>1 DEF Activate, Makers
  <2>2. keys' = [keys EXCEPT ![k] = [state |-> "active", maker |-> Operator]]
    BY <1>1 DEF Activate
  <2>3. UNCHANGED <<clock, lastMint, operator>> /\ pod' = pod
    BY <1>1 DEF Activate, dials
  <2> QED BY <2>1, <2>2, <2>3, NewRowKeyed
<1>2. CASE LoseLock \/ UNCHANGED vars
  <2>1. UNCHANGED <<clock, keys, lastMint, pod, rolled, rolledAt>>
    BY <1>2 DEF LoseLock, vars, dials, operator
  <2> QED BY <2>1 DEF Keyed, KeyOf, SignedOf, Quiet, At, Active
<1> QED BY <1>1, <1>2, PodKeyed, DeactivateKeyed, RetireKeyed, TickKeyed DEF Next

(* No two signing keys are active, whichever pods bootstrap one at the same *)
(* time and whenever the operator inserts one.                              *)
THEOREM NeverTwoActiveKeys == Spec => []OneActiveKey
<1>1. Keyed => OneActiveKey
  <2> SUFFICES ASSUME Keyed PROVE Cardinality(Active) <= 1
    BY DEF OneActiveKey
  <2>1. CASE Active = {}
    BY <2>1, FS_EmptySet
  <2>2. CASE Active # {}
    <3>1. PICK k : k \in Active
      BY <2>2
    <3>2. Active = {k}
      BY <3>1 DEF Keyed
    <3> QED BY <3>2, FS_Singleton
  <2> QED BY <2>1, <2>2
<1>2. Spec => [](Local /\ Keyed)
  BY InitLocal, InitKeyed, NextLocal, NextKeyed, PTL DEF Spec
<1> QED BY <1>1, <1>2, PTL

(* A token whose times are still good was signed with a published key, for  *)
(* every token life and clock skew: by Keyed a key is retired only when     *)
(* what it signed has expired, and never while a pod still signs with it.   *)
THEOREM IssuedTokensVerify == Spec => []TokensStayVerifiable
<1>1. Local /\ Keyed => TokensStayVerifiable
  <2> SUFFICES ASSUME Local, Keyed, NEW kp \in KeyPairs, lastMint[kp] # None,
                      clock <= lastMint[kp] + TokenTTL + ClockSkew
               PROVE  kp \in PublicJWKS
    BY DEF TokensStayVerifiable
  <2>1. SignedOf(kp) /\ kp[1] \in Kids /\ kp = <<kp[1], kp[2]>>
    BY DEF Keyed, KeyPairs
  <2>2. lastMint[kp] \in Nat /\ clock \in Nat
    BY DEF Local, TypeOK, StoreTypes
  <2>3. keys[kp[1]].maker = kp[2] /\ keys[kp[1]].state \notin {"absent", "retired"}
    BY <2>1, <2>2, StartupAssumption DEF SignedOf
  <2>4. keys[kp[1]].state \in {"active", "inactive"}
    BY <2>1, <2>3 DEF Local, TypeOK, StoreTypes
  <2> QED BY <2>1, <2>3, <2>4 DEF PublicJWKS
<1>2. Spec => [](Local /\ Keyed)
  BY InitLocal, InitKeyed, NextLocal, NextKeyed, PTL DEF Spec
<1> QED BY <1>1, <1>2, PTL
=================================================================================
