---------------------------- MODULE BatchBudgetProofs ----------------------------
(***************************************************************************)
(* Storage stays within the daily budget: a proof for all sets of tenants, *)
(* events and request slots, any number of faults and retries.             *)
(*                                                                         *)
(* The budget counts units, storage counts rows, each as often as it is    *)
(* written.  Between the charge and the insert the units of a request are  *)
(* pledged to its valid events; the invariant says that rows written and   *)
(* pledges together are paid for.                                          *)
(***************************************************************************)
EXTENDS BatchIngestProofs

(* The events of a tenant and a day that are admitted but not yet written, *)
(* once for every request that carries them.                               *)
Pledged(t, d) == {x \in Requests \X Events : /\ pc[x[1]] = "admitted"
                                             /\ TenantId(x[1]) = t /\ at[x[1]] = d
                                             /\ x[2] \in Valid(x[1])}

Paid(t, d) ==
    /\ IsFiniteSet(Pledged(t, d))
    /\ written[t][d] + Cardinality(Pledged(t, d)) <= spent[t][d]
    /\ DailyEvents > 0 => spent[t][d] <= DailyEvents

Covered == \A t \in Tenants, d \in Days : Paid(t, d)

-------------------------------------------------------------------------------
(* Nothing is stored, pledged or spent at first. *)
LEMMA InitCovered == Init => Covered
<1> SUFFICES ASSUME Init, NEW t \in Tenants, NEW d \in Days PROVE Paid(t, d)
  BY DEF Covered
<1>1. Pledged(t, d) = {}
  BY DEF Init, Pledged
<1>2. spent[t][d] = 0 /\ written[t][d] = 0
  BY DEF Init
<1> QED BY <1>1, <1>2, FS_EmptySet, BatchAssumption DEF Paid

(* Pledges that lapse and units that are spent for nothing do no harm. *)
LEMMA PaidStill ==
    ASSUME NEW t \in Tenants, NEW d \in Days, Paid(t, d),
           spent[t][d] \in Nat, spent'[t][d] \in Nat, written[t][d] \in Nat,
           written'[t][d] = written[t][d], Pledged(t, d)' \subseteq Pledged(t, d),
           spent[t][d] <= spent'[t][d],
           DailyEvents > 0 => spent'[t][d] <= DailyEvents
    PROVE  Paid(t, d)'
<1>1. /\ IsFiniteSet(Pledged(t, d)')
      /\ Cardinality(Pledged(t, d)') <= Cardinality(Pledged(t, d))
  BY FS_Subset DEF Paid
<1>2. /\ Cardinality(Pledged(t, d)') \in Nat
      /\ Cardinality(Pledged(t, d)) \in Nat
  BY <1>1, FS_CardinalityType DEF Paid
<1>3. written[t][d] + Cardinality(Pledged(t, d)) <= spent[t][d]
  BY DEF Paid
<1>4. written'[t][d] + Cardinality(Pledged(t, d)') <= spent'[t][d]
  BY <1>1, <1>2, <1>3
<1> QED BY <1>1, <1>4 DEF Paid

(* Every request that is admitted after the step was so before it. *)
NoneAdmitted ==
    \A q \in Requests : pc'[q] = "admitted" =>
        pc[q] = "admitted" /\ msg'[q] = msg[q] /\ at'[q] = at[q]

(* A step that writes no row and admits no request. *)
LEMMA StillCovers ==
    ASSUME IInv, IInv', Covered, UNCHANGED written, NoneAdmitted,
           \A t \in Tenants, d \in Days :
              /\ spent[t][d] <= spent'[t][d]
              /\ DailyEvents > 0 => spent'[t][d] <= DailyEvents
    PROVE  Covered'
<1> SUFFICES ASSUME NEW t \in Tenants, NEW d \in Days PROVE Paid(t, d)'
  BY DEF Covered
<1>1. Paid(t, d)
  BY DEF Covered
<1>2. spent[t][d] \in Nat /\ spent'[t][d] \in Nat /\ written[t][d] \in Nat
  BY DEF IInv, TypeOK
<1>3. written'[t][d] = written[t][d]
  OBVIOUS
<1>4. Pledged(t, d)' \subseteq Pledged(t, d)
  <2> SUFFICES ASSUME NEW x \in Requests \X Events, x \in Pledged(t, d)'
               PROVE  x \in Pledged(t, d)
    BY DEF Pledged
  <2>1. x[1] \in Requests
    OBVIOUS
  <2>2. pc'[x[1]] = "admitted"
    BY DEF Pledged
  <2>3. pc[x[1]] = "admitted" /\ msg'[x[1]] = msg[x[1]] /\ at'[x[1]] = at[x[1]]
    BY <2>1, <2>2 DEF NoneAdmitted
  <2>4. TenantId(x[1])' = TenantId(x[1]) /\ Valid(x[1])' = Valid(x[1])
    BY <2>3 DEF TenantId, Valid
  <2> QED BY <2>3, <2>4 DEF Pledged
<1> QED BY <1>1, <1>2, <1>3, <1>4, PaidStill

(* While the counters stand still the budget bounds them as before. *)
LEMMA SpentStill ==
    ASSUME IInv, Covered, UNCHANGED spent
    PROVE  \A t \in Tenants, d \in Days :
              /\ spent[t][d] <= spent'[t][d]
              /\ DailyEvents > 0 => spent'[t][d] <= DailyEvents
<1> SUFFICES ASSUME NEW t \in Tenants, NEW d \in Days
             PROVE  /\ spent[t][d] <= spent[t][d]
                    /\ DailyEvents > 0 => spent[t][d] <= DailyEvents
  OBVIOUS
<1>1. spent[t][d] \in Nat
  BY DEF IInv, TypeOK
<1>2. Paid(t, d)
  BY DEF Covered
<1> QED BY <1>1, <1>2 DEF Paid

-------------------------------------------------------------------------------
(* Admission charges one day's counter, and never past the budget. *)
LEMMA ConsumeFits ==
    ASSUME IInv, Covered, NEW r \in Requests, pc[r] = "decoded",
           ~Denied(r), Consume(r)
    PROVE  /\ TenantId(r) \in Tenants /\ at[r] \in Days
           /\ spent'[TenantId(r)][at[r]] = spent[TenantId(r)][at[r]] + ChargeUnits(r)
           /\ \A t \in Tenants, d \in Days :
                 /\ spent[t][d] <= spent'[t][d]
                 /\ DailyEvents > 0 => spent'[t][d] <= DailyEvents
                 /\ t # TenantId(r) \/ d # at[r] => spent'[t][d] = spent[t][d]
<1> DEFINE T == TenantId(r)
           D == at[r]
           n == ChargeUnits(r)
<1>1. T \in Tenants /\ D \in Days
  BY BatchAssumption DEF IInv, Attributed, TenantId
<1>2. n \in Nat
  BY ChargeNat DEF IInv
<1>3. spent \in [Tenants -> [Days -> Nat]]
  BY DEF IInv, TypeOK
<1>4. spent' = [spent EXCEPT ![T][D] = @ + n]
  BY DEF Consume
<1>5. DailyEvents > 0 => spent[T][D] + n <= DailyEvents
  <2>1. spent[T][D] + n \in Nat
    BY <1>1, <1>2, <1>3
  <2> QED BY <2>1, BatchAssumption DEF Denied, OverDaily
<1> HIDE DEF T, D, n
<1>6. spent'[T][D] = spent[T][D] + n
  BY <1>1, <1>3, <1>4
<1>7. ASSUME NEW t \in Tenants, NEW d \in Days
      PROVE  /\ spent[t][d] <= spent'[t][d]
             /\ DailyEvents > 0 => spent'[t][d] <= DailyEvents
             /\ t # T \/ d # D => spent'[t][d] = spent[t][d]
  <2>1. CASE t = T /\ d = D
    <3>1. spent[T][D] \in Nat
      BY <1>1, <1>3
    <3> QED BY <1>2, <1>5, <1>6, <2>1, <3>1
  <2>2. CASE t # T \/ d # D
    <3>1. spent'[t][d] = spent[t][d]
      BY <1>1, <1>3, <1>4, <2>2
    <3>2. spent[t][d] \in Nat
      BY <1>3
    <3>3. Paid(t, d)
      BY DEF Covered
    <3> QED BY <3>1, <3>2, <3>3 DEF Paid
  <2> QED BY <2>1, <2>2
<1> QED BY <1>1, <1>6, <1>7 DEF T, D, n

(* A pledge for each valid event of a request. *)
LEMMA PledgeCount ==
    ASSUME IInv, NEW r \in Requests
    PROVE  /\ IsFiniteSet(Valid(r)) /\ IsFiniteSet({r} \X Valid(r))
           /\ Cardinality({r} \X Valid(r)) = Cardinality(Valid(r))
           /\ Cardinality(Valid(r)) \in Nat
           /\ Cardinality(Valid(r)) <= ChargeUnits(r)
<1>1. Valid(r) \in SUBSET Events
  BY DEF IInv, TypeOK, Valid
<1>2. IsFiniteSet(Valid(r))
  BY <1>1, BatchAssumption, FS_Subset
<1>3. Cardinality(Valid(r)) \in Nat
  BY <1>2, FS_CardinalityType
<1>4. IsFiniteSet({r}) /\ Cardinality({r}) = 1
  BY FS_Singleton
<1>5. /\ IsFiniteSet({r} \X Valid(r))
      /\ Cardinality({r} \X Valid(r)) = 1 * Cardinality(Valid(r))
  BY <1>2, <1>4, FS_Product
<1>6. Cardinality({r} \X Valid(r)) = Cardinality(Valid(r))
  BY <1>3, <1>5
<1>7. Cardinality(Valid(r)) <= ChargeUnits(r)
  BY <1>3, FS_EmptySet DEF ChargeUnits
<1> QED BY <1>2, <1>3, <1>5, <1>6, <1>7

(* The charge of an admitted batch pays for a row of each valid event. *)
LEMMA AdmitCovers ==
    ASSUME IInv, IInv', Covered, NEW r \in Requests, Admit(r)
    PROVE  Covered'
<1>1. pc[r] = "decoded" /\ UNCHANGED written
  BY DEF Admit, rows
<1>2. ASSUME NEW st, HttpError(r, st) PROVE NoneAdmitted
  BY <1>2 DEF HttpError, Respond, NoneAdmitted, IInv, TypeOK
<1>3. CASE (\E st \in {429, 503} : HttpError(r, st)) /\ UNCHANGED spent
  <2>1. NoneAdmitted
    BY <1>2, <1>3
  <2> QED BY <1>1, <1>3, <2>1, SpentStill, StillCovers
<1>4. CASE HttpError(r, 503) /\ ~Denied(r) /\ Consume(r)
  <2>1. NoneAdmitted
    BY <1>2, <1>4
  <2> QED BY <1>1, <1>4, <2>1, ConsumeFits, StillCovers
<1>5. CASE ~Denied(r) /\ Consume(r) /\ Advance(r, "admitted") /\ UNCHANGED <<at, memo>>
  <2> SUFFICES ASSUME NEW t \in Tenants, NEW d \in Days PROVE Paid(t, d)'
    BY DEF Covered
  <2>1. /\ pc' = [pc EXCEPT ![r] = "admitted"]
        /\ msg' = msg /\ at' = at
    BY <1>5 DEF Advance
  <2>2. pc \in [Requests -> Steps]
    BY DEF IInv, TypeOK
  <2>3. written'[t][d] = written[t][d]
    BY <1>1
  <2>4. Paid(t, d)
    BY DEF Covered
  <2>5. spent[t][d] \in Nat /\ spent'[t][d] \in Nat /\ written[t][d] \in Nat
    BY DEF IInv, TypeOK
  <2>6. /\ spent'[TenantId(r)][at[r]] = spent[TenantId(r)][at[r]] + ChargeUnits(r)
        /\ spent[t][d] <= spent'[t][d]
        /\ DailyEvents > 0 => spent'[t][d] <= DailyEvents
    BY <1>1, <1>5, ConsumeFits
  <2>7. \A q \in Requests : pc'[q] = IF q = r THEN "admitted" ELSE pc[q]
    BY <2>1, <2>2
  <2>8. \A q \in Requests : TenantId(q)' = TenantId(q) /\ Valid(q)' = Valid(q)
    BY <2>1 DEF TenantId, Valid
  <2>9. CASE t = TenantId(r) /\ d = at[r]
    <3> DEFINE P == {r} \X Valid(r)
    <3>1. Pledged(t, d)' \subseteq Pledged(t, d) \union P
      <4> SUFFICES ASSUME NEW x \in Requests \X Events, x \in Pledged(t, d)',
                          x \notin Pledged(t, d)
                   PROVE  x \in P
        BY DEF Pledged
      <4>1. x[1] \in Requests /\ x = <<x[1], x[2]>>
        OBVIOUS
      <4>2. /\ pc'[x[1]] = "admitted" /\ TenantId(x[1]) = t /\ at[x[1]] = d
            /\ x[2] \in Valid(x[1])
        BY <2>1, <2>8, <4>1 DEF Pledged
      <4>3. x[1] = r
        BY <2>7, <4>1, <4>2 DEF Pledged
      <4> QED BY <4>1, <4>2, <4>3
    <3>2. /\ IsFiniteSet(P) /\ Cardinality(P) = Cardinality(Valid(r))
          /\ Cardinality(Valid(r)) \in Nat /\ Cardinality(Valid(r)) <= ChargeUnits(r)
      BY PledgeCount
    <3> HIDE DEF P
    <3>3. /\ IsFiniteSet(Pledged(t, d) \union P)
          /\ Cardinality(Pledged(t, d) \union P) =
                Cardinality(Pledged(t, d)) + Cardinality(P)
                    - Cardinality(Pledged(t, d) \intersect P)
      BY <2>4, <3>2, FS_Union DEF Paid
    <3>4. IsFiniteSet(Pledged(t, d) \intersect P)
      BY <3>2, FS_Subset
    <3>5. /\ IsFiniteSet(Pledged(t, d)')
          /\ Cardinality(Pledged(t, d)') <= Cardinality(Pledged(t, d) \union P)
      BY <3>1, <3>3, FS_Subset
    <3>6. /\ Cardinality(Pledged(t, d)') \in Nat /\ Cardinality(Pledged(t, d)) \in Nat
          /\ Cardinality(Pledged(t, d) \union P) \in Nat
          /\ Cardinality(Pledged(t, d) \intersect P) \in Nat
          /\ ChargeUnits(r) \in Nat
      BY <2>4, <3>3, <3>4, <3>5, FS_CardinalityType, ChargeNat DEF Paid, IInv
    <3>7. written[t][d] + Cardinality(Pledged(t, d)) <= spent[t][d]
      BY <2>4 DEF Paid
    <3>8. spent'[t][d] = spent[t][d] + ChargeUnits(r)
      BY <2>6, <2>9
    <3>9. written[t][d] + Cardinality(Pledged(t, d)') <= spent'[t][d]
      BY <2>5, <3>2, <3>3, <3>5, <3>6, <3>7, <3>8
    <3> QED BY <2>3, <2>4, <2>6, <3>5, <3>9 DEF Paid
  <2>10. CASE ~(t = TenantId(r) /\ d = at[r])
    <3>1. Pledged(t, d)' \subseteq Pledged(t, d)
      BY <2>1, <2>7, <2>8, <2>10 DEF Pledged
    <3> QED BY <2>3, <2>4, <2>5, <2>6, <3>1, PaidStill
  <2> QED BY <2>9, <2>10
<1> QED BY <1>3, <1>4, <1>5 DEF Admit

-------------------------------------------------------------------------------
(* An insert, whole or partial, redeems the pledges of its request. *)
LEMMA InsertCovers ==
    ASSUME IInv, IInv', Covered, NEW r \in Requests, Insert(r)
    PROVE  Covered'
<1>1. pc[r] = "admitted" /\ UNCHANGED spent
  BY DEF Insert
<1>2. PICK W \in SUBSET RowsOf(r) : Write(r, W)
  BY DEF Insert, InsertEvents, InsertEventsFails
<1>3. pc' = [pc EXCEPT ![r] = "replied"] /\ msg' = msg /\ at' = at
  BY DEF Insert, HttpError, Respond
<1>4. \A q \in Requests : pc'[q] = IF q = r THEN "replied" ELSE pc[q]
  BY <1>3 DEF IInv, TypeOK
<1>5. \A q \in Requests : TenantId(q)' = TenantId(q) /\ Valid(q)' = Valid(q)
  BY <1>3 DEF TenantId, Valid
<1>6. /\ written' = [written EXCEPT ![TenantId(r)][at[r]] = @ + Cardinality(W)]
      /\ TenantId(r) \in Tenants /\ at[r] \in Days
      /\ written \in [Tenants -> [Days -> Nat]]
  BY <1>1, <1>2, BatchAssumption DEF Write, IInv, TypeOK, Attributed, TenantId
<1> SUFFICES ASSUME NEW t \in Tenants, NEW d \in Days PROVE Paid(t, d)'
  BY DEF Covered
<1>7. Paid(t, d) /\ spent[t][d] \in Nat /\ written[t][d] \in Nat
  BY DEF Covered, IInv, TypeOK
<1>8. CASE t = TenantId(r) /\ d = at[r]
  <2> DEFINE P == {r} \X Valid(r)
  <2>1. written'[t][d] = written[t][d] + Cardinality(W)
    BY <1>6, <1>8
  <2>2. Pledged(t, d)' \subseteq Pledged(t, d) \ P
    <3> SUFFICES ASSUME NEW x \in Requests \X Events, x \in Pledged(t, d)'
                 PROVE  x \in Pledged(t, d) /\ x[1] # r
      BY DEF Pledged
    <3>1. x[1] \in Requests
      OBVIOUS
    <3> QED BY <1>3, <1>4, <1>5, <3>1 DEF Pledged
  <2>3. P \subseteq Pledged(t, d)
    <3> SUFFICES ASSUME NEW e \in Valid(r) PROVE <<r, e>> \in Pledged(t, d)
      OBVIOUS
    <3>1. e \in Events
      BY DEF IInv, TypeOK, Valid
    <3> QED BY <1>1, <1>8, <3>1 DEF Pledged
  <2>4. /\ IsFiniteSet(P) /\ Cardinality(P) = Cardinality(Valid(r))
        /\ Cardinality(Valid(r)) \in Nat
    BY PledgeCount
  <2>5. Cardinality(W) \in Nat /\ Cardinality(W) <= Cardinality(Valid(r))
    BY RowsOfFinite
  <2> HIDE DEF P
  <2>6. Pledged(t, d) \intersect P = P
    BY <2>3
  <2>7. /\ IsFiniteSet(Pledged(t, d) \ P)
        /\ Cardinality(Pledged(t, d) \ P) = Cardinality(Pledged(t, d)) - Cardinality(P)
    BY <1>7, <2>6, FS_Difference DEF Paid
  <2>8. /\ IsFiniteSet(Pledged(t, d)')
        /\ Cardinality(Pledged(t, d)') <= Cardinality(Pledged(t, d) \ P)
    BY <2>2, <2>7, FS_Subset
  <2>9. Cardinality(Pledged(t, d)') \in Nat /\ Cardinality(Pledged(t, d)) \in Nat
    BY <1>7, <2>8, FS_CardinalityType DEF Paid
  <2>10. written[t][d] + Cardinality(Pledged(t, d)) <= spent[t][d]
    BY <1>7 DEF Paid
  <2>11. written'[t][d] + Cardinality(Pledged(t, d)') <= spent[t][d]
    BY <1>7, <2>1, <2>4, <2>5, <2>7, <2>8, <2>9, <2>10
  <2> QED BY <1>1, <1>7, <2>8, <2>11 DEF Paid
<1>9. CASE ~(t = TenantId(r) /\ d = at[r])
  <2>1. written'[t][d] = written[t][d]
    BY <1>6, <1>9
  <2>2. Pledged(t, d)' \subseteq Pledged(t, d)
    BY <1>3, <1>4, <1>5 DEF Pledged
  <2>3. spent[t][d] <= spent'[t][d] /\ (DailyEvents > 0 => spent'[t][d] <= DailyEvents)
    BY <1>1, SpentStill
  <2> QED BY <1>1, <1>7, <2>1, <2>2, <2>3, PaidStill
<1> QED BY <1>8, <1>9

-------------------------------------------------------------------------------
(* The other steps of the handler write no row and charge nothing. *)
LEMMA HandlerCovers ==
    ASSUME IInv, IInv', Covered, NEW r \in Requests, Handler(r)
    PROVE  Covered'
<1>1. CASE Receive(r) \/ Authorize(r) \/ Decode(r) \/ PinOffset(r)
  <2>1. UNCHANGED <<written, spent>>
    BY <1>1 DEF Receive, Authorize, Decode, PinOffset, stores, rows
  <2>2. /\ msg' = msg
        /\ \E st \in Steps : pc' = [pc EXCEPT ![r] = st]
                             /\ (st = "admitted" => pc[r] = "admitted")
        /\ at' = at \/ (pc'[r] # "admitted" /\ at' = [at EXCEPT ![r] = clock])
    <3>1. CASE Receive(r)
      BY <3>1 DEF Receive, Advance, Steps, IInv, TypeOK
    <3>2. CASE Authorize(r)
      BY <3>2 DEF Authorize, Advance, HttpError, Respond, Steps
    <3>3. CASE Decode(r)
      BY <3>3 DEF Decode, ReadBody, LimitsFor, Advance, HttpError, Respond, Steps
    <3>4. CASE PinOffset(r)
      BY <3>4 DEF PinOffset, Advance, HttpError, Respond, Steps
    <3> QED BY <1>1, <3>1, <3>2, <3>3, <3>4
  <2>3. NoneAdmitted
    BY <2>2 DEF NoneAdmitted, IInv, TypeOK
  <2> QED BY <2>1, <2>3, SpentStill, StillCovers
<1> QED BY <1>1, AdmitCovers, InsertCovers DEF Handler

(* Freed slots, clients, the operator and time admit no request either. *)
LEMMA OthersCover ==
    ASSUME IInv, IInv', Covered,
           \/ \E r \in Requests : Abort(r) \/ Discard(r)
           \/ \E i \in Installs : Send(i) \/ Handle(i) \/ Timeout(i) \/ Resume(i)
           \/ \E t \in Tenants : CutOff(t) \/ RollBack(t)
           \/ Tick \/ UNCHANGED vars
    PROVE  Covered'
<1>1. UNCHANGED <<written, spent>>
  BY DEF Abort, Discard, Send, Handle, Timeout, Resume, CutOff, RollBack, Tick, vars,
         stores, rows
<1>2. NoneAdmitted
  <2>1. ASSUME NEW r \in Requests, Free(r) PROVE NoneAdmitted
    BY <2>1 DEF Free, NoneAdmitted, IInv, TypeOK
  <2>2. ASSUME NEW i \in Installs, Send(i) PROVE NoneAdmitted
    <3>1. PICK r \in Requests, evs \in SUBSET Pending(i), s \in SentSkews :
            /\ pc' = [pc EXCEPT ![r] = "sent"]
            /\ msg' = [msg EXCEPT ![r] = [inst |-> i, evs |-> evs, sentAt |-> clock + s]]
      BY <2>2 DEF Send
    <3>2. at' = at
      BY <2>2 DEF Send
    <3> QED BY <3>1, <3>2 DEF NoneAdmitted, IInv, TypeOK
  <2>3. ASSUME NEW i \in Installs, Handle(i) PROVE NoneAdmitted
    BY <2>1, <2>3 DEF Handle, IInv, TypeOK
  <2>4. ASSUME UNCHANGED <<pc, msg, at>> PROVE NoneAdmitted
    BY <2>4 DEF NoneAdmitted
  <2> QED BY <2>1, <2>2, <2>3, <2>4
          DEF Abort, Discard, Timeout, Resume, CutOff, RollBack, Tick, vars
<1> QED BY <1>1, <1>2, SpentStill, StillCovers

(* Every reachable state has its rows and pledges paid for. *)
THEOREM AllCovered == Spec => []Covered
<1>1. IInv /\ IInv' /\ Covered /\ [Next]_vars => Covered'
  BY HandlerCovers, OthersCover DEF Next
<1> QED BY InitCovered, <1>1, Invariance, PTL DEF Spec

(* What is written for a tenant with one day's receivedAt fits its daily   *)
(* budget, every retry and every partial insert counted.                   *)
THEOREM StorageWithinBudget == Spec => []BudgetBoundsStorage
<1>1. IInv /\ Covered => BudgetBoundsStorage
  <2> SUFFICES ASSUME IInv, Covered, DailyEvents > 0, NEW t \in Tenants, NEW d \in Days
               PROVE  written[t][d] <= DailyEvents
    BY DEF BudgetBoundsStorage
  <2>1. Paid(t, d) /\ spent[t][d] \in Nat /\ written[t][d] \in Nat
    BY DEF Covered, IInv, TypeOK
  <2>2. Cardinality(Pledged(t, d)) \in Nat
    BY <2>1, FS_CardinalityType DEF Paid
  <2> QED BY <2>1, <2>2, BatchAssumption DEF Paid
<1> QED BY <1>1, AllCovered, Invariance, PTL
=================================================================================
