---------------------------- MODULE BatchIngestProofs ----------------------------
(***************************************************************************)
(* Proofs about BatchIngest for all sets of installs, events and request   *)
(* slots, every interleaving and any number of faults.                     *)
(*                                                                         *)
(* Three strengthenings carry the properties from the step that sets them  *)
(* up to the step that relies on them: an answer under way accepts only    *)
(* events whose rows are already in the table, the events of a request its *)
(* client still waits for are still in the outbox, and an offset a request *)
(* has looked up is the one every other request will ever see.             *)
(***************************************************************************)
EXTENDS BatchIngest, FiniteSetTheorems, TLAPS

(* A request in progress belongs to an install and carries its events. *)
Attributed ==
    \A r \in Requests :
        /\ pc[r] # "idle" => /\ msg[r].inst \in Installs
                             /\ \A e \in msg[r].evs : Owner[e] = msg[r].inst
        /\ pc[r] \in {"received", "verified", "decoded", "admitted"} => at[r] \in Days

(* An answer under way accepts what is stored and rejects what is invalid; *)
(* it refuses a batch for what that batch is.                              *)
Verdict(r) ==
    /\ reply[r].accepted \subseteq Stored \intersect msg[r].evs
    /\ reply[r].rejected \subseteq Invalid \intersect msg[r].evs
    /\ reply[r].status # 200 => reply[r].accepted = {} /\ reply[r].rejected = {}
    /\ reply[r].status = 400 => BodyReadFails \/ Malformed(r)
    /\ reply[r].status = 413 => OverBytes(r) \/ OverCount(r)

RepliesTrue == \A r \in Requests : pc[r] = "replied" => Verdict(r)

(* A body over the cap does not get past decoding. *)
Fitting == \A r \in Requests : pc[r] \in {"decoded", "admitted"} => ~OverBytes(r)

(* A client waits for its own request, whose events it still holds. *)
Awaited ==
    \A i \in Installs : waiting[i] # None =>
        /\ pc[waiting[i]] # "idle" /\ msg[waiting[i]].inst = i
        /\ \A e \in msg[waiting[i]].evs : local[e] = "pending"

(* A looked-up offset is the stored one. *)
MemoPinned ==
    \A r \in Requests, k \in Keys : memo[r][k] # None => memo[r][k] = offsets[k]

(* Every row carries the timestamp its session's offset gives. *)
RowsPinned ==
    \A row \in table :
        LET offset == offsets[Key(row.tenant, row.event)]
        IN  /\ row.tenant = TenantOf[Owner[row.event]]
            /\ offset \in Int
            /\ row.ts = Correct(TsClient[row.event], offset, row.received)

IInv == /\ TypeOK /\ Attributed /\ RepliesTrue /\ Fitting /\ Awaited
        /\ MemoPinned /\ RowsPinned

-------------------------------------------------------------------------------
(* The corrected timestamp is an integer within the skew bounds. *)
LEMMA CorrectBounded ==
    ASSUME NEW c \in Int, NEW o \in Int, NEW a \in Int
    PROVE  /\ Correct(c, o, a) \in Int
           /\ Correct(c, o, a) - a <= MaxFutureSkew
           /\ a - Correct(c, o, a) <= MaxPastSkew
  BY SkewAssumption DEF Correct, Clamped

(* A candidate offset is an integer. *)
LEMMA CandidateInt ==
    ASSUME NEW x \in Int, NEW y \in Int PROVE CandidateOffset(x, y) \in Int
  BY SkewAssumption DEF CandidateOffset

(* Batches are finite, so their sizes are natural numbers. *)
LEMMA BatchSize ==
    ASSUME NEW S \in SUBSET Events PROVE Cardinality(S) \in Nat
  BY BatchAssumption, FS_Subset, FS_CardinalityType

(* A batch charges a natural number of units. *)
LEMMA ChargeNat ==
    ASSUME TypeOK, NEW r \in Requests PROVE ChargeUnits(r) \in Nat
<1>1. Valid(r) \in SUBSET Events
  BY DEF TypeOK, Valid
<1> QED
  BY <1>1, BatchSize DEF ChargeUnits

(* The session key of an event. *)
LEMMA KeyInKeys ==
    ASSUME NEW t \in Tenants, NEW e \in Events PROVE Key(t, e) \in Keys
  BY DEF Key, Keys, Sessions

(* TypeOK without the stores. *)
RequestTypes ==
    /\ clock \in Days
    /\ local \in [Events -> Fates]
    /\ waiting \in [Installs -> Requests \union {None}]
    /\ size \in [Installs -> Nat]
    /\ sync \in [Installs -> Syncing]
    /\ pc \in [Requests -> Steps]
    /\ msg \in [Requests -> [inst : Installs \union {None}, evs : SUBSET Events,
                             sentAt : Int]]
    /\ at \in [Requests -> Int]
    /\ memo \in [Requests -> [Keys -> Int \union {None}]]
    /\ reply \in [Requests -> [status : Statuses, accepted : SUBSET Events,
                               rejected : SUBSET Events]]

(* Types of the stores. *)
StoreTypes ==
    /\ faults \in Nat /\ cutoff \subseteq Tenants
    /\ offsets \in [Keys -> Int \union {None}]
    /\ spent \in [Tenants -> [Days -> Nat]]
    /\ table \subseteq [tenant : Tenants, event : Events, ts : Int, received : Int]
    /\ written \in [Tenants -> [Days -> Nat]]

(* What an answer does to the request, whatever the step that gives it. *)
LEMMA RespondKeeps ==
    ASSUME IInv, NEW r \in Requests, pc[r] # "idle",
           NEW st \in Statuses,
           NEW A \in SUBSET msg[r].evs, NEW R \in SUBSET (Invalid \intersect msg[r].evs),
           Respond(r, st, A, R), table \subseteq table', A \subseteq Stored',
           st # 200 => A = {} /\ R = {},
           st = 400 => BodyReadFails \/ Malformed(r),
           st = 413 => OverBytes(r) \/ OverCount(r)
    PROVE  RequestTypes' /\ Attributed' /\ RepliesTrue' /\ Fitting' /\ Awaited'
<1> USE DEF IInv
<1>1. A \in SUBSET Events /\ R \in SUBSET Events
  BY DEF TypeOK
<1>2. Stored \subseteq Stored'
  BY DEF Stored
<1>3. /\ pc' = [pc EXCEPT ![r] = "replied"]
      /\ reply' = [reply EXCEPT ![r] = [status |-> st, accepted |-> A, rejected |-> R]]
      /\ UNCHANGED <<clock, local, waiting, size, sync, msg, at, memo>>
  BY DEF Respond, client
<1>4. reply' \in [Requests -> [status : Statuses, accepted : SUBSET Events,
                               rejected : SUBSET Events]]
  BY <1>1, <1>3 DEF TypeOK
<1>5. pc' \in [Requests -> Steps]
  BY <1>3 DEF TypeOK, Steps
<1>6. Attributed'
  BY <1>3 DEF Attributed, TypeOK
<1>7. RepliesTrue'
  <2> SUFFICES ASSUME NEW q \in Requests, pc'[q] = "replied" PROVE Verdict(q)'
    BY DEF RepliesTrue
  <2>1. CASE q = r
    <3>1. reply'[q] = [status |-> st, accepted |-> A, rejected |-> R] /\ msg'[q] = msg[q]
      BY <1>3, <2>1 DEF TypeOK
    <3> QED BY <2>1, <3>1 DEF Verdict, Malformed, OverBytes, OverCount
  <2>2. CASE q # r
    <3>1. reply'[q] = reply[q] /\ pc'[q] = pc[q] /\ msg'[q] = msg[q]
      BY <1>3, <2>2 DEF TypeOK
    <3>2. Verdict(q)
      BY <3>1 DEF RepliesTrue
    <3> QED BY <1>2, <3>1, <3>2 DEF Verdict, Malformed, OverBytes, OverCount
  <2> QED BY <2>1, <2>2
<1>8. Fitting' /\ Awaited'
  BY <1>3 DEF Fitting, OverBytes, Awaited, TypeOK
<1> QED
  BY <1>3, <1>4, <1>5, <1>6, <1>7, <1>8 DEF TypeOK, RequestTypes

(* An error answer accepts and rejects nothing. *)
LEMMA ErrorKeeps ==
    ASSUME IInv, NEW r \in Requests, pc[r] # "idle", NEW st \in Statuses \ {200},
           HttpError(r, st), table \subseteq table',
           st = 400 => BodyReadFails \/ Malformed(r),
           st = 413 => OverBytes(r) \/ OverCount(r),
           StoreTypes',
           RowsPinned', \A k \in Keys : offsets[k] # None => offsets'[k] = offsets[k]
    PROVE  IInv'
<1>1. Respond(r, st, {}, {})
  BY DEF HttpError
<1>2. TypeOK' /\ Attributed' /\ RepliesTrue' /\ Fitting' /\ Awaited'
  <2>1. /\ {} \in SUBSET msg[r].evs /\ {} \in SUBSET (Invalid \intersect msg[r].evs)
        /\ {} \subseteq Stored'
    OBVIOUS
  <2>2. RequestTypes' /\ Attributed' /\ RepliesTrue' /\ Fitting' /\ Awaited'
    BY <1>1, <2>1, RespondKeeps
  <2> QED BY <2>2 DEF TypeOK, RequestTypes, StoreTypes
<1>3. memo' = memo
  BY <1>1 DEF Respond
<1>4. MemoPinned'
  BY <1>3 DEF IInv, MemoPinned
<1> QED
  BY <1>2, <1>4 DEF IInv

(* A step of the handler that goes on to the next step. *)
LEMMA AdvanceKeeps ==
    ASSUME IInv, NEW r \in Requests, pc[r] # "idle",
           NEW st \in Steps \ {"idle", "replied"}, Advance(r, st), UNCHANGED rows,
           at' = [at EXCEPT ![r] = clock] \/ UNCHANGED at,
           st \in {"received", "verified", "decoded", "admitted"} => at'[r] \in Days,
           st \in {"decoded", "admitted"} => ~OverBytes(r),
           memo' \in [Requests -> [Keys -> Int \union {None}]],
           StoreTypes'
    PROVE  TypeOK' /\ Attributed' /\ RepliesTrue' /\ Fitting' /\ Awaited'
<1> USE DEF IInv
<1>1. /\ pc' = [pc EXCEPT ![r] = st]
      /\ UNCHANGED <<clock, local, waiting, size, sync, msg, reply>>
  BY DEF Advance, client
<1>2. at' \in [Requests -> Int]
  BY BatchAssumption DEF TypeOK, Days
<1>3. TypeOK'
  BY <1>1, <1>2 DEF TypeOK, StoreTypes
<1>4. Attributed'
  <2> SUFFICES ASSUME NEW q \in Requests
               PROVE  /\ pc'[q] # "idle" => /\ msg[q].inst \in Installs
                                            /\ \A e \in msg[q].evs : Owner[e] = msg[q].inst
                      /\ pc'[q] \in {"received", "verified", "decoded", "admitted"}
                            => at'[q] \in Days
    BY <1>1 DEF Attributed
  <2>1. CASE q = r
    BY <1>1, <2>1 DEF Attributed, TypeOK
  <2>2. CASE q # r
    <3>1. pc'[q] = pc[q] /\ at'[q] = at[q]
      BY <1>1, <2>2 DEF TypeOK
    <3> QED BY <3>1 DEF Attributed
  <2> QED BY <2>1, <2>2
<1>5. RepliesTrue'
  <2> SUFFICES ASSUME NEW q \in Requests, pc'[q] = "replied" PROVE Verdict(q)'
    BY DEF RepliesTrue
  <2>1. pc[q] = "replied"
    BY <1>1 DEF TypeOK
  <2>2. Verdict(q)
    BY <2>1 DEF RepliesTrue
  <2> QED BY <1>1, <2>2 DEF Verdict, Malformed, OverBytes, OverCount, Stored, rows
<1>6. Fitting' /\ Awaited'
  BY <1>1 DEF Fitting, OverBytes, Awaited, TypeOK
<1> QED BY <1>3, <1>4, <1>5, <1>6

(* A slot that is given back forgets its request, and nobody waits for it. *)
LEMMA FreeKeeps ==
    ASSUME IInv, NEW r \in Requests, Free(r), UNCHANGED <<clock, stores>>,
           faults' \in Nat,
           local' \in [Events -> Fates],
           waiting' \in [Installs -> Requests \union {None}],
           size' \in [Installs -> Nat],
           sync' \in [Installs -> Syncing],
           \A i \in Installs : waiting'[i] # None =>
              /\ waiting'[i] = waiting[i] /\ waiting[i] # r
              /\ \A e \in msg[waiting[i]].evs : local'[e] = "pending"
    PROVE  IInv'
<1> USE DEF IInv
<1>1. /\ pc' = [pc EXCEPT ![r] = "idle"] /\ msg' = [msg EXCEPT ![r] = NoMsg]
      /\ at' = [at EXCEPT ![r] = 0] /\ memo' = [memo EXCEPT ![r] = NoMemo]
      /\ reply' = [reply EXCEPT ![r] = NoReply]
      /\ UNCHANGED <<offsets, spent, table, written, cutoff>>
  BY DEF Free, stores, rows
<1>2. /\ NoMsg \in [inst : Installs \union {None}, evs : SUBSET Events, sentAt : Int]
      /\ NoReply \in [status : Statuses, accepted : SUBSET Events, rejected : SUBSET Events]
      /\ NoMemo \in [Keys -> Int \union {None}]
  BY DEF NoMsg, NoReply, NoMemo, Statuses
<1>3. TypeOK'
  BY <1>1, <1>2 DEF TypeOK, Steps
<1>4. Attributed'
  BY <1>1 DEF Attributed, TypeOK
<1>5. RepliesTrue'
  <2> SUFFICES ASSUME NEW q \in Requests, pc'[q] = "replied" PROVE Verdict(q)'
    BY DEF RepliesTrue
  <2>1. pc[q] = "replied" /\ msg'[q] = msg[q] /\ reply'[q] = reply[q]
    BY <1>1 DEF TypeOK
  <2>2. Verdict(q)
    BY <2>1 DEF RepliesTrue
  <2> QED BY <1>1, <2>1, <2>2 DEF Verdict, Malformed, OverBytes, OverCount, Stored
<1>6. Awaited'
  <2> SUFFICES ASSUME NEW i \in Installs, waiting'[i] # None
               PROVE  /\ pc'[waiting[i]] # "idle" /\ msg'[waiting[i]].inst = i
                      /\ \A e \in msg'[waiting[i]].evs : local'[e] = "pending"
    BY DEF Awaited
  <2>1. waiting[i] \in Requests /\ waiting[i] # r /\ waiting[i] # None
    BY DEF TypeOK
  <2>2. pc'[waiting[i]] = pc[waiting[i]] /\ msg'[waiting[i]] = msg[waiting[i]]
    BY <1>1, <2>1 DEF TypeOK
  <2> QED BY <2>1, <2>2 DEF Awaited
<1>7. MemoPinned'
  BY <1>1 DEF MemoPinned, NoMemo, TypeOK
<1>8. RowsPinned'
  BY <1>1 DEF RowsPinned
<1>9. Fitting'
  BY <1>1 DEF Fitting, OverBytes, TypeOK
<1> QED BY <1>3, <1>4, <1>5, <1>6, <1>7, <1>8, <1>9

-------------------------------------------------------------------------------
(* The initial state: no request, no row, no offset. *)
LEMMA InitIInv == Init => IInv
<1> SUFFICES ASSUME Init PROVE IInv
  OBVIOUS
<1>1. /\ NoMsg \in [inst : Installs \union {None}, evs : SUBSET Events, sentAt : Int]
      /\ NoReply \in [status : Statuses, accepted : SUBSET Events, rejected : SUBSET Events]
      /\ NoMemo \in [Keys -> Int \union {None}]
  BY DEF NoMsg, NoReply, NoMemo, Statuses
<1>2. StartTime \in Days
  BY BatchAssumption DEF Days
<1>3. Cardinality(Events) \in Nat
  BY BatchSize
<1>4. TypeOK
  BY <1>1, <1>2, <1>3, BatchAssumption DEF Init, TypeOK, Steps, Fates, Syncing
<1>5. Attributed /\ Fitting /\ Awaited
  BY DEF Init, Attributed, Fitting, Awaited
<1>6. RepliesTrue
  BY DEF Init, RepliesTrue
<1>7. MemoPinned
  BY DEF Init, MemoPinned, NoMemo
<1>8. RowsPinned
  BY DEF Init, RowsPinned
<1> QED BY <1>4, <1>5, <1>6, <1>7, <1>8 DEF IInv

(* Facts of the stores while a step leaves them alone. *)
LEMMA StoresStill ==
    ASSUME IInv, UNCHANGED stores, Fault \/ Calm
    PROVE  /\ StoreTypes' /\ UNCHANGED rows
           /\ table \subseteq table' /\ RowsPinned'
           /\ \A k \in Keys : offsets[k] # None => offsets'[k] = offsets[k]
<1>1. UNCHANGED <<offsets, spent, table, written, cutoff>>
  BY DEF stores, rows
<1>2. StoreTypes'
  BY <1>1 DEF IInv, TypeOK, StoreTypes, Fault, Calm
<1>3. RowsPinned'
  BY <1>1 DEF IInv, RowsPinned
<1> QED BY <1>1, <1>2, <1>3 DEF rows

(* The fault budget stays a natural number. *)
LEMMA FaultNat == ASSUME IInv, Fault \/ Calm PROVE faults' \in Nat
  BY DEF IInv, TypeOK, Fault, Calm

(* receivedAt is a day of the clock. *)
LEMMA ReceiveKeeps == ASSUME IInv, NEW r \in Requests, Receive(r) PROVE IInv'
<1> USE DEF IInv
<1>1. /\ pc[r] = "sent" /\ at' = [at EXCEPT ![r] = clock] /\ Advance(r, "received")
      /\ Calm /\ UNCHANGED <<memo, offsets, stores>>
  BY DEF Receive, stores
<1>2. at'[r] \in Days
  BY <1>1 DEF TypeOK
<1>3. TypeOK' /\ Attributed' /\ RepliesTrue' /\ Fitting' /\ Awaited'
  <2>1. "received" \in Steps \ {"idle", "replied"}
    BY DEF Steps
  <2> QED BY <1>1, <1>2, <2>1, AdvanceKeeps, StoresStill DEF TypeOK
<1>4. MemoPinned' /\ RowsPinned'
  BY <1>1, StoresStill DEF MemoPinned
<1> QED BY <1>3, <1>4

(* A verified token or write key changes no store. *)
LEMMA AuthorizeKeeps == ASSUME IInv, NEW r \in Requests, Authorize(r) PROVE IInv'
<1>1. pc[r] = "received" /\ UNCHANGED stores
  BY DEF Authorize
<1>2. CASE Calm /\ Advance(r, "verified") /\ UNCHANGED <<at, memo>>
  <2>1. "verified" \in Steps \ {"idle", "replied"} /\ at'[r] \in Days
    BY <1>1, <1>2 DEF Steps, IInv, Attributed
  <2>2. TypeOK' /\ Attributed' /\ RepliesTrue' /\ Fitting' /\ Awaited'
    BY <1>1, <1>2, <2>1, AdvanceKeeps, StoresStill DEF IInv, TypeOK
  <2>3. MemoPinned' /\ RowsPinned'
    BY <1>1, <1>2, StoresStill DEF IInv, MemoPinned, stores
  <2> QED BY <2>2, <2>3 DEF IInv
<1>3. CASE (Fault \/ Calm) /\ HttpError(r, 401)
  <2>1. 401 \in Statuses \ {200}
    BY DEF Statuses
  <2> QED BY <1>1, <1>3, <2>1, StoresStill, ErrorKeeps
<1> QED BY <1>2, <1>3 DEF Authorize

(* Decoding answers 400 only for a broken upload or a batch that does not  *)
(* decode, 413 only for a big one.                                         *)
LEMMA DecodeKeeps == ASSUME IInv, NEW r \in Requests, Decode(r) PROVE IInv'
<1>1. pc[r] = "verified" /\ UNCHANGED stores
  BY DEF Decode
<1>2. {400, 413, 503} \subseteq Statuses \ {200}
  BY DEF Statuses
<1>3. CASE (Fault \/ Calm) /\ (BodyReadFails \/ Malformed(r)) /\ HttpError(r, 400)
  BY <1>1, <1>2, <1>3, StoresStill, ErrorKeeps
<1>4. CASE (OverBytes(r) \/ OverCount(r)) /\ Calm /\ HttpError(r, 413)
  BY <1>1, <1>2, <1>4, StoresStill, ErrorKeeps
<1>5. CASE ~OverBytes(r) /\ Calm /\ Advance(r, "decoded") /\ UNCHANGED <<at, memo>>
  <2>1. "decoded" \in Steps \ {"idle", "replied"} /\ at'[r] \in Days
    BY <1>1, <1>5 DEF Steps, IInv, Attributed
  <2>2. TypeOK' /\ Attributed' /\ RepliesTrue' /\ Fitting' /\ Awaited'
    BY <1>1, <1>5, <2>1, AdvanceKeeps, StoresStill DEF IInv, TypeOK
  <2>3. MemoPinned' /\ RowsPinned'
    BY <1>1, <1>5, StoresStill DEF IInv, MemoPinned, stores
  <2> QED BY <2>2, <2>3 DEF IInv
<1>6. CASE Fault /\ HttpError(r, 503)
  BY <1>1, <1>2, <1>6, StoresStill, ErrorKeeps
<1> QED BY <1>3, <1>4, <1>5, <1>6 DEF Decode, ReadBody, LimitsFor

(* Admission moves a daily counter and nothing else. *)
LEMMA AdmitKeeps == ASSUME IInv, NEW r \in Requests, Admit(r) PROVE IInv'
<1>1. pc[r] = "decoded" /\ UNCHANGED <<offsets, table, written, cutoff>>
  BY DEF Admit, rows
<1>2. {429, 503} \subseteq Statuses \ {200}
  BY DEF Statuses
<1>3. at[r] \in Days /\ TenantId(r) \in Tenants
  BY <1>1, BatchAssumption DEF IInv, Attributed, TenantId
<1>4. Consume(r) \/ UNCHANGED spent => spent' \in [Tenants -> [Days -> Nat]]
  <2>1. ChargeUnits(r) \in Nat
    BY ChargeNat DEF IInv
  <2>2. spent \in [Tenants -> [Days -> Nat]]
    BY DEF IInv, TypeOK
  <2>3. spent[TenantId(r)][at[r]] + ChargeUnits(r) \in Nat
    BY <1>3, <2>1, <2>2
  <2>4. CASE Consume(r)
    BY <1>3, <2>2, <2>3, <2>4 DEF Consume
  <2> QED BY <2>2, <2>4
<1>5. /\ (Fault \/ Calm) /\ (Consume(r) \/ UNCHANGED spent) => StoreTypes'
      /\ table \subseteq table' /\ RowsPinned'
      /\ \A k \in Keys : offsets[k] # None => offsets'[k] = offsets[k]
  <2>1. (Fault \/ Calm) /\ (Consume(r) \/ UNCHANGED spent) => StoreTypes'
    BY <1>1, <1>4, FaultNat DEF IInv, TypeOK, StoreTypes
  <2> QED BY <1>1, <2>1 DEF IInv, RowsPinned
<1>6. CASE Calm /\ HttpError(r, 429) /\ UNCHANGED spent
  BY <1>1, <1>2, <1>5, <1>6, ErrorKeeps
<1>7. CASE Fault /\ HttpError(r, 429) /\ UNCHANGED spent
  BY <1>1, <1>2, <1>5, <1>7, ErrorKeeps
<1>8. CASE Fault /\ HttpError(r, 503) /\ (Consume(r) \/ UNCHANGED spent)
  BY <1>1, <1>2, <1>5, <1>8, ErrorKeeps
<1>9. CASE Calm /\ Consume(r) /\ Advance(r, "admitted") /\ UNCHANGED <<at, memo>>
  <2>1. "admitted" \in Steps \ {"idle", "replied"} /\ at'[r] \in Days /\ ~OverBytes(r)
    BY <1>1, <1>3, <1>9 DEF Steps, IInv, Fitting
  <2>2. TypeOK' /\ Attributed' /\ RepliesTrue' /\ Fitting' /\ Awaited'
    BY <1>1, <1>5, <1>9, <2>1, AdvanceKeeps DEF IInv, TypeOK, rows
  <2>3. MemoPinned'
    BY <1>1, <1>9 DEF IInv, MemoPinned
  <2> QED BY <1>5, <2>2, <2>3 DEF IInv
<1> QED BY <1>6, <1>7, <1>8, <1>9 DEF Admit

(* Of all requests that meet a new session only the first pins its offset. *)
LEMMA PinOffsetKeeps == ASSUME IInv, NEW r \in Requests, PinOffset(r) PROVE IInv'
<1>1. pc[r] = "admitted" /\ UNCHANGED <<spent, table, written, cutoff>>
  BY DEF PinOffset, rows
<1>2. at[r] \in Days /\ TenantId(r) \in Tenants /\ msg[r].sentAt \in Int
  BY <1>1, BatchAssumption DEF IInv, Attributed, TenantId, TypeOK
<1>3. PICK k \in KeysOf(r) :
        /\ memo[r][k] = None
        /\ LET offset == GetOrSet(k, CandidateOffset(msg[r].sentAt, at[r]))
           IN  \/ /\ Calm
                  /\ offsets' = [offsets EXCEPT ![k] = offset]
                  /\ memo' = [memo EXCEPT ![r][k] = offset]
                  /\ Advance(r, "admitted")
                  /\ UNCHANGED at
               \/ /\ Fault
                  /\ offsets' = [offsets EXCEPT ![k] = offset] \/ UNCHANGED offsets
                  /\ HttpError(r, 503)
  BY DEF PinOffset
<1> DEFINE o == GetOrSet(k, CandidateOffset(msg[r].sentAt, at[r]))
<1>4. k \in Keys
  BY <1>2, KeyInKeys DEF KeysOf, Valid, IInv, TypeOK
<1>5. o \in Int /\ (offsets[k] # None => o = offsets[k])
  <2>1. CandidateOffset(msg[r].sentAt, at[r]) \in Int
    <3>1. at[r] \in Int
      BY DEF IInv, TypeOK
    <3> QED BY <1>2, <3>1, CandidateInt
  <2> QED BY <1>4, <2>1 DEF GetOrSet, IInv, TypeOK
<1>6. offsets' = [offsets EXCEPT ![k] = o] \/ UNCHANGED offsets
  BY <1>3
<1> HIDE DEF o
<1>7. /\ offsets' \in [Keys -> Int \union {None}]
      /\ \A x \in Keys : offsets[x] # None => offsets'[x] = offsets[x]
  BY <1>4, <1>5, <1>6 DEF IInv, TypeOK
<1>8. RowsPinned'
  <2> SUFFICES ASSUME NEW row \in table
               PROVE  LET offset == offsets'[Key(row.tenant, row.event)]
                      IN  /\ row.tenant = TenantOf[Owner[row.event]]
                          /\ offset \in Int
                          /\ row.ts = Correct(TsClient[row.event], offset, row.received)
    BY <1>1 DEF RowsPinned, Key, Correct, Clamped
  <2>1. Key(row.tenant, row.event) \in Keys
    BY KeyInKeys DEF IInv, TypeOK
  <2>2. offsets[Key(row.tenant, row.event)] \in Int
    BY DEF IInv, RowsPinned
  <2>3. offsets'[Key(row.tenant, row.event)] = offsets[Key(row.tenant, row.event)]
    BY <1>7, <2>1, <2>2, BatchAssumption
  <2> QED BY <2>2, <2>3 DEF IInv, RowsPinned
<1>9. (Fault \/ Calm => StoreTypes') /\ table \subseteq table'
  BY <1>1, <1>7, FaultNat DEF IInv, TypeOK, StoreTypes
<1>10. CASE /\ Calm /\ memo' = [memo EXCEPT ![r][k] = o]
            /\ offsets' = [offsets EXCEPT ![k] = o]
            /\ Advance(r, "admitted") /\ UNCHANGED at
  <2>1. "admitted" \in Steps \ {"idle", "replied"} /\ at'[r] \in Days /\ ~OverBytes(r)
    BY <1>1, <1>2, <1>10 DEF Steps, IInv, Fitting
  <2>2. memo' \in [Requests -> [Keys -> Int \union {None}]]
    BY <1>4, <1>5, <1>10 DEF IInv, TypeOK
  <2>3. TypeOK' /\ Attributed' /\ RepliesTrue' /\ Fitting' /\ Awaited'
    BY <1>1, <1>9, <1>10, <2>1, <2>2, AdvanceKeeps DEF rows
  <2>4. MemoPinned'
    <3> SUFFICES ASSUME NEW q \in Requests, NEW x \in Keys, memo'[q][x] # None
                 PROVE  memo'[q][x] = offsets'[x]
      BY DEF MemoPinned
    <3>1. CASE q = r /\ x = k
      BY <1>4, <1>10, <3>1 DEF IInv, TypeOK
    <3>2. CASE ~(q = r /\ x = k)
      <4>1. memo'[q][x] = memo[q][x]
        BY <1>4, <1>10, <3>2 DEF IInv, TypeOK
      <4> QED BY <1>7, <4>1 DEF IInv, MemoPinned
    <3> QED BY <3>1, <3>2
  <2> QED BY <1>8, <2>3, <2>4 DEF IInv
<1>11. CASE Fault /\ HttpError(r, 503)
  <2>1. 503 \in Statuses \ {200}
    BY DEF Statuses
  <2> QED BY <1>1, <1>7, <1>8, <1>9, <1>11, <2>1, ErrorKeeps
<1> QED BY <1>3, <1>10, <1>11 DEF o

(* The rows of a request follow the pinned offsets. *)
LEMMA RowsOfPinned ==
    ASSUME IInv, NEW r \in Requests, pc[r] = "admitted",
           \A k \in KeysOf(r) : memo[r][k] # None, NEW row \in RowsOf(r)
    PROVE  /\ row \in [tenant : Tenants, event : Events, ts : Int, received : Int]
           /\ row.event \in Valid(r)
           /\ row.tenant = TenantOf[Owner[row.event]]
           /\ offsets[Key(row.tenant, row.event)] \in Int
           /\ row.ts = Correct(TsClient[row.event],
                               offsets[Key(row.tenant, row.event)], row.received)
<1> DEFINE t == TenantId(r)
<1>1. PICK e \in Valid(r) : row = Row(r, e)
  BY DEF RowsOf
<1>2. e \in Events /\ e \in msg[r].evs /\ at[r] \in Int
  BY <1>1 DEF IInv, TypeOK, Valid
<1>3. t \in Tenants /\ t = TenantOf[Owner[e]]
  BY <1>2, BatchAssumption DEF IInv, Attributed, TenantId
<1>4. Key(t, e) \in Keys /\ Key(t, e) \in KeysOf(r)
  BY <1>1, <1>2, <1>3, KeyInKeys DEF KeysOf
<1>5. memo[r][Key(t, e)] \in Int /\ memo[r][Key(t, e)] = offsets[Key(t, e)]
  BY <1>4 DEF IInv, TypeOK, MemoPinned
<1>6. TsClient[e] \in Int
  BY <1>2, BatchAssumption
<1>7. row = [tenant |-> t, event |-> e, received |-> at[r],
             ts |-> Correct(TsClient[e], offsets[Key(t, e)], at[r])]
  BY <1>1, <1>5 DEF Row
<1>8. Correct(TsClient[e], offsets[Key(t, e)], at[r]) \in Int
  BY <1>2, <1>5, <1>6, CorrectBounded
<1> HIDE DEF t
<1> QED BY <1>1, <1>2, <1>3, <1>5, <1>7, <1>8

(* A request writes a natural number of rows. *)
LEMMA RowsOfFinite ==
    ASSUME IInv, NEW r \in Requests, NEW W \in SUBSET RowsOf(r)
    PROVE  /\ IsFiniteSet(W) /\ Cardinality(W) \in Nat
           /\ Cardinality(W) <= Cardinality(Valid(r))
<1> DEFINE f == [e \in Valid(r) |-> Row(r, e)]
<1>1. f \in Surjection(Valid(r), RowsOf(r))
  BY DEF Surjection, RowsOf
<1>2. Valid(r) \in SUBSET Events
  BY DEF IInv, TypeOK, Valid
<1>3. IsFiniteSet(Valid(r)) /\ Cardinality(Valid(r)) \in Nat
  BY <1>2, BatchAssumption, FS_Subset, FS_CardinalityType
<1>4. IsFiniteSet(RowsOf(r)) /\ Cardinality(RowsOf(r)) <= Cardinality(Valid(r))
  BY <1>1, <1>3, FS_Surjection
<1>5. IsFiniteSet(W) /\ Cardinality(W) <= Cardinality(RowsOf(r))
  BY <1>4, FS_Subset
<1>6. Cardinality(W) \in Nat /\ Cardinality(RowsOf(r)) \in Nat
  BY <1>4, <1>5, FS_CardinalityType
<1> QED BY <1>3, <1>4, <1>5, <1>6

(* The answer to an inserted batch is given after its rows are stored. *)
LEMMA InsertKeeps == ASSUME IInv, NEW r \in Requests, Insert(r) PROVE IInv'
<1>1. /\ pc[r] = "admitted" /\ UNCHANGED <<offsets, spent, cutoff>>
      /\ \A k \in KeysOf(r) : memo[r][k] # None
  BY DEF Insert
<1>2. PICK W \in SUBSET RowsOf(r) : Write(r, W)
  BY DEF Insert, InsertEvents, InsertEventsFails
<1>3. /\ table \subseteq table' /\ RowsPinned'
      /\ table' \subseteq [tenant : Tenants, event : Events, ts : Int, received : Int]
  <2>1. table' \subseteq [tenant : Tenants, event : Events, ts : Int, received : Int]
    BY <1>1, <1>2, RowsOfPinned DEF IInv, TypeOK, Write
  <2>2. RowsPinned'
    <3> SUFFICES ASSUME NEW row \in table'
                 PROVE  LET offset == offsets[Key(row.tenant, row.event)]
                        IN  /\ row.tenant = TenantOf[Owner[row.event]]
                            /\ offset \in Int
                            /\ row.ts = Correct(TsClient[row.event], offset, row.received)
      BY <1>1 DEF RowsPinned, Key, Correct, Clamped
    <3>1. CASE row \in table
      BY <3>1 DEF IInv, RowsPinned
    <3>2. CASE row \in RowsOf(r)
      BY <1>1, <3>2, RowsOfPinned
    <3> QED BY <1>2, <3>1, <3>2 DEF Write
  <2> QED BY <1>2, <2>1, <2>2 DEF Write
<1>4. /\ Fault \/ Calm => StoreTypes'
      /\ \A k \in Keys : offsets[k] # None => offsets'[k] = offsets[k]
  <2>1. at[r] \in Days /\ TenantId(r) \in Tenants /\ Cardinality(W) \in Nat
    BY <1>1, RowsOfFinite, BatchAssumption DEF IInv, Attributed, TenantId
  <2>2. written \in [Tenants -> [Days -> Nat]]
    BY DEF IInv, TypeOK
  <2>3. written[TenantId(r)][at[r]] + Cardinality(W) \in Nat
    BY <2>1, <2>2
  <2>4. written' \in [Tenants -> [Days -> Nat]]
    BY <1>2, <2>1, <2>2, <2>3 DEF Write
  <2> QED BY <1>1, <1>3, <2>4, FaultNat DEF IInv, TypeOK, StoreTypes
<1>5. 200 \in Statuses /\ 503 \in Statuses \ {200}
  BY DEF Statuses
<1>6. CASE /\ Calm /\ Write(r, RowsOf(r))
           /\ Respond(r, 200, Valid(r), msg[r].evs \intersect Invalid)
  <2>1. /\ Valid(r) \in SUBSET msg[r].evs
        /\ msg[r].evs \intersect Invalid \in SUBSET (Invalid \intersect msg[r].evs)
    BY DEF Valid
  <2>2. Valid(r) \subseteq Stored'
    <3> SUFFICES ASSUME NEW e \in Valid(r) PROVE e \in Stored'
      OBVIOUS
    <3>1. Row(r, e) \in table' /\ Row(r, e).event = e
      BY <1>6 DEF RowsOf, Row, Write
    <3> QED BY <3>1 DEF Stored
  <2>3. RequestTypes' /\ Attributed' /\ RepliesTrue' /\ Fitting' /\ Awaited'
    BY <1>1, <1>3, <1>5, <1>6, <2>1, <2>2, RespondKeeps
  <2>4. TypeOK'
    BY <1>4, <1>6, <2>3 DEF TypeOK, RequestTypes, StoreTypes
  <2>5. MemoPinned'
    BY <1>1, <1>6 DEF Respond, IInv, MemoPinned
  <2> QED BY <1>3, <2>3, <2>4, <2>5 DEF IInv
<1>7. CASE Fault /\ HttpError(r, 503)
  BY <1>1, <1>3, <1>4, <1>5, <1>7, ErrorKeeps
<1> QED BY <1>6, <1>7 DEF Insert, InsertEvents, InsertEventsFails

(* A client sends only its own pending events. *)
LEMMA SendKeeps == ASSUME IInv, NEW i \in Installs, Send(i) PROVE IInv'
<1>1. PICK r \in Requests, evs \in SUBSET Pending(i), s \in SentSkews :
        /\ pc[r] = "idle"
        /\ pc' = [pc EXCEPT ![r] = "sent"]
        /\ msg' = [msg EXCEPT ![r] = [inst |-> i, evs |-> evs, sentAt |-> clock + s]]
        /\ waiting' = [waiting EXCEPT ![i] = r]
  BY DEF Send
<1>2. UNCHANGED <<clock, faults, local, size, sync, at, memo, reply, offsets, spent,
                  table, written, cutoff>>
  BY DEF Send, stores, rows
<1>3. clock + s \in Int
  BY BatchAssumption DEF IInv, TypeOK, Days
<1>4. evs \in SUBSET Events /\ \A e \in evs : Owner[e] = i /\ local[e] = "pending"
  BY DEF Pending
<1>5. TypeOK'
  BY <1>1, <1>2, <1>3, <1>4 DEF IInv, TypeOK, Steps
<1>6. Attributed'
  <2> SUFFICES ASSUME NEW q \in Requests
               PROVE  /\ pc'[q] # "idle" =>
                            /\ msg'[q].inst \in Installs
                            /\ \A e \in msg'[q].evs : Owner[e] = msg'[q].inst
                      /\ pc'[q] \in {"received", "verified", "decoded", "admitted"}
                            => at[q] \in Days
    BY <1>2 DEF Attributed
  <2>1. CASE q = r
    BY <1>1, <1>4, <2>1 DEF IInv, TypeOK
  <2>2. CASE q # r
    BY <1>1, <2>2 DEF IInv, TypeOK, Attributed
  <2> QED BY <2>1, <2>2
<1>7. RepliesTrue'
  <2> SUFFICES ASSUME NEW q \in Requests, pc'[q] = "replied" PROVE Verdict(q)'
    BY DEF RepliesTrue
  <2>1. pc[q] = "replied" /\ msg'[q] = msg[q]
    BY <1>1 DEF IInv, TypeOK
  <2>2. Verdict(q)
    BY <2>1 DEF IInv, RepliesTrue
  <2> QED BY <1>2, <2>1, <2>2 DEF Verdict, Malformed, OverBytes, OverCount, Stored
<1>8. Awaited'
  <2> SUFFICES ASSUME NEW j \in Installs, waiting'[j] # None
               PROVE  /\ pc'[waiting'[j]] # "idle" /\ msg'[waiting'[j]].inst = j
                      /\ \A e \in msg'[waiting'[j]].evs : local'[e] = "pending"
    BY DEF Awaited
  <2>1. CASE j = i
    <3>1. waiting'[j] = r
      BY <1>1, <2>1 DEF IInv, TypeOK
    <3> QED BY <1>1, <1>2, <1>4, <2>1, <3>1 DEF IInv, TypeOK
  <2>2. CASE j # i
    <3>1. waiting'[j] = waiting[j] /\ waiting[j] \in Requests
      BY <1>1, <2>2 DEF IInv, TypeOK
    <3>2. waiting[j] # r
      BY <1>1, <3>1 DEF IInv, Awaited
    <3> QED BY <1>1, <1>2, <3>1, <3>2 DEF IInv, TypeOK, Awaited
  <2> QED BY <2>1, <2>2
<1>9. Fitting' /\ MemoPinned' /\ RowsPinned'
  BY <1>1, <1>2 DEF IInv, TypeOK, Fitting, OverBytes, MemoPinned, RowsPinned
<1> QED BY <1>5, <1>6, <1>7, <1>8, <1>9 DEF IInv

(* What a client takes from an answer was in the batch it sent. *)
LEMMA TakesFromBatch ==
    ASSUME IInv, NEW i \in Installs, Handle(i)
    PROVE  LET r == waiting[i]
           IN  /\ r \in Requests /\ msg[r].inst = i /\ Verdict(r)
               /\ Deletes(r) \union Buries(r) \union Drops(r) \subseteq msg[r].evs
               /\ \A e \in msg[r].evs : Owner[e] = i /\ local[e] = "pending"
<1> DEFINE r == waiting[i]
<1>1. r \in Requests /\ r # None /\ pc[r] = "replied"
  BY DEF Handle, IInv, TypeOK
<1>2. Verdict(r)
  BY <1>1 DEF IInv, RepliesTrue
<1>3. msg[r].inst = i /\ \A e \in msg[r].evs : local[e] = "pending"
  BY <1>1 DEF IInv, Awaited
<1>4. \A e \in msg[r].evs : Owner[e] = i
  BY <1>1, <1>3 DEF IInv, Attributed
<1>5. Deletes(r) \union Buries(r) \union Drops(r) \subseteq msg[r].evs
  BY <1>2 DEF Verdict, Deletes, Buries, Drops
<1> QED BY <1>1, <1>2, <1>3, <1>4, <1>5

(* A client that reads its answer leaves the other clients' events alone. *)
LEMMA HandleKeeps == ASSUME IInv, NEW i \in Installs, Handle(i) PROVE IInv'
<1> DEFINE r == waiting[i]
<1>1. r \in Requests /\ Free(r) /\ UNCHANGED <<clock, faults, stores>>
  BY DEF Handle, IInv, TypeOK
<1>2. waiting' = [waiting EXCEPT ![i] = None]
  BY DEF Handle
<1>3. local' = [e \in Events |-> CASE e \in Deletes(r) -> "deleted"
                                   [] e \in Buries(r)  -> "dead"
                                   [] e \in Drops(r)   -> "dropped"
                                   [] OTHER -> local[e]]
  BY DEF Handle
<1>4. local' \in [Events -> Fates]
  <2> HIDE DEF r
  <2> QED BY <1>3 DEF IInv, TypeOK, Fates
<1>5. size' \in [Installs -> Nat]
  <2>1. Cardinality(msg[r].evs) \in Nat
    BY <1>1, BatchSize DEF IInv, TypeOK
  <2>2. Cardinality(msg[r].evs) \div 2 \in Nat
    BY <2>1
  <2> QED BY <2>2 DEF Handle, IInv, TypeOK
<1>6. sync' \in [Installs -> Syncing]
  BY DEF Handle, SyncAfter, Syncing, IInv, TypeOK
<1>7. ASSUME NEW j \in Installs, waiting'[j] # None
      PROVE  /\ waiting'[j] = waiting[j] /\ waiting[j] # r
             /\ \A e \in msg[waiting[j]].evs : local'[e] = "pending"
  <2>1. j # i /\ waiting'[j] = waiting[j] /\ waiting[j] \in Requests
    BY <1>2, <1>7 DEF IInv, TypeOK
  <2>2. /\ pc[waiting[j]] # "idle" /\ msg[waiting[j]].inst = j
        /\ \A e \in msg[waiting[j]].evs : local[e] = "pending"
    BY <1>7, <2>1 DEF IInv, Awaited
  <2>3. msg[r].inst = i /\ \A e \in Deletes(r) \union Buries(r) \union Drops(r) : Owner[e] = i
    BY TakesFromBatch
  <2>4. \A e \in msg[waiting[j]].evs : e \in Events /\ Owner[e] = j
    BY <2>1, <2>2 DEF IInv, Attributed, TypeOK
  <2> HIDE DEF r
  <2> QED BY <1>3, <2>1, <2>2, <2>3, <2>4
<1>8. faults' \in Nat /\ waiting' \in [Installs -> Requests \union {None}]
  BY <1>1, <1>2 DEF IInv, TypeOK
<1> HIDE DEF r
<1> QED BY <1>1, <1>4, <1>5, <1>6, <1>7, <1>8, FreeKeeps

(* The steps that give up on a request. *)
LEMMA AbortKeeps == ASSUME IInv, NEW r \in Requests, Abort(r) PROVE IInv'
<1>1. Free(r) /\ UNCHANGED <<clock, stores>> /\ UNCHANGED <<local, size>> /\ Fault
  BY DEF Abort
<1>2. /\ waiting' \in [Installs -> Requests \union {None}]
      /\ sync' \in [Installs -> Syncing]
  BY DEF Abort, IInv, TypeOK, Syncing
<1>3. local' \in [Events -> Fates] /\ size' \in [Installs -> Nat]
  BY <1>1 DEF IInv, TypeOK
<1>4. ASSUME NEW i \in Installs, waiting'[i] # None
      PROVE  /\ waiting'[i] = waiting[i] /\ waiting[i] # r
             /\ \A e \in msg[waiting[i]].evs : local'[e] = "pending"
  <2>1. waiting'[i] = waiting[i] /\ waiting[i] # r
    BY <1>4 DEF Abort
  <2> QED BY <1>1, <1>4, <2>1 DEF IInv, Awaited
<1> QED BY <1>1, <1>2, <1>3, <1>4, FaultNat, FreeKeeps

(* An answer nobody waits for is dropped with its slot. *)
LEMMA DiscardKeeps == ASSUME IInv, NEW r \in Requests, Discard(r) PROVE IInv'
<1>1. /\ Free(r) /\ UNCHANGED <<clock, stores>>
      /\ UNCHANGED <<faults, local, waiting, size, sync>>
      /\ \A i \in Installs : waiting[i] # r
  BY DEF Discard, client
<1>2. /\ local' \in [Events -> Fates]
      /\ waiting' \in [Installs -> Requests \union {None}]
      /\ size' \in [Installs -> Nat] /\ sync' \in [Installs -> Syncing] /\ faults' \in Nat
  BY <1>1 DEF IInv, TypeOK
<1>3. \A i \in Installs : waiting'[i] # None =>
              /\ waiting'[i] = waiting[i] /\ waiting[i] # r
              /\ \A e \in msg[waiting[i]].evs : local'[e] = "pending"
  BY <1>1 DEF IInv, Awaited
<1> QED BY <1>1, <1>2, <1>3, FreeKeeps

(* A step that touches no request, no offset and no row. *)
LEMMA StandsStill ==
    ASSUME IInv, TypeOK', UNCHANGED <<local, pc, msg, at, memo, reply, offsets, table>>,
           \A i \in Installs : waiting'[i] \in {waiting[i], None}
    PROVE  IInv'
<1>1. Attributed' /\ Fitting' /\ MemoPinned' /\ RowsPinned'
  BY DEF IInv, Attributed, Fitting, OverBytes, MemoPinned, RowsPinned
<1>2. RepliesTrue'
  BY DEF IInv, RepliesTrue, Verdict, Malformed, OverBytes, OverCount, Stored
<1>3. Awaited'
  BY DEF IInv, Awaited
<1> QED BY <1>1, <1>2, <1>3 DEF IInv

(* A client that stops waiting leaves its request running. *)
LEMMA TimeoutKeeps == ASSUME IInv, NEW i \in Installs, Timeout(i) PROVE IInv'
<1>1. /\ UNCHANGED <<clock, local, size, pc, msg, at, memo, reply, offsets, spent,
                     table, written, cutoff>>
      /\ waiting' = [waiting EXCEPT ![i] = None] /\ Fault
      /\ sync' = [sync EXCEPT ![i] = "on"]
  BY DEF Timeout, stores, rows
<1>2. TypeOK'
  BY <1>1, FaultNat DEF IInv, TypeOK, Syncing
<1>3. \A j \in Installs : waiting'[j] \in {waiting[j], None}
  BY <1>1 DEF IInv, TypeOK
<1> QED BY <1>1, <1>2, <1>3, StandsStill

(* A restarted client begins with a full batch size. *)
LEMMA ResumeKeeps == ASSUME IInv, NEW i \in Installs, Resume(i) PROVE IInv'
<1>1. /\ UNCHANGED <<clock, faults, local, waiting, pc, msg, at, memo, reply, offsets,
                     spent, table, written, cutoff>>
      /\ sync' = [sync EXCEPT ![i] = "on"]
      /\ size' = [size EXCEPT ![i] = Cardinality(Events)]
  BY DEF Resume, stores, rows
<1>2. Cardinality(Events) \in Nat
  BY BatchSize
<1>3. TypeOK'
  BY <1>1, <1>2 DEF IInv, TypeOK, Syncing
<1> QED BY <1>1, <1>3, StandsStill

(* Time passes. *)
LEMMA TickKeeps == ASSUME IInv, Tick PROVE IInv'
<1>1. /\ clock < MaxClock /\ clock' = clock + 1
      /\ UNCHANGED <<faults, local, waiting, size, sync, pc, msg, at, memo, reply,
                     offsets, spent, table, written, cutoff>>
  BY DEF Tick, client, stores, rows
<1>2. clock' \in Days
  BY <1>1, BatchAssumption DEF IInv, TypeOK, Days
<1>3. TypeOK'
  BY <1>1, <1>2 DEF IInv, TypeOK
<1> QED BY <1>1, <1>3, StandsStill

(* The operator's cutover touches no request and no row. *)
LEMMA CutoverKeeps ==
    ASSUME IInv, NEW t \in Tenants, CutOff(t) \/ RollBack(t) PROVE IInv'
<1>1. /\ UNCHANGED <<clock, local, waiting, size, sync, pc, msg, at, memo, reply,
                     offsets, spent, table, written>>
      /\ cutoff' \subseteq Tenants /\ faults' \in Nat
  BY DEF CutOff, RollBack, client, rows, Fault, IInv, TypeOK
<1>2. TypeOK'
  BY <1>1 DEF IInv, TypeOK
<1> QED BY <1>1, <1>2, StandsStill

(* Every step keeps the invariant. *)
LEMMA NextIInv == IInv /\ [Next]_vars => IInv'
<1> SUFFICES ASSUME IInv, [Next]_vars PROVE IInv'
  OBVIOUS
<1>1. CASE UNCHANGED vars
  BY <1>1, StandsStill DEF vars, client, stores, rows, IInv, TypeOK
<1>2. ASSUME NEW r \in Requests, Handler(r) \/ Abort(r) \/ Discard(r) PROVE IInv'
  BY <1>2, ReceiveKeeps, AuthorizeKeeps, DecodeKeeps, AdmitKeeps, PinOffsetKeeps,
     InsertKeeps, AbortKeeps, DiscardKeeps DEF Handler
<1>3. ASSUME NEW i \in Installs, Send(i) \/ Handle(i) \/ Timeout(i) \/ Resume(i)
      PROVE IInv'
  BY <1>3, SendKeeps, HandleKeeps, TimeoutKeeps, ResumeKeeps
<1> QED BY <1>1, <1>2, <1>3, CutoverKeeps, TickKeeps DEF Next

(* Every reachable state satisfies the invariant. *)
THEOREM Invariance == Spec => []IInv
  BY InitIInv, NextIInv, PTL DEF Spec

-------------------------------------------------------------------------------
(* All state keeps its type, at every step of every request. *)
THEOREM TypeCorrect == Spec => []TypeOK
  BY Invariance, PTL DEF IInv

(* All unclamped rows of an event carry one timestamp: the offset was      *)
(* pinned by whichever request came first, on whatever pod.                *)
THEOREM RetriesCollapse == Spec => []DuplicatesCollapse
<1>1. IInv => DuplicatesCollapse
  BY DEF IInv, RowsPinned, DuplicatesCollapse, Correct
<1> QED BY <1>1, Invariance, PTL

(* No row is stored outside the skew bounds around its arrival. *)
THEOREM PartitionsStayBounded == Spec => []PartitionsBounded
<1>1. IInv => PartitionsBounded
  <2> SUFFICES ASSUME IInv, NEW row \in table
               PROVE  /\ row.ts - row.received <= MaxFutureSkew
                      /\ row.received - row.ts <= MaxPastSkew
    BY DEF PartitionsBounded
  <2>1. row.event \in Events /\ row.received \in Int
    BY DEF IInv, TypeOK
  <2>2. TsClient[row.event] \in Int
    BY <2>1, BatchAssumption
  <2> QED BY <2>1, <2>2, CorrectBounded DEF IInv, RowsPinned
<1> QED BY <1>1, Invariance, PTL

-------------------------------------------------------------------------------
(* What the steps do to the three sets the promise speaks of. *)

(* What is inserted can be stored: it is valid, and the body it came in    *)
(* was within the cap.                                                     *)
LEMMA ValidStorable ==
    ASSUME IInv, NEW r \in Requests, pc[r] = "admitted"
    PROVE  Valid(r) \subseteq Events \ Unstorable
<1> SUFFICES ASSUME NEW e \in Valid(r) PROVE e \in Events /\ e \notin Unstorable
  OBVIOUS
<1>1. e \in Events /\ e \notin Invalid /\ {e} \subseteq msg[r].evs /\ msg[r].evs \in SUBSET Events
  BY DEF Valid, IInv, TypeOK
<1>2. ~(BodyBytes[msg[r].evs] > MaxBatchBytes)
  BY DEF IInv, Fitting, OverBytes
<1>3. BodyBytes[{e}] <= BodyBytes[msg[r].evs]
  <2>1. {e} \in SUBSET Events
    BY <1>1
  <2> QED BY <1>1, <2>1, BatchAssumption
<1>4. BodyBytes[{e}] \in Nat /\ BodyBytes[msg[r].evs] \in Nat /\ MaxBatchBytes \in Nat
  BY <1>1, BatchAssumption
<1>5. ~(BodyBytes[{e}] > MaxBatchBytes)
  BY <1>2, <1>3, <1>4
<1> QED BY <1>1, <1>5 DEF Unstorable

(* A step of the handler stores storable events, or none. *)
LEMMA HandlerStores ==
    ASSUME IInv, NEW r \in Requests, Handler(r)
    PROVE  /\ Held' = Held /\ Dropped' = Dropped
           /\ \E S \in SUBSET (Events \ Unstorable) : Stored' = Stored \union S
<1>1. local' = local
  BY DEF Handler, Receive, Authorize, Decode, ReadBody, LimitsFor, Admit,
         PinOffset, Insert, Advance, HttpError, Respond, client
<1>2. Held' = Held /\ Dropped' = Dropped
  BY <1>1 DEF Held, Dropped
<1>3. CASE UNCHANGED table
  <2>1. Stored' = Stored \union {}
    BY <1>3 DEF Stored
  <2> QED BY <1>2, <2>1
<1>4. CASE Insert(r)
  <2>1. PICK W \in SUBSET RowsOf(r) : Write(r, W)
    BY <1>4 DEF Insert, InsertEvents, InsertEventsFails
  <2> DEFINE S == {row.event : row \in W}
  <2>2. Stored' = Stored \union S
    BY <2>1 DEF Stored, Write
  <2>3. S \in SUBSET (Events \ Unstorable)
    <3> SUFFICES ASSUME NEW row \in W PROVE row.event \in Events \ Unstorable
      OBVIOUS
    <3>1. row.event \in Valid(r)
      BY <1>4, RowsOfPinned DEF Insert
    <3> QED BY <1>4, <3>1, ValidStorable DEF Insert
  <2> QED BY <1>2, <2>2, <2>3
<1> QED
  BY <1>3, <1>4 DEF Handler, Receive, Authorize, Decode, Admit, PinOffset, stores, rows

(* A batch refused as too large although it is a single event is one the   *)
(* server can never store.                                                 *)
LEMMA LoneOversize ==
    ASSUME IInv, NEW r \in Requests, Verdict(r), reply[r].status = 413,
           Cardinality(msg[r].evs) = 1
    PROVE  msg[r].evs \subseteq Unstorable
<1>1. msg[r].evs \in SUBSET Events /\ IsFiniteSet(msg[r].evs)
  BY BatchAssumption, FS_Subset DEF IInv, TypeOK
<1>2. PICK e : msg[r].evs = {e}
  <2> DEFINE T == msg[r].evs
  <2>1. IsFiniteSet(T) /\ Cardinality(T) = 1
    BY <1>1
  <2> HIDE DEF T
  <2>2. \E e : T = {e}
    BY <2>1, FS_Singleton, Zenon
  <2> QED BY <2>2 DEF T
<1>3. ~OverCount(r)
  BY BatchAssumption DEF OverCount
<1>4. BodyBytes[{e}] > MaxBatchBytes
  BY <1>2, <1>3 DEF Verdict, OverBytes
<1> QED BY <1>1, <1>2, <1>4 DEF Unstorable

(* A client that reads an answer settles what is stored or refused, or it  *)
(* drops the batch because the server could not read it.                   *)
LEMMA HandleSettles ==
    ASSUME IInv, NEW i \in Installs, Handle(i)
    PROVE  /\ Stored' = Stored
           /\ \/ \E S \in SUBSET Held : /\ S \subseteq Stored \union Unstorable
                                        /\ Held' = Held \ S /\ Dropped' = Dropped
              \/ \E S \in SUBSET (Held \intersect Exposed) :
                    Held' = Held \ S /\ Dropped' = Dropped \union S
<1> DEFINE r == waiting[i]
<1>1. /\ r \in Requests /\ msg[r].inst = i /\ Verdict(r)
      /\ Deletes(r) \union Buries(r) \union Drops(r) \subseteq msg[r].evs
      /\ \A e \in msg[r].evs : Owner[e] = i /\ local[e] = "pending"
  BY TakesFromBatch
<1>2. local' = [e \in Events |-> CASE e \in Deletes(r) -> "deleted"
                                   [] e \in Buries(r)  -> "dead"
                                   [] e \in Drops(r)   -> "dropped"
                                   [] OTHER -> local[e]]
  BY DEF Handle
<1>3. Stored' = Stored
  BY DEF Handle, stores, rows, Stored
<1>4. msg[r].evs \subseteq Held
  BY <1>1 DEF Held, IInv, TypeOK
<1>5. CASE reply[r].status = 400
  <2>1. Deletes(r) = {} /\ Buries(r) = {} /\ Drops(r) = msg[r].evs
    BY <1>1, <1>5 DEF Verdict, Deletes, Buries, Drops
  <2>2. BodyReadFails \/ \E u \in msg[r].evs : u \in Undecodable
    BY <1>1, <1>5 DEF Verdict, Malformed
  <2>3. msg[r].evs \subseteq Exposed
    BY <1>1, <1>4, <2>2 DEF Exposed, Held
  <2> HIDE DEF r
  <2>4. Held' = Held \ msg[r].evs /\ Dropped' = Dropped \union msg[r].evs
    BY <1>2, <1>4, <2>1 DEF Held, Dropped
  <2> QED BY <1>3, <1>4, <2>3, <2>4
<1>6. CASE reply[r].status # 400
  <2>1. Drops(r) = {}
    BY <1>6 DEF Drops
  <2>2. Deletes(r) \subseteq Stored
    BY <1>1 DEF Verdict, Deletes
  <2>3. Buries(r) \subseteq Unstorable
    <3>1. CASE reply[r].status = 413 /\ Cardinality(msg[r].evs) = 1
      BY <1>1, <3>1, LoneOversize DEF Buries
    <3>2. CASE ~(reply[r].status = 413 /\ Cardinality(msg[r].evs) = 1)
      BY <1>1, <3>2 DEF Buries, Verdict, Unstorable
    <3> QED BY <3>1, <3>2
  <2> DEFINE S == Deletes(r) \union Buries(r)
  <2>4. S \in SUBSET Held /\ S \subseteq Stored \union Unstorable
    BY <1>1, <1>4, <2>2, <2>3
  <2>5. Held' = Held \ S /\ Dropped' = Dropped
    <3> HIDE DEF r
    <3> SUFFICES ASSUME NEW e \in Events
                 PROVE  /\ local'[e] = "pending" <=> local[e] = "pending" /\ e \notin S
                        /\ local'[e] = "dropped" <=> local[e] = "dropped"
      BY DEF Held, Dropped
    <3> QED BY <1>2, <2>1, <2>4 DEF Held
  <2> QED BY <1>3, <2>4, <2>5
<1> QED BY <1>5, <1>6

(* Every step is one of the promise's steps, or invisible to it. *)
LEMMA NextRefines ==
    ASSUME IInv, [Next]_vars
    PROVE  [Promise!Next]_(Promise!vars)
<1> USE DEF Promise!Next, Promise!Store, Promise!Settle, Promise!Drop, Promise!vars
<1>1. CASE UNCHANGED <<local, table>>
  BY <1>1 DEF Held, Stored, Dropped
<1>2. ASSUME NEW r \in Requests, Handler(r) PROVE [Promise!Next]_(Promise!vars)
  BY <1>2, HandlerStores
<1>3. ASSUME NEW i \in Installs, Handle(i) PROVE [Promise!Next]_(Promise!vars)
  BY <1>3, HandleSettles
<1>4. ASSUME NEW r \in Requests, Abort(r) \/ Discard(r) PROVE UNCHANGED <<local, table>>
  BY <1>4 DEF Abort, Discard, client, stores, rows
<1>5. ASSUME NEW i \in Installs, Send(i) \/ Timeout(i) \/ Resume(i)
      PROVE  UNCHANGED <<local, table>>
  BY <1>5 DEF Send, Timeout, Resume, client, stores, rows
<1>6. ASSUME Tick \/ UNCHANGED vars PROVE UNCHANGED <<local, table>>
  BY <1>6 DEF Tick, vars, client, stores, rows
<1>7. ASSUME NEW t \in Tenants, CutOff(t) \/ RollBack(t) PROVE UNCHANGED <<local, table>>
  BY <1>7 DEF CutOff, RollBack, client, rows
<1> QED BY <1>1, <1>2, <1>3, <1>4, <1>5, <1>6, <1>7 DEF Next

(* The handler and the clients' contract together implement at-least-once  *)
(* delivery: an event leaves a client only once it is stored, or refused   *)
(* as invalid or as too large by itself, or with a batch that was answered *)
(* 400 because its upload broke off or one of its events did not decode.   *)
THEOREM Delivers == Spec => ImplementsAtLeastOnce
<1>1. Init => Promise!Init
  BY DEF Init, Promise!Init, Held, Stored, Dropped
<1>2. IInv /\ [Next]_vars => [Promise!Next]_(Promise!vars)
  BY NextRefines
<1> QED
  BY <1>1, <1>2, Invariance, PTL DEF Spec, ImplementsAtLeastOnce, Promise!Spec

(* No event that left its client is missing from the table, unless no      *)
(* delivery could store it or its batch was answered 400: under every      *)
(* crash, lost answer and late retry.                                      *)
THEOREM NothingIsLost == Spec => []NoSilentLoss
<1>1. Init => NoSilentLoss
  BY DEF Init, NoSilentLoss, Promise!NothingLost, Held
<1>2. NoSilentLoss /\ [Promise!Next]_(Promise!vars) => NoSilentLoss'
  BY DEF NoSilentLoss, Promise!NothingLost, Promise!Next, Promise!Store,
         Promise!Settle, Promise!Drop, Promise!vars
<1>3. IInv /\ [Next]_vars => [Promise!Next]_(Promise!vars)
  BY NextRefines
<1> QED BY <1>1, <1>2, <1>3, Invariance, PTL DEF Spec

(* A 400 takes only events of a client with an event this build does not   *)
(* decode, as long as uploads arrive whole: never a batch that was only    *)
(* too large.                                                              *)
THEOREM OversizeIsNeverDropped == Spec => []OnlyDamageDrops
<1>1. Init => OnlyDamageDrops
  BY DEF Init, OnlyDamageDrops, Dropped
<1>2. OnlyDamageDrops /\ [Promise!Next]_(Promise!vars) => OnlyDamageDrops'
  BY DEF OnlyDamageDrops, Promise!Next, Promise!Store, Promise!Settle, Promise!Drop,
         Promise!vars, Exposed
<1>3. IInv /\ [Next]_vars => [Promise!Next]_(Promise!vars)
  BY NextRefines
<1> QED BY <1>1, <1>2, <1>3, Invariance, PTL DEF Spec
==================================================================================
