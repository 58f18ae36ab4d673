--------------------------------- MODULE Skew ---------------------------------
(***************************************************************************)
(* Clock-skew correction of services/ingest/internal/enrich/skew.go.       *)
(* All times are integers in one unit (the code uses milliseconds); the    *)
(* two bounds are parameters because the code's 24 h and 30 d are only     *)
(* compared with differences of times.                                     *)
(***************************************************************************)
EXTENDS Integers

CONSTANTS MaxFutureSkew,   \* how far ahead of received_at a timestamp may be
          MaxPastSkew      \* how far behind it may be

ASSUME SkewAssumption == MaxFutureSkew \in Nat /\ MaxPastSkew \in Nat

(* The offset estimated at first contact.  sent_at absent is 0. *)
CandidateOffset(sentAt, receivedAt) ==
    LET offset == receivedAt - sentAt
    IN  IF sentAt <= 0 \/ offset > MaxPastSkew \/ offset < -MaxFutureSkew
        THEN 0
        ELSE offset

(* MUTANT of Clamped: only a clock that runs ahead is caught. *)
ClampedFuture(tsClient, offset, receivedAt) ==
    (tsClient + offset) - receivedAt > MaxFutureSkew

(* Whether the corrected timestamp is too far from received_at to be kept. *)
Clamped(tsClient, offset, receivedAt) ==
    LET ts == tsClient + offset
    IN  ts - receivedAt > MaxFutureSkew \/ receivedAt - ts > MaxPastSkew

(* The timestamp stored as ts. *)
Correct(tsClient, offset, receivedAt) ==
    IF Clamped(tsClient, offset, receivedAt) THEN receivedAt
                                             ELSE tsClient + offset
===============================================================================
