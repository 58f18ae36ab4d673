------------------------------ MODULE AtLeastOnce ------------------------------
(***************************************************************************)
(* What the ingest path promises its clients (ADR-0004): the client keeps  *)
(* an event until the event is in storage, or until the server has told it *)
(* that the event can never be stored.  Storing an event twice is allowed. *)
(* The exception is a batch the server cannot read: the client drops it,   *)
(* and only exposed events can be in one.                                  *)
(* Nothing here knows of requests, retries, quotas or timestamps.          *)
(***************************************************************************)
CONSTANTS Events,      \* everything the clients ever record
          Unstorable,  \* the events the server can never store
          Exposed      \* the events that may be in a batch it cannot read

VARIABLES held,      \* events some client still holds
          stored,    \* events storage holds at least one row of
          dropped    \* events that went with a batch the server could not read

vars == <<held, stored, dropped>>

Init == held = Events /\ stored = {} /\ dropped = {}

(* A batch reaches storage: whether or not anybody still holds its events. *)
Store == /\ \E S \in SUBSET (Events \ Unstorable) : stored' = stored \union S
         /\ UNCHANGED <<held, dropped>>

(* A client lets go of some events. *)
Settle == /\ \E S \in SUBSET held : S \subseteq stored \union Unstorable
                                    /\ held' = held \ S
          /\ UNCHANGED <<stored, dropped>>

(* A client drops a batch. *)
Drop == /\ \E S \in SUBSET (held \intersect Exposed) : /\ held' = held \ S
                                                      /\ dropped' = dropped \union S
        /\ UNCHANGED stored

Next == Store \/ Settle \/ Drop

Spec == Init /\ [][Next]_vars

(* At-least-once: an event that no client holds any more is in storage,    *)
(* unless the server refused it or could not read the batch it was in.     *)
NothingLost == Events \ held \subseteq stored \union Unstorable \union dropped
================================================================================
