--------------------------- MODULE CoalescingQueue ---------------------------
(***************************************************************************)
(* What the outbox and pg-boss promise together (docs/specs/02 section 3.2 *)
(* and 03 section 2.1): a request may be merged with pending work, but only *)
(* a consumer that starts after it takes it off the queue.  Deliveries may *)
(* repeat.                                                                 *)
(***************************************************************************)
CONSTANT Keys

VARIABLES
  pending,   \* keys with work on its way to a consumer
  requested  \* keys requested since a consumer last started on them

Init == pending = {} /\ requested = {}

(* A change commits its request. *)
Ask(k) == pending' = pending \cup {k} /\ requested' = requested \cup {k}

(* A consumer starts on the keys of S. *)
Serve(S) ==
  /\ S \cap pending # {}
  /\ requested' = requested \ S
  /\ \E P \in SUBSET S : pending' = (pending \ S) \cup P

(* Work that serves no open request is forgotten, or comes back. *)
Settle(S) == S \cap requested = {} /\ pending' = pending \ S /\ UNCHANGED requested
Repeat(S) == pending' = pending \cup S /\ UNCHANGED requested

Next ==
  \/ \E k \in Keys : Ask(k)
  \/ \E S \in SUBSET Keys : Serve(S) \/ Settle(S) \/ Repeat(S)

Spec == Init /\ [][Next]_<<pending, requested>>

(* Every request is eventually served. *)
Liveness == \A k \in Keys : k \in requested ~> k \notin requested
=============================================================================
