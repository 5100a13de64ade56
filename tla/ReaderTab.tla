----------------------------- MODULE ReaderTab -----------------------------
(***************************************************************************)
(* One page's side of the reader's write path for one article              *)
(* (apps/web/src/features/reader/actions/store.ts): the newest server      *)
(* version it knows, its unsettled changes in the order they were made,    *)
(* and the writes it has asked of the device's queue store, which run in   *)
(* the order asked.  Every operator takes the page's state and returns     *)
(* what one synchronous stretch of the code makes of it.                   *)
(*                                                                         *)
(* A reader state is its stateVersion, and so is a fence.  A change is its *)
(* place in the order of creation (`createdAt'), and one that may wait on  *)
(* the device, of an account that chose offline reading.                   *)
(***************************************************************************)
EXTENDS Integers, Sequences, SequencesExt

CONSTANTS
  MaxChanges, \* what the person does to the article
  None        \* no fence, no predecessor, nothing heard

Changes == 1..MaxChanges
InOrder == [c \in Changes |-> c]

Unknown == -1  \* the page has not seen the article

(* How a change ends for a page: acknowledged, found stale, refused by the  *)
(* server, not sent, taken back by the person, dropped with the one it      *)
(* followed or for its age, and settled because its record was gone.        *)
Outcomes == {"done", "stale", "refused", "unsent", "undone", "dropped", "gone"}

(* The statuses, `sending' split at its awaits: for the record's write, for *)
(* the Web Lock, for the look at the record, for the `sent' mark and for    *)
(* the answer.  A settled change is "over", which the page forgets at its   *)
(* next sweep, or "remembered" for ten minutes: it failed, or its own       *)
(* request was acknowledged and may be undone.                              *)
Settled == {"none", "over", "remembered"}
InExchange == {"check", "mark", "sending"}
Statuses == Settled \cup {"queued", "saving", "turn", "waiting"} \cup InExchange

Absent ==
  [st |-> "none", stored |-> FALSE, saved |-> "no", sent |-> FALSE, fence |-> None,
   fencing |-> "unset", after |-> None, replayed |-> FALSE, heard |-> None, try |-> 0]

Over == [Absent EXCEPT !.st = "over"]
Remembered == [Absent EXCEPT !.st = "remembered"]

Fresh(told) ==
  [known |-> Unknown, order |-> <<>>, entry |-> [c \in Changes |-> Absent],
   disk |-> <<>>, hears |-> FALSE, told |-> told]

Note(c, out, version) == [id |-> c, out |-> out, version |-> version]

----------------------------------------------------------------------------
(* Parts of a page's state.                                                 *)

Newer(a, b) == IF a > b THEN a ELSE b

Learn(T, version) == [T EXCEPT !.known = Newer(@, version)]

Ask(T, job) == [T EXCEPT !.disk = Append(@, job)]

Head0(T) == IF T.order = <<>> THEN None ELSE Head(T.order)

Place(T, c) == CHOOSE i \in DOMAIN T.order : T.order[i] = c

Behind(T, c) == SubSeq(T.order, Place(T, c) + 1, Len(T.order))

Kept(T) == {c \in Changes : T.entry[c].stored}

Durable(T) == {c \in Kept(T) : T.entry[c].saved = "yes"}

Busy(T) == \E c \in Kept(T) : T.entry[c].st \in InExchange

Sweep(T) ==
  [T EXCEPT !.entry = [c \in Changes |-> IF @[c].st = "over" THEN Absent ELSE @[c]]]

Sweepable(T) == \E c \in Changes : T.entry[c].st = "over"

HasWaiting(T) == \E c \in Kept(T) : T.entry[c].st = "waiting"

----------------------------------------------------------------------------
(* The steps of the store that end within one task.                         *)

FenceOf(T, c) == IF T.entry[c].fence = None THEN T.known ELSE T.entry[c].fence

(* Mutant of FixFence: the fence is not written to the record.              *)
FixFenceInMemory(T, c) ==
  IF T.entry[c].fencing # "unset" THEN T
  ELSE Ask([T EXCEPT !.entry[c].fence = FenceOf(T, c), !.entry[c].fencing = "kept"],
           [op |-> "look", id |-> c])

(* The fence of a change that followed another one, and its write.          *)
FixFence(T, c) ==
  IF T.entry[c].fencing # "unset" THEN T
  ELSE Ask([T EXCEPT !.entry[c].fence = FenceOf(T, c), !.entry[c].fencing = "writing"],
           [op |-> "fence", id |-> c, fence |-> FenceOf(T, c)])

Start(T, c) == [T EXCEPT !.entry[c].st = "saving"]

Pump(T) ==
  IF T.order # <<>> /\ T.entry[Head(T.order)].st = "queued"
  THEN Start(T, Head(T.order))
  ELSE T

FixNext(T) ==
  IF T.order # <<>> /\ T.entry[Head(T.order)].stored
  THEN FixFence(T, Head(T.order))
  ELSE T

Retire(T, c, note) == Ask(T, [op |-> "remove", id |-> c, note |-> note])

(* settle(): the change leaves the queue, the next kept one gets its fence, *)
(* its record is removed, and the next queued one is started.               *)
Settle(T, c, note) ==
  LET acknowledged == note.out = "done" /\ T.entry[c].st = "sending"
      over == IF acknowledged \/ note.out \in {"refused", "unsent"} THEN Remembered ELSE Over
      left == [T EXCEPT !.order = RemoveFirst(@, c), !.entry[c] = over,
                        !.told[c] = @ \cup {note.out}]
      fenced == FixNext(left)
  IN  Pump(IF T.entry[c].stored THEN Retire(fenced, c, note) ELSE fenced)

(* A kept change of a replay that did not go through takes the kept ones    *)
(* behind it along, the last made first.                                    *)
Drop(T, c, note) ==
  LET later == IF T.entry[c].stored /\ T.entry[c].replayed THEN Behind(T, c) ELSE <<>>
      drop(U, d) == IF T.entry[d].stored THEN Settle(U, d, Note(d, "dropped", None)) ELSE U
  IN  Settle(FoldLeft(drop, T, Reverse(later)), c, note)

(* Mutant of Heard: a record that is gone is taken to have been sent.       *)
HeardNothingIsDone(c, note) == IF note = None THEN Note(c, "done", 0) ELSE note

(* How a change ended elsewhere, as far as the page heard.                  *)
Heard(c, note) ==
  IF note # None /\ note.out \in {"done", "stale", "refused", "unsent"}
  THEN note ELSE Note(c, "gone", None)

(* The record is gone: another page sent it, or it was discarded.           *)
SettleElsewhere(T, c, note) ==
  LET said == Heard(c, note)
      learnt == IF said.out \in {"done", "stale"} THEN Learn(T, said.version) ELSE T
  IN  Settle([learnt EXCEPT !.entry[c].stored = FALSE], c, said)

(* Mutant of Park: the change counts as settled and keeps its place.        *)
ParkForgotten(T, c) == [T EXCEPT !.entry[c] = Remembered]

Park(T, c) ==
  [T EXCEPT !.entry[c].st = "waiting", !.entry[c].replayed = TRUE, !.entry[c].try = 0]

(* Mutant of Transmit: a change that is sent again takes the newest fence.  *)
TransmitRefenced(T, c) ==
  [T EXCEPT !.entry[c].st = "sending", !.entry[c].try = 0, !.entry[c].fence = T.known]

Transmit(T, c) ==
  [T EXCEPT !.entry[c].st = "sending", !.entry[c].try = 0, !.entry[c].fence = FenceOf(T, c)]

(* dispatch() and persist(): the change joins the queue of its article and  *)
(* its record is asked for, with the fence if it is the head.               *)
RecordOf(T, c) ==
  [fence |-> T.entry[c].fence, after |-> T.entry[c].after, sent |-> FALSE, on |-> T.known]

Dispatched(T, c) ==
  LET kept == {i \in DOMAIN T.order : T.entry[T.order[i]].stored}
      isHead == T.order = <<>>
      entry == [Absent EXCEPT
                  !.st = "queued", !.stored = TRUE,
                  !.after = IF kept = {} THEN None ELSE T.order[Max(kept)],
                  !.fence = IF isHead THEN T.known ELSE None,
                  !.fencing = IF isHead THEN "kept" ELSE "unset"]
      joined == [Sweep(T) EXCEPT !.entry[c] = entry, !.order = Append(@, c), !.hears = TRUE]
  IN  Pump(Ask(joined, [op |-> "save", id |-> c, rec |-> RecordOf(joined, c)]))

(* handOver(): what a cancelled change leaves to the ones behind it.        *)
HandOver(T, c) ==
  LET behind == Behind(T, c)
      follower(d) == T.entry[d].stored /\ T.entry[d].after = c
      rewrite(U, d) ==
        IF ~follower(d) THEN U
        ELSE Ask([U EXCEPT !.entry[d].after = T.entry[c].after],
                 [op |-> "after", id |-> d, after |-> T.entry[c].after])
      moved == FoldLeft(rewrite, T, behind)
      next == IF behind = <<>> THEN None ELSE Head(behind)
  IN  IF Head0(T) = c /\ next # None
         /\ T.entry[next].stored /\ T.entry[next].fencing # "kept"
         /\ T.entry[next].fence = None
      THEN [moved EXCEPT !.entry[next].fence = T.entry[c].fence]
      ELSE moved

(* Mutant of Cancellable: what waits may be taken back though it was sent.  *)
CancellableAnyway(T, c) == T.entry[c].st \in {"queued", "waiting"}

Cancellable(T, c) ==
  \/ T.entry[c].st = "queued"
  \/ T.entry[c].st = "waiting" /\ ~T.entry[c].sent

Cancelled(T, c) ==
  Settle(IF T.entry[c].stored THEN HandOver(T, c) ELSE T, c, Note(c, "undone", None))

----------------------------------------------------------------------------
(* adopt() and expire(): what a replay does to the page before it sends.    *)

(* A record the page has no change for is shown again, in its place.        *)
RestoreEntry(T, c, rec) ==
  LET seen == Learn(T, rec.on)
      younger == {i \in DOMAIN T.order : T.order[i] > c}
      first == IF younger = {} THEN Len(T.order) + 1
               ELSE CHOOSE i \in younger : \A j \in younger : i <= j
      at == IF first = 1 /\ T.order # <<>>
               /\ T.entry[Head(T.order)].st \in {"saving", "turn"} \cup InExchange
            THEN 2 ELSE first
      follows == \E i \in 1..(at - 1) : T.entry[T.order[i]].stored
      fence == IF rec.fence # None \/ follows THEN rec.fence ELSE rec.on
      entry == [Absent EXCEPT
                  !.st = "waiting", !.stored = TRUE, !.saved = "yes", !.sent = rec.sent,
                  !.fence = fence, !.fencing = IF rec.fence = None THEN "unset" ELSE "kept",
                  !.after = rec.after, !.replayed = TRUE]
  IN  [seen EXCEPT !.entry[c] = entry, !.order = InsertAt(@, at, c), !.hears = TRUE]

(* recs: the records listed; old: the changes whose record was on the       *)
(* device before the list was read.                                         *)
Adopt(T, recs, old) ==
  LET lose(U, c) ==
        IF /\ c \in old /\ c \in Durable(U) /\ c \notin DOMAIN recs
           /\ U.entry[c].st \in {"waiting", "queued"}
        THEN SettleElsewhere(U, c, None)
        ELSE U
      show(U, c) ==
        IF c \in DOMAIN recs /\ U.entry[c].st = "none"
        THEN RestoreEntry(U, c, recs[c])
        ELSE U
  IN  FoldLeft(show, FoldLeft(lose, T, InOrder), InOrder)

(* The kept changes made no later than the cutoff are dropped, unsent or    *)
(* waiting after a send.                                                    *)
Expired(T, cutoff) ==
  LET drop(U, c) ==
        IF U.entry[c].stored /\ U.entry[c].st \in {"waiting", "queued"}
        THEN Settle(U, c, Note(c, "dropped", None))
        ELSE U
  IN  FoldLeft(drop, T, SubSeq(InOrder, 1, cutoff))
============================================================================
