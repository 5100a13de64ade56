---------------------------- MODULE FeedFetchProofs ----------------------------
(***************************************************************************)
(* What FeedFetch guarantees for any number of feeds, URLs, documents and  *)
(* sessions.  By the per-feed session locks, two fetches never write to    *)
(* one feed at a time, and a fetch never works on its own feed once that   *)
(* was merged.  Following `merged_into' always ends (the types).  Stored   *)
(* validators vouch for the items, a 304 stamps only what its document     *)
(* lists, and a forced fetch that had to wait is still to come.            *)
(***************************************************************************)
EXTENDS FeedFetch, FiniteSetTheorems, TLAPS

(* What a session under way knows: it holds the lock of the feed it        *)
(* fetches, and that of the feed it writes to.  Only `lock`, `pc`, `own`   *)
(* and `target` matter.                                                    *)
PcOK ==
  /\ lock \in [Feeds -> Sessions \cup {None}]
  /\ pc \in [Sessions -> Waiting \cup Writing \cup {"extending"}]
  /\ own \in [Sessions -> Feeds \cup {None}]
  /\ target \in [Sessions -> Feeds \cup {None}]

Resolved(s) == pc[s] # "idle" => own[s] \in Feeds

Turns(s) == /\ pc[s] = "following" => target[s] = own[s]
            /\ pc[s] = "extending" => target[s] # own[s]

LockInv ==
  /\ PcOK
  /\ \A s \in Sessions : Resolved(s) /\ HoldsOwn(s) /\ HoldsTarget(s) /\ Turns(s)

LEMMA InitLocks == Init => LockInv
  BY DEF Init, LockInv, PcOK, Resolved, HoldsOwn, HoldsTarget, Turns, Waiting, Writing

(* A session at rest holds nothing, and freeing its locks leaves the       *)
(* others theirs.                                                          *)
LEMMA EndsKeepsLocks ==
  ASSUME LockInv, NEW s \in Sessions, Ends(s)
  PROVE  LockInv'
<1>1. PcOK'
  BY DEF LockInv, PcOK, Ends, Rest, Waiting, Writing
<1>2. ASSUME NEW t \in Sessions
      PROVE  Resolved(t)' /\ HoldsOwn(t)' /\ HoldsTarget(t)' /\ Turns(t)'
  <2>1. CASE t = s
    <3>1. pc'[s] = "idle"
      BY DEF LockInv, PcOK, Ends, Rest
    <3> QED
      BY <2>1, <3>1 DEF Resolved, HoldsOwn, HoldsTarget, Turns, Waiting, Writing
  <2>2. CASE t # s
    <3>1. pc'[t] = pc[t] /\ own'[t] = own[t] /\ target'[t] = target[t]
      BY <2>2 DEF LockInv, PcOK, Ends, Rest
    <3>2. \A f \in Feeds : lock[f] = t => lock'[f] = t
      BY <2>2 DEF Ends
    <3> QED
      BY <3>1, <3>2 DEF LockInv, Resolved, HoldsOwn, HoldsTarget, Turns, Waiting, Writing
  <2> QED
    BY <2>1, <2>2
<1> QED
  BY <1>1, <1>2 DEF LockInv

(* A session that goes on without asking for another lock.                 *)
LEMMA MovesOnKeepsLocks ==
  ASSUME LockInv, NEW s \in Sessions, NEW next \in Writing \ {"following"},
         pc[s] \in Writing, pc' = [pc EXCEPT ![s] = next], UNCHANGED <<lock, own, target>>
  PROVE  LockInv'
<1>1. PcOK'
  BY DEF LockInv, PcOK, Waiting, Writing
<1>2. ASSUME NEW t \in Sessions
      PROVE  Resolved(t)' /\ HoldsOwn(t)' /\ HoldsTarget(t)' /\ Turns(t)'
  BY DEF LockInv, PcOK, Resolved, HoldsOwn, HoldsTarget, Turns, Waiting, Writing
<1> QED
  BY <1>1, <1>2 DEF LockInv

LEMMA UnchangedKeepsLocks ==
  ASSUME LockInv, UNCHANGED <<lock, pc, own, target>>
  PROVE  LockInv'
  BY DEF LockInv, PcOK, Resolved, HoldsOwn, HoldsTarget, Turns

LEMMA TakeKeepsLocks ==
  ASSUME LockInv, NEW s \in Sessions, Take(s)
  PROVE  LockInv'
<1>1. PICK f \in Feeds : own' = [own EXCEPT ![s] = f]
  BY DEF Take
<1>2. PcOK'
  BY <1>1 DEF LockInv, PcOK, Take, Waiting, Writing
<1>3. ASSUME NEW t \in Sessions
      PROVE  Resolved(t)' /\ HoldsOwn(t)' /\ HoldsTarget(t)' /\ Turns(t)'
  BY <1>1 DEF Take, LockInv, PcOK, Resolved, HoldsOwn, HoldsTarget, Turns, Waiting, Writing
<1> QED
  BY <1>2, <1>3 DEF LockInv

(* A job dropped before its lock was taken.                                *)
LEMMA RestKeepsLocks ==
  ASSUME LockInv, NEW s \in Sessions, Rest(s), UNCHANGED lock
  PROVE  LockInv'
<1>1. PcOK'
  BY DEF LockInv, PcOK, Rest, Waiting, Writing
<1>2. ASSUME NEW t \in Sessions
      PROVE  Resolved(t)' /\ HoldsOwn(t)' /\ HoldsTarget(t)' /\ Turns(t)'
  BY DEF Rest, LockInv, PcOK, Resolved, HoldsOwn, HoldsTarget, Turns, Waiting, Writing
<1> QED
  BY <1>1, <1>2 DEF LockInv

LEMMA StartKeepsLocks ==
  ASSUME LockInv, NEW s \in Sessions, Start(s)
  PROVE  LockInv'
<1> DEFINE f == own[s]
<1>1. /\ pc[s] = "resolved" /\ lock[f] = None
      /\ lock' = [lock EXCEPT ![f] = s] /\ target' = [target EXCEPT ![s] = f]
      /\ own' = own
  BY DEF Start
<1>2. PICK next \in Writing : pc' = [pc EXCEPT ![s] = next]
  BY DEF Start, Answered, Writing
<1>3. f \in Feeds
  BY <1>1 DEF LockInv, Resolved
<1>4. PcOK'
  BY <1>1, <1>2, <1>3 DEF LockInv, PcOK
<1>5. ASSUME NEW t \in Sessions
      PROVE  Resolved(t)' /\ HoldsOwn(t)' /\ HoldsTarget(t)' /\ Turns(t)'
  <2>1. CASE t = s
    <3>1. /\ pc'[t] = next /\ own'[t] = f /\ target'[t] = f /\ lock'[f] = t
      BY <1>1, <1>2, <1>3, <2>1 DEF LockInv, PcOK
    <3> QED
      BY <1>3, <3>1 DEF Resolved, HoldsOwn, HoldsTarget, Turns, Writing
  <2>2. CASE t # s
    <3>1. pc'[t] = pc[t] /\ own'[t] = own[t] /\ target'[t] = target[t]
      BY <1>1, <1>2, <2>2 DEF LockInv, PcOK
    <3>2. \A g \in Feeds : lock[g] = t => lock'[g] = t
      BY <1>1, FeedsAssumption DEF LockInv, PcOK
    <3> QED
      BY <3>1, <3>2 DEF LockInv, Resolved, HoldsOwn, HoldsTarget, Turns, Waiting, Writing
  <2> QED
    BY <2>1, <2>2
<1> QED
  BY <1>4, <1>5 DEF LockInv

LEMMA MergeKeepsLocks ==
  ASSUME LockInv, NEW s \in Sessions, Merge(s)
  PROVE  LockInv'
<1>1. PICK g \in Feeds \ {own[s]} : target' = [target EXCEPT ![s] = g]
  BY DEF Merge
<1>2. PcOK'
  BY <1>1 DEF LockInv, PcOK, Merge, Waiting, Writing
<1>3. ASSUME NEW t \in Sessions
      PROVE  Resolved(t)' /\ HoldsOwn(t)' /\ HoldsTarget(t)' /\ Turns(t)'
  BY <1>1 DEF Merge, LockInv, PcOK, Resolved, HoldsOwn, HoldsTarget, Turns, Waiting, Writing
<1> QED
  BY <1>2, <1>3 DEF LockInv

LEMMA ExtendKeepsLocks ==
  ASSUME LockInv, NEW s \in Sessions, Extend(s)
  PROVE  LockInv'
<1> DEFINE g == target[s]
<1>1. g \in Feeds
  BY DEF LockInv, Extend, HoldsOwn, Waiting
<1>2. /\ lock' = [lock EXCEPT ![g] = s] /\ pc' = [pc EXCEPT ![s] = "ingesting"]
      /\ own' = own /\ target' = target /\ lock[g] \in {None, s} /\ pc[s] = "extending"
  BY DEF Extend, Extendable
<1>3. PcOK'
  BY <1>1, <1>2 DEF LockInv, PcOK, Waiting, Writing
<1>4. \A t \in Sessions, f \in Feeds : lock[f] = t => lock'[f] = t
  BY <1>1, <1>2, FeedsAssumption DEF LockInv, PcOK
<1>5. ASSUME NEW t \in Sessions
      PROVE  Resolved(t)' /\ HoldsOwn(t)' /\ HoldsTarget(t)' /\ Turns(t)'
  <2>1. CASE t = s
    <3>1. pc'[t] = "ingesting" /\ lock'[g] = t
      BY <1>1, <1>2, <2>1 DEF LockInv, PcOK
    <3> QED
      BY <1>1, <1>2, <1>4, <2>1, <3>1
      DEF LockInv, Resolved, HoldsOwn, HoldsTarget, Turns, Waiting, Writing
  <2>2. CASE t # s
    <3>1. pc'[t] = pc[t] /\ own'[t] = own[t] /\ target'[t] = target[t]
      BY <1>2, <2>2 DEF LockInv, PcOK
    <3> QED
      BY <1>4, <3>1 DEF LockInv, Resolved, HoldsOwn, HoldsTarget, Turns, Waiting, Writing
  <2> QED
    BY <2>1, <2>2
<1> QED
  BY <1>3, <1>5 DEF LockInv

LEMMA NextKeepsLocks ==
  ASSUME LockInv, [Next]_vars
  PROVE  LockInv'
<1>1. CASE UNCHANGED vars
  BY <1>1, UnchangedKeepsLocks DEF vars, workers
<1>2. CASE \/ \E u \in Urls : Publish(u)
           \/ \E u, t \in Urls : Move(u, t)
           \/ \E f \in Feeds : FallDue(f) \/ Reset(f) \/ Refresh(f)
           \/ Schedule
  BY <1>2, UnchangedKeepsLocks DEF Publish, Move, FallDue, Reset, Refresh, Schedule, workers
<1>3. ASSUME NEW s \in Sessions, Fetch(s)
      PROVE  LockInv'
  <2>1. CASE Take(s)
    BY <2>1, TakeKeepsLocks
  <2>2. CASE Skip(s) \/ StartStale(s)
    BY <2>2, RestKeepsLocks DEF Skip, StartStale
  <2>3. CASE Start(s)
    BY <2>3, StartKeepsLocks
  <2>4. CASE Merge(s)
    BY <2>4, MergeKeepsLocks
  <2>5. CASE Extend(s)
    BY <2>5, ExtendKeepsLocks
  <2>6. CASE GiveUp(s) \/ Record(s) \/ Defer(s) \/ LoseLock(s)
    BY <2>6, EndsKeepsLocks DEF GiveUp, Record, Defer, LoseLock
  <2>7. CASE Rename(s) \/ Ingest(s) \/ IngestFails(s) \/ Gather(s)
    <3>1. pc[s] \in Writing /\ UNCHANGED <<lock, own, target>>
      BY <2>7 DEF Rename, Ingest, IngestFails, Gather, Writing
    <3>2. PICK next \in Writing \ {"following"} : pc' = [pc EXCEPT ![s] = next]
      BY <2>7 DEF Rename, Ingest, IngestFails, Gather, Passes, Writing
    <3> QED
      BY <3>1, <3>2, MovesOnKeepsLocks
  <2> QED
    BY <1>3, <2>1, <2>2, <2>3, <2>4, <2>5, <2>6, <2>7 DEF Fetch
<1> QED
  BY <1>1, <1>2, <1>3 DEF Next

THEOREM LocksHeld == Spec => []LockInv
  BY InitLocks, NextKeepsLocks, PTL DEF Spec

(* Two fetches never write to one feed at a time: the advisory lock of     *)
(* tryLockFeedForFetch and its tryExtend keep them apart, for any number   *)
(* of sessions and feeds and whichever feeds merge.                        *)
THEOREM OneWriterHolds == Spec => []OneWriter
<1>1. LockInv => OneWriter
  BY DEF LockInv, HoldsTarget, OneWriter
<1> QED
  BY <1>1, LocksHeld, PTL

-----------------------------------------------------------------------------
(* A fetch and the merges.  Of a row only `merged` matters, which every    *)
(* row has: it is the one field that decides whether a feed is live.       *)

Shaped == DOMAIN feed = Feeds /\ \A f \in Feeds : "merged" \in DOMAIN feed[f]

MergedKept == Shaped' /\ \A f \in Feeds : feed'[f].merged = feed[f].merged

LiveInv == LockInv /\ Shaped /\ OwnFeedLive

LEMMA InitLive == Init => LiveInv
<1>1. Init => Shaped
  BY DEF Init, Shaped, Established
<1>2. Init => OwnFeedLive
  BY DEF Init, OwnFeedLive, Writing
<1> QED
  BY <1>1, <1>2, InitLocks DEF LiveInv

(* One row changes, in other fields.                                       *)
LEMMA RowKeepsMerged ==
  ASSUME Shaped, NEW f \in Feeds, NEW row,
         feed' = [feed EXCEPT ![f] = row], "merged" \in DOMAIN row, row.merged = feed[f].merged
  PROVE  MergedKept
  BY DEF Shaped, MergedKept

LEMMA FallDueKeepsMerged ==
  ASSUME Shaped, NEW f \in Feeds, FallDue(f) \/ Reset(f)
  PROVE  MergedKept
<1>1. CASE FallDue(f)
  <2> DEFINE row == [feed[f] EXCEPT !.due = TRUE]
  <2>1. feed' = [feed EXCEPT ![f] = row]
    BY <1>1 DEF FallDue
  <2>2. "merged" \in DOMAIN row /\ row.merged = feed[f].merged
    BY DEF Shaped
  <2> QED
    BY <2>1, <2>2, RowKeepsMerged
<1>2. CASE Reset(f)
  <2> DEFINE row == [feed[f] EXCEPT !.status = "active", !.errors = 0, !.due = TRUE]
  <2>1. feed' = [feed EXCEPT ![f] = row]
    BY <1>2 DEF Reset
  <2>2. "merged" \in DOMAIN row /\ row.merged = feed[f].merged
    BY DEF Shaped
  <2> QED
    BY <2>1, <2>2, RowKeepsMerged
<1> QED
  BY <1>1, <1>2

LEMMA FetchKeepsMerged ==
  ASSUME LockInv, Shaped, NEW s \in Sessions, Rename(s) \/ Record(s) \/ Defer(s)
  PROVE  MergedKept
<1>1. own[s] \in Feeds /\ target[s] \in Feeds
  BY DEF LockInv, Resolved, HoldsOwn, Rename, Record, Defer, Waiting
<1>2. CASE Rename(s)
  <2>1. PICK url, fetchUrl :
          feed' = [feed EXCEPT ![own[s]] = Renamed(feed[own[s]], url, fetchUrl)]
    BY <1>2 DEF Rename
  <2>2. /\ "merged" \in DOMAIN Renamed(feed[own[s]], url, fetchUrl)
        /\ Renamed(feed[own[s]], url, fetchUrl).merged = feed[own[s]].merged
    BY <1>1 DEF Shaped, Renamed
  <2> QED
    BY <1>1, <2>1, <2>2, RowKeepsMerged
<1>3. CASE Record(s)
  <2>1. PICK outcome : feed' = [feed EXCEPT ![target[s]] = Recorded(feed[target[s]], outcome)]
    BY <1>3 DEF Record
  <2>2. /\ "merged" \in DOMAIN Recorded(feed[target[s]], outcome)
        /\ Recorded(feed[target[s]], outcome).merged = feed[target[s]].merged
    BY <1>1 DEF Shaped, Recorded
  <2> QED
    BY <1>1, <2>1, <2>2, RowKeepsMerged
<1>4. CASE Defer(s)
  <2> DEFINE row == [feed[own[s]] EXCEPT !.due = FALSE, !.force = @ \/ task[s].forced]
  <2>1. feed' = [feed EXCEPT ![own[s]] = row]
    BY <1>4 DEF Defer
  <2>2. "merged" \in DOMAIN row /\ row.merged = feed[own[s]].merged
    BY <1>1 DEF Shaped
  <2> QED
    BY <1>1, <2>1, <2>2, RowKeepsMerged
<1> QED
  BY <1>2, <1>3, <1>4

(* While nothing merges, a session that writes to its own feed either did  *)
(* so before, or has just read its row, or has made it its target.         *)
LEMMA KeptStaysLive ==
  ASSUME LiveInv, MergedKept, UNCHANGED <<own, target>>,
         \A s \in Sessions : pc'[s] \in Writing /\ target[s] = own[s] => pc[s] \in Writing
  PROVE  OwnFeedLive'
  BY DEF LiveInv, LockInv, Resolved, MergedKept, OwnFeedLive, Waiting, Writing

LEMMA UnmergedKept ==
  ASSUME Shaped, UNCHANGED feed
  PROVE  MergedKept
  BY DEF Shaped, MergedKept

LEMMA RestStaysLive ==
  ASSUME LiveInv, MergedKept, NEW s \in Sessions, Rest(s)
  PROVE  OwnFeedLive'
<1>1. ASSUME NEW t \in Sessions, pc'[t] \in Writing, target'[t] = own'[t]
      PROVE  feed'[own'[t]].merged = None
  <2>1. t # s
    BY <1>1 DEF Rest, LiveInv, LockInv, PcOK, Writing
  <2>2. pc'[t] = pc[t] /\ own'[t] = own[t] /\ target'[t] = target[t]
    BY <2>1 DEF Rest, LiveInv, LockInv, PcOK
  <2> QED
    BY <1>1, <2>2 DEF LiveInv, LockInv, Resolved, MergedKept, OwnFeedLive, Writing
<1> QED
  BY <1>1 DEF OwnFeedLive

LEMMA TakeStaysLive ==
  ASSUME LiveInv, MergedKept, NEW s \in Sessions, Take(s)
  PROVE  OwnFeedLive'
<1>1. ASSUME NEW t \in Sessions, pc'[t] \in Writing, target'[t] = own'[t]
      PROVE  feed'[own'[t]].merged = None
  <2>1. t # s
    BY <1>1 DEF Take, LiveInv, LockInv, PcOK, Writing
  <2>2. pc'[t] = pc[t] /\ own'[t] = own[t] /\ target'[t] = target[t]
    BY <2>1 DEF Take, LiveInv, LockInv, PcOK
  <2> QED
    BY <1>1, <2>2 DEF LiveInv, LockInv, Resolved, MergedKept, OwnFeedLive, Writing
<1> QED
  BY <1>1 DEF OwnFeedLive

LEMMA StartStaysLive ==
  ASSUME LiveInv, MergedKept, NEW s \in Sessions, Start(s)
  PROVE  OwnFeedLive'
<1>1. ASSUME NEW t \in Sessions, pc'[t] \in Writing, target'[t] = own'[t]
      PROVE  feed'[own'[t]].merged = None
  <2>1. own'[t] = own[t] /\ own[s] \in Feeds
    BY DEF Start, LiveInv, LockInv, Resolved
  <2>2. CASE t = s
    BY <2>1, <2>2 DEF Start, Proceeds, MergedKept
  <2>3. CASE t # s
    <3>1. pc'[t] = pc[t] /\ target'[t] = target[t]
      BY <2>3 DEF Start, LiveInv, LockInv, PcOK
    <3> QED
      BY <1>1, <2>1, <3>1 DEF LiveInv, LockInv, Resolved, MergedKept, OwnFeedLive, Writing
  <2> QED
    BY <2>2, <2>3
<1> QED
  BY <1>1 DEF OwnFeedLive

(* The feed a session merges away is the one whose lock it holds, so no    *)
(* other session is at work on it.                                         *)
LEMMA MergeStaysLive ==
  ASSUME LiveInv, NEW s \in Sessions, Merge(s)
  PROVE  Shaped' /\ OwnFeedLive'
<1> DEFINE f == own[s]
<1>1. PICK g \in Feeds \ {f} :
        /\ feed' = [feed EXCEPT ![f] = Tombstone(@, g), ![g] = Survivor(@, feed[f])]
        /\ target' = [target EXCEPT ![s] = g]
  BY DEF Merge
<1>2. /\ pc[s] = "following" /\ pc' = [pc EXCEPT ![s] = "extending"] /\ own' = own
      /\ f \in Feeds /\ lock[f] = s
  BY DEF Merge, LiveInv, LockInv, Resolved, HoldsOwn, Waiting
<1>3. /\ DOMAIN feed' = Feeds
      /\ feed'[f] = Tombstone(feed[f], g)
      /\ feed'[g] = Survivor(feed[g], feed[f])
      /\ \A h \in Feeds \ {f, g} : feed'[h] = feed[h]
  BY <1>1, <1>2 DEF LiveInv, Shaped
<1>4. "merged" \in DOMAIN feed'[f] /\ "merged" \in DOMAIN feed'[g] /\ feed'[g].merged = feed[g].merged
  BY <1>2, <1>3 DEF LiveInv, Shaped, Tombstone, Survivor
<1>5. Shaped'
  BY <1>3, <1>4 DEF LiveInv, Shaped
<1>6. ASSUME NEW t \in Sessions, pc'[t] \in Writing, target'[t] = own'[t]
      PROVE  feed'[own'[t]].merged = None
  <2>1. t # s
    BY <1>2, <1>6 DEF LiveInv, LockInv, PcOK, Writing
  <2>2. pc'[t] = pc[t] /\ own'[t] = own[t] /\ target'[t] = target[t]
    BY <1>1, <1>2, <2>1 DEF LiveInv, LockInv, PcOK
  <2>3. lock[own[t]] = t /\ own[t] \in Feeds
    BY <1>6, <2>2 DEF LiveInv, LockInv, Resolved, HoldsOwn, Waiting, Writing
  <2>4. own[t] # f
    BY <1>2, <2>1, <2>3
  <2>5. feed'[own[t]].merged = feed[own[t]].merged
    BY <1>3, <1>4, <2>3, <2>4
  <2> QED
    BY <1>6, <2>2, <2>5 DEF LiveInv, OwnFeedLive
<1> QED
  BY <1>5, <1>6 DEF OwnFeedLive

LEMMA NextStaysLive ==
  ASSUME LiveInv, [Next]_vars
  PROVE  LiveInv'
<1>1. LockInv'
  BY NextKeepsLocks DEF LiveInv
<1>2. CASE UNCHANGED vars
  BY <1>2, <1>1, UnmergedKept, KeptStaysLive DEF LiveInv, MergedKept, vars, database, workers
<1>3. CASE \/ \E u \in Urls : Publish(u)
           \/ \E u, t \in Urls : Move(u, t)
           \/ \E f \in Feeds : FallDue(f) \/ Reset(f) \/ Refresh(f)
           \/ Schedule
  <2>1. UNCHANGED <<pc, own, target>>
    BY <1>3 DEF Publish, Move, FallDue, Reset, Refresh, Schedule, workers
  <2>2. UNCHANGED feed \/ \E f \in Feeds : FallDue(f) \/ Reset(f)
    BY <1>3 DEF Publish, Move, Refresh, Schedule, database
  <2>3. MergedKept
    BY <2>2, FallDueKeepsMerged, UnmergedKept DEF LiveInv
  <2> QED
    BY <1>1, <2>1, <2>3, KeptStaysLive DEF LiveInv, MergedKept
<1>4. ASSUME NEW s \in Sessions, Fetch(s)
      PROVE  LiveInv'
  <2>1. CASE Merge(s)
    BY <1>1, <2>1, MergeStaysLive DEF LiveInv
  <2>2. CASE ~Merge(s)
    <3>1. MergedKept
      <4>1. UNCHANGED feed \/ Rename(s) \/ Record(s) \/ Defer(s)
        BY <1>4, <2>2 DEF Fetch, database, Take, Skip, StartStale, Start, Extend, GiveUp,
             Ingest, IngestFails, Gather, LoseLock
      <4> QED
        BY <4>1, FetchKeepsMerged, UnmergedKept DEF LiveInv
    <3>2. OwnFeedLive'
      <4>1. CASE Take(s)
        BY <3>1, <4>1, TakeStaysLive
      <4>2. CASE Start(s)
        BY <3>1, <4>2, StartStaysLive
      <4>3. CASE Skip(s) \/ StartStale(s) \/ GiveUp(s) \/ Record(s) \/ Defer(s) \/ LoseLock(s)
        BY <3>1, <4>3, RestStaysLive DEF Skip, StartStale, GiveUp, Record, Defer, LoseLock, Ends
      <4>4. CASE Extend(s) \/ Rename(s) \/ Ingest(s) \/ IngestFails(s) \/ Gather(s)
        <5>1. UNCHANGED <<own, target>>
          BY <4>4 DEF Extend, Rename, Ingest, IngestFails, Gather
        <5>2. \A t \in Sessions : t # s => pc'[t] = pc[t]
          BY <4>4 DEF Extend, Rename, Ingest, IngestFails, Gather, Passes, LiveInv, LockInv, PcOK
        <5>3. target[s] = own[s] => pc[s] \in Writing
          BY <4>4 DEF Extend, Rename, Ingest, IngestFails, Gather, LiveInv, LockInv, Turns, Writing
        <5> QED
          BY <3>1, <5>1, <5>2, <5>3, KeptStaysLive
      <4> QED
        BY <1>4, <2>2, <4>1, <4>2, <4>3, <4>4 DEF Fetch
    <3> QED
      BY <1>1, <3>1, <3>2 DEF LiveInv, MergedKept
  <2> QED
    BY <2>1, <2>2
<1> QED
  BY <1>2, <1>3, <1>4 DEF Next

(* A fetch never works on its own feed once that was merged away, however  *)
(* many sessions and feeds there are: createFeedFetchHandler re-reads the  *)
(* row under the lock, and only the lock's holder merges a feed away.      *)
THEOREM OwnFeedStaysLive == Spec => []OwnFeedLive
<1>1. LiveInv => OwnFeedLive
  BY DEF LiveInv
<1> QED
  BY <1>1, InitLive, NextStaysLive, PTL DEF Spec

-----------------------------------------------------------------------------
(* Chains of pointers: `merged` among feeds, `moved` among URLs.  The      *)
(* provers see Live and Serving as some function that satisfies their      *)
(* equation; where no pointer is None the element is its own end.          *)
Follows(h, p, D) == h = [x \in D |-> IF p[x] = None THEN x ELSE h[p[x]]]

(* No set holds the pointers of all its members: every chain ends.         *)
Rooted(p, D) == \A S \in SUBSET D : S # {} => \E x \in S : p[x] \notin S

Closed(S, p) == \A x \in S : p[x] # None => p[x] \in S

(* The chain of x leads to r, by way of every closed set.                  *)
Leads(p, D, x, r) == \A S \in SUBSET D : x \in S /\ Closed(S, p) => r \in S

LEMMA FollowExists ==
  ASSUME NEW D, None \notin D, NEW p \in [D -> D \cup {None}]
  PROVE  \E h : Follows(h, p, D)
<1> DEFINE IsEnd(x, r) == r \in D /\ p[r] = None /\ Leads(p, D, x, r)
           h == [x \in D |-> CHOOSE r : IsEnd(x, r)]
<1>1. ASSUME NEW x \in D, p[x] = None
      PROVE  h[x] = x
  <2>1. IsEnd(x, x)
    BY <1>1 DEF Leads
  <2>2. ASSUME NEW r, IsEnd(x, r)
        PROVE  r = x
    <3>1. {x} \in SUBSET D /\ Closed({x}, p)
      BY <1>1 DEF Closed
    <3> QED
      BY <2>2, <3>1 DEF Leads
  <2>3. (CHOOSE r : IsEnd(x, r)) = x
    <3> HIDE DEF IsEnd
    <3> QED
      BY <2>1, <2>2
  <2> QED
    BY <2>3
<1>2. ASSUME NEW x \in D, p[x] # None
      PROVE  h[x] = h[p[x]]
  <2>1. p[x] \in D
    BY <1>2
  <2>2. ASSUME NEW r, IsEnd(x, r)
        PROVE  IsEnd(p[x], r)
    <3>1. ASSUME NEW S \in SUBSET D, p[x] \in S, Closed(S, p)
          PROVE  r \in S
      <4>1. Closed(S \cup {x}, p) /\ S \cup {x} \in SUBSET D
        BY <3>1 DEF Closed
      <4>2. r \in S \cup {x}
        BY <2>2, <4>1 DEF Leads
      <4> QED
        BY <1>2, <2>2, <4>2
    <3> QED
      BY <2>2, <3>1 DEF Leads
  <2>3. ASSUME NEW r, IsEnd(p[x], r)
        PROVE  IsEnd(x, r)
    <3>1. ASSUME NEW S \in SUBSET D, x \in S, Closed(S, p)
          PROVE  r \in S
      BY <1>2, <2>3, <3>1 DEF Closed, Leads
    <3> QED
      BY <2>3, <3>1 DEF Leads
  <2>4. \A r : IsEnd(x, r) <=> IsEnd(p[x], r)
    BY <2>2, <2>3
  <2>5. (CHOOSE r : IsEnd(x, r)) = (CHOOSE r : IsEnd(p[x], r))
    <3> HIDE DEF IsEnd
    <3> QED
      BY <2>4
  <2>6. h[x] = (CHOOSE r : IsEnd(x, r)) /\ h[p[x]] = (CHOOSE r : IsEnd(p[x], r))
    <3> HIDE DEF IsEnd
    <3> QED
      BY <2>1
  <2> HIDE DEF h
  <2> QED
    BY <2>5, <2>6
<1>3. \A x \in D : h[x] = IF p[x] = None THEN x ELSE h[p[x]]
  <2> HIDE DEF h
  <2> QED
    BY <1>1, <1>2
<1>4. h = [x \in D |-> IF p[x] = None THEN x ELSE h[p[x]]]
  <2> DEFINE d == [x \in D |-> IF p[x] = None THEN x ELSE h[p[x]]]
  <2>1. DOMAIN h = D /\ h = [x \in D |-> h[x]]
    OBVIOUS
  <2> HIDE DEF h
  <2>2. \A x \in D : h[x] = d[x]
    BY <1>3
  <2> QED
    BY <2>1, <2>2
<1> HIDE DEF h
<1> QED
  BY <1>4 DEF Follows

LEMMA FollowAt ==
  ASSUME NEW D, NEW p, NEW h, Follows(h, p, D), NEW x \in D
  PROVE  h[x] = IF p[x] = None THEN x ELSE h[p[x]]
  BY DEF Follows

(* What holds at the end of every chain and passes back along it, holds    *)
(* everywhere: a set that no pointer of its own leaves is empty.           *)
LEMMA EndsInside ==
  ASSUME NEW D, None \notin D, NEW p \in [D -> D \cup {None}], Rooted(p, D),
         NEW h, Follows(h, p, D), NEW x \in D
  PROVE  h[x] \in D /\ p[h[x]] = None
<1> DEFINE Bad == {y \in D : ~(h[y] \in D /\ p[h[y]] = None)}
<1>1. SUFFICES ASSUME Bad # {}
               PROVE  FALSE
  BY DEF Bad
<1>2. PICK y \in Bad : p[y] \notin Bad
  <2>1. Bad \in SUBSET D
    OBVIOUS
  <2> HIDE DEF Bad
  <2> QED
    BY <1>1, <2>1 DEF Rooted
<1>3. y \in D /\ ~(h[y] \in D /\ p[h[y]] = None)
  OBVIOUS
<1>4. CASE p[y] = None
  BY <1>3, <1>4, FollowAt
<1>5. CASE p[y] # None
  <2>1. p[y] \in D /\ h[y] = h[p[y]]
    BY <1>3, <1>5, FollowAt
  <2>2. h[p[y]] \in D /\ p[h[p[y]]] = None
    BY <1>2, <2>1
  <2> QED
    BY <1>3, <2>1, <2>2
<1> QED
  BY <1>4, <1>5

(* One root gets a pointer to another: every chain that ended there ends   *)
(* at the other now.                                                       *)
LEMMA LinkKeepsRooted ==
  ASSUME NEW D, None \notin D, NEW p \in [D -> D \cup {None}], Rooted(p, D),
         NEW f \in D, NEW g \in D, NEW q,
         q[f] = g, q[g] = None, \A x \in D \ {f, g} : q[x] = p[x]
  PROVE  Rooted(q, D)
<1>1. ASSUME NEW S \in SUBSET D, S # {}, \A x \in S : q[x] \in S
      PROVE  FALSE
  <2>1. g \notin S
    BY <1>1
  <2>2. f \notin S
    BY <1>1, <2>1
  <2>3. \A x \in S : p[x] \in S
    BY <1>1, <2>1, <2>2
  <2> QED
    BY <1>1, <2>3 DEF Rooted
<1> QED
  BY <1>1 DEF Rooted

LEMMA LinkEnds ==
  ASSUME NEW D, None \notin D, NEW p \in [D -> D \cup {None}], Rooted(p, D),
         NEW f \in D, NEW g \in D, f # g, p[f] = None, p[g] = None,
         NEW q, q[f] = g, \A y \in D \ {f} : q[y] = p[y],
         NEW h, Follows(h, p, D), NEW k, Follows(k, q, D), NEW x \in D
  PROVE  k[x] = IF h[x] = f THEN g ELSE h[x]
<1>1. q[g] = None /\ \A y \in D \ {f, g} : q[y] = p[y]
  OBVIOUS
<1>2. Rooted(q, D)
  BY <1>1, LinkKeepsRooted
<1> DEFINE Bad == {y \in D : k[y] # IF h[y] = f THEN g ELSE h[y]}
<1>3. Bad \in SUBSET D
  OBVIOUS
<1>4. \A y \in D : y \notin Bad => k[y] = IF h[y] = f THEN g ELSE h[y]
  OBVIOUS
<1>5. \A y \in Bad : k[y] # IF h[y] = f THEN g ELSE h[y]
  OBVIOUS
<1> HIDE DEF Bad
<1>6. SUFFICES ASSUME Bad # {}
               PROVE  FALSE
  BY <1>4
<1>7. PICK y \in Bad : q[y] \notin Bad
  BY <1>2, <1>3, <1>6 DEF Rooted
<1>8. y \in D
  BY <1>3
<1>9. q[f] = g /\ q[g] = None /\ g # None
  OBVIOUS
<1>10. k[g] = g
  <2>1. k[g] = IF q[g] = None THEN g ELSE k[q[g]]
    BY FollowAt
  <2> QED
    BY <1>9, <2>1
<1>11. h[f] = f
  <2>1. h[f] = IF p[f] = None THEN f ELSE h[p[f]]
    BY FollowAt
  <2> QED
    BY <2>1
<1>12. k[f] = g
  <2>1. k[f] = IF q[f] = None THEN f ELSE k[q[f]]
    BY FollowAt
  <2> QED
    BY <1>9, <1>10, <2>1
<1>13. y # f
  BY <1>5, <1>11, <1>12
<1>14. q[y] = p[y]
  BY <1>8, <1>13
<1>15. k[y] = IF q[y] = None THEN y ELSE k[q[y]]
  BY <1>8, FollowAt
<1>16. h[y] = IF p[y] = None THEN y ELSE h[p[y]]
  BY <1>8, FollowAt
<1>17. CASE p[y] = None
  BY <1>5, <1>13, <1>14, <1>15, <1>16, <1>17
<1>18. CASE p[y] # None
  <2>1. p[y] \in D /\ p[y] \notin Bad
    BY <1>7, <1>8, <1>14, <1>18
  <2>2. k[p[y]] = IF h[p[y]] = f THEN g ELSE h[p[y]]
    BY <1>4, <2>1
  <2> QED
    BY <1>5, <1>14, <1>15, <1>16, <1>18, <2>2
<1> QED
  BY <1>17, <1>18

-----------------------------------------------------------------------------
(* The rows.  What every statement on a row of `feeds` leaves and writes.  *)

Outcome == [status : Statuses, errors : 0 .. QuarantineAfter, etag : Etags, success : 0 .. MaxClock]

(* What two rows have in common that the fetches are about.                *)
SameSource(r, row) ==
  r.fetchUrl = row.fetchUrl /\ r.etag = row.etag /\ r.success = row.success

LEMMA ReadTyped ==
  ASSUME NEW row \in Row
  PROVE  /\ Read(row) \in ReadRow
         /\ SameSource(Read(row), row)
  BY DEF Read, ReadRow, Row, Statuses, Etags, SameSource

LEMMA DueRow ==
  ASSUME NEW row \in Row
  PROVE  LET r == [row EXCEPT !.due = TRUE]
         IN  r \in Row /\ SameSource(r, row) /\ r.merged = row.merged /\ r.force = row.force
  BY Zenon DEF Row, SameSource

LEMMA ResetRow ==
  ASSUME NEW row \in Row
  PROVE  LET r == [row EXCEPT !.status = "active", !.errors = 0, !.due = TRUE]
         IN  r \in Row /\ SameSource(r, row) /\ r.merged = row.merged /\ r.force = row.force
<1>1. 0 \in 0 .. QuarantineAfter
  BY FeedsAssumption
<1> QED
  BY <1>1, Zenon DEF Row, Statuses, Etags, SameSource

LEMMA DeferredRow ==
  ASSUME NEW row \in Row, NEW forced \in BOOLEAN
  PROVE  LET r == [row EXCEPT !.due = FALSE, !.force = @ \/ forced]
         IN  /\ r \in Row /\ SameSource(r, row) /\ r.merged = row.merged
             /\ r.force = (row.force \/ forced)
  BY Zenon DEF Row, SameSource

LEMMA RenamedRow ==
  ASSUME NEW row \in Row, NEW url \in Urls, NEW fetchUrl \in Urls
  PROVE  LET r == Renamed(row, url, fetchUrl)
         IN  /\ r \in Row /\ r.merged = row.merged /\ r.force = row.force
             /\ r.fetchUrl = fetchUrl /\ r.success = row.success
             /\ r.etag = IF row.fetchUrl = fetchUrl THEN row.etag ELSE None
<1> DEFINE e == IF row.fetchUrl = fetchUrl THEN row.etag ELSE None
<1>1. e \in (1 .. MaxVersion) \cup {None}
  BY DEF Row, Statuses, Etags
<1>2. Renamed(row, url, fetchUrl) = [row EXCEPT !.url = url, !.fetchUrl = fetchUrl, !.etag = e]
  BY Zenon DEF Renamed
<1> HIDE DEF e
<1>3. LET r == [row EXCEPT !.url = url, !.fetchUrl = fetchUrl, !.etag = e]
      IN  /\ r \in Row /\ r.merged = row.merged /\ r.force = row.force
          /\ r.fetchUrl = fetchUrl /\ r.success = row.success /\ r.etag = e
  BY <1>1, Zenon DEF Row, Statuses, Etags
<1> QED
  BY <1>2, <1>3, Zenon DEF e

LEMMA TombstoneRow ==
  ASSUME NEW row \in Row, NEW g \in Feeds
  PROVE  LET r == Tombstone(row, g)
         IN  /\ r \in Row /\ r.merged = g /\ r.force = row.force
             /\ r.fetchUrl = row.fetchUrl /\ r.etag = None /\ r.success = row.success
  BY Zenon DEF Row, Statuses, Etags, Tombstone

LEMMA SurvivorRow ==
  ASSUME NEW row \in Row, NEW source \in Row
  PROVE  LET r == Survivor(row, source)
         IN  /\ r \in Row /\ r.merged = row.merged /\ r.force = row.force
             /\ r.fetchUrl = row.fetchUrl /\ r.etag = None /\ r.success = row.success
<1>1. (row.wanted \/ source.wanted) \in BOOLEAN
  BY DEF Row
<1> DEFINE w == row.wanted \/ source.wanted
<1>2. Survivor(row, source) = [row EXCEPT !.etag = None, !.wanted = w]
  BY Zenon DEF Survivor
<1> HIDE DEF w
<1>3. LET r == [row EXCEPT !.etag = None, !.wanted = w]
      IN  /\ r \in Row /\ r.merged = row.merged /\ r.force = row.force
          /\ r.fetchUrl = row.fetchUrl /\ r.etag = None /\ r.success = row.success
  BY <1>1, Zenon DEF Row, Statuses, Etags, w
<1> QED
  BY <1>2, <1>3, Zenon

LEMMA RecordedRow ==
  ASSUME NEW row \in Row, NEW outcome \in Outcome
  PROVE  LET r == Recorded(row, outcome)
         IN  /\ r \in Row /\ r.merged = row.merged /\ r.force = FALSE
             /\ r.fetchUrl = row.fetchUrl /\ r.success = outcome.success
             /\ r.etag = IF row.merged = None THEN outcome.etag ELSE None
<1> DEFINE st == IF row.status = "dead" THEN row.status ELSE outcome.status
           e == IF row.merged = None THEN outcome.etag ELSE None
<1>1. /\ st \in {"active", "quarantined", "dead"} /\ e \in (1 .. MaxVersion) \cup {None}
      /\ outcome.errors \in 0 .. QuarantineAfter /\ outcome.success \in 0 .. MaxClock
  BY DEF Row, Outcome, Statuses, Etags
<1>2. Recorded(row, outcome) = [row EXCEPT !.status = st, !.errors = outcome.errors, !.etag = e,
                                           !.success = outcome.success,
                                           !.due = FALSE, !.force = FALSE]
  BY Zenon DEF Recorded
<1> HIDE DEF st, e
<1>3. LET r == [row EXCEPT !.status = st, !.errors = outcome.errors, !.etag = e,
                           !.success = outcome.success, !.due = FALSE, !.force = FALSE]
      IN  /\ r \in Row /\ r.merged = row.merged /\ r.force = FALSE
          /\ r.fetchUrl = row.fetchUrl /\ r.success = outcome.success /\ r.etag = e
  BY <1>1, Zenon DEF Row, Statuses, Etags
<1> QED
  BY <1>2, <1>3, Zenon DEF e

-----------------------------------------------------------------------------
(* What a session carries along, and the types.                            *)

LEMMA OutcomeTyped ==
  ASSUME NEW fetch \in Fetched, fetch.answer.kind # "cooldown", NEW outcome \in Outcomes(fetch)
  PROVE  /\ outcome \in Outcome
         /\ IF fetch.answer.kind = "ok"
            THEN /\ outcome.success = fetch.start
                 /\ outcome.etag = IF KeepsValidators(fetch) THEN fetch.answer.version ELSE None
            ELSE /\ outcome.etag = fetch.row.etag
                 /\ outcome.success = IF fetch.answer.kind = "not_modified" THEN fetch.start
                                      ELSE fetch.row.success
<1> DEFINE row == fetch.row
           answer == fetch.answer
<1>1. /\ row.status \in Statuses /\ row.errors \in 0 .. QuarantineAfter /\ row.etag \in Etags
      /\ row.success \in 0 .. MaxClock /\ fetch.start \in 0 .. MaxClock
  BY DEF Fetched, ReadRow
<1>2. \/ answer.kind = "ok" /\ answer.version \in 1 .. MaxVersion
      \/ answer.kind \in {"error", "gone", "throttled", "not_modified"}
  BY DEF Fetched, Verdicts, Documents
<1>3. /\ 0 \in 0 .. QuarantineAfter /\ {"dead", "active", "quarantined"} \subseteq Statuses
      /\ 1 .. MaxVersion \subseteq Etags /\ None \in Etags
  BY FeedsAssumption DEF Statuses, Etags
<1>4. ASSUME NEW e \in Etags
      PROVE  /\ AfterSuccess(fetch, e) \in Outcome
             /\ AfterSuccess(fetch, e).success = fetch.start /\ AfterSuccess(fetch, e).etag = e
  BY <1>1, <1>3 DEF AfterSuccess, Outcome
<1>5. /\ AfterThrottle(row) \in Outcome
      /\ AfterThrottle(row).etag = row.etag /\ AfterThrottle(row).success = row.success
  BY <1>1 DEF AfterThrottle, Outcome
<1>6. ASSUME NEW gone \in BOOLEAN, NEW o \in AfterError(row, gone)
      PROVE  o \in Outcome /\ o.etag = row.etag /\ o.success = row.success
  <2> DEFINE errors == IF row.errors < QuarantineAfter THEN row.errors + 1 ELSE row.errors
  <2>1. PICK st : /\ o = [AfterThrottle(row) EXCEPT !.status = st, !.errors = errors]
                  /\ st \in {"dead", "quarantined", row.status}
    BY <1>6 DEF AfterError
  <2>2. errors \in 0 .. QuarantineAfter /\ st \in Statuses
    BY <1>1, <1>3, <2>1, FeedsAssumption
  <2> HIDE DEF errors, row
  <2> QED
    BY <1>5, <2>1, <2>2, Zenon DEF Outcome
<1>7. CASE answer.kind = "ok"
  <2>1. outcome = AfterSuccess(fetch, IF KeepsValidators(fetch) THEN answer.version ELSE None)
    BY <1>7 DEF Outcomes
  <2> QED
    BY <1>2, <1>3, <1>4, <1>7, <2>1
<1>8. CASE answer.kind = "not_modified"
  <2>1. outcome = AfterSuccess(fetch, row.etag)
    BY <1>8 DEF Outcomes
  <2> QED
    BY <1>1, <1>4, <1>8, <2>1
<1>9. CASE answer.kind = "throttled"
  <2>1. outcome = AfterThrottle(row)
    BY <1>9 DEF Outcomes
  <2> QED
    BY <1>5, <1>9, <2>1
<1>10. CASE answer.kind \in {"error", "gone"}
  <2>1. outcome \in AfterError(row, answer.kind = "gone")
    BY <1>10 DEF Outcomes
  <2> QED
    BY <1>6, <1>10, <2>1
<1> QED
  BY <1>2, <1>7, <1>8, <1>9, <1>10

LEMMA GatheredFetch ==
  ASSUME NEW fetch \in Fetched, NEW row \in ReadRow
  PROVE  LET r == [fetch EXCEPT !.row = row]
         IN  /\ r \in Fetched /\ r.forced = fetch.forced /\ r.row = row
             /\ r.start = fetch.start /\ r.answer = fetch.answer
             /\ r.todo = fetch.todo /\ r.failed = fetch.failed
  BY Zenon DEF Fetched

(* The pointers of the feeds.                                              *)
mergedOf == [f \in Feeds |-> feed[f].merged]

LEMMA LiveFollows == feed \in [Feeds -> Row] => Follows(Live, mergedOf, Feeds)
<1> DEFINE Eq(h) == h = [f \in Feeds |-> IF feed[f].merged = None THEN f ELSE h[feed[f].merged]]
<1> SUFFICES ASSUME feed \in [Feeds -> Row]
             PROVE  Follows(Live, mergedOf, Feeds)
  OBVIOUS
<1>1. mergedOf \in [Feeds -> Feeds \cup {None}]
  BY DEF mergedOf, Row
<1>2. \A h : Follows(h, mergedOf, Feeds) <=> Eq(h)
  BY DEF Follows, mergedOf
<1>3. \E h : Eq(h)
  BY <1>1, <1>2, FollowExists, FeedsAssumption
<1>4. Eq(CHOOSE h : Eq(h))
  <2> HIDE DEF Eq
  <2> QED
    BY <1>3
<1>5. Eq(Live)
  BY <1>4 DEF Live
<1> QED
  BY <1>2, <1>5

LEMMA ServingFollows == moved \in [Urls -> Urls \cup {None}] => Follows(Serving, moved, Urls)
<1> DEFINE Eq(h) == h = [u \in Urls |-> IF moved[u] = None THEN u ELSE h[moved[u]]]
<1> SUFFICES ASSUME moved \in [Urls -> Urls \cup {None}]
             PROVE  Follows(Serving, moved, Urls)
  OBVIOUS
<1>1. \A h : Follows(h, moved, Urls) <=> Eq(h)
  BY DEF Follows
<1>2. \E h : Eq(h)
  BY <1>1, FollowExists, FeedsAssumption
<1>3. Eq(CHOOSE h : Eq(h))
  <2> HIDE DEF Eq
  <2> QED
    BY <1>2
<1>4. Eq(Serving)
  BY <1>3 DEF Serving
<1> QED
  BY <1>1, <1>4

Chains == Rooted(mergedOf, Feeds) /\ Rooted(moved, Urls)

TypeInv ==
  /\ Typed
  /\ task \in [Sessions -> {None} \cup [force : BOOLEAN] \cup Fetched]
  /\ \A s \in Sessions : TaskOK(s)
  /\ Chains
  /\ \A f \in Feeds : feed[f].success <= clock

(* All that the steps below start from.                                    *)
Grounded == LiveInv /\ TypeInv

LEMMA ListedTyped ==
  ASSUME NEW u \in Urls, NEW v
  PROVE  Listed(u, v) \subseteq Articles
  BY DEF Listed, Articles

LEMMA ServingTyped ==
  ASSUME TypeInv, NEW u \in Urls
  PROVE  Serving[u] \in Urls /\ moved[Serving[u]] = None
<1>1. moved \in [Urls -> Urls \cup {None}] /\ Rooted(moved, Urls) /\ None \notin Urls
  BY FeedsAssumption DEF TypeInv, Typed, Chains
<1>2. Follows(Serving, moved, Urls)
  BY <1>1, ServingFollows
<1> QED
  BY <1>1, <1>2, EndsInside

LEMMA LiveTyped ==
  ASSUME TypeInv, NEW f \in Feeds
  PROVE  Live[f] \in Feeds /\ feed[Live[f]].merged = None
<1>1. /\ feed \in [Feeds -> Row] /\ Rooted(mergedOf, Feeds) /\ None \notin Feeds
      /\ mergedOf \in [Feeds -> Feeds \cup {None}]
  BY FeedsAssumption DEF TypeInv, Typed, Chains, mergedOf, Row
<1>2. Follows(Live, mergedOf, Feeds)
  BY <1>1, LiveFollows
<1>3. Live[f] \in Feeds /\ mergedOf[Live[f]] = None
  BY <1>1, <1>2, EndsInside
<1> QED
  BY <1>3 DEF mergedOf

LEMMA ClockGrows ==
  ASSUME TypeInv, [Next]_vars
  PROVE  clock' \in 0 .. MaxClock /\ clock <= clock'
<1>1. clock \in 0 .. MaxClock /\ MaxClock \in Nat
  BY FeedsAssumption DEF TypeInv, Typed
<1>2. ASSUME NEW s \in Sessions, Fetch(s)
      PROVE  UNCHANGED clock \/ (clock' = clock + 1 /\ clock < MaxClock)
  <2>1. CASE Start(s)
    BY <2>1 DEF Start
  <2>2. ~Start(s) => UNCHANGED clock
    BY <1>2 DEF Fetch, Take, Skip, StartStale, Rename, Merge, Extend, GiveUp, Ingest,
      IngestFails, Gather, Record, Defer, LoseLock
  <2> QED
    BY <2>1, <2>2
<1>3. ~(\E s \in Sessions : Fetch(s)) => UNCHANGED clock
  BY DEF Next, vars, Publish, Move, FallDue, Reset, Refresh, Schedule
<1> QED
  BY <1>1, <1>2, <1>3

(* A step of one session leaves the others where they are.                 *)
LEMMA OthersKept ==
  ASSUME Grounded, NEW s \in Sessions, Fetch(s), NEW t \in Sessions, t # s
  PROVE  pc'[t] = pc[t] /\ own'[t] = own[t] /\ target'[t] = target[t] /\ task'[t] = task[t]
<1>1. /\ PcOK
      /\ task \in [Sessions -> {None} \cup [force : BOOLEAN] \cup Fetched]
  BY DEF Grounded, LiveInv, LockInv, TypeInv
<1>2. CASE Take(s) \/ Start(s) \/ Rename(s) \/ Merge(s) \/ Extend(s) \/ Gather(s)
  BY <1>1, <1>2 DEF PcOK, Take, Start, Rename, Merge, Extend, Gather
<1>3. CASE Ingest(s) \/ IngestFails(s)
  BY <1>1, <1>3 DEF PcOK, Ingest, IngestFails, Passes
<1>4. CASE Skip(s) \/ StartStale(s) \/ GiveUp(s) \/ Record(s) \/ Defer(s) \/ LoseLock(s)
  <2>1. Rest(s)
    BY <1>4 DEF Skip, StartStale, GiveUp, Record, Defer, LoseLock, Ends
  <2> QED
    BY <1>1, <2>1 DEF PcOK, Rest
<1> QED
  BY <1>2, <1>3, <1>4 DEF Fetch

(* What a session under way works on.                                      *)
LEMMA Working ==
  ASSUME Grounded, NEW s \in Sessions, pc[s] \notin Waiting
  PROVE  /\ own[s] \in Feeds /\ target[s] \in Feeds /\ lock[own[s]] = s
         /\ task[s] \in Fetched /\ task[s].start \in 1 .. clock
<1>1. clock \in Nat
  BY FeedsAssumption DEF Grounded, TypeInv, Typed
<1>2. task[s].start \in Nat
  BY FeedsAssumption DEF Grounded, TypeInv, TaskOK, Fetched
<1> QED
  BY <1>1, <1>2 DEF Grounded, LiveInv, LockInv, Resolved, HoldsOwn, TypeInv, TaskOK, Waiting

-----------------------------------------------------------------------------
(* What the steps do to the rows.                                          *)

LEMMA OneRow ==
  ASSUME feed \in [Feeds -> Row], NEW f \in Feeds, NEW row \in Row,
         feed' = [feed EXCEPT ![f] = row]
  PROVE  /\ feed' \in [Feeds -> Row] /\ feed'[f] = row
         /\ \A g \in Feeds \ {f} : feed'[g] = feed[g]
  OBVIOUS

(* The row of f keeps all that the fetches are about.                      *)
Keeps(f) ==
  SameSource(feed'[f], feed[f]) /\ feed'[f].merged = feed[f].merged /\ feed'[f].force = feed[f].force

LEMMA ReviveStep ==
  ASSUME Grounded, NEW f \in Feeds, FallDue(f) \/ Reset(f)
  PROVE  feed' \in [Feeds -> Row] /\ \A g \in Feeds : Keeps(g)
<1>1. feed \in [Feeds -> Row] /\ feed[f] \in Row
  BY DEF Grounded, TypeInv, Typed
<1>2. CASE FallDue(f)
  <2> DEFINE row == [feed[f] EXCEPT !.due = TRUE]
  <2>1. feed' = [feed EXCEPT ![f] = row]
    BY <1>2 DEF FallDue
  <2>2. /\ row \in Row /\ SameSource(row, feed[f])
        /\ row.merged = feed[f].merged /\ row.force = feed[f].force
    BY <1>1, DueRow
  <2> HIDE DEF row
  <2> QED
    BY <1>1, <2>1, <2>2, OneRow DEF Keeps, SameSource
<1>3. CASE Reset(f)
  <2> DEFINE row == [feed[f] EXCEPT !.status = "active", !.errors = 0, !.due = TRUE]
  <2>1. feed' = [feed EXCEPT ![f] = row]
    BY <1>3 DEF Reset
  <2>2. /\ row \in Row /\ SameSource(row, feed[f])
        /\ row.merged = feed[f].merged /\ row.force = feed[f].force
    BY <1>1, ResetRow
  <2> HIDE DEF row
  <2> QED
    BY <1>1, <2>1, <2>2, OneRow DEF Keeps, SameSource
<1> QED
  BY <1>2, <1>3

LEMMA RenameStep ==
  ASSUME Grounded, NEW s \in Sessions, Rename(s)
  PROVE  LET f == own[s]
             to == task[s].answer.url
         IN  /\ feed' \in [Feeds -> Row] /\ to \in Urls /\ f \in Feeds
             /\ \A g \in Feeds \ {f} : feed'[g] = feed[g]
             /\ feed'[f].merged = feed[f].merged /\ feed'[f].force = feed[f].force
             /\ feed'[f].fetchUrl = to /\ feed'[f].success = feed[f].success
             /\ feed'[f].etag = IF feed[f].fetchUrl = to THEN feed[f].etag ELSE None
<1> DEFINE f == own[s]
           to == task[s].answer.url
<1>1. feed \in [Feeds -> Row] /\ f \in Feeds /\ task[s].answer \in Documents
  BY Working DEF Grounded, TypeInv, Typed, TaskOK, Rename, Waiting
<1>2. to \in Urls /\ feed[f] \in Row /\ feed[f].url \in Urls
  BY <1>1 DEF Documents, Row
<1>3. PICK url \in Urls : feed' = [feed EXCEPT ![f] = Renamed(feed[f], url, to)]
  BY <1>2 DEF Rename
<1> DEFINE row == Renamed(feed[f], url, to)
<1>4. /\ row \in Row /\ row.merged = feed[f].merged /\ row.force = feed[f].force
      /\ row.fetchUrl = to /\ row.success = feed[f].success
      /\ row.etag = IF feed[f].fetchUrl = to THEN feed[f].etag ELSE None
  BY <1>2, RenamedRow
<1>5. feed' = [feed EXCEPT ![f] = row]
  BY <1>3
<1> HIDE DEF row
<1> QED
  BY <1>1, <1>2, <1>4, <1>5, OneRow

(* The survivor of a merge is a live feed: the chain of merges ends there. *)
LEMMA MergeStep ==
  ASSUME Grounded, NEW s \in Sessions, Merge(s)
  PROVE  LET f == own[s] IN
         /\ f \in Feeds /\ target[s] = f /\ lock[f] = s /\ feed[f].merged = None
         /\ \E g \in Feeds \ {f} :
              /\ feed' \in [Feeds -> Row]
              /\ feed[g].merged = None
              /\ \A h \in Feeds \ {f, g} : feed'[h] = feed[h]
              /\ feed'[f].merged = g /\ feed'[f].etag = None /\ feed'[f].force = feed[f].force
              /\ feed'[f].fetchUrl = feed[f].fetchUrl /\ feed'[f].success = feed[f].success
              /\ feed'[g].merged = None /\ feed'[g].etag = None /\ feed'[g].force = feed[g].force
              /\ feed'[g].fetchUrl = feed[g].fetchUrl /\ feed'[g].success = feed[g].success
              /\ seen' = Moved(f, g)
              /\ target' = [target EXCEPT ![s] = g]
              /\ blurred' = IF lock[g] # None THEN blurred \cup {g} ELSE blurred
<1> DEFINE f == own[s]
<1>1. /\ feed \in [Feeds -> Row] /\ f \in Feeds /\ target[s] = f /\ lock[f] = s
      /\ feed[f].merged = None
  BY Working DEF Grounded, TypeInv, Typed, LiveInv, LockInv, Turns, OwnFeedLive, Merge, Waiting,
    Writing
<1>2. PICK owner \in Feeds, g \in Feeds \ {f} :
        /\ g = Live[owner]
        /\ feed' = [feed EXCEPT ![f] = Tombstone(@, g), ![g] = Survivor(@, feed[f])]
        /\ seen' = Moved(f, g)
        /\ target' = [target EXCEPT ![s] = g]
        /\ blurred' = IF lock[g] # None THEN blurred \cup {g} ELSE blurred
  BY DEF Merge, Owners
<1>3. feed[g].merged = None
  BY <1>2, LiveTyped DEF Grounded
<1>4. /\ DOMAIN feed' = Feeds /\ feed' = [h \in Feeds |-> feed'[h]]
      /\ feed'[f] = Tombstone(feed[f], g) /\ feed'[g] = Survivor(feed[g], feed[f])
      /\ \A h \in Feeds \ {f, g} : feed'[h] = feed[h]
  BY <1>1, <1>2
<1>5. /\ feed'[f] \in Row /\ feed'[f].merged = g /\ feed'[f].force = feed[f].force
      /\ feed'[f].fetchUrl = feed[f].fetchUrl /\ feed'[f].etag = None
      /\ feed'[f].success = feed[f].success
  <2> DEFINE r == Tombstone(feed[f], g)
  <2>1. /\ r \in Row /\ r.merged = g /\ r.force = feed[f].force
        /\ r.fetchUrl = feed[f].fetchUrl /\ r.etag = None /\ r.success = feed[f].success
    BY <1>1, TombstoneRow
  <2>2. feed'[f] = r
    BY <1>4
  <2> HIDE DEF r
  <2> QED
    BY <2>1, <2>2
<1>6. /\ feed'[g] \in Row /\ feed'[g].merged = None /\ feed'[g].force = feed[g].force
      /\ feed'[g].fetchUrl = feed[g].fetchUrl /\ feed'[g].etag = None
      /\ feed'[g].success = feed[g].success
  BY <1>1, <1>3, <1>4, SurvivorRow
<1>7. \A h \in Feeds : feed'[h] \in Row
  BY <1>1, <1>4, <1>5, <1>6
<1>8. feed' \in [Feeds -> Row]
  BY <1>4, <1>7
<1> QED
  BY <1>1, <1>2, <1>3, <1>4, <1>5, <1>6, <1>8

LEMMA RecordStep ==
  ASSUME Grounded, NEW s \in Sessions, Record(s)
  PROVE  LET f == target[s]
             fetch == task[s]
         IN
         /\ f \in Feeds /\ feed' \in [Feeds -> Row]
         /\ \A g \in Feeds \ {f} : feed'[g] = feed[g]
         /\ feed'[f].merged = feed[f].merged /\ feed'[f].force = FALSE
         /\ feed'[f].fetchUrl = feed[f].fetchUrl
         /\ feed'[f].success = IF fetch.answer.kind \in {"ok", "not_modified"} THEN fetch.start
                               ELSE fetch.row.success
         /\ feed'[f].etag = IF feed[f].merged # None THEN None
                            ELSE IF fetch.answer.kind # "ok" THEN fetch.row.etag
                            ELSE IF KeepsValidators(fetch) THEN fetch.answer.version ELSE None
<1> DEFINE f == target[s]
           fetch == task[s]
<1>1. feed \in [Feeds -> Row] /\ f \in Feeds /\ fetch \in Fetched /\ fetch.answer.kind # "cooldown"
  BY Working DEF Grounded, TypeInv, Typed, Record, Waiting
<1>2. PICK outcome \in Outcomes(fetch) : feed' = [feed EXCEPT ![f] = Recorded(feed[f], outcome)]
  BY DEF Record
<1>3. /\ outcome \in Outcome
      /\ IF fetch.answer.kind = "ok"
         THEN /\ outcome.success = fetch.start
              /\ outcome.etag = IF KeepsValidators(fetch) THEN fetch.answer.version ELSE None
         ELSE /\ outcome.etag = fetch.row.etag
              /\ outcome.success = IF fetch.answer.kind = "not_modified" THEN fetch.start
                                   ELSE fetch.row.success
  BY <1>1, <1>2, OutcomeTyped
<1> DEFINE row == Recorded(feed[f], outcome)
<1>4. /\ row \in Row /\ row.merged = feed[f].merged /\ row.force = FALSE
      /\ row.fetchUrl = feed[f].fetchUrl /\ row.success = outcome.success
      /\ row.etag = IF feed[f].merged = None THEN outcome.etag ELSE None
  BY <1>1, <1>3, RecordedRow
<1>5. feed' = [feed EXCEPT ![f] = row]
  BY <1>2
<1> HIDE DEF row
<1> QED
  BY <1>1, <1>3, <1>4, <1>5, OneRow

LEMMA DeferStep ==
  ASSUME Grounded, NEW s \in Sessions, Defer(s)
  PROVE  LET f == own[s] IN
         /\ f \in Feeds /\ feed' \in [Feeds -> Row]
         /\ \A g \in Feeds \ {f} : feed'[g] = feed[g]
         /\ SameSource(feed'[f], feed[f]) /\ feed'[f].merged = feed[f].merged
         /\ feed'[f].force = (feed[f].force \/ task[s].forced)
<1> DEFINE f == own[s]
           row == [feed[f] EXCEPT !.due = FALSE, !.force = @ \/ task[s].forced]
<1>1. feed \in [Feeds -> Row] /\ f \in Feeds /\ task[s] \in Fetched
  BY Working DEF Grounded, TypeInv, Typed, Defer, Waiting
<1>2. feed' = [feed EXCEPT ![f] = row]
  BY DEF Defer
<1>3. feed[f] \in Row /\ task[s].forced \in BOOLEAN
  BY <1>1 DEF Fetched
<1>4. /\ row \in Row /\ SameSource(row, feed[f]) /\ row.merged = feed[f].merged
      /\ row.force = (feed[f].force \/ task[s].forced)
  BY <1>3, DeferredRow, Zenon
<1> HIDE DEF row
<1> QED
  BY <1>1, <1>2, <1>4, OneRow

(* No other step writes a row.                                             *)
LEMMA QuietRows ==
  ASSUME [Next]_vars, ~ \E f \in Feeds : FallDue(f) \/ Reset(f),
         ~ \E s \in Sessions : Rename(s) \/ Merge(s) \/ Record(s) \/ Defer(s)
  PROVE  UNCHANGED feed
  BY DEF Next, Fetch, vars, database, Publish, Move, Refresh, Schedule, Take, Skip, StartStale, Start,
    Extend, GiveUp, Ingest, IngestFails, Gather, LoseLock

(* What a session's fetch comes to have.                                   *)

LEMMA AnswersTyped ==
  ASSUME TypeInv, NEW row \in ReadRow, NEW answer \in Answers(row)
  PROVE  /\ answer \in Verdicts \cup Documents
         /\ answer.kind = "ok" <=> answer \in Documents
         /\ Todo(answer) \subseteq Articles
         /\ answer.permanent => answer.kind = "ok"
<1> DEFINE to == Serving[row.fetchUrl]
<1>1. row.fetchUrl \in Urls /\ version \in [Urls -> 1 .. MaxVersion]
  BY DEF ReadRow, TypeInv, Typed
<1>2. to \in Urls /\ version[to] \in 1 .. MaxVersion
  BY <1>1, ServingTyped
<1>3. \/ answer \in Verdicts
      \/ \E p \in {FALSE, to # row.fetchUrl} :
           answer = [kind |-> "ok", url |-> to, version |-> version[to], permanent |-> p]
  <2>1. \/ \E kind \in {"cooldown", "error", "gone", "throttled", "not_modified"} :
             answer = [kind |-> kind, permanent |-> FALSE]
        \/ \E p \in {FALSE, to # row.fetchUrl} :
             answer = [kind |-> "ok", url |-> to, version |-> version[to], permanent |-> p]
    BY Zenon DEF Answers
  <2>2. (\E kind \in {"cooldown", "error", "gone", "throttled", "not_modified"} :
           answer = [kind |-> kind, permanent |-> FALSE]) => answer \in Verdicts
    BY DEF Verdicts
  <2> HIDE DEF to
  <2> QED
    BY <2>1, <2>2, Zenon
<1>4. CASE answer \in Verdicts
  BY <1>4 DEF Verdicts, Documents, Todo
<1>5. CASE \E p \in {FALSE, to # row.fetchUrl} :
             answer = [kind |-> "ok", url |-> to, version |-> version[to], permanent |-> p]
  <2> HIDE DEF to
  <2>1. PICK p \in BOOLEAN :
          answer = [kind |-> "ok", url |-> to, version |-> version[to], permanent |-> p]
    BY <1>5
  <2>2. answer \in Documents /\ answer.kind = "ok" /\ answer.url \in Urls
    BY <1>2, <2>1 DEF Documents
  <2> QED
    BY <2>2, ListedTyped DEF Todo
<1> QED
  BY <1>3, <1>4, <1>5

LEMMA StartStep ==
  ASSUME Grounded, NEW s \in Sessions, Start(s)
  PROVE  LET f == own[s]
             row == Read(feed[f])
         IN
         /\ f \in Feeds /\ lock[f] = None /\ feed[f].merged = None /\ row \in ReadRow
         /\ target'[s] = f /\ own' = own /\ lock' = [lock EXCEPT ![f] = s]
         /\ clock' = clock + 1 /\ clock < MaxClock /\ pc'[s] \notin Waiting
         /\ UNCHANGED <<feed, seen, jobs, version, moved, blurred, dropped>>
         /\ \E answer \in Answers(row) :
              /\ pc'[s] = Answered(answer)
              /\ task'[s] = [forced |-> Forced(s), row |-> row, start |-> clock + 1,
                             answer |-> answer, todo |-> Todo(answer), failed |-> FALSE]
<1> DEFINE f == own[s]
           row == Read(feed[f])
<1>1. /\ feed \in [Feeds -> Row] /\ f \in Feeds /\ PcOK
      /\ task \in [Sessions -> {None} \cup [force : BOOLEAN] \cup Fetched]
  BY DEF Grounded, LiveInv, LockInv, TypeInv, Typed, Start, Resolved
<1>2. row \in ReadRow
  BY <1>1, ReadTyped
<1>3. /\ lock[f] = None /\ feed[f].merged = None /\ target'[s] = f /\ own' = own
      /\ lock' = [lock EXCEPT ![f] = s] /\ clock' = clock + 1 /\ clock < MaxClock
      /\ UNCHANGED <<feed, seen, jobs, version, moved, blurred, dropped>>
  BY <1>1 DEF Start, Proceeds, PcOK, database, world, history
<1>4. PICK answer \in Answers(row) :
        /\ pc' = [pc EXCEPT ![s] = Answered(answer)]
        /\ task' = [task EXCEPT ![s] =
             [forced |-> Forced(s), row |-> row, start |-> clock + 1,
              answer |-> answer, todo |-> Todo(answer), failed |-> FALSE]]
  BY DEF Start
<1>5. pc'[s] = Answered(answer) /\ pc'[s] \notin Waiting
  BY <1>1, <1>4 DEF PcOK, Answered, Waiting
<1>6. task'[s] = [forced |-> Forced(s), row |-> row, start |-> clock + 1,
                  answer |-> answer, todo |-> Todo(answer), failed |-> FALSE]
  BY <1>1, <1>4
<1>7. \E a \in Answers(row) :
        /\ pc'[s] = Answered(a)
        /\ task'[s] = [forced |-> Forced(s), row |-> row, start |-> clock + 1,
                       answer |-> a, todo |-> Todo(a), failed |-> FALSE]
  BY <1>5, <1>6
<1> QED
  BY <1>1, <1>2, <1>3, <1>5, <1>7, Zenon

LEMMA IngestStep ==
  ASSUME Grounded, NEW s \in Sessions, Ingest(s) \/ IngestFails(s)
  PROVE  LET fetch == task[s] IN
         /\ pc[s] = "ingesting" /\ UNCHANGED <<feed, jobs, lock, own, target, version, moved,
                                              clock, blurred, dropped>>
         /\ target[s] \in Feeds /\ fetch \in Fetched /\ fetch.answer \in Documents
         /\ \E a \in fetch.todo, failed \in BOOLEAN :
              /\ seen' = IF failed THEN seen ELSE [seen EXCEPT ![target[s]][a] = clock]
              /\ task'[s] \in Fetched /\ task'[s].forced = fetch.forced /\ task'[s].row = fetch.row
              /\ task'[s].start = fetch.start /\ task'[s].answer = fetch.answer
              /\ task'[s].todo = fetch.todo \ {a} /\ task'[s].failed = (fetch.failed \/ failed)
              /\ pc'[s] = IF fetch.todo # {a} THEN "ingesting"
                          ELSE IF fetch.answer.permanent THEN "gathering" ELSE "recording"
<1> DEFINE fetch == task[s]
<1>1. pc[s] = "ingesting" /\ UNCHANGED <<feed, jobs, lock, own, target, version, moved,
                                         clock, blurred, dropped>>
  BY DEF Ingest, IngestFails, database, world, history
<1>2. /\ fetch \in Fetched /\ target[s] \in Feeds /\ PcOK /\ fetch.answer \in Documents
      /\ task \in [Sessions -> {None} \cup [force : BOOLEAN] \cup Fetched]
  BY <1>1, Working DEF Grounded, LiveInv, LockInv, TypeInv, TaskOK, Waiting
<1>3. PICK a \in fetch.todo, failed \in BOOLEAN :
        /\ seen' = IF failed THEN seen ELSE [seen EXCEPT ![target[s]][a] = clock]
        /\ Passes(s, a, failed)
  <2>1. CASE Ingest(s)
    BY <2>1 DEF Ingest, Newest
  <2>2. CASE IngestFails(s)
    BY <2>2 DEF IngestFails, Newest, database
  <2> QED
    BY <2>1, <2>2
<1> DEFINE rest == fetch.todo \ {a}
           fails == fetch.failed \/ failed
           r == [fetch EXCEPT !.todo = rest, !.failed = fails]
<1>4. /\ r \in Fetched /\ r.forced = fetch.forced /\ r.row = fetch.row
      /\ r.start = fetch.start /\ r.answer = fetch.answer
      /\ r.todo = rest /\ r.failed = fails
  <2>1. rest \in SUBSET Articles /\ fails \in BOOLEAN
    BY <1>2 DEF Fetched
  <2>2. fetch \in Fetched
    BY <1>2
  <2> HIDE DEF rest, fails, fetch
  <2> QED
    BY <2>1, <2>2, Zenon DEF Fetched
<1>5. task'[s] = r
  BY <1>2, <1>3 DEF Passes, Fetched
<1>6. pc'[s] = IF fetch.todo # {a} THEN "ingesting"
               ELSE IF fetch.answer.permanent THEN "gathering" ELSE "recording"
  BY <1>2, <1>3 DEF Passes, PcOK
<1> HIDE DEF r
<1> QED
  BY <1>1, <1>2, <1>3, <1>4, <1>5, <1>6 DEF rest, fails

LEMMA GatherStep ==
  ASSUME Grounded, NEW s \in Sessions, Gather(s)
  PROVE  LET fetch == task[s] IN
         /\ pc[s] = "gathering" /\ pc'[s] = "recording"
         /\ UNCHANGED <<feed, seen, jobs, lock, own, target, version, moved, clock, blurred, dropped>>
         /\ target[s] \in Feeds /\ fetch \in Fetched
         /\ task'[s] \in Fetched /\ task'[s].row = Read(feed[target[s]])
         /\ task'[s].forced = fetch.forced /\ task'[s].start = fetch.start
         /\ task'[s].answer = fetch.answer /\ task'[s].todo = fetch.todo
         /\ task'[s].failed = fetch.failed
<1> DEFINE fetch == task[s]
           row == Read(feed[target[s]])
           r == [fetch EXCEPT !.row = row]
<1>1. /\ pc[s] = "gathering"
      /\ UNCHANGED <<feed, seen, jobs, lock, own, target, version, moved, clock, blurred, dropped>>
  BY DEF Gather, database, world, history
<1>2. /\ fetch \in Fetched /\ target[s] \in Feeds /\ PcOK /\ feed \in [Feeds -> Row]
      /\ task \in [Sessions -> {None} \cup [force : BOOLEAN] \cup Fetched]
  BY <1>1, Working DEF Grounded, LiveInv, LockInv, TypeInv, Typed, Waiting
<1>3. pc'[s] = "recording" /\ task'[s] = r
  BY <1>2 DEF Gather, PcOK
<1>4. row \in ReadRow
  BY <1>2, ReadTyped
<1>5. /\ r \in Fetched /\ r.forced = fetch.forced /\ r.row = row
      /\ r.start = fetch.start /\ r.answer = fetch.answer
      /\ r.todo = fetch.todo /\ r.failed = fetch.failed
  <2> HIDE DEF row
  <2> QED
    BY <1>2, <1>4, GatheredFetch
<1> HIDE DEF r, row
<1> QED
  BY <1>1, <1>2, <1>3, <1>5 DEF row

-----------------------------------------------------------------------------
(* The types are kept.                                                     *)

LEMMA InitTyped == Init => TypeInv
<1> SUFFICES ASSUME Init
             PROVE  TypeInv
  OBVIOUS
<1>1. /\ clock = Cardinality(Feeds) /\ clock \in 0 .. MaxClock
      /\ 0 \in 0 .. QuarantineAfter /\ 1 \in 1 .. MaxVersion
      /\ MaxEvents \in Nat /\ MaxClock \in Nat
  BY FeedsAssumption, FS_CardinalityType DEF Init
<1>2. PICK at \in [Feeds -> 1 .. Cardinality(Feeds)] :
        /\ feed = [f \in Feeds |-> Established(f, at[f])]
        /\ seen = [f \in Feeds |-> [a \in Articles |-> IF a = <<Home[f], 1>> THEN at[f] ELSE 0]]
  BY DEF Init
<1>3. ASSUME NEW f \in Feeds
      PROVE  /\ at[f] \in 0 .. MaxClock /\ at[f] <= clock
             /\ feed[f] \in Row /\ feed[f].success = at[f] /\ feed[f].merged = None
  <2>1. at[f] \in 0 .. MaxClock /\ at[f] <= clock
    BY <1>1
  <2>2. feed[f] = Established(f, at[f])
    BY <1>2
  <2>3. Established(f, at[f]) \in Row
    BY <1>1, <2>1, FeedsAssumption DEF Established, Row, Statuses, Etags
  <2>4. Established(f, at[f]).success = at[f] /\ Established(f, at[f]).merged = None
    BY DEF Established
  <2> QED
    BY <2>1, <2>2, <2>3, <2>4
<1>4. feed \in [Feeds -> Row] /\ \A f \in Feeds : feed[f].success <= clock
  <2>1. feed = [f \in Feeds |-> feed[f]]
    BY <1>2
  <2> QED
    BY <1>3, <2>1
<1>5. seen \in [Feeds -> [Articles -> 0 .. clock]]
  <2>1. \A f \in Feeds : at[f] \in 0 .. clock
    BY <1>1
  <2> QED
    BY <1>1, <1>2, <2>1
<1>6. Typed
  BY <1>1, <1>4, <1>5 DEF Init, Typed, Waiting, Writing
<1>7. Chains
  <2>1. \A f \in Feeds : mergedOf[f] = None
    BY <1>3 DEF mergedOf
  <2>2. \A u \in Urls : moved[u] = None
    BY DEF Init
  <2> QED
    BY <2>1, <2>2, FeedsAssumption DEF Chains, Rooted
<1>8. /\ task \in [Sessions -> {None} \cup [force : BOOLEAN] \cup Fetched]
      /\ \A s \in Sessions : TaskOK(s)
  BY DEF Init, TaskOK, Waiting
<1> QED
  BY <1>4, <1>6, <1>7, <1>8 DEF TypeInv

LEMMA RowsTyped ==
  ASSUME Grounded, [Next]_vars
  PROVE  feed' \in [Feeds -> Row] /\ \A f \in Feeds : feed'[f].success <= clock'
<1>1. /\ feed \in [Feeds -> Row] /\ \A f \in Feeds : feed[f].success <= clock
      /\ clock \in Nat /\ clock' \in Nat /\ clock <= clock'
      /\ \A f \in Feeds : feed[f].success \in Nat
  BY FeedsAssumption, ClockGrows DEF Grounded, TypeInv, Typed, Row
<1>2. CASE UNCHANGED feed
  BY <1>1, <1>2
<1>3. ASSUME NEW f \in Feeds, FallDue(f) \/ Reset(f)
      PROVE  feed' \in [Feeds -> Row] /\ \A g \in Feeds : feed'[g].success = feed[g].success
  BY <1>3, ReviveStep DEF Keeps, SameSource
<1>4. ASSUME NEW s \in Sessions, Rename(s)
      PROVE  feed' \in [Feeds -> Row] /\ \A g \in Feeds : feed'[g].success = feed[g].success
  BY <1>4, RenameStep
<1>5. ASSUME NEW s \in Sessions, Merge(s)
      PROVE  feed' \in [Feeds -> Row] /\ \A g \in Feeds : feed'[g].success = feed[g].success
  BY <1>5, MergeStep
<1>6. ASSUME NEW s \in Sessions, Defer(s)
      PROVE  feed' \in [Feeds -> Row] /\ \A g \in Feeds : feed'[g].success = feed[g].success
  BY <1>6, DeferStep DEF SameSource
<1>7. ASSUME NEW s \in Sessions, Record(s)
      PROVE  feed' \in [Feeds -> Row] /\ \A g \in Feeds : feed'[g].success <= clock'
  <2>1. /\ task[s].start \in Nat /\ task[s].start <= clock /\ task[s].row.success <= clock
        /\ task[s].row.success \in Nat
    BY <1>1, <1>7, Working, FeedsAssumption DEF Grounded, TypeInv, TaskOK, Record, Waiting, Fetched,
      ReadRow
  <2>2. feed' \in [Feeds -> Row]
    BY <1>7, RecordStep
  <2>3. ASSUME NEW g \in Feeds
        PROVE  feed'[g].success \in {feed[g].success, task[s].start, task[s].row.success}
    BY <1>7, RecordStep
  <2> QED
    BY <1>1, <2>1, <2>2, <2>3
<1> QED
  BY <1>1, <1>2, <1>3, <1>4, <1>5, <1>6, <1>7, QuietRows

(* The sightings.                                                          *)

LEMMA QuietSightings ==
  ASSUME [Next]_vars,
         ~ \E s \in Sessions : Merge(s) \/ Ingest(s) \/ IngestFails(s) \/ Record(s)
  PROVE  UNCHANGED seen
  BY DEF Next, Fetch, vars, database, Publish, Move, FallDue, Reset, Refresh, Schedule, Take, Skip,
    StartStale, Start, Rename, Extend, GiveUp, Gather, Defer, LoseLock

LEMMA MergeSightings ==
  ASSUME Grounded, NEW f \in Feeds, NEW g \in Feeds \ {f}, seen' = Moved(f, g)
  PROVE  /\ seen' \in [Feeds -> [Articles -> 0 .. clock]]
         /\ \A a \in Articles :
              /\ seen'[f][a] = 0
              /\ seen'[g][a] = IF seen[f][a] > seen[g][a] THEN seen[f][a] ELSE seen[g][a]
         /\ \A h \in Feeds \ {f, g} : seen'[h] = seen[h]
<1>1. /\ seen \in [Feeds -> [Articles -> 0 .. clock]] /\ clock \in Nat
      /\ \A a \in Articles : seen[f][a] \in 0 .. clock /\ seen[g][a] \in 0 .. clock
  BY FeedsAssumption DEF Grounded, TypeInv, Typed
<1> DEFINE zero == [a \in Articles |-> 0]
           later == [a \in Articles |-> IF seen[f][a] > seen[g][a] THEN seen[f][a] ELSE seen[g][a]]
<1>2. seen' = [seen EXCEPT ![f] = zero, ![g] = later]
  BY DEF Moved
<1>3. zero \in [Articles -> 0 .. clock] /\ later \in [Articles -> 0 .. clock]
  BY <1>1
<1>4. seen'[f] = zero /\ seen'[g] = later /\ \A h \in Feeds \ {f, g} : seen'[h] = seen[h]
  BY <1>1, <1>2
<1>5. seen' \in [Feeds -> [Articles -> 0 .. clock]]
  <2> HIDE DEF zero, later
  <2> QED
    BY <1>1, <1>2, <1>3
<1> QED
  BY <1>4, <1>5

LEMMA RecordSightings ==
  ASSUME Grounded, NEW s \in Sessions, Record(s)
  PROVE  /\ seen' \in [Feeds -> [Articles -> 0 .. clock]]
         /\ \A a \in Articles :
              seen'[target[s]][a] = IF a \in StillListed(s) THEN clock ELSE seen[target[s]][a]
         /\ \A g \in Feeds \ {target[s]} : seen'[g] = seen[g]
<1> DEFINE f == target[s]
           marks == [a \in Articles |-> IF a \in StillListed(s) THEN clock ELSE seen[f][a]]
<1>1. /\ seen \in [Feeds -> [Articles -> 0 .. clock]] /\ f \in Feeds /\ clock \in 0 .. clock
  BY Working, FeedsAssumption DEF Grounded, TypeInv, Typed, Record, Waiting
<1>2. seen' = [seen EXCEPT ![f] = marks]
  BY DEF Record
<1>3. marks \in [Articles -> 0 .. clock]
  BY <1>1
<1>4. \A a \in Articles : marks[a] = IF a \in StillListed(s) THEN clock ELSE seen[f][a]
  OBVIOUS
<1> HIDE DEF marks
<1> QED
  BY <1>1, <1>2, <1>3, <1>4

LEMMA SightingsTyped ==
  ASSUME Grounded, [Next]_vars
  PROVE  seen' \in [Feeds -> [Articles -> 0 .. clock']]
<1>1. /\ seen \in [Feeds -> [Articles -> 0 .. clock]]
      /\ clock \in Nat /\ clock' \in Nat /\ clock <= clock'
  BY FeedsAssumption, ClockGrows DEF Grounded, TypeInv, Typed
<1>2. SUFFICES seen' \in [Feeds -> [Articles -> 0 .. clock]]
  <2>1. 0 .. clock \subseteq 0 .. clock'
    BY <1>1
  <2> QED
    BY <2>1
<1>3. ASSUME NEW s \in Sessions, Merge(s)
      PROVE  seen' \in [Feeds -> [Articles -> 0 .. clock]]
  <2>1. PICK g \in Feeds \ {own[s]} : seen' = Moved(own[s], g)
    BY <1>3, MergeStep
  <2>2. own[s] \in Feeds
    BY <1>3, MergeStep
  <2> QED
    BY <2>1, <2>2, MergeSightings
<1>4. ASSUME NEW s \in Sessions, Ingest(s) \/ IngestFails(s)
      PROVE  seen' \in [Feeds -> [Articles -> 0 .. clock]]
  <2>1. PICK a \in task[s].todo, failed \in BOOLEAN :
          seen' = IF failed THEN seen ELSE [seen EXCEPT ![target[s]][a] = clock]
    BY <1>4, IngestStep
  <2>2. target[s] \in Feeds /\ a \in Articles /\ clock \in 0 .. clock
    BY <1>1, <1>4, <2>1, IngestStep DEF Fetched
  <2> QED
    BY <1>1, <2>1, <2>2
<1>5. ASSUME NEW s \in Sessions, Record(s)
      PROVE  seen' \in [Feeds -> [Articles -> 0 .. clock]]
  BY <1>5, RecordSightings
<1> QED
  BY <1>1, <1>3, <1>4, <1>5, QuietSightings

(* The chains of merges and of redirects still end.                        *)
LEMMA ChainsKept ==
  ASSUME Grounded, [Next]_vars
  PROVE  Chains'
<1>1. /\ Rooted(mergedOf, Feeds) /\ Rooted(moved, Urls) /\ None \notin Feeds /\ None \notin Urls
      /\ mergedOf \in [Feeds -> Feeds \cup {None}] /\ moved \in [Urls -> Urls \cup {None}]
      /\ feed \in [Feeds -> Row]
  BY FeedsAssumption DEF Grounded, TypeInv, Typed, Chains, mergedOf, Row
<1>2. Rooted(mergedOf', Feeds)
  <2>1. ASSUME NEW s \in Sessions, Merge(s)
        PROVE  Rooted(mergedOf', Feeds)
    <3> DEFINE f == own[s]
    <3>1. PICK g \in Feeds \ {f} :
            /\ f \in Feeds /\ feed'[f].merged = g /\ feed'[g].merged = None
            /\ \A h \in Feeds \ {f, g} : feed'[h] = feed[h]
      BY <2>1, MergeStep
    <3>2. /\ mergedOf'[f] = g /\ mergedOf'[g] = None
          /\ \A h \in Feeds \ {f, g} : mergedOf'[h] = mergedOf[h]
      BY <3>1 DEF mergedOf
    <3> DEFINE p == mergedOf
               q == mergedOf'
    <3>3. /\ p \in [Feeds -> Feeds \cup {None}] /\ Rooted(p, Feeds) /\ None \notin Feeds
          /\ f \in Feeds /\ g \in Feeds /\ q[f] = g /\ q[g] = None
          /\ \A h \in Feeds \ {f, g} : q[h] = p[h]
      BY <1>1, <3>1, <3>2
    <3> HIDE DEF f, p, q
    <3>4. Rooted(q, Feeds)
      BY <3>3, LinkKeepsRooted
    <3> QED
      BY <3>4 DEF q
  <2>2. ASSUME \A f \in Feeds : feed'[f].merged = feed[f].merged
        PROVE  Rooted(mergedOf', Feeds)
    <3>1. mergedOf' = mergedOf
      BY <2>2 DEF mergedOf
    <3> QED
      BY <1>1, <3>1
  <2>3. ASSUME NEW f \in Feeds, FallDue(f) \/ Reset(f)
        PROVE  \A g \in Feeds : feed'[g].merged = feed[g].merged
    BY <2>3, ReviveStep DEF Keeps
  <2>4. ASSUME NEW s \in Sessions, Rename(s) \/ Record(s) \/ Defer(s)
        PROVE  \A g \in Feeds : feed'[g].merged = feed[g].merged
    BY <2>4, RenameStep, RecordStep, DeferStep
  <2> QED
    BY <2>1, <2>2, <2>3, <2>4, QuietRows
<1>3. Rooted(moved', Urls)
  <2>1. ASSUME NEW u \in Urls, NEW t \in Urls, Move(u, t)
        PROVE  Rooted(moved', Urls)
    <3>1. /\ moved'[u] = t /\ moved'[t] = None
          /\ \A x \in Urls \ {u, t} : moved'[x] = moved[x]
      BY <1>1, <2>1 DEF Move
    <3> QED
      BY <1>1, <3>1, LinkKeepsRooted
  <2>2. ASSUME ~ \E u, t \in Urls : Move(u, t)
        PROVE  UNCHANGED moved
    BY <2>2 DEF Next, Fetch, vars, world, Publish, FallDue, Reset, Refresh, Schedule, Take, Skip,
      StartStale, Start, Rename, Merge, Extend, GiveUp, Ingest, IngestFails, Gather, Record, Defer,
      LoseLock
  <2> QED
    BY <1>1, <2>1, <2>2
<1> QED
  BY <1>2, <1>3 DEF Chains

(* What the sessions carry.                                                *)

(* Where every step puts its session.                                      *)
LEMMA Stations ==
  ASSUME Grounded, NEW s \in Sessions
  PROVE  /\ Take(s) => pc'[s] = "resolved"
         /\ Rename(s) => pc[s] = "following" /\ pc'[s] = "ingesting"
         /\ Merge(s) => pc[s] = "following" /\ pc'[s] = "extending"
         /\ Extend(s) => pc[s] = "extending" /\ pc'[s] = "ingesting"
         /\ (Skip(s) \/ StartStale(s) \/ GiveUp(s) \/ Record(s) \/ Defer(s) \/ LoseLock(s))
              => pc'[s] = "idle" /\ task'[s] = None
<1>1. PcOK /\ task \in [Sessions -> {None} \cup [force : BOOLEAN] \cup Fetched]
  BY DEF Grounded, LiveInv, LockInv, TypeInv
<1>2. Rest(s) => pc'[s] = "idle" /\ task'[s] = None
  BY <1>1 DEF PcOK, Rest
<1>3. (Skip(s) \/ StartStale(s) \/ GiveUp(s) \/ Record(s) \/ Defer(s) \/ LoseLock(s)) => Rest(s)
  BY DEF Skip, StartStale, GiveUp, Record, Defer, LoseLock, Ends
<1>4. /\ Take(s) => pc'[s] = "resolved"
      /\ Rename(s) => pc[s] = "following" /\ pc'[s] = "ingesting"
      /\ Merge(s) => pc[s] = "following" /\ pc'[s] = "extending"
      /\ Extend(s) => pc[s] = "extending" /\ pc'[s] = "ingesting"
  BY <1>1 DEF PcOK, Take, Rename, Merge, Extend
<1> QED
  BY <1>2, <1>3, <1>4

LEMMA TaskStep ==
  ASSUME Grounded, NEW s \in Sessions, Fetch(s)
  PROVE  TaskOK(s)' /\ task'[s] \in {None} \cup [force : BOOLEAN] \cup Fetched
<1>1. /\ clock \in Nat /\ PcOK
      /\ task \in [Sessions -> {None} \cup [force : BOOLEAN] \cup Fetched] /\ TaskOK(s)
  BY FeedsAssumption DEF Grounded, LiveInv, LockInv, TypeInv, Typed
<1>2. CASE Skip(s) \/ StartStale(s) \/ GiveUp(s) \/ Record(s) \/ Defer(s) \/ LoseLock(s)
  BY <1>2, Stations DEF TaskOK, Waiting
<1>3. CASE Take(s)
  <2>1. pc'[s] = "resolved" /\ task'[s] \in [force : BOOLEAN]
    BY <1>1, <1>3 DEF Take, PcOK, Grounded, TypeInv, Typed, Job
  <2> QED
    BY <2>1 DEF TaskOK, Waiting
<1>4. CASE Start(s)
  <2> DEFINE row == Read(feed[own[s]])
  <2>1. PICK answer \in Answers(row) :
          /\ pc'[s] = Answered(answer)
          /\ task'[s] = [forced |-> Forced(s), row |-> row, start |-> clock + 1,
                         answer |-> answer, todo |-> Todo(answer), failed |-> FALSE]
    BY <1>4, StartStep
  <2>2. row \in ReadRow /\ clock' = clock + 1 /\ clock < MaxClock /\ own[s] \in Feeds
        /\ row.success <= clock
    <3>1. row \in ReadRow /\ clock' = clock + 1 /\ clock < MaxClock /\ own[s] \in Feeds
      BY <1>4, StartStep
    <3>2. row.success = feed[own[s]].success /\ feed[own[s]].success <= clock
      BY <3>1 DEF Read, Grounded, TypeInv
    <3> QED
      BY <3>1, <3>2
  <2>3. /\ answer \in Verdicts \cup Documents
        /\ answer.kind = "ok" <=> answer \in Documents
        /\ Todo(answer) \subseteq Articles
        /\ answer.permanent => answer.kind = "ok"
    BY <2>1, <2>2, AnswersTyped DEF Grounded
  <2>4. /\ answer.kind # "ok" => pc'[s] = "recording" /\ Todo(answer) = {}
        /\ answer.kind = "ok" =>
             /\ pc'[s] = IF answer.permanent THEN "following" ELSE "ingesting"
             /\ Todo(answer) = Listed(answer.url, answer.version)
    BY <2>1 DEF Answered, Todo
  <2>5. /\ task'[s].start = clock + 1 /\ task'[s].answer = answer /\ task'[s].row = row
        /\ task'[s].todo = Todo(answer)
    BY <2>1
  <2>6. Forced(s) \in BOOLEAN /\ clock + 1 \in 0 .. MaxClock
    BY <1>1, <2>2, FeedsAssumption DEF Forced
  <2>7. task'[s] \in Fetched
    <3> DEFINE start == clock + 1
               todo == Todo(answer)
    <3>1. task'[s] = [forced |-> Forced(s), row |-> row, start |-> start,
                      answer |-> answer, todo |-> todo, failed |-> FALSE]
      BY <2>1
    <3>2. start \in 0 .. MaxClock /\ todo \in SUBSET Articles /\ FALSE \in BOOLEAN
      BY <2>3, <2>6
    <3>3. row \in ReadRow /\ answer \in Verdicts \cup Documents /\ Forced(s) \in BOOLEAN
      BY <2>2, <2>3, <2>6
    <3> HIDE DEF row, start, todo
    <3> QED
      BY <3>1, <3>2, <3>3 DEF Fetched
  <2> HIDE DEF row
  <2>8. 1 <= task'[s].start /\ task'[s].start <= clock' /\ task'[s].row.success <= clock'
    <3>1. row.success \in Nat
      BY <2>2, FeedsAssumption DEF ReadRow
    <3> QED
      BY <1>1, <2>2, <2>5, <3>1
  <2>9. pc'[s] # "resolved" /\ pc'[s] \in {"following", "ingesting", "recording"}
    BY <2>4
  <2>10. /\ pc'[s] # "recording" => task'[s].answer \in Documents
         /\ pc'[s] = "following" => task'[s].answer.permanent
         /\ pc'[s] = "recording" => task'[s].todo = {}
    BY <2>3, <2>4, <2>5
  <2>11. task'[s].answer \in Documents =>
           task'[s].todo \subseteq Listed(task'[s].answer.url, task'[s].answer.version)
    BY <2>3, <2>4, <2>5
  <2> QED
    BY <2>7, <2>8, <2>9, <2>10, <2>11 DEF TaskOK, Waiting
<1>5. CASE Rename(s) \/ Merge(s) \/ Extend(s)
  <2>1. /\ pc[s] \in {"following", "extending"} /\ pc'[s] \in {"extending", "ingesting"}
        /\ task' = task /\ clock' = clock
    BY <1>5, Stations DEF Rename, Merge, Extend
  <2> QED
    BY <1>1, <2>1 DEF TaskOK, Waiting
<1>6. CASE Ingest(s) \/ IngestFails(s)
  <2> DEFINE fetch == task[s]
  <2>1. PICK a \in fetch.todo :
          /\ task'[s] \in Fetched /\ task'[s].row = fetch.row
          /\ task'[s].start = fetch.start /\ task'[s].answer = fetch.answer
          /\ task'[s].todo = fetch.todo \ {a}
          /\ pc'[s] = IF fetch.todo # {a} THEN "ingesting"
                      ELSE IF fetch.answer.permanent THEN "gathering" ELSE "recording"
    BY <1>6, IngestStep
  <2>2. pc[s] = "ingesting" /\ clock' = clock
    BY <1>6, IngestStep
  <2> QED
    BY <1>1, <2>1, <2>2 DEF TaskOK, Waiting
<1>7. CASE Gather(s)
  <2>1. /\ pc[s] = "gathering" /\ pc'[s] = "recording" /\ clock' = clock
        /\ task'[s] \in Fetched /\ task'[s].row = Read(feed[target[s]]) /\ target[s] \in Feeds
        /\ task'[s].start = task[s].start /\ task'[s].answer = task[s].answer
        /\ task'[s].todo = task[s].todo
    BY <1>7, GatherStep
  <2>2. task'[s].row.success <= clock
    BY <2>1 DEF Read, Grounded, TypeInv
  <2> QED
    BY <1>1, <2>1, <2>2 DEF TaskOK, Waiting
<1> QED
  BY <1>2, <1>3, <1>4, <1>5, <1>6, <1>7 DEF Fetch

LEMMA TasksTyped ==
  ASSUME Grounded, [Next]_vars
  PROVE  /\ task' \in [Sessions -> {None} \cup [force : BOOLEAN] \cup Fetched]
         /\ \A s \in Sessions : TaskOK(s)'
<1>1. /\ clock \in Nat /\ clock' \in Nat /\ clock <= clock'
      /\ task \in [Sessions -> {None} \cup [force : BOOLEAN] \cup Fetched]
      /\ \A s \in Sessions : TaskOK(s)
  BY FeedsAssumption, ClockGrows DEF Grounded, TypeInv, Typed
<1>2. ASSUME NEW s \in Sessions, pc'[s] = pc[s], task'[s] = task[s]
      PROVE  TaskOK(s)'
  <2>1. pc[s] \notin Waiting => task[s].start \in Nat /\ task[s].row.success \in Nat
    BY <1>1, FeedsAssumption DEF TaskOK, Fetched, ReadRow
  <2> QED
    BY <1>1, <1>2, <2>1 DEF TaskOK
<1>3. ASSUME NEW s \in Sessions, Fetch(s)
      PROVE  /\ task' \in [Sessions -> {None} \cup [force : BOOLEAN] \cup Fetched]
             /\ \A t \in Sessions : TaskOK(t)'
  <2>1. \A t \in Sessions \ {s} : pc'[t] = pc[t] /\ task'[t] = task[t]
    BY <1>3, OthersKept
  <2>2. TaskOK(s)' /\ task'[s] \in {None} \cup [force : BOOLEAN] \cup Fetched
    BY <1>3, TaskStep
  <2>3. \E x : task' = [task EXCEPT ![s] = x]
    <3>1. CASE Skip(s) \/ StartStale(s) \/ GiveUp(s) \/ Record(s) \/ Defer(s) \/ LoseLock(s)
      BY <3>1 DEF Skip, StartStale, GiveUp, Record, Defer, LoseLock, Ends, Rest
    <3>2. CASE Take(s) \/ Start(s) \/ Rename(s) \/ Merge(s) \/ Extend(s)
      <4>1. task = [task EXCEPT ![s] = task[s]]
        BY <1>1
      <4> QED
        BY <3>2, <4>1 DEF Take, Start, Rename, Merge, Extend
    <3>3. CASE Gather(s) \/ Ingest(s) \/ IngestFails(s)
      BY <1>1, <3>3 DEF Gather, Ingest, IngestFails, Passes
    <3> QED
      BY <1>3, <3>1, <3>2, <3>3 DEF Fetch
  <2>4. task' \in [Sessions -> {None} \cup [force : BOOLEAN] \cup Fetched]
    <3>1. PICK x : task' = [task EXCEPT ![s] = x]
      BY <2>3
    <3>2. task'[s] = x
      BY <1>1, <3>1
    <3> QED
      BY <1>1, <2>2, <3>1, <3>2
  <2> QED
    BY <1>2, <2>1, <2>2, <2>4
<1>4. CASE ~ \E s \in Sessions : Fetch(s)
  <2>1. UNCHANGED <<pc, task>>
    BY <1>4 DEF Next, vars, workers, Publish, Move, FallDue, Reset, Refresh, Schedule
  <2> QED
    BY <1>1, <1>2, <2>1
<1> QED
  BY <1>3, <1>4

(* The rest of the state.                                                  *)

LEMMA WorldTyped ==
  ASSUME Grounded, [Next]_vars
  PROVE  /\ version' \in [Urls -> 1 .. MaxVersion] /\ moved' \in [Urls -> Urls \cup {None}]
         /\ events' \in 0 .. MaxEvents
<1>1. /\ version \in [Urls -> 1 .. MaxVersion] /\ moved \in [Urls -> Urls \cup {None}]
      /\ events \in 0 .. MaxEvents /\ MaxVersion \in Nat /\ MaxEvents \in Nat
  BY FeedsAssumption DEF Grounded, TypeInv, Typed
<1>2. UNCHANGED events \/ Spend
  <2>1. ASSUME NEW s \in Sessions, Fetch(s)
        PROVE  UNCHANGED events \/ Spend
    BY <2>1 DEF Fetch, Take, Skip, StartStale, Start, Rename, Merge, Extend, GiveUp, Ingest,
      IngestFails, Gather, Record, Defer, LoseLock
  <2>2. CASE ~ \E s \in Sessions : Fetch(s)
    BY <2>2 DEF Next, vars, Publish, Move, FallDue, Reset, Refresh, Schedule
  <2> QED
    BY <2>1, <2>2
<1>3. UNCHANGED moved \/ \E u, t \in Urls : Move(u, t)
  BY DEF Next, Fetch, vars, world, Publish, FallDue, Reset, Refresh, Schedule, Take, Skip,
    StartStale, Start, Rename, Merge, Extend, GiveUp, Ingest, IngestFails, Gather, Record, Defer,
    LoseLock
<1>4. UNCHANGED version \/ \E u \in Urls : Publish(u)
  BY DEF Next, Fetch, vars, world, Move, FallDue, Reset, Refresh, Schedule, Take, Skip,
    StartStale, Start, Rename, Merge, Extend, GiveUp, Ingest, IngestFails, Gather, Record, Defer,
    LoseLock
<1>5. version' \in [Urls -> 1 .. MaxVersion]
  BY <1>1, <1>4 DEF Publish
<1>6. moved' \in [Urls -> Urls \cup {None}]
  BY <1>1, <1>3 DEF Move
<1>7. events' \in 0 .. MaxEvents
  BY <1>1, <1>2 DEF Spend
<1> QED
  BY <1>5, <1>6, <1>7

LEMMA JobsTyped ==
  ASSUME Grounded, [Next]_vars
  PROVE  jobs' \subseteq Job
<1>1. jobs \subseteq Job
  BY DEF Grounded, TypeInv, Typed
<1>2. \A f \in Feeds, forced \in BOOLEAN : [feed |-> f, force |-> forced] \in Job
  BY DEF Job
<1>3. CASE Schedule
  BY <1>1, <1>2, <1>3 DEF Schedule, Scheduled
<1>4. ASSUME NEW f \in Feeds, Refresh(f)
      PROVE  jobs' \subseteq Job
  BY <1>1, <1>2, <1>4 DEF Refresh
<1>5. ASSUME NEW s \in Sessions, Take(s)
      PROVE  jobs' \subseteq Job
  BY <1>1, <1>5 DEF Take
<1>6. ASSUME NEW s \in Sessions, Defer(s)
      PROVE  jobs' \subseteq Job
  <2>1. own[s] \in Feeds
    BY <1>6, DeferStep
  <2> QED
    BY <1>1, <1>2, <1>6, <2>1 DEF Defer, Continuation
<1>7. CASE ~ \/ Schedule
             \/ \E f \in Feeds : Refresh(f)
             \/ \E s \in Sessions : Take(s) \/ Defer(s)
  <2>1. UNCHANGED jobs
    BY <1>7 DEF Next, Fetch, vars, Publish, Move, FallDue, Reset, Skip, StartStale, Start, Rename,
      Merge, Extend, GiveUp, Ingest, IngestFails, Gather, Record, LoseLock
  <2> QED
    BY <1>1, <2>1
<1> QED
  BY <1>3, <1>4, <1>5, <1>6, <1>7

LEMMA HistoryTyped ==
  ASSUME Grounded, [Next]_vars
  PROVE  blurred' \subseteq Feeds /\ dropped' \subseteq Feeds
<1>1. blurred \subseteq Feeds /\ dropped \subseteq Feeds /\ PcOK
  BY DEF Grounded, LiveInv, LockInv, TypeInv, Typed
<1>2. ASSUME NEW s \in Sessions, Merge(s)
      PROVE  blurred' \subseteq Feeds /\ dropped' \subseteq Feeds
  BY <1>1, <1>2 DEF Merge
<1>3. ASSUME NEW s \in Sessions, Extend(s)
      PROVE  blurred' \subseteq Feeds /\ dropped' \subseteq Feeds
  <2>1. target[s] \in Feeds
    BY <1>3, Working DEF Extend, Waiting
  <2> QED
    BY <1>1, <1>3, <2>1 DEF Extend
<1>4. ASSUME NEW s \in Sessions, LoseLock(s)
      PROVE  blurred' \subseteq Feeds /\ dropped' \subseteq Feeds
  <2>1. pc[s] \notin Waiting => target[s] \in Feeds
    BY Working
  <2>2. own[s] \in Feeds \cup {None} /\ target[s] \in Feeds \cup {None}
    BY <1>1 DEF PcOK
  <2>3. pc[s] \in Writing => pc[s] \notin Waiting
    BY DEF Waiting, Writing
  <2> QED
    BY <1>1, <1>4, <2>1, <2>2, <2>3 DEF LoseLock
<1>5. CASE ~ \E s \in Sessions : Merge(s) \/ Extend(s) \/ LoseLock(s)
  <2>1. UNCHANGED <<blurred, dropped>>
    BY <1>5 DEF Next, Fetch, vars, history, Publish, Move, FallDue, Reset, Refresh, Schedule, Take,
      Skip, StartStale, Start, Rename, GiveUp, Ingest, IngestFails, Gather, Record, Defer
  <2> QED
    BY <1>1, <2>1
<1> QED
  BY <1>2, <1>3, <1>4, <1>5

LEMMA NextGrounded ==
  ASSUME Grounded, [Next]_vars
  PROVE  Grounded'
<1>1. LiveInv'
  BY NextStaysLive DEF Grounded
<1>2. /\ feed' \in [Feeds -> Row] /\ \A f \in Feeds : feed'[f].success <= clock'
      /\ seen' \in [Feeds -> [Articles -> 0 .. clock']]
      /\ clock' \in 0 .. MaxClock
  BY RowsTyped, SightingsTyped, ClockGrows DEF Grounded
<1>3. /\ jobs' \subseteq Job /\ blurred' \subseteq Feeds /\ dropped' \subseteq Feeds
      /\ version' \in [Urls -> 1 .. MaxVersion] /\ moved' \in [Urls -> Urls \cup {None}]
      /\ events' \in 0 .. MaxEvents
  BY JobsTyped, HistoryTyped, WorldTyped
<1>4. PcOK'
  BY <1>1 DEF LiveInv, LockInv
<1>5. Typed'
  BY <1>2, <1>3, <1>4 DEF Typed, PcOK
<1> QED
  BY <1>1, <1>2, <1>5, TasksTyped, ChainsKept DEF Grounded, TypeInv

LEMMA AlwaysGrounded == Spec => []Grounded
<1>1. Init => Grounded
  BY InitLive, InitTyped DEF Grounded
<1> QED
  BY <1>1, NextGrounded, PTL DEF Spec

(* The types: a row of `feeds` stays one that recordFeedFetch, mergeFeeds  *)
(* and deferFeedFetch can write, a sighting never lies in the future, a    *)
(* session carries what its phase of the fetch needs and holds the locks   *)
(* of the feeds it works on, whatever other sessions free, and following   *)
(* `merged_into_feed_id` ends at a feed that is not merged.                *)
THEOREM TypesKept == Spec => []TypeOK
<1>1. Grounded => TypeOK
  <2>1. SUFFICES ASSUME Grounded
                 PROVE  TypeOK
    OBVIOUS
  <2>2. Typed /\ task \in [Sessions -> {None} \cup [force : BOOLEAN] \cup Fetched]
    BY <2>1 DEF Grounded, TypeInv
  <2>3. \A s \in Sessions : TaskOK(s) /\ HoldsOwn(s) /\ HoldsTarget(s)
    BY <2>1 DEF Grounded, LiveInv, LockInv, TypeInv
  <2>4. MergesEnd
    <3>1. ASSUME NEW S \in SUBSET Feeds, S # {}
          PROVE  \E f \in S : feed[f].merged \notin S
      BY <2>1, <3>1 DEF Grounded, TypeInv, Chains, Rooted, mergedOf
    <3>2. \A f \in Feeds : feed[Live[f]].merged = None
      BY <2>1, LiveTyped DEF Grounded
    <3> QED
      BY <3>1, <3>2 DEF MergesEnd
  <2> QED
    BY <2>2, <2>3, <2>4 DEF TypeOK
<1> QED
  BY <1>1, AlwaysGrounded, PTL

-----------------------------------------------------------------------------
(* The sessions' locks keep their feeds to themselves.                     *)

(* A session that works for its own feed shares it with no other's work.   *)
LEMMA Alone ==
  ASSUME Grounded, NEW s \in Sessions, pc[s] \notin Waiting,
         NEW t \in Sessions, t # s, pc[t] \in Writing
  PROVE  own[s] # target[t]
  BY DEF Grounded, LiveInv, LockInv, HoldsOwn, HoldsTarget

(* Only a rename, by the feed's own fetch, changes what the feed polls.    *)
LEMMA PolledKept ==
  ASSUME Grounded, [Next]_vars, NEW f \in Feeds, ~ \E s \in Sessions : Rename(s) /\ own[s] = f
  PROVE  feed'[f].fetchUrl = feed[f].fetchUrl
<1>1. CASE UNCHANGED feed
  BY <1>1
<1>2. ASSUME NEW g \in Feeds, FallDue(g) \/ Reset(g)
      PROVE  feed'[f].fetchUrl = feed[f].fetchUrl
  BY <1>2, ReviveStep DEF Keeps, SameSource
<1>3. ASSUME NEW s \in Sessions, Rename(s)
      PROVE  feed'[f].fetchUrl = feed[f].fetchUrl
  <2>1. f \in Feeds \ {own[s]}
    BY <1>3
  <2> QED
    BY <1>3, <2>1, RenameStep
<1>4. ASSUME NEW s \in Sessions, Merge(s)
      PROVE  feed'[f].fetchUrl = feed[f].fetchUrl
  BY <1>4, MergeStep
<1>5. ASSUME NEW s \in Sessions, Record(s)
      PROVE  feed'[f].fetchUrl = feed[f].fetchUrl
  BY <1>5, RecordStep
<1>6. ASSUME NEW s \in Sessions, Defer(s)
      PROVE  feed'[f].fetchUrl = feed[f].fetchUrl
  BY <1>6, DeferStep DEF SameSource
<1> QED
  BY <1>1, <1>2, <1>3, <1>4, <1>5, <1>6, QuietRows

(* A feed's articles stay with it until it is merged away.                 *)
LEMMA CarriedGrows ==
  ASSUME Grounded, [Next]_vars, NEW f \in Feeds, ~ \E s \in Sessions : Merge(s) /\ own[s] = f
  PROVE  Carried(f) \subseteq Carried(f)'
<1>1. /\ seen \in [Feeds -> [Articles -> 0 .. clock]] /\ clock \in Nat
      /\ \A g \in Feeds, a \in Articles : seen[g][a] \in Nat
  BY FeedsAssumption DEF Grounded, TypeInv, Typed
<1>2. SUFFICES ASSUME NEW a \in Articles, seen[f][a] > 0
               PROVE  seen'[f][a] > 0
  BY DEF Carried
<1>3. ASSUME NEW s \in Sessions, Merge(s)
      PROVE  seen'[f][a] > 0
  <2>1. PICK g \in Feeds \ {own[s]} : seen' = Moved(own[s], g)
    BY <1>3, MergeStep
  <2>2. own[s] \in Feeds /\ f # own[s]
    BY <1>3, MergeStep
  <2>3. CASE f = g
    <3>1. seen'[g][a] = IF seen[own[s]][a] > seen[g][a] THEN seen[own[s]][a] ELSE seen[g][a]
      BY <2>1, <2>2, MergeSightings
    <3>2. seen[own[s]][a] \in Nat /\ seen[g][a] \in Nat
      BY <1>1, <2>2
    <3> QED
      BY <1>2, <2>3, <3>1, <3>2
  <2>4. CASE f # g
    <3>1. seen'[f] = seen[f]
      BY <2>1, <2>2, <2>4, MergeSightings
    <3> QED
      BY <1>2, <3>1
  <2> QED
    BY <2>3, <2>4
<1>4. ASSUME NEW s \in Sessions, Ingest(s) \/ IngestFails(s)
      PROVE  seen'[f][a] > 0
  <2>1. PICK b \in task[s].todo, failed \in BOOLEAN :
          seen' = IF failed THEN seen ELSE [seen EXCEPT ![target[s]][b] = clock]
    BY <1>4, IngestStep
  <2>2. clock > 0 /\ target[s] \in Feeds
    BY <1>1, <1>4, IngestStep, Working DEF Waiting
  <2> QED
    BY <1>1, <1>2, <2>1, <2>2
<1>5. ASSUME NEW s \in Sessions, Record(s)
      PROVE  seen'[f][a] > 0
  <2>1. clock > 0 /\ target[s] \in Feeds
    BY <1>1, <1>5, Working DEF Record, Waiting
  <2>2. CASE f = target[s]
    <3>1. seen'[target[s]][a] = IF a \in StillListed(s) THEN clock ELSE seen[target[s]][a]
      BY <1>5, RecordSightings
    <3> QED
      BY <1>2, <2>1, <2>2, <3>1
  <2>3. CASE f # target[s]
    <3>1. seen'[f] = seen[f]
      BY <1>5, <2>3, RecordSightings
    <3> QED
      BY <1>2, <3>1
  <2> QED
    BY <2>2, <2>3
<1>6. CASE UNCHANGED seen
  BY <1>2, <1>6
<1> QED
  BY <1>3, <1>4, <1>5, <1>6, QuietSightings

-----------------------------------------------------------------------------
(* Validators and the items they vouch for.                                *)

Sent(s) == task[s].answer.kind = "ok"

Document(s) == Listed(task[s].answer.url, task[s].answer.version)

(* What a session has ingested of its document is its target's, and so are *)
(* the articles behind the validator it found.                             *)
Backed(s) == pc[s] \notin Waiting =>
  /\ pc[s] \in {"following", "extending"} => Document(s) \subseteq task[s].todo
  /\ Sent(s) /\ ~task[s].failed /\ pc[s] \in {"ingesting", "gathering", "recording"} =>
       Document(s) \ task[s].todo \subseteq Carried(target[s])
  /\ ~Sent(s) /\ task[s].row.etag # None =>
       Listed(task[s].row.fetchUrl, task[s].row.etag) \subseteq Carried(target[s])

(* The row it read is the target's, as far as the URL it polls.            *)
Current(s) ==
  pc[s] = "recording" \/ (pc[s] = "ingesting" /\ ~task[s].answer.permanent)
    => feed[target[s]].fetchUrl = task[s].row.fetchUrl

Vouched(f) ==
  feed[f].etag # None => Listed(feed[f].fetchUrl, feed[f].etag) \subseteq Carried(f)

HonestInv ==
  /\ Grounded
  /\ \A f \in Feeds : Vouched(f)
  /\ \A s \in Sessions : Backed(s) /\ Current(s)

LEMMA SentTyped ==
  ASSUME Grounded, NEW s \in Sessions, pc[s] \notin Waiting
  PROVE  /\ Sent(s) <=> task[s].answer \in Documents
         /\ ~Sent(s) => pc[s] = "recording"
<1>1. task[s].answer \in Verdicts \cup Documents /\ TaskOK(s)
  BY Working DEF Grounded, TypeInv, Fetched
<1> QED
  BY <1>1 DEF TaskOK, Sent, Verdicts, Documents

LEMMA InitHonest == Init => HonestInv
<1> SUFFICES ASSUME Init
             PROVE  HonestInv
  OBVIOUS
<1>1. Grounded
  BY InitLive, InitTyped DEF Grounded
<1>2. ASSUME NEW f \in Feeds
      PROVE  Vouched(f)
  <2>1. PICK at \in [Feeds -> 1 .. Cardinality(Feeds)] :
          /\ feed = [g \in Feeds |-> Established(g, at[g])]
          /\ seen = [g \in Feeds |-> [a \in Articles |-> IF a = <<Home[g], 1>> THEN at[g] ELSE 0]]
    BY DEF Init
  <2>2. feed[f].fetchUrl = Home[f] /\ feed[f].etag = 1
    BY <2>1 DEF Established
  <2>3. at[f] > 0 /\ Home[f] \in Urls /\ MaxVersion \in Nat \ {0}
    BY FeedsAssumption, FS_CardinalityType
  <2>4. Listed(Home[f], 1) = {<<Home[f], 1>>} /\ <<Home[f], 1>> \in Articles
    BY <2>3 DEF Listed, Articles
  <2>5. seen[f][<<Home[f], 1>>] = at[f]
    BY <2>1, <2>4
  <2> QED
    BY <2>2, <2>3, <2>4, <2>5 DEF Vouched, Carried
<1>3. ASSUME NEW s \in Sessions
      PROVE  Backed(s) /\ Current(s)
  BY DEF Init, Backed, Current, Waiting
<1> QED
  BY <1>1, <1>2, <1>3 DEF HonestInv

LEMMA BackedKept ==
  ASSUME HonestInv, [Next]_vars, NEW t \in Sessions,
         pc'[t] = pc[t], target'[t] = target[t], task'[t] = task[t]
  PROVE  Backed(t)' /\ Current(t)'
<1>1. Backed(t) /\ Current(t) /\ Grounded
  BY DEF HonestInv
<1>2. CASE pc[t] \notin Writing
  <2>1. pc[t] \notin Waiting => Sent(t)
    BY <1>1, <1>2, SentTyped DEF Writing
  <2> QED
    BY <1>1, <1>2, <2>1 DEF Backed, Current, Sent, Document, Writing
<1>3. CASE pc[t] \in Writing
  <2>1. target[t] \in Feeds
    BY <1>1, <1>3, Working DEF Waiting, Writing
  <2>2. ~ \E s \in Sessions : (Merge(s) \/ Rename(s)) /\ own[s] = target[t]
    <3>1. ASSUME NEW s \in Sessions, Merge(s) \/ Rename(s), own[s] = target[t]
          PROVE  FALSE
      <4>1. pc[s] = "following" /\ pc'[s] # "following"
        BY <1>1, <3>1, Stations
      <4>2. s # t
        BY <4>1
      <4> QED
        BY <1>1, <1>3, <3>1, <4>1, <4>2, Alone DEF Waiting
    <3> QED
      BY <3>1
  <2>3. Carried(target[t]) \subseteq Carried(target[t])'
    BY <1>1, <2>1, <2>2, CarriedGrows
  <2>4. feed'[target[t]].fetchUrl = feed[target[t]].fetchUrl
    BY <1>1, <2>1, <2>2, PolledKept
  <2>5. Backed(t)'
    BY <1>1, <2>3 DEF Backed, Sent, Document, Carried
  <2>6. Current(t)'
    BY <1>1, <2>4 DEF Current
  <2> QED
    BY <2>5, <2>6
<1> QED
  BY <1>2, <1>3

LEMMA BackedStep ==
  ASSUME HonestInv, [Next]_vars, NEW s \in Sessions, Fetch(s)
  PROVE  Backed(s)' /\ Current(s)'
<1>1. Backed(s) /\ Current(s) /\ Grounded /\ Grounded'
  BY NextGrounded DEF HonestInv
<1>2. CASE Take(s) \/ Skip(s) \/ StartStale(s) \/ GiveUp(s) \/ Record(s) \/ Defer(s) \/ LoseLock(s)
  <2>1. pc'[s] \in Waiting
    BY <1>1, <1>2, Stations DEF Waiting
  <2> QED
    BY <2>1 DEF Backed, Current, Waiting
<1>3. CASE Start(s)
  <2> DEFINE f == own[s]
             row == Read(feed[f])
  <2>1. PICK answer \in Answers(row) :
          /\ pc'[s] = Answered(answer)
          /\ task'[s] = [forced |-> Forced(s), row |-> row, start |-> clock + 1,
                         answer |-> answer, todo |-> Todo(answer), failed |-> FALSE]
    BY <1>1, <1>3, StartStep
  <2>2. f \in Feeds /\ row \in ReadRow /\ target'[s] = f /\ UNCHANGED <<feed, seen>>
    BY <1>1, <1>3, StartStep
  <2>3. row.fetchUrl = feed[f].fetchUrl /\ row.etag = feed[f].etag
    BY DEF Read
  <2>4. /\ task'[s].answer = answer /\ task'[s].row = row
        /\ answer.kind = "ok" => task'[s].todo = Listed(answer.url, answer.version)
    BY <2>1 DEF Todo
  <2>5. Vouched(f)
    BY <2>2 DEF HonestInv
  <2>6. pc'[s] \in {"following", "extending"} => answer.kind = "ok"
    BY <2>1 DEF Answered
  <2> HIDE DEF f, row
  <2>7. Backed(s)'
    BY <2>2, <2>3, <2>4, <2>5, <2>6 DEF Backed, Sent, Document, Carried, Vouched
  <2>8. Current(s)'
    BY <2>2, <2>3, <2>4 DEF Current
  <2> QED
    BY <2>7, <2>8
<1>4. CASE Rename(s) \/ Merge(s) \/ Extend(s)
  <2>1. /\ pc[s] \in {"following", "extending"} /\ pc'[s] \in {"extending", "ingesting"}
        /\ task' = task
    BY <1>1, <1>4, Stations DEF Rename, Merge, Extend
  <2>2. Document(s) \subseteq task[s].todo /\ task[s].answer.permanent /\ Sent(s)
    BY <1>1, <2>1, SentTyped DEF Backed, Waiting, Grounded, TypeInv, TaskOK
  <2> QED
    BY <2>1, <2>2 DEF Backed, Current, Sent, Document
<1>5. CASE Ingest(s) \/ IngestFails(s)
  <2> DEFINE fetch == task[s]
             g == target[s]
  <2>1. PICK a \in fetch.todo, failed \in BOOLEAN :
          /\ seen' = IF failed THEN seen ELSE [seen EXCEPT ![g][a] = clock]
          /\ task'[s].row = fetch.row /\ task'[s].answer = fetch.answer
          /\ task'[s].todo = fetch.todo \ {a} /\ task'[s].failed = (fetch.failed \/ failed)
          /\ pc'[s] = IF fetch.todo # {a} THEN "ingesting"
                      ELSE IF fetch.answer.permanent THEN "gathering" ELSE "recording"
    BY <1>1, <1>5, IngestStep
  <2>2. /\ pc[s] = "ingesting" /\ UNCHANGED <<feed, target>> /\ g \in Feeds
        /\ fetch.answer \in Documents /\ fetch \in Fetched
    BY <1>1, <1>5, IngestStep
  <2>3. ~ \E u \in Sessions : Merge(u) /\ own[u] = g
    <3>1. ASSUME NEW u \in Sessions, Merge(u), own[u] = g
          PROVE  FALSE
      <4>1. pc[u] = "following"
        BY <1>1, <3>1, Stations
      <4> QED
        BY <1>1, <2>2, <3>1, <4>1, Alone DEF Waiting, Writing
    <3> QED
      BY <3>1
  <2>4. Carried(g) \subseteq Carried(g)'
    BY <1>1, <2>2, <2>3, CarriedGrows
  <2>5. ~failed => a \in Carried(g)'
    <3>1. clock > 0 /\ a \in Articles
      <4>1. clock \in Nat
        BY <1>1, FeedsAssumption DEF Grounded, TypeInv, Typed
      <4>2. task[s].start \in 1 .. clock
        BY <1>1, <2>2, Working DEF Waiting
      <4>3. fetch.todo \in SUBSET Articles
        BY <2>2 DEF Fetched
      <4> QED
        BY <2>1, <4>1, <4>2, <4>3
    <3>2. ~failed => seen'[g][a] = clock
      BY <1>1, <2>1, <2>2, <3>1 DEF Grounded, TypeInv, Typed
    <3> QED
      BY <2>2, <3>1, <3>2 DEF Carried
  <2>6. Sent(s) /\ Sent(s)' /\ Document(s)' = Document(s)
    BY <2>1, <2>2 DEF Sent, Document, Documents
  <2>7. ~fetch.failed => Document(s) \ fetch.todo \subseteq Carried(g)
    BY <1>1, <2>2, <2>6 DEF Backed, Waiting
  <2>8. ~task'[s].failed => Document(s) \ task'[s].todo \subseteq Carried(g)'
    BY <2>1, <2>4, <2>5, <2>7
  <2>9. Backed(s)'
    <3>1. Carried(g)' = Carried(target[s])'
      BY <2>2 DEF Carried
    <3>2. pc'[s] \notin {"following", "extending"}
      BY <2>1
    <3> QED
      BY <2>6, <2>8, <3>1, <3>2 DEF Backed
  <2>10. Current(s)'
    BY <1>1, <2>1, <2>2 DEF Current
  <2> QED
    BY <2>9, <2>10
<1>6. CASE Gather(s)
  <2>1. /\ pc[s] = "gathering" /\ pc'[s] = "recording" /\ UNCHANGED <<feed, seen, target>>
        /\ task'[s].row = Read(feed[target[s]])
        /\ task'[s].answer = task[s].answer /\ task'[s].todo = task[s].todo
        /\ task'[s].failed = task[s].failed
    BY <1>1, <1>6, GatherStep
  <2>2. Sent(s)
    BY <1>1, <2>1, SentTyped DEF Waiting
  <2>3. Backed(s)'
    BY <1>1, <2>1, <2>2 DEF Backed, Sent, Document, Carried, Waiting
  <2>4. Current(s)'
    BY <2>1 DEF Current, Read
  <2> QED
    BY <2>3, <2>4
<1> QED
  BY <1>2, <1>3, <1>4, <1>5, <1>6 DEF Fetch

(* A stored validator: written only by a session whose whole document was  *)
(* ingested, or read back; a rename or a merge clears it.                  *)
LEMMA VouchedKept ==
  ASSUME HonestInv, [Next]_vars, NEW f \in Feeds
  PROVE  Vouched(f)'
<1>1. Grounded /\ Vouched(f) /\ feed[f] \in Row
  BY DEF HonestInv, Grounded, TypeInv, Typed
<1>2. ASSUME NEW s \in Sessions, Merge(s), own[s] = f
      PROVE  Vouched(f)'
  <2>1. feed'[f].etag = None
    BY <1>1, <1>2, MergeStep
  <2> QED
    BY <2>1 DEF Vouched
<1>3. CASE ~ \E s \in Sessions : Merge(s) /\ own[s] = f
  <2>1. Carried(f) \subseteq Carried(f)'
    BY <1>1, <1>3, CarriedGrows
  <2>2. SUFFICES \/ feed'[f].etag = None
                 \/ feed'[f].etag = feed[f].etag /\ feed'[f].fetchUrl = feed[f].fetchUrl
                 \/ Listed(feed'[f].fetchUrl, feed'[f].etag) \subseteq Carried(f)
    BY <1>1, <2>1 DEF Vouched
  <2>3. CASE UNCHANGED feed
    BY <2>3
  <2>4. ASSUME NEW g \in Feeds, FallDue(g) \/ Reset(g)
        PROVE  feed'[f].etag = feed[f].etag /\ feed'[f].fetchUrl = feed[f].fetchUrl
    BY <1>1, <2>4, ReviveStep DEF Keeps, SameSource
  <2>5. ASSUME NEW s \in Sessions, Rename(s)
        PROVE  \/ feed'[f].etag = None
               \/ feed'[f].etag = feed[f].etag /\ feed'[f].fetchUrl = feed[f].fetchUrl
    <3>1. CASE f = own[s]
      BY <1>1, <2>5, <3>1, RenameStep
    <3>2. CASE f # own[s]
      <4>1. feed'[f] = feed[f]
        BY <1>1, <2>5, <3>2, RenameStep
      <4> QED
        BY <4>1
    <3> QED
      BY <3>1, <3>2
  <2>6. ASSUME NEW s \in Sessions, Merge(s)
        PROVE  feed'[f].etag = None \/ feed'[f] = feed[f]
    BY <1>1, <2>6, MergeStep
  <2>7. ASSUME NEW s \in Sessions, Defer(s)
        PROVE  feed'[f].etag = feed[f].etag /\ feed'[f].fetchUrl = feed[f].fetchUrl
    BY <1>1, <2>7, DeferStep DEF SameSource
  <2>8. ASSUME NEW s \in Sessions, Record(s)
        PROVE  \/ feed'[f].etag = None
               \/ feed'[f].etag = feed[f].etag /\ feed'[f].fetchUrl = feed[f].fetchUrl
               \/ Listed(feed'[f].fetchUrl, feed'[f].etag) \subseteq Carried(f)
    <3> DEFINE fetch == task[s]
    <3>1. pc[s] = "recording"
      BY <2>8 DEF Record
    <3>2. CASE f # target[s]
      <4>1. feed'[f] = feed[f]
        BY <1>1, <2>8, <3>2, RecordStep
      <4> QED
        BY <4>1
    <3>3. CASE f = target[s]
      <4>1. /\ feed'[f].fetchUrl = feed[f].fetchUrl
            /\ feed'[f].etag = IF feed[f].merged # None THEN None
                               ELSE IF ~Sent(s) THEN fetch.row.etag
                               ELSE IF KeepsValidators(fetch) THEN fetch.answer.version ELSE None
        BY <1>1, <2>8, <3>3, RecordStep DEF Sent
      <4>2. feed[f].fetchUrl = fetch.row.fetchUrl
        BY <3>1, <3>3 DEF HonestInv, Current
      <4>3. fetch.todo = {}
        BY <1>1, <3>1 DEF Grounded, TypeInv, TaskOK, Waiting
      <4>4. Sent(s) /\ KeepsValidators(fetch) =>
              /\ Listed(fetch.answer.url, fetch.answer.version) \subseteq Carried(f)
              /\ fetch.answer.url = fetch.row.fetchUrl
        BY <3>1, <3>3, <4>3 DEF HonestInv, Backed, Document, KeepsValidators, Waiting
      <4>5. ~Sent(s) /\ fetch.row.etag # None =>
              Listed(fetch.row.fetchUrl, fetch.row.etag) \subseteq Carried(f)
        BY <3>1, <3>3 DEF HonestInv, Backed, Waiting
      <4> QED
        BY <4>1, <4>2, <4>4, <4>5
    <3> QED
      BY <3>2, <3>3
  <2> QED
    BY <2>3, <2>4, <2>5, <2>6, <2>7, <2>8, QuietRows
<1> QED
  BY <1>2, <1>3

LEMMA NextHonest ==
  ASSUME HonestInv, [Next]_vars
  PROVE  HonestInv'
<1>1. Grounded'
  BY NextGrounded DEF HonestInv
<1>2. \A f \in Feeds : Vouched(f)'
  BY VouchedKept
<1>3. ASSUME NEW t \in Sessions
      PROVE  Backed(t)' /\ Current(t)'
  <2>1. ASSUME NEW s \in Sessions, Fetch(s)
        PROVE  Backed(t)' /\ Current(t)'
    <3>1. CASE t = s
      BY <2>1, <3>1, BackedStep
    <3>2. CASE t # s
      BY <2>1, <3>2, OthersKept, BackedKept DEF HonestInv
    <3> QED
      BY <3>1, <3>2
  <2>2. CASE ~ \E s \in Sessions : Fetch(s)
    <3>1. UNCHANGED <<pc, target, task>>
      BY <2>2 DEF Next, vars, workers, Publish, Move, FallDue, Reset, Refresh, Schedule
    <3> QED
      BY <3>1, BackedKept
  <2> QED
    BY <2>1, <2>2
<1> QED
  BY <1>1, <1>2, <1>3 DEF HonestInv

LEMMA AlwaysHonest == Spec => []HonestInv
  BY InitHonest, NextHonest, PTL DEF Spec

(* Whenever a feed's next request could be answered 304, the feed carries  *)
(* every article of the version its validator names: the handler stores    *)
(* validators only after the last item, renameFeed and mergeFeeds clear    *)
(* them.  For any feeds, URLs, redirects, failed items, merges and lost    *)
(* locks.                                                                  *)
THEOREM ValidatorsStayHonest == Spec => []ValidatorsHonest
<1>1. HonestInv => ValidatorsHonest
  BY DEF HonestInv, Vouched, ValidatorsHonest
<1> QED
  BY <1>1, AlwaysHonest, PTL

-----------------------------------------------------------------------------
(* What a 304 may stamp.                                                   *)

SeenFrom(f, n) == {a \in Articles : seen[f][a] >= n}

(* A fetch that writes sightings of its document to f.                     *)
Ingests(s, f) == pc[s] \in {"ingesting", "gathering", "recording"} /\ Sent(s) /\ target[s] = f

(* Between fetches, what was seen since a feed's last success is listed by *)
(* the version its validator names.                                        *)
Accounted(f) ==
  f \notin blurred /\ feed[f].etag # None /\ (\A s \in Sessions : ~Ingests(s, f))
    => SeenFrom(f, feed[f].success) \subseteq Listed(feed[f].fetchUrl, feed[f].etag)

(* During one, what was seen since its start is of its document; one that  *)
(* got no document finds the row as it read it.                            *)
Exact(s) ==
  pc[s] \in Writing /\ target[s] \notin blurred =>
    IF Sent(s) THEN SeenFrom(target[s], task[s].start) \subseteq Document(s)
    ELSE /\ feed[target[s]].etag = task[s].row.etag
         /\ feed[target[s]].success = task[s].row.success
         /\ task[s].row.success <= task[s].start
         /\ task[s].answer.kind = "not_modified" => task[s].row.etag # None

StampInv ==
  /\ HonestInv
  /\ \A f \in Feeds : Accounted(f)
  /\ \A s \in Sessions : Exact(s)

(* A step that touches neither what f's next 304 depends on nor a fetch    *)
(* that writes to f.                                                       *)
LEMMA UntouchedAccounted ==
  ASSUME NEW f \in Feeds, Accounted(f), blurred \subseteq blurred',
         feed'[f].etag = None \/
           (/\ feed'[f].etag = feed[f].etag /\ feed'[f].fetchUrl = feed[f].fetchUrl
            /\ feed'[f].success = feed[f].success /\ seen'[f] = seen[f]),
         f \in blurred' \/ \A s \in Sessions : Ingests(s, f) => Ingests(s, f)'
  PROVE  Accounted(f)'
<1> SUFFICES ASSUME f \notin blurred', feed'[f].etag # None, \A s \in Sessions : ~Ingests(s, f)'
             PROVE  SeenFrom(f, feed[f].success)' \subseteq Listed(feed[f].fetchUrl, feed[f].etag)'
  BY DEF Accounted
<1>1. /\ feed'[f].etag = feed[f].etag /\ feed'[f].fetchUrl = feed[f].fetchUrl
      /\ feed'[f].success = feed[f].success /\ seen'[f] = seen[f]
  OBVIOUS
<1>2. SeenFrom(f, feed[f].success) \subseteq Listed(feed[f].fetchUrl, feed[f].etag)
  BY <1>1 DEF Accounted
<1> QED
  BY <1>1, <1>2 DEF SeenFrom

LEMMA BlurGrows ==
  ASSUME [Next]_vars
  PROVE  blurred \subseteq blurred'
<1>1. ASSUME NEW s \in Sessions, Merge(s) \/ Extend(s) \/ LoseLock(s)
      PROVE  blurred \subseteq blurred'
  BY <1>1 DEF Merge, Extend, LoseLock
<1>2. CASE ~ \E s \in Sessions : Merge(s) \/ Extend(s) \/ LoseLock(s)
  BY <1>2 DEF Next, Fetch, vars, history, Publish, Move, FallDue, Reset, Refresh, Schedule, Take,
    Skip, StartStale, Start, Rename, GiveUp, Ingest, IngestFails, Gather, Record, Defer
<1> QED
  BY <1>1, <1>2

(* A session of which the step is not goes on ingesting; so does the one   *)
(* that ingests or gathers.                                                *)
LEMMA IngestsOn ==
  ASSUME StampInv, NEW s \in Sessions, Fetch(s), NEW f \in Feeds, NEW t \in Sessions,
         Ingests(t, f), ~Ingests(t, f)'
  PROVE  t = s /\ (Record(s) \/ LoseLock(s)) /\ target[s] = f /\ Sent(s)
<1>1. Grounded
  BY DEF StampInv, HonestInv
<1>2. t = s
  <2>1. CASE t # s
    BY <1>1, <2>1, OthersKept DEF Ingests, Sent
  <2> QED
    BY <2>1
<1>3. pc[s] \in {"ingesting", "gathering", "recording"} /\ Sent(s) /\ target[s] = f
  BY <1>2 DEF Ingests
<1>4. ~(Ingest(s) \/ IngestFails(s) \/ Gather(s))
  <2>1. ASSUME Ingest(s) \/ IngestFails(s)
        PROVE  Ingests(s, f)'
    <3>1. /\ task'[s].answer = task[s].answer /\ target' = target
          /\ pc'[s] \in {"ingesting", "gathering", "recording"}
      BY <1>1, <2>1, IngestStep
    <3> QED
      BY <1>3, <3>1 DEF Ingests, Sent
  <2>2. ASSUME Gather(s)
        PROVE  Ingests(s, f)'
    <3>1. task'[s].answer = task[s].answer /\ target' = target /\ pc'[s] = "recording"
      BY <1>1, <2>2, GatherStep
    <3> QED
      BY <1>3, <3>1 DEF Ingests, Sent
  <2> QED
    BY <1>2, <2>1, <2>2
<1>5. ~(Take(s) \/ Skip(s) \/ StartStale(s) \/ Start(s) \/ Rename(s) \/ Merge(s) \/ Extend(s)
        \/ GiveUp(s))
  BY <1>3 DEF Take, Skip, StartStale, Start, Rename, Merge, Extend, GiveUp
<1>6. ~Defer(s)
  BY <1>3 DEF Defer, Sent
<1> QED
  BY <1>2, <1>3, <1>4, <1>5, <1>6 DEF Fetch

(* A recorded outcome accounts for every sighting since its fetch started. *)
LEMMA RecordAccounts ==
  ASSUME StampInv, NEW s \in Sessions, Record(s),
         NEW f \in Feeds, f = target[s], f \notin blurred
  PROVE  Accounted(f)'
<1> DEFINE fetch == task[s]
<1>1. /\ Grounded /\ pc[s] = "recording" /\ fetch \in Fetched /\ Exact(s) /\ Current(s)
      /\ Accounted(f) /\ UNCHANGED <<clock, blurred>>
  <2>1. Grounded /\ pc[s] = "recording" /\ UNCHANGED <<clock, blurred>>
    BY DEF StampInv, HonestInv, Record, history
  <2>2. fetch \in Fetched
    BY <2>1, Working DEF Waiting
  <2> QED
    BY <2>1, <2>2 DEF StampInv, HonestInv
<1>2. /\ feed'[f].fetchUrl = fetch.row.fetchUrl
      /\ feed'[f].success = IF fetch.answer.kind \in {"ok", "not_modified"} THEN fetch.start
                            ELSE fetch.row.success
      /\ feed'[f].etag = IF feed[f].merged # None THEN None
                         ELSE IF ~Sent(s) THEN fetch.row.etag
                         ELSE IF KeepsValidators(fetch) THEN fetch.answer.version ELSE None
  BY <1>1, RecordStep DEF Current, Sent
<1>3. \A a \in Articles : seen'[f][a] = IF a \in StillListed(s) THEN clock ELSE seen[f][a]
  BY RecordSightings, <1>1
<1>4. /\ fetch.start \in Nat /\ fetch.row.success \in Nat
      /\ \A a \in Articles : seen[f][a] \in Nat
  BY <1>1, FeedsAssumption DEF Grounded, TypeInv, Typed, Fetched, ReadRow
<1> DEFINE from == feed'[f].success
           url == feed'[f].fetchUrl
           etag == feed'[f].etag
<1>5. SUFFICES ASSUME etag # None, NEW a \in Articles, seen'[f][a] >= from
               PROVE  a \in Listed(url, etag)
  BY DEF Accounted, SeenFrom
<1>6. CASE Sent(s)
  <2>1. /\ etag = fetch.answer.version /\ url = fetch.answer.url
        /\ from = fetch.start /\ seen'[f][a] = seen[f][a]
    BY <1>2, <1>3, <1>5, <1>6 DEF KeepsValidators, Sent, StillListed
  <2>2. a \in SeenFrom(f, fetch.start)
    BY <1>5, <2>1 DEF SeenFrom
  <2>3. SeenFrom(f, fetch.start) \subseteq Document(s)
    BY <1>1, <1>6 DEF Exact, Writing
  <2> QED
    BY <2>1, <2>2, <2>3 DEF Document
<1>7. CASE ~Sent(s)
  <2>1. etag = fetch.row.etag /\ fetch.row.etag # None
    BY <1>2, <1>5, <1>7
  <2>2. /\ feed[f].etag = fetch.row.etag /\ feed[f].success = fetch.row.success
        /\ fetch.row.success <= fetch.start /\ feed[f].fetchUrl = fetch.row.fetchUrl
    BY <1>1, <1>7 DEF Exact, Current, Writing
  <2>3. \A t \in Sessions : ~Ingests(t, f)
    <3>1. ASSUME NEW t \in Sessions, Ingests(t, f)
          PROVE  FALSE
      <4>1. t # s
        BY <1>7, <3>1 DEF Ingests
      <4>2. lock[f] = t /\ lock[f] = s
        BY <1>1, <3>1 DEF Ingests, Grounded, LiveInv, LockInv, HoldsTarget, Writing
      <4> QED
        BY <4>1, <4>2
    <3> QED
      BY <3>1
  <2>4. SeenFrom(f, fetch.row.success) \subseteq Listed(fetch.row.fetchUrl, fetch.row.etag)
    BY <1>1, <2>1, <2>2, <2>3 DEF Accounted
  <2>5. seen[f][a] >= fetch.row.success
    <3>1. CASE a \in StillListed(s)
      BY <3>1 DEF StillListed
    <3>2. CASE a \notin StillListed(s)
      <4>1. seen[f][a] >= from /\ from \in {fetch.start, fetch.row.success}
        BY <1>2, <1>3, <1>5, <3>2
      <4>2. seen[f][a] \in Nat
        BY <1>4
      <4> HIDE DEF fetch, from
      <4> QED
        BY <1>4, <2>2, <4>1, <4>2
    <3> QED
      BY <3>1, <3>2
  <2>6. a \in SeenFrom(f, fetch.row.success)
    BY <2>5 DEF SeenFrom
  <2> QED
    BY <1>2, <2>1, <2>4, <2>6
<1> QED
  BY <1>6, <1>7

(* The sightings of a feed change only through a merge, or a fetch of it.  *)
LEMMA SightingsKept ==
  ASSUME Grounded, [Next]_vars, NEW f \in Feeds,
         ~ \E s \in Sessions :
             \/ Merge(s) /\ (own[s] = f \/ target'[s] = f)
             \/ (Ingest(s) \/ IngestFails(s) \/ Record(s)) /\ target[s] = f
  PROVE  seen'[f] = seen[f]
<1>1. seen \in [Feeds -> [Articles -> 0 .. clock]]
  BY DEF Grounded, TypeInv, Typed
<1>2. ASSUME NEW s \in Sessions, Merge(s)
      PROVE  seen'[f] = seen[f]
  <2>1. PICK g \in Feeds \ {own[s]} :
          seen' = Moved(own[s], g) /\ target' = [target EXCEPT ![s] = g]
    BY <1>2, MergeStep
  <2>2. own[s] \in Feeds
    BY <1>2, MergeStep
  <2>3. target'[s] = g
    BY <2>1 DEF Grounded, LiveInv, LockInv, PcOK
  <2>4. f \in Feeds \ {own[s], g}
    BY <1>2, <2>3
  <2> QED
    BY <2>1, <2>2, <2>4, MergeSightings
<1>3. ASSUME NEW s \in Sessions, Ingest(s) \/ IngestFails(s)
      PROVE  seen'[f] = seen[f]
  <2>1. PICK b \in task[s].todo, failed \in BOOLEAN :
          seen' = IF failed THEN seen ELSE [seen EXCEPT ![target[s]][b] = clock]
    BY <1>3, IngestStep
  <2>2. f # target[s]
    BY <1>3
  <2> QED
    BY <1>1, <2>1, <2>2
<1>4. ASSUME NEW s \in Sessions, Record(s)
      PROVE  seen'[f] = seen[f]
  <2>1. f \in Feeds \ {target[s]}
    BY <1>4
  <2> QED
    BY <1>4, <2>1, RecordSightings
<1>5. CASE UNCHANGED seen
  BY <1>5
<1> QED
  BY <1>2, <1>3, <1>4, <1>5, QuietSightings

(* So does what a 304 depends on.                                          *)
LEMMA SourceKept ==
  ASSUME Grounded, [Next]_vars, NEW f \in Feeds,
         ~ \E s \in Sessions :
             \/ Rename(s) /\ own[s] = f
             \/ Merge(s) /\ (own[s] = f \/ target'[s] = f)
             \/ Record(s) /\ target[s] = f
  PROVE  SameSource(feed'[f], feed[f])
<1>1. CASE UNCHANGED feed
  BY <1>1 DEF SameSource
<1>2. ASSUME NEW g \in Feeds, FallDue(g) \/ Reset(g)
      PROVE  SameSource(feed'[f], feed[f])
  BY <1>2, ReviveStep DEF Keeps
<1>3. ASSUME NEW s \in Sessions, Rename(s)
      PROVE  feed'[f] = feed[f]
  <2>1. f \in Feeds \ {own[s]}
    BY <1>3
  <2> QED
    BY <1>3, <2>1, RenameStep
<1>4. ASSUME NEW s \in Sessions, Merge(s)
      PROVE  feed'[f] = feed[f]
  <2>1. PICK g \in Feeds \ {own[s]} :
          /\ target' = [target EXCEPT ![s] = g]
          /\ \A h \in Feeds \ {own[s], g} : feed'[h] = feed[h]
    BY <1>4, MergeStep
  <2>2. target'[s] = g
    BY <2>1 DEF Grounded, LiveInv, LockInv, PcOK
  <2> QED
    BY <1>4, <2>1, <2>2
<1>5. ASSUME NEW s \in Sessions, Record(s)
      PROVE  feed'[f] = feed[f]
  <2>1. f \in Feeds \ {target[s]}
    BY <1>5
  <2> QED
    BY <1>5, <2>1, RecordStep
<1>6. ASSUME NEW s \in Sessions, Defer(s)
      PROVE  SameSource(feed'[f], feed[f])
  BY <1>6, DeferStep DEF SameSource
<1> QED
  BY <1>1, <1>2, <1>3, <1>4, <1>5, <1>6, QuietRows DEF SameSource

LEMMA AccountedKept ==
  ASSUME StampInv, [Next]_vars, NEW f \in Feeds
  PROVE  Accounted(f)'
<1>1. Grounded /\ Accounted(f) /\ blurred \subseteq blurred'
  BY BlurGrows DEF StampInv, HonestInv
<1>2. ASSUME NEW s \in Sessions, Record(s), target[s] = f
      PROVE  Accounted(f)'
  <2>1. CASE f \in blurred
    BY <1>1, <2>1 DEF Accounted
  <2>2. CASE f \notin blurred
    BY <1>2, <2>2, RecordAccounts
  <2> QED
    BY <2>1, <2>2
<1>3. ASSUME NEW s \in Sessions, Rename(s) /\ own[s] = f
      PROVE  Accounted(f)'
  <2>1. pc[s] = "following" /\ pc'[s] = "ingesting" /\ target' = target /\ task' = task
    BY <1>1, <1>3, Stations DEF Rename
  <2>2. target[s] = f /\ Sent(s)
    BY <1>1, <1>3, <2>1, SentTyped DEF Grounded, LiveInv, LockInv, Turns, Waiting
  <2>3. Ingests(s, f)'
    BY <2>1, <2>2 DEF Ingests, Sent
  <2> QED
    BY <2>3 DEF Accounted
<1>4. ASSUME NEW s \in Sessions, Merge(s), own[s] = f \/ target'[s] = f
      PROVE  Accounted(f)'
  <2>1. PICK g \in Feeds \ {own[s]} :
          /\ target' = [target EXCEPT ![s] = g]
          /\ feed'[own[s]].etag = None /\ feed'[g].etag = None
    BY <1>1, <1>4, MergeStep
  <2>2. target'[s] = g
    BY <1>1, <2>1 DEF Grounded, LiveInv, LockInv, PcOK
  <2> QED
    BY <1>4, <2>1, <2>2 DEF Accounted
<1>5. ASSUME NEW s \in Sessions, Ingest(s) \/ IngestFails(s), target[s] = f
      PROVE  Accounted(f)'
  <2>1. /\ pc'[s] \in {"ingesting", "gathering", "recording"} /\ target' = target
        /\ task'[s].answer = task[s].answer /\ pc[s] = "ingesting"
    BY <1>1, <1>5, IngestStep
  <2>2. Sent(s)
    BY <1>1, <2>1, SentTyped DEF Waiting
  <2>3. Ingests(s, f)'
    BY <1>5, <2>1, <2>2 DEF Ingests, Sent
  <2> QED
    BY <2>3 DEF Accounted
<1>6. CASE ~ \E s \in Sessions :
               \/ Rename(s) /\ own[s] = f
               \/ Merge(s) /\ (own[s] = f \/ target'[s] = f)
               \/ (Ingest(s) \/ IngestFails(s) \/ Record(s)) /\ target[s] = f
  <2>1. seen'[f] = seen[f] /\ SameSource(feed'[f], feed[f])
    BY <1>1, <1>6, SightingsKept, SourceKept
  <2>2. f \in blurred' \/ \A t \in Sessions : Ingests(t, f) => Ingests(t, f)'
    <3>1. ASSUME NEW t \in Sessions, Ingests(t, f), ~Ingests(t, f)'
          PROVE  f \in blurred'
      <4>1. CASE \E s \in Sessions : Fetch(s)
        <5>1. PICK s \in Sessions : Fetch(s)
          BY <4>1
        <5>2. t = s /\ LoseLock(s) /\ target[s] = f
          BY <1>6, <3>1, <5>1, IngestsOn
        <5>3. pc[s] \in Writing \ {"following"}
          BY <3>1, <5>2 DEF Ingests, Writing
        <5> QED
          BY <5>2, <5>3 DEF LoseLock
      <4>2. CASE ~ \E s \in Sessions : Fetch(s)
        <5>1. UNCHANGED <<pc, target, task>>
          BY <4>2 DEF Next, vars, workers, Publish, Move, FallDue, Reset, Refresh, Schedule
        <5> QED
          BY <3>1, <5>1 DEF Ingests, Sent
      <4> QED
        BY <4>1, <4>2
    <3> QED
      BY <3>1
  <2> QED
    BY <1>1, <2>1, <2>2, UntouchedAccounted DEF SameSource
<1> QED
  BY <1>2, <1>3, <1>4, <1>5, <1>6

(* Nobody else writes to the feed of a fetch, but for a merge, which blurs *)
(* it.                                                                     *)
LEMMA ExactKept ==
  ASSUME StampInv, [Next]_vars, NEW t \in Sessions,
         pc'[t] = pc[t], target'[t] = target[t], task'[t] = task[t]
  PROVE  Exact(t)'
<1> DEFINE f == target[t]
<1>1. Grounded /\ Exact(t) /\ blurred \subseteq blurred'
  BY BlurGrows DEF StampInv, HonestInv
<1>2. SUFFICES ASSUME pc[t] \in Writing, f \notin blurred'
               PROVE  Exact(t)'
  BY DEF Exact
<1>3. f \in Feeds /\ lock[f] = t /\ f \notin blurred /\ pc[t] \notin Waiting
  BY <1>1, <1>2, Working DEF Grounded, LiveInv, LockInv, HoldsTarget, Waiting, Writing
<1>4. ASSUME NEW s \in Sessions, (Rename(s) \/ Merge(s)) /\ own[s] = f
      PROVE  FALSE
  <2>1. pc[s] = "following" /\ pc'[s] # "following"
    BY <1>1, <1>4, Stations
  <2>2. s # t
    BY <2>1
  <2> QED
    BY <1>1, <1>2, <1>4, <2>1, <2>2, Alone DEF Waiting
<1>5. ASSUME NEW s \in Sessions, Merge(s), target'[s] = f
      PROVE  FALSE
  <2>1. PICK g \in Feeds \ {own[s]} :
          /\ target' = [target EXCEPT ![s] = g]
          /\ blurred' = IF lock[g] # None THEN blurred \cup {g} ELSE blurred
    BY <1>1, <1>5, MergeStep
  <2>2. g = f
    BY <1>1, <1>5, <2>1 DEF Grounded, LiveInv, LockInv, PcOK
  <2>3. lock[g] # None
    BY <1>3, <2>2, FeedsAssumption
  <2> QED
    BY <1>2, <2>1, <2>2, <2>3
<1>6. ASSUME NEW s \in Sessions, Ingest(s) \/ IngestFails(s) \/ Record(s), target[s] = f
      PROVE  s = t
  <2>1. pc[s] \in Writing
    BY <1>6 DEF Ingest, IngestFails, Record, Writing
  <2> QED
    BY <1>1, <1>3, <1>6, <2>1 DEF Grounded, LiveInv, LockInv, HoldsTarget
<1>7. ~(Ingest(t) \/ IngestFails(t) \/ Record(t))
  <2>1. CASE Record(t)
    BY <1>1, <1>2, <2>1, Stations DEF Writing, Waiting
  <2>2. CASE Ingest(t) \/ IngestFails(t)
    <3>1. PICK a \in task[t].todo : task'[t].todo = task[t].todo \ {a}
      BY <1>1, <2>2, IngestStep
    <3> QED
      BY <3>1
  <2> QED
    BY <2>1, <2>2
<1>8. ~ \E s \in Sessions :
          \/ (Rename(s) \/ Merge(s)) /\ own[s] = f
          \/ Merge(s) /\ target'[s] = f
          \/ (Ingest(s) \/ IngestFails(s) \/ Record(s)) /\ target[s] = f
  BY <1>4, <1>5, <1>6, <1>7
<1>9. seen'[f] = seen[f] /\ SameSource(feed'[f], feed[f])
  <2> HIDE DEF f
  <2>1. seen'[f] = seen[f]
    BY <1>1, <1>3, <1>8, SightingsKept
  <2>2. SameSource(feed'[f], feed[f])
    BY <1>1, <1>3, <1>8, SourceKept
  <2> QED
    BY <2>1, <2>2
<1> QED
  BY <1>1, <1>2, <1>3, <1>9 DEF Exact, SeenFrom, Sent, Document, SameSource

LEMMA ExactStep ==
  ASSUME StampInv, [Next]_vars, NEW s \in Sessions, Fetch(s)
  PROVE  Exact(s)'
<1>1. Grounded /\ Exact(s) /\ blurred \subseteq blurred'
  BY BlurGrows DEF StampInv, HonestInv
<1>2. /\ clock \in Nat /\ seen \in [Feeds -> [Articles -> 0 .. clock]]
      /\ feed \in [Feeds -> Row]
  BY <1>1, FeedsAssumption DEF Grounded, TypeInv, Typed
<1>3. CASE Take(s) \/ Skip(s) \/ StartStale(s) \/ GiveUp(s) \/ Record(s) \/ Defer(s) \/ LoseLock(s)
           \/ Merge(s)
  <2>1. pc'[s] \in Waiting \cup {"extending"}
    BY <1>1, <1>3, Stations DEF Waiting
  <2> QED
    BY <2>1 DEF Exact, Waiting, Writing
<1>4. CASE Start(s)
  <2>1. PICK f \in Feeds : f = own[s]
    BY <1>1, <1>4, StartStep
  <2> DEFINE row == Read(feed[f])
  <2>2. PICK answer \in Answers(row) :
          task'[s] = [forced |-> Forced(s), row |-> row, start |-> clock + 1,
                      answer |-> answer, todo |-> Todo(answer), failed |-> FALSE]
    BY <1>1, <1>4, <2>1, StartStep
  <2>3. row \in ReadRow /\ target'[s] = f /\ UNCHANGED <<feed, seen>>
    BY <1>1, <1>4, <2>1, StartStep
  <2>4. task'[s].answer = answer /\ task'[s].row = row /\ task'[s].start = clock + 1
    BY <2>2
  <2>5. row.etag = feed[f].etag /\ row.success = feed[f].success /\ row.success <= clock + 1
    <3>1. row.etag = feed[f].etag /\ row.success = feed[f].success
      BY DEF Read
    <3>2. feed[f].success <= clock /\ feed[f].success \in Nat
      BY <1>1, <1>2, FeedsAssumption DEF Grounded, TypeInv, Row
    <3> QED
      BY <1>2, <3>1, <3>2
  <2>6. SeenFrom(f, clock + 1) = {}
    <3>1. \A a \in Articles : seen[f][a] \in Nat /\ seen[f][a] <= clock
      BY <1>2
    <3> QED
      BY <1>2, <3>1 DEF SeenFrom
  <2>7. answer.kind = "not_modified" => row.etag # None
    <3>1. answer.kind = "not_modified" => NotModified(row)
      BY DEF Answers
    <3>2. row.fetchUrl \in Urls /\ version \in [Urls -> 1 .. MaxVersion] /\ None \notin Nat
      BY <1>1, <2>3, FeedsAssumption DEF ReadRow, Grounded, TypeInv, Typed
    <3>3. version[row.fetchUrl] \in Nat
      BY <3>2
    <3> QED
      BY <3>1, <3>2, <3>3 DEF NotModified
  <2> HIDE DEF row
  <2> QED
    BY <2>3, <2>4, <2>5, <2>6, <2>7 DEF Exact, SeenFrom, Sent
<1>5. CASE Rename(s)
  <2>1. /\ pc[s] = "following" /\ UNCHANGED <<seen, target, task>>
    BY <1>5 DEF Rename
  <2>2. Sent(s)
    BY <1>1, <2>1, SentTyped DEF Waiting
  <2> QED
    BY <1>1, <2>1, <2>2 DEF Exact, SeenFrom, Sent, Document, Writing
<1>6. CASE Extend(s)
  <2>1. pc[s] = "extending" /\ UNCHANGED <<feed, seen, target, task>>
    BY <1>6 DEF Extend, database
  <2>2. Sent(s)
    BY <1>1, <2>1, SentTyped DEF Waiting
  <2>3. target[s] \notin blurred' => SeenFrom(target[s], task[s].start) = {}
    BY <1>6 DEF Extend, SeenSince, SeenFrom
  <2> QED
    BY <2>1, <2>2, <2>3 DEF Exact, SeenFrom, Sent
<1>7. CASE Ingest(s) \/ IngestFails(s)
  <2>1. PICK f \in Feeds : f = target[s]
    BY <1>1, <1>7, IngestStep
  <2>2. PICK a \in task[s].todo, failed \in BOOLEAN :
          /\ seen' = IF failed THEN seen ELSE [seen EXCEPT ![f][a] = clock]
          /\ task'[s].answer = task[s].answer /\ task'[s].start = task[s].start
    BY <1>1, <1>7, <2>1, IngestStep
  <2>3. pc[s] = "ingesting" /\ target' = target /\ task[s].answer \in Documents
    BY <1>1, <1>7, IngestStep
  <2>4. Sent(s) /\ Sent(s)' /\ Document(s)' = Document(s)
    BY <2>2, <2>3 DEF Sent, Document, Documents
  <2>5. a \in Document(s)
    BY <1>1, <2>2, <2>3 DEF Grounded, TypeInv, TaskOK, Document, Waiting
  <2>6. \A b \in Articles : b = a \/ seen'[f][b] = seen[f][b]
    BY <1>2, <2>2
  <2>7. f \notin blurred => SeenFrom(f, task[s].start) \subseteq Document(s)
    BY <1>1, <2>1, <2>3, <2>4 DEF Exact, Writing
  <2>8. target'[s] = f /\ task'[s].start = task[s].start
    BY <2>1, <2>2, <2>3
  <2> QED
    BY <1>1, <2>4, <2>5, <2>6, <2>7, <2>8 DEF Exact, SeenFrom
<1>8. CASE Gather(s)
  <2>1. /\ pc[s] = "gathering" /\ UNCHANGED <<seen, target>>
        /\ task'[s].answer = task[s].answer /\ task'[s].start = task[s].start
    BY <1>1, <1>8, GatherStep
  <2>2. Sent(s)
    BY <1>1, <2>1, SentTyped DEF Waiting
  <2> QED
    BY <1>1, <2>1, <2>2 DEF Exact, SeenFrom, Sent, Document, Writing
<1> QED
  BY <1>3, <1>4, <1>5, <1>6, <1>7, <1>8 DEF Fetch

LEMMA InitStamps == Init => StampInv
<1> SUFFICES ASSUME Init
             PROVE  StampInv
  OBVIOUS
<1>1. HonestInv
  BY InitHonest
<1>2. ASSUME NEW f \in Feeds
      PROVE  Accounted(f)
  <2>1. PICK at \in [Feeds -> 1 .. Cardinality(Feeds)] :
          /\ feed = [g \in Feeds |-> Established(g, at[g])]
          /\ seen = [g \in Feeds |-> [a \in Articles |-> IF a = <<Home[g], 1>> THEN at[g] ELSE 0]]
    BY DEF Init
  <2>2. feed[f].fetchUrl = Home[f] /\ feed[f].etag = 1 /\ feed[f].success = at[f]
    BY <2>1 DEF Established
  <2>3. at[f] \in Nat \ {0} /\ Home[f] \in Urls /\ MaxVersion \in Nat \ {0}
    BY FeedsAssumption, FS_CardinalityType
  <2>4. <<Home[f], 1>> \in Listed(Home[f], 1)
    BY <2>3 DEF Listed
  <2>5. \A a \in Articles : seen[f][a] >= at[f] => a = <<Home[f], 1>>
    BY <2>1, <2>3
  <2> QED
    BY <2>2, <2>4, <2>5 DEF Accounted, SeenFrom
<1>3. ASSUME NEW s \in Sessions
      PROVE  Exact(s)
  BY DEF Init, Exact, Writing
<1> QED
  BY <1>1, <1>2, <1>3 DEF StampInv

LEMMA NextStamps ==
  ASSUME StampInv, [Next]_vars
  PROVE  StampInv'
<1>1. HonestInv'
  BY NextHonest DEF StampInv
<1>2. \A f \in Feeds : Accounted(f)'
  BY AccountedKept
<1>3. ASSUME NEW t \in Sessions
      PROVE  Exact(t)'
  <2>1. ASSUME NEW s \in Sessions, Fetch(s)
        PROVE  Exact(t)'
    <3>1. CASE t = s
      BY <2>1, <3>1, ExactStep
    <3>2. CASE t # s
      BY <2>1, <3>2, OthersKept, ExactKept DEF StampInv, HonestInv
    <3> QED
      BY <3>1, <3>2
  <2>2. CASE ~ \E s \in Sessions : Fetch(s)
    <3>1. UNCHANGED <<pc, target, task>>
      BY <2>2 DEF Next, vars, workers, Publish, Move, FallDue, Reset, Refresh, Schedule
    <3> QED
      BY <3>1, ExactKept
  <2> QED
    BY <2>1, <2>2
<1> QED
  BY <1>1, <1>2, <1>3 DEF StampInv

LEMMA AlwaysStamps == Spec => []StampInv
  BY InitStamps, NextStamps, PTL DEF Spec

(* A 304 stamps only articles the unchanged document lists: what           *)
(* markFeedItemsStillListed takes for still listed, the items seen since   *)
(* the last successful fetch began, are those the feed's stored validators *)
(* vouch for, save on a feed that was merged into, or abandoned, during a  *)
(* fetch.                                                                  *)
THEOREM NotModifiedStaysHonest == Spec => NotModifiedHonest
<1>1. ASSUME StampInv, NEW s \in Sessions,
             Record(s) /\ task[s].answer.kind = "not_modified" /\ target[s] \notin blurred
      PROVE  StillListed(s) \subseteq Listed(task[s].row.fetchUrl, task[s].row.etag)
  <2>1. PICK f \in Feeds : f = target[s]
    BY <1>1, Working DEF StampInv, HonestInv, Record, Waiting
  <2>2. pc[s] = "recording" /\ ~Sent(s)
    BY <1>1 DEF Record, Sent
  <2>3. /\ feed[f].etag = task[s].row.etag /\ feed[f].success = task[s].row.success
        /\ feed[f].fetchUrl = task[s].row.fetchUrl /\ task[s].row.etag # None
    BY <1>1, <2>1, <2>2 DEF StampInv, HonestInv, Exact, Current, Writing
  <2>4. ASSUME NEW t \in Sessions, Ingests(t, f)
        PROVE  FALSE
    <3>1. lock[f] = t /\ lock[f] = s
      BY <1>1, <2>1, <2>2, <2>4
      DEF StampInv, HonestInv, Grounded, LiveInv, LockInv, HoldsTarget, Ingests, Writing
    <3> QED
      BY <2>2, <2>4, <3>1 DEF Ingests
  <2>5. SeenFrom(f, task[s].row.success) \subseteq Listed(task[s].row.fetchUrl, task[s].row.etag)
    BY <1>1, <2>1, <2>3, <2>4 DEF StampInv, Accounted
  <2> QED
    BY <2>1, <2>5 DEF StillListed, Carried, SeenFrom
<1>2. StampInv => [\A s \in Sessions :
        Record(s) /\ task[s].answer.kind = "not_modified" /\ target[s] \notin blurred
          => StillListed(s) \subseteq Listed(task[s].row.fetchUrl, task[s].row.etag)]_vars
  BY <1>1
<1> QED
  BY <1>2, AlwaysStamps, PTL DEF NotModifiedHonest

-----------------------------------------------------------------------------
(* The chain of merges, step by step.                                      *)

LEMMA FollowsAlike ==
  ASSUME NEW D, None \notin D, NEW p \in [D -> D \cup {None}], Rooted(p, D),
         NEW h, Follows(h, p, D), NEW k, Follows(k, p, D), NEW x \in D
  PROVE  k[x] = h[x]
<1> DEFINE Bad == {y \in D : k[y] # h[y]}
<1>1. Bad \in SUBSET D /\ (\A y \in D : y \in Bad <=> k[y] # h[y])
  OBVIOUS
<1> HIDE DEF Bad
<1>2. SUFFICES ASSUME Bad # {}
               PROVE  FALSE
  BY <1>1
<1>3. PICK y \in Bad : p[y] \notin Bad
  BY <1>1, <1>2 DEF Rooted
<1>4. k[y] = IF p[y] = None THEN y ELSE k[p[y]]
  BY <1>1, FollowAt
<1>5. h[y] = IF p[y] = None THEN y ELSE h[p[y]]
  BY <1>1, FollowAt
<1>6. p[y] # None => p[y] \in D
  BY <1>1
<1> QED
  BY <1>1, <1>3, <1>4, <1>5, <1>6

LEMMA LiveStep ==
  ASSUME Grounded, [Next]_vars
  PROVE  /\ Follows(Live, mergedOf, Feeds) /\ Follows(Live', mergedOf', Feeds)
         /\ mergedOf \in [Feeds -> Feeds \cup {None}] /\ Rooted(mergedOf, Feeds)
<1>1. feed \in [Feeds -> Row] /\ feed' \in [Feeds -> Row]
  BY RowsTyped DEF Grounded, TypeInv, Typed
<1>2. (feed \in [Feeds -> Row] => Follows(Live, mergedOf, Feeds))'
  BY LiveFollows, PTL
<1> QED
  BY <1>1, <1>2, LiveFollows DEF Grounded, TypeInv, Chains, mergedOf, Row

LEMMA LiveKept ==
  ASSUME Grounded, [Next]_vars, ~ \E s \in Sessions : Merge(s), NEW x \in Feeds
  PROVE  Live'[x] = Live[x] /\ feed'[x].merged = feed[x].merged
<1>1. ASSUME NEW f \in Feeds
      PROVE  feed'[f].merged = feed[f].merged
  <2>1. CASE UNCHANGED feed
    BY <2>1
  <2>2. ASSUME NEW g \in Feeds, FallDue(g) \/ Reset(g)
        PROVE  feed'[f].merged = feed[f].merged
    BY <2>2, ReviveStep DEF Keeps
  <2>3. ASSUME NEW s \in Sessions, Rename(s) \/ Record(s) \/ Defer(s)
        PROVE  feed'[f].merged = feed[f].merged
    BY <2>3, RenameStep, RecordStep, DeferStep
  <2> QED
    BY <2>1, <2>2, <2>3, QuietRows
<1>2. mergedOf' = mergedOf
  BY <1>1 DEF mergedOf
<1> DEFINE p == mergedOf
           h == Live
           k == Live'
<1>3. /\ Follows(h, p, Feeds) /\ Follows(k, p, Feeds)
      /\ p \in [Feeds -> Feeds \cup {None}] /\ Rooted(p, Feeds) /\ None \notin Feeds
  BY <1>2, LiveStep, FeedsAssumption
<1>4. k[x] = h[x]
  <2> HIDE DEF p, h, k
  <2> QED
    BY <1>3, FollowsAlike
<1> QED
  BY <1>1, <1>4

LEMMA LiveMerged ==
  ASSUME Grounded, [Next]_vars, NEW f \in Feeds, NEW g \in Feeds \ {f},
         feed[f].merged = None, feed[g].merged = None, feed'[f].merged = g,
         \A h \in Feeds \ {f} : feed'[h].merged = feed[h].merged, NEW x \in Feeds
  PROVE  Live'[x] = IF Live[x] = f THEN g ELSE Live[x]
<1> DEFINE p == mergedOf
           q == mergedOf'
           h == Live
           k == Live'
<1>1. /\ Follows(h, p, Feeds) /\ Follows(k, q, Feeds)
      /\ p \in [Feeds -> Feeds \cup {None}] /\ Rooted(p, Feeds) /\ None \notin Feeds
  BY LiveStep, FeedsAssumption
<1>2. p[f] = None /\ p[g] = None /\ q[f] = g /\ \A y \in Feeds \ {f} : q[y] = p[y]
  BY DEF mergedOf
<1>3. k[x] = IF h[x] = f THEN g ELSE h[x]
  <2> HIDE DEF p, q, h, k
  <2> QED
    BY <1>1, <1>2, LinkEnds
<1> QED
  BY <1>3

-----------------------------------------------------------------------------
(* The forced fetches.                                                     *)

(* Who holds a lock is under way, for the feed it fetches or the one it    *)
(* came to.                                                                *)
Held(f) == lock[f] # None =>
  pc[lock[f]] \notin Waiting /\ f \in {own[lock[f]], target[lock[f]]}

(* A session that left its own feed has merged it away, with a document.   *)
Away(s) == pc[s] \notin Waiting /\ target[s] # own[s] =>
  feed[own[s]].merged # None /\ Sent(s)

(* A session that fetches a flagged feed knows that it is forced.          *)
Owed(s) == pc[s] \notin Waiting /\ target[s] = own[s] /\ feed[own[s]].force => task[s].forced

Pending(f) ==
  feed[f].force /\ feed[f].merged = None /\ f \notin dropped
    => \/ \E j \in jobs : Live[j.feed] = f
       \/ \E s \in Sessions : Handles(s, f)

ForcedInv ==
  /\ Grounded
  /\ \A f \in Feeds : Held(f) /\ Pending(f)
  /\ \A s \in Sessions : Away(s) /\ Owed(s)

LEMMA InitForced == Init => ForcedInv
<1> SUFFICES ASSUME Init
             PROVE  ForcedInv
  OBVIOUS
<1>1. Grounded
  BY InitLive, InitTyped DEF Grounded
<1>2. ASSUME NEW f \in Feeds
      PROVE  Held(f) /\ Pending(f)
  <2>1. feed[f].force = FALSE
    BY DEF Init, Established
  <2> QED
    BY <2>1 DEF Init, Held, Pending
<1>3. ASSUME NEW s \in Sessions
      PROVE  Away(s) /\ Owed(s)
  BY DEF Init, Away, Owed, Waiting
<1> QED
  BY <1>1, <1>2, <1>3 DEF ForcedInv

LEMMA MergedStays ==
  ASSUME Grounded, [Next]_vars, NEW f \in Feeds, feed'[f].merged = None
  PROVE  feed[f].merged = None
<1>1. ASSUME NEW s \in Sessions, Merge(s)
      PROVE  feed[f].merged = None
  BY <1>1, MergeStep, FeedsAssumption
<1>2. CASE ~ \E s \in Sessions : Merge(s)
  BY <1>2, LiveKept
<1> QED
  BY <1>1, <1>2

LEMMA FlagKept ==
  ASSUME Grounded, [Next]_vars, NEW f \in Feeds,
         ~ \E s \in Sessions : (Record(s) /\ target[s] = f) \/ (Defer(s) /\ own[s] = f)
  PROVE  feed'[f].force = feed[f].force
<1>1. CASE UNCHANGED feed
  BY <1>1
<1>2. ASSUME NEW g \in Feeds, FallDue(g) \/ Reset(g)
      PROVE  feed'[f].force = feed[f].force
  BY <1>2, ReviveStep DEF Keeps
<1>3. ASSUME NEW s \in Sessions, Rename(s)
      PROVE  feed'[f].force = feed[f].force
  BY <1>3, RenameStep
<1>4. ASSUME NEW s \in Sessions, Merge(s)
      PROVE  feed'[f].force = feed[f].force
  BY <1>4, MergeStep
<1>5. ASSUME NEW s \in Sessions, Record(s)
      PROVE  feed'[f] = feed[f]
  <2>1. f \in Feeds \ {target[s]}
    BY <1>5
  <2> QED
    BY <1>5, <2>1, RecordStep
<1>6. ASSUME NEW s \in Sessions, Defer(s)
      PROVE  feed'[f] = feed[f]
  <2>1. f \in Feeds \ {own[s]}
    BY <1>6
  <2> QED
    BY <1>6, <2>1, DeferStep
<1> QED
  BY <1>1, <1>2, <1>3, <1>4, <1>5, <1>6, QuietRows

LEMMA HeldKept ==
  ASSUME ForcedInv, [Next]_vars, NEW f \in Feeds
  PROVE  Held(f)'
<1>1. Grounded /\ Held(f) /\ LockInv /\ LockInv' /\ PcOK
  BY NextKeepsLocks DEF ForcedInv, Grounded, LiveInv, LockInv
<1>2. SUFFICES ASSUME lock'[f] # None
               PROVE  pc'[lock'[f]] \notin Waiting /\ f \in {own'[lock'[f]], target'[lock'[f]]}
  BY DEF Held
<1>3. PICK u \in Sessions : u = lock'[f]
  BY <1>1, <1>2 DEF LockInv, PcOK
<1>4. ASSUME NEW s \in Sessions, Fetch(s)
      PROVE  pc'[u] \notin Waiting /\ f \in {own'[u], target'[u]}
  <2>1. CASE Start(s) /\ f = own[s]
    <3>1. /\ pc'[s] \notin Waiting /\ own' = own /\ lock' = [lock EXCEPT ![f] = s]
      BY <1>1, <2>1, StartStep
    <3>2. u = s
      BY <1>1, <1>3, <3>1 DEF PcOK
    <3> QED
      BY <2>1, <3>1, <3>2
  <2>2. CASE Extend(s) /\ f = target[s]
    <3>1. pc'[s] = "ingesting" /\ target' = target /\ lock' = [lock EXCEPT ![f] = s]
      BY <1>1, <2>2, Stations DEF Extend
    <3>2. u = s
      BY <1>1, <1>3, <3>1 DEF PcOK
    <3> QED
      BY <2>2, <3>1, <3>2 DEF Waiting
  <2>3. CASE ~(Start(s) /\ f = own[s]) /\ ~(Extend(s) /\ f = target[s])
    <3>1. lock[f] = u
      <4>1. CASE GiveUp(s) \/ Record(s) \/ Defer(s) \/ LoseLock(s)
        BY <1>2, <1>3, <4>1 DEF GiveUp, Record, Defer, LoseLock, Ends
      <4>2. CASE Start(s) \/ Extend(s)
        BY <1>1, <1>3, <2>3, <4>2 DEF Start, Extend, PcOK
      <4>3. CASE Take(s) \/ Skip(s) \/ StartStale(s) \/ Rename(s) \/ Merge(s)
                 \/ Ingest(s) \/ IngestFails(s) \/ Gather(s)
        BY <1>3, <4>3 DEF Take, Skip, StartStale, Rename, Merge, Ingest, IngestFails, Gather
      <4> QED
        BY <1>4, <4>1, <4>2, <4>3 DEF Fetch
    <3>2. pc[u] \notin Waiting /\ f \in {own[u], target[u]}
      BY <1>1, <1>2, <1>3, <3>1 DEF Held
    <3>3. CASE u # s
      BY <1>1, <1>4, <3>2, <3>3, OthersKept
    <3>4. CASE u = s
      <4>1. ~(Take(s) \/ Skip(s) \/ StartStale(s) \/ Start(s))
        BY <3>2, <3>4 DEF Take, Skip, StartStale, Start, Waiting
      <4>2. ~(GiveUp(s) \/ Record(s) \/ Defer(s) \/ LoseLock(s))
        BY <1>2, <1>3, <3>1, <3>4 DEF GiveUp, Record, Defer, LoseLock, Ends
      <4>3. CASE Merge(s)
        <5>1. target[s] = own[s] /\ pc'[s] = "extending" /\ own' = own
          BY <1>1, <4>3, Stations DEF LockInv, Turns, Merge
        <5> QED
          BY <3>2, <3>4, <5>1 DEF Waiting
      <4>4. CASE Rename(s) \/ Extend(s)
        <5>1. pc'[s] = "ingesting" /\ own' = own /\ target' = target
          BY <1>1, <4>4, Stations DEF Rename, Extend
        <5> QED
          BY <3>2, <3>4, <5>1 DEF Waiting
      <4>5. CASE Ingest(s) \/ IngestFails(s) \/ Gather(s)
        <5>1. /\ pc'[s] \in {"ingesting", "gathering", "recording"}
              /\ own' = own /\ target' = target
          BY <1>1, <4>5, IngestStep, GatherStep
        <5> QED
          BY <3>2, <3>4, <5>1 DEF Waiting
      <4> QED
        BY <1>4, <4>1, <4>2, <4>3, <4>4, <4>5 DEF Fetch
    <3> QED
      BY <3>3, <3>4
  <2> QED
    BY <2>1, <2>2, <2>3
<1>5. CASE ~ \E s \in Sessions : Fetch(s)
  <2>1. UNCHANGED <<lock, pc, own, target>>
    BY <1>5 DEF Next, vars, workers, Publish, Move, FallDue, Reset, Refresh, Schedule
  <2> QED
    BY <1>1, <1>2, <2>1 DEF Held
<1> QED
  BY <1>3, <1>4, <1>5

LEMMA AwayKept ==
  ASSUME ForcedInv, [Next]_vars, NEW t \in Sessions
  PROVE  Away(t)'
<1>1. Grounded /\ Away(t) /\ PcOK
  BY DEF ForcedInv, Grounded, LiveInv, LockInv
<1>2. ASSUME pc'[t] = pc[t] \/ pc[t] \notin Waiting, own'[t] = own[t], target'[t] = target[t],
             task'[t].answer = task[t].answer
      PROVE  Away(t)'
  <2>1. SUFFICES ASSUME pc'[t] \notin Waiting, target[t] # own[t]
                 PROVE  feed'[own[t]].merged # None /\ Sent(t)'
    BY <1>2 DEF Away
  <2>2. own[t] \in Feeds /\ feed[own[t]].merged # None /\ Sent(t)
    BY <1>1, <1>2, <2>1, Working DEF Away
  <2> QED
    BY <1>1, <1>2, <2>2, MergedStays DEF Sent
<1>3. ASSUME NEW s \in Sessions, Fetch(s)
      PROVE  Away(t)'
  <2>1. CASE t # s
    BY <1>1, <1>2, <1>3, <2>1, OthersKept
  <2>2. CASE t = s
    <3>1. CASE Take(s) \/ Skip(s) \/ StartStale(s) \/ GiveUp(s) \/ Record(s) \/ Defer(s)
               \/ LoseLock(s)
      <4>1. pc'[s] \in Waiting
        BY <1>1, <3>1, Stations DEF Waiting
      <4> QED
        BY <2>2, <4>1 DEF Away
    <3>2. CASE Start(s)
      <4>1. target'[s] = own[s] /\ own' = own
        BY <1>1, <3>2, StartStep
      <4> QED
        BY <2>2, <4>1 DEF Away
    <3>3. CASE Merge(s)
      <4>1. PICK g \in Feeds \ {own[s]} : feed'[own[s]].merged = g
        BY <1>1, <3>3, MergeStep
      <4>2. own' = own /\ task' = task /\ Sent(s)
        BY <1>1, <3>3, SentTyped DEF Merge, Waiting
      <4> QED
        BY <2>2, <4>1, <4>2, FeedsAssumption DEF Away, Sent
    <3>4. CASE Rename(s) \/ Extend(s)
      <4>1. pc[s] \notin Waiting /\ UNCHANGED <<own, target, task>>
        BY <3>4 DEF Rename, Extend, Waiting
      <4> QED
        BY <1>2, <2>2, <4>1
    <3>5. CASE Ingest(s) \/ IngestFails(s) \/ Gather(s)
      <4>1. /\ pc[s] \in {"ingesting", "gathering"} /\ UNCHANGED <<own, target>>
            /\ task'[s].answer = task[s].answer
        BY <1>1, <3>5, IngestStep, GatherStep
      <4> QED
        BY <1>2, <2>2, <4>1 DEF Waiting
    <3> QED
      BY <1>3, <3>1, <3>2, <3>3, <3>4, <3>5 DEF Fetch
  <2> QED
    BY <2>1, <2>2
<1>4. CASE ~ \E s \in Sessions : Fetch(s)
  <2>1. UNCHANGED <<pc, own, target, task>>
    BY <1>4 DEF Next, vars, workers, Publish, Move, FallDue, Reset, Refresh, Schedule
  <2> QED
    BY <1>2, <2>1
<1> QED
  BY <1>3, <1>4

(* Only the feed's own fetch raises its flag, when it must wait.           *)
LEMMA OwedKept ==
  ASSUME ForcedInv, [Next]_vars, NEW t \in Sessions
  PROVE  Owed(t)'
<1>1. Grounded /\ Owed(t) /\ PcOK
  BY DEF ForcedInv, Grounded, LiveInv, LockInv
<1>2. ASSUME pc[t] \notin Waiting, pc'[t] \notin Waiting, own'[t] = own[t], target'[t] = target[t],
             task'[t].forced = task[t].forced, target[t] = own[t], feed'[own[t]].force
      PROVE  task[t].forced
  <2>1. own[t] \in Feeds /\ lock[own[t]] = t
    BY <1>1, <1>2, Working
  <2>2. ASSUME NEW s \in Sessions, Defer(s), own[s] = own[t]
        PROVE  FALSE
    <3>1. lock[own[s]] = s
      BY <1>1, <2>2, Working DEF Defer, Waiting
    <3>2. pc'[s] = "idle"
      BY <1>1, <2>2, Stations
    <3> QED
      BY <1>2, <2>1, <2>2, <3>1, <3>2 DEF Waiting
  <2>3. ASSUME NEW s \in Sessions, Record(s), target[s] = own[t]
        PROVE  FALSE
    BY <1>1, <1>2, <2>3, RecordStep
  <2>4. feed'[own[t]].force = feed[own[t]].force
    <3> DEFINE f == own[t]
    <3> HIDE DEF f
    <3>1. f \in Feeds /\ ~ \E s \in Sessions : (Record(s) /\ target[s] = f) \/ (Defer(s) /\ own[s] = f)
      BY <2>1, <2>2, <2>3 DEF f
    <3>2. feed'[f].force = feed[f].force
      BY <1>1, <3>1, FlagKept
    <3> QED
      BY <3>2 DEF f
  <2> QED
    BY <1>1, <1>2, <2>4 DEF Owed
<1>3. ASSUME pc[t] \notin Waiting, own'[t] = own[t], target'[t] = target[t],
             task'[t].forced = task[t].forced
      PROVE  Owed(t)'
  BY <1>2, <1>3 DEF Owed
<1>4. ASSUME NEW s \in Sessions, Fetch(s)
      PROVE  Owed(t)'
  <2>1. CASE t # s
    <3>1. pc'[t] = pc[t] /\ own'[t] = own[t] /\ target'[t] = target[t] /\ task'[t] = task[t]
      BY <1>1, <1>4, <2>1, OthersKept
    <3>2. CASE pc[t] \in Waiting
      BY <3>1, <3>2 DEF Owed
    <3>3. CASE pc[t] \notin Waiting
      BY <1>3, <3>1, <3>3
    <3> QED
      BY <3>2, <3>3
  <2>2. CASE t = s
    <3>1. CASE Take(s) \/ Skip(s) \/ StartStale(s) \/ GiveUp(s) \/ Record(s) \/ Defer(s)
               \/ LoseLock(s)
      <4>1. pc'[s] \in Waiting
        BY <1>1, <3>1, Stations DEF Waiting
      <4> QED
        BY <2>2, <4>1 DEF Owed
    <3>2. CASE Start(s)
      <4>1. task'[s].forced = Forced(s) /\ own' = own /\ UNCHANGED feed
        <5>1. PICK answer :
                task'[s] = [forced |-> Forced(s), row |-> Read(feed[own[s]]), start |-> clock + 1,
                            answer |-> answer, todo |-> Todo(answer), failed |-> FALSE]
          BY <1>1, <3>2, StartStep
        <5>2. own' = own /\ UNCHANGED feed
          BY <1>1, <3>2, StartStep
        <5> QED
          BY <5>1, <5>2
      <4> QED
        BY <2>2, <4>1 DEF Owed, Forced
    <3>3. CASE Merge(s)
      <4>1. PICK g \in Feeds \ {own[s]} : target' = [target EXCEPT ![s] = g] /\ own' = own
        BY <1>1, <3>3, MergeStep DEF Merge
      <4>2. target'[s] = g
        BY <1>1, <4>1 DEF PcOK
      <4> QED
        BY <2>2, <4>1, <4>2 DEF Owed
    <3>4. CASE Rename(s) \/ Extend(s)
      <4>1. pc[s] \notin Waiting /\ UNCHANGED <<own, target, task>>
        BY <3>4 DEF Rename, Extend, Waiting
      <4> QED
        BY <1>3, <2>2, <4>1
    <3>5. CASE Ingest(s) \/ IngestFails(s) \/ Gather(s)
      <4>1. /\ pc[s] \in {"ingesting", "gathering"} /\ UNCHANGED <<own, target>>
            /\ task'[s].forced = task[s].forced
        BY <1>1, <3>5, IngestStep, GatherStep
      <4> QED
        BY <1>3, <2>2, <4>1 DEF Waiting
    <3> QED
      BY <1>4, <3>1, <3>2, <3>3, <3>4, <3>5 DEF Fetch
  <2> QED
    BY <2>1, <2>2
<1>5. CASE ~ \E s \in Sessions : Fetch(s)
  <2>1. UNCHANGED <<pc, own, target, task>>
    BY <1>5 DEF Next, vars, workers, Publish, Move, FallDue, Reset, Refresh, Schedule
  <2>2. CASE pc[t] \in Waiting
    BY <2>1, <2>2 DEF Owed
  <2>3. CASE pc[t] \notin Waiting
    BY <1>3, <2>1, <2>3
  <2> QED
    BY <2>2, <2>3
<1> QED
  BY <1>4, <1>5

LEMMA JobsStay ==
  ASSUME Grounded, [Next]_vars, NEW j \in jobs, j \notin jobs'
  PROVE  \E s \in Sessions : own'[s] = Live[j.feed] /\ pc'[s] = "resolved"
<1>1. PcOK
  BY DEF Grounded, LiveInv, LockInv
<1>2. ASSUME NEW s \in Sessions, Take(s)
      PROVE  own'[s] = Live[j.feed] /\ pc'[s] = "resolved"
  <2>1. PICK i \in jobs : jobs' = jobs \ {i} /\ own' = [own EXCEPT ![s] = Live[i.feed]]
    BY <1>2 DEF Take
  <2>2. i = j
    BY <2>1
  <2> QED
    BY <1>1, <1>2, <2>1, <2>2, Stations DEF PcOK
<1>3. CASE ~ \E s \in Sessions : Take(s)
  <2>1. ASSUME NEW s \in Sessions, Fetch(s)
        PROVE  jobs \subseteq jobs'
    BY <1>3, <2>1 DEF Fetch, Skip, StartStale, Start, Rename, Merge, Extend, GiveUp, Ingest,
      IngestFails, Gather, Record, Defer, LoseLock
  <2>2. CASE ~ \E s \in Sessions : Fetch(s)
    BY <2>2 DEF Next, vars, Publish, Move, FallDue, Reset, Refresh, Schedule
  <2> QED
    BY <2>1, <2>2
<1> QED
  BY <1>2, <1>3

(* The lock's holder is under way for the same feed, unless that was       *)
(* merged away: who finds the lock taken may leave the flag to it.         *)
LEMMA HolderHandles ==
  ASSUME ForcedInv, [Next]_vars, NEW s \in Sessions, Fetch(s), NEW f \in Feeds,
         feed[f].merged = None, lock[f] \notin {None, s}
  PROVE  \E t \in Sessions : Handles(t, f)'
<1>1. Grounded /\ Held(f) /\ LockInv
  BY DEF ForcedInv, Grounded, LiveInv
<1>2. PICK t \in Sessions : t = lock[f] /\ t # s
  BY <1>1 DEF LockInv, PcOK
<1>3. pc[t] \notin Waiting /\ f \in {own[t], target[t]} /\ Away(t)
  BY <1>1, <1>2 DEF Held, ForcedInv
<1>4. target[t] = f
  BY <1>3 DEF Away
<1>5. pc'[t] = pc[t] /\ target'[t] = target[t]
  BY <1>1, <1>2, OthersKept
<1> QED
  BY <1>3, <1>4, <1>5 DEF Handles

LEMMA PendingKept ==
  ASSUME ForcedInv, [Next]_vars, NEW f \in Feeds
  PROVE  Pending(f)'
<1>1. Grounded /\ Grounded' /\ Pending(f) /\ PcOK /\ LockInv
  BY NextGrounded DEF ForcedInv, Grounded, LiveInv, LockInv
<1>2. SUFFICES ASSUME feed'[f].force, feed'[f].merged = None, f \notin dropped'
               PROVE  \/ \E j \in jobs' : Live'[j.feed] = f
                      \/ \E s \in Sessions : Handles(s, f)'
  BY DEF Pending
<1>3. feed[f].merged = None /\ f \notin dropped
  <2>1. UNCHANGED dropped \/ \E s \in Sessions : LoseLock(s)
    BY DEF Next, Fetch, vars, history, Publish, Move, FallDue, Reset, Refresh, Schedule, Take,
      Skip, StartStale, Start, Rename, Merge, Extend, GiveUp, Ingest, IngestFails, Gather, Record,
      Defer
  <2>2. dropped \subseteq dropped'
    BY <2>1 DEF LoseLock
  <2> QED
    BY <1>1, <1>2, <2>2, MergedStays
<1>4. ASSUME NEW s \in Sessions, Record(s)
      PROVE  target[s] # f
  BY <1>1, <1>2, <1>4, RecordStep
<1>5. ASSUME NEW s \in Sessions, Defer(s), own[s] = f
      PROVE  \E j \in jobs' : Live'[j.feed] = f
  <2>1. pc[s] = "recording" /\ target[s] = own[s]
    BY <1>5 DEF Defer, ForcedInv, Away, Sent, Waiting
  <2>2. feed'[f].force = (feed[f].force \/ task[s].forced)
    BY <1>1, <1>5, DeferStep
  <2>3. task[s].forced
    BY <1>2, <1>5, <2>1, <2>2 DEF ForcedInv, Owed, Waiting
  <2> DEFINE j == [feed |-> f, force |-> FALSE]
  <2>4. j \in jobs' /\ j.feed = f
    BY <1>5, <2>3 DEF Defer, Continuation
  <2>5. Live'[f] = f
    <3> DEFINE h == Live'
               p == mergedOf'
    <3>1. Follows(h, p, Feeds) /\ p[f] = None
      BY <1>1, <1>2, LiveStep DEF mergedOf
    <3> HIDE DEF h, p
    <3>2. h[f] = IF p[f] = None THEN f ELSE h[p[f]]
      BY <3>1, FollowAt
    <3> QED
      BY <3>1, <3>2 DEF h
  <2> HIDE DEF j
  <2> QED
    BY <2>4, <2>5
<1>6. ASSUME NEW j \in jobs, Live[j.feed] = f
      PROVE  \/ \E i \in jobs' : Live'[i.feed] = f
             \/ \E s \in Sessions : Handles(s, f)'
  <2>1. j.feed \in Feeds
    BY <1>1 DEF Grounded, TypeInv, Typed, Job
  <2>2. CASE j \notin jobs'
    BY <1>1, <1>6, <2>2, JobsStay DEF Handles
  <2>3. CASE j \in jobs'
    <3>1. CASE ~ \E s \in Sessions : Merge(s)
      BY <1>1, <1>6, <2>1, <2>3, <3>1, LiveKept
    <3>2. ASSUME NEW s \in Sessions, Merge(s)
          PROVE  Live'[j.feed] = f
      <4>1. PICK e \in Feeds : e = own[s] /\ feed[e].merged = None
        BY <1>1, <3>2, MergeStep
      <4>2. PICK g \in Feeds \ {e} :
              /\ feed[g].merged = None /\ feed'[e].merged = g /\ feed'[g].merged = None
              /\ \A h \in Feeds \ {e, g} : feed'[h] = feed[h]
        BY <1>1, <3>2, <4>1, MergeStep
      <4>3. \A h \in Feeds \ {e} : feed'[h].merged = feed[h].merged
        BY <4>2
      <4>4. Live'[j.feed] = IF Live[j.feed] = e THEN g ELSE Live[j.feed]
        BY <1>1, <2>1, <4>1, <4>2, <4>3, LiveMerged
      <4>5. f # e
        BY <1>2, <4>2, FeedsAssumption
      <4> QED
        BY <1>6, <4>4, <4>5
    <3> QED
      BY <2>3, <3>1, <3>2
  <2> QED
    BY <2>2, <2>3
<1>7. ASSUME NEW s \in Sessions, Fetch(s), Handles(s, f), feed[f].force
      PROVE  \/ \E j \in jobs' : Live'[j.feed] = f
             \/ \E t \in Sessions : Handles(t, f)'
  <2>1. ~Take(s)
    BY <1>7 DEF Take, Handles, Waiting
  <2>2. CASE Skip(s)
    <3>1. own[s] = f /\ lock[f] # None /\ pc[s] = "resolved"
      BY <1>7, <2>2 DEF Skip, Handles, Waiting
    <3>2. lock[f] # s
      BY <1>7, <3>1, FeedsAssumption DEF ForcedInv, Held, Waiting
    <3> QED
      BY <1>3, <1>7, <3>1, <3>2, HolderHandles
  <2>3. ~StartStale(s)
    BY <1>3, <1>7 DEF StartStale, Proceeds, Forced, Handles, Waiting
  <2>4. CASE Start(s)
    <3>1. own[s] = f
      BY <1>7, <2>4 DEF Start, Handles, Waiting
    <3> QED
      BY <1>1, <2>4, <3>1, StartStep DEF Handles
  <2>5. CASE Rename(s) \/ Extend(s)
    <3>1. pc[s] \notin Waiting /\ target' = target /\ pc'[s] = "ingesting"
      BY <1>1, <2>5, Stations DEF Rename, Extend, Waiting
    <3> QED
      BY <1>7, <3>1 DEF Handles, Waiting
  <2>6. ~Merge(s)
    <3>1. ASSUME Merge(s)
          PROVE  FALSE
      <4>1. pc[s] = "following" /\ target[s] = own[s]
        BY <1>1, <3>1, Stations DEF LockInv, Turns
      <4>2. own[s] = f
        BY <1>7, <4>1 DEF Handles
      <4>3. feed'[f].merged \in Feeds
        BY <1>1, <3>1, <4>2, MergeStep
      <4> QED
        BY <1>2, <4>3, FeedsAssumption
    <3> QED
      BY <3>1
  <2>7. CASE GiveUp(s)
    <3>1. lock[f] \notin {None, s}
      BY <1>7, <2>7 DEF GiveUp, Extendable, Handles
    <3> QED
      BY <1>3, <1>7, <3>1, HolderHandles
  <2>8. CASE Ingest(s) \/ IngestFails(s) \/ Gather(s)
    <3>1. /\ pc[s] \in {"ingesting", "gathering"} /\ target' = target
          /\ pc'[s] \in {"ingesting", "gathering", "recording"}
      BY <1>1, <2>8, IngestStep, GatherStep
    <3> QED
      BY <1>7, <3>1 DEF Handles, Waiting
  <2>9. ~Record(s)
    BY <1>4, <1>7 DEF Record, Handles
  <2>10. CASE Defer(s)
    <3>1. pc[s] = "recording" /\ target[s] = own[s]
      BY <2>10 DEF Defer, ForcedInv, Away, Sent, Waiting
    <3> QED
      BY <1>5, <1>7, <2>10, <3>1 DEF Handles
  <2>11. ~LoseLock(s)
    BY <1>2, <1>7, FeedsAssumption DEF LoseLock, Handles
  <2> QED
    BY <1>7, <2>1, <2>2, <2>3, <2>4, <2>5, <2>6, <2>7, <2>8, <2>9, <2>10, <2>11 DEF Fetch
<1>8. ASSUME NEW t \in Sessions, Handles(t, f), feed[f].force
      PROVE  \/ \E j \in jobs' : Live'[j.feed] = f
             \/ \E s \in Sessions : Handles(s, f)'
  <2>1. CASE Fetch(t)
    BY <1>7, <1>8, <2>1
  <2>2. ASSUME NEW s \in Sessions \ {t}, Fetch(s)
        PROVE  Handles(t, f)'
    BY <1>1, <1>8, <2>2, OthersKept DEF Handles
  <2>3. CASE ~ \E s \in Sessions : Fetch(s)
    <3>1. UNCHANGED <<pc, own, target>>
      BY <2>3 DEF Next, vars, workers, Publish, Move, FallDue, Reset, Refresh, Schedule
    <3> QED
      BY <1>8, <3>1 DEF Handles
  <2> QED
    BY <2>1, <2>2, <2>3
<1>9. CASE ~ \E s \in Sessions : Defer(s) /\ own[s] = f
  <2>1. feed[f].force
    BY <1>1, <1>2, <1>4, <1>9, FlagKept
  <2> QED
    BY <1>3, <1>1, <1>6, <1>8, <2>1 DEF Pending
<1> QED
  BY <1>5, <1>9

LEMMA AlwaysForced == Spec => []ForcedInv
<1>1. ASSUME ForcedInv, [Next]_vars
      PROVE  ForcedInv'
  <2>1. Grounded'
    BY <1>1, NextGrounded DEF ForcedInv
  <2>2. \A f \in Feeds : Held(f)' /\ Pending(f)'
    BY <1>1, HeldKept, PendingKept
  <2>3. \A s \in Sessions : Away(s)' /\ Owed(s)'
    BY <1>1, AwayKept, OwedKept
  <2> QED
    BY <2>1, <2>2, <2>3 DEF ForcedInv
<1> QED
  BY <1>1, InitForced, PTL DEF Spec

(* A forced fetch that had to wait is still to come: while the flag that   *)
(* deferFeedFetch leaves stands on a live feed, a job or a session is      *)
(* there for the feed, whatever sessions skip it, give it up or merge      *)
(* other feeds into it, unless one died with its connection.               *)
THEOREM ForcedFetchKept == Spec => []ForceKept
<1>1. ForcedInv => ForceKept
  BY DEF ForcedInv, Pending, ForceKept
<1> QED
  BY <1>1, AlwaysForced, PTL
=============================================================================
