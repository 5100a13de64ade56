------------------------------- MODULE FeedFetch -------------------------------
(***************************************************************************)
(* Fetching feeds: the scheduler lists due feeds, worker sessions fetch    *)
(* them under a per-feed session lock, ingest the items they list, follow  *)
(* permanent redirects (a rename, or a merge into the feed that owns the   *)
(* new URL) and record the outcome.  The publishers' servers, operators    *)
(* and lost connections are the environment.                               *)
(*                                                                         *)
(* Source: apps/worker/src/handlers/feed-fetch.ts and feed-schedule.ts,    *)
(* packages/db/src/ingest/feeds.ts, merge-feeds.ts and articles.ts,        *)
(* packages/feeds/src/schedule/next-schedule.ts.                           *)
(*                                                                         *)
(* Data abstracted: `next_fetch_at` is only due or not due, the intervals  *)
(* that place it are left out; an article is <<u, v>>, the one URL u       *)
(* publishes with its version v, and a validator is a version; time is     *)
(* `clock`, the number of fetches started, so a stamp taken during or      *)
(* after a fetch is at least the start of that fetch.                      *)
(***************************************************************************)
EXTENDS Naturals, FiniteSets

CONSTANTS
  Feeds,            \* feed ids
  Urls,             \* feed URLs
  Home,             \* the URL every feed starts at
  Sessions,         \* worker sessions, each with a lock connection of its own
  None,             \* no feed, no session, no validator, no redirect
  QuarantineAfter,  \* QUARANTINE_AFTER_ERRORS
  MaxClock,         \* bounds: fetches started,
  MaxVersion,       \* versions published at a URL,
  MaxEvents         \* publications, moves, failures, lost locks and orders

ASSUME FeedsAssumption ==
  /\ IsFiniteSet(Feeds)
  /\ Home \in [Feeds -> Urls]
  /\ \A f, g \in Feeds : f # g => Home[f] # Home[g]
  /\ None \notin Feeds
  /\ None \notin Sessions
  /\ None \notin Urls \cup Nat
  /\ {QuarantineAfter, MaxVersion} \subseteq Nat \ {0}
  /\ {MaxClock, MaxEvents} \subseteq Nat
  /\ Cardinality(Feeds) <= MaxClock

VARIABLES
  feed,     \* the rows of `feeds`
  seen,     \* `feed_items.last_seen_at` by feed and article; 0 where there is no row
  jobs,     \* queued `feed.fetch` jobs
  lock,     \* who holds each feed's session advisory lock
  pc,       \* where every worker session is in its fetch
  own,      \* the feed it fetches
  target,   \* the feed it works on: its own or, after a merge, the survivor
  task,     \* what else it carries along
  version,  \* what every URL publishes
  moved,    \* where every URL redirects to, None while it serves
  clock,    \* fetches started
  events,   \* events of the environment so far
  blurred,  \* history: feeds with sightings that no recorded outcome accounts for
  dropped   \* history: feeds a job of which died with its connection

database == <<feed, seen>>
workers == <<pc, own, target, task>>
world == <<version, moved>>
history == <<blurred, dropped>>
vars == <<database, jobs, lock, workers, world, clock, events, history>>

Waiting == {"idle", "resolved"}
Writing == {"following", "ingesting", "gathering", "recording"}

Articles == Urls \X (1 .. MaxVersion)

(* A URL's document is a window: its newest article and the one before.    *)
Listed(u, v) == {u} \X ({v - 1, v} \cap (1 .. MaxVersion))

Carried(f) == {a \in Articles : seen[f][a] > 0}

Statuses == {"active", "quarantined", "dead"}

Etags == (1 .. MaxVersion) \cup {None}

Row == [url : Urls, fetchUrl : Urls, merged : Feeds \cup {None}, status : Statuses,
        errors : 0 .. QuarantineAfter, etag : Etags,
        due : BOOLEAN, force : BOOLEAN, wanted : BOOLEAN, success : 0 .. MaxClock]

Job == [feed : Feeds, force : BOOLEAN]

Spend == events < MaxEvents /\ events' = events + 1

(* Every feed has been fetched once, one after the other.                  *)
Established(f, at) ==
  [url |-> Home[f], fetchUrl |-> Home[f], merged |-> None, status |-> "active",
   errors |-> 0, etag |-> 1, due |-> FALSE, force |-> FALSE, wanted |-> TRUE,
   success |-> at]

Init ==
  /\ clock = Cardinality(Feeds)
  /\ \E at \in [Feeds -> 1 .. Cardinality(Feeds)] :
       /\ \A f, g \in Feeds : f # g => at[f] # at[g]
       /\ feed = [f \in Feeds |-> Established(f, at[f])]
       /\ seen = [f \in Feeds |-> [a \in Articles |-> IF a = <<Home[f], 1>> THEN at[f] ELSE 0]]
  /\ jobs = {}
  /\ lock = [f \in Feeds |-> None]
  /\ pc = [s \in Sessions |-> "idle"]
  /\ own = [s \in Sessions |-> None]
  /\ target = [s \in Sessions |-> None]
  /\ task = [s \in Sessions |-> None]
  /\ version = [u \in Urls |-> 1]
  /\ moved = [u \in Urls |-> None]
  /\ events = 0
  /\ blurred = {}
  /\ dropped = {}

-----------------------------------------------------------------------------
(* The publishers, time and the operators.                                 *)

(* Where a URL's redirects lead.                                           *)
Serving[u \in Urls] == IF moved[u] = None THEN u ELSE Serving[moved[u]]

(* Only what some feed reads matters.                                      *)
Reached(u) == \E f \in Feeds : Serving[feed[f].fetchUrl] = u

Publish(u) ==
  /\ Reached(u)
  /\ version[u] < MaxVersion
  /\ Spend
  /\ version' = [version EXCEPT ![u] = @ + 1]
  /\ UNCHANGED <<database, jobs, lock, workers, moved, clock, history>>

(* The publisher moves its feed from u to t, which serves from then on.    *)
Move(u, t) ==
  /\ Reached(u)
  /\ t # u
  /\ Spend
  /\ moved' = [moved EXCEPT ![u] = t, ![t] = None]
  /\ UNCHANGED <<database, jobs, lock, workers, version, clock, history>>

(* `next_fetch_at` passes; during a fetch, which sets it anew, it is of no *)
(* use.                                                                    *)
FallDue(f) ==
  /\ ~feed[f].due
  /\ lock[f] = None
  /\ feed' = [feed EXCEPT ![f].due = TRUE]
  /\ UNCHANGED <<seen, jobs, lock, workers, world, clock, events, history>>

(* An administrator or a new subscriber revives the feed: active, no error *)
(* streak, due at once.  A merged feed is never revived.                   *)
Reset(f) ==
  /\ feed[f].merged = None
  /\ Spend
  /\ feed' = [feed EXCEPT ![f].status = "active", ![f].errors = 0, ![f].due = TRUE]
  /\ UNCHANGED <<seen, jobs, lock, workers, world, clock, history>>

(* An operator's refresh, whatever the feed's status and due time.         *)
Refresh(f) ==
  /\ Spend
  /\ jobs' = jobs \cup {[feed |-> f, force |-> TRUE]}
  /\ UNCHANGED <<database, lock, workers, world, clock, history>>

-----------------------------------------------------------------------------
(* The scheduler and the start of a fetch.                                 *)

(* dueFeedIds                                                              *)
Fetchable(row) == row.wanted /\ row.status \in {"active", "quarantined"} /\ row.due

Scheduled == {[feed |-> f, force |-> FALSE] : f \in {g \in Feeds : Fetchable(feed[g])}}

Schedule ==
  /\ ~(Scheduled \subseteq jobs)
  /\ jobs' = jobs \cup Scheduled
  /\ UNCHANGED <<database, lock, workers, world, clock, events, history>>

(* resolveLiveFeedId: the root of the chain of merges.                     *)
Live[f \in Feeds] == IF feed[f].merged = None THEN f ELSE Live[feed[f].merged]

Rest(s) ==
  /\ pc' = [pc EXCEPT ![s] = "idle"]
  /\ own' = [own EXCEPT ![s] = None]
  /\ target' = [target EXCEPT ![s] = None]
  /\ task' = [task EXCEPT ![s] = None]

(* A worker takes a job, which is never redelivered, and resolves its feed *)
(* before it asks for the lock.                                            *)
Take(s) ==
  /\ pc[s] = "idle"
  /\ \E j \in jobs, f \in Feeds :
       /\ f = Live[j.feed]
       /\ jobs' = jobs \ {j}
       /\ own' = [own EXCEPT ![s] = f]
       /\ task' = [task EXCEPT ![s] = [force |-> j.force]]
  /\ pc' = [pc EXCEPT ![s] = "resolved"]
  /\ UNCHANGED <<database, lock, target, world, clock, events, history>>

(* The lock is held elsewhere: the job is dropped.                         *)
Skip(s) ==
  /\ pc[s] = "resolved"
  /\ lock[own[s]] # None
  /\ Rest(s)
  /\ UNCHANGED <<database, jobs, lock, world, clock, events, history>>

(* What the fetch uses of the row it reads under the lock.                 *)
Read(row) == [fetchUrl |-> row.fetchUrl, status |-> row.status, errors |-> row.errors,
              etag |-> row.etag, success |-> row.success]

(* Mutant: a feed merged since it was resolved is fetched as well.         *)
ProceedsMerged(row, forced) == forced \/ Fetchable(row)

Proceeds(row, forced) == row.merged = None /\ (forced \/ Fetchable(row))

(* Mutant: only the job says whether a fetch is forced.                    *)
ForcedByJob(s) == task[s].force

Forced(s) == task[s].force \/ feed[own[s]].force

(* A stale job gives the lock back at once.                                *)
StartStale(s) ==
  /\ pc[s] = "resolved"
  /\ lock[own[s]] = None
  /\ ~Proceeds(feed[own[s]], Forced(s))
  /\ Rest(s)
  /\ UNCHANGED <<database, jobs, lock, world, clock, events, history>>

(* The request is conditional when the row held a validator, which goes to *)
(* `fetch_url` alone: a URL that redirects never answers 304.  A 200       *)
(* carries the document of the URL that serves, after permanent redirects  *)
(* only, or after one that is temporary or that names a URL the feed may   *)
(* not take.                                                               *)
NotModified(row) == moved[row.fetchUrl] = None /\ row.etag = version[row.fetchUrl]

Answers(row) ==
  LET to == Serving[row.fetchUrl] IN
  {[kind |-> kind, permanent |-> FALSE] : kind \in {"cooldown", "error", "gone", "throttled"}}
  \cup
  (IF NotModified(row) THEN {[kind |-> "not_modified", permanent |-> FALSE]}
   ELSE {[kind |-> "ok", url |-> to, version |-> version[to], permanent |-> p] :
           p \in {FALSE, to # row.fetchUrl}})

Todo(answer) == IF answer.kind = "ok" THEN Listed(answer.url, answer.version) ELSE {}

Answered(answer) ==
  IF answer.kind # "ok" THEN "recording"
  ELSE IF answer.permanent THEN "following" ELSE "ingesting"

(* The row is re-read under the lock and the request is answered: what     *)
(* happens between the two might as well happen before or after both.      *)
Start(s) ==
  LET f == own[s] IN
  /\ pc[s] = "resolved"
  /\ lock[f] = None
  /\ Proceeds(feed[f], Forced(s))
  /\ clock < MaxClock
  /\ clock' = clock + 1
  /\ lock' = [lock EXCEPT ![f] = s]
  /\ target' = [target EXCEPT ![s] = f]
  /\ \E answer \in Answers(Read(feed[f])) :
       /\ IF answer.kind \in {"ok", "not_modified"} THEN UNCHANGED events ELSE Spend
       /\ pc' = [pc EXCEPT ![s] = Answered(answer)]
       /\ task' = [task EXCEPT ![s] =
            [forced |-> Forced(s), row |-> Read(feed[f]), start |-> clock + 1,
             answer |-> answer, todo |-> Todo(answer), failed |-> FALSE]]
  /\ UNCHANGED <<database, jobs, own, world, history>>

-----------------------------------------------------------------------------
(* applyPermanentRedirect, in a transaction of its own.                    *)

(* renameFeed: a new `fetch_url` clears the validators of the old one.     *)
Renamed(row, url, fetchUrl) ==
  [row EXCEPT !.url = url, !.fetchUrl = fetchUrl,
              !.etag = IF row.fetchUrl = fetchUrl THEN @ ELSE None]

Owners(f, u) == {g \in Feeds \ {f} : feed[g].url = u}

(* Nobody else owns the URL, or a feed merged into this one does.          *)
Rename(s) ==
  LET f == own[s]
      to == task[s].answer.url
      owners == Owners(f, to)
  IN
  /\ pc[s] = "following"
  /\ \A g \in owners : Live[g] = f
  /\ feed' = [feed EXCEPT ![f] = Renamed(@, IF owners = {} THEN to ELSE @.url, to)]
  /\ pc' = [pc EXCEPT ![s] = "ingesting"]
  /\ UNCHANGED <<seen, jobs, lock, own, target, task, world, clock, events, history>>

(* mergeFeeds leaves a tombstone, and a survivor without validators, so    *)
(* that its next fetch stamps exactly what it lists.                       *)
Tombstone(row, survivor) ==
  [row EXCEPT !.merged = survivor, !.status = "dead", !.etag = None, !.wanted = FALSE]

(* Mutant: the survivor keeps its validators.                              *)
SurvivorValidated(row, source) == [row EXCEPT !.wanted = @ \/ source.wanted]

Survivor(row, source) == [row EXCEPT !.etag = None, !.wanted = @ \/ source.wanted]

(* The items move with their last sightings; a duplicate keeps the later.  *)
Moved(f, g) ==
  [seen EXCEPT ![f] = [a \in Articles |-> 0],
               ![g] = [a \in Articles |-> IF seen[f][a] > @[a] THEN seen[f][a] ELSE @[a]]]

Merge(s) ==
  LET f == own[s] IN
  /\ pc[s] = "following"
  /\ \E owner \in Owners(f, task[s].answer.url), g \in Feeds \ {f} :
       /\ g = Live[owner]
       /\ feed' = [feed EXCEPT ![f] = Tombstone(@, g), ![g] = Survivor(@, feed[f])]
       /\ seen' = Moved(f, g)
       /\ target' = [target EXCEPT ![s] = g]
       /\ blurred' = IF lock[g] # None THEN blurred \cup {g} ELSE blurred
  /\ pc' = [pc EXCEPT ![s] = "extending"]
  /\ UNCHANGED <<jobs, lock, own, task, world, clock, events, dropped>>

(* Mutant: the locks of both feeds are freed, whoever holds them.          *)
EndsByFeed(s) ==
  /\ lock' = [f \in Feeds |-> IF f \in {own[s], target[s]} THEN None ELSE lock[f]]
  /\ Rest(s)

(* FeedFetchLock.release, in the handler's `finally`                       *)
Ends(s) ==
  /\ lock' = [f \in Feeds |-> IF lock[f] = s THEN None ELSE lock[f]]
  /\ Rest(s)

(* Mutant: the merge's survivor is taken to be locked.                     *)
ExtendableAlways(s, g) == {s} \subseteq Sessions

(* tryExtend: the rest of the fetch needs the survivor's lock too.  When   *)
(* the survivor's own fetch runs, this one ends.                           *)
Extendable(s, g) == lock[g] \in {None, s}

(* Other fetches have seen items of g since this one started.              *)
SeenSince(s, g) == \E a \in Articles : seen[g][a] >= task[s].start

Extend(s) ==
  /\ pc[s] = "extending"
  /\ Extendable(s, target[s])
  /\ lock' = [lock EXCEPT ![target[s]] = s]
  /\ pc' = [pc EXCEPT ![s] = "ingesting"]
  /\ blurred' = blurred \cup {g \in {target[s]} : SeenSince(s, g)}
  /\ UNCHANGED <<database, jobs, own, target, task, world, clock, events, dropped>>

GiveUp(s) ==
  /\ pc[s] = "extending"
  /\ ~Extendable(s, target[s])
  /\ Ends(s)
  /\ UNCHANGED <<database, jobs, world, clock, events, history>>

-----------------------------------------------------------------------------
(* Every item in a transaction of its own; one that fails, fails alone.    *)

Newest(articles) == {a \in articles : \A b \in articles : b[2] <= a[2]}

(* After the last item a redirected fetch reads its target's row again.    *)
Passes(s, a, failed) ==
  /\ task' = [task EXCEPT ![s].todo = @ \ {a}, ![s].failed = @ \/ failed]
  /\ pc' = [pc EXCEPT ![s] =
       IF task[s].todo # {a} THEN "ingesting"
       ELSE IF task[s].answer.permanent THEN "gathering" ELSE "recording"]

Ingest(s) ==
  /\ pc[s] = "ingesting"
  /\ \E a \in Newest(task[s].todo) :
       /\ seen' = [seen EXCEPT ![target[s]][a] = clock]
       /\ Passes(s, a, FALSE)
  /\ UNCHANGED <<feed, jobs, lock, own, target, world, clock, events, history>>

IngestFails(s) ==
  /\ pc[s] = "ingesting"
  /\ Spend
  /\ \E a \in Newest(task[s].todo) : Passes(s, a, TRUE)
  /\ UNCHANGED <<database, jobs, lock, own, target, world, clock, history>>

Gather(s) ==
  /\ pc[s] = "gathering"
  /\ task' = [task EXCEPT ![s].row = Read(feed[target[s]])]
  /\ pc' = [pc EXCEPT ![s] = "recording"]
  /\ UNCHANGED <<database, jobs, lock, own, target, world, clock, events, history>>

-----------------------------------------------------------------------------
(* The outcome, computed by nextSchedule from the row the session read and *)
(* written by recordFeedFetch over the row as it now is.                   *)

(* Mutant: the validators are kept though an item failed.                  *)
KeepsDespiteFailures(fetch) == fetch.answer.url = fetch.row.fetchUrl

(* The validators of a 200 are kept only where the next poll sends them,   *)
(* and only when every item was ingested.                                  *)
KeepsValidators(fetch) == ~fetch.failed /\ fetch.answer.url = fetch.row.fetchUrl

AfterSuccess(fetch, etag) ==
  [status |-> IF fetch.row.status = "dead" THEN "dead" ELSE "active",
   errors |-> 0, etag |-> etag, success |-> fetch.start]

AfterThrottle(row) ==
  [status |-> row.status, errors |-> row.errors, etag |-> row.etag, success |-> row.success]

(* A 410 kills the feed, and so may a streak of errors that lasts.         *)
AfterError(row, gone) ==
  LET errors == IF row.errors < QuarantineAfter THEN row.errors + 1 ELSE row.errors
      statuses ==
        IF gone \/ row.status = "dead" THEN {"dead"}
        ELSE {IF errors = QuarantineAfter THEN "quarantined" ELSE row.status}
               \cup {st \in {"dead"} : row.errors > 0}
  IN {[AfterThrottle(row) EXCEPT !.status = st, !.errors = errors] : st \in statuses}

Outcomes(fetch) ==
  CASE fetch.answer.kind \in {"error", "gone"} ->
         AfterError(fetch.row, fetch.answer.kind = "gone")
    [] fetch.answer.kind = "throttled" -> {AfterThrottle(fetch.row)}
    [] fetch.answer.kind = "not_modified" -> {AfterSuccess(fetch, fetch.row.etag)}
    [] fetch.answer.kind = "ok" ->
         {AfterSuccess(fetch, IF KeepsValidators(fetch) THEN fetch.answer.version ELSE None)}

(* recordFeedFetch: a stored "dead" stays; a tombstone has no validators.  *)
Recorded(row, outcome) ==
  [row EXCEPT !.status = IF @ = "dead" THEN @ ELSE outcome.status,
              !.errors = outcome.errors,
              !.etag = IF row.merged = None THEN outcome.etag ELSE None,
              !.success = outcome.success,
              !.due = FALSE, !.force = FALSE]

(* markFeedItemsStillListed: a 304 stamps what was seen since the start of *)
(* the last successful fetch the session read.                             *)
StillListed(s) ==
  {a \in Carried(target[s]) : /\ task[s].answer.kind = "not_modified"
                              /\ seen[target[s]][a] >= task[s].row.success}

Record(s) ==
  LET f == target[s] IN
  /\ pc[s] = "recording"
  /\ task[s].answer.kind # "cooldown"
  /\ \E outcome \in Outcomes(task[s]) : feed' = [feed EXCEPT ![f] = Recorded(@, outcome)]
  /\ seen' = [seen EXCEPT ![f] = [a \in Articles |-> IF a \in StillListed(s) THEN clock ELSE @[a]]]
  /\ Ends(s)
  /\ UNCHANGED <<jobs, world, clock, events, history>>

(* A forced fetch that must wait leaves a job to fulfil it.                *)
Continuation(s) == {j \in {[feed |-> own[s], force |-> FALSE]} : task[s].forced}

(* deferFeedFetch: the origin is cooling down.  The durable flag of a      *)
(* forced fetch and the continuation are written together.                 *)
Defer(s) ==
  /\ pc[s] = "recording"
  /\ task[s].answer.kind = "cooldown"
  /\ feed' = [feed EXCEPT ![own[s]].due = FALSE, ![own[s]].force = @ \/ task[s].forced]
  /\ jobs' = jobs \cup Continuation(s)
  /\ Ends(s)
  /\ UNCHANGED <<seen, world, clock, events, history>>

(* The lock's connection is lost, or the worker with it: the lock is free  *)
(* at once, no later statement of the fetch commits and the job is over.   *)
LoseLock(s) ==
  /\ pc[s] # "idle"
  /\ Spend
  /\ dropped' = dropped \cup ({own[s], target[s]} \ {None})
  /\ blurred' = blurred \cup {f \in {target[s]} : pc[s] \in Writing \ {"following"}}
  /\ Ends(s)
  /\ UNCHANGED <<database, jobs, world, clock>>

-----------------------------------------------------------------------------
Fetch(s) ==
  \/ Take(s) \/ Skip(s) \/ StartStale(s) \/ Start(s)
  \/ Rename(s) \/ Merge(s) \/ Extend(s) \/ GiveUp(s)
  \/ Ingest(s) \/ IngestFails(s) \/ Gather(s)
  \/ Record(s) \/ Defer(s)
  \/ LoseLock(s)

Next ==
  \/ \E u \in Urls : Publish(u)
  \/ \E u, t \in Urls : Move(u, t)
  \/ \E f \in Feeds : FallDue(f) \/ Reset(f) \/ Refresh(f)
  \/ Schedule
  \/ \E s \in Sessions : Fetch(s)

Spec == Init /\ [][Next]_vars

-----------------------------------------------------------------------------
ReadRow == [fetchUrl : Urls, status : Statuses, errors : 0 .. QuarantineAfter, etag : Etags,
            success : 0 .. MaxClock]

Verdicts == [kind : {"cooldown", "error", "gone", "throttled", "not_modified"}, permanent : {FALSE}]

Documents == [kind : {"ok"}, url : Urls, version : 1 .. MaxVersion, permanent : BOOLEAN]

Fetched == [forced : BOOLEAN, row : ReadRow, start : 0 .. MaxClock, answer : Verdicts \cup Documents,
            todo : SUBSET Articles, failed : BOOLEAN]

(* A session with a fetch under way knows when it started, and holds the   *)
(* answer; what it still has to ingest is of the document it was sent.     *)
TaskOK(s) ==
  /\ pc[s] = "resolved" => task[s] \in [force : BOOLEAN]
  /\ pc[s] \notin Waiting =>
       /\ task[s] \in Fetched
       /\ 1 <= task[s].start /\ task[s].start <= clock /\ task[s].row.success <= clock
       /\ pc[s] # "recording" => task[s].answer \in Documents
       /\ pc[s] \in {"following", "extending", "gathering"} => task[s].answer.permanent
       /\ task[s].answer \in Documents =>
            task[s].todo \subseteq Listed(task[s].answer.url, task[s].answer.version)
       /\ pc[s] \in {"gathering", "recording"} => task[s].todo = {}

(* From its start to its end a fetch holds the lock of the job's feed, and *)
(* while it writes that of the feed it writes to.                          *)
HoldsOwn(s) == pc[s] \notin Waiting => lock[own[s]] = s /\ target[s] \in Feeds

HoldsTarget(s) == pc[s] \in Writing => lock[target[s]] = s

(* Following `merged_into_feed_id` ends, and at a feed that is not merged. *)
MergesEnd ==
  /\ \A S \in SUBSET Feeds : S # {} => \E f \in S : feed[f].merged \notin S
  /\ \A f \in Feeds : feed[Live[f]].merged = None

Typed ==
  /\ feed \in [Feeds -> Row]
  /\ seen \in [Feeds -> [Articles -> 0 .. clock]]
  /\ jobs \subseteq Job
  /\ lock \in [Feeds -> Sessions \cup {None}]
  /\ pc \in [Sessions -> Waiting \cup Writing \cup {"extending"}]
  /\ own \in [Sessions -> Feeds \cup {None}]
  /\ target \in [Sessions -> Feeds \cup {None}]
  /\ version \in [Urls -> 1 .. MaxVersion]
  /\ moved \in [Urls -> Urls \cup {None}]
  /\ clock \in 0 .. MaxClock
  /\ events \in 0 .. MaxEvents
  /\ blurred \subseteq Feeds
  /\ dropped \subseteq Feeds

(* The types, what a session carries in every phase of a fetch among them; *)
(* a session under way holds its feed's lock and, from its first write to  *)
(* the last, that of the feed it writes to (feed-fetch.ts, FeedFetchLock), *)
(* also when it merged its feed into another or another session gave up;   *)
(* and the merges of feeds never form a circle.                            *)
TypeOK ==
  /\ Typed
  /\ task \in [Sessions -> {None} \cup [force : BOOLEAN] \cup Fetched]
  /\ \A s \in Sessions : TaskOK(s) /\ HoldsOwn(s) /\ HoldsTarget(s)
  /\ MergesEnd

(* A stored validator vouches for the items (feed-fetch.ts, "Validators    *)
(* are stored only where"): whenever a feed's next request could be        *)
(* answered 304, the feed carries every article of the version it names,   *)
(* whatever redirects, failed items, lost locks and merges came before.    *)
ValidatorsHonest == \A f \in Feeds :
  feed[f].etag # None => Listed(feed[f].fetchUrl, feed[f].etag) \subseteq Carried(f)

(* No two fetches write to one feed at a time, also when one of them came  *)
(* to the feed by merging its own into it (feed-fetch.ts, "After a merge   *)
(* the rest of this fetch").                                               *)
OneWriter == \A s, t \in Sessions :
  s # t /\ pc[s] \in Writing /\ pc[t] \in Writing => target[s] # target[t]

(* A fetch never works on its own feed once that was merged away, not even *)
(* when the merge came between resolving the job's feed and its lock: the  *)
(* items and the outcome would be the tombstone's.                         *)
OwnFeedLive == \A s \in Sessions :
  pc[s] \in Writing /\ target[s] = own[s] => feed[own[s]].merged = None

(* A 304 stamps only articles the unchanged document lists (articles.ts,   *)
(* markFeedItemsStillListed; merge-feeds.ts, "The survivor now carries the *)
(* source's associations"), unless a merge into the feed, or the fetch     *)
(* that goes on after one, overlapped a fetch of it, or a fetch died after *)
(* ingesting.                                                              *)
NotModifiedHonest == [][\A s \in Sessions :
  Record(s) /\ task[s].answer.kind = "not_modified" /\ target[s] \notin blurred
    => StillListed(s) \subseteq Listed(task[s].row.fetchUrl, task[s].row.etag)]_vars

Handles(s, f) ==
  \/ pc[s] = "resolved" /\ own[s] = f
  \/ pc[s] \notin Waiting /\ target[s] = f

(* A forced fetch that had to wait is still to come: as long as its flag   *)
(* stands on a live feed, a job or a session is there for the feed, unless *)
(* one died with its connection.                                           *)
ForceKept == \A f \in Feeds :
  feed[f].force /\ feed[f].merged = None /\ f \notin dropped
    => \/ \E j \in jobs : Live[j.feed] = f
       \/ \E s \in Sessions : Handles(s, f)
=============================================================================
