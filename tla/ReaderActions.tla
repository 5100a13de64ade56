--------------------------- MODULE ReaderActions ---------------------------
(***************************************************************************)
(* The changes a reader makes to one article, from the pages of one device *)
(* (ReaderTab) through the device's queue store, the replay and the Web    *)
(* Lock that elects the sending page (apps/web/src/offline), over a        *)
(* network that loses requests and answers, to the server, which applies   *)
(* each under its idempotency key and its fence (apps/api tenant.ts,       *)
(* packages/db/src/api).  Another device writes the same article.          *)
(*                                                                         *)
(* The server's row is the log of what was written to it: its              *)
(* state_version is the length of the log.                                 *)
(***************************************************************************)
EXTENDS ReaderTab, FiniteSets

CONSTANTS
  Tabs,         \* pages of the device
  Other,        \* a write of another device
  MaxOther,     \* such writes modelled
  MaxRetries,   \* times a request is sent again under the same key
  MaxFails,     \* requests, answers and account checks that fail
  MaxDrops,     \* times the connection is lost
  MaxCrashes,   \* times a page is closed or reloaded
  MaxFaults,    \* times the device's database fails
  MaxExpiries,  \* times kept changes reach the age of 24 hours
  MaxUndos,     \* times the person takes a change back
  MaxEvents     \* all of these together

Versions == 0..(MaxOther + MaxChanges)
Receipts == [fence : Versions, version : Versions]

ASSUME ReaderAssumption ==
  /\ None \notin Int /\ None \notin Tabs /\ None \notin Receipts
  /\ Other \notin Int /\ MaxChanges \in Nat
  /\ MaxOther \in Nat /\ MaxRetries \in Nat /\ MaxFails \in Nat /\ MaxDrops \in Nat
  /\ MaxCrashes \in Nat /\ MaxFaults \in Nat /\ MaxExpiries \in Nat /\ MaxUndos \in Nat
  /\ MaxEvents \in Nat

VARIABLES
  made,      \* history: the state each change was made on, and how (followed none, offline)
  tab,       \* each page's state
  chan,      \* the notes of other pages on their way to each page
  replay,    \* each page's replay
  records,   \* the device's queue store
  lock,      \* the page that holds the Web Lock
  online,    \* whether the browser reports a connection
  net,       \* requests on their way
  replies,   \* answers on their way
  log,       \* the server's row
  receipts,  \* api_mutations: the fence each key was used with and the version it made
  withdrawn, \* history: the changes whose record an Undo has removed, from then on
  spent      \* history: faults so far, by kind

pageVars == <<made, tab, chan, replay, lock>>
deviceVars == <<records, online>>
netVars == <<net, replies>>
serverVars == <<log, receipts>>
vars == <<pageVars, deviceVars, netVars, serverVars, withdrawn, spent>>

Limit == [fail |-> MaxFails, drop |-> MaxDrops, crash |-> MaxCrashes, fault |-> MaxFaults,
          expiry |-> MaxExpiries, other |-> MaxOther, undo |-> MaxUndos]

May(kind) == spent[kind] < Limit[kind] /\ SumFunction(spent) < MaxEvents
Spend(kind) == /\ May(kind)
               /\ spent' = [spent EXCEPT ![kind] = @ + 1]

Resting == [pc |-> "idle", recs |-> << >>, old |-> {}, cur |-> None]

Init ==
  /\ made = <<>>
  /\ tab = [t \in Tabs |-> [Fresh([c \in Changes |-> {}]) EXCEPT !.known = 0]]
  /\ chan = [t \in Tabs |-> <<>>]
  /\ replay = [t \in Tabs |-> Resting]
  /\ records = << >>
  /\ lock = None
  /\ online = TRUE
  /\ net = {} /\ replies = {}
  /\ log = <<>>
  /\ receipts = [c \in Changes |-> None]
  /\ withdrawn = {}
  /\ spent = [k \in DOMAIN Limit |-> 0]

----------------------------------------------------------------------------
(* The page's state moves to T, its replay to R; the page lets go of the    *)
(* Web Lock when neither needs it.                                          *)
Become(t, T, R) ==
  /\ tab' = [tab EXCEPT ![t] = T]
  /\ replay' = [replay EXCEPT ![t] = R]
  /\ lock' = IF lock = t /\ ~Busy(tab'[t]) /\ R.pc = "idle" THEN None ELSE lock

Page(t, T) == Become(t, T, replay[t])

(* dispatch: the person changes the article.                                *)
Dispatch(t) ==
  /\ Len(made) < MaxChanges
  /\ tab[t].known # Unknown
  /\ made' = Append(made, [on |-> tab[t].known, offline |-> ~online,
                           first |-> tab[t].order = <<>>])
  /\ Page(t, Dispatched(tab[t], Len(made) + 1))
  /\ UNCHANGED <<chan, deviceVars, netVars, serverVars, withdrawn, spent>>

(* cancel, as Undo asks for it: only a change that was never sent.          *)
Undo(t, c) ==
  /\ Cancellable(tab[t], c)
  /\ Page(t, Cancelled(tab[t], c))
  /\ Spend("undo")
  /\ UNCHANGED <<made, chan, deviceVars, netVars, serverVars, withdrawn>>

Request(t, c, fence, try) == [tab |-> t, id |-> c, fence |-> fence, try |-> try]

(* transport.send: what the step of the page has put on its way.            *)
Sent(t) ==
  {Request(t, c, tab'[t].entry[c].fence, 0) :
     c \in {d \in Changes : tab'[t].entry[d].st = "sending" /\ tab[t].entry[d].st # "sending"}}

(* run() once the record is written, or could not be.                       *)
Resume(t, c) ==
  LET T == [tab[t] EXCEPT !.entry[c].stored = @ /\ tab[t].entry[c].saved = "yes"]
      stored == T.entry[c].stored
  IN  /\ tab[t].entry[c].st = "saving"
      /\ tab[t].entry[c].stored => tab[t].entry[c].saved # "no"
      /\ Page(t, IF stored THEN IF online THEN [T EXCEPT !.entry[c].st = "turn"] ELSE Park(T, c)
                 ELSE IF online THEN Transmit(T, c)
                 ELSE Settle(T, c, Note(c, "unsent", None)))
      /\ net' = net \cup Sent(t)
      /\ UNCHANGED <<made, chan, deviceVars, replies, serverVars, withdrawn, spent>>

(* Mutant of LockFree: every page sends (no Web Lock is taken).             *)
LockIgnored(t) == TRUE

(* The Web Lock is granted, or the page has it and joins.                   *)
LockFree(t) == lock \in {None, t}

(* exchange(), inside the Web Lock: is the record still there?              *)
Acquire(t, c) ==
  LET T == [tab[t] EXCEPT !.entry[c].st = "check"]
      fencing == T.entry[c].fencing
      U == CASE fencing = "unset" -> FixFence(T, c)
             [] fencing = "writing" -> T
             [] fencing = "kept" -> Ask(T, [op |-> "look", id |-> c])
             [] fencing = "gone" -> SettleElsewhere(T, c, T.entry[c].heard)
  IN  /\ tab[t].entry[c].st = "turn"
      /\ LockFree(t)
      /\ tab' = [tab EXCEPT ![t] = U]
      /\ lock' = IF Busy(tab'[t]) \/ replay[t].pc # "idle" THEN t ELSE None
      /\ UNCHANGED <<made, chan, replay, deviceVars, netVars, serverVars, withdrawn, spent>>

(* exchange() once it knows whether the record is there.                    *)
Looked(T, c, present) ==
  IF ~present \/ T.entry[c].heard # None THEN SettleElsewhere(T, c, T.entry[c].heard)
  ELSE IF ~online THEN Park(T, c)
  ELSE IF T.entry[c].sent THEN Transmit(T, c)
  ELSE Ask([T EXCEPT !.entry[c].st = "mark", !.entry[c].sent = TRUE],
           [op |-> "mark", id |-> c])

Marked(T, c, present) ==
  IF ~present \/ T.entry[c].heard # None THEN SettleElsewhere(T, c, T.entry[c].heard)
  ELSE Transmit(T, c)

(* What the page does with the answer of a write to the queue store.        *)
Answered(T, job, present) ==
  LET c == job.id
      E == T.entry[c]
      fixed == IF job.op = "fence" /\ E.st \notin Settled
               THEN [T EXCEPT !.entry[c].fencing = IF present THEN "kept" ELSE "gone"]
               ELSE T
  IN  CASE job.op = "save" ->
             IF E.st \in Settled THEN T
             ELSE [T EXCEPT !.entry[c].saved = IF present THEN "yes" ELSE "failed"]
        [] job.op \in {"fence", "look"} /\ E.st = "check" -> Looked(fixed, c, present)
        [] job.op = "mark" /\ E.st = "mark" -> Marked(T, c, present)
        [] OTHER -> fixed

Stored(job) ==
  LET c == job.id
      amended(r) ==
        CASE job.op = "fence" -> [r EXCEPT !.fence = job.fence]
          [] job.op = "after" -> [r EXCEPT !.after = job.after]
          [] job.op = "mark" -> [r EXCEPT !.sent = TRUE]
          [] job.op = "look" -> r
  IN  CASE job.op = "save" -> [d \in DOMAIN records \cup {c} |->
                                 IF d = c THEN job.rec ELSE records[d]]
        [] job.op = "remove" -> Restrict(records, DOMAIN records \ {c})
        [] OTHER -> [d \in DOMAIN records |->
                       IF d = c THEN amended(records[d]) ELSE records[d]]

(* The pages that hear how a record ended.                                  *)
Announced(t, job) ==
  IF job.op # "remove" THEN chan
  ELSE [u \in Tabs |-> IF u # t /\ tab[u].hears THEN Append(chan[u], job.note) ELSE chan[u]]

(* The next write of a page to the queue store, and what follows at once.   *)
DiskStep(t) ==
  LET job == Head(tab[t].disk)
      T == [tab[t] EXCEPT !.disk = Tail(@)]
      present == job.op = "save" \/ job.id \in DOMAIN records
  IN  /\ tab[t].disk # <<>>
      /\ records' = Stored(job)
      /\ Page(t, Answered(T, job, present))
      /\ chan' = Announced(t, job)
      /\ withdrawn' = IF job.op = "remove" /\ present /\ job.note.out = "undone"
                      THEN withdrawn \cup {job.id} ELSE withdrawn
      /\ net' = net \cup Sent(t)
      /\ UNCHANGED <<made, online, replies, serverVars, spent>>

(* The database fails: a record is not kept, or not changed, or not         *)
(* removed, and a change of one is taken to have been made.                 *)
DiskFault(t) ==
  LET job == Head(tab[t].disk)
      T == [tab[t] EXCEPT !.disk = Tail(@)]
  IN  /\ tab[t].disk # <<>>
      /\ Page(t, Answered(T, job, job.op # "save"))
      /\ chan' = Announced(t, job)
      /\ Spend("fault")
      /\ net' = net \cup Sent(t)
      /\ UNCHANGED <<made, deviceVars, replies, serverVars, withdrawn>>

Awaits(t, c, try) == tab[t].entry[c].st = "sending" /\ tab[t].entry[c].try = try

Pending(t, c) == Request(t, c, tab[t].entry[c].fence, tab[t].entry[c].try)

(* The attempt fails for the page: the request or its answer is lost, or    *)
(* the request is only late, or the server answers 401, 429 or 5xx.  It is  *)
(* sent again under the same key, or given up: kept for a replay, or failed *)
(* when it could not be kept.                                               *)
Fail(t, c) ==
  LET E == tab[t].entry[c]
      again == E.try < MaxRetries /\ online
      retry == [tab[t] EXCEPT !.entry[c].try = @ + 1]
      park == IF E.stored THEN Park(tab[t], c)
              ELSE Drop(tab[t], c, Note(c, "unsent", None))
  IN  /\ E.st = "sending"
      /\ Spend("fail")
      /\ replies' = {r \in replies : ~(r.tab = t /\ r.note.id = c)}
      /\ \E lost \in BOOLEAN :
           LET left == IF lost THEN net \ {Pending(t, c)} ELSE net
           IN  \/ /\ again
                  /\ Page(t, retry)
                  /\ net' = left \cup {Request(t, c, E.fence, E.try + 1)}
               \/ /\ Page(t, park)
                  /\ net' = left
      /\ UNCHANGED <<made, chan, deviceVars, serverVars, withdrawn>>

(* The answer of the request the page waits for.                            *)
Reply(t, c) ==
  \E r \in replies :
    LET note == r.note
        T == IF note.out = "refused" THEN tab[t] ELSE Learn(tab[t], note.version)
    IN  /\ r.tab = t /\ note.id = c
        /\ replies' = replies \ {r}
        /\ Page(t, IF note.out = "done" THEN Settle(T, c, note) ELSE Drop(T, c, note))
        /\ UNCHANGED <<made, chan, deviceVars, net, serverVars, withdrawn, spent>>

----------------------------------------------------------------------------
(* Other pages, the lists, the connection.                                  *)

(* onNote: how another page says a record ended.                            *)
Hear(t) ==
  LET note == Head(chan[t])
      E == tab[t].entry[note.id]
  IN  /\ chan[t] # <<>>
      /\ chan' = [chan EXCEPT ![t] = Tail(@)]
      /\ Page(t, IF ~E.stored THEN tab[t]
                 ELSE IF E.st \in {"waiting", "queued"} THEN SettleElsewhere(tab[t], note.id, note)
                 ELSE IF E.st \in {"saving", "turn", "check", "mark"}
                 THEN [tab[t] EXCEPT !.entry[note.id].heard = note]
                 ELSE tab[t])
      /\ UNCHANGED <<made, deviceVars, netVars, serverVars, withdrawn, spent>>

(* observe: a list or the article itself is fetched.                        *)
Observe(t, version) ==
  /\ online
  /\ version > tab[t].known \/ (version = tab[t].known /\ Sweepable(tab[t]))
  /\ Page(t, Learn(Sweep(tab[t]), version))
  /\ UNCHANGED <<made, chan, deviceVars, netVars, serverVars, withdrawn, spent>>

Disconnect ==
  /\ online /\ Spend("drop")
  /\ online' = FALSE
  /\ UNCHANGED <<pageVars, records, netVars, serverVars, withdrawn>>

Reconnect ==
  /\ ~online
  /\ online' = TRUE
  /\ UNCHANGED <<pageVars, records, netVars, serverVars, withdrawn, spent>>

(* The page is closed or reloaded: what it had in memory is gone, requests  *)
(* it sent are not.                                                         *)
Reload(t) ==
  /\ Spend("crash")
  /\ tab' = [tab EXCEPT ![t] = Fresh(@.told)]
  /\ chan' = [chan EXCEPT ![t] = <<>>]
  /\ replay' = [replay EXCEPT ![t] = Resting]
  /\ lock' = IF lock = t THEN None ELSE lock
  /\ replies' = {r \in replies : r.tab # t}
  /\ UNCHANGED <<made, deviceVars, net, serverVars, withdrawn>>

----------------------------------------------------------------------------
(* The replay.                                                              *)

(* restore(): at startup, and offline while changes are shown as waiting.   *)
Restore(t) ==
  /\ replay[t].pc = "idle"
  /\ tab[t].known = Unknown \/ (~online /\ HasWaiting(tab[t]))
  /\ Page(t, Adopt(tab[t], records, Durable(tab[t])))
  /\ UNCHANGED <<made, chan, deviceVars, netVars, serverVars, withdrawn, spent>>

(* run(), replay(): inside the Web Lock, the records are listed.            *)
ReplayBegin(t) ==
  /\ online /\ replay[t].pc = "idle"
  /\ DOMAIN records # {} \/ HasWaiting(tab[t])
  /\ LockFree(t)
  /\ lock' = t
  /\ replay' = [replay EXCEPT ![t] = [pc |-> "listed", recs |-> records,
                                      old |-> Durable(tab[t]), cur |-> None]]
  /\ UNCHANGED <<made, tab, chan, deviceVars, netVars, serverVars, withdrawn, spent>>

(* Mutant of Draining: a head that followed another change is left waiting. *)
DrainingFirst(T) ==
  LET head == Head0(T)
  IN  IF head # None /\ T.entry[head].st = "waiting" /\ T.entry[head].after = None
      THEN [Resting EXCEPT !.pc = "drain"] ELSE Resting

(* drain() begins when the head of the page's queue waits.                  *)
Draining(T) ==
  LET head == Head0(T)
  IN  IF head # None /\ T.entry[head].stored /\ T.entry[head].st = "waiting"
      THEN [Resting EXCEPT !.pc = "drain"] ELSE Resting

(* The server confirmed the account: the page is made to agree with the     *)
(* list, what is too old is dropped, and the rest is sent.  Without a       *)
(* connection, or without records, the page is only made to agree.          *)
ReplayAdopt(t) ==
  LET R == replay[t]
      T == Adopt(tab[t], R.recs, R.old)
      sends == DOMAIN R.recs # {} /\ online
  IN  /\ R.pc = "listed"
      /\ \/ Become(t, T, IF sends THEN Draining(tab'[t]) ELSE Resting) /\ UNCHANGED spent
         \/ /\ sends /\ Spend("expiry")
            /\ \E k \in DOMAIN made :
                 Become(t, Expired(T, k), Draining(tab'[t]))
      /\ UNCHANGED <<made, chan, deviceVars, netVars, serverVars, withdrawn>>

(* The account check fails, or finds no account or another one.             *)
ReplayAbandon(t) ==
  /\ replay[t].pc = "listed" /\ DOMAIN replay[t].recs # {}
  /\ Spend("fail")
  /\ Become(t, tab[t], Resting)
  /\ UNCHANGED <<made, chan, deviceVars, netVars, serverVars, withdrawn>>

(* advance(): the head of the queue is sent, then the next, until one of    *)
(* them has to wait.                                                        *)
DrainNext(t) ==
  LET head == Head0(tab[t])
  IN  /\ replay[t].pc = "drain" /\ head # None /\ head # replay[t].cur
      /\ Become(t, IF tab[t].entry[head].st = "waiting" THEN Start(tab[t], head) ELSE tab[t],
                   [replay[t] EXCEPT !.cur = head])
      /\ UNCHANGED <<made, chan, deviceVars, netVars, serverVars, withdrawn, spent>>

DrainEnd(t) ==
  LET head == Head0(tab[t])
  IN  /\ replay[t].pc = "drain"
      /\ head # None => head = replay[t].cur /\ tab[t].entry[head].st = "waiting"
      /\ Become(t, tab[t], Resting)
      /\ UNCHANGED <<made, chan, deviceVars, netVars, serverVars, withdrawn, spent>>

----------------------------------------------------------------------------
(* The server.                                                              *)

Answer(r, note) ==
  replies' = IF Awaits(r.tab, r.id, r.try)
             THEN replies \cup {[tab |-> r.tab, note |-> note]} ELSE replies

(* mutate(): the receipt of the same request is its answer again; the same  *)
(* key with another fence is another request, and refused.                  *)
Replayed(r) ==
  /\ receipts[r.id] # None
  /\ Answer(r, IF receipts[r.id].fence = r.fence
               THEN Note(r.id, "done", receipts[r.id].version)
               ELSE Note(r.id, "refused", None))
  /\ UNCHANGED serverVars

(* Mutant of Applied: the fence is not compared with the row.               *)
AppliedUnfenced(r) ==
  /\ receipts[r.id] = None
  /\ log' = Append(log, r.id)
  /\ receipts' = [receipts EXCEPT ![r.id] = [fence |-> r.fence, version |-> Len(log) + 1]]
  /\ Answer(r, Note(r.id, "done", Len(log) + 1))

(* lockFenced(), writeReader() and saveMutation(), one transaction.         *)
Applied(r) ==
  /\ receipts[r.id] = None /\ r.fence = Len(log)
  /\ log' = Append(log, r.id)
  /\ receipts' = [receipts EXCEPT ![r.id] = [fence |-> r.fence, version |-> Len(log) + 1]]
  /\ Answer(r, Note(r.id, "done", Len(log) + 1))

StaleState(r) ==
  /\ receipts[r.id] = None /\ r.fence # Len(log)
  /\ Answer(r, Note(r.id, "stale", Len(log)))
  /\ UNCHANGED serverVars

(* The article or the label is no longer the caller's: 404.                 *)
NotFound(r) ==
  /\ receipts[r.id] = None /\ Spend("fail")
  /\ Answer(r, Note(r.id, "refused", None))
  /\ UNCHANGED serverVars

Handle(r) ==
  /\ r \in net
  /\ net' = net \ {r}
  /\ \/ (Replayed(r) \/ Applied(r) \/ StaleState(r)) /\ UNCHANGED spent
     \/ NotFound(r)
  /\ UNCHANGED <<pageVars, deviceVars, withdrawn>>

OtherWrites ==
  /\ Spend("other")
  /\ log' = Append(log, Other)
  /\ UNCHANGED <<pageVars, deviceVars, netVars, receipts, withdrawn>>

----------------------------------------------------------------------------
(* run() goes on with the one change the page is sending.                   *)
Carry(t) == \E c \in Changes : Resume(t, c) \/ Acquire(t, c) \/ Reply(t, c)
ReplayStep(t) == ReplayAdopt(t) \/ DrainNext(t) \/ DrainEnd(t)

Next ==
  \/ \E t \in Tabs :
       \/ \E c \in Changes : Undo(t, c) \/ Fail(t, c)
       \/ Dispatch(t) \/ Carry(t) \/ DiskStep(t) \/ Hear(t) \/ ReplayStep(t)
       \/ \E v \in 0..Len(log) : Observe(t, v)
       \/ DiskFault(t) \/ Reload(t)
       \/ Restore(t) \/ ReplayBegin(t) \/ ReplayAbandon(t)
  \/ \E r \in net : Handle(r)
  \/ Disconnect \/ Reconnect \/ OtherWrites

Spec == Init /\ [][Next]_vars

(* The pages run, the device's database and the server answer, the          *)
(* connection comes back, the Web Lock is granted in turn, and a page tries *)
(* again by itself while kept changes wait.                                 *)
Fairness ==
  /\ WF_vars(Reconnect)
  /\ WF_vars(\E r \in net : Handle(r))
  /\ \A t \in Tabs :
       /\ SF_vars(Carry(t)) /\ SF_vars(ReplayBegin(t)) /\ WF_vars(ReplayStep(t))
       /\ WF_vars(DiskStep(t)) /\ WF_vars(Hear(t)) /\ WF_vars(Restore(t))

FairSpec == Spec /\ Fairness
----------------------------------------------------------------------------
(* Properties.                                                              *)

Notes == [id : Changes, out : Outcomes, version : Versions \cup {None}]
Fences == Versions \cup {None}
RecordSet == [fence : Fences, after : Changes \cup {None}, sent : BOOLEAN, on : Versions]
Entries ==
  [st : Statuses, stored : BOOLEAN, saved : {"no", "yes", "failed"}, sent : BOOLEAN,
   fence : Fences, fencing : {"unset", "writing", "kept", "gone"},
   after : Changes \cup {None}, replayed : BOOLEAN, heard : Notes \cup {None},
   try : 0..MaxRetries]

(* The variables keep their shape; an unsettled change stands in its page's *)
(* queue once, and a page that sends kept changes holds the Web Lock.       *)
TypeOK ==
  /\ \A i \in DOMAIN made : made[i] \in [on : Versions, offline : BOOLEAN, first : BOOLEAN]
  /\ \A t \in Tabs :
       /\ tab[t].known \in Versions \cup {Unknown}
       /\ tab[t].entry \in [Changes -> Entries]
       /\ ToSet(tab[t].order) = {c \in Changes : tab[t].entry[c].st \notin Settled}
       /\ \A c, d \in DOMAIN tab[t].order : c # d => tab[t].order[c] # tab[t].order[d]
       /\ ToSet(chan[t]) \subseteq Notes
       /\ Busy(tab[t]) \/ replay[t].pc # "idle" => lock = t
  /\ DOMAIN records \subseteq DOMAIN made /\ \A c \in DOMAIN records : records[c] \in RecordSet
  /\ lock \in Tabs \cup {None}
  /\ online \in BOOLEAN
  /\ ToSet(log) \subseteq Changes \cup {Other}

(* Two pages that both keep a change never transmit it at the same time:    *)
(* there is one elected dispatcher (replay.ts createDispatchLock).          *)
OneSender ==
  \A t, u \in Tabs, c \in Changes :
    t # u /\ c \in Kept(tab[t]) \cap Kept(tab[u])
    => ~(tab[t].entry[c].st = "sending" /\ tab[u].entry[c].st = "sending")

Position(c) == CHOOSE i \in DOMAIN log : log[i] = c
InLog(c) == \E i \in DOMAIN log : log[i] = c

(* A change that a page calls done was applied, whichever page sent it and  *)
(* however the others heard of it.                                          *)
Told(c) == UNION {tab[t].told[c] : t \in Tabs}
DoneIsApplied == \A c \in Changes : "done" \in Told(c) => InLog(c)

(* So far the device's database has done all it was asked.                  *)
DiskSound == spent.fault = 0

(* A change that the only page calls stale is never applied, whatever retry *)
(* or late duplicate of it is still on its way: all carry the one fence.    *)
StaleIsNotApplied ==
  DiskSound => \A c \in Changes : "stale" \in Told(c) => ~InLog(c)

(* The server never answers a page that waits for an applied change that it *)
(* is refused: every request of one key carries the one fence, so none of   *)
(* them is taken for another use of the key.                                *)
NeverRefusedAfterApplied ==
  [][\A r \in replies' \ replies :
       DiskSound /\ r.note.out = "refused" => ~InLog(r.note.id)]_vars

(* A change that an Undo of the only page took back before it was sent, and *)
(* whose record that page lived to remove, is never applied and no request  *)
(* of it is on its way, whatever is lost, late, restored or reloaded after  *)
(* the removal.  The Undo answers before the removal is done (store.ts      *)
(* retire): a page reloaded in between restores the change and may send it. *)
WithdrawnNeverApplied ==
  DiskSound => \A c \in withdrawn : ~InLog(c) /\ \A r \in net : r.id # c

(* A change is applied at most once, and one that followed no other when it  *)
(* was made only to the very state it was made on, whichever page sent it,   *)
(* again and again, or restored it (the fence of the record, lockFenced).    *)
AppliedAsMade ==
  \A i \in DOMAIN log : log[i] \in Changes =>
    /\ \A j \in DOMAIN log : log[j] = log[i] => j = i
    /\ made[log[i]].first => made[log[i]].on = i - 1

(* A change made offline is never applied over a write of another device    *)
(* that the person had not seen when making it.                             *)
NoSilentOverwrite ==
  \A i \in DOMAIN log :
    log[i] \in Changes /\ made[log[i]].offline
    => \A j \in (made[log[i]].on + 1)..(i - 1) : log[j] # Other

(* Every change settles: no page shows it as unsettled for ever, and no     *)
(* record of one stays on the device of which the person was told nothing.  *)
(* Whatever happens, the time comes again when nothing is unsettled.        *)
Unsettled(c) ==
  \/ c \in DOMAIN records /\ Told(c) = {}
  \/ \E t \in Tabs : tab[t].entry[c].st \notin Settled
EverythingSettles == []<>(\A c \in Changes : ~Unsettled(c))
============================================================================
