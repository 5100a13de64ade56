----------------------------- MODULE MatchQueue -----------------------------
(***************************************************************************)
(* The classification queue of one article (packages/db/src/classify/      *)
(* match-claims.ts, ingest/match-queue.ts) and the workers that empty it   *)
(* (apps/worker/src/handlers/article-match.ts).                            *)
(*                                                                         *)
(* A row (article, card) asks for one answer.  Producers insert rows;      *)
(* article.match jobs lease them, ask an engine outside any transaction    *)
(* and write the answers back.  A step is one database transaction, with   *)
(* the reads that precede it where nothing can tell the two apart.         *)
(*                                                                         *)
(* A lease token is a fresh UUID that is compared with the token of the    *)
(* job that holds it and with nothing else, so it is the job's worker      *)
(* while the job lives and Orphan afterwards.  Times are the two facts the *)
(* code asks of them: whether the lease has run out (live) and whether the *)
(* due time, or the cool-down of an exhausted row, has passed (ripe).      *)
(***************************************************************************)
EXTENDS Naturals, FiniteSets

CONSTANTS
  Cards,        \* the cards whose pairs with the article are followed
  Workers,      \* worker slots; several may run after the queue gives one up
  MaxAttempts,  \* MATCH_MAX_ATTEMPTS
  ClaimLimit,   \* MATCH_CLAIM_LIMIT, or the caller's limit
  MaxRev,       \* bound on the content revision
  MaxCfg,       \* bound on the changes of the compared configuration
  MaxFaults,    \* bound on crashes, shutdowns and overrun jobs
  Orphan,       \* the token of a job that is gone
  None          \* no row, no answer, no token, no worker

ASSUME BoundsAssumption ==
  /\ MaxAttempts \in Nat \ {0}
  /\ ClaimLimit \in Nat \ {0}
  /\ MaxRev \in Nat \ {0}
  /\ MaxCfg \in Nat \ {0}
  /\ MaxFaults \in Nat

ASSUME NamesAssumption ==
  /\ None \notin Workers
  /\ Orphan \notin Workers \cup {None}

VARIABLES
  rev,     \* articles.content_revision
  stage,   \* pipeline_state: "waiting" for facets, "enriched" or "matched"
  cfg,     \* the compared settings: active sets, card text mode, language mode
  demand,  \* the cards somebody holds, in scope and admitted
  row,     \* match_queue
  ans,     \* card_answers
  intent,  \* an article.match job is recorded and has not started
  active,  \* the worker whose job the queue counts as active
  job,     \* what each worker is doing
  want,    \* cards with a card.backfill job that has not read the article
  plan,    \* a producer's decision between its reads and its transaction
  faults   \* crashes, shutdowns and overruns so far

store == <<rev, stage, cfg, demand>>
vars == <<rev, stage, cfg, demand, row, ans, intent, active, job, want, plan,
          faults>>

Owners == Workers \cup {Orphan, None}

Rows == [rev : 1..MaxRev, att : 0..MaxAttempts, own : Owners, live : BOOLEAN,
         ripe : BOOLEAN, bad : BOOLEAN]

Answers == [rev : 1..MaxRev, cfg : 1..MaxCfg, eng : {"llm", "primary"}]

\* held: claimed rows not yet completed, dropped or released; todo: those of a
\* pack not yet asked; ask: those of the call under way.  A job is at "packs"
\* before its first pack and at "more" after each.
Jobs == [pc : {"idle", "claimed", "packs", "call", "more", "finish"}, rev : 1..MaxRev,
         cfg : 1..MaxCfg, held : SUBSET Cards, todo : SUBSET Cards,
         ask : SUBSET Cards, lost : BOOLEAN]

Plans == [card : Cards, rev : 1..MaxRev, revive : BOOLEAN,
          kind : {"queue", "match", "requeue"}]

ASSUME RecordsAssumption == None \notin Rows \cup Answers \cup Plans

Idle == [pc |-> "idle", rev |-> 1, cfg |-> 1, held |-> {}, todo |-> {},
         ask |-> {}, lost |-> FALSE]

-----------------------------------------------------------------------------
(* Rows                                                                    *)

NewRow(v) == [rev |-> v, att |-> 0, own |-> None, live |-> FALSE,
              ripe |-> TRUE, bad |-> FALSE]

\* As if the insert said ON CONFLICT DO NOTHING.
UpsertNothing(r, v) == IF r = None THEN NewRow(v) ELSE r

\* INSERT ... ON CONFLICT: live work at this revision is left alone, an older
\* row starts afresh, a newer one stays.
Upsert(r, v) ==
  IF r = None THEN NewRow(v) ELSE IF r.rev < v THEN NewRow(v) ELSE r

UpsertRows(C, v) == [c \in Cards |-> IF c \in C THEN Upsert(row[c], v) ELSE row[c]]

Unleased(r) == r.own = None \/ ~ r.live

\* As if rows of a worker that died were never handed out again.
ClaimableUnowned(c) ==
  /\ row[c] # None
  /\ row[c].rev = rev
  /\ row[c].att < MaxAttempts
  /\ row[c].ripe
  /\ row[c].own = None

\* As if the claim did not look at leases.
ClaimableLeased(c) ==
  /\ row[c] # None
  /\ row[c].rev = rev
  /\ row[c].att < MaxAttempts
  /\ row[c].ripe

Claimable(c) ==
  /\ row[c] # None
  /\ row[c].rev = rev
  /\ row[c].att < MaxAttempts
  /\ row[c].ripe
  /\ Unleased(row[c])

Released(r) == [r EXCEPT !.own = None, !.live = FALSE]

Deferred(r) == [Released(r) EXCEPT !.ripe = FALSE, !.bad = FALSE]

\* One failed attempt for the pack.  The due time moves on; on the last
\* attempt it is the time the row gave up, from which its cool-down counts.
Failed(r) ==
  [Released(r) EXCEPT !.att = IF @ < MaxAttempts THEN @ + 1 ELSE @,
                      !.ripe = FALSE, !.bad = FALSE]

\* An attempt too many.
ExhaustedPast(r) ==
  [Released(r) EXCEPT !.att = MaxAttempts + 1, !.ripe = FALSE, !.bad = TRUE]

Exhausted(r) ==
  [Released(r) EXCEPT !.att = MaxAttempts, !.ripe = FALSE, !.bad = TRUE]

Revived(r) == [r EXCEPT !.att = 0, !.ripe = TRUE, !.bad = FALSE]

\* The rows that carry the worker's lease token.
Leased(w) == {c \in Cards : row[c] # None /\ row[c].own = w}

\* heldMatchRows: those of C the lease still holds at the job's revision.
Mine(w, C) == {c \in C \cap Leased(w) : row[c].rev = job[w].rev}

\* renewMatchLease moves the expiry of every row with the token on, before
\* what To does to the rows of C.
Renew(w, gone, C, To(_)) ==
  [c \in Cards |-> IF c \in gone THEN None
                   ELSE IF c \in C THEN To(row[c])
                   ELSE IF c \in Leased(w) THEN [row[c] EXCEPT !.live = TRUE]
                   ELSE row[c]]

\* releaseMatchRows: only rows that still carry the token.
Release(w, C, To(_)) ==
  [c \in Cards |-> IF c \in C \cap Leased(w) THEN To(row[c]) ELSE row[c]]

\* The token of a job that ends is nobody's any more.
Orphaned(rows, w) ==
  [c \in Cards |-> IF rows[c] # None /\ rows[c].own = w
                   THEN [rows[c] EXCEPT !.own = Orphan] ELSE rows[c]]

-----------------------------------------------------------------------------
(* Answers                                                                 *)

Current(a, v, k) == a # None /\ a.rev = v /\ a.cfg = k

Satisfied(c, v, k) == Current(ans[c], v, k) /\ ans[c].eng = "primary"

\* As if the last writer won.
WritableAlways(a, b) == a = None \/ a.rev <= b.rev

\* A stored answer gives way to one of a newer revision, of another input, or
\* of an engine that is not beneath it.
Writable(a, b) ==
  \/ a = None
  \/ a.rev < b.rev
  \/ a.rev = b.rev /\ (a.cfg # b.cfg \/ a.eng = "llm" \/ b.eng = "primary")

WriteAnswers(C, b) ==
  [c \in Cards |-> IF c \in C /\ Writable(ans[c], b) THEN b ELSE ans[c]]

Classified == stage \in {"enriched", "matched"}

-----------------------------------------------------------------------------
TypeOK ==
  /\ rev \in 1..MaxRev
  /\ stage \in {"waiting", "enriched", "matched"}
  /\ cfg \in 1..MaxCfg
  /\ demand \in SUBSET Cards
  /\ row \in [Cards -> Rows \cup {None}]
  /\ ans \in [Cards -> Answers \cup {None}]
  /\ intent \in BOOLEAN
  /\ active \in Workers \cup {None}
  /\ job \in [Workers -> Jobs]
  /\ want \in SUBSET Cards
  /\ plan \in Plans \cup {None}
  /\ faults \in 0..MaxFaults

Init ==
  /\ rev = 1
  /\ stage = "waiting"
  /\ cfg = 1
  /\ demand = {}
  /\ row = [c \in Cards |-> None]
  /\ ans = [c \in Cards |-> None]
  /\ intent = FALSE
  /\ active = None
  /\ job = [w \in Workers |-> Idle]
  /\ want = {}
  /\ plan = None
  /\ faults = 0

-----------------------------------------------------------------------------
(* The article and its readers                                             *)

\* A reader starts to hold the card; card.backfill is recorded with it.
GainDemand(c) ==
  /\ c \notin demand
  /\ demand' = demand \cup {c}
  /\ want' = want \cup {c}
  /\ UNCHANGED <<rev, stage, cfg, row, ans, intent, active, job, plan, faults>>

LoseDemand(c) ==
  /\ c \in demand
  /\ demand' = demand \ {c}
  /\ UNCHANGED <<rev, stage, cfg, row, ans, intent, active, job, want, plan,
                 faults>>

\* resetArticleAnswers: answers go, demanded pairs are queued at the new
\* revision and what is left of older revisions is dropped.
Reset ==
  /\ rev < MaxRev
  /\ rev' = rev + 1
  /\ stage' = "waiting"
  /\ ans' = [c \in Cards |-> None]
  /\ row' = [c \in Cards |->
               IF c \in demand THEN Upsert(row[c], rev + 1) ELSE None]
  /\ UNCHANGED <<cfg, demand, intent, active, job, want, plan, faults>>

\* The completion of article.enrich: the admitted cards are queued whatever
\* answers they have, and matching follows if anybody wants the article, be it
\* without a card.
Enrich ==
  /\ stage = "waiting"
  /\ stage' = "enriched"
  /\ row' = UpsertRows(demand, rev)
  /\ intent' \in IF demand = {} THEN {intent, TRUE} ELSE {TRUE}
  /\ UNCHANGED <<rev, cfg, demand, ans, active, job, want, plan, faults>>

\* An administrator switches a question set or a mode.
ChangeConfig ==
  /\ cfg < MaxCfg
  /\ cfg' = cfg + 1
  /\ UNCHANGED <<rev, stage, demand, row, ans, intent, active, job, want, plan,
                 faults>>

\* analysis.process answers a selected request whose frozen input is the
\* current one, and fills the shared cache under the same locks.
CacheFill(c) ==
  /\ ~ Satisfied(c, rev, cfg)
  /\ ans' = WriteAnswers({c}, [rev |-> rev, cfg |-> cfg, eng |-> "primary"])
  /\ UNCHANGED <<store, row, intent, active, job, want, plan, faults>>

-----------------------------------------------------------------------------
(* Producers: read first, decide, write in a transaction of their own      *)

\* An article that still waits for its body is left to its enrichment.
BackfillRead(c) ==
  /\ c \in want
  /\ plan = None
  /\ want' = want \ {c}
  /\ LET kind == IF Classified THEN "match" ELSE "queue"
     IN \/ /\ c \in demand
           /\ ~ (Classified /\ Satisfied(c, rev, cfg))
           /\ plan' = [card |-> c, rev |-> rev, revive |-> FALSE, kind |-> kind]
        \/ /\ c \notin demand \/ Satisfied(c, rev, cfg) \/ ~ Classified
           /\ plan' = None
  /\ UNCHANGED <<store, row, ans, intent, active, job, faults>>

\* house.rematch, which an administrator starts for pairs whose answer no
\* longer fits; a pair exhausted as invalid is revived if it had an answer.
RematchRead(c) ==
  /\ plan = None
  /\ Classified
  /\ c \in demand
  /\ ~ Current(ans[c], rev, cfg)
  /\ plan' = [card |-> c, rev |-> rev, kind |-> "match",
              revive |-> ans[c] # None]
  /\ UNCHANGED <<store, row, ans, intent, active, job, want, faults>>

\* house.rescore-degraded finds a fallback answer to ask again.
RescoreRead(c) ==
  /\ plan = None
  /\ Classified
  /\ ans[c] # None
  /\ ans[c].rev = rev
  /\ ans[c].eng = "llm"
  /\ plan' = [card |-> c, rev |-> rev, revive |-> FALSE, kind |-> "requeue"]
  /\ UNCHANGED <<store, row, ans, intent, active, job, want, faults>>

Revivable(c) ==
  /\ plan.revive
  /\ row[c] # None
  /\ row[c].rev = plan.rev
  /\ row[c].att = MaxAttempts
  /\ row[c].bad
  /\ ~ row[c].live

\* The producer's transaction, at the revision it read.  Only the rescore job
\* reads the demand again.
WritePlan ==
  /\ plan # None
  /\ LET c == plan.card
         stays == plan.kind = "requeue" /\ c \notin demand
     IN /\ row' = IF stays THEN row
                  ELSE [row EXCEPT ![c] =
                          IF Revivable(c)
                          THEN Revived(Released(row[c]))
                          ELSE Upsert(row[c], plan.rev)]
        /\ intent' = (intent \/ (~ stays /\ plan.kind # "queue"))
  /\ plan' = None
  /\ UNCHANGED <<store, ans, active, job, want, faults>>

\* recoverMatchQueue, while the primary engine is available: service failures
\* past their cool-down start again, and due rows get a job.
Recoverable(c) ==
  /\ row[c] # None
  /\ row[c].rev = rev
  /\ row[c].att = MaxAttempts
  /\ Unleased(row[c])
  /\ ~ row[c].bad
  /\ row[c].ripe

Recover ==
  /\ Classified
  /\ \E c \in Cards : Claimable(c) \/ Recoverable(c)
  /\ row' = [c \in Cards |-> IF Recoverable(c) THEN Revived(row[c]) ELSE row[c]]
  /\ intent' = TRUE
  /\ UNCHANGED <<store, ans, active, job, want, plan, faults>>

-----------------------------------------------------------------------------
(* Time                                                                    *)

Ripen(c) ==
  /\ row[c] # None
  /\ ~ row[c].ripe
  /\ row' = [row EXCEPT ![c].ripe = TRUE]
  /\ UNCHANGED <<store, ans, intent, active, job, want, plan, faults>>

\* A lease runs out.  Rows of one token share their expiry; those of jobs that
\* are gone need not.
Lapse(c) ==
  /\ row[c] # None
  /\ row[c].own = Orphan
  /\ row[c].live
  /\ row' = [row EXCEPT ![c].live = FALSE]
  /\ UNCHANGED <<store, ans, intent, active, job, want, plan, faults>>

Expire(w) ==
  /\ \E c \in Leased(w) : row[c].live
  /\ row' = [c \in Cards |-> IF c \in Leased(w)
                             THEN [row[c] EXCEPT !.live = FALSE] ELSE row[c]]
  /\ UNCHANGED <<store, ans, intent, active, job, want, plan, faults>>

-----------------------------------------------------------------------------
(* article.match                                                           *)

\* The job takes its configuration snapshot and claims due rows, up to the
\* limit and without those another running job has locked (SKIP LOCKED).
Claim(w) ==
  /\ intent
  /\ active = None
  /\ job[w].pc = "idle"
  /\ LET due == {c \in Cards : Claimable(c)}
     IN \E C \in SUBSET due :
          /\ Cardinality(C) <= ClaimLimit
          /\ \/ C = due \/ Cardinality(C) = ClaimLimit
             \/ \E x \in Workers \ {w} : job[x].pc # "idle"
          /\ row' = [c \in Cards |->
                       IF c \in C
                       THEN [row[c] EXCEPT !.own = w, !.live = TRUE]
                       ELSE row[c]]
          /\ job' = [job EXCEPT ![w] =
                       [Idle EXCEPT !.pc = "claimed", !.rev = rev, !.cfg = cfg,
                                    !.held = C]]
  /\ intent' = FALSE
  /\ active' = w
  /\ UNCHANGED <<store, ans, want, plan, faults>>

Ended(w) ==
  /\ job' = [job EXCEPT ![w] = Idle]
  /\ active' = IF active = w THEN None ELSE active

\* The article moved on, or its facets are gone: the rows go back.
GiveBack(w) ==
  /\ job[w].pc = "claimed"
  /\ job[w].rev # rev \/ ~ Classified
  /\ row' = Orphaned(Release(w, job[w].held, Released), w)
  /\ Ended(w)
  /\ UNCHANGED <<store, ans, intent, want, plan, faults>>

\* The fence of a write that rests on the snapshot: but for those already gone
\* the held rows go back unanswered, current work is recorded and the job asks
\* nothing more.
Outdated(w, gone) ==
  /\ LET back == Release(w, job[w].held, Released)
     IN row' = Orphaned([c \in Cards |-> IF c \in gone THEN None ELSE back[c]], w)
  /\ intent' = TRUE
  /\ Ended(w)
  /\ UNCHANGED ans

\* As if the settings were not compared.
ConfigHoldsAlways(w) == TRUE

\* Both halves of the fence, read under locks the transaction keeps.
RevisionHolds(w) == job[w].rev = rev
ConfigHolds(w) == job[w].cfg = cfg

\* prepareCards: pairs without demand are dropped, pairs with a current
\* primary answer are complete, the rest is packed.
Prepare(w) ==
  /\ job[w].pc = "claimed"
  /\ RevisionHolds(w)
  /\ Classified
  /\ LET mine == Mine(w, job[w].held)
         undemanded == mine \ demand
         sated == {c \in mine \cap demand :
                     Satisfied(c, job[w].rev, job[w].cfg)}
         gone == undemanded \cup sated
     IN IF sated # {} /\ ~ ConfigHolds(w)
        THEN Outdated(w, undemanded)
        ELSE /\ row' = Renew(w, gone, {}, Released)
             /\ job' = [job EXCEPT ![w] =
                          [@ EXCEPT !.pc = "packs", !.held = job[w].held \ gone,
                                    !.todo = mine \ gone,
                                    !.lost = job[w].lost \/ (job[w].held # {} /\ Leased(w) = {})]]
             /\ UNCHANGED <<ans, intent, active>>
  /\ UNCHANGED <<store, want, plan, faults>>

\* askPack up to the call: the lease is renewed, the demand of the pack's
\* rows is read under their locks, and what is left is asked.
AskPack(w, P) ==
  /\ job[w].pc \in {"packs", "more"}
  /\ ~ job[w].lost
  /\ P # {}
  /\ LET cards == P \cap job[w].held
         mine == Mine(w, cards)
         asked == mine \cap demand
     IN IF Leased(w) = {}
        THEN /\ job' = [job EXCEPT ![w] = [@ EXCEPT !.lost = TRUE, !.todo = {}]]
             /\ UNCHANGED row
        ELSE /\ row' = Renew(w, mine \ demand, {}, Released)
             /\ job' = [job EXCEPT ![w] =
                          [@ EXCEPT !.pc = IF asked = {} THEN "more" ELSE "call",
                                    !.held = job[w].held \ (mine \ demand),
                                    !.todo = job[w].todo \ P, !.ask = asked]]
  /\ UNCHANGED <<store, ans, intent, active, want, plan, faults>>

\* A reply to a job whose revision is gone is discarded.
Discard(w) ==
  /\ job[w].pc = "call"
  /\ ~ RevisionHolds(w)
  /\ job' = [job EXCEPT ![w] = [@ EXCEPT !.pc = "more", !.ask = {}]]
  /\ UNCHANGED <<store, row, ans, intent, active, want, plan, faults>>

\* A reply to a job whose configuration is gone.
OutdatedReply(w) ==
  /\ job[w].pc = "call"
  /\ RevisionHolds(w)
  /\ ~ ConfigHolds(w)
  /\ Outdated(w, {})
  /\ UNCHANGED <<store, want, plan, faults>>

\* applyPack: engine e answered the cards in got.
ApplyPack(w, e, got) ==
  /\ job[w].pc = "call"
  /\ RevisionHolds(w)
  /\ ConfigHolds(w)
  /\ LET mine == Mine(w, job[w].ask)
         done == mine \cap demand \cap got
         failed == (mine \cap demand) \ got
         gone == done \cup (mine \ demand)
     IN /\ row' = Renew(w, gone, failed, Failed)
        /\ ans' = WriteAnswers(done, [rev |-> job[w].rev, cfg |-> job[w].cfg,
                                      eng |-> e])
        /\ job' = [job EXCEPT ![w] =
                     [@ EXCEPT !.pc = "more", !.ask = {},
                               !.held = job[w].held \ (gone \cup failed),
                               !.lost = job[w].lost \/ Leased(w) = {}]]
  /\ UNCHANGED <<store, intent, active, want, plan, faults>>

\* failPack: the rows of the pack that still carry the token are deferred,
\* failed or exhausted.
FailPack(w, To(_)) ==
  /\ job[w].pc = "call"
  /\ RevisionHolds(w)
  /\ ConfigHolds(w)
  /\ row' = Release(w, job[w].ask, To)
  /\ job' = [job EXCEPT ![w] = [@ EXCEPT !.pc = "more", !.ask = {},
                                         !.held = job[w].held \ job[w].ask]]
  /\ UNCHANGED <<store, ans, intent, active, want, plan, faults>>

\* failPack after no_demand: pairs without demand go, the others go back.
Revoked(w) ==
  /\ job[w].pc = "call"
  /\ RevisionHolds(w)
  /\ ConfigHolds(w)
  /\ LET mine == Mine(w, job[w].ask)
     IN /\ row' = Renew(w, mine \ demand, mine \cap demand, Released)
        /\ job' = [job EXCEPT ![w] = [@ EXCEPT !.pc = "more", !.ask = {},
                                               !.held = job[w].held \ mine,
                                               !.lost = job[w].lost \/ Leased(w) = {}]]
  /\ UNCHANGED <<store, ans, intent, active, want, plan, faults>>

\* No pack is left, the lease is lost, or the job's time is up, which is
\* looked at after the first pack.
Stop(w) ==
  /\ \/ job[w].pc = "more"
     \/ job[w].pc = "packs" /\ (job[w].lost \/ job[w].todo = {})
  /\ row' = IF job[w].lost THEN row ELSE Release(w, job[w].held, Released)
  /\ job' = [job EXCEPT ![w] = [@ EXCEPT !.pc = "finish",
                                         !.held = IF job[w].lost THEN job[w].held ELSE {}]]
  /\ UNCHANGED <<store, ans, intent, active, want, plan, faults>>

\* finish: the article's state, and a follow-up while rows are due or the job
\* left packs unasked.
Finish(w) ==
  /\ job[w].pc = "finish"
  /\ IF RevisionHolds(w) /\ ConfigHolds(w)
     THEN /\ stage' = IF ~ Classified THEN stage
                      ELSE IF \A c \in demand : Current(ans[c], rev, job[w].cfg)
                      THEN "matched" ELSE "enriched"
          /\ intent' = \/ intent
                       \/ ~ job[w].lost /\ (\/ job[w].todo # {}
                                            \/ \E c \in Cards : Claimable(c))
     ELSE /\ stage' = stage
          /\ intent' = (intent \/ RevisionHolds(w))
  /\ row' = Orphaned(row, w)
  /\ Ended(w)
  /\ UNCHANGED <<rev, cfg, demand, ans, want, plan, faults>>

-----------------------------------------------------------------------------
(* What goes wrong                                                         *)

\* The process dies; the queue hands the job out again unless its retries
\* are spent.
Crash(w) ==
  /\ faults < MaxFaults
  /\ job[w].pc # "idle"
  /\ faults' = faults + 1
  /\ row' = Orphaned(row, w)
  /\ intent' \in IF active = w THEN {intent, TRUE} ELSE {intent}
  /\ Ended(w)
  /\ UNCHANGED <<store, ans, want, plan>>

\* The process is told to stop: it gives its lease back and records a job if
\* that freed rows.
Drain(w) ==
  /\ faults < MaxFaults
  /\ job[w].pc # "idle"
  /\ faults' = faults + 1
  /\ row' = Release(w, Cards, Released)
  /\ intent' \in IF Leased(w) # {} THEN {TRUE}
                 ELSE IF active = w THEN {intent, TRUE} ELSE {intent}
  /\ Ended(w)
  /\ UNCHANGED <<store, ans, want, plan>>

\* The job outlives its expiration: the queue counts it as gone, it goes on.
Overrun(w) ==
  /\ faults < MaxFaults
  /\ active = w
  /\ faults' = faults + 1
  /\ active' = None
  /\ intent' \in {intent, TRUE}
  /\ UNCHANGED <<store, row, ans, job, want, plan>>

-----------------------------------------------------------------------------
Producer ==
  \/ Enrich
  \/ WritePlan
  \/ Recover
  \/ \E c \in Cards : BackfillRead(c) \/ RematchRead(c) \/ RescoreRead(c)

Environment ==
  \/ Reset
  \/ ChangeConfig
  \/ \E c \in Cards : \/ GainDemand(c) \/ LoseDemand(c)
                      \/ CacheFill(c) \/ Ripen(c) \/ Lapse(c)
  \/ \E w \in Workers : Expire(w)

Answered(w) ==
  \E e \in {"llm", "primary"} : \E got \in SUBSET job[w].ask : ApplyPack(w, e, got)

Refused(w) ==
  \/ FailPack(w, Deferred)
  \/ FailPack(w, Failed)
  \/ FailPack(w, Exhausted)
  \/ Revoked(w)

Step(w) ==
  \/ Claim(w)
  \/ GiveBack(w)
  \/ Prepare(w)
  \/ \E P \in SUBSET job[w].todo : AskPack(w, P)
  \/ Discard(w)
  \/ OutdatedReply(w)
  \/ Answered(w)
  \/ Refused(w)
  \/ Stop(w)
  \/ Finish(w)

Fault(w) == Crash(w) \/ Drain(w) \/ Overrun(w)

Next ==
  \/ Producer
  \/ Environment
  \/ \E w \in Workers : Step(w) \/ Fault(w)

Spec == Init /\ [][Next]_vars

(* The queue hands jobs out and restarts them, workers carry on, backfills   *)
(* and enrichment run, the recovery job comes round every ten minutes and    *)
(* time passes.  Packs are ordered by age, so a pair that is left again and  *)
(* again is asked, and an engine asked again and again answers in the end.   *)
Fairness ==
  /\ WF_vars(Enrich)
  /\ WF_vars(WritePlan)
  /\ WF_vars(Recover)
  /\ \A c \in Cards : /\ SF_vars(BackfillRead(c))
                       /\ WF_vars(Ripen(c))
                       /\ WF_vars(Lapse(c))
  /\ \A w \in Workers :
       /\ WF_vars(Step(w))
       /\ \A c \in Cards :
            /\ SF_vars(\E P \in SUBSET job[w].todo : c \in P /\ AskPack(w, P))
            /\ SF_vars(c \in job[w].ask /\ ApplyPack(w, "primary", job[w].ask))

FairSpec == Spec /\ Fairness

-----------------------------------------------------------------------------
(* Properties                                                              *)

\* No demanded pair is forgotten: it has an answer for this revision, a row at
\* it, or a producer still to come.  Drops race backfills and resets (D-91).
PairsAccounted ==
  \A c \in demand :
    \/ ans[c] # None
    \/ row[c] # None /\ row[c].rev = rev
    \/ c \in want
    \/ plan # None /\ plan.card = c /\ plan.rev = rev
    \/ stage = "waiting"

\* An answer that is stored answers the article's revision under the
\* configuration in force as it is stored, however long its call took (D-84).
AnswersFenced ==
  [][\A c \in Cards : ans'[c] \notin {ans[c], None} => Current(ans'[c], rev', cfg')]_vars

\* A current primary answer is never replaced by a fallback one.
PrimaryKept ==
  [][\A c \in Cards :
       Satisfied(c, rev, cfg) /\ rev' = rev => ans'[c] = ans[c]]_vars

\* Work under a lease that has not run out ends by its own worker's doing or by
\* a reset of the article; no other worker or producer takes it away.
LeaseRespected ==
  [][\A c \in Cards, w \in Workers :
       (c \in Leased(w) /\ row[c].live /\ rev' = rev)
         => \/ job'[w] # job[w]
            \/ row'[c] = row[c]
            \/ row'[c] = [row[c] EXCEPT !.live = FALSE]
            \/ row'[c] = [row[c] EXCEPT !.ripe = TRUE]]_vars

\* A failed attempt is counted against a row only by the worker that holds it,
\* for a call made under the configuration still in force (D-85).
FailuresHonest ==
  [][\A c \in Cards :
       (row[c] # None /\ row'[c] # None /\ row'[c].att > row[c].att)
         => \E w \in Workers : /\ c \in job[w].ask \cap Leased(w)
                               /\ job[w].rev = rev
                               /\ job[w].cfg = cfg]_vars

\* Every pair that stays demanded is answered, or set aside as a request no
\* engine accepts.
PairsServed ==
  \A c \in Cards :
    c \in demand ~> \/ c \notin demand
                    \/ ans[c] # None
                    \/ row[c] # None /\ row[c].bad
=============================================================================
