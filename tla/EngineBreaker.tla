--------------------------- MODULE EngineBreaker ---------------------------
(***************************************************************************)
(* The circuit breaker of one engine: the shared entry of                  *)
(* settings['engine.circuit'] with its row lock (packages/db/src/engine/   *)
(* store.ts), each router's coordinator with its cached copy and its       *)
(* window of outcomes (packages/engine/src/breaker.ts), the logical        *)
(* requests that ask it for admission (packages/engine/src/router.ts), an  *)
(* admin who requests resets (apps/api) and one who activates credentials. *)
(*                                                                         *)
(* A store update is one transaction, but its caller reads the clock and   *)
(* its cached state before it and acts on them after it: at[q] and         *)
(* before[q].  Times are ticks of one clock; 0 is an absent time.          *)
(***************************************************************************)
EXTENDS Integers, FiniteSets, SequencesExt

CONSTANTS
  Routers,     \* worker processes, one coordinator each
  Requests,    \* logical requests in flight
  RouterOf,    \* the router of each request
  Tokens,      \* probe lease tokens
  None,        \* no token
  MaxVersion,  \* credential versions 1..MaxVersion are modelled
  MaxNow,      \* the clock stops there
  MinRequests, \* outcomes a window needs before it may trip
  MaxWindow,   \* outcomes a window holds at most
  WindowTicks, \* how long an outcome counts
  BaseOpen,    \* first open duration; doubles per re-open
  MaxOpen,     \* its cap
  ProbeLease,  \* how long a probe lease lasts
  PollTicks,   \* how long a router may use its cached state
  Punctual     \* whether polls take no time and attempts fit their lease

ASSUME BreakerAssumption ==
  /\ RouterOf \in [Requests -> Routers] /\ None \notin Tokens
  /\ MaxVersion \in Nat \ {0} /\ MaxNow \in Nat \ {0}
  /\ MinRequests \in Nat \ {0} /\ MaxWindow \in Nat \ {0} /\ WindowTicks \in Nat
  /\ BaseOpen \in Nat \ {0} /\ MaxOpen \in Nat \ {0}
  /\ ProbeLease \in Nat \ {0} /\ PollTicks \in Nat \ {0}
  /\ Punctual \in BOOLEAN

VARIABLES
  now,
  shared,    \* settings['engine.circuit'][engine]
  resetAt,   \* settings['engine.circuit'].resetRequested[engine]
  active,    \* the provider's active credential version
  cache,     \* each router's cached copy
  freshFor,  \*   and how long the router may still use it
  poll,      \* the poll in flight: what it read
  seenReset, \* the last reset the router has applied
  window,    \* its outcomes since
  pc,        \* where each logical request is
  token,     \* the probe token it holds
  again,     \* whether it has sent this pack before
  version,   \* the credential version of its attempt
  verdict,   \* what its pending record says
  at,        \* the clock and
  before,    \*   the cached state its pending update started from
  closedAgo, \* history: ticks since the shared state was closed, up to PollTicks
  authOf      \* history: whose 401 put the breaker into auth mode

router == <<cache, freshFor, poll, seenReset, window>>
request == <<pc, token, again, version, verdict, at, before>>
history == <<closedAgo, authOf>>
vars == <<now, shared, resetAt, active, router, request, history>>

Times == 0..MaxNow
States == {"closed", "open", "half_open", "auth"}
Breaker == [st: States, opened: Times, since: Times, until: 0..(MaxNow + MaxOpen),
            reopen: Times, token: Tokens \cup {None}, lease: 0..(MaxNow + ProbeLease)]
Closed == [st |-> "closed", opened |-> 0, since |-> 0, until |-> 0,
           reopen |-> 0, token |-> None, lease |-> 0]
Copy == [st: States \cup {"absent"}, deny: 0..(MaxOpen + ProbeLease)]
NoCopy == [st |-> "absent", deny |-> 0]
NoPoll == [on |-> FALSE, circuit |-> Closed, reset |-> 0]
Outcomes == [at: Times, failed: BOOLEAN]
Steps == {"admit", "readmit", "acquire", "reacquire", "ready", "renew",
          "sending", "unauthorized", "verdict", "trip"}

TypeOK ==
  /\ now \in 1..MaxNow /\ resetAt \in Times /\ active \in 1..MaxVersion
  /\ shared \in Breaker
  /\ cache \in [Routers -> Copy]
  /\ freshFor \in [Routers -> 0..PollTicks]
  /\ poll \in [Routers -> [on: BOOLEAN, circuit: Breaker, reset: Times]]
  /\ seenReset \in [Routers -> Times]
  /\ \A p \in Routers : window[p] \in Seq(Outcomes) /\ Len(window[p]) <= MaxWindow
  /\ pc \in [Requests -> Steps]
  /\ token \in [Requests -> Tokens \cup {None}]
  /\ again \in [Requests -> BOOLEAN]
  /\ version \in [Requests -> 1..MaxVersion]
  /\ verdict \in [Requests -> {"success", "failure", "neutral"}]
  /\ at \in [Requests -> Times]
  /\ before \in [Requests -> States]
  /\ closedAgo \in 0..PollTicks /\ authOf \in 0..MaxVersion

Init ==
  /\ now = 1 /\ shared = Closed /\ resetAt = 0 /\ active = 1
  /\ cache = [p \in Routers |-> NoCopy]
  /\ freshFor = [p \in Routers |-> 0]
  /\ poll = [p \in Routers |-> NoPoll]
  /\ seenReset = [p \in Routers |-> 0]
  /\ window = [p \in Routers |-> <<>>]
  /\ pc = [q \in Requests |-> "admit"]
  /\ token = [q \in Requests |-> None]
  /\ again = [q \in Requests |-> FALSE]
  /\ version = [q \in Requests |-> 1]
  /\ verdict = [q \in Requests |-> "neutral"]
  /\ at = [q \in Requests |-> 0]
  /\ before = [q \in Requests |-> "closed"]
  /\ closedAgo = 0 /\ authOf = 0

-----------------------------------------------------------------------------
(* The transition functions: when each changes a state, and to what.       *)

Smaller(m, n) == IF m < n THEN m ELSE n

(* 2 ** n *)
Doubled[n \in Nat] == IF n = 0 THEN 1 ELSE 2 * Doubled[n - 1]

(* Mutant: the doubling has no cap. *)
OpenDurationUncapped(n) == BaseOpen * Doubled[n]

(* openDurationMs *)
OpenDuration(n) == Smaller(BaseOpen * Doubled[n], MaxOpen)

(* tripBreaker *)
Tripped(c, t) ==
  [Closed EXCEPT !.st = "open", !.opened = t, !.since = t,
                 !.until = t + OpenDuration(c.reopen), !.reopen = c.reopen]

LeaseFree(c, t) == c.token = None \/ c.lease <= t

(* acquireProbe *)
CanProbe(c, t) ==
  \/ c.st = "open" /\ c.until <= t
  \/ c.st = "half_open" /\ LeaseFree(c, t)
Probing(c, t, k) ==
  [c EXCEPT !.st = "half_open", !.until = 0, !.token = k, !.lease = t + ProbeLease]

(* Mutant: the token is not compared. *)
HoldsProbeAny(c, k) == k # None /\ c.st # "closed"
HoldsProbe(c, k) == c.st = "half_open" /\ c.token = k

(* renewProbe, releaseProbe *)
Renewed(c, t) == [c EXCEPT !.lease = t + ProbeLease]
Released(c) == [c EXCEPT !.token = None, !.lease = 0]

(* Mutant: a re-open starts a new streak. *)
ReopenedAfresh(c, t) ==
  [Closed EXCEPT !.st = "open", !.opened = t, !.since = t,
                 !.until = t + OpenDuration(c.reopen + 1), !.reopen = c.reopen + 1]

(* completeProbe's failure *)
Reopened(c, t) ==
  [Closed EXCEPT !.st = "open", !.opened = t, !.since = c.since,
                 !.until = t + OpenDuration(c.reopen + 1), !.reopen = c.reopen + 1]

(* What a probe's verdict makes of the circuit. *)
Concluded(c, v, t) ==
  CASE v = "success" -> Closed
    [] v = "failure" -> Reopened(c, t)
    [] OTHER -> Released(c)

(* enterAuthMode *)
AuthMode(c, t) ==
  [Closed EXCEPT !.st = "auth", !.opened = t, !.reopen = c.reopen,
                 !.since = IF c.since # 0 THEN c.since ELSE t]

(* Mutant: a reset closes whatever it finds. *)
ResetsAny(c, t) == c.st # "closed"

(* Mutant: a reset does not end auth mode. *)
ResetsNotAuth(c, t) == c.st \in {"open", "half_open"} /\ c.opened <= t

(* applyReset: not a newer incident. *)
Resets(c, t) == c.st # "closed" /\ c.opened <= t

(* What a router's copy of c is for: how long it denies admission. *)
Left(t) == IF t > now THEN t - now ELSE 0
View(c) == [st |-> c.st, deny |-> Left(IF c.st = "open" THEN c.until ELSE c.lease)]

(* evaluateBreaker *)
Verdict(v) ==
  CASE v.st = "closed" -> "closed"
    [] v.st \in {"open", "half_open"} /\ v.deny = 0 -> "probe"
    [] OTHER -> "deny"

(* A window from the first outcome on that is not older than WindowTicks;  *)
(* 20 per cent of failures is too many.                                    *)
Pruned(w, t) ==
  LET first == SelectInSeq(w, LAMBDA e : e.at + WindowTicks >= t)
  IN  IF first = 0 THEN <<>> ELSE SubSeq(w, first, Len(w))
Recent(w) == Pruned(w, now)
Failures(w) == Cardinality({i \in DOMAIN w : w[i].failed})
ShouldTrip(w) ==
  /\ Len(Recent(w)) >= MinRequests
  /\ 5 * Failures(Recent(w)) > Len(Recent(w))

-----------------------------------------------------------------------------
(* What the actions are built from.                                        *)

(* The store holds c from now on. *)
Store(c) ==
  /\ shared' = c
  /\ closedAgo' = IF "closed" \in {shared.st, c.st} THEN 0 ELSE closedAgo
Unchanged == UNCHANGED <<shared, closedAgo>>

(* remember: a transition to closed or open that the router sees clears    *)
(* its window.                                                             *)
Remembered(p, was) ==
  IF was # shared'.st /\ shared'.st \in {"closed", "open"} THEN <<>> ELSE window[p]

(* After an update the router's copy is what the store answered. *)
Copies(p, w) ==
  /\ cache' = [cache EXCEPT ![p] = View(shared')]
  /\ window' = [window EXCEPT ![p] = w]
  /\ UNCHANGED <<freshFor, poll, seenReset>>
Quiet == UNCHANGED router

(* An attempt goes out with the active credential. *)
Step(q, s) ==
  /\ pc' = [pc EXCEPT ![q] = s]
  /\ version' = [version EXCEPT ![q] = IF s = "sending" THEN active ELSE @]

(* An update begins: it has read the clock and the cached state. *)
Begin(q, s, st) ==
  /\ Step(q, s)
  /\ at' = [at EXCEPT ![q] = now]
  /\ before' = [before EXCEPT ![q] = st]
Ended(q, s) ==
  /\ Step(q, s)
  /\ at' = [at EXCEPT ![q] = 0]
  /\ before' = [before EXCEPT ![q] = "closed"]

Drop(q) == token' = [token EXCEPT ![q] = None]

(* record: the logical request of q is over with outcome v, its router's   *)
(* window is w0 and its copy st; the next one may begin.  A full window    *)
(* forgets its oldest outcome (a bound).                                   *)
Over(q, v, w0, st) ==
  LET p == RouterOf[q]
      e == [at |-> now, failed |-> v = "failure"]
      w == Append(IF Len(w0) < MaxWindow THEN w0 ELSE Tail(w0), e)
      Window(x) == window' = [window EXCEPT ![p] = x] IN
  /\ again' = [again EXCEPT ![q] = FALSE]
  /\ \/ /\ token[q] # None
        /\ Begin(q, "verdict", st) /\ verdict' = [verdict EXCEPT ![q] = v]
        /\ Window(w0)
     \/ /\ token[q] = None /\ v = "neutral"
        /\ Ended(q, "admit") /\ Window(w0) /\ UNCHANGED verdict
     \/ /\ token[q] = None /\ v # "neutral"
        /\ IF v = "failure" /\ ShouldTrip(w) THEN Begin(q, "trip", st)
           ELSE Ended(q, "admit")
        /\ Window(IF v = "failure" THEN Recent(w) ELSE w)
        /\ UNCHANGED verdict
  /\ UNCHANGED <<token, freshFor, poll, seenReset>>

-----------------------------------------------------------------------------
(* Polling.                                                                *)

(* Mutant: a copy never goes stale. *)
FreshForever(p) == cache[p] # NoCopy
Fresh(p) == freshFor[p] > 0

(* readCircuit *)
PollRead(p) ==
  /\ ~Fresh(p) /\ ~poll[p].on
  /\ poll' = [poll EXCEPT ![p] = [on |-> TRUE, circuit |-> shared, reset |-> resetAt]]
  /\ UNCHANGED <<now, shared, resetAt, active, cache, freshFor, seenReset,
                 window, request, history>>

(* applyResets, and the end of the poll. *)
PollEnd(p) ==
  LET r == poll[p].reset
      asked == r > seenReset[p] IN
  /\ poll[p].on
  /\ IF asked /\ Resets(poll[p].circuit, r)
     THEN /\ IF Resets(shared, r) THEN Store(Closed) ELSE Unchanged
          /\ cache' = [cache EXCEPT ![p] = View(shared')]
     ELSE /\ Unchanged
          /\ cache' = [cache EXCEPT ![p] = View(poll[p].circuit)]
  /\ window' = IF asked THEN [window EXCEPT ![p] = <<>>] ELSE window
  /\ seenReset' = IF asked THEN [seenReset EXCEPT ![p] = r] ELSE seenReset
  /\ freshFor' = [freshFor EXCEPT ![p] = PollTicks]
  /\ poll' = [poll EXCEPT ![p] = NoPoll]
  /\ UNCHANGED <<now, resetAt, active, request, authOf>>

(* The read or the reset's update fails; the next poll tries again.        *)
PollFails(p) ==
  /\ poll[p].on
  /\ poll' = [poll EXCEPT ![p] = NoPoll]
  /\ UNCHANGED <<now, shared, resetAt, active, cache, freshFor, seenReset,
                 window, request, history>>

(* An update of the other engine brings the whole circuit along.           *)
OtherEngine(p) ==
  /\ cache[p].st # "absent" /\ cache[p] # View(shared)
  /\ cache' = [cache EXCEPT ![p] = View(shared)]
  /\ UNCHANGED <<now, shared, resetAt, active, freshFor, poll, seenReset,
                 window, request, history>>

-----------------------------------------------------------------------------
(* A logical request.                                                      *)

(* Admitted without a token: one that was waiting for capacity sends.      *)
Onward(q) == IF pc[q] \in {"admit", "acquire"} THEN "ready" ELSE "sending"

(* The logical request ends on the cached state, without an update. *)
EndsWith(q, v) ==
  LET p == RouterOf[q] IN
  /\ Over(q, v, window[p], cache[p].st)
  /\ UNCHANGED <<now, shared, resetAt, active, cache, history>>

(* Denied: a request that has sent before has failed. *)
Refusal(q) == IF again[q] THEN "failure" ELSE "neutral"

(* admit, of a new logical request, a retry, or a request that lost its    *)
(* probe, on a fresh copy.                                                 *)
Decide(q) ==
  LET c == cache[RouterOf[q]] IN
  /\ pc[q] \in {"admit", "readmit"}
  /\ Fresh(RouterOf[q])
  /\ \/ /\ Verdict(c) = "closed"
        /\ Step(q, Onward(q)) /\ Quiet
        /\ UNCHANGED <<now, shared, resetAt, active, token, again, verdict, at,
                       before, history>>
     \/ /\ Verdict(c) = "probe"
        /\ Begin(q, IF pc[q] = "admit" THEN "acquire" ELSE "reacquire", c.st) /\ Quiet
        /\ UNCHANGED <<now, shared, resetAt, active, token, again, verdict, history>>
     \/ Verdict(c) = "deny" /\ EndsWith(q, Refusal(q))

FreshToken(k) ==
  /\ shared.token # k
  /\ \A q \in Requests : token[q] # k

(* The update of admit: the lease, or a decision on the fresh state. *)
Acquire(q, k) ==
  /\ pc[q] \in {"acquire", "reacquire"}
  /\ FreshToken(k)
  /\ CanProbe(shared, at[q])
  /\ Store(Probing(shared, at[q], k))
  /\ Copies(RouterOf[q], Remembered(RouterOf[q], before[q]))
  /\ token' = [token EXCEPT ![q] = k]
  /\ Ended(q, Onward(q))
  /\ UNCHANGED <<now, resetAt, active, again, verdict, authOf>>

AcquireRefused(q) ==
  LET p == RouterOf[q]
      w == Remembered(p, before[q]) IN
  /\ pc[q] \in {"acquire", "reacquire"}
  /\ ~CanProbe(shared, at[q])
  /\ Unchanged
  /\ IF shared.st = "closed"
     THEN /\ Ended(q, Onward(q)) /\ Copies(p, w)
          /\ UNCHANGED <<token, again, verdict>>
     ELSE /\ Over(q, Refusal(q), w, shared.st)
          /\ cache' = [cache EXCEPT ![p] = View(shared)]
  /\ UNCHANGED <<now, resetAt, active, authOf>>

(* Mutant: the lease is not renewed before the send. *)
RenewSkipped(q) ==
  /\ pc[q] = "renew"
  /\ Ended(q, "sending")
  /\ UNCHANGED <<now, shared, resetAt, active, token, again, verdict, history>>
  /\ Quiet

(* Capacity is there: a probe renews its lease before it sends. *)
Prepare(q) ==
  /\ pc[q] = "ready"
  /\ IF token[q] = None THEN Step(q, "sending") /\ UNCHANGED <<at, before>>
     ELSE Begin(q, "renew", cache[RouterOf[q]].st)
  /\ UNCHANGED <<now, shared, resetAt, active, token, again, verdict, history>>
  /\ Quiet

(* renew: a holder that lost its lease decides again on the fresh state. *)
Renew(q) ==
  /\ pc[q] = "renew"
  /\ IF HoldsProbe(shared, token[q])
     THEN Store(Renewed(shared, at[q])) /\ Ended(q, "sending") /\ UNCHANGED token
     ELSE Unchanged /\ Ended(q, "readmit") /\ Drop(q)
  /\ Copies(RouterOf[q], Remembered(RouterOf[q], before[q]))
  /\ UNCHANGED <<now, resetAt, active, again, verdict, authOf>>

(* No capacity, or a cancellation: a request deferred after a failed try   *)
(* has failed.                                                             *)
NotSent(q) ==
  /\ pc[q] = "ready"
  /\ \E v \in {"neutral", Refusal(q)} : EndsWith(q, v)

(* A final answer, a final failure, or a request that was invalid,         *)
(* cancelled, or had no credential, budget or demand.                      *)
Reply(q, v) == pc[q] = "sending" /\ EndsWith(q, v)

(* The next pack goes out without another admission; a failed try asks     *)
(* again, unless it probes.                                                *)
Continue(q, failed) ==
  /\ pc[q] = "sending"
  /\ again' = [again EXCEPT ![q] = failed]
  /\ Step(q, IF failed /\ token[q] = None THEN "admit" ELSE "ready")
  /\ UNCHANGED <<now, shared, resetAt, active, token, verdict, at, before, history>>
  /\ Quiet

Unauthorized(q) ==
  /\ pc[q] = "sending"
  /\ Begin(q, "unauthorized", cache[RouterOf[q]].st)
  /\ UNCHANGED <<now, shared, resetAt, active, token, again, verdict, history>>
  /\ Quiet

(* Mutant: any version's 401 counts. *)
OfActiveAny(q) == TRUE
OfActive(q) == version[q] = active

(* authFailure, under the lock of the credential's row; then record. *)
AuthFailure(q) ==
  LET p == RouterOf[q] IN
  /\ pc[q] = "unauthorized"
  /\ IF OfActive(q) /\ shared.st # "auth"
     THEN Store(AuthMode(shared, at[q])) /\ authOf' = version[q]
     ELSE Unchanged /\ UNCHANGED authOf
  /\ Over(q, "neutral", Remembered(p, before[q]), shared'.st)
  /\ cache' = [cache EXCEPT ![p] = View(shared')]
  /\ UNCHANGED <<now, resetAt, active>>

(* record of a probe: the lease is given back, or decides the state. *)
Conclude(q) ==
  /\ pc[q] = "verdict"
  /\ IF HoldsProbe(shared, token[q])
     THEN Store(Concluded(shared, verdict[q], at[q]))
     ELSE Unchanged
  /\ Copies(RouterOf[q], Remembered(RouterOf[q], before[q]))
  /\ Drop(q) /\ Ended(q, "admit")
  /\ verdict' = [verdict EXCEPT ![q] = "neutral"]
  /\ UNCHANGED <<now, resetAt, active, again, authOf>>

(* record of a window with too many failures, which is used up by it. *)
Trip(q) ==
  /\ pc[q] = "trip"
  /\ IF shared.st = "closed" THEN Store(Tripped(shared, at[q])) ELSE Unchanged
  /\ Copies(RouterOf[q], <<>>)
  /\ Ended(q, "admit")
  /\ UNCHANGED <<now, resetAt, active, token, again, verdict, authOf>>

(* A poll or an update that never reaches the store ends the request; a    *)
(* probe that was renewing or rejected still gives its lease back.         *)
UpdateFails(q) ==
  \/ pc[q] \in {"renew", "unauthorized"} /\ EndsWith(q, "neutral")
  \/ /\ pc[q] \in {"admit", "readmit", "acquire", "reacquire", "verdict", "trip"}
     /\ Ended(q, "admit") /\ Drop(q)
     /\ again' = [again EXCEPT ![q] = FALSE]
     /\ verdict' = [verdict EXCEPT ![q] = "neutral"]
     /\ UNCHANGED <<now, shared, resetAt, active, history>> /\ Quiet

-----------------------------------------------------------------------------
(* The world.                                                              *)

(* The process dies and a new one starts. *)
Crash(p) ==
  LET Lost(f, x) == [q \in Requests |-> IF RouterOf[q] = p THEN x ELSE f[q]] IN
  /\ cache[p] # NoCopy \/ poll[p].on
  /\ cache' = [cache EXCEPT ![p] = NoCopy]
  /\ freshFor' = [freshFor EXCEPT ![p] = 0]
  /\ poll' = [poll EXCEPT ![p] = NoPoll]
  /\ seenReset' = [seenReset EXCEPT ![p] = 0]
  /\ window' = [window EXCEPT ![p] = <<>>]
  /\ pc' = Lost(pc, "admit") /\ token' = Lost(token, None)
  /\ again' = Lost(again, FALSE) /\ verdict' = Lost(verdict, "neutral")
  /\ at' = Lost(at, 0) /\ before' = Lost(before, "closed")
  /\ UNCHANGED <<now, shared, resetAt, active, version, history>>

(* POST /admin/engine/reset-breaker *)
RequestReset ==
  /\ resetAt < now
  /\ resetAt' = now
  /\ UNCHANGED <<now, shared, active, router, request, history>>

(* Mutant: the old credential's incident outlives it. *)
ActivateOnly ==
  /\ active < MaxVersion
  /\ active' = active + 1
  /\ UNCHANGED <<now, shared, resetAt, router, request, history>>

(* activateProviderCredential: the new credential starts without the auth  *)
(* incident of the old one.                                                *)
Activate ==
  /\ active < MaxVersion
  /\ active' = active + 1
  /\ IF shared.st = "auth" THEN Store(Closed) ELSE Unchanged
  /\ UNCHANGED <<now, resetAt, router, request, authOf>>

(* A punctual router polls and updates its lease in no time, and is done   *)
(* with a probe's attempt while its lease lasts.                           *)
TimeIsUp ==
  \/ \E p \in Routers : poll[p].on
  \/ \E q \in Requests : pc[q] \in {"acquire", "reacquire", "renew"}
  \/ \E q \in Requests : /\ pc[q] = "sending"
                         /\ HoldsProbe(shared, token[q]) /\ shared.lease = now + 1

Minus1(n) == IF n = 0 THEN 0 ELSE n - 1

(* What is out of the window has no effect: it is forgotten here.          *)
Tick ==
  /\ now < MaxNow
  /\ Punctual => ~TimeIsUp
  /\ now' = now + 1
  /\ freshFor' = [p \in Routers |-> Minus1(freshFor[p])]
  /\ cache' = [p \in Routers |-> [st |-> cache[p].st, deny |-> Minus1(cache[p].deny)]]
  /\ window' = [p \in Routers |-> Pruned(window[p], now')]
  /\ closedAgo' = IF shared.st = "closed" THEN 0 ELSE Smaller(closedAgo + 1, PollTicks)
  /\ UNCHANGED <<shared, resetAt, active, poll, seenReset, request, authOf>>

RequestStep(q) ==
  \/ Decide(q) \/ AcquireRefused(q)
  \/ \E k \in Tokens : Acquire(q, k)
  \/ Prepare(q) \/ Renew(q) \/ NotSent(q)
  \/ \E v \in {"success", "failure", "neutral"} : Reply(q, v)
  \/ \E failed \in BOOLEAN : Continue(q, failed)
  \/ Unauthorized(q) \/ AuthFailure(q)
  \/ Conclude(q) \/ Trip(q) \/ UpdateFails(q)
RouterStep(p) == PollRead(p) \/ PollEnd(p) \/ PollFails(p) \/ OtherEngine(p) \/ Crash(p)

(* Without the admin. *)
RouterNext ==
  (\E q \in Requests : RequestStep(q)) \/ (\E p \in Routers : RouterStep(p)) \/ Tick

RouterSpec == Init /\ [][RouterNext]_vars

Next == RouterNext \/ RequestReset \/ Activate

Spec == Init /\ [][Next]_vars

(* Fairness: time passes, and a router polls whenever its copy is stale,   *)
(* at the latest when one of the house jobs asks for the states; its       *)
(* database answers again and again.                                       *)
Fairness ==
  /\ WF_vars(Tick)
  /\ \A p \in Routers : WF_vars(PollRead(p)) /\ SF_vars(PollEnd(p))

FairSpec == Spec /\ Fairness
-----------------------------------------------------------------------------
(* Between resets there is never a second concurrent probe: a holder that  *)
(* may have lost its lease, to a restart, a long wait or a retry, sends    *)
(* nothing as the probe.  (breaker.ts acquireProbe, renewProbe;            *)
(* router.ts admitAndSend.)                                                *)
ProbeExclusive ==
  \A q1, q2 \in Requests :
    /\ pc[q1] = "sending" /\ token[q1] # None
    /\ pc[q2] = "sending" /\ token[q2] # None
    => q1 = q2

(* A router that admits a request without a probe does so on a state that  *)
(* held less than one polling interval ago, however its polls and updates  *)
(* interleave with those of other routers.  (breaker.ts poll, admit.)      *)
AdmitsRecentlyClosed ==
  [][\A q \in Requests :
       /\ pc[q] \in {"admit", "readmit"} /\ pc'[q] \in {"ready", "sending"}
       => closedAgo < PollTicks]_vars

(* The breaker closes by the success of the probe that holds the lease, by *)
(* the activation of a credential in auth mode, or by a reset that is not  *)
(* older than the incident: no late verdict and no old reset closes it.    *)
(* (breaker.ts completeProbe, applyReset; credentials.ts.)                 *)
ClosesForAReason ==
  [][shared.st # "closed" /\ shared'.st = "closed" =>
       \/ shared.st = "auth" /\ active' # active
       \/ resetAt >= shared.opened
       \/ /\ shared.st = "half_open"
          /\ \E q \in Requests : /\ pc[q] = "verdict" /\ verdict[q] = "success"
                                 /\ token[q] = shared.token]_vars

(* Auth mode is always the active credential's: a late 401 of a superseded *)
(* version cannot disable its replacement, and the old incident does not   *)
(* outlive the activation.  (store.ts updateCircuit, credentials.ts        *)
(* activateProviderCredential.)                                            *)
AuthOfActive == shared.st = "auth" => authOf = active

(* The start of a failing streak survives failed probes and auth mode      *)
(* until the breaker closes.  (breaker.ts failingSince.)                   *)
StreakKept ==
  [][shared.st # "closed" /\ shared'.st # "closed"
       => shared'.since = shared.since]_vars

(* A reset requested in auth mode ends it once a router that has not read  *)
(* it yet polls.  (breaker.ts applyResets.)                                *)
ResetClears ==
  /\ shared.st = "auth" /\ shared.opened <= resetAt
  /\ now + 2 * PollTicks <= MaxNow
  /\ \E p \in Routers : /\ seenReset[p] < resetAt
                        /\ poll[p].on => poll[p].reset < resetAt
  ~> shared.st # "auth" \/ shared.opened > resetAt
=============================================================================
