# Aegis Drift: specifications

TLA+ models of Aegis Drift, an identity-drift detection product: a FastAPI
backend (`src/backend/app`) that scores the behaviour of accounts, raises alerts
and carries out responses, and a React console (`src/frontend/src`). Paths below
are relative to those two directories.

Every module says at its head which code it models; `PROJECT.json` maps each
definition to the lines it stands for. To repeat a check:

    tlc -config AlertLifecycle.cfg MCAlertLifecycle
    tlapm AlertLifecycle_proofs.tla

## 1. The system

### Components, their state, and what makes each one correct

| Component | State | Operations | Correct when |
|---|---|---|---|
| alert lifecycle (`services/detection.py`, `endpoints/alerts.py`) | rows of `alerts` | re-score (reconcile), patch, assign, false positive, link to a case, contain | one story per drifting account; verdicts survive re-scoring; a terminal alert has `resolved_at`; nothing unapproved is suppressed |
| approvals (`endpoints/contexts.py`, `engine/context.py`) | `context_records` | create, change, revoke, expire, exemption by an action | an approval damps what it covers, while it is active, and never tampering |
| database sessions (`db/session.py`) | one session per request, batch, pass | query, flush, commit, rollback; autoflush is off | overlapping transactions lose nothing that was decided |
| ingestion (`services/ingest.py`) | events, counters | batch with or without re-score | evidence is counted once; the batch is atomic |
| correlation (`engine/sequence.py`) | accumulator of one pass | fold over the events of 14 days | risk in [5, 100]; approvals only lower it; it fades |
| response, cases, playbooks (`services/response.py`) | cases, actions, playbooks | execute, create and move cases, run playbook | containment empties the queue; a failed playbook leaves nothing |
| event bus and feed (`services/events.py`, `endpoints/stream.py`) | subscriber lists, queues, relay task, gauge | publish, relay, subscribe, heartbeat | no gap, no echo, no handler left behind |
| scheduler (`workers/scheduler.py`) | one task per process and its timestamps | pass, snapshot, maintenance | a failing cycle ends nothing |
| scoring of events (`engine/baseline.py`, `engine/peer.py`, `engine/sequence.py`) | the baseline of an identity; a cache of cohorts | learn, measure, fuse, correlate | habits reassure, tampering is never damped |
| authentication (`endpoints/auth.py`, `api/deps.py`, `core/security.py`) | `users`, `api_keys`, tokens | login, refresh, operations on accounts and keys | standing changes by decision only; lock after six failures |
| rate limiter (`core/middleware.py`) | log of hits per key | admit or refuse | each budget is its own |
| rules (`engine/rules.py`, `endpoints/detections.py`) | the rules, statistics per rule | evaluate, validate, boost; create, rewrite, switch, delete | boosts only add; what was validated can be evaluated |
| explanation (`engine/explain.py`, `blast_radius.py`, `mitre.py`, `copilot.py`) | none | verdict, findings, exposure, techniques, answers | what they say agrees; later events take no evidence away |
| watchlists and tuning (`endpoints/analytics.py`) | lists, `on_watchlist`; per process: engine parameters, cohorts | create, expire, update | every score comes to agree with what it is made from |
| simulator and seeding (`db/seed.py`, `endpoints/simulator.py`, `main.py`) | the estate | seed at the start of a process, reset | one estate, whole; every process comes up |
| console session (`lib/api.ts`, `lib/auth.tsx`) | tokens, user, shared refresh | request, refresh, sign in and out | shown operator = requesting operator |
| console feed (`lib/live.ts`) | socket, timer, flags | connect, disconnect, reconnect | one socket; it comes back |

The remaining parts (read-only queries, pages, scripts) keep no protocol state;
`PROJECT.json` lists them with the reason they are left out.

### How they interact

* Requests, ingestion batches and the scheduler's pass all call
  `DetectionService.score_identity`, each in a session of its own, and their
  coroutines interleave at every `await`. It folds the engine over the events
  and approvals it reads, writes the identity, and reconciles the alert.
* The engine is pure. Alerts depend on it through three fields of its result:
  the risk, `anti_tamper_override`, and whether damping was applied.
* Services publish to the bus *before* their transaction commits; the bus
  delivers to the queues of the WebSocket handlers, locally or through Redis;
  the console's feed reads them, and the pages re-fetch through the API client.
* Console requests and the socket share the tokens in local storage.
* Every request passes the limiter, then authentication, then its handler; the
  limiter, the cohorts and the engine's parameters are memory of one process.
* The deployment has two worker processes unless told otherwise (`docker-compose.yml:69`,
  `docker-entrypoint.sh:50`). Each seeds the database at its start, in one transaction,
  and each runs a scheduler of its own, that scores the whole estate.

### What is hard

Autoflush is off, so queries see rows as they were flushed, while objects keep
what was assigned; sessions do not refresh objects; every `await` is a point of
interleaving; rollbacks take back rows but not published events or counters; risk
is replayed from a sliding window; the feed must survive slow browsers, half-open
connections and Redis failures; the console's answers arrive in any order.
`PROJECT.json` lists each such hazard with its line and the properties that
would catch it.

## 2. Modules

| Module | Models |
|---|---|
| `AlertTable` | the `alerts` table as operators: query, reconcile, close (no variables) |
| `TriageQueue` | what the alerts table promises to those who work on it (abstract) |
| `AlertLifecycle` | the life of alerts, one transaction at a time, playbooks step by step |
| `AlertSessions` | overlapping transactions over the same operators |
| `RiskAccumulator` | one turn of `correlate`'s loop, as an operator |
| `Correlation` | the loop over any stream of events |
| `RiskWindow` | what is stored for an identity as events age and approvals come and go |
| `Baseline` | learning a baseline, cohorts, the eight vectors of an event |
| `Rules` | conditions with their errors, matches, boosts, the built-in rules |
| `Scoring` | `correlate` with everything that feeds the accumulator |
| `Evidence` | assets, exposure, frameworks and techniques of a scored window |
| `Explanation` | verdict, findings, actions, the copilot's answers |
| `Workbench` | one identity investigated: events, learning, approvals, edits of rules |
| `Estate` | what all stored scores rest on, and how they come to agree with it |
| `Accounts` | operators, tokens, API keys, in overlapping requests |
| `RateLimiter` | the log of hits and its two budgets |
| `Seeding` | starts, resets, batches and cases against one database |
| `LiveFeed` | bus, relay, subscribers and handlers of several replicas |
| `ConsoleSession` | the console's tokens, requests and signed-in operator |
| `LiveClient` | the console's socket, its callbacks and timer |
| `Console` | the two together, with the page's reloads |
| `MC*` | values for TLC |
| `*_proofs` | lemmas and theorems, with proofs |

The engine is a tower of operators, each module extending the one below:
`Baseline`, `Rules`, `Scoring` (which also extends `RiskAccumulator`), `Evidence`,
`Explanation`, and the state machine `Workbench` on top.

Definitions whose comment begins "Mutation:" are wrong on purpose. Nothing uses
them; each is the plausible mistake that some property is there to detect.

### Alerts: `AlertTable`, `AlertLifecycle`

An alert is its identity, status, tamper flag and whether `resolved_at` is set;
ids grow with `created_at`. The engine's result is any that `Correlate`
allows for the kinds of events in the window: tampering is reported exactly when
an event destroys evidence, damping needs an approval and an ordinary event. That
assumption is not free: `Correlation` shows that the engine keeps it
(`PromiseKept`), for all events, and `RiskWindow` that what is stored for an identity
keeps it too, as its events age and its approval comes and goes (`StoredAsPromised`,
which names `AlertTable!Correlate` itself).

`Reconcile` takes the table twice: the *view* queries filter on (what
has been flushed) and the *memory* they return (objects with their unflushed
assignments). This is how autoflush being off enters the model: containment
closes the open alerts in memory, and the re-score in the same transaction still
finds them by their old status (`response.py:138`). `Approved` does the same for
approvals: deactivating one is seen through the object, reactivating one not
at all before the next pass.

A step of `AlertLifecycle` is a request, a batch or a pass that commits. Only a
playbook takes several: its actions flush between them, and an exception
restores what was there at its start (`AbortPlaybook`). While it runs nothing
else happens; what overlapping adds is the subject of `AlertSessions`.

`TriageQueue` is the abstract specification: a table, and what one commit may do to it.
Scoring works only on the newest undecided story of an identity, which goes on, is
suppressed or is closed, and tells a new one only when all others are decided; an
analyst gives any status; a response decides what was open and leaves verdicts and
other identities alone. It knows no evidence, approvals or risk, and a playbook is one step.
`AlertLifecycle` implements it (`IsTriageQueue`) under the mapping of `table` to
`CommittedAlerts`: the alerts, or while a playbook runs those saved at its start, so that
its actions stutter, its end is a response and its abort changes nothing.

### Overlapping transactions: `AlertSessions`

A transaction holds the objects it loaded (`mem`), their values as loaded or
flushed (`base`), the columns it has flushed (`written`) and the rows it
inserted. Its queries see what is committed under what it flushed (READ
COMMITTED); a flush writes changed columns only and locks the row to the end of
the transaction. `reconcile_alert` is split at its awaits: find the existing
alert (`FindExisting`), then act on what was found (`RefreshExisting`,
`NothingToRaise`, `RaiseAlert`). Batches flush, and so lock, the identity rows
before they look (`ingest.py:107`), a pass does not.

### Risk: `RiskAccumulator`, `Correlation`, `RiskWindow`

Risk and scores are whole points. The two exponentials, decay over a gap and the
gain of an anomaly, are constant functions of which only monotonicity is
assumed (`AccumulatorAssumption`); the remaining arithmetic (amplifier, severity
floors, damping, bleed-off by benign events) is the code's, rounded down.
`Correlation` is the loop as a state machine with any event next. `RiskWindow`
folds the same turn over a window (`Course`, the accumulator after each event): events
carry their age rather than a date, so no clock is needed and time never runs out. `stored` is what the last scoring wrote and
`fresh` whether anything has changed since.

### The engine: `Baseline`, `Rules`, `Scoring`, `Evidence`, `Explanation`, `Workbench`

`correlate` in full, from events to what an investigator reads. Scores are whole
points rounded down, times are minutes, bytes tens of millions; statistics
(means, deviations, percentiles) are integer arithmetic on those. A resource is a
name with the keywords the code looks for in it (`Words`), so that the substring
tests stay what they are without strings taken apart. Texts are named by what
they assert. What an operator tunes about the scores themselves, the weight of a vector
and the score from which it counts as elevated (`Weight`, `ElevatedAt`), is a constant.

`Rules` evaluates a tree of conditions as the code does, one child after the
other until one decides, to *true*, *false*, a syntax error or a crash: the
first error is caught where rules are matched, the second (`re.error`) is not.
The tree is evaluated level by level, from the deepest the code allows up to the root
(`NodesAt`, `NodeOutcome`), and the loop of `correlate` is a function of the number of
events seen (`Trajectory`): both are recursive functions, so that theorems can speak of them.
For the same reason boosts are summed in the order of their rank (`Ranked`, `Discounted`) and
the ceiling of a history is the least level that enough of it stays under (`Ceiling`).
The probe that a rule is saved with runs over a row of zeros.

A state of `Workbench` is the window of one identity, what its baseline was
learned from, the rules and the approvals; `report` is what the investigation
endpoint returns there. Events arrive in any order and are put in the order of
their time. An action is an event, a re-learning, an approval that comes or
goes, or an edit of a rule.

`LearningReassures` compares two histories, one with an event more, on the
vectors that measure habits. The cohort counts the identity itself (`Given`), so what it learns
also moves its peers' mean: `peer_divergence` is compared only where the cohort
shared something before and its mean ceiling has not fallen (see section 3).

### Scores of an estate: `Estate`

A stored score is represented by what it was made from: the watchlists counted,
the tuning, the cohorts. The rows are one estate; the tuning, the engine's copy of
it, the cached cohorts and the time of the next maintenance are memory, a copy for
each process. The pass of every scheduler and one request, which some process
serves, each hold a session: what is left to score, what they loaded, changed, flushed
and locked. `create_watchlist` adds its row with the session (`added` only after the
first flush, `analytics.py:230`), `update_hyperparameters` changes at once the engine of
the process that serves it, and of no other (`analytics.py:174`). Sessions that wait for
each other's rows are resolved by the database, which fails either (`Deadlock`). A
restart of a process loses what it has in memory: its tuning goes back to the settings.
Mark and list are apart, as in the code: maintenance takes the mark of every member of
an expired list, also of those another list still holds.

### Accounts: `Accounts`

A request authenticates, runs its handler and commits, in steps of its own, so
that what it loaded may be old when it writes. A session keeps the
columns that changed (`Written`) and the audit entry they are committed with.
Tokens name an account; its row, read at authentication, says what it may do.
Any transaction may fail at any moment, and the platform may start again.

### The limiter: `RateLimiter`

A log per client of the ages of admitted requests, oldest first; pruning drops
from its front up to the first that is not too old (`Expired`), as `popleft`
does. A request is judged on arrival and stays in progress for a while; the
clean-up after it compares with the moment it arrived, and is left out when the handler
raises (`middleware.py:128`). `admitted` is a history variable, what was really let
through in the window.

### The estate's beginning: `Seeding`

An estate is a name that stands for everything one seeding adds; the rows that
a unique column protects and those it does not (approvals, baselines, the seeded
list) are apart. Each process seeds at its start in one
transaction; one that fails to start makes gunicorn give up, and the container
starts all over. A reset deletes table after table and seeds again in one
transaction; PostgreSQL's locks decide who waits. Cases draw their number from a
count and are refused when it is taken.

### Feed: `LiveFeed`

`publish` chooses between Redis and local delivery, also when Redis accepted the
message and only its answer was lost; a relay task per replica delivers
what Redis passes on, and dies with the first error. `delivered` records what a
bus has handed out since it started, `since` where in it a connection
subscribed: `NoGap` relates the two to what was sent. A handler is accepted,
then greeted and subscribed, then loops over queue and heartbeat; it notices
that its browser has left only when it sends.

### Console: `ConsoleSession`, `LiveClient`, `Console`

One page in one tab. A request is sent with the tokens of that moment;
refused with 401 it waits for the shared refresh and is sent once more
(`AttemptRefresh` has the three cases of `refreshInFlight`: nothing to ask, ask
or join, a result that still stands until the next tick). JavaScript runs to the
next real wait, so the continuations of one refresh are one step (`Refreshed`,
`RefreshFails`). Whoever signs in is a new operator. `LiveClient` has the
socket objects, which outlive the variable naming them, and callbacks that do
not know which socket they were made for: `onclose` clears the variable whatever it
names, and `onerror`, which comes before the close event of a connection that broke
off, closes whatever it names (`Drop`).

## 3. Runs

| Run | Instance | Asks |
|---|---|---|
| `lifecycle` | 1 identity, 1 approval, 2 alerts, playbooks of ≤ 2 steps | do alerts keep their story and verdict whatever operations follow one another, and are they the abstract triage queue? |
| `sessions` | 2 sessions of all kinds, 1 identity, 2 alerts | what survives when transactions overlap? |
| `correlation` | scores 3/95, two tiers, two gaps, two factors | does the accumulator keep its promises after any events? |
| `window` | ≤ 2 events, window of 3 half-lives, 1 approval | what may stored risk rest on, and does it fade? |
| `engine` | 7 forms of events, 3 instants, the built-in rules and 2 more, 3 approvals, 3 operations | do the parts of the engine agree about any window that events, learning, approvals and edits of rules lead to? |
| `estate` | 2 processes, 2 identities, 2 overlapping lists of which 1 expires, 2 partial updates, 1 request, any restarts | do all scores come to agree with lists, cohorts and the processes' tuning? |
| `access` | 2 operators, 1 key, 2 passwords, 2 overlapping requests | can anything but a decision change what an account may do? |
| `access_lockout` | 2 operators, 1 request, lock after 2 | does the lock ever bite? (no) |
| `limiter` | 2 clients, 2 requests in progress, budgets 2 and 3, window of 2 ticks | are the budgets kept, and only they? |
| `seeding` | 2 workers, 2 transactions besides, 3 cases | is there one estate, whole, and does every process come up? |
| `feed` | 2 replicas, 1 connection, queue of 1, 3 events, 1 outage, restarts | what does a browser receive that lags, leaves or comes late? |
| `console` | 2 sign-ins, 2 polled queries, 2 socket objects; any expiries, drops and reloads | do tokens, operator, refresh and socket stay in step? |

### Why the bounds are enough

* One identity: no operation of the code relates the alerts of two identities.
  The proofs have no such bound, nor the ones that follow for alerts.
* Two alerts are the fewest with which there may be a second story, a reopened
  alert beside a new one, or a verdict beside a new alert. When the ids are used up, new
  alerts are impossible but everything else goes on; the reset frees them.
* Risks 5, 29 and 60 are below the drift threshold, between it and the
  suppression limit of 30, and above both: all the comparisons of the code.
* Two playbook steps are needed for one to see the other's alert, or for an
  abort to undo the first.
* Two sessions give every pairwise overlap, which is where a stale read comes
  from. Three change what the same two can see, not what a stale read does.
* Scores 3 and 95 are benign and above the highest severity floor; a damped 95
  is 38 or 23, on both sides of the threshold of 28. Streaks up to six matter to
  the amplifier, and the run reaches them.
* A window of three half-lives and two events let an event leave, stay or be
  alone; the deployed values are 14 days and 48 hours.
* A queue of one overflows with the second event, and a third can come after;
  two replicas give an event published here and delivered there.
* A second sign-in is what an answer of the first session may disturb; two
  queries are refused together and share a refresh; the second socket object is
  what may exist beside the first. Nothing else of the console is bounded.

* Three operations of `Workbench` reach every window of up to three events,
  with or without re-learning, an approval before, between or after them, and a rule
  written and then rewritten or switched off. Each form raises another vector; the kept
  lists are cut to 2 and 1 so that the cut-offs of the code (40 and 25) bite.
* A member of both lists, of which one expires, is what maintenance may get
  wrong; one list is there at the start. Two processes give two passes that overlap, with
  different cohorts or tunings, and one request overlaps both, or tunes one of them. One of
  the two identities may raise an alert, and so lock rows early and deadlock. A
  pass is followed by maintenance at once or after one more. Restarts are not bounded.
* Two accounts, both of which may be administrators, give every decision about
  another and about oneself; a third request would only overlap a pair that two
  cover. `MaxFailed` is 2 so that a failure counts before it locks.
* Budgets of 2 and 3 are the smallest that differ and hold more than one
  request; a request may take longer than the window and than the idle time is
  reckoned from; more clients than `MaxClients` start the clean-up.
* Two workers race at the start; four estates are one stored, one being
  seeded, one that a case remembers, and one to draw. Three cases show a number taken
  after one was freed.

Deadlock checking is off in `engine` only, which ends with its operations. In all
other runs something can always happen.

### Fairness

* `RiskWindow`: time passes, and the scheduler keeps making passes.
* `LiveFeed`: the event loop runs tasks that can go on, and the handler's
  25-second timeout makes it send when nothing comes. Nothing is
  assumed of publishers, of Redis or of browsers.
* `Console`: every call is answered somehow, pages poll every 30 seconds,
  effects and timers run, handshakes end. `Reject` is strongly fair: a server that keeps
  refusing an expired token is heard in the end though network errors come between. No
  assumption is made about the operator or the network; `FeedRecovers` itself
  speaks of the time after the last dropped connection and the last expiry, shown to an
  operator whose sign-in met no call of the session before it. A handshake closed by
  the page itself fails at once, before the shortest reconnect delay of 1.4 seconds (`TimersRun`).

* `Estate`: the loop of each scheduler outlives a failed tick (`scheduler.py` catches
  whatever a tick raises), a request that was begun is carried through, and the
  database ends every deadlock: weak fairness for each process. That some session commits
  (`SF_vars(\E w \in Workers : Commit(w))`) is strongly fair: a transaction that waits for
  rows gets them in its turn, because PostgreSQL queues those who wait. Without it two
  schedulers could end each other's transactions by deadlocks for ever, a pass that finds the
  other's rows locked each time; passes are 45 seconds apart, each counted
  from the end of the one before (`RECOMPUTE_INTERVAL_SECONDS`). It is not
  assumed of any particular worker. Nothing is assumed about requests, and the liveness
  properties speak of the time when rules can be evaluated again and no process restarts
  any more (`Quiet`).
* `Seeding`: the container's restart policy starts what went down, and a
  transaction at the start ends. `ComesUp` speaks of the time after the last accident.
* `Accounts`, for `access_lockout` only: a handler that raised rolls back.

`AlertLifecycle`, `AlertSessions`, `Correlation`, `Workbench`, `RateLimiter` and
`access` state safety only.

### What the repository says and the code does not do

`access_lockout` is a run of its own. `docs/SECURITY.md:25` promises a lock after
six consecutive failures. The handler counts the failure on an object of the
session that its own `AuthenticationError` rolls back, so neither the count nor the
lock is ever stored.

Ten more claims are stated as definitions at the end of their modules, with the
place they are quoted from. TLC violates each when it replaces the properties of
the `.cfg`:

| Definition | Replace the properties of | As | What happens |
|---|---|---|---|
| `ContainmentConfirms` | `AlertLifecycle.cfg` | PROPERTY | `endpoints/response.py:25`: the re-score at the end of `execute` still finds the alerts it has closed, because the assignment is not flushed, and may suppress the one it refreshes |
| `TamperingNeverSuppressed` | `AlertLifecycle.cfg` | PROPERTY | `main.py:51`: no tampering *event* is damped, but an alert that carries the override is suppressed when its risk has decayed and another event is damped |
| `OneStory` | `AlertSessions.cfg` | INVARIANT | `services/detection.py:249`: two overlapping passes each find no open alert and add one |
| `RiskHalvesInQuiet` | `RiskWindow.cfg` | INVARIANT | `docs/DETECTION.md:158`: decay is applied between events only, never from the last one to the present |
| `EveryReplicaSeesEveryEvent` | `LiveFeed.cfg` | PROPERTY | `docs/ARCHITECTURE.md:126`: an error of the Redis connection ends the relay task for ever, and `publish` goes on handing events to Redis |
| `SameOperator` | `Console.cfg` | INVARIANT | `lib/auth.tsx:10`: a profile or token pair of the session before may arrive after another sign-in; `OneOperator` shows that this overlap is the only way |
| `NoRuleBreaksThePipeline` | `Workbench.cfg`, with `WrittenRules <- MCBehindABranch` | INVARIANT | `engine/rules.py:216`: a pattern that the probe never evaluates passes validation, and its `re.error` is not the error that is caught |
| `ReportedUnmitigated` | `Workbench.cfg` | INVARIANT | `engine/explain.py:549`: with tampering in the window other events may still have been damped, and the score says so |
| `ScoringIsIdempotent` | `Estate.cfg` | PROPERTY | `docs/DEPLOYMENT.md:141`, "harmless, since scoring is idempotent", and `:135`, "stateless apart from two in-process caches": the tuning is a third thing in memory; `PUT /hyperparameters` (`analytics.py:174`) reaches one of the two processes, and their schedulers replace each other's scores with every pass, for ever or until a restart. `ScoresSettle` shows what does settle: lists, cohorts, and some process's tuning |
| `ResetDeletesAll` | `Seeding.cfg` | PROPERTY | `endpoints/simulator.py:80`: a case that is being opened survives the reset and keeps its number; once the count has reached it no case can be opened any more |

Others met on the way:

* `ARCHITECTURE.md:86`, one open alert: an analyst may reopen one beside a newer one.
* `ARCHITECTURE.md:127`, slow consumers are dropped: only their queue is; the
  connection stays open, sends heartbeats and looks healthy.
* `DEPLOYMENT.md:190`: the gauge of connections keeps those whose greeting
  failed, because the handler that gives it back is not entered yet.
* `DETECTION.md:164`, benign events reduce risk: with a threshold tuned to 68 or more, an
  event below it may still meet a severity floor and raise the risk.
* `DETECTION.md:171`, rising sensitivity earns a bonus: the amplifier
  compares only the last four of the streak.
* `engine/sequence.py:10`, risk decays continuously: when an old event leaves the window the rest may
  look like a rising streak and the score grows with nothing new.
* `db/models/detection.py:73`: an approval past its `valid_until` goes on damping
  the events it covered until maintenance deactivates it, and then the stored risk
  waits for the next pass.
* `services/detection.py:388`, a match is counted exactly once: what was counted
  is overwritten by the next score.
* `core/middleware.py:107`: two budgets share one log of hits, so ordinary requests
  are refused once ingestion has filled it.
* `endpoints/analytics.py:174-186`: a retune whose recompute fails is not taken back. The
  new tuning stays in the memory of its process, while the audit entry about it is rolled
  back with the transaction.
* `lib/live.ts:75`: whoever signs out and in again may have the close event of the old socket
  come after the new one was opened. It clears the variable that names the new socket, a
  reconnect opens another beside it, and both feed the pages, until the unnamed one ends.
  TLC shows it for `Console!OneSocketOnly` as an invariant of `Console.cfg`; `OneFeed` excepts
  every mount beside a socket that has not ended yet (`late`).
* `services/events.py:71`: when Redis has published a message and only its answer is lost, the
  publisher delivers it locally as well and its consoles get it twice.
* `services/response.py:342`: what the steps of a playbook published before
  a later one failed has been sent, though the steps are rolled back.
* `endpoints/analytics.py:230` and the exemption action re-score before the new row is
  flushed; `db/seed.py:300` describes watchlists nothing fills.
* `engine/explain.py:172`: the bound of 30 below which damping makes the verdict is fixed, while
  the critical threshold may be tuned down to 20. A damped identity between the two is "most
  likely benign", and its session is to be quarantined at once. TLC shows it for
  `AdviceAgrees` with thresholds 6, 10 and 20, the forms `Deploy` and `Collect(6000, 4)`,
  approvals that leave 65 and 40 percent, and five operations.
* `DETECTION.md:260`, rules that "fire regardless of any approval": not one that
  asks for `cumulative_risk`, since an approval of the events before changes that risk. Such
  a rule may also want the risk to be low, and then one more rule lowers a later score.
  TLC shows both, with such a rule among the first and four operations, when the
  condition `RiskBlind` is taken from `TamperingUnmoved` and `RulesOnlyAdd`; no built-in rule asks for risk.
* `engine/peer.py`, "the control group every identity is measured against": the group holds the
  identity itself (`detection.py:196`), so learning an event can raise its `peer_divergence`.
  With 19 events of level 1 and one of level 5 behind it and peers that stay at 1, learning one
  of level 3 moves its own ceiling from 5 to 3 and the cohort's mean below 2: the score goes from 14 to 38. In a
  cohort of five that shares nothing, learning a resource of level 5 that one peer has makes it
  shared, sensitivity is compared from then on, and the score goes from 30 to 38.
* `lib/api.ts:58`, "genuinely over": a network error of a refresh ends the session too.

## 4. Proofs

TLAPS checks these for every value of the constants that meets the named assumptions
(`TableAssumption`, `LifecycleAssumption`, `SessionsAssumption`,
`AccumulatorAssumption`, `WindowAssumption`, `ConsoleAssumption`, `LiveAssumption`, `AccountsAssumption`,
`LimiterAssumption`, `EstateAssumption`, `SeedingAssumption`, `LiveFeedAssumption`,
`BaselineAssumption`, `WeightAssumption`, `ScoringAssumption`, `EvidenceAssumption`, `WorkbenchAssumption`,
`TurnAssumption`): any
number of identities, alerts, approvals, sessions, playbook steps, accounts, keys,
watchlists, processes, workers, replicas, connections, console requests and sign-ins, any decay,
gain, window, budget and queue limit. The assumptions say what kind of thing a constant is,
that the value meaning "none" is not one of the things, and that the
connections of the feed are finitely many, which counting them needs. For the engine they say that
peers and rules are finitely many, that rules are as their schema has them (`IsRule`), and that what
the engine hands to the accumulator is of its kinds (`TurnAssumption`).

* **`AlertLifecycle_proofs`** begins with what `Reconcile` and `CloseOpenAlerts` do to
  one row and to the predicates `Stamped` and `SingleStory`, for every table. Then
  `TypeCorrect`, `TerminalStamped` (`ResolvedStamp`), `OneStoryEver` (`OneStory`),
  `VerdictsKept` (`VerdictsStand`), `ContainmentEmpties` (`ContainmentEmptiesQueue`).
  The invariant is `TypeOK /\ ResolvedStamp /\ OneStory /\ RollbackKeepsStory`:
  the last part is needed because an abort brings back the tables from before
  the playbook, of which the first three say nothing.
  `SuppressionApproved` (`SuppressionNeedsApproval`) rests on one more part,
  `SuppressedStays`: what was suppressed before a playbook is so while it
  runs, so that its abort brings no suppression back that the playbook had lifted.
  `TamperingAlwaysResurfaces` (`TamperingResurfaces`) follows a pass: tampering
  forces `anti_tamper_override`, the override alone is a reason to alert, and an existing
  unresolved alert is refreshed to a status that is not terminal.
  `AlertsAreTriageQueue` (`IsTriageQueue`) is the refinement, action by action. A
  scoring is a step of the abstract `Score` because refreshing lets a story go on or closes it
  (`RefreshGoesOn`); an action on an identity is a response (`ExecuteIsResponse`), and responses
  to one identity compose (`ResponsesChain`), which keeps the additional invariant
  `PlaybookResponds`: what a running playbook has done so far is one response to the saved table.
* **`AlertSessions_proofs`**: `TypesHold`, `StampsHold` (`ResolvedStamp`),
  `StampsStay` (`StampNeverWithdrawn`). What is committed is an overlay of
  rows read at different times, so the invariant speaks about every transaction:
  the objects it holds and the values it started from are stamped, and a
  stamp in its base is one that the database still has. From this a column-wise
  write can neither withdraw a stamp nor leave a terminal status without one.
  `OnlyStaleReadsOverturn` (`VerdictsFallOnlyToStaleReads`): a job that scores or
  contains assigns a status only to an alert that was not terminal when it was read, and
  a column is written only where it differs from what was read.
  `BatchesKeepOneStory` (`BatchesOpenNoSecondStory`) needs the locks: the invariant
  `ReadyInv` says that no two transactions hold the row of the same identity, that a
  transaction holds the row of every identity it raised an alert for, and
  (`HoldsStories`) that a batch, which held it before it looked, raised at most one
  and only while every other alert of that identity was and stays resolved.
* **`Risk_proofs`**: `RiskBounded` (`TypeOK`), `DampingOnlyLowers`
  (`DampedBelowRaw`), `DampingIsReported` (`UndampedAgree`), `EngineKeepsPromise`
  (`PromiseKept`), `BenignEventsReduceRisk` (`BenignNeverRaises`, which needs the
  threshold below 68). The invariant says that damped risk is at most raw
  risk and equal to it while nothing was damped, that the streak is that of
  the raw scores, and what the flags owe to the events seen. `Turn` is monotone in risk and score,
  which is why the first conjunct survives a shared amplifier.
  For the window, of any length: `StoredIsTyped` (`WindowTypeOK`),
  `InactiveApprovalsDampNothing` (`InactiveProtectsNothing`), `StoredKeepsPromise`
  (`StoredAsPromised`). The invariant adds to the types that a fresh score is what
  the loop computes from the log and the approval stored now (`FreshIsScored`);
  the rest is about the loop. Its accumulator after each event is a recursive function: `CourseExists` shows
  that there is one, `CourseRuns` that each value comes from the one before by a turn, and
  `HandedOn` carries what a turn keeps from the first event to the last. That
  induction is by the least place where it would fail, because the library's
  induction theorems take a predicate as their parameter.

  For the whole engine, with any past, rules, approvals, peers, indicators and events, every property of
  the run is proved, and two more. All of them start from `ReportIsCurrent`: `report`
  is always what scoring the present state finds. `BenchIsTyped` is the type invariant;
  with it `FusedType`, `EventVectors` and `BoostsOnlyAdd` bound what a fold over weights, a baseline and a
  set of boosts returns, and `EveryEventIsScored` says so of every event in a report.
  `ReportKeepsPromise` closes the circle: what the *whole* engine makes of the window,
  from vectors to damped risk, is a result of `AlertTable!Correlate`. Its invariant is
  about the loop, `AsPromised`, carried from one event to the next by
  `RiskAccumulator!Turn`, for which `JudgedIsEvent` shows that what is judged is an event of the accumulator.
  `AdviceIsConsistent` (`AdviceAgrees`) takes from it that risk is a number, and
  needs a critical threshold of at least 30 (see above for what happens below).
  `EvidenceStands` (`EvidenceAccumulates`) compares the scorings of a window and of the same with later events: what is scored up to
  an event depends on nothing after it (`ScoresStand`), the first event on a resource stays
  the first (`FirstStands`), and sums over what is touched grow (`SumsGrow`).
  `ApprovalsMoveNoTampering` (`TamperingUnmoved`) compares two scorings of one window under different approvals. The vectors
  of an event depend on habits and on the events before it, not on how those were judged
  (`SameVectors`); a rule that does not ask for risk evaluates the same at any risk
  (`BlindEvaluates`, level by level up its tree); so if none of the rules that hit is
  suppressible the same rules hit (`HitsStand`), and the score is the same.
  `RulesNeverLower` (`RulesOnlyAdd`) compares two scorings under different rules. With more hits
  the boost at each rank is no smaller (`RankedGrows`), so the discounted sum is not either (`DiscountedGrows`, by the
  least place where it would fail), nor the capped one (`BoostsOnlyAdd`); and the rules that hit are among those
  that hit afterwards (`MoreRulesScoreMore`).
  `LearnedReassures` (`LearningReassures`) holds after any history and any number
  of repetitions. `EventTeaches` collects what one more event does to a baseline: its counts
  and parts of the whole only grow (`QuotientGrows`), a resource among the most common stays so (`CommonStays`),
  a ceiling that it is above does not fall (`CeilingFollows`). Each vector then has a lemma (`TemporalCalms`, `ResourceCalms` and
  so on); the cohort needs that what it shared is still shared (`SharedStays`).
* **`Console_proofs`**: `TypesStay` (`TypeOK`), `RefreshShared` (`OneRefresh`),
  `OperatorAgrees` (`OneOperator`), `OneSocket` (`OneFeed`). `OneOperator` says
  nothing of calls under way, so the invariant `Inv` adds them: as long as no call of
  an earlier sign-in was open when somebody signed in, the tokens kept, the
  refresh in flight, the profile asked for and the operator shown all belong to one
  sign-in, and the gate is pending exactly while one request refreshes.
  `FeedInv` says that a socket in use is the named one or one that was
  closed with the pages. `OneSocket` holds only as long as no pages were shown while a socket
  of earlier ones had not ended (`late`), also by an ordinary sign-out and sign-in; section
  3 shows what happens then.
* **`LiveFeed_proofs`**: `TypesFit` (`TypeOK`), `GaugeCountsAll`
  (`GaugeNeverUndercounts`), `FeedHasNoGap` (`NoGap`), `BusesDoNotEcho` (`NoEcho`).
  `NoGap` speaks of the subscribed only; `Stories` says it place by place (`Tells`), and of everybody else that
  nothing was sent to them or is queued and that they are in no list, so that
  who subscribes starts from nothing. `NoEcho` depends on what is still on its way: `InStep` says that
  until Redis fails it holds, in rising order, only events later than any that
  a bus it still has to reach has delivered.
* **`Access_proofs`**: `StandingDecided` (`StandingIsDecided`). A handler
  loads an object, works on it while others commit, and writes at its own commit;
  so the invariant speaks of the columns a session is going to write: a role,
  a flag, a password or a revocation only under the audit entry that accounts for it,
  because the unit of work writes a column only where the handler gave it
  another value (`WrittenDiffers`). What the object had loaded for the other columns, and
  how old that is, no longer matters.
  The limiter: `BudgetsHold` (`NeverOverBudget`), `BudgetsAreLeft` (`NoneRefusedEarly`).
  Both compare the log with what was really let through, so the invariant
  `Agrees` relates them: the end of the log is the ages of `admitted`, in order, and
  whatever stands before is older than a window. A clean-up by a slow request forgets nothing that still counts, because it
  asks for four windows before its own arrival.
* **`Estate_proofs`**: `NothingLeftHalfDone` (`NothingHalfDone`). Stored scores
  come from sessions that may still roll back, so the invariant adds what an
  uncommitted session has written: its scores count lists that exist, or the one
  list it adds itself. Lists are never deleted, so this stays true until it commits;
  the two copies of the engine's parameters that each process has change in one step, and only
  to an ordered tuning, for any number of processes.
* **`Seeding_proofs`**: `EstateIsOne` (`OneEstate`). The unique usernames let
  one of two racing seeders commit; what has to be carried along is
  what a session has seen: one that seeds no estate has seen one, and an estate once
  there is replaced and never only deleted; a reset that deletes
  identities has deleted the approvals and events of each of them before.
  `CasesNumbered` (`NumberedInOrder`): the invariant `Order` adds that the name of an estate
  that is not committed yet is nobody else's (`Apart`), and that a case under way
  has at most the number after the count of those stored, as long as the estate it was
  counted under is (`Counted`); the unique number refuses all but the next.

The type invariants of the alert modules, of the accumulator and its window, of the
console and of the feed, and `ResolvedStamp`, are proved for all constants, so no run
repeats them, nor `UndampedAgree`. That of `Accounts` says what its variables hold; no proof needs it.

Only model-checked:

* all liveness (`NotSuspiciousForever`, `ExpiryEnds`, `ScoresSettle`,
  `ExpiredListsLoseEffect`, `ComesUp`, `QueueDrains`, `HalfOpenEnds`, `FeedRecovers`,
  `DeadSessionEnds`), which TLAPS does not prove under fairness. Every other property
  of a passing run is stated by a theorem;
* what a sum by a fold or a sort returns, beyond the bounds and comparisons above: the value itself would need an
  induction over data, and the library's induction theorems take an operator as parameter;
* the disagreements of section 3, which are counterexamples and TLC's to find.

## 5. Not modelled

* Text, titles and the wording of answers; the numbers of the explanation where no
  decision depends on them.
* Real arithmetic: scores, boosts, weights and decay are whole points, with the
  rounding and the caps of the code.
* Duplicates and auto-provisioning in ingestion; `event_count`,
  `occurrence_count` and `run_count`, which overlapping requests may lose.
* Which row locks two database transactions wait for: only `Estate` has the
  deadlock that PostgreSQL breaks.
* Several tabs of the console; the check of the token when a socket opens;
  lengths of backoff and timeouts, except where their order matters.
* Retention and the content of snapshots; the generator of seeded events, of
  which only what is stored together matters.
* Read-only queries, exports and pages, which change no state; migrations.

## 6. Plan

Done: alerts, overlapping transactions, risk, the engine, scores of an estate,
accounts, the limiter, seeding, feed, console; the abstract triage queue; proofs about
all of them.

Next, in this order:

1. `Publication`: transactions composed with the feed: what a console sees of
   an event that was published before its commit.
2. `Counters`: the counters that are read, raised in memory and written back; the lock
   order of batches and passes.
