# Verification of the LLM inference gateway

TLA+ models of a platform that serves chat requests from a pool of machines,
each of which runs a llama.cpp `llama-server`. TLC checks them on small
instances, and TLAPS proves their main safety properties for every value of
the constants. PROJECT.json lists the runs, the mutants (a plausible bug for
each property, which the run must find), the hazards, the theorems and the
source lines of each definition.

## 1. The system

A FastAPI process, the *gateway*, authenticates a caller by API key, applies a
rate limit kept in Redis, and sends the request to one of two *pools* (text,
multimodal) of llama-server nodes. It is one asyncio process with one uvicorn
worker; Postgres holds users, keys and one row a request. A background task
probes the nodes. On the control node a shell script, the *watchdog*, restarts
servers over ssh; two scripts start and stop the platform; a cron job copies
the llama.cpp sources to the nodes and builds them; a benchmark script puts
load on the gateway from outside and draws conclusions from what it measures.

### Components

| Component | State | Operations | Interacts with |
|---|---|---|---|
| Node pool (`gateway/router.py`, `NodePool`) | `healthy`, `in_flight`, `waiting`, an `asyncio.Condition` | `acquire`, `release`, `evict`, `affinity_node`, `has_alternate` | dispatch calls it; the monitor writes the same `healthy` set |
| Dispatch (`router.py`, `submit_inference`, `stream_inference`) | excluded nodes and attempts of each request | send, stream, fail over, back off, give up | pool, nodes over HTTP |
| Health monitor (`health_monitor.py`) | answers of the round under way | probe all, gather, apply | pool, nodes |
| Rate limiter (`rate_limiter.py`) | a sorted set in Redis for each user and pool | one pipeline a request | Redis |
| Chat handler (`routers/chat.py`, `request_logger.py`, `metrics.py`) | gauge, counters, rows | limit, dispatch, log, count | limiter, dispatch, Postgres |
| Keys and accounts (`auth/`, `routers/admin.py`, `init_db.py`, `generate_api_key.py`, `models.py`, `database.py`) | users, keys, connections | authenticate, create user, create key, bootstrap | Postgres |
| Watchdog (`scripts/llama_watchdog.sh`) | failure count of each node | check, restart over ssh, wait, back off | the servers |
| Start and stop (`startup_scripts/`, `start_linux_worker.sh`) | processes | launch and kill servers and the watchdog | the same servers |
| Sync job (`cron/llama_cpp_sync.py`) | trees and builds on the nodes | probe, rsync, validate, build | nodes over ssh, other runs of itself |
| Benchmark (`scripts/benchmark.py`) | scenarios, results | send a batch, gather, give up, summarise | the gateway over HTTP |

### What is hard, and what makes each part correct

* **Pool and dispatch.** Coroutines interleave at every await; a slot taken at
  one place is given back at seven; waiters sleep and may be cancelled;
  failures, evictions and late probe answers change the candidates under them.
  Correct: slots and queue counter match reality, no wakeup is lost, a request
  does not return to a node that failed it, and every request is answered.
* **Limiter and handler.** The clock is read before the commands are sent, so
  Redis sees them out of order, late, or not at all. The handler is left on
  six paths, and what goes wrong after a request was logged is caught and logged
  again. Correct: never more than the limit in a window, no undeserved 429,
  every outcome of a request counted and logged once.
* **Accounts.** Creations race on unique columns; scripts die between
  statements; an inference may last fifteen minutes while the pool has forty
  connections. Correct: answers agree with the tables, the first administrator
  has a key, keys count as they are, nobody starves.
* **Servers.** Several actors look, then act, over an ssh that may be given up
  while its command goes on. Correct: one server on a node and one watchdog for
  it, a stop is final, bounded downtime, and slow nodes come up in the end.
* **Sync.** Any step can fail and the next run decides from what is left; cron
  may start a run beside one that still builds. Correct: the build on a node is
  that of its sources.
* **Benchmark.** What it gives up goes on at the gateway, what it has read to
  the end still holds a slot, and its own requests fill the user's limit.
  Correct: a result for each request, and latencies that its own load explains.

## 2. Modules

```
NodePool  <-- Dispatch ------+
    ^                        +--> Gateway --> GatewayClaims --> MCGateway
    +------- HealthMonitor --+       |        GatewayProofs <-- GatewayRefinement
                          Scheduling (abstract)
RateLimiter <-- ChatHandler      --> MCChatHandler       ChatHandlerProofs
Accounts                         --> MCAccounts          AccountsProofs
    |  Registry (abstract)
ServerLifecycle                  --> MCServerLifecycle   ServerLifecycleProofs
WatchdogTiming                   --> MCWatchdogTiming    WatchdogTimingProofs
LlamaSync                        --> MCLlamaSync         LlamaSyncProofs
Benchmark                        --> MCBenchmark         BenchmarkProofs
```

* **NodePool** has an operator for each method of the class. A step never
  spans an await; the pool's lock is not held across one except in
  `Condition.wait`, where `parked` is the set of coroutines that sleep.
* **Dispatch** follows one request: `pc` is the await at which its coroutine
  is suspended, `node` the slot it has and did not return. `Home` is the node
  the hash of its session key picks. `Faults` turns on what the code does not
  handle: a 200 whose body does not parse, and a caller who disconnects.
* **HealthMonitor** gathers a round's answers (`passed`) and applies them in
  one step, after evictions it does not know of. `up` is external: whether a
  node would answer.
* **Gateway** composes them for one pool; the two pools share nothing. The
  probe loop has declared all nodes healthy before the first request
  (`main.py`, `lifespan`), hence `Init`.
* **Scheduling** says what a pool promises without locks, wakeups or probes.
  Which nodes are `offered` is left to the pool. A request may be given
  (`Eligible`) any offered node that has not failed it, or any other such node
  if none of them is offered, and it is queued or turned away only when *every*
  one of these is full (`Saturated`). A node that is not offered may be idle
  meanwhile: `_candidates` never looks at it. `Gateway!Abstract` is the instance
  under a refinement mapping: `offered` is the healthy set, and a request that
  has left while its slot is still counted is `lost`.
* **RateLimiter** splits `check_rate_limit` into reading the clock, the
  commands in Redis, and the verdict; `RunLate` is Redis running the commands
  of a client that has timed out. redis-py sends the pipeline as one
  transaction. `MaxDelay` bounds what passes between a request's reading of the
  clock and the commands of one that gets its reply: connecting and each reply
  (0.2 s at most each, `rate_limiter.py:21`), and the event loop in between. That
  it stays within EXPIRE's extra second is an assumption; with a loop that hangs
  for longer the window is not kept. A request that is let through because Redis
  fails is none the limiter has granted, and is not counted in the window.
* **ChatHandler** has an action for each stretch of the handler between two
  awaits. What the pool makes of a request is an outcome here. `AnswerFails` is
  what goes wrong after a result was logged and counted (`chat.py:277-281`): the
  outer clause settles the request again, with 500 (`spoilt`), counts it and goes
  on to write a second row. `Drop` is an error inside that clause, which leaves
  by `finally` without a row. `Cancel` is a
  disconnect that cancels a running `event_stream` at an await (its row is
  lost), `Abandon` one that leaves it suspended at a yield, to be closed later
  (row written, with status 200).
* **Accounts** has an action for each statement or commit. A session takes a
  connection with its first statement and gives it back at commit, rollback or
  close; scripts have connections of their own. Uncommitted rows are `fresh`;
  an INSERT that meets one waits, as Postgres does. The two SELECTs of a key
  check are one step: nothing is ever turned on again, so the second decides
  as both would. Nothing in the repository clears `is_active`; `Deactivate` and
  `Revoke` are an operator at the database.
* **Registry** says what the gateway promises about users and keys without
  sessions and transactions: each request takes effect at one instant between
  its arrival and its answer. `Accounts!Abstract` is its instance; users and
  keys map to the committed ones, `answerOf` to what a client has been told.
* **ServerLifecycle** is one node under watchdog, start and stop. Each element of
  `Starts` is one run of the start script, with the watchdog loop it launches;
  several may be at work at once. `shell` are restart commands on the node, which
  outlive the ssh that sent them. SIGTERM, the pause and SIGKILL of a kill are
  one step. `Faults` turns on processes that outlive the kill rounds (*stuck*),
  ssh and curl that time out on a node that is there (*slow*), a start on a
  platform that is up (*again*), and scripts run at the same time (*beside*);
  `struck` records which have happened.
* **WatchdogTiming** is the watchdog's loop in time, in units of the 30 s poll
  interval. `wait_for_health` counts only its sleeps, so that a wait takes
  anything from `Wait` to `LongestWait`, by how many of its curls run into their
  timeout; the curl and the ssh of a restart take up to `Command`. A command
  whose ssh was given up may launch at any later time (`LateLaunch`). `Budget` is
  what the failures so far may cost, a function given by its recurrence
  (`BudgetAssumption`), so that the proofs need no induction.
* **LlamaSync** has a set of runs (`Jobs`), each with its own local state, over
  shared trees and builds; nothing in the code keeps two apart. rsync lists a
  file whose contents differ or that was `touched`: -a compares times and modes,
  too. A line counts as a change if an extension occurs anywhere in it
  (`Matched`), which is more than what a build reads (`Compiled`). A transfer
  that is cut off leaves a `Torn` file (--partial). A build that
  meets another may mix what both read. `owed` and `met` are history
  variables: nodes left without the build they need, by a run that stopped
  after sending sources or by two builds at once; and runs that came upon
  another at the node they visit.
* **Benchmark** takes each mode from the plan of `main`: a sequence of
  scenarios, each a pool, a number of requests and a concurrency. Requests are
  alike and are counted, by place (sent, in a slot, queued, paused between
  tries) and by whether the script still waits for them. The gateway is only as
  detailed as a client can tell; NodePool, Dispatch and RateLimiter have the
  rest. `left` are slots of streams the script has ended.

Definitions introduced as "Faulty variant" are used by no specification: they
are the mutants.

## 3. Runs

| Run | Instance | Shows | States |
|---|---|---|---|
| streams | 3 streams, 2 nodes of 1 slot, queue of 1, 1 retry, callers may leave | slots, queue and wakeups stay accounted; Gateway implements Scheduling, so no node gets more than it runs, and a request is queued or turned away only when every node it may be given is full | 179 k |
| failover | a stream and a submit of one session, 2 nodes that change twice, malformed bodies, callers who leave | exclusions, evictions as last resort; a request's moves run out; only the monitor strands a sleeper; the monitor's mistakes have causes; the healthy set converges | 599 k |
| answered | 3 submits for 2 slots and one queue place, more nodes than retries, no malformed body | every request is answered: no wakeup is lost for good and no place in the queue or slot | 342 k |
| ingress | a stream and a submit, limit 1, window 3, clock to 7 | window, 429s; rows, gauge and counts together (`Accounted`), also of requests that are settled twice | 4.92 M |
| accounts | chat, creation, key creation, init_db.py, 1 connection | Accounts implements Registry, so users are unique, answers true and bootstraps whole; current keys; no starvation | 416 k |
| servers | 2 processes, 2 commands, 2 kill rounds, 2 crashes, 2 starts, all faults | one server but for the faults, one that lives if the fault is a stuck process; stops are final but for commands under way, which launch one server each; one watchdog unless scripts run at once | 346 k |
| timing | the schedule and timeouts of the script, load times up to 8 minutes, 1 crash, 2 failing commands that may launch late | downtime is bounded; loads are cut short only beyond the schedule; slow nodes recover | 3.03 M |
| sync | 2 runs at once, 2 nodes, 3 files, 1 edit or touched file, 1 failure | builds match trees, what is compiled was checked, an undisturbed visit brings its node up to date, nodes catch up, with overlapping runs and files cut off | 1.31 M |
| benchmark | every mode but `all`, 5 requests, concurrency 3, 6 and 12 slots, 1 failure | a result for each request, no throttling within the limit, queueing explained by the load, the work that is left only falls, the run ends | 859 k |
| leak, unnotified, up_to_date | small | findings, section 6 | |

Why the bounds are enough:

* *Gateway*: three requests for two slots and one queue place give every
  combination of running, queued, turned away and backing off; with one retry
  and two nodes a request can fail on one node and be left with the other.
  `answered` has no stream and no outage since any node may fail any request
  at any time anyway (`FailOver`), and more nodes than retries, as in both
  configured pools (six nodes, five retries; the text pool has eight addresses,
  two of them excluded by default). It says nothing of pools with fewer nodes,
  nor of slots that are lost: both keep requests waiting, see section 6.
  Symmetry is used in `streams` only, which
  checks no liveness.
* *Ingress*: window 3, slack 1 and seven instants are enough for two windows,
  an expired key and a late pipeline. `Limit` 1 makes the second request the
  one that decides. With two requests a pipeline that trims too much for another
  one costs nothing yet; that it never costs more than its delay is left to the
  proof of its second part, `EveryWindowRespected`.
* *Accounts*: one connection makes every two sessions compete. The names and
  addresses of the new user and of the administrator agree in all ways.
* *Servers*: a third process or command shows nothing the two do not: the
  properties are about two. Two starts, at once or one after the other, on a
  platform that is down or up, give every pair of launchers and of watchdogs. The
  proofs need no bound.
* *Timing*: sixteen load times reach one more than the wait and the longest
  backoff, so both sides of the property's condition occur; a wait takes four to
  eight units, 120 s to 240 s. One crash and two failing commands can strike in
  any state, and a late launch may follow either of the two.
* *Sync*: two runs meet in every order on a node, or work on different ones.
  Of the three files one is not compiled and one is required. Nodes start empty,
  so the first visit transfers and builds without an edit: the one edit and the
  one failure come on top of that. A file may be touched instead; the job then
  builds the same sources again, as it does for a page whose path contains `.h`,
  for which there is no file of its own.
* *Benchmark*: slots and limits are the deployed ones; the text queue has five
  places instead of twenty, so that the twelve requests of the queue mode can
  exceed it. One failure can strike a request in any place, take a node down,
  or make the script give up. Five requests at a concurrency of three leave a
  last batch that is cut. The sum of all modes is left to the proofs.

`CHECK_DEADLOCK FALSE` stands where a system of finitely many requests, starts,
scenarios or clients really ends. `sync` and `timing` never stop and are checked for
deadlock.

### Fairness

* *Gateway*: weak fairness of a request's own steps (retry after its backoff,
  wake up, get an answer) and of the probe loop. asyncio runs every coroutine
  that is ready; sleeps end; httpx timeouts (2 s to connect, 900 s to read)
  bound a node's silence. Nobody has to arrive, and nodes need not fail or
  recover.
* *Accounts*: weak fairness of a client's database steps: Postgres answers,
  and a connection that is free goes to some waiter. Inferences may never end.
* *Timing*: time passes and the watchdog's loop goes on (it runs under
  `set +e`). Crashes, failing commands and late launches need not happen.
* *Sync*: weak fairness of each run of the job on its own: cron starts it
  again and every step of it ends (all commands have timeouts). Edits and
  failures need not happen.
* *Benchmark*: weak fairness of the script and, for each pool, of the gateway
  as it judges, runs, retries and answers requests (the timeouts above). That
  it ends a stream is *not* assumed: a slot may be lost, as run `leak` shows.

## 4. Proofs

All proofs are for any sets of clients, nodes and values of the bounds, from
the named assumptions in the modules only (finite sets, positive sizes).

* **GatewayProofs**: types, `SlotsAccounted` with `CapacityRespected`,
  `QueueAccounted`, `NoStrandedWaiter`, `ExclusionBudget`,
  `EvictedOnlyAsLastResort`; and that with more nodes than
  retries no request excludes all nodes. The invariant is their conjunction:
  that `release` lowers a count needs the count to be that of the holders; a
  waiter that finds all candidates taken sleeps behind a *full* node only
  because no node exceeds `Parallel`; and the exclusion budget needs that a
  request holds a slot only at a node that has not failed it.
  On top of it: while no slot is lost, a full node is one whose requests are all
  in service (`FullNodeWorks`), so whoever sleeps waits for work and whoever is
  turned away meets it (`WaitsForWork`, `TurnedAwayForWork`). `MovesRunOut` gives
  each request a measure, five times the retries left plus the places left on
  the way, that every move lowers; it needs the failures of a request to stay
  within its retries also after its caller has left (`FailuresBounded`), of
  which the exclusion budget says nothing.
  `HealthAccountable` (`MistakesHaveCauses`) is about what the monitor leaves
  behind: once a round is over, the healthy set is wrong about a node only
  because the node changed since it was probed or a request evicted it. The
  argument follows a round: what it has gathered is right but for the nodes that
  have changed (`RoundClean`), and between rounds nothing but `evict` writes the
  set (`EvictionsBlame`).
  Two theorems say how far the refuted claims of section 6 hold.
  `FullIsDemand`: with neither malformed bodies nor callers who leave, a full
  pool means demand. `BrokenByMonitorOnly`: no step of a request leaves a sleeper
  beside a free node, in particular no eviction and no cancelled waiter.
* **GatewayRefinement**: Gateway implements Scheduling. The invariant gives
  what the abstract guards ask for: the slot counts are the abstract load, the
  candidates of a request are its eligible nodes that have room, so that it
  queues or is refused only when all of them are full, and it is failed over
  only within its budget and before output.
* **ChatHandlerProofs**: types, windows, 429s, gauge, rows, counts. To prove the
  window one has to know what the key forgets: an entry is trimmed or expires
  only when it is outside every later window (`Remembered`), which needs the
  delay of a pipeline to be covered by the extra second of EXPIRE
  (`MaxDelay <= Slack`). The counting goes by an injection of requests into
  entries: stamps differ. `WindowRespected` is about the window that ends with the
  newest stamp. In one that ends earlier more may be granted: a pipeline that
  another has overtaken counts a set the other one trimmed for a later window
  (with a limit of 2, a window of 4 and a delay of 2, requests of the instants
  1, 2, 6 and then 4 are all granted, three of them within 1 to 4).
  `EveryWindowRespected` bounds the effect: no window shorter by `MaxDelay` takes
  more than the limit, since no stamp a pipeline meets is ahead of the clock.
  `AccountsCorrect` puts rows, gauge and counts together, as the run checks them.
  What they account for are the outcomes of a request (`Outcomes`), one, or two
  if a result was logged and could not be sent: `Spoilt` says when there are two,
  `Whole` that rows and counts keep up with them.
* **AccountsProofs**: types and pool limit, `KeysCurrent`, `AnswersHold`,
  `BootstrapWhole`, `NoDeadlock`, `ImplementsRegistry`. The invariant says where
  the code of each kind of client can
  be (`Roles`), that rows are in their tables as far as the maker has come
  (`Rows`), that no committed or uncommitted rows clash (`Unique`), and that
  what a request has found out of its key stays true (`Judged`). Uniqueness of
  committed rows alone is not inductive: two uncommitted rows could clash.
  `NoDeadlock`: who holds a connection goes on or waits for a row whose maker
  holds another one and goes on; if nobody holds one, there is one to be had.
  `ImplementsRegistry` goes client by client: a request takes effect with the
  key check, or with the commit; all its other steps are stutters or tell the
  client what has happened.
* **ServerLifecycleProofs**: types. `OneWatchdog`, by `LoneInv`: unless scripts
  ran at once, at most one is at work, and who is about to launch a watchdog has
  killed the old one. `SingleUnlessStruck`, by `OneInCharge`: only one of start
  script and watchdog's command acts, and it launches on a node where nothing is
  left, or, once a process was stuck, where everything is being killed; this
  needs that a command that has begun to kill stays the only launcher.
  `StopIsFinal`, by `QuietInv` (nobody is left who would launch).
  `OnlyLateCommandsRevive`, by `HushInv`: nobody is left who would send a
  command, so that those on the node only get fewer, each by a launch.
* **WatchdogTimingProofs**: types and `DowntimeBounded`, for any schedule,
  timeouts and load times. The invariant relates the downtime to the failures:
  what has passed and what the timer still holds is within the budget of the
  failures counted so far, where each attempt costs its timeouts, too.
  `LoadNotCutShort` needs what the watchdog has waited since the last launch
  (`WaitKept`, `SleepKept`): a command that failed counts as a failure, and its
  backoff comes on top of what the load was given before. It speaks of the loads
  the loop has waited for, not of those a late command has begun.
* **LlamaSyncProofs**: types; builds match trees, for any number of overlapping
  runs. The invariant has the property (`Matches`) and, besides, that a run has
  its `source_changed` set from the first file it sends to the end of its build
  (`Committed`). `Compiling` and `OneCompiler`: who compiles alone started from an empty
  directory, and whatever was sent meanwhile has somebody to build it.
  `BuildsWhatWasChecked` follows from who may write a tree: for a run no other
  came upon, only itself, and it sends nothing after validation.
  `VisitsDeliver` (`VisitsBringUpToDate`) says what one visit is worth: a node
  whose visit succeeds, undisturbed by others, is left with the sources of the
  control node and their build. It joins what the comparison has found
  (`Compared`), what is on the node but not yet sent (`UnsentStep`), who writes
  trees and time stamps (`TreeStep`, `TouchedStep`), and that
  the visits of other runs elsewhere leave it alone (`RestKept`).
* **BenchmarkProofs**: for every mode, `all` included, and pools, queues and
  limits of any size: types, `ResultsComplete`, `ThrottledOnlyBeyondLimit`,
  `QueuedOnlyOversubscribed`. Besides the properties the invariant says that
  the script waits at one pool only (`OnePool`), so that its requests are within
  the width of its scenario, and that the limiter remembers no more than it has
  judged. A request that finds no slot is then one of those that make the pool
  oversubscribed.
  `WorkEnds` (`WorkRunsOut`) gives a scenario a measure: what is unsent, and for
  each request under way how far it still is from its answer (`Weight`), whether
  the script waits for it or not. The proof follows requests from place to place
  (`RiseByOne`, `LoadMoved`, `LoadEnded`): every move of a request or of the
  script lowers the measure, or ends the scenario and leaves fewer to do. A
  failure may send a request back, and the instance allows boundedly many of
  them (`MaxTrouble`): that retries cannot go on for ever is assumed here, and is
  proved of the gateway (`MovesRunOut`).
  `QueuedOnlyOversubscribed` counts requests the script has given up among the
  load, as they are for the gateway; that they slow the scenarios that come
  after them is in the numbers the script prints, not in a property.

Only model-checked: all liveness (`EveryRequestAnswered`, `HealthConverges`,
`NobodyStarves`, `SlowNodesRecover`, `NodesCatchUp`, `Finishes`), since TLAPS
has no support for fairness and ENABLED. The safety that each of them rests on is
a theorem:

| Liveness | What is proved of it |
|---|---|
| `EveryRequestAnswered` | a request only ever waits for work that is being done, and has a bounded number of moves (`WaitsForWork`, `MovesRunOut`) |
| `HealthConverges` | a round that is over is right about all nodes but those that changed or were evicted (`MistakesHaveCauses`) |
| `NobodyStarves` | some session can always go on (`NoDeadlock`) |
| `SlowNodesRecover` | a load within the schedule is not cut short (`LoadNotCutShort`) |
| `NodesCatchUp` | an undisturbed visit that succeeds brings its node up to date (`VisitsBringUpToDate`) |
| `Finishes` | every move lowers the work left in the scenario or ends it (`WorkRunsOut`) |

What is left to TLC is that fair scheduling turns this into progress. Every other
property of a passing run is a theorem.

Some theorems have no run of their own, since what they say follows from a
property that has one: `CapacityRespected` and `TurnedAwayForWork` from
`ImplementsScheduling` and `SlotsAccounted`, `WaitsForWork` from
`NoStrandedWaiter` and `SlotsAccounted`, `AnswersHold` and `BootstrapWhole` from
`ImplementsRegistry`, `NoDeadlock` from
`NobodyStarves`, and the three parts of `Accounted`.

## 5. Hazards

PROJECT.json lists them with their lines and the properties that cover them.
The code does not keep `FullMeansDemand`, `QueuedOnlyAtCapacity` and
`EveryNodeUpToDate`, which runs refute. Seven more hazards are ones the code
falls into, met in section 6 without a run: bodies that do not parse
(`router.py:177`), small pools (`:224`) and the choice of a backoff (`:225`),
abandoned restart commands (`llama_watchdog.sh:59`), starts beside a loading
server (`start_linux_worker.sh:52`), starts that die before the watchdog
(`start_linux.sh:204`), and the benchmark's requests given up
(`benchmark.py:359`). Their notes say what the properties and theorems still show
where they happen. All others are covered by properties that hold.

## 6. Where code and documents disagree

Runs that refute what the repository says:

* **leak** (`FullMeansDemand`): a caller that leaves a stream in service leaves
  its slot counted for ever. The stream releases it in `except` clauses for
  `Exception`, and a cancellation is none. This and a body that does not parse
  are all that is wrong with the claim (`TurnedAwayForWork`, `FullIsDemand`).
* **unnotified** (`QueuedOnlyAtCapacity`): the monitor changes the healthy set
  without notifying the pool's condition: a request sleeps while a node it may
  use is free, until some other request gives a slot back. The missing
  notification is all that is wrong with the claim (`BrokenByMonitorOnly`).
* **up_to_date** (`EveryNodeUpToDate`): a run that fails between rsync and the
  end of the build is not made up for by the next.

Met while modelling, without a run of their own:

* A stream is never in `ACTIVE_REQUESTS` while it runs: the handler raises the
  gauge, returns the response and lowers it in its `finally` without an await
  in between (`chat.py:241`), against `code_overview.md:214`, "always track
  in-flight requests". `GaugeAccounted`, a part of
  `Accounted`, says what the gauge does count.
* Two builds of a node at once (`llama_cpp_sync.py:359-364`) may both report
  success and leave a mix of sources, or a stale build, which no later run
  repairs; hence the exception in `BuildMatchesTree`.
* The benchmark speaks of four nodes with two slots, eight in all, and of a
  queue inside llama.cpp (`benchmark.py:846-852,888-889,1241,1252-1253`). The text
  pool has six nodes with one slot each (`config.py`) and the queue is the
  gateway's. Its queue mode (2 + 4 + 8 + 12 requests) passes the limit of 20 a
  minute if the first scenarios take less than one: of the last twelve only six
  are then accepted, which is what the slots hold, and no queue shows. The
  throughput and `all` modes pass the limit as well; a 429 is counted as a
  failure of the platform.
* `concurrent` is no fixed concurrency level: each batch waits for the slowest
  of the last one (`benchmark.py:819-823`). An error sent in a stream counts as
  success (`:484-513`). The warning of `_print_distribution` for no successful
  response cannot appear, as errors are among the responses (`:544,551`).
* A 200 whose body is not JSON passes both `except` clauses of
  `submit_inference` and keeps its slot: the parser's error is neither an
  `HTTPStatusError` nor a `TransportError`, and the release at `router.py:231` is
  not reached (`router.py:177,202`). With `leak` this is all that loses slots
  (`OnlyFaultsLoseSlots`, `FullIsDemand`).
* `excluded` only grows, and `acquire` waits until a node outside it is free: in
  a pool of no more nodes than `_MAX_RETRIES` a request can exclude all, and
  sleeps in the queue for ever, also when they have recovered (`router.py:224`,
  against `:24-26`, "to give a real recovery ... time to land"). With more
  nodes no request comes to that (`NeverAllExcluded`).
* The comment at `router.py:22-26` has a failed request take the fast backoff if
  a healthy alternate exists and the slow one if not. `has_alternate` (`:225`)
  asks for a *free* one, and counts unhealthy nodes when all are down: the code
  sleeps long beside a healthy node that is merely full, and briefly in an outage
  of all. No property states which of the two is taken.
* Affinity is ignored for a full node (`router.py:118`, against
  `chat.py:58-60`); the multimodal pool "is a single node" in `chat.py:194` and
  six in `config.py`.
* A result may be logged twice. What follows the row and the count of a 200
  (`chat.py:277-281`) is in the same `try`: if `PROMPT_TOKENS.inc` meets a
  negative number, or `JSONResponse` a NaN or a lone surrogate, `except
  Exception` (`:310`) counts the request again and writes a second row, with 500.
  `code_overview.md:96` has "one row per inference request"; there a stream that
  is cancelled has none, an abandoned one a row with status 200, and a stream
  whose pool answered 503 one with 500. `Accounted` says what holds instead.
* rsync -a itemizes files of which only the time or the mode differs, and an
  extension is looked for anywhere in the line (`llama_cpp_sync.py:247-250,
  305-309`): a touched file, or `style.css` for `.c`, makes the job remove a
  build and make it again from the same sources, against "Build only when
  required" (`:13-14`).
* The kill loop was to close the race for two servers (`llama_watchdog.sh:71-72`).
  A process that outlives its ten rounds still gets another beside it (`:73`),
  though never two that are not being killed (`SingleUnlessStruck`); a restart command
  whose ssh was given up runs beside its successor, and both may launch (`:59`);
  the start script launches a second server beside one that is still loading
  (`start_linux_worker.sh:52`, against "idempotent", `start_linux.sh:5`).
* Stopping the watchdog first is to keep it from bringing servers back
  (`stop_linux.sh:28-31`). A restart command already on a node still launches its
  server after the kill (`:37`), but nothing else does (`StopIsFinal`,
  `OnlyLateCommandsRevive`). A stop that does not reach a node leaves its server
  running, without a watchdog.
* `start_linux.sh:204` can exit before the watchdog is started, after `:199`
  has said that the watchdog will keep retrying.
* `RESTART_WAIT` (120 s) is not what `wait_for_health` takes at most: it counts
  its sleeps, and each failing curl adds up to 5 s (`llama_watchdog.sh:113-123`).
* `QUEUE_REJECTED` also counts a 503 for unreachable nodes; `TOTAL_TOKENS` is
  never raised; the documents give other rate limits and another Redis key than
  `rate_limiter.py`. A rejected request counts toward the window, so a client
  that keeps retrying is not let in.
* Two sessions of one key may leave `last_used_at` at the older of their times.
  A user created over the API with the administrator's address makes
  `init_db.py` fail. A key whose answer is lost after the commit cannot be
  shown again, as documented.

## 7. Not modelled

* `routers/health.py`, `models_router.py`, `completions.py`,
  `metrics_router.py`, the listings of `admin.py`: they change nothing.
* Token counts, latencies, previews and the rewriting of payloads; durations
  inside Gateway, so that `fast` and `slow` backoffs differ only in when a
  request enters them.
* Docker Compose, NGINX, Prometheus, Grafana; scripts for setting up a machine.
* Exporters: they change nothing, and `test-monitor/exporter/exporter.py`
  serves simulated figures. `smoke.py` makes six calls in a row.
* Of the benchmark: prompts, tokens, durations and tables, and images, which are
  requests to the multimodal pool and nothing more.
* `node_replication/replication_script.ps1`: as committed it does not get past
  its second phase, since its expandable here-string evaluates `$(cat ...)` in
  PowerShell; what its later phases do is not reached.
* Steps of the system clock; a Redis or Postgres that loses committed data;
  more than one uvicorn worker, which `router.py:67` excludes.

## 8. Done and left

Done: pool, dispatch, monitor, their abstraction and the proof that they keep
it; limiter and handler with every way to a second row; accounts, their
abstraction and its proof; servers under overlapping scripts,
their timing and its bound; the sync job with overlapping runs; the benchmark.
All safety properties of the passing runs are proved, and how far two of the
refuted claims hold; of each liveness property the safety it rests on.

What would add most from here:

1. An abstract specification of the supervised server (one process, wanted or
   not), with a refinement.
2. Compose ChatHandler with Gateway: which statuses and rows follow from which
   outcomes of the pool, with the slot of an abandoned stream in view.
3. The phases of the replication script, if it is repaired.
