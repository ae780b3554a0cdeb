# A formal model of the KIS trading gateway

This directory holds a TLA+ development of the gateway in `src/app`: modules
that model its components, TLC configurations that check them on small
instances, and TLAPS proofs for every size. Documents are quoted from the
repository; the Python sources are the reference for every definition.

## 1. Inventory

| Component | State | Operations | Shared with | What makes it correct |
|---|---|---|---|---|
| Order queue (`services/order_queue.py`) | deque of ids, `jobs` table, idempotency tables, counters | `enqueue`, `process_next`, `request_cancel`, `request_modify`, `mark_execution_result` | workers, HTTP threads, reconciliation, broker | no order twice in custody, none forgotten, bounded attempts, placements accounted for |
| Order intake (`api/routes.py` `create_order`) | daily order count | contract check, risk policy, `enqueue`, count | thread pool, queue, broker positions | one order per key and body (false for overlapping requests), 409 for another body, daily limit |
| Risk policy (`services/risk_policy.py`, `check_risk`) | none | `evaluate_side_policy`, `evaluate_trade_risk` | intake | an order passes exactly when its limits, window and position allow |
| Reconciliation (`services/reconciliation.py`) | stop event, thread, event list and log, counters | `reconcile_once`, `trigger`, start, stop | jobs table, log file | one loop at a time, alive until stopped; counters and log agree with what was corrected |
| Session (`services/session_state.py`) | lease record under a lock | `acquire`, `release`, `status` | HTTP threads, clock | a lease in force is honoured |
| Websocket client (`integrations/kis_ws.py`) | running flag, app, error, counts | `run_with_reconnect`, callbacks, `stop` | its thread, shutdown thread, quote ingest | retries until stopped, stops when told, shows the truth |
| Quote ingest and cache (`services/quote_cache.py`) | snapshots, connected flag, heartbeat | `on_ws_message`, `sync_ws_state`, `metrics` | websocket thread, HTTP threads | freshness, readiness |
| Quote gateway (`services/quote_gateway.py`) | cooldown per symbol, counters | `get_quote`, `get_quotes` | cache, REST client, HTTP threads | cooldown respected, bounded retries, every request ends |
| REST client (`integrations/kis_rest.py`) | token, its expiry | `place_order`, positions, quotes | order worker, HTTP threads | valid token, errors classified |
| Lifecycle (`main.py`) | threads, stop events | start and stop of the three workers | all | one worker each, all stop |

Hard behaviours: no lock protects the queue, the jobs, the idempotency table or
the counters; a broker call can time out after it took effect; HTTP threads and
reconciliation write the status a worker is about to write; the websocket
thread races its own shutdown; times are read long before they are used; the
cooldown table is pruned by every request; a log append can fail half way; a
restart forgets everything but the log and what the broker has.
`PROJECT.json` lists each of these hazards at its line.

## 2. Modules

| Module | Content |
|---|---|
| `OrderDelivery` | abstract contract of the queue: per order a phase, tries and placements |
| `OrderQueue` | the queue with workers, callers, broker and reconciliation pass; refines `OrderDelivery` |
| `OrderQueueMC`, `OrderQueueProofs` | its instance with symmetry, and its theorems |
| `OrderGateway`, `OrderGatewayMC`, `OrderGatewayProofs` | extends `OrderQueue` from the client's key to the broker: the threads of `create_order`, modify, and a crash that empties the tables; its theorems |
| `RiskPolicy` | contract check and risk policy as operators |
| `RiskPolicyCheck`, `RiskPolicyMC` | every small request against what the policy is for |
| `OrderIntake`, `OrderIntakeMC` | `POST /v1/orders` on several threads, with `RiskPolicy`, the idempotency table and the daily count |
| `OrderIntakeProofs` | the theorems of `OrderIntake` and of `RiskPolicyCheck`, for all limits and requests |
| `SessionLease`, `SessionLeaseProofs` | the session lease, and its theorems |
| `WsClient`, `WsClientProofs` | reconnect loop, callbacks, stop and live-readiness, and their theorems |
| `QuoteGateway`, `QuoteGatewayProofs` | quotes and batches: pruning, cooldown, retries, last row known; their theorems |
| `KisToken`, `KisTokenProofs` | the shared access token, and its theorems |
| `Reconciliation`, `ReconciliationProofs` | loop thread, passes, failures and the event log over restarts, and their theorems |

Correspondence of state: `queue`, `status`, `terminal`, `attempts`, `payload`
are `OrderQueue.queue` and the fields of `jobs[o]`; `sent` stands for the SENT
branch having run (`broker_order_id`); `placed`, `lost`, `atBroker` are the
broker's side. `wpc`, `wjob`, `wreq`, `wans` are the local variables of a
`process_next` in progress, `caller` those of a cancel, modify or execution
report, `recon` those of `reconcile_once`. In `OrderIntake`, `http[t]` holds the
locals of `create_order`, `check_risk` and `enqueue`. In `SessionLease`, `call[t]` holds what a thread has read before the
lock. In `WsClient`, `loop`, `stopper`, `news` are the program counters of the
two threads and the report each is about to deliver, `shown` is `ws_connected`.
`OrderGateway` adds `idem` and `intake`, the locals of `create_order` and `enqueue`
per thread, and, as history, the key and the life an order was created in, the orders
a modify changed, and of these the ones whose new body no placement has read yet. In `QuoteGateway`, `until` is
`_rest_symbol_cooldown_until`, `row` the time of a cached row, `http[t]` the locals of
a request (among them `now`, read once on entry, and the list `expired`); `mark`,
`sound` and `late` are history. In `KisToken` a token is named by the time KIS issued it, and
`call[t]` holds the last time a thread knows of. In `Reconciliation`, `at`, `todo`
and `fixed` are the locals of a pass, `recent` and `persisted` the sizes the service
keeps, `good` and `tail` the file; `applied`, `raised`, `tears` and `lives` are
history. What a correction does to a job is in `OrderQueue`, that it happened in
`Reconciliation`.

### Atomicity

The code has no locks but the session's. CPython since 3.10 hands the GIL over
only at calls and at loop ends, so adjacent stores and tests are one step, and a
test followed by a call (`job.get`, `int`, `time.time`, the broker) and then a
write is two. Each action ends at such a point; a read of the clock for
`updated_at`, logging and counters are folded into the step they follow, because
no property looks at them. `sync_ws_state` is a step of its own, since the
report it stores was made earlier.

`WsClient.CanTrade` is coarser than that: it is the answer of live-readiness when nothing
comes between its reads, while `metrics()` reads `last_error` and `ws_connected` one after
the other (`quote_cache.py:86-107`). An answer that mixes two states, the error read
before a failure and the flag after the next open, is outside `FailingBlocksTrading`.
In `QuoteGateway` the pruning iteration reads entry by entry; an entry removed and set
again under the same key while it runs, which the interpreter may report as an error
too, is not read twice.

`Workers` has two elements in the runs of the queue because nothing in `OrderQueue`
keeps `process_next` to one thread: each call of `lifespan` starts a worker of its own,
and does not look whether one of an earlier call is still in its broker call. FastAPI runs the handlers, which are plain functions, in a thread pool.

### Environment

*Broker*: `place_order` is accepted and answered, accepted with the answer lost
(any exception after that, which `_map_adapter_error` maps by its text to any class), or
refused with one of these classes. *Execution feed and broker status provider*: the gateway as
deployed has neither (`mark_execution_result` has no caller in `app`, the default
provider answers nothing); configuration `feedback` adds both, the provider
answering at any time any status a broker may report
(`BrokerAssumption`: not NEW, DISPATCHING or the model's ABSENT, which are names of the
gateway's own; a provider that answered DISPATCHING would break `DispatchingIsHeld`). *websocket-client*: it refuses, opens, closes
or fails a connection at any time, runs the callbacks in the loop's thread, and
forgets a `close()` that precedes `run_forever`. *KIS quotes and tokens*: a REST
call answers, fails with a 429 or fails otherwise, always within its timeout.
`KisToken` bounds the delay between a clock read and its use by `MaxDelay`, the
time the code's margin of 30 seconds is there for. *Reconciliation service*: with a log
path and a provider, as its constructor and the tests allow; `main.py` passes
neither. *Disk*: an append writes its line, or fails with nothing or a part of it written; a
crash during the append may do the same. Log lines are ASCII: with another text in a
status a torn append could cut a character in two, and `read_text`
(`reconciliation.py:39`, outside the `try`) would end the next start of the service.
*Prices* are integers: the policy's comparisons are the code's, but a NaN, which passes
both `price <= 0` and the cap (`risk_policy.py:19`), is no number of the model. *Crash*: at any step; a `place_order` call under
way may still reach the broker. *Clock*: it does not go back.
*Session owners*: the routes acquire for `gateway` only; the other owners of
`SessionLease`, and `release`, are the class's own interface.

## 3. What the runs check

A definition commented "Broken variant" stands next to the one it varies: it is
that code with a plausible mistake, and the property named in `PROJECT.json` under
`mutants` fails when it takes the other's place. No run or proof uses it.

Passing runs:

| Run | Question | Bounds |
|---|---|---|
| `queue_deployed` | custody, retry limit, placements, closed means released, a status that is not pending is true, refinement of `OrderDelivery` | 2 orders, 2 workers, 2 callers, 3 attempts |
| `queue_feedback` | with execution feed, reconciliation and both ways of calling `process_next`: nothing forgotten, status DISPATCHING truthful, every accepted order is sent or closed in the end | 1 order, 2 workers, 1 caller, 2 attempts |
| `order_gateway` | keys, jobs and table agree while requests of a key overlap; a repeat of an answered request makes no second order; the broker has the last body of an order it confirmed; which bodies the policy never saw reach the broker | 2 orders, 1 key, 2 request threads, 1 worker, 1 caller that modifies, 2 attempts, 2 lives; modifies of one order only |
| `policy` | an order passes exactly when it is safe | quantities and prices on both sides of every limit |
| `intake` | what the unlocked tables still guarantee: orders per key, overshoot of the daily limit, no uncounted order, the right body for a request that met no other of its key | 2 threads, 2 keys, 4 orders, limit 2 |
| `lease` | leases honoured, status ends nothing early | 2 owners, 2 threads, clock to 4 |
| `websocket` | app handle, end of the loop, readiness while failing, another attempt after each failure | 3 failures, `max_retries` 0 |
| `quote_gateway` | who asks REST during a cooldown, retries included; every request ends | 1 symbol, 2 threads, 2 attempts, cooldown 2, clock to 3 |
| `token` | no request carries an expired token | 2 threads, life 5, margin 3, delay 1, clock to 12 |
| `reconciliation` | one loop, alive until stopped and ending then; log and counter agree; corrections counted | 2 loop threads, 1 trigger, 2 jobs, 3 corrections, 2 torn appends, 2 lives |

Two orders and two workers are enough for the queue: a hazard needs one order
and two threads, or a second order that overtakes it. Three attempts are the
code's `max_attempts`; with feedback and in `order_gateway` two are enough, since the
first retry already has both outcomes. `queue_deployed` and `order_gateway` use symmetry; they
check no liveness. Two callers are needed for a cancel that was admitted before
another caller's modify. `order_gateway` has one worker, the queue's own run having two;
its cancels would only add what `queue_deployed` has. One key is where requests overlap,
and its constraint `OneOrderChanged` (no step beyond a state in which modifies have
changed two orders) leaves one order changed and one not. One symbol suffices for the cooldown: the table is kept per
symbol, and two threads already hold different times, renew and remove the same
entry; a second entry matters for the size of the table, which one entry
changes too, and for the rest of a batch, which no run exercises. The token's clock covers two lives of a token. The event limit is 1
instead of 100: the list is cut at the second event. Two torn appends are needed for a
torn line that glues to another torn one, two lives for a restart that loads it. In the intake a key needs two overlapping requests and one
later repeat. `MaxTime`, `FailureBound`, `MaxApplied`, `MaxTears`, `MaxLives`, `Jobs`
and the set `Orders` are the only bounds on counters; each stands in a guard. Of the
configurations only `OrderGateway_lives` has a constraint besides.

Deadlock is not checked where the system may stop: `RiskPolicyCheck` has one
optional step, and the websocket loop ends with `stop()` (or stands at
`FailureBound`). In the other modules polling workers or new requests always have a step.

Fairness: the order worker loops until shutdown, survives every exception and
its call has a timeout, hence weak fairness of each worker; the websocket thread
likewise (`FairSpec` of `WsClient`), and `stop()` does not wait. A request thread of
`QuoteGateway` goes on, since REST calls have a timeout and sleeps and retries are
bounded; a reconciliation loop goes on, since `wait()` returns and the provider and
the disk answer or raise. Nothing is assumed of HTTP clients, of the broker's
answers, of connections closing, or of `start()` and `stop()` being called.

Runs that refute a sentence of the documentation (the findings):

| Run | Sentence | What the code does |
|---|---|---|
| `intake_double_order` | same key and body, same order | two overlapping requests get two |
| `ws_ready_offline` | `ws_connected=true` shows the connection | a connection fails and is reported down; when `run_forever` returns the loop clears the error and reports connected=True itself (`kis_ws.py:367-369`), and readiness opens with no connection, nobody having called `stop()` |

Other divergences are steps of the models without a run of their own:

* `process_next` writes DISPATCHING and then SENT, NEW or REJECTED over a pending cancel
  or modify, and a pending cancel of a sent order stays pending, no step follows it;
  `docs/architecture/2026-02-28-kis-trading-next-architecture.md:38` has
  "CANCEL_PENDING → CANCELED | REJECTED". What is left is `StatusTruthful`: a status
  that is not pending is true of the order. A modify that comes after a placement read
  its arguments never reaches the broker, the one exception of `BrokerHasLastBody`.
* A cancel that tested `terminal` before the worker rejected the order writes
  CANCEL_PENDING over REJECTED; `terminal` stays set, so the order stays closed
  (`ClosedIsReleased`). A reconciliation pass overwrites terminal statuses too.
* `modify_order` checks the quantity and the transition, never the risk policy,
  while `docs/architecture/2026-02-28-kis-trading-next-architecture.md:50` wants live
  orders only "최대수량/일일한도 체크 통과 시만"; `BypassOnlyByModify` states that this is
  the only way past the policy.
* A key repeated after a restart gets a new order; the risk policy may refuse the
  repeat of an accepted order before its key is looked up (`OrderIntake` has that step,
  `RepeatFindsOrder` is about the repeats that get to the table); two overlapping
  requests of a key can leave the table with the later order only; the daily count is never reset,
  and a repeated request counts too; a body without `order_type` is a LIMIT order that
  needs no price.
* The reconnect count and the last error are cleared when a connection ends, not
  when it opens; a `stop()` during the key request closes nothing, and one before the
  loop's first step is undone.
* A thread that is removing expired cooldowns can remove one another thread has just
  set; retries do not look at the cooldown; an older request can shorten a newer
  cooldown. `CooldownHonored` says who may still ask REST then: threads that had passed
  the test before the cooldown was given. A batch takes fresh websocket rows when the market is closed. Pruning
  raises when the table changes its size under it, and the request ends with status 500, also for a symbol with a
  row in the cache.
* A token KIS refuses as AUTH stays cached until its time is over.
* A `start()` that finds the old loop still alive leaves the stop event set: the loop
  ends and the restarted gateway has no reconciliation.

## 4. What is proved

`OrderQueueProofs`, for any sets of orders, workers, callers and payloads and any
`MaxAttempts`:

* `TypeCorrect`: the type invariant, which includes that a thread in the middle
  of an operation holds a job of the table.
* `Custody`: the queue has no duplicates and a worker's order is not in it.
  `WorkMoves` says what a worker's step does to the core of the state,
  `Outside` that callers and reconciliation leave it alone.
* `AttemptsLimited` and `NoHistory`: inductive together with custody.
* `PlacementsAccounted`: `placed = lost + confirmed`. It needs all of the above:
  that only the holder's answer counts (`ConfirmedByHolder`) follows from single
  custody and from a sent order being out of custody.
* `NothingForgotten`, `DispatchingHeld`: no worker lets an order go without a queue
  entry, SENT or a terminal flag, and whoever writes a status meets no DISPATCHING
  but the holder's.
* `ClosedReleased`, `StatusesTruthful`: under `Deployed` (callers cancel and modify,
  the provider answers nothing), which is the gateway as `main.py` builds it. The second
  needs the first and `NothingEarly`: the holder's writes meet an order that is neither
  sent nor closed (`HeldIsOpen`).
* `QueueDelivers`: the refinement `ImplementsDelivery`. One lemma per step of the
  contract (`AcceptRefined` ... `CloseRefined`) says which phase the order moves to
  and that no other order moves; every other step stutters. What a step may assume is
  the invariants above and `PlacesWithinTries` (`TriesCoverPlaces`): at most one
  placement per attempt, and none yet for an attempt under way.

`OrderIntakeProofs`, for any finite number of threads, any keys, bodies and limits:
* `TypeCorrect`, strengthened by `TypeInv`: the table and the handlers know only orders
  that exist, each of its own key, and finitely many orders exist.
* `Counted`: a new order enters the counter or the set of handlers about to count it.
* `OvershootBounded`, from `LimitInv`: counter, plus the handlers that read it below the
  limit and have not counted their order yet, stays under limit plus threads. Only a
  handler that reads the counter below the limit joins (`AcceptedBelowLimit`).
* `KeyOrdersBounded`, from `KeyInv`: a key's orders, plus the handlers about to create
  one, are no more than the threads. Until the key is recorded every order of it is in
  the hands of a handler; once it is, no handler comes to create another.
* `AloneServed`, from `BodyInv`: the hash stored with a key is that of the recorded
  order's body, and of two requests of a key in flight each has met the other.
* `PolicyHolds` (of `RiskPolicyCheck`): the decision is exact for all integers.

`OrderGatewayProofs`, for any number of threads, keys and lives:
* `GatewayTypes`: the tables agree although requests of a key overlap. A job whose key
  is unrecorded is in the hands of the thread that will record it.
* `RepeatsFindOrder`, from `RepeatsRecorded`: a thread that repeats an answered request
  is at the lookup, and its key is recorded; no step takes a record back but a crash,
  which ends the thread too.
* `LastBodiesPlaced`, from `LastBodies`: the arguments of a call under way, and the
  broker's body of an order confirmed or about to be, are the job's body unless a modify
  came since they were read.
* `BypassesExplained`, from `BodiesPassed`: what is in a job, in a worker's hand or at
  the broker passed the policy unless a modify changed it.

They reuse the queue's lemmas, since each step is a step of `OrderQueue` or a crash
(`StepOrCrash`).

`QuoteGatewayProofs`: types, and `CooldownsHonored`, which is about every ask of REST,
retries included. It rests on `CooldownKept`: after a sound mark the entry is there until
it ends, because an entry found expired by a thread's time is expired by the clock, and a
thread past the test either tested that entry or was past it when it was written (`late`).
The premise `sound` (no removal of that symbol was under way) is needed: without it the
code loses the cooldown. So is the exception `late`: these threads go on with their
retries, and may write an earlier end.

`KisTokenProofs`: types, and `TokensValid` under `MarginSuffices` (the margin covers
three delays and is shorter than a token's life). The invariant bounds every expiry,
stored or about to be, by the oldest token it may end up next to.

`ReconciliationProofs`: types, `OneLoopAlive`, `LoopGoesOn`, and `CountMatches`, from
`FileCounted`: the threads between a write and its count, and a debt per torn append
that depends on how the file ends. `CorrectionsReported` needs a sum over the threads
of what each has applied and not reported; `Unreported` holds one element for each such
correction, so that `AllAccounted` states it as a cardinality.

`SessionLeaseProofs`: types, agreement of owner, state and expiry, `LeaseHonored` and
`StatusEndsNothing`, which rest on read times being in the past. `WsClientProofs`:
types, the app handle, that readiness stays closed while attempts fail, and that
the loop ends only when told, strengthened by "a client nobody stopped is running".

Assumptions are the named `ASSUME`s of the modules: sentinels are not members of
their sets, bounds are naturals, requests and statuses are those of the code, the
server has finitely many threads and at least one, and a quantity is an integer.

Only model-checked: `Settles`, `KeepsTrying`, `EveryRequestAnswered` and `StopEnds`,
since liveness under fairness is outside the prover, and the two properties the code
violates. Every other property of the runs is a theorem.

## 5. Not modelled

The order in which `lifespan` starts and stops its threads is not a module of its own:
what each start and stop does is in `OrderQueue` (two workers), `WsClient` and
`Reconciliation`, none of which assumes that another thread runs already or still.
Metrics and labels are left out: no decision reads them, and a lost increment is
visible in `metrics()` alone. Freshness and `state` are written into the shared
snapshot by every reader; the models judge freshness at the read.

Left out for good: parsing of KIS payloads and of quotes (data conversion),
settings and schemas, documentation and scripts, the counters of `metrics()`
(nothing depends on them), `OrderWorker` (a wrapper nobody starts).
