# cryptoquant: TLA+ models, model checks and proofs

This directory specifies `cryptoquant`. The parts that trade: the live order path, the user
data stream that reports on it, the event bus, the automatic degradation controller with its
kill switch, live trading on several accounts, the strategy registry, the risk manager. The parts
that simulate trading: the paper executor with the performance monitor, the backtest's matching
loop. And what is computed beside them: bars, data quality, recovery, audit ledger, failover,
allocation, portfolio risk, strategy weighting and tuning. Paths below are those
of the repository; `EX` stands for `src/cryptoquant`. `PROJECT.json` maps every definition to its
lines and lists runs, mutants, findings, hazards and theorems.

Running things: `tlc -config MCLiveTrading.cfg MCLiveTrading.tla` (each `.cfg` names its module by
its prefix, but `MCAllocatorBounds.cfg` belongs to `MCAnalytics.tla`), and `tlapm Execution_proofs.tla`.

## 1. The system

| Component | State | Operations | Talks to |
|---|---|---|---|
| OMS, `EX/oms` | `_orders`: client id -> order, status | submit (idempotent), fill, cancel, reject | called by every executor and by the stream processor |
| Live executor, `EX/execution/live.py` | `_acks` | execute_market | kill switch, OMS, Binance gateway |
| Binance gateway, `EX/execution/binance_gateway.py` | none | place_market_order (signed POST) | Binance REST |
| User stream processor, `EX/execution/user_stream.py` | none | on_execution_report | OMS, monitoring; on the stream's thread |
| User stream client, `EX/execution/user_stream_binance.py` | `_stopped`, `_reconnect_requested` | run_forever, reconnect, stop | listen key provider, socket, processor |
| Keepalive and service, `EX/execution/user_stream_runtime.py` | `_consecutive_failures`, `_stop_event` | run_forever, stop | provider; asks the client to reconnect |
| Listen key provider, `EX/execution/listen_key.py` | `_listen_key` | get, keepalive, clear | Binance REST; shared by two threads, no lock |
| Order monitoring, `EX/monitoring/alerts.py` | order, reject and latency totals | record_* | alert sink |
| Event bus, `EX/events/bus.py` | queue, stop event, worker list, counters | publish, flush, start, stop, worker loop | handlers; used by replay and benchmarks |
| Kill switch, `EX/risk/kill_switch.py` | a reason for the global scope and for accounts and strategies | engage, release, resolve_block | checked by all executors |
| Degradation, `EX/risk/degradation.py` | window, mode, healthy count, remembered halt reason | record_sample | kill switch, alert sink |
| Multi-account executor, `EX/execution/multi_account.py` | acknowledgements and fingerprints per (account, id) | execute_market | kill switch, compliance, audit, OMS and gateway of each account |
| Compliance, audit, `EX/compliance` | rule set; hash-chained events | check_order; append | multi-account executor |
| Strategy registry, `EX/strategy/registry.py` | strategies, versions, features, regime routes | register, set_lifecycle, add/activate/deprecate_version, routes, resolve | strategy runtime |
| Paper executor and replay, `EX/execution/paper.py`, `EX/backtest/replay.py`, `EX/execution/dry_run.py` | positions, fills by order id | execute_market, execute_to_target, run | OMS, kill switch, monitor |
| Recovery, `EX/execution/recovery.py` | none | recover_state | a REST snapshot, stream events |
| Risk manager, `EX/risk/manager.py` | day and its equity, trailing stop, alert flags | apply | called before an execution; alert sink |
| Cross-portfolio risk, `EX/risk/portfolio_engine.py` | none | exposure, correlation limits, value at risk | reports |
| High availability, `EX/ops/high_availability.py` | none | evaluate_failover, plan_disaster_recovery | the operator |
| Market data, `EX/market` | connection | run_forever | strategies |
| Bars, `EX/aggregation`, `EX/data` | none | fetch, normalise, check, aggregate | files, REST; backtests |
| Allocation, `EX/portfolio` | return series, weights, steps since rebalance | allocate_capital, update_strategy_returns, on_bars | strategies, optimizer |
| Adaptive control, `EX/strategy/adaptive.py` | cached optimisation, bandit's rewards, last selection | step | optimizer, sentiment |
| Backtest, `EX/backtest/mvp11.py` | positions, targets, pending orders, cash | one run | strategies |
| Performance monitor, `EX/monitoring/performance.py` | position, average price, profit, drawdown | record_fill, record_mark_price | paper executor's caller |
| Dashboard, indicators, reporting, CLI, sentiment, security | little or none | conversions and formulas | files, REST |

How they interact. A strategy's decision becomes `execute_market` on a caller's thread. The
executor asks the kill switch, registers the order with the OMS, POSTs it, and caches the
acknowledgement. Reports on the order come back over the user stream, on another thread, and
settle it in the same OMS. A third thread renews the stream's listen key and, after repeated
failures, replaces it and asks the client to reconnect. Health samples go to the degradation
controller, which engages and releases the kill switch that an operator uses too.

What is hard. None of these classes but the bus has a lock. The executor is interrupted between
its check, its registration and its POST; the POST's answer may be lost; reports may overtake the
answer, repeat, or be lost with the socket. Two threads share one cached key and three flags. The
bus is stopped and restarted while publishers publish. The degradation controller reads the kill
switch and acts on what it read. The risk manager and the backtest remember a position or a target
that others change behind their back; a flip is two orders of which the second may fail; managers
raise halfway through an update. The list of hazards, each at its line with the properties that
cover it, is in `PROJECT.json`.

What makes each part correct:

- OMS: an id is registered once, settles at most once and keeps its status.
- Live path: what the OMS records is what the exchange did; an acknowledged id is not sent again; a
  halt stops new orders; an acknowledged order settles unless its final report was lost or is of a kind
  the processor ignores.
- User stream: no socket leaks, a request to a listening client is kept, failures lead to a rebuild, a stop
  ends both threads.
- Bus: no accepted event is lost or handled twice, the counters add up, flush is truthful, a stop ends.
- Degradation: an automatic halt is lifted by recovery and nothing else is; HALTED means blocked.
- Multi-account: idempotency holds per account and payload; orders keep the rules and are audited.
- Registry: one active version; what is bound is active; what is retired stays retired.
- Risk manager: a stop is made of prices seen since its position was opened, and lasts while that does.
- Paper executor and monitor: an execution ends at its target; monitored profit less fees is
  cash plus value held.
- Backtest: what strategies asked for is held, on its way, or was visibly taken away.
- Computations: a bar is made of its minutes, a recovered state is the exchange's, a verified ledger
  is the one written, capital is given out once, risk is not understated, weights and parameters come
  from data that belongs together.

## 2. The modules

### Oms, OrderLifecycle
`Oms` has no variables: `Submit`, `MayTransition` and `Transition` are `OMS.submit` and
`OMS._transition` on a map from ids to statuses ("absent" = no key). `OrderLifecycle` is what the
OMS promises whoever drives it; `LiveTrading` implements it (`LifecycleSpec`).

### LiveTrading
One caller thread, the stream thread, the operator and the exchange. `caller.at` says how far the
call has come: `checked` (past `assert_allows_execution`), `submitted` (registered, before the
POST), `awaiting` (the exchange has the order, the caller not yet the answer). `CheckKillSwitch`,
`ReturnEarly`, `SubmitOrder`, `PostAccepted`, `PostFailed`, `PostAnswered` and `AnswerLost` are the
statements of `execute_market` between which other threads run. `IgnoreReport`, `ApplyReport` and
`RaiseOnReport` are the three ways through `on_execution_report`; the last tears the socket down, as
the client's handler does. Not in `src`, hence external: the exchange makes a separate order of
every POST it accepts (optionally refusing the id of an open one, `UniqueOpenIds`), reports in order
on one socket, may repeat interim and final reports, and reports into the void while the socket is down.
`EXPIRED_IN_MATCH` stands for the final statuses that no branch of the processor knows: it falls through
(`IsNoOp`) and the order stays NEW for ever. `AckedOrdersSettle` excepts such orders, by name (`Unfiled`).

### UserStream
`client.at` and `keepalive.at` are program counters over the two loops, one step from one access
to shared state, or one network call, to the next. `key` is the provider's cache, which the client
clears on failure and the keepalive thread writes back after a PUT. Any request may raise.
`get_listen_key` reads the cache twice, once to look and once to return, and the other thread may discard the key
in between, so that None is returned (`ClientReadsKey`, `KeepaliveReadsKey`).
`missed` is a history of the last reconnect request. Binance hands out keys nobody holds.

### EventDelivery, EventBus
`EventDelivery` (accept once, handle at most once, only after acceptance) is implemented by
`EventBus` (`DeliverySpec`). A worker passes `check` (is
stop set?), `look` (is the queue empty?), `get`, `fill`, `dispatch`, `finish`,
`account`; the counters are updated in their own steps, as in the code, where they have their own lock.
`Slots` are thread identities: `start` needs `WorkerCount` dead ones, so a worker that outlived the
join of `stop` goes on beside the new ones. Timeouts of flush and joins may expire at any time; `stop` does not look
at the answer of its flush, so it sets the event at any moment. `Flushers` bounds who flushes besides.

### Degradation
`RecordSample` is `record_sample` up to its read of the kill switch; `ActHalt` and `ActRecover` are
what it then does. In between, the operator may act (another thread; nothing is locked). Averages
are compared as sums: `sum >= threshold * Len(window)`. A halt is known by its set of metrics, as
the code knows it by the reason text built from them.

### MultiAccount
`execute_market` in the same steps as LiveTrading, with a cache and a fingerprint for each (account,
id), the compliance rules, and the audit trail as the number of times each event was appended.
A payload is a symbol and a signed
quantity; the rules look at its size. The OMS keeps the payload of the first call (`registered`). Kill switch: global and account scopes.
`Settle` stands for whoever drives the OMS of an account; reports are modelled in LiveTrading.

### StrategyRegistry
Lifecycle, version statuses, `active_version` and regime routes, one action for each public
operation; `Bindings(r)` is `resolve_regime_bindings(r)` with `only_active`. A call that raises changes nothing.

### RiskManager
`risk` is the record of `RiskManager`'s fields, `Apply` the whole of `apply`: daily stop, trailing stop,
enforcement, limits, alert flags. `Assess` is a call with any price, equity and target, today or on the
next day; `Execute` moves the position to what was approved, or cuts a flip after its close leg, and `Trade` moves it without
`apply` being asked: closed, flipped, opened again, several times between two requests. `given` is a history of the
prices `apply` saw since the position was opened, `carried` says that it was opened on a side still tracked. Alerts are
the rising edges of the flags. A percentage is an integer; quantities are lots, so a clamped one is rounded down.

### PaperExecutor, PerformanceMonitor
`Event` asks for a target under an order id prefix, `Single`, `Close` and `Open` are the legs, `Refused` is the
kill switch raising between or before them. `PerformanceMonitor` holds operators on the monitor's record;
`ledger` is the cash account of `evaluate_strategy_metrics` (`EX/backtest/robustness.py`). Both get only the fills
that were returned. The monitor's `net_pnl` also subtracts the slippage, which the fill prices contain already;
the property is about realized and unrealized profit and fees. Prices are multiples of a tick that all averages of the instance divide.

### Backtest
One bar is `NextBar`, then `Match` for each matured order, `Rebalance`, `Settle`. What depth and queue
position let through of an order, whether it is a maker, and which cancels the exchange rejects are choices.
`lost` is a history of what cancels and liquidations took away.

### Ordering
What `sorted` and a list comprehension with a condition give: `Enumerated` lists a finite set in an order, by places
(the k-th member is the one that k - 1 others come before), `SortedBy` is a stable sort, `Subsequence` what is left
of a list. `Backtest`, the bars, the allocator and the tail of the returns use it.

### Analytics and what it puts together
`BarAggregator`, `BarQuality`, `Recovery`, `AuditChain`, `HighAvailability`, `CapitalAllocator` and `PortfolioRisk` are
operators without variables. `Analytics` picks an input of one of them, and the invariants compare the
result with a definition of what it should be. `MultiStrategy` (series of returns, each named by its day;
a report follows the caller's mapping, so one that fails may have reached any of the strategies;
the optimizer may refuse its config; weights are named by the series they came from) and `AdaptiveController` (steps that decide, or
raise before or after the optimisation) have variables and actions of their own, which `Analytics` runs alone.
A hash is the tuple of what it is computed from; weights and scores are integer parts of a whole.

### The proof modules
`Execution_proofs` is about `LiveTrading` and `UserStream`, `EventBus_proofs`, `MultiAccount_proofs` about the modules they are named
for, `Risk_proofs` about `RiskManager` and `Degradation`, `Strategy_proofs` about `StrategyRegistry`, `MultiStrategy` and
`AdaptiveController`, `Simulation_proofs` about `PaperExecutor`, `PerformanceMonitor` and `Backtest`, `Analytics_proofs` about
`Analytics` and what it puts together. The last two rest on `Folding_proofs`: sums, folds and orders of finite sets.

## 3. The runs

| Run | Bounds | What it shows |
|---|---|---|
| `live` | 2 ids, 2 POSTs, 2 reports in flight | the OMS never contradicts the exchange, halts bound exposure to the one call in progress, the processor raises only after a double POST, the OMS implements OrderLifecycle, acknowledged orders settle |
| `live_resend` (violation) | 1 id, 2 POSTs | a lost answer leads to a second order for one id |
| `stream` | 4 keys, threshold 2 | sockets, thresholds, requests while listening, termination of both threads |
| `bus` | 2 publishers, one of which flushes, 2 worker slots, queue 1, batch 2, 3 events | exactly once, flush truthful, the queue goes on taking events while publishers wait, nothing stays queued |
| `degradation` | 2 metrics, window 3, recovery 2 | ownership of halts, manual halts, recovery |
| `accounts` | 3 accounts, 1 id, 2 symbols, a purchase and 2 sales, 2 calls, 2 POSTs | idempotency per account and payload, rules, audit, halts |
| `registry` | 2 strategies, 2 versions, 1 regime | versions and bindings |
| `risk` | 3 prices, 3 levels of equity, targets -3..3, 3 days | stops are made of their position's prices, stopped positions shrink, the daily stop holds |
| `paper` | 2 prefixes used twice, targets -1..2, 2 prices | executions, unreported legs, profit against cash |
| `backtest` | 2 symbols, 6 bars, 2 strategies, latency 2 s | targets accounted for, latency kept |
| `analytics` | per computation, see `MCAnalytics.tla` | nine properties, one for each computation or manager |
| `allocator_bounds` (violation) | 4 strategies, bounds 5% and 30% | the projection ends outside the bounds |

Why the bounds are enough. `live`, `accounts`: two ids and two POSTs give both two orders side by side and one
id sent twice; the properties of an id never relate three orders. `MaxStream = 2` lets a final report stand
behind an interim one or behind the final report of a twin. `stream`: four keys are one for each holder and a
fresh one; threshold 2 separates "at" from "above". `bus`: a queue of 1 fills at once, a batch of 2 takes more
than the queue holds; two slots for one worker allow an old worker beside a new one; three events are one handled,
one queued and one that waits. `degradation`: a window of 3
slides while mixed. `accounts`: the third account, the second symbol and the
larger sale each break one rule, and purchase and sale of one size differ in nothing else. `risk`: from one
price to the next the stop of a long or of a short position is hit, an equity is at the daily stop and one
is refused; three days are one that ends stopped, one that follows and one more. `paper`: targets open, add, reduce, close
and flip; each prefix is used fresh and again. `backtest`: bars alternate, share a timestamp and have a gap, so that latency in time and
in bars differ; a close that halves liquidates. `analytics`: buckets of two minutes with gaps and off-grid
timestamps; three rows, each breaking at most one rule; four events around a snapshot; ledgers of three
events with two edits; three instances in every order; four strategies, some at each bound; samples of five
returns. Of three strategies one or two may miss a report; their deques fill on day 3 of 4 at the earliest, and the controller retunes at events 1, 3 and 6.

Bounds of the models that the code does not have: `MaxStream`, `MaxCalls`, `MaxEvents`, `MaxDay`, `MaxReports`,
`MaxSteps`. `MaxLen` stands for 2000 or five times the minimum history. The healthy count saturates at
`RecoverSamples`, past which the code tells no values apart.

Deadlock is checked except where the code may stop: the user stream service ends, a publisher may
block for good on a stopped bus, MultiAccount stops at `MaxCalls`, a backtest ends, and a computation of `Analytics` is over when it is made.

Fairness. `live`: the stream thread handles what it received and its client reconnects (its loop has
no exit but stop); the exchange settles accepted orders (strong fairness only because `MaxStream` may
hold its report back). Nothing is assumed of callers, answers, the operator or the socket. `stream`:
both threads run and every request is answered or times out (the socket has a timeout of 30 s);
`stop`, once begun, completes. `bus`: workers run, handlers return, and of the threads in `put` some one takes a place
that stays free: which one is open, since `queue.Queue.put` lets a later thread overtake one that waits, again and again; no
fairness for owner, flush or new events. `degradation`: samples keep coming and `record_sample` returns; the
fairness is stated of calm samples, since a calm sample on a window of calm samples changes nothing, and fairness
of any sample would then demand another kind. The other runs state safety only: their code runs when called.

## 4. What is proved

The proofs hold for all values of the constants that the modules' ASSUMEs allow: any number of ids,
orders, metrics and strategies; any thresholds and bounds.

- `LiveTrading` (in `Execution_proofs`). `TypeOK` alone is not inductive: what the acknowledged order and the POST in
  progress name must be known to exist, so `TypeInv` adds `WellFormed`. `OrderInv` adds that a call past
  `submitted`, an order at the exchange and a report on the socket all have a registered id (`CallInv`,
  `ExchInv`, `StreamInv`), that a report has happened at the exchange (`StreamInv`), and so the status the OMS
  takes from it (`OmsInv`). From it follow `OmsAgrees`, `ReportsAreKnown`, `AcksCorrect`, `NeverResent`,
  `FaultsExplained` (two different final statuses of one id need two orders). `HaltInv` counts the
  order that the call past its check may still create: `HaltBound`. `ImplementsLifecycle` is step simulation: every step
  registers, settles, or stutters on `oms`.
- `Degradation` (in `Risk_proofs`). `HaltInv` says what `seen`, the block read before acting, still tells when the act
  comes: an automatic halt has no other author, so between read and act it can only disappear. Hence
  `HaltIsOwned`, `NormalReleases`, `HaltedBlocks`; `ManualIsKept` needs that remembered reasons are never manual.
- `RiskManager` (in `Risk_proofs`). `StopBelongsToPosition` compares a stop with the side and the prices of a position that moves between two
  calls; `RiskInv` adds that a position whose side is not tracked has shown `apply` no price yet
  (`GivenIsOfPosition`), that an approval was computed for the position it will be executed on
  (`ApprovalRespectsStops`) and that without a trailing limit there is no stop. `StopShrinks` and `DailyStopLasts` are
  action properties of it. `CapsHold` needs no state: integer division never rounds an approval above its cap.
- `MultiAccount_proofs`. `CacheInv` says of which order the cache knows, that a call past the cache found nothing there,
  and that what was answered from it is still there: an acknowledgement is never overwritten. `ExposureInv` counts the order
  of the call in progress, `AuditInv` gives the order about to be sent its audit event before it exists.
  `ImplementsLifecycle` is the refinement of `OrderLifecycle` by all accounts' OMS at once, its ids being (account, id) pairs.
- `UserStream` (in `Execution_proofs`). `SocketInv` ties the count of open sockets to where the client is in its loop. `RequestInv`, that
  no request of an earlier socket is remembered while a new one is opened, is what `RequestWhileListeningKept` lacks.
- `EventBus_proofs`. `DeliveryInv`: every accepted event is in one place (`Places`), its place tells how often it was handled
  (`HandledOnce`), `unfinished` counts what is queued or held (`Counted`), and a flush remembers only accepted events
  (`Flushes`). A step of a producer, a worker or the owner moves at most one event. From it come truthful flushes, the
  refinement of `EventDelivery`, and that nothing accepted is lost when `start` and `stop` race with everything else.
- `PaperExecutor` (in `Simulation_proofs`). `PaperInv` says what an execution under way relies on: nobody has moved the position it saw, and
  the legs still to come have no fill (`ExecutionInv`). `MonitorInv` carries the books through every kind of fill: opening,
  enlarging, reducing, closing, flipping. `ProfitIsWealth` has the hypothesis `[][ExactAverages]_vars`: the code divides
  in floating point and means the quotient, the model in integers, so profit is wealth for behaviours whose average entry prices
  have no remainder (reductions are exact anyway). All behaviours of the run of section 3 satisfy it.
- `Strategy_proofs`. Of the registry, `OneActiveVersion` is inductive with `TypeOK`; `BindingsCurrent` follows from it,
  `NeverBoundAgain` from the transition table, `RoutesAreSound` from the fact that nothing is ever removed. Of the manager,
  `MixedOnlyAfterFailures` needs `SeriesInv`: before the first report that fails halfway all series are equal (`Whole`), after it
  two groups of strategies have equal series each, a day apart in length until both are full (`Split`). Of the controller, `DecisionsAreTuned` needs that the last due
  event stays covered while no decision shows it (`TunedInv`) and that what the optimizer skips never gains (`SkippedInv`).

- `Folding_proofs`. `SumFunction` and the folds of the community modules are recursive functions, and a theorem of
  induction would take an operator. Three things take its place. `LeastNumber`: a set of numbers has a least member, from
  the library's theorem that `<` is well founded on `Nat`, which takes a set. Folds as functions: that a fold has a result
  for every subset of what is folded, and only one (`FoldExists`, `FoldUnique`, `LeftFoldExists`), so that what holds of a fold is
  what is kept from each of its intermediate results to the next. And for sums, the facts that calculations need: one summand changed
  (`SumUpdated`), a sum of sums, by groups, in another order. `Enumerated` lists every member of a finite set once, in order, if the
  order is strict and total there (`EnumeratedLists`).
- `Backtest` (in `Simulation_proofs`). `TargetIsAccounted` compares four quantities per symbol through each phase of a bar: orders that
  mature change places, a fill moves its lots into the position and the rest back, a cancel moves an order to `lost`, a
  liquidation a position. `LotsWait` says of every order that its due bar is late enough, that what has matured is
  of this bar's symbol and due, and that the residue of a fill, due in the next bar, keeps an older placement.
- `Analytics_proofs`. One theorem for each computation, on inputs of every length: `RecoveryCatchesUp` (an overlay of events
  the snapshot holds already changes nothing, key by key), `VerifiedLogIsOriginal` and `AppendVerifies` (by the last place at
  which two ledgers differ), `RecoveryIsDeterministic` and `FailoverIsDeterministic` (of instances one is unbeaten, and two unbeaten
  ones are equal in all that is compared), `AdmittedRowsAreBars` (rows without time issues are in order already, and a selection
  of them keeps it), `AllocationAddsUp` (each pass keeps the weights of a feasible projection between zero and the whole, and
  the residue finds room because the bounds leave room for it), `MinutesMakeBars` (the filled stream has every minute and between
them bars without volume at the last close; after each bar of the stream the bars made so far cover it, bucket by bucket; at
the end the sum over places in the stream is one over minutes), `TailIsCovered`, `CopiesAreRefused`, `ExposuresAddUp`. The
  specification keeps one input for each behaviour: `InputsArePicked` says that it belongs to the sets chosen for it, and each invariant
  is that plus the theorem.

Assumptions on constants that the proofs needed, beyond those of the runs: "no value" (`None`) is no exchange order and no
account (`MultiAccount`), no fill and no execution (`PaperExecutor`). A backtest's bars are sorted and of distinct times for one
symbol (`ConfigAssumption`; the code indexes them by time). A source has one bar at a time (`ReportsAssumption`), which the
checklist sees to (`checklist.py:103`). What `Analytics` computes with are integers, a row's columns have numbers,
nothing, or text that is refused (`SamplesAssumption`, `RowsAssumption`), and the allocator's bounds are as
`CapitalAllocatorConfig` checks them. `RiskIsStated` and `CopiesAreRefused` assume a limit of correlation below one: at one the code
lets a copy pass, as its comparison says.

Proved and not run, since the proof says more: type correctness of the modules above, `AcksAreGenuine`, `AckedIsNeverResent`
(here and for accounts), `NormalIsReleased`, `HaltedIsBlocked`, `RetiredIsNeverBound`, `RoutesRefer`, `OrdersAreRegistered`,
`NothingIsLost`, `Counted`, `HeldIsReported`, the caps of the risk manager.

Only model-checked is liveness, which the provers do not reach: `AckedOrdersSettle`, `StopEndsService`,
`ServiceEndEndsKeepalive`, `QueuedIsHandled`, `PublishingProgresses`, `CalmRecovers`.

## 5. Findings

1. `live_resend`: a retry after a lost answer creates a second exchange order although the ROADMAP and the
   executor's docstring promise idempotency. The OMS deduplicates registration, not the POST, and even an
   exchange that refuses the id of an open order accepts it once the first has closed.
2. `allocator_bounds`: each pass of `_project_weights` starts again from the base weights of the names that
   were in bounds in the last pass, so that a name just put on its bound is released and leaves it. Sixteen passes
   may end there; the weights then sum to one and are returned, although a test names the bounds as respected. Scores
   that differ little suffice: with bounds 5% and 30% one of four ends near 40%.

Weaknesses seen in the models that contradict no document, or only its wording:

- `run_forever` of the stream client clears `_reconnect_requested` after connecting, also when the request came
  after it had read the key; it then listens on a discarded key (`user_stream_binance.py:62`).
- The rebuild of the listen key runs inside the exception handler; when it raises, the keepalive thread is gone
  while the service goes on (`user_stream_runtime.py:93`, action `KeepaliveDies`).
- `task_done` comes before the bus's counters: statistics read after `flush` may be short (`bus.py:204`).
- A manual halt set between `record_sample`'s read and its act may be lifted or overwritten (`degradation.py:149`).
- A conflicting payload is detected only for acknowledged ids (`multi_account.py:182`).
- A cancelled or liquidated quantity stays in the backtest's remembered target and is never ordered again (`mvp11.py:267`, `lost`).
- The close leg of a cut flip is in the position and in no statistic (`paper.py:143`).
- A return that is not finite leaves the strategies' series a day apart: rebalancing stops, and when all deques are
  full starts again on days that do not match. A second such report that reaches just the other strategies evens the
  lengths out at once, long before the deques are full (`multi_strategy.py:72-76`).
- A report of `EXPIRED_IN_MATCH`, or of any status no branch names, leaves its order NEW without a word (`user_stream.py:50`).
- A position closed and opened again on the same side between two calls of `apply` inherits the trailing stop, extreme
  and trigger, of the one before (`manager.py:159`).
- `get_listen_key` returns None when the other thread clears the cache between its two reads (`listen_key.py:54`).
- `net_pnl` of the performance monitor counts slippage twice, in the fill price and as a cost, when it is told the
  slippage of a paper fill (`performance.py:151`, `paper.py:78`).
- A standby that ties in lag and heartbeat age is promoted or not by the order of the list (`high_availability.py:81`).
- Parameters with `fast_window >= slow_window` are never scored, count as 0 in the bandit, and are preferred to
  candidates that lost on average (`adaptive.py:64`, `215`).
- A ledger cut at its end or written anew verifies; only a last hash kept elsewhere tells (`audit.py:65`).

## 6. What is not modelled

Prices, quantities, latencies and signatures, except where a guard compares them or a property adds them up; wording of
alerts, logs and formats; restarts of the live executors (they keep their state in memory only); strategy scope of the
kill switch; features, weights and names in the registry and its unused `only_active=False`; metrics of the bus; `run_once` of the
stream client, which the service does not use. `market/ws_client.py` is the reconnect loop of the stream client with
one thread and no key. Floating point: indicators, crossover, optimizers, return models, sentiment, microstructure,
sharpe-like figures. Without state or protocol: dry run, dashboard, rebalancing schedule, reports, command line, file
and REST formats, version manifests. `PROJECT.json` says for each component what is left out.

## 7. Plan

Done: the models of section 2, and the proofs of section 4: every safety property of the passing runs. What is left is what
section 6 leaves out.
