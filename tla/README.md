# Polybot: a TLA+ model of the bot

This directory holds a specification of Polybot (a Polymarket trading bot, Python/asyncio,
`src/src/`), the TLC configurations that check it on small instances and the proofs, checked
by TLAPS, that hold for every value of its constants.

## 1. Inventory

The bot is one asyncio process. `runner.py` starts each enabled service as a task; the tasks
share the SQL database, a few class-level variables and the event loop, so that **what happens
between two `await`s is atomic and anything may happen at an `await`**.

| Part | State | Operations | Interacts with | Hard about it | What makes it correct |
|---|---|---|---|---|---|
| Risk manager `risk/manager.py` | `operational_state` (kill switch, paused_until), `DailyPnL`, open `Position` rows; in memory `_reserved_usd` | evaluate_stop_losses, check_pre_trade, check_and_reserve, release_reservation, pause, resume, kill | every motor; admin API; clear_kill_switch.py; one *instance* per user | loss windows in dates against pauses in hours; pauses that overwrite each other; restart loses reservations | no approval on a loss, pause or kill; exposure limit; the gate comes back; only a human clears a kill |
| Motor 1 executor `motor_1_arbitrage/executor.py` | Trade rows, the current opportunity, its awaits | execute (two POSTs, rollback, cancel) | risk manager, CLOB client, user channel | the other coroutine runs at each await; a timeout may mean a live order | real commitment covered by books and reservation, no new exposure behind a closed gate, always ends |
| User channel `execution/service.py`, `executor.py:135-214` | Trade and Position rows; its own RiskManager | handle fill, handle cancellation | WS client, database | events early, lost, in any order | rows are the fills; a final status is true |
| Motor 1 engine `motor_1_arbitrage/engine.py` | EdgeWindow, FunnelSnapshot | evaluate_market, tick, run | order books, risk manager (dry run), executor | stale quotes across awaits | edge net of fees, size caps |
| Reconciliation `reconcile/service.py` | reconcile status, on_chain_synced | reconcile_once | CLOB, Position rows, pause | read before await, compared after | no false "ok", no false pause |
| Runner and NO-GO `runner.py`, `scripts/check_no_go.py` | tasks, back-off, shadow_mode | start, supervise, stop | all services | crash loops, clean returns, shutdown in mid-execution | nothing trades when NO-GO; a crashed service comes back |
| Order books and market WS `marketdata/*`, `clients/polymarket_ws.py` | levels, hash, synced | snapshot, delta, gap, reconnect | data capture, motors 1, 3-5 | lost frames, frames that raise halfway, silent reconnection | a synced book is the exchange's book |
| Data capture `strategies/data_capture.py` | watched markets, event buffer | discovery, flush, snapshots | WS, registry, database | buffer against commit, restart with a new client, catalogue that changes between pages | each event is stored once, a watched neg-risk group is whole |
| Motors 4 and 5 `motor_4_ofi`, `motor_5_spillover` | pending measurements, cooldowns | observe, mature, drop | books | late or missing events, full queue | each signal is measured once or dropped |
| Motor 3 `motor_3_neg_risk/engine.py` | last recorded fingerprint | evaluate groups | books, risk (dry run) | deduplication before commit | each window is recorded once |
| Motor 2 and Odds API `motor_2_consensus`, `clients/odds_api.py` | class-level cache, quota breaker | fetch, match, evaluate | paid HTTP API | retries, a breaker re-armed by others, de-duplication before commit | the quota is not hammered, no wrong match, no implausible signal |
| Pure algorithms `math/*`, `auth/eip712_signer.py` amounts | none | fees, Kelly, no-vig, rounding | motors | rounding, zero | reference definitions |
| CLOB client, API, storage, analyst, Telegram, config, logging | mostly I/O | | | | |

`PROJECT.json` lists every component with its status, and the hazards of the code at their
lines with the property that covers each or the reason why none does yet.

## 2. Modules

```
RiskGate               the abstract promise: gate, booked, held
  ^ implemented by       ^ implemented by
RiskManager            ArbExecution          real orders and their gate
Runner                                       the process: start, supervision, stop
Reconcile                                    wallet against database
OrderbookFeed <- DataCapture                 books; the service that owns them
Discovery <- Detection -> Fees               which markets; motors 1 and 3 over them
OddsApi <- Consensus -> Fees                 the paid API; motor 2 that asks it
Measurement                                  motors 4 and 5
NumberLemmas                                 what several of the proofs need
```

An arrow means "extended by the composition": DataCapture runs the feed under a service that
crashes and restarts; Detection runs both motors over what Discovery chose; Consensus runs its
cycles against the cache and breaker of OddsApi. Each `MC` module holds constants for TLC
(`MCWeeklyPause` also a history variable), each `_proofs` module the theorems of its component;
`Signals_proofs` holds those of the motors that only record, Consensus and Measurement (which is
why the names of Measurement's specification carry its own).

**RiskGate** says what the rest of the bot relies on: capital is committed (`held` grows) only
through an open gate and within the exposure limit; giving back and booking fills are always
possible; a killed gate is opened by a human alone.

**RiskManager** models `src/risk/manager.py` and its callers outside motor 1.

| In the model | In the code |
|---|---|
| `kill`, `pauseLeft` | `operational_state[kill_switch]`, `[paused_until]` as ticks still to go |
| `pnl[a]`, `hour` | `DailyPnL` row of the date `a` days back; time of day (UTC) |
| `openUsd`, `reserved` | exposure of open Position rows; `_reserved_usd` of the executor's instance |
| `CheckPreTrade`, `CheckAndReserve` | the dry-run and the real check, with the side effects of `evaluate_stop_losses` (a dry run pauses for real) |
| `AdminPause`, `AdminResume`, `ReconcileMismatch`, `ClearKillSwitch`, `Restart` | the admin API, the reconciler's pause, the operator's script, the container |
| `Tick`, `RecordPnl`, `RebookPositions` | the clock; rows written outside the risk manager (no code of the repository writes DailyPnL or closes a Position) |

Time is relative (ticks left, age of a row), so the calendar needs no bound.

**ArbExecution** models one engine executing opportunities with real orders, the user channel
and the exchange between them.

| In the model | In the code |
|---|---|
| `at` | the await the engine is in: none, POST of a leg, the DELETE of a rollback |
| `n`, `opp` | how many executions were approved and of which opportunity |
| `status`, `known`, `fill` | `Trade.status`, `exchange_order_id` is set, `fill_size` |
| `contracts`, `openUsd` | Position of a token, exposure of all open ones |
| `reserved` | `_reserved_usd` of the engine's and of the user channel's RiskManager |
| `order`, `matched` | the exchange (external) |
| `inflight`, `cancelled` | user-channel events on their way, unordered, may be lost |
| `orphans` | history: orders whose reservation was given up while they could still cost money |
| `Execute`, `PostAnswered`, `PostAnsweredWithoutId`, `PostRaises`, `SecondLegNotSent`, `CancelCloses`, `CancelFails` | `ArbExecutor.execute()` cut at its awaits; every call up to the next await is in the action |
| `BookFill`, `DropUnknownFill`, `HandleCancellation` | `_handle_fill`, `_handle_order_update` |
| `EventLost`, `Crash` | reconnections and handler exceptions; container restart or shutdown in mid-execution |
| `GateMoves` | anything RiskManager does to the gate (one closed value stands for pause, kill and stop-loss) |

Abstractions: contracts are counted in lots, one lot per fill event; a fill is at the limit
price, the worst a buy can get; the tolerances of 1e-9 are exact comparisons on integers; the
channel is a bag, so orders of delivery the WebSocket would not produce are included; events
are not duplicated; a Trade is never "settled" and a Position never closed, as nothing in the
code does it; texts, log lines and RiskEvent rows are left out. A POST that raises covers a
refusal, a request that was never seen and one whose answer was late (the order may be live).
A taker_order_id that is not ours is an `EventLost`. Not modelled: database errors inside
`execute()`.

**Runner** models `src/runner.py` and `scripts/check_no_go.py`. A start has no await before the
stop event is waited for, so `Boot` is one action; afterwards each service is what its
supervisor sees of it.

| In the model | In the code |
|---|---|
| `RunChecks`, `failures`, `shadow`, `executor` | `run_checks()`; `BotState.shadow_mode`; what `create_service()` of motor 1 injects |
| `svc`, `delay`, `left` | the tasks of `_run_service()`, its `backoff`, the time its wait still takes |
| `Crash`, `Return`, `RestartService`, `WakeToStop` | the branches of `_run_service()` |
| `MotorTick`, `Execute`, `todo` | `ArbitrageEngine.run()`: the stop event is looked at once per tick |
| `RequestShutdown`, `CloseWindow`, `CancelEnds`, `Finish` | the signal, `asyncio.wait(timeout=10)`, `cancel()`, `gather` and the BotRun row |
| `kill`, `mismatch`, `shadowDays` | what the database keeps over a restart and the checklist reads |

**Reconcile** models `src/reconcile/service.py`: `Asks`, `Answers` / `AnswersNoList` / `Raises`
are the two sides of its await, `ComparesClean`, `FindsMismatch` and `CommitFails` the comparison
and its separate commits, `Sleeps` the interval. Around it the wallet (`Fills`, `Redeems`), the
user channel (`BooksFill`, `LosesEvent`), an operator (`Resume`) and `Dies`, after which the next
start refuses money on a recorded mismatch. `excuse` remembers that a human lifted the pause or a
cycle raised.

**OrderbookFeed** models `marketdata/orderbook_manager.py` and the connection of
`clients/polymarket_ws.py`. A book is the set of its levels; a hash stands for the book it is of,
so "the manager stores the hash and never compares it" can be said. Frames may hold a number
`float()` refuses: then any part of the levels is new already (of a snapshot, the bids but not the asks)
and hash and `synced` are the old ones (`HalfProcessed`).

**DataCapture** adds the service: `Discovers` (a new WebSocket client over the old books), `OnWsEvent`
with the buffer, `LoopPasses` / `LoopRaises` / `Stops` with the flush, `RunnerRestarts`,
`ProcessDies`. Rows are numbers in the order of their events, so that loss, doubling and order
are visible.

**Discovery** models `discover_markets()` page by page for its four sources over a catalogue that
grows, and whose markets close, between two pages. A list of markets is the set of them, in the order
of the catalogue: a page is what has its place in that order (`FirstOf`), the budget of the sources cuts
from one of its ends. `Complete`, `NotBefore` and `WholeGroups` are `_discover_neg_risk()`'s choice of
groups: the newest complete ones, as many as fit the budget together with all that are newer.

**Fees** is `math/fees.py` on integers: prices in cents, fees, costs and edges in millionths of a
dollar, in which a fee in basis points of a price is whole. Only what the code rounds is rounded
(`Rounded`, `Percentage`): to the nearest, half to even, of the exact quotient. The error of the
doubles themselves, which can tip a quotient that lies on a half or on a threshold, is left out.

**Detection** models `evaluate_market()` and `tick()` of motor 1 (`PairTick`, then `Executes`) and
`evaluate_group()` and the tick of motor 3 (`SetTick`): edge, filter, depth, size and status in the
code's order, the fingerprints remembered before the commit that may fail. The size of an
opportunity (`SizeOf`) is the one that is executed: rounded to the nearest hundredth, after the cap.

**OddsApi** models `clients/odds_api.py`: `GetOdds` up to the request, `Answered`, `Refused`,
`Unauthorized`, `Failed`, `Retries`; the breaker (`trip`) and the cache are shared, and
`HealthAsks` is `GET /stats/consensus`, which re-arms the breaker by asking. `fetched` and `refused`
are history variables: what the API said, independently of what the client remembers.

**Consensus** models `motor_2_consensus`: `CycleBegins`, `FetchNext` / `Collects` per sport,
`AnswerRaises`, and `Evaluates` (matching, vig removal, median, best side, net edge, status,
de-duplication and the one commit) without an await. Probabilities are whole percentages; the
vig removal and the median round down, the net edge and its thresholds are exact.

**Measurement** models motor 4 (`ObserveTop`, driven by book events) and motor 5 (`Tick5`, driven
by a timer). They share nothing, so a behaviour has one of them. An experiment has an age; `mids`
is the window of motor 5, `last` the ticks since a leg's previous trigger (history). `At` filters a
list: what stays pending, and the siblings of a leg, keep their order.

## 3. Runs

| Run | Bounds | Checks | Shows |
|---|---|---|---|
| `risk_manager` | windows of 2/3/4 dates, 2 ticks a day, pauses of 2 and 4 ticks, losses up to 3 a day, limits 2/3/4 | `TypeOK`, `ApprovalsFollowLosses`, `GateReopens`, `ImplementsGate` | three windows that overlap and expire at different times, each pause reachable, kill reachable and clearable (20 526 states) |
| `weekly_pause` | same | `WeeklyPauseLasts` is **violated** | finding 1 |
| `arb_pair` | one pair, two lots a leg | `TypeOK`, `BooksNeverAhead`, `FinalStatusIsTrue`, `ExecutionEnds` | partial fills crossing timeouts, cancellations and crashes (5 708 states) |
| `arb_two_pairs` | two pairs of one lot in one market, costs 3 and then 3 or 2, limit 5 | `PositionsAreTheFills`, `CommitmentWithinLimit`, `ExposureCoversCommitment`, `ClosedGateOnlyEndsPair`, `ImplementsGate` | two pairs sharing positions and the limit; the second of 3 fits only after a rollback or a restart (664 442 states) |
| `arb_reservation` | as `arb_pair` | `ReservationEndsWithFill` is **violated** | finding 2 |
| `runner` | motor 1 and reconciler, three settings, back-off 1 to 3, window 2, two opportunities a tick | `TypeOK`, `MismatchCanHeal`, `OrdersNeedGo`, `RowClosedLast`, `CrashedServiceRuns`, `ShutdownEnds` | every verdict of the checklist, crashes with the back-off at its cap, shutdown with an execution under way (164 000 states) |
| `capture_retry` | a third service that may return | `EmptyDiscoveryRetried` is **violated** | finding 3 |
| `reconcile` | two tokens, two contracts, a pause of two intervals, one death | `TypeOK`, `MismatchStopsTrading`, `SyncedMeansMatched`, `DifferenceIsNoticed`, `AgreementHeals` | false and true verdicts, partial commits, resumes (565 000 states) |
| `data_capture` | two tokens, two levels, two frames, two connections, flush at 3 | `TypeOK`, `SyncedIsReplica`, `RowsAccountedFor`, `ConnectedMeansCurrent` | gaps, malformed frames, failing commits, restart with other markets (1.2 million states) |
| `detection` | six markets in two groups and a plain one, pages of two, three pages, one closure | `RecordedIsArbitrage`, `RememberedIsStored`, `ExecutedWasRecorded` | every source; a leg that is listed, or closes, between two pages; edges that are too high, too thin, blocked and good (5 600 states; it may stop, as discovery without markets leaves nothing to do) |
| `consensus` | two sports, two events that fit one market, two attempts, cooldown 2, time to live 1 | `RememberedIsStored`, `SignalsArePlausible`, `CallsAreSpared`, `NoAmbiguousSignal`, `BreakerRearms` | refusals, retries, cached and failing sports, lists with a broken bookmaker (112 174 states) |
| `measurement` | two legs, three mids, T+1/T+2, grace 3, window 2, two slots | `TypeOK`, `RowsAreTimely`, `SlotsAreFreed`, `OneTriggerPerEpisode` | books that die and come back at each age, groups that disappear, a full queue (805 000 states) |

Why the bounds are enough: the calendar needs one date more than the longest window and a pause
that ends inside a window and one that ends outside, which 2/3/4 dates with 2 ticks have. In
ArbExecution an order's life depends on no other order but its pair's (this is what `OrderInv`
of the proofs says for any number of executions); what crosses executions are the positions,
the reservation and the limit, for which two executions are the smallest case where one rollback,
restart or late fill meets another execution. Two lots are the smallest order with a partial
fill. The constraint `MCDearFirst` only fixes which of two opportunities comes first.

Runner: with two services one can wait while the other crashes, and a back-off that doubles from 1
to its cap of 3 meets both branches of the minimum. Reconcile: a pause of two intervals is the
shortest that outlives one sleep, which is the relation the code's 24 hours have to its interval;
two tokens let one be matched while the other differs. OrderbookFeed: two frames after a snapshot
are a delta that is lost and one that is not; a flush at 3 lets a batch be full by an event and
not full at a restart. Detection: the first group has three legs over three pages, so that its
longshot can be missing in all the ways a page boundary allows; without it the rest costs 94
cents. Consensus: three bookmakers are the fewest of which one may be wrong, two sports the fewest
that can compete for a market. Measurement: an experiment of each age fits between two mids of the
same window.

Fairness. `RiskManager!FairSpec` has weak fairness on `Tick` alone: time goes on, nothing else is
sure to happen. `GateReopens` is stated with the disturbances (new PnL, a pause ordered while no stop-loss asks for one) as an
alternative, and an active kill switch counts as an answer: only a human ends it.
`ArbExecution!FairSpec` has weak fairness on `EngineStep`: `httpx` bounds each request
(`clients/polymarket_clob.py`, timeout 15 s), so each await of the engine ends in an answer or
an exception. The exchange and the channel get no fairness.

`Runner!FairSpec`: timers fire (`Tick`), and tasks that are woken or cancelled get their turn, which
asyncio gives them; nothing is assumed of what a service does while it runs, so a crash loop and a
service that never returns are behaviours. `Reconcile!FairSpec`: the loop runs on (weak), and API
and database work infinitely often (strong on the answer and on the comparison, which failures
disable again and again); both liveness properties are conditional on chain and books staying
different, or equal. `Consensus!FairSpec`: the loop runs on, a request ends (`httpx` timeout), time
passes. DataCapture, Detection and Measurement state safety only and need none.

## 4. Findings

1. **A weekly pause can be shortened** (`risk/manager.py:100`). `pause()` overwrites
   `paused_until`; after a weekly stop-loss a reconciliation mismatch (24 h) replaces the 7 days.
   The docstring (`manager.py:6`) promises 7 days. While the loss is still over its limit the next
   check renews the 7 days; the run shows the case in which a gain has brought it back under.
2. **The reservation of a filled pair is never released** (`execution/service.py:22`). The user
   channel has a RiskManager instance of its own, so the release of `executor.py:196` does not
   reach the executor's. Every filled pair counts twice in the exposure until a restart. A
   cancelled order (`executor.py:200-214`) releases nothing on any instance.
3. **A data capture that finds no market is not tried again** (`runner.py:126`). It logs
   "reintento en 5min" (`data_capture.py:356`), waits and returns; the supervisor takes a clean
   return for the end of the service. The bot runs on without books until it is restarted.

Read while modelling, without a run: motor 3 evaluates any group with two watched legs, so with a
source other than `neg_risk` it records incomplete sets as shadow trades (`data_capture.py:267`;
`config.py:122` asks for the source in a comment); the fingerprint of motor 3 leaves out the
status, so a window that was `risk_blocked` is not recorded when it is approved later
(`motor_3_neg_risk/engine.py:222`); the "shadow continuo" of the checklist is the age of the first
funnel row alone (`check_no_go.py:101`); nothing writes `Position.closed_at`, so a redeemed position
is a mismatch for ever (`reconcile/service.py:32`). Motor 1 caps a size at the limit of a trade
("capado por el 5% por trade", `motor_1_arbitrage/engine.py:116`), then rounds it to the nearest
hundredth: with a limit of $5 and a pair at 0.94 it executes 5.32 pairs, which cost $5.0008, and
`check_and_reserve()` (`manager.py:213`) refuses what the tick recorded as approved.
`ExecutedWasRecorded` therefore bounds the size by the limit and half a hundredth of a pair. And what
motor 3 calls the last opportunity "GRABADA" (`motor_3_neg_risk/engine.py:81`) is remembered before
the commit that may fail (line 226).

The limit itself is safe from the second (it errs on the careful side): `CommitmentWithinLimit`
holds. What it does not cover are the `orphans`: orders whose reservation was given up by a
rollback after a lost answer, a failed DELETE or a restart. They are excluded from the property
by definition, and the reconciler, which compares positions and not open orders, is what is left
to see them.

## 5. Proofs

All leaf obligations are checked by TLAPS (SMT, Zenon, LS4), from `TimeAssumption`,
`MoneyAssumption` (RiskManager), `OppsAssumption`, `LimitsAssumption` (ArbExecution),
`ReconcileAssumption`, `ServicesAssumption`, `TimersAssumption` (Runner), `OddsApiAssumption`,
`NoneAssumption`, `ConsensusAssumption`, `CatalogueAssumption`, `DiscoveryAssumption`,
`DetectionAssumption`, `MeasurementAssumption`, `FeedAssumption` and `BufferAssumption`. The runs evaluate
each of them on their constants. Two are worth a reader's look: a market is created once
(`CatalogueAssumption`), and every quote of a bookmaker is missing or a pair of positive numbers
(`ConsensusAssumption`: `consensus_fair_prob()` skips the other ones).

- `RiskManager_proofs`: `TypeCorrect`; `NoApprovalOnALoss` (a step that raises the reservation is
  `CheckAndReserve` with `Approved`, and an approved check fires no stop-loss, so it also leaves
  the gate as it was); `RiskManagerImplementsGate` (each action maps to a step of RiskGate or a
  stutter; `StopLossOutcome` says that a check can only close the gate).
- `ArbExecution_proofs`: `BooksNeverAhead` and `FinalStatusIsTrue` are not inductive. `IInv` adds
  `OrderInv`, what holds of one order (a row exists iff the exchange was sent the order; id,
  match and cancellation only after it was accepted; no cancellation follows the last match), and
  `EngineInv`, which says the leg still to be sent is untouched. `InvStep` goes through every
  action by way of lemmas on how one order may change (`OrderUntouched`, `OrderClosed`,
  `OrderPlaced`, `OrderSent`). From it: `TypeCorrect`, `BooksNeverAheadHolds`,
  `FinalStatusHolds`, `ClosedGateHolds`, `ArbExecutionImplementsGate`.
  The sums: `PositionsAreTheFillsHolds`, `ExposureCoversCommitmentHolds`,
  `CommitmentWithinLimitHolds`. Exposure covers commitment is not inductive: a rollback takes the
  cost of one execution out of a reservation held for several. `SumInv` therefore says that the
  engine's reservation is at least the worth of every order that is `Held` (of the execution under
  way, or able to cost more than the books say and not an orphan), and that the commitment, second
  leg of the current pair included, is within the limit. `OrderMoves` says what any step but an
  approval does to an order, and from it alone neither sum can grow (`HeldShrinks`,
  `CommittedShrinks`); `RollbackFrees` says the rollback leaves nothing held of its execution; an
  approval adds to a commitment that the exposure it reads already covers (`ApprovalSums`).
- `Reconcile_proofs`: `TypeCorrect`, `MismatchStopsTradingHolds`, `SyncedMeansMatchedHolds`. That no money
  is traded on a mismatch is not inductive: the pause runs while the service sleeps. `PauseOutlivesSleep`
  says how much of it is left in each phase of the cycle (this is where `PauseTicks >= 2` is needed), and
  `RoomForFills` keeps books and fills within the bound.
- `Runner_proofs`: `TypeOKHolds`, `OrdersNeedGoHolds`, `MismatchCanHealHolds`, `RowClosedLastHolds`. `StartedOnGo` is
  kept because only `Boot` makes an executor and only a tick of a motor that has one makes a list;
  `CancelledAll` (in the cancelling phase no service is left to itself) is what the guard of
  `Finish` needs to imply that nothing can write after the row is closed.
- `Signals_proofs`, motor 2: `CallsAreSparedHolds`, `RememberedIsStoredHolds`, `NoAmbiguousSignalHolds`,
  `SignalsArePlausibleHolds`. The client must agree with the history of what the API said: `BreakerRemembers` (the last refusal
  that counts is the trip, and no request is under way while there is one), `CacheRemembers` (a sport
  answered within the time to live is cached with that age; `CacheHasRoom` is why the cache is never
  cleared, from the assumption that it has more entries than sports), `OneAtATime` (a request or
  an answer belongs to the first sport left). `OneMatch` turns "exactly one of finitely many" into
  the event that was chosen. A plausible signal rests on the median: `KthIsRanked` shows that the k-th
  smallest of finitely many percentages exists, `MedianIsBetween` that of three or more of them two,
  whichever one is left out, are not above and not below the rounded mean of the middle ones;
  `EdgeNeedsGain` that what is left after fee and slippage was there before.
- `Signals_proofs`, motors 4 and 5: `MeasurementTypes`, `RowsAreTimelyHolds`, `SlotsAreFreedHolds`,
  `OneTriggerPerEpisodeHolds`, from `MeasurementInv`. It adds that a first mid was read between its
  delay and the age of the experiment (`Experiment`), and that a leg which triggered within the window
  cools down for at least the rest of it (`CooldownInv`): with the cooldown over, the oldest mid is no
  older than the last trigger (`OldestIsInWindow`). `Matured` is the fact about one pass over the queue:
  what stays is younger than the grace, and no longer than what went in.
- `Detection_proofs`: `RecordedIsArbitrageHolds`, `RememberedIsStoredHolds`, `ExecutedWasRecordedHolds`.
  That a neg-risk set is an arbitrage needs discovery from its first page: `PagesRead` says that all
  grouped markets up to the cursor are counted, whatever appeared or closed meanwhile (`FirstOfListing`:
  what is appended does not move what was read), so after the last page a group with as many legs
  extracted as counted has them all (`KeptGroupsAreWhole`), which is `WholeGroupsWatched`; and a row of
  motor 3 has an ask on every watched leg and an edge (`StoredWindows`, from `WindowHasEdge`). With whole
  groups, exactly one leg of "buy yes" and all but one of "buy no" pay, which is what the edge assumed.
  Rounding cannot hide a loss: `PercentageOfLoss` (a negative edge is no positive percentage), and
  `RoundedIsNear` bounds what rounding adds to a size.
- `NumberLemmas`: least elements, quotients and remainders (`Division`), and what `SumFunctionOnSet` of the community module
  Functions computes over a finite set. The fold is a `CHOOSE` over recursive functions; `PartialExists`
  and `PartialUnique` show that the choice is determined, and `SmallestSubset` (a family of subsets of a
  finite set has a smallest member, from the well-foundedness of strict inclusion) takes the place of
  induction. From there: any index may be taken first, monotonicity, additivity, one index or two
  changed, indices that contribute nothing left out. `StepsExist` in `Signals_proofs` does the same
  for the concatenation of a list of lists.
- `DataCapture_proofs`: `TypeCorrect`, `SyncedIsReplicaHolds`, `ConnectedMeansCurrentHolds`,
  `RowsAccountedForHolds`. A delta keeps a book a replica only if the frame was made from the book it
  meets, so the invariant speaks of what is on the wire: `WireIsChain` says that for each subscribed
  token the frames under way lead, one from the other, from the book's hash to the exchange's book of
  now, unless a snapshot is still to come or a frame raised; `SnapshotsFirst` says no delta overtakes
  its snapshot, and that what is watched was subscribed. `ChainGrows` and `ChainShrinks` are the two
  ends of the wire; `WsConnectsWire` shows that a new connection brings a snapshot of every token
  (from `IsFiniteSet(Tokens)`). The rows need no strengthening: `NewRowAccounted` and
  `LostRowsAccounted` say what one row more and one failed commit do to the account.

Every invariant and every action property of the passing runs is a theorem, and so is each
refinement of RiskGate. Only model-checked are the liveness properties `GateReopens`,
`ExecutionEnds`, `CrashedServiceRuns`, `ShutdownEnds`, `DifferenceIsNoticed`, `AgreementHeals`,
`BreakerRearms`: fairness and `ENABLED` are out of the prover's reach.

## 6. Plan and limits

Next to prove: facts behind the liveness runs that are safety (that a closed gate of
RiskManager always has a step of the clock that brings its end nearer; that an answer of the exchange is
always possible while the engine waits), and that the three findings are the only exceptions to the
properties they violate.

Not modelled, and why:

- order signing (`auth/eip712_signer.py`): cryptography and encoding of one order; no part reads
  anything of it but the bytes;
- storage maintenance, analyst loop, Telegram, read-only endpoints: no state that another part reads;
- settings and logging: the settings are the constants of the modules, their validators run once;
- Kelly sizing (`math/kelly.py`): no caller outside the tests;
- the z-score of motor 4 and the normalisation of team names in the matcher: whether a flow is
  anomalous, and which events fit a market, are left open (a choice, a constant);
- database errors inside `ArbExecutor.execute()`, the reconnection delay and keep-alive of the WebSocket;
- quotes inside ArbExecution: an execution uses the limit prices of its row, whatever the books say.
