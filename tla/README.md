# BLACK LION in TLA+

BLACK LION (`src/blacklion`) is a trading bot: it scans market data, derives
signals with a chain of rule engines, posts them to Telegram, executes them on
MetaTrader 5 when the user taps a button (or by itself), and follows each trade
to its end in a SQLite journal and on the broker.  This directory holds its
formal model: TLA+ modules translated from the source, configurations that
model-check them with TLC, and proofs that TLAPS checks.  Every definition that
models code is listed in `PROJECT.json` ("map") with the lines it stands for.
Paths below are relative to the repository.

## 1. The system

### Shape

One process, one thread (`Runtime.run_forever`): it scans every pair, asks
Telegram for updates every few seconds, resolves open trades every 300 seconds
and sends a digest once a day.  Nothing inside runs concurrently.  What makes
it hard is outside: the MT5 terminal fills stops and take-profits by itself
between two calls, Telegram delivers a tap again after a restart, any network
call can fail, hang or succeed without an answer, docker kills and restarts
the process (`restart: unless-stopped`), and the data source shows a *forming*
bar that one trade is resolved against up to twelve times.

### Inventory

| Component | State it keeps | Operations | Hard behaviour | What makes it correct | Module |
|---|---|---|---|---|---|
| Trade outcome tracking (`runtime.py` `check_outcomes`, `_resolve`, `_early_exit`) | status and result of journal rows | one branch per stage and exit | same forming bar polled many times, order of tests in one bar | the running R is what was booked; booked profit is kept; stages in order | `TradeOutcome`, `TradeStages` |
| Position management (`_close`, `_advance`, `_broker_op`; `ExecutionEngine`, adapters; the fall-back of `build_stack`) | broker position, calls of the handler, the broker the process talks to | partial closes, stop moves, close | journal first and broker after, swallowed failures, terminal acting in between, restart between calls, restart onto a paper broker that never opened the trade | the bot never closes more than its stages, a stop at entry stays; position and journal agree unless a call was missed | `BrokerSync` |
| Order entry (`Notifier`, `TelegramClient.get_updates`, `execute_signal`, `ExecutionEngine.execute`) | update offset, handler, ticket | poll, take, refuse, accept, submit, retry, record | redelivery, lost answers, death between fill and record, a ticket that cannot be written while the process lives on | one order per signal, no position without a journal row but for a failure of its own, no tap lost, cap on positions | `OrderEntry` |
| Risk gate (`risk/engine.py`, account state in `runtime.py`, `journal/store.py`) | nothing of its own; reads broker and journal | evaluate | several caps at once, sliding windows, unreadable positions, a journal up to 300 s behind the terminal | the whole book within caps, losing runs bounded, locks end | `RiskGate` |
| Position sizing (`_position_size`, `_contract_map`, `_broker_balance`) | contract cache | size | rounding to the volume step, fallbacks, no exchange rate | risk per trade bounded, no wrong veto | `PositionSizing` |
| Rule engine: gates and scores, timeframe cascade (`rule_engine/service.py`, `mtf.py`) | none | evaluate | two hundred lines of weights, each written once per side | shorts mirror longs, evidence never hurts | `SignalRules` |
| Signal levels (`_build_signal`) | none | build | rounding of five prices, binary floating point | reward, order and distance survive the rounding | `SignalLevels` |
| Publication and evidence throttle (`_scan_symbol`, `_refresh_throttle`, `ai/stats.py`) | throttle set | refresh, publish | snapshot taken at scan start | losers are not published, and can come back | `Publication` |
| Market structure (`engines/market_structure`) | none (a function of the frame) | analyze | the newest bar still forms and moves in place, bars come and leave | what has settled does not repaint | `Candles`, `MarketStructure` |
| ICT context (`engines/ict`) | none | analyze | one field shared with the location gate, hours and halves | OTE and gate look at the same half | `IctContext` |
| Liquidity (`engines/liquidity`) | none | analyze | averages of merged swings, a tolerance that moves with the ATR | pools persist | `Liquidity` |
| Fair value gaps, order blocks (`engines/fvg`, `engines/order_block`) | none | analyze | filling, a measure that moves with the ATR, merging of overlapping zones | a filled gap stays filled, the strongest zone survives | `FairValueGap`, `OrderBlocks` |
| Manipulation (`engines/manipulation.py`) | none | analyze | the verdict is asked again on every pass, on the forming bar too | on a closed bar it is final | `Manipulation` |
| Volume profile (`engines/volume_profile.py`) | none | analyze | binning, ties | the value area holds 70% and no less would do | `VolumeProfile` |
| Strategy detectors, scorecard, regime (`engines/strategies/*`) | none | detect_all, best match | every rule written once per side, two sets of thresholds | longs and shorts mirror | `Detectors` |
| Model registry (`ai/model.py`) | artifacts, `metrics.json`, loaded model | train, prune, promote, refresh | crash within and between file writes | the accepted model stays loadable | `ModelRegistry` |
| Metrics (`ai/stats.py`, `backtest/metrics.py`) | none | portfolio figures | two implementations of one figure | equal to the definition | `Metrics` |
| Backtester (`backtest/engine.py`) | one simulated trade | simulate | a second implementation of trade management, without the live exits | same stages and same R as live, but where a live exit says so | `Replay` |
| Main loop (`run_forever`) | last digest day (memory) | iterate, digest, report | restart forgets | no digest twice | `MainLoop` |
| Scan pass and health monitor (`scan_once`, `monitoring/health.py`) | counters, last alert | scan, record, alert | gates hide failures, hanging fetch | a dead feed is alerted | `ScanHealth` |
| News guard (`data/news.py`) | cached calendar | refresh, blackout | failing fetch, stale cache | known events stay guarded | `NewsGuard` |
| Message delivery (`telegram/client.py`) | none between messages | send, send_photo | rate limits, lost answers | nothing twice, nothing lost to waiting | `Delivery` |
| Journal (`journal/store.py`) | SQLite rows | queries of the others | one statement per transaction, one thread | in the modules that use it | several |

Components call each other directly (no queue, and the event bus has no
subscriber).  A scan pass calls the news guard, the engines, the rule engine,
the throttle, the notifier and, in live mode, risk gate and execution.  A
poll calls execution for a tap.  An outcome check calls the journal and then
the broker.  They share the journal rows; everything else crosses as an
argument.

Not modelled, with the reason, in `PROJECT.json`: the feature engineer (a numeric
vector without decisions, for a fit that `ModelRegistry` leaves open), data
sources and indicators (I/O and rolling means; a fetch that works, fails or
hangs is a step), candle validation and the event bus (no running path depends
on them), configuration and logging, texts and charts, the read-only commands,
the command line of the backtest, deployment.  Partly modelled: the main loop
(digest and report, not the two timers that a scan and a check hang on), the
backtester (the replay of one trade, not the walk over the history), the metrics
(not the calibration table), the journal (the columns and queries the others
use), the pipeline (the hand-over of swings and trend to the ICT engine), the
process wiring (trade modes and the fall-back to paper).

## 2. Modules

Every component has a module of its own with its variables, `Init`, one action
per operation, `Next` and `Spec`.  An `MC*` module gives the values for TLC, a
`*Proofs` module the theorems (section 5).

| Module | Variables and what they are in the code | Actions |
|---|---|---|
| `TradeStages` | stage and booked result of a trade | the abstract promise: staged scale-out |
| `TradeOutcome` | `status`, `plan`, `result`: columns of the row; `brokerStop`: last stop sent; `bar`: the forming bar; `aged`: older than `time_stop_bars`; `offList`: symbol left the watchlist | one per branch of `_resolve` and `_early_exit` (`StopOutUnscaled` ... `CutStale`), `Expire`, `RecordSignal`; `Tick`, `NewBar`, `GrowOld`, `DropSymbol` are the world |
| `BrokerSync` | `row` (stage), `pos` (volume and stop at the broker), `linked` (the process talks to the broker that holds the position), `calls` (what the handler still has to call), `ended`, `missed` (history: who took the position to zero, why a call was not carried out) | `PollStop`, `PollTp1`, ...: journal write and queue of calls; `CallBroker`, `CallFails`, `Restart`; `Tick`, `NewBar` with the terminal's fills |
| `OrderEntry` | `row`, `placed` (orders filled), `taps`, `acked`, `offset`, `batch` (Telegram and the notifier), `task` (the handler) | `ScanSignals`, `ScanExecutes`, `Poll`, `RefuseTap`, `AcceptTap`, `Fill`, `FillUnheard`, `Requote`, `Reject`, `Record`, `RecordFails` (the scanner survives it), `Crash`; histories `lost`, `unwritten`, `crashes` |
| `RiskGate` | `open` (broker positions), `booked` (those whose row is closed, as `broker.close` failed), `unbooked` (trades the terminal ended and `check_outcomes` has not seen), `closed`, `inDay` (results in the sliding windows), `streak` | `Order`, `OrderBlind` (positions unreadable), `TerminalEnds`, `BookEnded`, `CloseTrade`, `DayPasses`, `WeekPasses` |
| `PositionSizing` | `ask`, `lot`, `verdict` | `Ask`, `Evaluate`, `NextAsk` |
| `SignalRules` | `view` (what the engines saw), `decision`, `tier` | `Look`, `Evaluate`, `Publish`, `Manage`, `PassEnds` |
| `SignalLevels` | `chart`, `signal` | `Look`, `Build`, `PassEnds` |
| `Publication` | `trades`, `sumR` (evidence), `throttle`, `open` rows, `scanning`, `published` | `StartScan`, `Signal`, `EndScan`, `Win`, `Lose` |
| `Candles` | the frame of candles an engine is handed | `Tick` (the newest bar forms), `NewBar`, `Slide` (at the fetched count the oldest bar leaves) |
| `MarketStructure`, `FairValueGap`, `OrderBlocks`, `Manipulation`, `VolumeProfile` | `Candles`' frame | none of their own: the analysis is a set of operators on the frame |
| `IctContext` | `MarketStructure`'s frame; the hour is quantified over | none of its own |
| `Liquidity` | swings per price, last bar with its ATR | `NewSwing`, `SwingLeaves`, `NewBar` |
| `Detectors` | `context` (what the engines saw), `best` (the match that tags the signal) | `Look`, `Detect`, `PassEnds` |
| `ScoreMath` | no variable: the rounding and clamping the scores share | |
| `ModelRegistry` | `files`, `meta` (`metrics.json`), `live` (loaded), `job` (running training) | `Train`, `SaveArtifact`, `Prune`, `OpenMetrics`, `WriteMetrics`, `Refresh`, `Crash`, `WriteFails` |
| `Metrics` | journal rows with their closing order | `Signal`, `CloseTrade`, `AgeOut` |
| `Replay` | `TradeOutcome`'s variables plus `sim` | `Enter`, `CloseBar`, `ReadBar` (both sides read the bar), `SimTimeout`, `Age` (the live time stop) |
| `MainLoop` | clock, `last_digest_day`, what was sent | `Boot`, `Iterate`, `SendDigest`, `SendReport`, `Crash`, `NextHour` |
| `ScanHealth` | pass in progress, `HealthMonitor`'s counters | one per way a pair can go, `EndPass`, `Hang` |
| `NewsGuard` | cache, clock, calendar | `Blackout` with its refresh; `List`, `Drop`, `FeedFlips` |
| `Delivery` | one message, the request under way | `Compose`, `Accept`, `Limit`, `Reject`, `NetworkError` |

Composition.  `TradeOutcome` implements `TradeStages` (refinement mapping
`Stages`).  `Replay` extends `TradeOutcome` and runs the second implementation
of trade management on the same bars.  `IctContext` extends `MarketStructure`
and reads the swings and the trend of the same frame, as the pipeline hands them
over; `Manipulation` and `VolumeProfile` read one tape.  `MCOperations`, `MCLearning`,
`MCAnalysis`, `MCSignal` and `MCRisk` put the components of one layer into one
instance: these components share no variable, the fact one has for another
(a blackout, a result, a zone) is an input that the other's module ranges over
completely.  An interleaving of them would therefore add products of states
and no behaviour; the variable `part`, chosen initially, says which of them
runs, the others stay in their initial states.  Their specifications take each
component's `Init`, `Next` and `Fairness` as they are.

Conventions.  Operators named `X_Something`, after a comment "Wrong on
purpose", are plausible bugs: put in the place of `X` they must break the
property `PROJECT.json` ("mutants") names, which shows that the property
depends on that line of code.  "history" variables record something a property
speaks about and no action reads.  "bound" constants only limit the instance.

## 3. Runs

`tlc -config X.cfg Module`.  The first eight pass, the last four are expected
to fail.

| Run | Module / configuration | Question and answer |
|---|---|---|
| `outcome` | `MCTradeOutcome` | A BUY and a SELL against every bar over eight prices. `BookedMatchesStage`: the running result of a row is what the scale-outs booked. `KeepsBookedProfit`: no exit after TP1 gives profit back. `ImplementsStages`: the staged scale-out. `DeadTradesAreCut`: past the time stop a trade is cut or shows progress. |
| `sync` | `MCBrokerSync` | `NeverOverclosed`, `StopKeepsEntry`: whatever call fails, whenever the process restarts and whichever broker it comes back to, the bot closes no more than the stages allow and a stop at entry never goes back. `VolumeMatchesStage`, `ClosedRowIsFlat`, `RunnerRidesToTp3`: between polls broker and journal agree, unless a call was missed. Both adapters. |
| `entry` | `MCOrderEntry` | `OneOrderPerSignal` while the process lives, answers arrive and tickets are written; `UnmanagedHasACause`: no more positions without a ticket than failures of these three kinds, whatever is tapped, delivered again or retried; `OpenCapHolds` and `EveryTapAnswered` in spite of a crash at any point. |
| `risk` | `MCRisk` | `BookWithinCaps`: number, heat, exposure and correlation of the book as a whole, after any order of fills and closes. `LosingRunBounded`: a losing run ends at `max_consecutive_losses - 1` and the positions that were open then, plus what the journal had not yet booked when an order passed. `RiskWithinMax`: what a lot risks, in the account's currency, as far as a gate without exchange rates can hold it. |
| `signal` | `MCSignal` | `RewardHolds`, `StopOutsideNoise` (levels); `ShortsMirrorLongs`, `ConfirmationNeverHurts` (gates and scores); `StrategiesMirror` (detectors, candles and scorecard); `NoProvenLoserPublished`, `EarnsItsWayBack` (throttle). |
| `analysis` | `MCAnalysis` | On live frames: `NoRepaint` (structure); `OteInTextbookHalf` (ICT); `PoolsPersist` (liquidity); `FilledGapStaysFilled` (gaps); `StrongestSurvives` (blocks); `TrapVerdictStands` (manipulation); `ValueAreaIsSmallest` (volume profile). |
| `learning` | `MCLearning` | `AcceptedIsLoadable`, `LiveBeatsBase` (registry, crash at every step); `DifferByLiveExitsOnly` (replay, with the trail and the early exits on, as shipped). |
| `operations` | `MCOperations` | `NoDigestTwice`, `UpMeansDigest` (loop); `NeverTwice` (delivery); `KnownEventsStayGuarded` (news); `DeadFeedIsAlerted` (health). |
| `outcome_trail` | `MCTradeOutcome` / `OutcomeTrail` | Violated: a runner trailed into profit is closed at breakeven by a later, lower bar. |
| `sync_micro_lot` | `MCBrokerSync` / `SyncMicroLot` | Violated: at 0.01 or 0.02 lot the bot's own partial closes take the whole position before TP3. |
| `entry_crash` | `MCOrderEntry` / `EntryCrash` | Violated: death between fill and `record_execution`, the tap comes again and is ordered again. |
| `risk_cool_off` | `MCRisk` / `RiskCoolOff` | Violated: the streak lock never ends. |

The modules state more that TLC finds true of the same instances and that is
left out of the runs to keep them to the questions above.  Add the name to the
configuration to check it: `CloseReachesBroker` (with `FairSpec`),
`NoTapForgotten`, `OrdersOnlyForOpenRows`, `LevelsOrdered` and
`TimeoutIsNoFullLoss` (these four also proved), `SizedWhenSizeable`, `ChochTakesPriority`, `EqualSwingsPool`, `BreakoutIsNoSweep`,
`NoContestedGap`, `DiskIsBounded`, `KellyNeedsAnEdge`,
`TroublesAreRiddenOut`, `ListedEventsAreGuarded`, `FailuresMeanNoFeed`,
`StopFollowsJournal`, `DayLockEnds` (with the constants of `RiskCoolOff.cfg`), `DrawdownIsWorstFall`, `StructureMirrors`,
`ScorecardAgrees`, `UsedStaysUsed`, `FreshIsRecorded`, `UsedMustHavePaid`,
`PoolsAloneAreNoSetup` and the types (`TypeOK` of `BrokerSync` and `OrderEntry`,
`RiskTypeOK`, `SignalTypeOK`, `LearningTypeOK`, `OperationsTypeOK`).

### What the four violations say

* `outcome_trail` (`runtime.py:343`).  The trailed stop is computed from the
  current bar's extreme and kept nowhere.  TP2, one bar that trails the stop
  into profit, a lower bar: the stop is entry again and the runner is closed
  as breakeven, although "a reversal closes the runner in profit, not at 0"
  (`runtime.py:336-337`).
* `sync_micro_lot` (`execution/engine.py:145`).  40% of 0.01 lot rounds to 0.00,
  which `MT5Broker.close` reads as all of it; two thirds of 0.01 round to 0.01.
* `entry_crash` (`runtime.py:290`).  Nothing on disk says that an order is under
  way and the update offset is in memory, so the redelivered tap finds a row
  without a ticket.  A test expects "second tap is a no-op".
* `risk_cool_off` (`journal/store.py:145`).  `consecutive_losses` has no time
  window and a locked account closes no further executed trade, so nothing can
  reset the streak; the configuration calls the limit a cooling-off.

### Bounds, and why they are enough

* `outcome`: one trade (rows do not depend on each other: `Resolve(t)` reads
  and writes only row `t`), stop, entry and three targets at different ticks
  and prices on both sides beyond them, so every order of levels within a bar
  exists; trails 0 and 1.
* `sync`: prices are the levels themselves; lots 0.03 (the smallest both
  partial closes can split), 0.05, 0.10, 0.37 (does not split evenly).
  0.01 and 0.02 are in `sync_micro_lot`.
* `entry`: two signals and at most two positions make the cap bind once a
  third order is possible; three taps make a batch of two and a late third; three attempts are `max_retries`;
  one crash can fall between any two steps; failed writes and lost answers are not
  bounded, the attempts and taps bound them.
* `risk`: two correlated pairs and a metal with exposure limits that each bind
  before the count cap; results of -1, 0 and 2R; limits as in `risk.yaml` but
  for two positions instead of five and a week of three trades; up to two trades
  ended at the terminal and not booked (`MaxUnbooked`, one in `risk_cool_off`),
  which with two positions is a whole book stopped out between two checks.
  Sizes: real contracts and digits of `symbols.yaml`, symbols quoted in dollars,
  yen, pounds and francs with rates near today's, balances of 100 to 10000, stops
  on both sides of each rounding boundary.
* `signal`: about 31000 views, the product of the fields the gates read and
  the product of those the scores read, on M15 and H1 charts with each higher
  timeframe readable or not; ticks of four units with closes at each fraction;
  about 7000 contexts for the detectors: nine endings of a chart (each candle
  pattern, its mirror and none), five positions of the averages, four courses of
  the RSI, every course of five closes around a range, every combination of sweep,
  shift and zone.
* `analysis`: frames of seven bars hold the six labels the trend looks at and,
  once full, slide (window 1); four bars on four levels, one of which has just
  opened and can form into the one above it, so that `Tick`, `NewBar` and `Slide`
  all happen to a swing that waits for confirmation; ranges of two bars
  (`AmdBars`) put accumulation, manipulation and distribution into such a frame.
  Three swings that come and leave are the least that chain; the nine last bars
  sweep below, above, both or neither with each kind of body, and their ATRs of
  2, 3 and 5 at a tolerance of 0.4 make prices one tick apart different or equal
  and two ticks apart equal; five candles are a gap and two fills, with ATRs of 4
  and 8, for which a gap of one tick is wide enough or not; order
  blocks need an opposing candle, a displacement and bars that come back: six
  bars of seven kinds give two overlapping zones, used and fresh (thresholds
  are those of `engines.yaml`, `MinDisp = 15` tenths and
  `MinRecord = 75`; the average body is over `BodyBars = 4` bars and not 20, so
  that it moves within six); a tape of seven bars of five kinds has a trap, the
  `Lookback = 2` bars it needs before it and the bars that make it old
  (`RecentBars = 2`); five bins leave room for a value area with a hole.
* `learning`: five batches of trades and three faults let a version number be
  used twice and fill the `Keep` places with torn artifacts; four trades make
  every shape of peak and fall; four bars of look-forward over six prices
  reach every stage, a trail above breakeven and both early exits.
* `operations`: three days of four hours, Sunday among them; waits below, at
  and above the client's patience; two cache periods and an event after; two
  pairs so that one is gated or fails while the other answers.

### Fairness, and why the code has it

* `TradeOutcome`: weak fairness of `Resolve(t)`: outcomes are polled every 300
  seconds for ever.  The market, the clock and the operator owe nothing.
* `BrokerSync` (`FairSpec`, for `CloseReachesBroker` only): weak fairness of
  `CallBroker`: a handler's calls are made one after the other; failing ones
  are steps of their own.
* `OrderEntry`: weak fairness of `Poll` and of the handler: requests and
  `order_send` have timeouts, the loop polls every few seconds.
* `RiskGate`: weak fairness of orders, of the end of positions, of booking them
  (`check_outcomes` comes every 300 s) and of the clock, as stated in its
  `Fairness`; a position is closed by its stop or target in the end.
* `ScanHealth`: the pass goes on and ends; strong fairness of the end of a
  news window (a window is a fixed time).
* `Publication`: scans start and end, trades of a strategy keep coming.
* `MainLoop`: `UpMeansDigest` is an action property, no fairness.

`CHECK_DEADLOCK FALSE` is set in the two configurations of `MCRisk` only: with
the streak lock tripped and no position open, no step of the program or of the
book is left.  That stop is what `risk_cool_off` is about.

## 4. Known disagreements

Besides the four runs above, these statements of the documents, comments or
tests are refuted by TLC.  Each is a definition of its module, with a comment
that quotes its source, and is not among the properties of a run.  A statement of a
module that an `MC` module extends can be put into that configuration as it is;
for one that is instanced (`Rule!RegimeIsDirectional`), give it a name in the
`MC` module first.

| Statement | Code | What the counterexample shows |
|---|---|---|
| `OneStagePerBar` (`TradeOutcome`) | `runtime.py:368` | _resolve moves one stage per CALL and calls come every 300 s, so several stages are taken on one H1/M15 bar; its docstring says "Advance a trade at most one stage per bar, mirroring backtest.engine so live outcomes and backtests share one definition of R" (runtime.py:323) |
| `NoMoreThanBackstop` (`TradeOutcome`) | `runtime.py:343` | when a bar overshoots TP3 by more than the trail, the trail test comes before the TP3 test and the journal books an exit above TP3, where the position was already filled; the docstrings say "scale it out on the broker too so broker and journal never disagree ... the runner rides to the TP3 backstop" (runtime.py:419-421) |
| `RunnerRidesToTp3` (`BrokerSync`) | `runtime.py:251` | _scan_symbol executes without take_profit, so the order carries TP2 and the broker ends the whole position there, while the journal goes on with a 20% runner to TP3; the module says "mirroring the broker so journal and broker never disagree" (runtime.py:7) |
| `BreakevenHolds` (`BrokerSync`) | `runtime.py:426` | a poll that sees TP1 in the bar's high after the price fell back to entry asks for a stop the terminal refuses; the answer is dropped, the position keeps its original stop while the journal counts on breakeven; the docstring says "Trail the stop to entry — mirrors the journal's post-TP1 breakeven so broker and journal never disagree" (execution/engine.py:138-139) |
| `NeverOrphaned` (`BrokerSync`) | `runtime.py:316` | expiry calls journal.close_signal directly and never broker.close, so a ticketed trade is final in the journal and open on the broker; the module says check_outcomes closes trades "mirroring the broker so journal and broker never disagree" (runtime.py:6-7) |
| `RetryIsNoOp` (`OrderEntry`) | `execution/engine.py:126` | every answer other than DONE that is not in _NON_RETRYABLE is tried again, DONE_PARTIAL (10010), TIMEOUT (10012) and None among them, although the order may have filled: one tap opens up to three positions and the journal learns of the last one only; the test of the button says "second tap is a no-op" (tests/test_runtime.py:235) |
| `ReportEverySunday` (`MainLoop`) | `runtime.py:539` | last_digest_day is set before anything is sent and a start after the digest hour counts today's digest as sent, so a bot that dies and is restarted on Sunday evening sends no report that week; the code says "# once-a-day digest (+ the weekly equity report on Sundays)" (runtime.py:559) |
| `BurstNeverDrops` (`Delivery`) | `telegram/client.py:45` | the wait is capped at 60 seconds and there is one retry, so a rate limit that asks for more loses the message without a trace for the caller; the docstring says a burst of "outcome messages (e.g. a backlog flush) must not silently drop sends." (telegram/client.py:42) |
| `CapsAlwaysHold` (`RiskGate`) | `runtime.py:516` | when broker.positions() raises, _broker_positions answers with no positions and every cap is tested against an empty book: more than maximum_open_trades positions are opened; the module of the gate says "No trade may be executed unless approved here ... exposure and correlation caps, portfolio heat" (risk/engine.py:3-5) |
| `StopOutLosesRiskPct` (`PositionSizing`) | `risk/engine.py:150` | the loss per lot, stop * contract, is in the quote currency and is divided into a budget in the account's currency: for the yen pairs of the watchlist the lot is about 1/150 of what the rule asks for (or zero); the docstring says "Lot size so a full stop-out loses ~risk_pct of balance" (risk/engine.py:148) |
| `FeedOkMeansData` (`ScanHealth`) | `runtime.py:120` | a pair that a gate skips returns None without fetching and counts as fetched, so a dead feed is reported healthy while the pairs are gated; the comment says "feed is healthy if at least one symbol/TF returned data this pass" (runtime.py:126) |
| `StallIsAlerted` (`ScanHealth`) | `runtime.py:547` | the health check runs only right after record_scan on the scanning thread, so seconds_since_scan is about zero whenever should_alert is asked; the module says "this layer catches the subtler failures — a dead data feed, a stalled scan loop, a full disk" (monitoring/health.py:6-7) |
| `NewestIsKept` (`ModelRegistry`) | `ai/model.py:63` | _load_metrics turns an unreadable metrics.json into {}, versions are numbered from 0 again and _prune, which sorts by number, removes the artifact that was just accepted; its docstring says "Keep only the newest _KEEP model artifacts on disk." (ai/model.py:58) |
| `NeverClearlyWorse` (`ModelRegistry`) | `ai/model.py:158` | a model up to 10% worse than the accepted one is promoted and becomes the next yardstick, so two promotions give 20%; the docstring says the previous accepted model stays live, "auto-rollback by never promoting a worse one" (ai/model.py:8-9) |
| `LoadedIsAccepted` (`ModelRegistry`) | `ai/model.py:91` | _refresh compares version numbers only; after a write of metrics.json failed the next model gets number 0 again and a process that has an older version 0 loaded never loads it; the class says "Loads the latest ACCEPTED artifact" (ai/model.py:80) |
| `NotInvalidatedAtOnce` (`SignalRules`) | `engines/rule_engine/service.py:120` | the gate asks for structure.bos or structure.choch of whatever direction, so in an uptrend a fresh bearish CHOCH lets a BUY through, which _early_exit closes at the next outcome check; the comment there says "an opposite CHOCH says the setup's premise" is gone (runtime.py:385) |
| `RegimeIsDirectional` (`SignalRules`) | `engines/rule_engine/service.py:97` | only the chop regime rejects, regime_allows is never called and a generic SMC long passes in a bear regime; the catalogue says "Hard reject all longs" (docs/strategies/strategy.md:69) |
| `HtfConflictNeverTrades` (`SignalRules`) | `engines/rule_engine/service.py:125` | the runtime passes an MTFResult also when no higher timeframe could be read; it opposes nothing and switches the single-context gate off; the test says "Safety-critical guarantee: a bullish setup against a bearish HTF never trades." (tests/test_rule_engine.py:32) |
| `NeverJoinsTrapped` (`SignalRules`) | `engines/manipulation.py:70` | trapped_direction names one side and a bull trap hides a bear trap of the same bars; the gate's comment says "A fresh failed breakout traps retail on that side — never join the" trapped direction (engines/rule_engine/service.py:101) |
| `NeutralTakesNoSide` (`SignalRules`) | `engines/rule_engine/service.py:316` | (bias == "bullish") == (direction == "BUY") is true for every SELL when the bias is neutral, and htf_bullish is False for a sideways context: shorts get the bonus of "higher-timeframe agreement" (engines/rule_engine/service.py:312) with nothing to agree with |
| `StopBeyondSwing` (`SignalLevels`) | `engines/rule_engine/service.py:421` | the far edge of the best order block is taken whatever its type: for a BUY confirmed by a gap alone, a bearish block above the price replaces the last swing low and the stop is 1.1 ATR away, in front of the swing; the comment says "SL beyond the protective structure (OB far edge / recent swing) + ATR buffer" (engines/rule_engine/service.py:419) |
| `RoundingLosesNoSignal` (`SignalLevels`) | `engines/rule_engine/service.py:457` | rr is computed in floating point and compared with min_rr exactly: for about one grid price in 700 (XAGUSD) to 10000 (EURUSD) abs(tp2 - e) / r is 1.99999999 and the signal is dropped, for example entry 0.99531, stop 0.99243, tp2 1.00107; the comment promises "so a rounding tick can never" shrink the realized reward (engines/rule_engine/service.py:442) |
| `ReversalIsTraded` (`Detectors`) | `engines/strategies/ict_models.py:42` | a CHOCH is by its definition against the trend and evaluate only takes matches with the trend, so a Turtle Soup found on a CHOCH never tags a signal; the docstring says "- Turtle Soup: time-based liquidity SWEPT, then a structure shift back — enter" the reversal (engines/strategies/ict_models.py:8) |
| `VolumeSilencesNoSetup` (`Detectors`) | `engines/strategies/scorecard.py:60` | twenty bars without volume and one with it divide by zero, detect_all skips the detector and nobody logs: the setup is lost in silence; the docstring says "A detector exception must never kill the scan — it is logged upstream by the" Rule Engine (engines/strategies/registry.py:31) |
| `OneDefinitionOfR` (`Replay`) | `backtest/engine.py:117` | _simulate has no trailing runner (nor early exits), the live _resolve trails after TP2 with the shipped trail_atr_mult 1.0, so the same bars give different outcomes and R; how far they may part is `DifferByLiveExitsOnly`; the docstring says "stop-to-breakeven after TP1 (same as runtime.check_outcomes), so backtest and" live results "are directly comparable" (backtest/engine.py:9-10) |
| `ReplayKeepsPartials` (`Replay`) | `backtest/engine.py:140` | a trade that times out after TP1 or TP2 is marked as if the whole position were still open, the partial exits are forgotten; the docstring says "Trades are simulated forward with the live outcome logic: 40/40/20 partial exits" (backtest/engine.py:8) |
| `TransitionBreak` (`MarketStructure`) | `engines/market_structure/service.py:185` | in a sideways trend a recent HH is enough for a bullish CHOCH and is looked at before the break, so a close below the last swing low is announced as a bullish change of character and a BUY is not left; the comment says "else:                                    # transition: a fresh break = CHOCH" (engines/market_structure/service.py:184) |
| `ChochIsFirstBreak` (`MarketStructure`) | `engines/market_structure/service.py:174` | the test is close beyond the last swing, so every further bar beyond the same swing is a CHOCH again; the comment says "CHOCH is the FIRST fresh break against the prevailing trend — it takes" priority over a continuation BOS (engines/market_structure/service.py:170) |
| `RangeIsNotStrong` (`MarketStructure`) | `engines/market_structure/service.py:113` | an equal high is labelled LH and an equal low LL, so a range with flat highs and lows is a STRONG_BEARISH trend and shorts score its full points; the bible's rule for a downtrend is "if last_high < previous_high and last_low < previous_low:" (docs/titan/TITAN_BIBLE.txt:46) and its range (1.15, line 48) has no LH and no LL |
| `ValueAreaIsContiguous` (`VolumeProfile`) | `engines/volume_profile.py:76` | the largest bins are taken wherever they are, so the span from VAL to VAH can hold far more than 70% of the volume and prices that hardly traded; the comment says "# value area: grow out from POC until 70% of volume is covered" (engines/volume_profile.py:75) |
| `NoVolumeNoBias` (`VolumeProfile`) | `engines/volume_profile.py:59` | a frame without any volume has a VWAP of 0, every price is above it and the bias is bullish with 25 points of score; the docstring says the bias is "price above VWAP + expanding volume → bullish; below → bearish." (engines/volume_profile.py:9) |
| `PoolWithinTol` (`Liquidity`) | `engines/liquidity/service.py:71` | a price joins the group when it is within tol of the LAST price of the group, so a chain of swings makes a pool of any width and its average lies near none of its ends; the docstring says "Group swings of one kind whose prices sit within tol into a pool" (engines/liquidity/service.py:61) |
| `SweepReachesStops` (`Liquidity`) | `engines/liquidity/service.py:96` | the wick is compared with the AVERAGE of the pool, so a sweep is reported when no low of the pool was taken; the model field says "BSL rests above highs, SSL below lows" (engines/liquidity/service.py:26) |
| `StopHuntRejects` (`Liquidity`) | `engines/liquidity/service.py:104` | the body of the candle is taken without its direction: a falling candle that opened high, went through the lows and closed at its bottom half is a bullish stop hunt; the comment says "swept SSL then rejected up" (engines/liquidity/service.py:98) |
| `LevelWasSwept` (`Liquidity`) | `engines/rule_engine/service.py:206` | the level of the signal is the pool nearest to the close, swept or not: with one pool swept and another one nearer, the chart marks and the caption names the wrong one; the field is commented "swept liquidity pool price" (engines/rule_engine/service.py:52) |
| `FreshSurvives` (`OrderBlocks`) | `engines/order_block/service.py:121` | of two overlapping zones the higher score is kept, and freshness is only 15 points of it: a used block with a large body and a long run removes the fresh and more recent one before best is ranked by freshness; the comment says "keep most recent, dedup overlapping zones, rank fresh + score" (engines/order_block/service.py:105) |
| `NoProvenLoserPublished` (`Publication`) | `runtime.py:161` | when reading the closed rows raises, the throttle is set to the empty set and the scan that follows publishes every strategy; the docstring says "negative expectancy are publish-blocked until they recover. Only trades" closed after ai.throttle_since count (runtime.py:147) |
| `DrawdownOfEquityCurve` (`Metrics`) | `journal/store.py:158` | closed_rows has no ORDER BY, so portfolio_metrics walks the results in the order the signals were journalled, not closed; its Max DD is not that of the equity curve, which the chart of the same report sorts by closed_at: the code says "# equity curve + max drawdown (in R)" (ai/stats.py:73) |

Refuted as well, most of them without a document that promises them.  They are what one would
like to rely on, and each explains a condition of the property that is checked
in its place:

| Statement | Code | What the counterexample shows | Checked instead |
|---|---|---|---|
| `NoUnmanagedPosition` (`OrderEntry`) | `runtime.py:253` | with the process up and every answer there, `record_execution` raises after the scanner's fill, `scan_once` catches it (`runtime.py:117-125`) and goes on: the position has no ticket in the journal | `UnmanagedHasACause` |
| `LosingRunWithinLimits` (`RiskGate`) | `journal/store.py:127` | a stop at the terminal frees its place at once, its loss is counted up to 300 s later; an order in between makes the losing run longer than the two limits' sum, and so does a row that is closed while `broker.close` fails | `LosingRunBounded` |
| `RiskWithinPolicy` (`PositionSizing`) | `risk/engine.py:150` | the loss is in the quote currency and the balance is not: EURGBP and USDCHF at a size rounded up to `MIN_LOT` lose more than `max_risk_per_trade_pct` of a dollar account | `RiskWithinMax` |
| `SidewaysHtfIsNeutral` (`Detectors`) | `engines/strategies/scorecard.py:75` | a sideways higher timeframe is not bullish (`runtime.py:192`), so every SELL gets the macro point and no BUY does | `StrategiesMirror` |
| `SwingStands` (`MarketStructure`) | `engines/market_structure/service.py:94` | the newest bar is the last of the window that confirms a swing and still forms (`data/sources.py:122`): when it moves on, the swing is gone on the next pass | `NoRepaint`, of the settled swings |
| `NoWhipsaw` (`MarketStructure`) | `engines/market_structure/service.py:125` | a full frame slides: the oldest of five labels leaves with its bar as a new one comes, and 3 of 5 bullish become 3 of 5 bearish | none |
| `GapNeverReopens` (`FairValueGap`) | `engines/fvg/service.py:57` | size and score are measured against the ATR of the newest bar: a gap that was too small for it is an active zone again when it falls | `FilledGapStaysFilled` |
| `PoolsOutliveAtr` (`Liquidity`) | `engines/liquidity/service.py:66` | the tolerance shrinks with the ATR and a pool falls apart without a swing of it leaving | `PoolsPersist` |
| `TrapHolds` (`Manipulation`) | `engines/manipulation.py:54` | the newest bar checked is still forming: its close moves back out and the side is trapped no more | `TrapVerdictStands`, on closed bars |

How to see them fail (state predicates go under INVARIANT; `ReplayKeepsPartials`,
`ChochIsFirstBreak`, `SwingStands`, `NoWhipsaw`, `GapNeverReopens`, `PoolsOutliveAtr` and
`TrapHolds` are action properties and go under PROPERTY).  Two of the rows are for
names that are also checked: `RunnerRidesToTp3` fails with `BrokerTp = 2`, the
order of the auto-execute path, `NoProvenLoserPublished` without its `~blind`.
`ChochIsFirstBreak` needs five price levels in `MCBars`, `RangeIsNotStrong` frames of
eight bars (`MaxBars = 8`), `NoMoreThanBackstop` a trail of 1 and prices up to
two ticks beyond TP3.  The others fail with the constants of their modules'
passing runs.

Disagreements that need no run, since the code they would be about does not
exist: `configs/sessions.yaml:1` says that daylight saving is handled in the code, and
nothing handles it; `breaker_block` is never set, so the Unicorn setup never
matches; of the overlap of London and New York, 12:00 to 16:00, only the last
hour is named so, the others are `new_york`; `mitigation_threshold_pct` of the
order blocks is loaded and never read.  And one boundary: when every high pivot
lies below every low one the dealing range of the ICT engine is negative and
premium and discount change places, which is why `OteInTextbookHalf` asks for
pivots in order.

## 5. Proofs

`tlapm X.tla` checks them; each theorem holds for every value of the constants
that satisfies the named assumptions.  The proof modules of a layer that TLC
runs as one instance extend its `MC*` module for its instances and their
assumptions; none uses the values that module gives to TLC, and a theorem about
an instance speaks of the specification of that component.

| Theorem | Module | Says |
|---|---|---|
| `BookedIsExact` | `TradeOutcomeProofs` | `Spec => [](TypeOK /\ BookedMatchesStage)`: for every number of rows, every well-formed plan, every price and trail, the running R is exactly what the scale-outs booked |
| `BookedProfitIsKept` | `TradeOutcomeProofs` | `Spec => KeepsBookedProfit` |
| `TypesAlwaysHold` | `TradeOutcomeProofs` | `Spec => []TypeOK`: no branch writes a status or a result that the other queries do not know |
| `OutcomeImplementsStages` | `TradeOutcomeProofs` | `Spec => ImplementsStages`, the refinement of `TradeStages` |
| `DifferByLiveExitsOnlyHolds` | `TradeOutcomeProofs` | of `Replay`, for every trail and early exit: the backtest closes a trade with the status, the result and the stage the live poll gives it on the same bars, unless a live exit that it lacks closed the row, which then says so, and a trailed runner has made more than the replay's breakeven; for every bar and length of look-forward |
| `TimeoutIsNoFullLossHolds` | `TradeOutcomeProofs` | of `Replay`: a simulated trade that times out before its first target lost less than its stop would have cost |
| `ClosedRowIsFlatHolds` | `BrokerSyncProofs` | a closed row with no call missed has no position behind it |
| `VolumeMatchesStageHolds` | `BrokerSyncProofs` | with no call missed the position holds its stage's share to within a volume step, for every lot up to 100.00 |
| `NeverOverclosedHolds` | `BrokerSyncProofs` | whatever fails or restarts, the bot never takes more than its stages, for every lot from 0.03 to 100.00 |
| `StopKeepsEntryHolds` | `BrokerSyncProofs` | a stop that has reached entry never goes below it again |
| `RunnerRidesToTp3Holds` | `BrokerSyncProofs` | for orders that carry TP3 and lots from 0.03, only a stop or TP3 ends a runner |
| `OneOrderPerSignalHolds` | `OrderEntryProofs` | no second order for a signal while the process lives, is answered and can write the ticket, for every number of signals, taps and attempts, both modes |
| `UnmanagedHasACauseHolds` | `OrderEntryProofs` | between handlers the positions without a ticket in the journal are no more than the deaths, the lost answers and the failed writes together, over every sequence of them |
| `OpenCapAlwaysHolds` | `OrderEntryProofs` | the open positions stay within `maximum_open_trades`, whatever crashes and however often a button is tapped, as long as the broker's answers arrive |
| `OrdersOnlyForOpenRowsHolds` | `OrderEntryProofs` | an order is only sent for a published row that is open and has no ticket, also for a tap that comes late or twice |
| `NoTapForgottenHolds` | `OrderEntryProofs` | a tap that Telegram has been told to forget was answered, across restarts |
| `BookWithinCapsHolds` | `RiskProofs` | the book as a whole is within every cap, for every watchlist, correlation table and limit |
| `LosingRunBoundedHolds` | `RiskProofs` | losses in a row, plus what can still become one, stay below the two limits' sum and what was not yet booked when an order passed, for every delay of the journal and every failing close |
| `RiskWithinMaxHolds` | `RiskProofs` | an approved trade loses at most `max_risk_per_trade_pct` in the account's currency, times the exchange rate where that is above one, for every contract, rate, balance (read, or a configured one that is no larger) and stop |
| `RewardAlwaysHolds` | `SignalProofs` | for every tick size, chart and minimum reward, the stored levels clear the minimum the risk engine recomputes |
| `StopAlwaysOutsideNoise` | `SignalProofs` | the stop is an ATR and a tenth away, less a tick |
| `LevelsAlwaysOrdered` | `SignalProofs` | with a minimum reward of 2, five levels in order when the stop is three ticks away |
| `NoProvenLoserPublishedHolds` | `SignalProofs` | a scan that could read the journal publishes no strategy the closed trades have proven a loser |
| `ShortsMirrorLongsHolds` | `SignalProofs` | what the engines saw upside down gives the opposite decision and the same confidence, for every view and threshold, wherever the evidence takes a side |
| `ConfirmationNeverHurtsHolds` | `SignalProofs` | a kill zone, an optimal entry, a sweep or a second aligned zone more never costs a signal, nor any confidence |
| `StrategiesMirrorHolds` | `SignalProofs` | where the higher timeframe has a trend, the chart upside down has the same setups on the other side with the same scores: candle patterns, regime, scorecard, every detector, for every course of bars and threshold |
| `NoRepaintHolds` | `AnalysisProofs` | whether the newest bar forms, another follows or the frame slides: settled swings stay, with kind, price and label, and none turns up among them, for every window and length of frame |
| `OteInTextbookHalfHolds` | `AnalysisProofs` | with the pivots in order an optimal entry is in the half its trend wants and scores 72 or more |
| `FilledGapStaysFilledHolds` | `AnalysisProofs` | a gap between closed candles keeps side and edges, is never less filled, and once filled is no active zone again, for every course of the ATR, sliding frames included |
| `TrapVerdictStandsHolds` | `AnalysisProofs` | the verdict on a closed bar does not change while the bar is recent, for every window, look-back and length of tape, forming bars and sliding frames included |
| `PoolsPersistHolds` | `AnalysisProofs` | while no swing of its own leaves and the ATR does not fall, a pool stays part of a pool with as many touches, whatever other swings come and go, for every tolerance and number of swings |
| `ValueAreaIsSmallestHolds` | `AnalysisProofs` | the value area holds 70% of the volume, and the largest bins that are fewer do not, for every tape and number of bins |
| `StrongestSurvivesHolds` | `AnalysisProofs` | of order blocks that overlap one with the highest score is kept, for every frame and threshold |
| `LiveBeatsBaseHolds` | `ModelRegistryProofs` | whatever is torn, lost or restarted, a loaded model beats the base rate by the margin |
| `AcceptedIsLoadableHolds` | `ModelRegistryProofs` | fewer than `Keep` faults and no lost `metrics.json`: the accepted version is on disk, whole |
| `DigestNeverTwice` | `OperationsProofs` | at most one digest a day and one report a week over every sequence of crashes, for every length of day and week |
| `UpMeansDigestHolds` | `OperationsProofs` | a process that is up from the digest hour to the end of the day has sent the digest, on Sunday the report too |
| `NeverTwiceHolds` | `OperationsProofs` | no path of waits, resends, overflows and lost answers sends a text twice |
| `KnownEventsStayGuardedHolds` | `OperationsProofs` | an event some fetch has brought is guarded as long as the service lists it |

Arguments.

* `TradeOutcome`.  Assumptions: plans are well formed (`PlansAssumption`, what
  `_build_signal` leaves behind), prices integers, trails naturals.  Inductive
  invariant `IInv == TypeOK /\ BookedMatchesStage`: inductive because `_advance`
  recomputes the result from the plan.  `PlanFacts` (distances are integers, the
  targets ordered), `StopFacts` (the effective stop of a scaled trade is never below
  entry) and `ResultFacts` (more is booked with each stage) feed one lemma about
  a write to a row, `WriteRow`, and one for rows that close, `CloseInv`; each branch
  of `_resolve` is a case that cites them.  Profit is kept because a stop at
  entry or better adds a non-negative runner to what is booked.  The
  refinement shows for each branch which abstract step it is.
* `Replay`.  Assumption: `ReplayAssumption`, one signal at a time; trails and early
  exits are free.  Between bars the two sides agree or a live exit has closed the
  row (`Agree`); inside one they are compared branch by branch.  `SimReads` and
  `LiveReads` say what each side makes of a closed bar in terms of one function
  (`After`), `LiveStop` that the trail never lowers the stop the replay has.
  `ReplayInv` adds what makes that inductive: a trade that timed out is not entered
  again (`InStep`), and a bar that left the trade alive closed above its stop
  (`Survived`), from which `TimeoutIsNoFullLoss` follows.
* `BrokerSync`.  None of the five properties is inductive: between the journal
  write and the calls it queues they do not hold.  `SyncInv` says which queues
  a stage can have (`Pending`), that with nothing missed the volume is exactly
  the stage's own, or what the partial close still waiting will take to it
  (`Exact`), and which volumes a live row may have when calls were missed
  (`Volumes`: each partial close of a stage reached, at most once).  `TailPending` gives what is left after a call,
  `CallArguments` what a call may ask for.  Who took the position is a second
  layer, `Ended`, proved on top of `SyncInv`.  The bounds on lots are hypotheses
  of the theorems and not of the model: below 0.03 lot the partial closes take
  everything (the run `sync_micro_lot`), and above some 160 lots 0.4 and then
  0.6667 of the rest drift more than a step from a fifth, so that
  `VolumeMatchesStage` is false there.
* `OrderEntry`.  `EntryInv` adds to the types that a row being ordered was
  scanned and, while nothing has crashed, stayed unanswered or failed to be written
  (`Quiet`), that an order without a ticket in the journal belongs to the one
  handler that is about to write it (`Accounted`).  Four more layers lie on it.
  `Caused`: the orders without a ticket, a stack of them per signal, are no more
  than the failures and the one about to be written (`StackPush`, `StackPop`);
  a handler's signal has no ticket yet, so what it writes takes one off.  `Capped`: the set of
  open positions is finite, and while a handler is between the gate and the
  order there is room for one more; `FewerOpen` and `OneMoreOpen` compare the
  cardinalities, which is why the model keeps the positions as a set
  (`Positions`) and counts it.  `Offered`: a button exists for published rows only
  and what is being submitted is still open and without ticket, because the
  handler runs to its end before the next update.  `Delivered`: the updates of a
  batch follow the offset, and all below the offset are answered but for the
  one the handler has; the acknowledgement, sent with the next poll, is behind.
* `RiskGate`, `PositionSizing`.  The caps are tested for one order against the
  book it joins; `EnterKeepsCaps` and `CloseKeepsCaps` carry them over to the
  book as a whole with the cardinalities of finite sets (`AddToBook`,
  `TakeFromBook`) and the symmetry of correlation (`PeersSymmetric`).
  `LosingRunBounded` is inductive with the cap on the number of positions: the end
  of a position at the terminal turns an open one into an unbooked one, booking
  that one adds at most one to the streak, and an order passes with the streak
  below its limit, the book below its cap and `behind` at least what is unbooked.
  `RiskWithinMax` rests on `RoundingAtMostDoubles`: a size that rounds to a step or
  more at most doubles what was planned, `max_risk_per_trade_pct` is at least
  twice `risk_per_trade_pct` and the default contract is never smaller than the
  true one; without either (`PolicyAssumption`, `ContractsAssumption`) it is false.
  The conversion into the account's currency comes last, a factor that is one at
  most but for currencies dearer than the account's (`Worth`).
* `SignalLevels`.  Assumptions: a positive number of units per tick, prices
  integers and ATRs divisible by ten, a positive minimum reward.  `LevelsInv` keeps, next to the signal, the
  inequalities between the chart and the rounded levels that `Distances` gives;
  `DistanceBounds`, `NearestIsTick` and `StopIsAway` are the arithmetic.  The three
  properties are consequences of it.
* `SignalRules`.  Assumptions: the views are of the type the engines return, the
  thresholds integers.  A decision is none or that of the view it was taken on
  (`RuleInv`).  Mirroring a view mirrors its direction (`MirrorDirection`) and what
  points its way or against it (`MirrorPointing`); every gate then answers the same
  (`MirrorGates`) and every term of both scores is equal (`MirrorScores`).  For
  `ConfirmationNeverHurts`, each of the five confirmations leaves direction, gates
  and the best zone as they were or better (`ConfirmedGates`, `ConfirmedZone`), the
  match is taken from more candidates, and rounding and clamping are monotone
  (`RoundedMono`, `ClampMono`), so the confidence is too.
* `Detectors`.  Assumption: `ContextsAssumption`, contexts of the type the engines
  fill, at least four bars with open and close between low and high.  `Flip` reflects
  a bar: highs and lows change places, bodies and wicks keep their length, so each
  bullish candle pattern of a bar is the bearish one of its reflection
  (`FlippedPatterns`).  `MirrorExtremes` carries the RSI's minimum over to its
  maximum, `MirrorTotal` adds up the seven factors.  A sideways higher timeframe is left out: there the macro point
  goes to SELL on both charts (`SidewaysHtfIsNeutral`).  The one place where code looks
  upwards first is the range breakout; it does no harm because of two breaks the
  earlier one is a trap (`OneBreakout`), for which the first break must exist
  (`FirstBreak`, from the least element of a set of naturals, `LeastNat`).
* `Publication`.  `ThrottleInv`: during a scan that could read the journal the
  throttle is still what the evidence says, because trades are only closed
  between scans.
* `Candles`.  `StepFacts` says once for all engines what the three steps have in
  common: the bars that have closed are found again, one place further left
  when the frame slid (`Moved`).
* `MarketStructure`, `IctContext`.  The frame is a non-empty sequence of bars
  (`FrameInv`).  A settled swing looks at closed bars only, which are the same in the
  next frame (`SameSwing`), so the swings before it are the same set but for those
  that left, and so are their kinds, the previous one of its kind (`SamePrevious`,
  `LastPrevious`) and its label (`SameLabel`).  For the set
  of previous swings to have a maximum it must be finite: `HasTop` gets the
  largest of finitely many integers from the fact that strict inclusion among
  finite sets is well founded, where the usual proof is an induction.
  An OTE is linear arithmetic from there: 62% of the range from one end is 12%
  beyond the middle, past the 5% that count as equilibrium.
* `FairValueGap`.  A gap's edges are fixed by three closed candles.  The bars after
  it stay, but for the newest one, which can only widen, and one may come: the deepest
  retracement goes deeper (`GapFacts`, `ImageMin`, `ImageMax`), so the fill grows
  (`GapOnlyFills`) and what is filled is not active at any ATR.
* Sums.  `Liquidity`, `VolumeProfile`, `Manipulation` and `OrderBlocks` add over sets
  and merge in a loop, which the library writes as folds.  The induction theorems
  of the library take the property as an operator, which no prover here can
  instantiate.  `FiniteInduct` and `CountInduct` take the *set of the good subsets*
  instead (or of the good numbers): a minimal bad one exists because strict
  inclusion of finite sets is well founded, and it is good by its predecessors.
  From them come existence and uniqueness of a fold (`FoldExists`, `FoldUnique`),
  `SumIsFold`, and the facts about sums: a part, an element less, more of each
  (`SumPart`, `SumRemove`, `SumMono`), two disjoint sets, a renaming (`SumUnion`,
  `SumRenamed`), and sums over bins (`SumOfBins`).
* `Manipulation`.  What a bar is compared with lies before it, has closed and moves
  along with it (`PriorMoves`, with `SumRenamed` for the mean volume), so the verdict on
  a closed bar does too (`VerdictMoves`).
* `Liquidity`.  A pool is a chain of swing prices, each within the tolerance of the
  next.  As long as its own links stay and the tolerance does not shrink, no price
  that comes between two of them breaks it: it is nearer to the upper one than
  the lower one was (`ChainsPersist`).  So the old group is part of a group, whose
  touches are a sum over more (`ChainsGrow`, `SumMono`).
* `VolumeProfile`.  Assumptions: bars of natural volume, a positive number of bins.
  Every bar falls into one bin, the last one clipped (`HistFacts`, `SumOfBins`), so the
  bins hold the whole volume.  The area takes the bins in the order of their
  volume (`AreaIsUpper`), stops as soon as 70% is reached (`AreaIsEnough`), and no
  fewer bins hold more than the largest ones (`SumOfSmaller`), hence `AreaIsLeast`.
* `OrderBlocks`.  A block that is merged leaves one of its type that is as strong
  as each of those it replaces (`MergeKeeps`); the loop of `_dedup` is a function
  on the positions of the frame (`LoopExists`), along which that is carried by
  `CountInduct`.  It needs scores that can be compared, so `ScoreIsInt`: an average
  body of zero must not be divided by, which is why a frame of bars without body
  uses the ATR as the code's guard does.
* `ModelRegistry`.  `Stored` counts: each file newer than the accepted one is
  there for a fault that interrupted a run, but for that of the run under way;
  the slice of `_prune` keeps `Keep` files and the accepted one is among them as
  long as the faults are fewer.  `Beating` says of every whole artifact that it
  was accepted, so that the fall-back to another file is harmless.
* `MainLoop`.  Assumption: `ClockAssumption`.  `NoDigestTwice` alone is not
  inductive: `DigestInv` adds that whenever a digest was sent or is about to
  be, the hour has struck, and the process that is up remembers the day.  A
  restart after the hour counts the day as served because of the boot rule.
  For the converse, `Memory` says what a process that waits for the hour
  remembers: another day than today, which needs more than one day in the week.
* `Delivery`, `NewsGuard`.  A request is under way only while the text has not
  arrived (`MessageInv`); what a fetch brought and the service still lists is in
  the cache (`NewsInv`): a fetch that fails leaves the cache as it is, one that
  succeeds replaces it by all that is listed.

Only model-checked: every liveness property (`DeadTradesAreCut`,
`EveryTapAnswered`, `EarnsItsWayBack`, `DeadFeedIsAlerted`), because fairness is
beyond the prover.  Every other property of the passing runs is a theorem.  Of
the further properties listed in section 3 most are model-checked only, those of
`Metrics` among them.

## 6. What is left out, and the plan

Abstractions.  Prices are ticks and lots hundredths, as integers; rounding is
modelled where a decision hangs on it (lots, levels, scores) and left out where
it only changes a displayed figure (result_r to two decimals, averages).  Where
binary floating point can go either way the model has both outcomes.  An
engine's ATR is a rolling mean in the code and a free field of the newest bar in
`FairValueGap` and `Liquidity`, so it may move in any way between two passes.  Texts,
charts, logging and statistics commands are left out.  The shadow account of
the dry-run modes is the risk gate on journal rows.  The slippage unwind of
`ExecutionEngine` is left out because `Runtime` builds the engine without caps.

Order of the work: (1) the trade from signal to close, because real money and
the journal hang on it: `TradeOutcome`, `BrokerSync` with the restart that falls
back to the paper broker, `OrderEntry`; (2) the gates in front of it: `RiskGate`,
`PositionSizing`, `SignalLevels`, `SignalRules`, `Detectors`, `Publication`; (3) what
runs around it: `MainLoop`, `ScanHealth`, `NewsGuard`, `Delivery`, `ModelRegistry`; (4)
the engines and the second implementations: `MarketStructure`, `IctContext`,
`Liquidity`, `FairValueGap`, `OrderBlocks`, `Manipulation`, `VolumeProfile`, `Replay`,
`Metrics`.  These are written, and every safety and action property that a passing run
checks is proved.

Next:

1. Compose `OrderEntry` with `BrokerSync`: two positions of one signal after a
   redelivered tap, followed by the row's single ticket.
2. The walk of the backtester over a whole series (which setups it skips while
   a trade runs) and the calibration table of the metrics.
3. The composition of the engines with `SignalRules`: `Manipulation`'s traps and
   `IctContext`'s halves are inputs that `SignalRules` ranges over completely, so
   only combinations that no chart has would be excluded.
4. Proofs: that two portfolio figures of `Metrics` are their definitions
   (`DrawdownIsWorstFall`), with the theory of sums that is there; the further
   properties of the engines (`UsedStaysUsed`, `StructureMirrors`).
