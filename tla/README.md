# A TLA+ model of tickwright

tickwright is an event-driven trading engine: one asyncio process per venue, strategies that
publish signals on a bus, an execution manager that turns them into orders, a venue adapter, a
reconciler that repairs what messages lost, and a store a restart rebuilds everything from. Its
promise (`docs/agents/invariants.md`, ADR-0002, ADR-0008, ADR-0011) is that correctness never
rests on delivery: a crash, a lost answer, a duplicate or a stale read may delay an order's saga
and never corrupts it. This directory states that promise as TLA+, checks it with TLC on small
instances and proves what matters most with TLAPS for every value of the constants.

Paths below are relative to the repository root, code under `src/tickwright/`.

## 1. Inventory

| Part | State | Operations | What is hard | What makes it right |
|---|---|---|---|---|
| Order saga (`domain/order.py`) | state, applied ids, quantity, cancel marker, oid | `apply`, `record_fill`, `request_cancel` | duplicates, late facts | legal moves only, each fact once, terminal is final |
| Execution manager (`engine/execution.py`) | none of its own | `_place`, `_cancel`, `_cancel_all`, `_apply_status`, `_apply_fill` | it awaits the venue in the middle of a handler | write-ahead, placed once, announced after durable |
| Checkpointer, cache (`engine/checkpoint.py`, `cache.py`) | order rows, memory projection, seq high water | `checkpoint`, `checkpoint_fill`, `recover` | crash between two writes | memory equals rows outside the send |
| Reconciler (`engine/reconcile.py`, `ghost_gate.py`, `absence.py`) | misses, grace clocks, unreadable spans | startup, in-flight and open-order passes | stale reads, lost answers, slow sends | no verdict the venue contradicts; every lost order is found |
| Startup barrier (`engine/barrier.py`) | none | `run`, `_attempt` | failed reads, re-drives | no trading before every intent is proved |
| Buses (`adapters/bus/`) | queue, held publishes, drain ledger | `publish`, `drain`, `_poll` | reentrant publish, faults in a cascade, redelivery | order per drain, at least once |
| Hyperliquid exchange (`venues/hyperliquid/exchange.py`) | last sums of shrunk orders | `place`, `cancel`, `fetch_order` | unanswered sends, short fill reads | reports only what is known |
| Strategy host, emitter (`engine/strategy_host.py`, `domain/emitter.py`) | strategies' snapshots, tick gates, seq counter and record | callbacks, `place`, `cancel`, `cancel_all`, `start`, `stop` | snapshot, signal and offset are three writes | a seq, a step, a cancel happen once |
| Runner (`engine/runner.py`) | lifecycle state, account gate | start sequence, cadences, teardown | partial start, partial teardown | ordered start and stop, fault stops all |
| Guard (`engine/guard.py`) | rate window, kill switch | `check` | order of check, count, persist | no approved set of orders passes the cap; a halt holds |
| Portfolio, ledger (`engine/portfolio.py`, `domain/position.py`, `account.py`) | positions, cash, buckets, watermarks, marks | `apply_fill`, `apply_funding`, `apply_heal`, `_ingest_collateral` | replays after a crash, stale reads, averages over flips | every trade and payment booked once; money conserved |
| Valuation (`domain/valuation.py`) | none | `account_valuation`, `account_view`, `position_view` | unknown terms, grains that must match | figures are right or unknown |
| Ledger reconciliation (`engine/ledger_reconcile.py`) | drift observations | `classify`, `materialise_account`, `reconcile_account` | snapshots read amid fills | heals drift, never delay |
| Exit runs (`engine/exit_run.py`, `flatten_split.py`) | attempt state | cancel all, flatten | retries against a moving account | ends flat or says why not |
| Paper venue (`adapters/paper/`) | book in memory, unapplied fills, funding clock | `place`, `cancel`, `on_tick`, `run_funding` | restart of an in-process venue | trades neither lost nor repeated |
| Hyperliquid feed, funding, ingress | conflation slots, watermarks | websocket sessions | reconnects, wake-ups | newest value, each payment once |
| Hyperliquid preflight (`venues/hyperliquid/preflight.py`) | none | mode gate, leverage pushes | lost answers, a window that closes | traded only when aligned; a held symbol never written |
| Stores, codecs, composition root, observability | rows | SQL, parsing, wiring, logs | I/O | a write is atomic |

How they interact: strategies, the exchange adapter and the reconciler *publish*; the bus
dispatches one event at a time and holds what a handler publishes until that handler returns; the
execution manager is the only writer of order rows and calls the venue directly; the reconciler
calls the venue directly too and publishes what it learns as synthetic reports, so that every fact
takes one path. `PROJECT.json` lists every part with its status, and every place where the code is
hard to test under `hazards`.

## 2. Modules

| Module | Models | State |
|---|---|---|
| `OrderSaga` | `domain/order.py` as pure operators | none |
| `SagaEngine` | the order path of a live engine, end to end | see below |
| `SagaProperties` | what `SagaEngine` must guarantee | |
| `OrderContract` | the abstract promise of the order rows | a row's state and quantity, the market's truth |
| `MCSagaEngine` | the instances TLC checks | |
| `SagaEngineProofs` | theorems about `SagaEngine`: types, placements, durability and bookings; its verdicts and the venue, `OrderContract`; the startup barrier | |
| `KafkaBus` | `adapters/bus/kafka.py` with `drain_ledger.py` | see below |
| `KafkaBusProperties`, `MCKafkaBus`, `KafkaBusProofs` | its properties, instances and theorems | |
| `Ledger` | the live ledger and its account reconcile: `portfolio.py`, `position.py`, `account.py`, `ledger_reconcile.py`, the ledger half of `checkpoint.py`, `funding.py` | see below |
| `LedgerProperties`, `MCLedger`, `LedgerProofs` | its properties, instance and theorems | |
| `StrategyHost` | one strategy over Kafka: `strategy_host.py`, `emitter.py`, the seq records and the seq high water, `_place`, `_cancel` and `_cancel_all` as the strategy's signals meet them | see below |
| `StrategyHostProperties`, `MCStrategyHost`, `StrategyHostProofs` | its properties, instance and theorems | |
| `Guard` | `engine/guard.py` as pure operators | none |
| `PaperVenue` | the paper venue, its funding and the guard between the signals and the rows, on either bus: `adapters/paper/`, `engine/guard.py`, the rows' and fills' path of `execution.py` and `reconcile.py` | see below |
| `PaperProperties`, `MCPaperVenue`, `PaperInvariants`, `PaperProofs` | its properties, instance, inductive invariants and theorems | |
| `FlattenSplit` | `engine/flatten_split.py` as pure operators | none |
| `ExitRun` | `engine/exit_run.py` over a live venue, with the account passes and reads it makes | see below |
| `ExitProperties`, `MCExitRun`, `ExitProofs` | its properties, instances and theorems | |
| `FoldFacts` | what a fold over a sequence is, for the proofs about lists | |
| `LiveFeed` | `venues/hyperliquid/session.py`, `ingress.py`, `feed.py` | the session, its socket, the buffer |
| `Preflight` | `venues/hyperliquid/preflight.py` | the account's mode and leverages, what is still to push |
| `Runner` | `engine/runner.py`, `barrier.py`, `cadence.py`, with `LiveFeed` and `Preflight` under it | see below |
| `RunnerProperties`, `MCRunner`, `RunnerProofs` | its properties, instances and theorems | |
| `Valuation` | averages, buckets, funding split and figures: `position.py`, `portfolio.py`, `valuation.py` | see below |
| `ValuationProperties`, `MCValuation` | its properties and instance | |

### SagaEngine

| Variable | In the code |
|---|---|
| `store` | the order rows (`Store.checkpoint_order`, `checkpoint_ledger`) |
| `cache` | `Cache` and the saga objects the handlers hold by reference |
| `venue`, `wire`, `reply` | the venue, the requests not yet processed, the answer on its way back |
| `handler` | the dispatch the bus's drain is suspended in: `_place` in its send or in the read of the fills behind it, `_cancel` in its send |
| `queue`, `outbox`, `drainer` | `InMemoryBus._queue`; what the task that started the drain has still to publish; which task that is |
| `phase` | not running, barrier not cleared, running |
| `misses`, `armed` | `ConsecutiveMisses` and `GraceWindow` per cloid |
| `reads`, `proved` | the `fetch_order` a pass is suspended on, and whether the order's placement was on the wire when it began (`racing`, history); the orders the startup pass has proved |
| `hasty` | history: the orders failed on such a racing read |

Everything between two awaits is one action, as asyncio runs it. The points where other tasks run
are the venue calls: `_place` in its send (`PlaceSent`, then `PlaceAnswered`, `PlaceFillsRead` or
`Unanswered`), `_cancel` in its send, and each pass in its read (`ReadStart`, then `ReadAnswered`
or `ReadFailed`). While a handler is suspended the drain is too: what a cadence publishes then only
queues (`PublishAll`), and the cadence goes on before its own reports have been applied. When the
bus is idle a publish drains first, so the cadence's next publish, and the ghost gate it asks after
the healed fills, come after those fills applied (`outbox`, `PublishNext`, the `judge` mark).

An illegal move of a saga is `Fault`: `InvariantViolation` propagates out of the drain and the run
stops. `Crash` is a kill at any moment; a supervisor's restart (`Restart`) rebuilds memory from
the rows. `Redeliver` is the contract of `EventBus`: a signal or a report that was dispatched may be
dispatched again, in the same life or a later one.

The venue takes a placement and rests, part fills, fills, rejects or refuses it, fills an open order
one lot at a time, cancels on request or on its own, and may drop the record of an ended order
(`Forgets`), keeping the fills under the oid. A request, or its answer, may be lost or late. The
venue's steps are taken only where a task of the engine could see them (`VenueMayAct`): within a
stretch without awaits no step of the engine reads the venue, so they commute with it.

### OrderContract

The rows promise, with neither bus nor memory nor reads nor crashes: an order has a row before it
sets out (`SetOut`), lands at most once, its row moves along legal transitions, books each trade at most
once and none that did not happen, and enters an end state only with the market fact that proves it.
There is one exception, and the contract names it: while an order is coming its fate may be asked for
(`FallDue`); it is then overdue, until the question is dropped (`Relent`), and an overdue order may be
failed, and land afterwards all the same. `ImplementsContract` maps `saga` to the rows, `market` to the
venue with `coming` for a placement on the wire, and `overdue` to the orders of racing reads and `hasty`.

### KafkaBus

`log` and `committed` are the broker's, `wrote` stands for what handlers save (a strategy's
snapshot, a row): an event is in it once its handlers' writes have landed. `position` is the
consumer's, `produced` and `done` are the two maps of `DrainLedger` (a record is counted from 1, so
`record_committed(p, offset)` stores `offset + 1` in both), `held` is `_held`, `fault` is
`_dispatch_fault`, `stage` and `current` are where `_poll` is, and `pub[r]` is where the task that
publishes root `r` is: `Send` (the record lands), `Sent` (`send_and_wait` returns and
`record_produced` runs; the poll loop may have dispatched the record before), `DrainReturns`.
`_poll` is `GetOne`, then the dispatch as two steps, what the handlers publish and what they write,
then one `FlushHeld` for each held event and `Commit`. `DispatchFaults` is the `except` branch, at
any of those points. `commit()` names no offset, so the client commits its position on every
partition (external; the repository's own fake consumer does the same). `Restart` is a kill or a
`close` at any moment, followed by a consumer that starts from the committed offsets. A record's
handlers publish the same events at each delivery; a handler that remembers what it published
publishes less, which only weakens what the next delivery owes.

`SagaEngine` runs on the in-memory bus and takes the Kafka bus by its contract (`Redeliver`, a held
publish, one dispatch at a time); `KafkaBus` is where that contract is checked. The two are not
composed: the product of their states is out of TLC's reach.

### Ledger

| Variable | In the code |
|---|---|
| `when`, `venue` | the instants at which the venue booked each fact, and the account its next answer reports |
| `row` | the account row, the positions, the funding marks and the order rows' applied ids, in memory and in the store |
| `up`, `linked`, `inbox` | the process; `FundingIngest`'s subscription; the batches of payments read from it and not applied yet |
| `touched`, `previous` | `LedgerReading.filled_since`; `LedgerReconciliation._previous` |
| `pass` | where `reconcile_account` (or the barrier's `materialise_account`) is: in its account read, at its comparison, in its mode read |
| `books`, `lagging` | history: how often each fact was folded; what the last pass compared out of step |

A fact is a trade of the engine's (`Fills`), a trade or transfer nobody here made (`Foreign`), or a
funding payment. The venue books it at once (`VenueBooks`); the engine learns of its fills later, by
a report that may come any number of times (`ApplyFill`, from any of the paths `SagaEngine` models),
of payments through the socket (`Connect` brings them all again, `ApplyPayment` takes them in the
order of their boundaries), of foreign facts only by reconciliation. A fold and the write behind it
are one action, because `checkpoint_fill`, `checkpoint_funding` and `checkpoint_heal` have no await
between them; the account read and the mode read are where other tasks run (`ReadStarts`,
`VenueAnswers`, then `Materialise` or `Judge`, then `ModeAnswers`). The heal plan is
`ReconcileFindings.classify` translated figure by figure: `SizeHeals` and `CashHeals` are what is
confirmed by the last pass, not touched by a fill and priced, `Forgotten` what the next pass must
not count as seen.

Prices, quantities and money are small integers; a position keeps its cost basis instead of its
entry price, so that averaging needs no fractions (in the instances every division is exact). The
ledger's account is taken over by `Materialise` as the venue's cash, which is what `venue_cash`
computes from the snapshot.

`SagaEngine` decides when a fill report is applied and `Ledger` what it does to the money; they meet
in `ApplyFill`, which may come whenever the saga may call it.

### StrategyHost

| Variable | In the code |
|---|---|
| `topic`, `committed` | the records of each symbol's partition, ticks and signals; the group's offsets |
| `record`, `snapshot`, `rows` | the store: `seq_records`, `strategy_snapshots`, the order rows with the seq of their `cancel_signal_id` (`marker`) |
| `nextSeq`, `mem`, `gate` | `SignalEmitter._next_seq`; what the strategy remembers; `high_water` of `_subscribe` |
| `phase` | before or after `barrier_has_cleared` and `host.start`, which nothing separates |
| `stage`, `current`, `held` | where the poll loop's dispatch is, on which symbol, and what its callback published |
| `todo`, `batch` | the cancel markers still to be written; the orders of the one send behind them |
| `sends`, `forgot`, `lives` | history: cancels sent, a snapshot that would not restore, lives ended |

The strategy follows a script, as the repository's own examples do: a step remembers that it was
taken, then emits its signals (`SingleShotStrategy.on_tick`), or some of them and raises an error the
host contains. A dispatch is one record: a tick is dropped by the gate or heard (`TickHeard`, then
`Persist`), a signal is placed, denied, known, or marks rows and sends cancels; then the held signals
are sent one by one (`FlushHeld`) and the offset is committed (`Commit`). Each of these is a step a
kill may follow, and so is each row of a cancel-all. `TornDown` is the teardown whose `host.stop` saves
once more, but not before `start` has restored something. A refused seq or snapshot write is a fault; what
follows it is `TornDown` or `Killed` in the same place, and what a commit after a fault covers is
`KafkaBus`'s question. `SagaLearns` is the whole of `SagaEngine`, cut down to what a cancel depends on:
an open order ends only if it does not rest at the venue.

The seq record is what lets the two halves meet: `RaiseSeq` writes it before a publish and again when
a cancel-all is handled, `HighWater` folds it with the rows, `Start` numbers the next life from it.

### Guard and PaperVenue

`Guard` is `RealGuard.check`, check by check: what refuses, in which reading, and what an approval
leaves in the rate window (`AfterApproval`). `PaperVenue` puts it in front of the venue.

| Variable | In the code |
|---|---|
| `rows`, `own`, `halted`, `watermark` | the store: order rows, the strategy's partition, the kill switch, the funding marks |
| `queue`, `held`, `dispatched` | the bus: what is published and not committed, what the dispatched record's handlers published |
| `venue` | `PaperExchange`: its book, its counts of fills, `UnappliedFills`, the statuses it knows |
| `tripped`, `approved`, `settled` | `RealGuard`; `run_funding`'s `settled_through_ns` |
| `phase`, `unproved` | the process; the open orders the startup pass has still to read |

The venue lives in the engine's process, so no handler awaits anything outside it: a handler is one
action, and a kill comes between handlers, between the row and the send of a placement
(`CrashInPlace`), between the two writes of the kill switch (`CrashInSwitch`), or, on Kafka, between
any flush and the commit behind it. In memory what was published dies with the process; on Kafka it is
delivered again. `start()` rebuilds the book from the rows (`Restart`), with a reduce-only order at
the smaller of its open part and the position, as the code does.

### FlattenSplit and ExitRun

`FlattenSplit` hands one fill of a flatten order out over the partitions, lot by lot to the one
furthest behind. `ExitRun` is one flatten after another over one account: trip the switch, cancel what
rests (once, and once more for what a read still shows), then one loop per symbol, all at once, and the final read.

| Variable | In the code |
|---|---|
| `pos`, `orders` | the venue's positions; each order's row and what the venue holds of it |
| `books` | what each partition holds |
| `main`, `cancels` | where `Flatten.run` is; `OperatorCancelAll`'s rounds |
| `loop`, `turn` | where `_flatten_symbol` is, with its dry attempts; the loops that hold a turn (`_Turns`) |
| `account` | the account pass of `_size_gap`: its snapshot, what a fill touched since, what was seen before |

A close is on the wire, at the venue, or over; its answer may be lost, its fills listed late, its
order shrunk by the venue to the position it may close. The operator may trade by hand meanwhile. A
crash at any step starts a new run over the rows that are left. What is left out: durations (a wait is
a disabled step), the prices of a close (folded into a failed attempt), fees, the admission of a run
(`Runner` has it). The fills of one read are booked in one go, a pass over the orders is one step, and
a close's row stores the split its stored sizes give. `bus.drain` is no step: the run's own publishes
drain themselves. A request on the wire lands or is lost before the boot's reading, and before its
budget of misses ends (ADR-0011, invariant 7).

### LiveFeed, Preflight and Runner

`Runner` is `Engine.run` from the store's lock to the exit code.

| Variable | In the code |
|---|---|
| `at`, `step`, `released` | where `run()` is; the barrier's or the teardown's step; its seam released, its task not ended |
| `gate`, `cleared` | the account gate, the startup barrier |
| `bus`, `log`, `handling`, `poison`, `waiting` | the bus: what is published and not handled, the handler at work, an error no drain has raised, the publishers still waiting |
| `tasks` | the supervised tasks, all of which may publish |
| `stopReq`, `outcome`, `fault`, `done`, `code` | the stop, what the exit job reported, the fault, the teardown steps that succeeded, the exit code |
| `session` ... `delivered` | `LiveFeed`: the session and its socket, the reader, `ConflatingIngress`, the drain |
| `account`, `guard`, `unpushed`, `spent` | `Preflight`: the venue's account, where the alignment is, the leverages still to push, whether the window's budget is gone |

Any step of the start may fail or be overtaken by a stop, any task may raise, any teardown step may
fail; the teardown of a stop is the start reversed, that of a fault is best effort. `acted` remembers
whether this process placed an order. A cancel that ends a task which is delivering a cascade in memory
drops the rest of that cascade with it (`CutCascade`). What is coarser than the code: the
partitions' queues are one FIFO; what a handler publishes is part of its handling; the exchange and the
cadence loops are publishers; a budget is spent or not; leverages are pushed in any order (the code
sorts them); connect and subscribe are one step. Cancels of an earlier life's signals do not count as
`acted`; the replay feed is not modelled.

### Valuation

| Variable | In the code |
|---|---|
| `book` | `PortfolioProjection._positions` (each partition's `Position`), the order they were filed in, and `Account.cash` |
| `marks` | `_marks`, gone with the process |
| `owner` | which strategy trades a symbol in this life (`SymbolOwnership`) |
| `venue`, `unread` | a live venue's position and bucket, the fills on their way |
| `snap`, `touched` | the account read the cadence holds, the symbols a fill touched since |

`Booked` is `Position.apply` with `_book`'s four regimes and `_lock_isolated_collateral` behind it;
`Reconciles` is `apply_heal` with `_ingest_collateral`: a partition the heal opens is filed by
`project_heal`, after the buckets are taken, so its bucket stays unknown until the next pass. `Funds` is
`apply_funding` with `_split`;
`Restart` brings the rows back in the order of their owners' names, which is what moves the residue of
a share. The figures (`Equity`, `MarginUsed`, `LiquidationPrice`, ...) are `domain/valuation.py` term by
term, `None` included; a liquidation price is kept as a fraction, so that a level can be compared
exactly. Integers that round down stand for decimals that round; prices are multiples of 60, so that
the means and margins of the instance are exact and only the shares round. Every symbol has a spec. Left
out: a live liquidation price, which is the venue's number read through; the effective leverage; the own
slice of a view. When a fill, a heal or a payment is let in is `Ledger`'s question: here a read and its
answer are one step, and a heal may be of any gap no fill is on its way for.

## 3. Runs

| Run | Question | States | Result |
|---|---|---|---|
| `saga` | one order of two lots, its cancel, two crashes, one redelivery, a venue that may drop the record of an ended order | 1,941,593 | holds |
| `settles` | fairness: does every ended order get a terminal row | 12,964 | it does |
| `kafka` | two publishers, two partitions, one cascade, faults, refused commits, two kills, under fairness | 13,674 | holds |
| `strategy` | two ticks, four signals, any two mishaps (kill, teardown, repeated tick, strategy error, failed restore) | 1,045,534 | holds |
| `ledger` | a fill, a foreign trade, two payments, account passes, one crash or lost connection, under fairness | 227,252 | holds |
| `paper` | orders, cancels, ticks, funding, the halt and the rate cap on both buses, with a kill | 3,411,688 | holds |
| `exit` | flatten over partitions of both signs, foreign orders and positions, lost and late answers, thin books, a crash, two symbols, under fairness | 40,232 | holds |
| `runner` | normal and exit runs, in memory, over Kafka and live, with a mishap at any step, under fairness | 319,970 | holds |
| `valuation` | opens, adds, reduces, flips, heals, funding, stale reads, top-ups and a restart, on paper and live | 1,500,900 | holds |
| `crossed_ack`, `paper_ghost`, `exit_unread` | what the documents promise and the code does not | | violated, section 5 |

Properties and what they would catch:

- `NeverPlacedTwice`: the write-ahead and the dedup by cloid, over crashes and redeliveries at every
  point.
- `MemoryIsDurable`: a crash forgets nothing; memory is ahead of its row only in `_place`'s send.
- `AnnouncedIsDurable`: no strategy has seen an event a restart would not know.
- `BookedOnce`: replays of the fill history, duplicates and crashes never book a trade twice.
- `TerminalAgreesWithVenue`, `EndedOrdersAreHealed`: whatever reads, answers and verdicts cross, a
  terminal row says what happened, with every trade booked unless the engine cancelled it itself. One
  verdict may be untrue, and the property says which: `FAILED`, on a read that began while the placement
  was still on the wire (section 5). Such an order may land, rest and trade under its `FAILED` row.
- `BarrierProvesAll`, `OpenSagasSettle`, `ImplementsContract`: no trading before every intent is
  proved; lost answers are found; the rows implement `OrderContract`.
- `CommittedIsFinished`: no kill loses a record, or an event it gave rise to, behind an offset that
  is committed already. It is stated until a fault is raised, because it fails after (section 5).
- `ReturnedIsDelivered`: a `publish` that returns has had its whole cascade delivered, or dropped by
  a fault, though other tasks publish and drain beside it and a backlog stands before it.
- `DrainsEnd`, `LandedIsDelivered`: the two counts of the ledger always meet, whatever order the
  produce and the commit of a record are counted in; every record is delivered in some life.
- `BookedOnce`, `MarksCoverBooked` (ledger): each trade and payment enters the books once, over
  snapshots that bring everything again; one boundary per symbol is enough to tell what has been.
- `HealsWaitForFacts`: a pass never corrects a figure for a fact that is only on its way, however
  the read, the fill and the payment interleave.
- `HealsReachTheVenue`: sizes and cash land on the snapshot's, with PnL that the size heal realizes
  and a fill folded while the mode is read.
- `LedgerConverges`: every disagreement heals once the venue rests, and none is manufactured.
- `SeqNeverReused`: signals left in the topic by a crash, and cancel-alls that left no row, keep their
  seqs from the next life.
- `StepTakenOnce`: no cut between save, send and commit makes a strategy that remembers do a step twice.
- `CancelAllReachesEarlier`, `CancelAllLeavesNone`: a cancel-all, cut and delivered again, reaches
  every order sent before it and none sent after.
- `WithinCap`: no order in which what is open and in flight fills takes the position past the cap,
  though each approval saw only its own moment. It supposes that the other partitions alone are within
  the cap (`HoldingsFit`): a reduce-only order skips the cap, and shrinks its own worst case only.
- `ReduceOnlyReduces`: a fill of a reduce-only order shrinks the net it is applied to, whatever fills of
  other orders are queued ahead of it and not in the store yet.
- `BookMatchesRows`: once reports are handled, the venue's book and the rows agree, over partial fills,
  cancels racing fills and the rebuilt book of a restart.
- `FundingIsExact`: each boundary is charged once and in order, over redelivered ticks, jumps of the
  clock and restarts, and not for the time the process was down.
- `HaltHolds`: once a trip has returned nothing is placed until a reset, through crashes between the
  switch's two writes.
- `OneCloseASymbol`: no two closes of a symbol can both trade, though an answer was lost, a pass
  failed or an earlier run crashed.
- `DoneIsFlat`: a run that says done left every strategy flat on the symbols it had a loop for, and no fill
  there that a later life would book. Without a loop a fill may stay unbooked (`exit_unread`, section 5).
- `ClosesOnlyShrink`: no piece of a close's fill takes a partition past zero, whatever the account
  passes booked since its basis was read.
- `LeftoverMovesLast`: what the splits left is moved only when no row of the symbol is open.
- `RunEnds` (exit): dry attempts, shrunk orders and lost requests all end; nobody waits for a turn for
  ever.
- `PublishersEndFirst`: in every teardown, nothing publishes behind the drain's mark and the store
  closes under no handler, whatever step failed before.
- `ExitCodeIsTrue`: a 0 means nothing was left undone, a 2 that this process placed nothing.
- `BootAligns`: the venue is traded only when aligned; a held symbol is never written, one
  disagreement means that nothing is, over lost answers and a closing window.
- `RunEnds` (runner): no step of the start waits on a handler that waits on that step; every stopped or
  faulted run ends.
- `FeedKeepsUp`: no wake-up between the reader and the publisher is lost over reconnects.
- `BooksBalance`: the average-cost lines hold exactly the money of the trades, through adds, reduces,
  flips, heals, split funding and restarts; and an equity is reported only if every term is known.
- `BucketIsTheVenues`: a live bucket is unknown from a fill until a read has shown the position, and
  then the venue's to the last unit however it is shared.
- `LevelsAreTrue`: at a reported liquidation price, whatever the mark it was read at, the backing is
  exactly the maintenance of the same pool; and an isolated bucket is ring-fenced.

### Bounds

`Lots = 2` gives whole, part and no fill, and a second fill after a stale read. `MissLimit = 2` has
a miss that is not the last. Two crashes cut one placement and the recovery from it; one redelivery
meets every state of a saga. `MaxBacklog = 2` lets a read start only behind at most two queued
messages: the code has no such limit, but a drain suspended in one send cannot see its queue grow
without bound in a model that terminates; two let a pass's reports mix with an answer's and with
another pass's. `settles` has `MaxBacklog = 1`, since the graph of a liveness check grows faster: a read that
starts behind two messages only adds reports to a queue that is drained all the same, and the safety run
has it. A placement may stay on the wire for as long as a behaviour lasts, over any number of reads and both
crashes. One order suffices for the per-order properties because no handler touches the state
of two. What does relate them, the barrier, the shared drain and the cadences, which read one order while
another one's send suspends the drain, is not left to this instance: the theorems of `SagaEngineProofs`
hold for every set of orders.

For the bus: two roots on different partitions, of which one has a child on the other's partition,
let a cascade's commit cover a stranger's record, a drain wait for another's cascade and a fault be
taken by the wrong publisher; two kills let a redelivered record be cut again.

For the ledger: the foreign trade closes what the fill opened, or opens the other side before it, so
that heals open, close and flip the unattributed partition; two payments make a batch with an order
and a snapshot that holds one of them twice; one break is a crash or a lost socket, wherever it
hurts. No two sets of amounts have the same sum (fee 1, 3, payments -27, 81, prices 100 and 300):
equal gaps may confirm each other falsely, which the code accepts (docstring of `_Finding`,
`ledger_reconcile.py:255-262`) and `HealsWaitForFacts` would report. One instrument is enough for
what the properties ask, since symbols meet only in the cash line.

For the strategy: its first step places and cancels, its second clears the symbol and places anew, so
that a cancel-all meets an order an earlier cancel marked, one it must not reach, and rows that a cut
delivery has half marked; two mishaps are two kills, or a kill and whatever a life can suffer beside it.
Two strategies share no symbol, seq, snapshot or row (`SymbolOwnership`), so one stands for all.

For the paper venue: an instance is the sum of eight budgets, each with the actors one hazard needs
(two orders racing a tick, a cancel racing fills, a kill with orders and with a cancel, the halt with a
kill, the rate cap, funding), over six signals that differ in side, kind and size, two prices and two
holdings of the partitions. Three time units are three boundaries, passed one by one, in a jump, or while
the process is down.

For the exit run: eight scenes, among them partitions of both signs (so that the smaller side moves
against the fill), a strategy's and a hand's resting order, a position the books do not know, four
failures in a row (one more than `GiveUp`), and two symbols of which one has a gap to heal while the
other's close is in doubt. Two crashes would only repeat a boot over the same rows.

For the runner: each scene is one run, with a mishap that may be anything anywhere, and two where a
second one can meet the teardown of the first; two streams, so that a superseded row moves behind
another; two symbols, one held; stores that are held, broken, new, or of another account.

For the valuation: three fills give open, add or reduce, and flip; two owners (by a restart) and the
unattributed partition give three shares with a residue; two account reads, one of them older than a
fill; one top-up between them.

### Assumptions

- The venue lists a record's fills completely, except right after a placement (`PlaceFillsRead`),
  where a short or failed read is possible.
- Fairness (`FairSpec`): the drain and the adapter's resumption run when they can (`WF`), the
  supervisor restarts a stopped engine (`WF`); the barrier is re-driven, each request leaves the
  wire, and a cadence comes back with a readable answer again and again (`SF`, since a suspended
  drain, another read or a failed read may disable each in between). A venue that never answers
  again is outside: the code then freezes, as ADR-0011 invariant 1 wants.

- Fairness of the bus (`FairSpec`): the poll task, and a task whose send or drain may go on, run
  when they can (`WF`). A commit the broker refuses ends
  the poll loop (section 5), and the liveness properties say so.

- Fairness of the ledger (`FairSpec`): the engine restarts, the socket reconnects and what was
  delivered is applied (`WF`); account reads come back with an answer again and again, and the mode
  is verified again and again (`SF`, since a read may fail or a crash cut it). `LedgerConverges`
  leaves out a size whose venue position is closed: the venue posts no price for it, so
  `classify` holds it and the cash line back for ever (`unpriced`).

- Fairness of the exit run (`FairSpec`): the event loop runs every task that can go on, and a request on
  the wire arrives or is lost (`WF` each). The venue owes no trade, and the operator's hand nothing.

- Fairness of the runner (`FairSpec`): the boot's steps, the alignment's requests, the bus, the tasks
  and the teardown go on when they can (`WF`). Nothing obliges a venue to publish, a task to fault or an
  operator to stop the run; refused connections are bounded by `hangups`.

## 4. Proofs

`SagaEngineProofs` proves for every set of orders, order size, miss limit and bound, whether or not
the venue forgets, under `SagaEngineAssumption`:

`TypeCorrect`, `PlacedAtMostOnce`, `RequestsWrittenAhead`, `MemoryMatchesRows`,
`AnnouncementsSurvive`, `TradesBookedOnce` (each `Spec => []P`) and `TerminalRowsStay`
(`Spec => [][...]_vars`).

None of these invariants is inductive alone. `IInv` adds to `TypeOK`:

- `Traffic`: whatever is queued, held, delivered or read speaks only of trades that happened, so
  that handling it can book only those;
- `VenueSound`: what is at the venue or on the wire was sent, and a row exists for it;
- `Sent`: a cloid that was sent is known to the store, and to memory while the engine runs, which
  is why a redelivered place signal is recognised;
- `Stopped`: a stopped engine has no suspended handler;
- `MemoryIsDurable`, `AnnouncedIsDurable`, `BookedOnce` themselves, which need each other: a
  restart copies the rows to memory, so what memory must know the rows must.

The proof goes action by action: a `...Typed` lemma for the types and a `...Sound` lemma for the
rest, with `StatusExtends`, `FillExtends` and `CancelExtends` saying that a move of a row only ever
adds to what announced events rest on. The last three conjuncts are invariants of the `saga` run too.

Its second part proves what the order path is for, under the same assumption:
`VerdictsAreTrue` (`TerminalAgreesWithVenue`), `EndedWithEveryTrade` (`EndedOrdersAreHealed`) and
`RowsImplementContract` (`ImplementsContract`). It adds `VInv` to `IInv`:

- `PipeHonest`: everything on its way to an order, in the queue, held back behind a drain or delivered and
  perhaps to come again, is honest: what it says of the order is so at the venue, counting on no fill reports
  but those ahead of it. That is how a verdict and the fills it rests on may travel apart;
- `Rows` (each row fits its order at the venue), `Replied` (a suspended call holds what the venue did),
  `Reading` (what a read in flight may still say when it is answered, and what was graced before it) and
  `Drains` (what a cadence has still to publish).

An order's life at the venue only goes on (`Goes`), a row only follows (`Follows`), and what is honest stays
honest under both (`HonestStays`, `PipeKept`): an action has to be asked only about the messages it makes.
What a read says of an order whose placement may still land cannot be honest, and nothing in the code keeps
such a read from starting. So `PipeHonest` asks nothing of a `FAILED` about a `hasty` order, and `Reading`
nothing of an absence that a racing read found (`Sure`): `hasty` grows in the step that makes the verdict,
and stays, so what was said with it stays excused. A read that was not racing began behind the
placement's end, and what it found absent stays absent. No time-out is assumed for either.

The contract is implemented step by step: `ContractStep` maps every action to a move of `OrderContract`
or a stutter.

Its third part proves `BarrierClearsOnceProved` (`BarrierProvesAll`).
`BInv` says why a redelivered cancel cannot suspend the drain while the barrier is down: an order is
placed before anything else is said of it (`Signals`), every cancel on the bus of a starting engine was
there before (`Quiet`), and a cancel that was dispatched once finds nothing to cancel again (`Spent`). Then
what a pass concluded of a PENDING order is on its way to it in front of the clearing (`Proving`).

`KafkaBusProofs` proves `KafkaTypeCorrect`, `CommitFollowsDelivery` and `WritesPrecedePublishes` for
every set of partitions and events, every cascade and any number of restarts. `KInv` adds to the
properties `Loop` (a record being flushed has been written, and each event it gave rise to is held
or landed) and `Passed` (while no fault has happened, every record behind the consumer's position
is finished, but the one in hand): a commit covers the whole position, so the property rests on all
that was passed and not only on the record committed.

`DrainsReachTheEnd` proves `ReturnedIsDelivered`. A cascade is any set closed under what handlers publish,
so a publish that returns has to exhibit one. `RInv` says of a life, from the offsets it started at
(`Fence`): whatever it published is behind its produced counts (`Flushing`, `Publishing`), and whatever its
consumer has passed, but the record in hand, has been delivered or lost to a fault (`Delivered`). The drain
returns when the two counts meet; then what this life has passed, with what it lost, is such a set
(`IdleIsClosed`). A backlog may make the counts meet late, never early.

`LedgerProofs` proves `FactsBookedOnce` and `MarksPassNothing` for every set of instruments, owners,
facts and amounts and any number of breaks, under `LedgerAssumption` (the facts are finitely many and
of three kinds). The invariant adds to the properties `Clock` (the venue books no two facts at one
instant), `Opening` (nothing is folded before the row is open), `Replays` (what is folded is what a
replay is recognised by) and `Ahead`: an owed payment stands in the inbox no later than any later
payment of its symbol, and is there while the socket is subscribed. `Ahead` is why one boundary per
symbol is enough, and what would break if a socket sent a live payment before its snapshot, or a
batch were not sorted. A heal is shown to move only positions and cash (`HealShape`). The sums over
owners and symbols are folds over sets, which need an order of their own to be reasoned about: `TypeOK`
and the properties about amounts stay with TLC.

`StrategyHostProofs` proves `SeqsAreUnique`, `StepsAreTakenOnce`, `CancelAllsReachBack` and `CancelAllsFinish`
for every set of symbols, every strategy that emits within `StrategyHostAssumption` and any number of
mishaps. `HostInv` adds to the properties `Dispatching` (what is in hand is on the broker, uncommitted),
`Numbered` (the store's seq record is the high water of everything ever published, and a running emitter
gives the one above it), `Remembered` (what the strategy has done is in its snapshot before any of it is on
the broker, unless a restore has failed) and `Cancelled` (until its marks are written, a cancel-all knows
every order it has still to mark). A seq is unique because the record is written before the publish; the
order of seqs along a topic, which a cancel-all reads, follows from the same invariant.

`RunnerProofs` proves `AlignsOnlyWhatItMay`, `PublishersHaveEnded` and `CodesAreTrue` for every set of
scenes within `RunnerAssumption`. `BootInv` ties where the alignment is to what it has found and written.
`RunInv` ties the teardown's step to what has ended: a fault has ended every task (`Faulted`), in memory
nothing is on the bus without the publish that delivers it (`InMemory`), the feed publishes only inside its
session and task (`FeedInv`), and each step of the graceful walk comes behind the tasks before it (`Walk`),
so that a 0 can say that nothing is left (`Ending`) and a 2 that nothing was placed (`Uncleared`).

`PaperProofs` proves five results for every menu of orders, every limit, holding and budget, on either bus.
`HaltHoldsThroughCrashes` (`Spec => HaltHolds`): its invariant says that a trip that has returned is in the
store and in the memory of every process that runs, which needs the order of the two writes of
`_set_kill_switch` and the read in `__init__`; `TrippedRefuses` says what the guard does then, and
`OnlyPlacing` that no other handler moves a row out of nothing.

`FundingIsExactThroughCrashes` (`Spec => []FundingIsExact`) rests on `FundInv`: the accruals in the log are in
their order, unbooked but for one that is dispatched, and of boundaries that passed while the process ran
(`AccrualsQueued`); what was charged is in order and never past the watermark (`ChargedInOrder`); a loop that
runs starts behind everything the ledger has (`SettledPast`); and what is owed is still to be settled, in the
log, or charged (`OwedComes`). Every step but the funding loop's moves the accruals in one way (`Quietly`):
none joins, and none leaves but from the head and booked.

`ReduceOnlyAlwaysReduces` (`Spec => []ReduceOnlyReduces`) rests on `ReduceInv`, which speaks of a process that
was not killed. A view of the position is a net and the fills counted of each order. The rows have one
(`Stored`), the venue has one ahead of it (`View`), and the pending log leads from the first to the second fill
by fill (`Leads`): each fill is its order's next, and each one of a reduce-only order shrinks the net it meets
(`LogReduces`). The venue's side of it is that a resting reduce-only order never works more than the venue's
net (`Fits`), that the net counts each fill the store has not applied exactly once and the book works no
order twice (`Known`), and that every operator of the venue moves its view by just the fills it publishes.
The sums are the library's folds over sets of fills, which `SumUnfolds` and `SumSplits` take apart.

`BookAlwaysMatchesRows` and `CapHoldsThroughout` (`Spec => [](~crashed => BookMatchesRows)`, and the same of
`WithinCap`) rest on `RowsInv`, which takes one order at a time. What a row has open is what the venue still works
of the order and what it filled and the store has not applied (`InOrder`: `OpenAt` for an open row, `ClosedAt`
for one that is over). For a step to keep that, the log must speak of an order in turn: nothing behind the
status that ends it, nothing ahead of the one that begins it (`Clear`), and no beginning for a row that has
left `SUBMITTED` (`Begun`). Once nothing is pending the account is `BookMatchesRows` itself. `Capped` says that
the store's net, with all that the rows of a side have open, is within the cap; the venue's net is the
store's and the fills not yet applied, which are parts of what is open (`NetWithin`), and the log leads to the
venue's net (`LastNet`). A reduce-only order is approved past the cap, but what it shrinks moves its own
side's worst case only towards the other partitions' net, and so `WithinCap` supposes `HoldingsFit`: without
it the invariant is false, and so is the property. That an order's type is market or limit and its time in force
gtc or ioc is `PaperAssumption`, from the two enumerations of `domain/enums.py`.

`ExitProofs` proves `CloseIsAlone` (`OneCloseASymbol`), `DoneLeavesFlat` (`DoneIsFlat`) and `LeftoverIsLast`
(`LeftoverMovesLast`) for every set of symbols and partitions, every scene within `FlattenAssumption`, and
any number of failures, lost answers, hand trades and crashes. `ExitInv` says why a close is alone
(`OrdersAre`): a life keeps no row that is over and nothing on the wire without its row, behind the
cancel-all nothing rests, and so a loop that waited for its rows stands where its symbol has no order at all
(`Cleared`); the close it sends is then the only one, and stays the only one until it is booked. And `FlatIs`
says why a strategy stays flat once its loop is over: a read books only what has an order there, an account
pass moves the unattributed partition, and no other loop touches the symbol. Every action moves a symbol's
list in one way (`Moves`): each order keeps its kind, lands nowhere new, and what is over is dropped
(`KeptFollows`, `MovesKeep`).

`FoldFacts` is what that rests on. The models fold over lists with `FoldLeft`, which the library defines by a
choice over the subsets of the domain; `FoldSteps` says that the choice has a value and that the fold is the
last of n applications of its step. The step is a constant operator of the module, so a proof takes the facts for
its own step by `INSTANCE`, and induction is made over a set of naturals (`Climb`) instead of a predicate.

`WritesLandFirst` (an event a handler published is in the topic only behind that handler's own writes) is
part of `KInv` and has its theorem instead of a run.

Only model-checked:

- liveness, of every run under `FairSpec`: out of the prover's reach;
- `ClosesOnlyShrink`, which needs the sums of `FlattenSplit`'s shares, recursive functions over amounts;
- the valuation: the second half of `BooksBalance`, and `LevelsAreTrue`, hold to the last unit only where
  the divisions are exact, as they are on the instance's amounts, and are nonlinear in sizes and prices;
  `BucketIsTheVenues` sums an amount over partitions in an order that a restart sorts anew;
- `BookMatchesRows` and `WithinCap` after a kill. The theorems stop there: on Kafka a tick is delivered again
  ahead of the fill it made, and a venue rebuilt from rows makes fills that the log still holds, so an order's
  account is no longer one row against one book. `ReduceOnlyReduces` makes no claim after a kill.

## 5. Where code and documents disagree

With a run:

- **An acknowledgement crossing a read** (`crossed_ack`). A read heals a part fill before the LIVE
  answer arrives; the answer is then an illegal move and stops the engine. A restart recovers, so
  the other properties hold; `execution.py:416-420` says such races are absorbed.
- **A ghost that rests** (`paper_ghost`). On paper a GTC limit that fills in part on arrival has no
  status; `fetch_order` answers a record without one, which counts as an absence, and after the grace the
  order is ended while it rests. ADR-0011:83 asks for continuous absence.
- **Fills nobody reads** (`exit_unread`). Two strategies' resting orders of opposite sides fill behind the
  boot's pass and before the cancel-all. Venue and books read flat, the symbol gets no loop
  (`exit_run.py:186`), and the run says done; the next boot books the fills and the strategies are not flat.
  `exit_run.py:223-224` says that the books are then not flat and the run is not done, ADR-0054:11 that every
  strategy reads flat after a flatten. Found by proving: `DoneIsFlat` speaks of symbols with a loop since.

Without a run of their own, found while modelling:

- A fill made twice. On Kafka a tick and the fill it made are both redelivered after a
  kill, the tick first. Paper fills the rebuilt order again under the trade id of the fill in the log, and
  a stochastic fill comes in another size: row and book part, and the next fill stops the engine.
  `exchange.py:213-214` and ADR-0012:51-52 say that the fill is booked first. `RemadeInAnotherSize` names
  the case; `BookMatchesRows` and `WithinCap` state what holds of it.
- Fills behind a cancel. `_apply_cancellation` (`exchange.py:516`) closes the saga without reading the
  fills; nothing reads a terminal saga again. ADR-0043:183 says the barrier leaves the ledger healed.
- Dropped records. `_poll`'s docstring (`kafka.py:212-215`) leaves a faulted record and the rest of its
  cascade uncommitted so that a restart redelivers them; the next record that is dispatched commits past
  them.
- A refused commit. `commit()` is outside the `try` (`kafka.py:247`): the poll task ends silently and
  every later `publish` waits for ever, against `protocols.py:68-71`.
- A fill while the mode is read. `_mode_verified` (`ledger_reconcile.py:1433-1440`) says the correction
  overwrites that fill's effect on the cash line for one interval. Since the target is the snapshot's net
  cash plus the cost basis at the time of writing (`portfolio.py:579`), the line is off by the fill's whole
  notional, and two later passes are needed, because a heal waits for a second sighting.
- A tick heard twice. The tick gate starts empty in every life: a tick redelivered after a crash is heard
  again. ADR-0025 rule 3 says the gate makes `on_tick` idempotent for exactly that tick. A strategy that
  remembers acting (`StepTakenOnce`) is safe, one that acts on every tick is not.
- A slow send. The in-flight budget is 15 s, a request may live 30 s (`transport.py:23`): `FAILED` can
  precede the landing, against ADR-0007's "positive proof". A restart within that time does the same
  (`reconcile.py:449-456`). The model has both; `hasty` names the case, and `TerminalAgreesWithVenue` and
  `OrderContract` say that a `FAILED` of that kind is the only untrue verdict there is.
- A lost oid. Healing a part fill drops the LIVE status that carried the oid; once the venue drops the
  record, the fill history is never consulted again, against `fetch_order`'s own comment. This is
  why `EndedOrdersAreHealed` speaks of orders whose row holds the oid.
- Whose fault. With two publishes in flight one drain takes the fault, and the publish that caused
  it may return as delivered, against the comment in `publish`.
- A closed symbol. An over-read on a symbol the venue has closed has no price, so it never heals
  back; `classify` says so itself, `LedgerConverges` leaves it out.
- A close healed twice. `_Turns` covers only a close's publish: while `_verdict` waits without it, another
  symbol's `_size_gap` may run two account passes and heal the close's unbooked fill into the unattributed
  partition before it is booked over the strategies, against `exit_run.py:306-308`. `ExitRun` has it, which
  is why `ClosesOnlyShrink` speaks of the strategies' books.
- Rebuilt reduce-only orders. `PaperExchange.start` rebuilds one at the smaller of its open part and the
  net, without looking at its side, and one that had been shrunk comes back larger, against ADR-0057.
- Statuses in the log at a crash, on Kafka and paper. The row still says SUBMITTED while LIVE is in the log,
  and the order is not rebuilt, or CANCELLED is, and the order is rebuilt and its next fill faults.
  `Comparable` leaves both out.
- A redelivered fill is said to arrive before any new tick (`adapters/paper/exchange.py:214-217`); a feed
  that starts behind a backlog may overtake it.
- Starved marks. `ConflatingIngress.offer` files a superseded key at the end while the drain takes the
  first: a symbol that moves fast enough may never be published. `FeedKeepsUp` bounds the rows.
- Exit code 1. An exit run whose barrier times out, or whose venue start fails, never booted and returns
  1; `Engine.run` says "1 means it stopped partway. 2 means it never booted."
- Exit code 2. Over Kafka a cancel signal of an earlier life is let through before the barrier (ADR-0024),
  so an exit run refused by the mode gate may return 2 though an order was cancelled; ADR-0060:44-56 says
  nothing moved. `ExitCodeIsTrue` speaks of placements.
- Exit code 0. In memory a graceful stop cancels a task in the middle of a publish, and the rest of its
  cascade is dropped; the next boot recovers it. This is `CutCascade`.
- Sockets. `WsSession.stop` during a reconnect leaves the new socket open, and so does a feed start that
  the stop of an exit run overtakes.
- Mixed books. `_liquidation_maintenance` (`valuation.py:253-258`) says both of its errors move the level
  toward the mark; the equity of a mixed book holds the isolated buckets and their gains, which moves it
  away. And `_liquidation_price` calls a level at or below zero "structurally impossible for a short"
  (`valuation.py:313`): a cross short on an account that another symbol has put under water has one, so a
  short that is past liquidation at every price reports none. `LevelsAreTrue` states what holds.
- Buckets of a symbol that one partition has left. On live, when one partition of an isolated symbol
  closes while another holds on, the other's bucket stays posted, and a read older than that fill is shared
  out to it, against "An add or a partial close waits the same way" (`portfolio.py:825`).
  `BucketIsTheVenues` leaves such a symbol out until a read has shown its position.

## 6. Not modelled, and why

In `SagaEngine`: `_cancel_all` (in `StrategyHost`), the reduce-only shrink and the send of
`cancel_for_operator` (in `ExitRun`; not the mark it writes, which only decides between CANCELLED and
REJECTED); the ledger half of a fill commit; the clocks of the ghost gate and the unreadable span (the gate
may protect, wait or give its verdict once armed, which covers every timing; a span that runs out is a
crash); a graceful stop and the startup timeout (in `Runner`); one event type per transition, prices, fees
and reasons. The startup pass may read the orders in any order, the code reads them by creation time. In
`Ledger`: the leverage drift and the Tier-2 comparison (they alert and change nothing), the split of a
payment and the buckets (in `Valuation`), the paper genesis and its check at `recover`. In `StrategyHost`:
the `on_order_event` and `on_wake` callbacks, whose held signals and saves take the same path as a tick's;
what a commit after a fault drops; the fills and races of an order, which are `SagaEngine`'s. In
`PaperVenue`: slippage, fees and more than one symbol (symbols share only the switch and the rate window).
What `ExitRun`, `Runner` and `Valuation` leave out is in their sections.

The replay feed and the manual clock drive tests. Parsing of bodies, SQL, the codecs, configuration, wiring
and logging change no state the properties see; what they refuse is a failure of the step that called them.

## 7. Plan

Written in this order; each module with its own instance, runs and, where marked, proofs.

1. `OrderSaga`, `SagaEngine`, `OrderContract`, `SagaEngineProofs` (done).
2. `KafkaBus`, `KafkaBusProofs` (done).
3. `Ledger`, `LedgerProofs`: positions, cash, marks, fills, funding and heals; exactly-once (done).
4. `StrategyHost`: host, emitter and the seq high water with cancel-all (done).
5. `Guard`, `PaperVenue`, `PaperInvariants`, `PaperProofs`: limits, rate cap, kill switch, resting book, funding, restart (done).
6. `FlattenSplit`, `ExitRun`: the flatten run against a moving account (done).
7. `LiveFeed`, `Preflight`, `Runner`: start, barrier, alignment, feed, teardown, exit code (done).
8. `Valuation`: averages, buckets, figures (done).
9. Proofs: verdicts and barrier in `SagaEngineProofs`, `StrategyHostProofs`, `RunnerProofs`, `FoldFacts` and
   `ExitProofs` (done); `FundingIsExact`, `ReduceOnlyReduces`, `BookMatchesRows` and
   `WithinCap` in `PaperProofs` (done; the last two while no process is killed); then the two after a kill,
   and the cash half of `BooksBalance`.
10. The ghost gate with time: the grace window measures one continuous absence.
