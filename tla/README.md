# finam-tradebot: a TLA+ verification project

finam-tradebot is a C++23 bot that trades MOEX FORTS futures through the Finam
Trade API over gRPC. One process runs one `StrategyRunner` per instrument; the
runners share a `RiskManager`, an `OrderClient`, a `MarketDataClient` and a
`TokenManager`. Most of what can go wrong lies between its threads, between the bot
and the exchange's stream of order reports, and at the calendar's edges; that is
what these modules model.

Paths below are relative to the repository's root; line numbers are those of the
modelled commit.

## 1. Inventory

| Component | State | Operations | Talks to | What is hard | What makes it correct |
|---|---|---|---|---|---|
| `core/spsc_queue.hpp` | `head_`, `tail_`, `buffer_` | `push`, `pop` | every producer thread of a runner, its strategy thread | lock-free interleaving, full/empty/wrap | bounded FIFO; no slot accessed by two threads at once |
| `risk/risk_manager.*` | `state_`, `peak_liquid_`, `open_pos_`, `tripped_`, `trip_reason_` | `check` (six checks), `on_fill`, `refresh_account`, `trip_circuit_breaker` | strategy threads, poll thread, order stream thread | `check()` releases the lock between its parts; the poll overwrites what fills wrote | peak above account, limits enforced, at most one entry after a trip, one reason |
| `order/order_client.*` | `orders_`, `id_counter_` | `submit`, `cancel`, `upsert`, `run_order_stream` | exchange (PlaceOrder, CancelOrder, SubscribeOrders), all runners' callbacks | reports before answers, repeated and lost reports, lost answers, restart | every fill counted once and by its owner, unless a report overtook the answer; ends are learned |
| `strategy/strategy_runner.hpp` | `queue_`, `active_symbol_`, subscriptions | dispatch of five event kinds, rollover watchdog, order callback, `handle_signal` | everything above | five producers; dropped events; events that wait while the date moves | feed and active symbol agree; rolls forward; rolls eventually |
| `core/contract.hpp` | none | `third_friday`, `next_quarterly`, `nearest_contract`, `expiry_day` | runner, `check_expiry`, `main` | month ends, leap years, December, one-digit years | the first future that expires beyond the window |
| `strategy/confluence_strategy.hpp`, `session_context.hpp` | position, entry price, ORB, bias, NR7 ring, session flag | `on_bar`, `on_quote`, `on_book_event`, `on_trade_event`, `on_order_update`, session reset | strategy thread, M1 and D1 bar threads | unsynchronised bar threads between every test and write; fills without a price | NR7 is what it says; entries only on such days; closes reduce the position |
| `order_book_state`, `trade_flow_analyzer`, `spoof_filter` | a decaying score, windows of trades, counters and flags per price | `on_book_event`, `on_trade`, `on_large_add/cancel`, votes, resets | the strategy | two clocks, late trades, eviction against counting | score, window and flags are what their definitions say of the session's events |
| `market_data/*` | detached stream threads, stop flags, book maps | five subscriptions, `get_bars` | the runner's callbacks | late messages after cancellation, reconnection while the book moves | the book is the exchange's, never half-updated; events add up to it; a thread ends when told, after at most one more message |
| `core/backoff.hpp`, `maintenance.hpp` | attempt counter | `wait`, `wait_if_active` | reconnection loops | interruption by stop, the clock moving between test and use | delays grow to a bound; no reconnecting through the maintenance |
| `auth/token_manager.*` | JWT, renewal thread | `init`, `jwt`, `shutdown` | every RPC | join on a blocked read, empty or old tokens | the last token issued is used |
| `core/health_server.hpp` | one thread | `/health`, `/metrics` | `RiskManager` getters, `main`'s shutdown | a request that never comes | its thread ends |
| `main.cpp` | lifetime of all of it | construct, register callback, run, shut down | all | callback registered after the runners start; destruction order; signals during the start | orders are sent only while the streams they need are up; handles have one user at a time; the process ends |
| `core/event_bus.hpp`, `connectivity_check`, `tests/backtest`, `scripts` | | | | | unused copy of the queue, diagnostic, test tool, download script |

The threads of one process: a strategy thread, a rollover watchdog and five
detached market data threads per runner; one order stream thread; one risk poll
thread; the JWT renewal thread; the health server's thread.

`PROJECT.json` lists every component with its status, and under `hazards` each of
these difficulties at the line where it bites.

## 2. Modules

| Module | Models | State and actions |
|---|---|---|
| `BoundedFifo` | what the queue promises | a sequence; Enqueue, Refuse, Dequeue, FindEmpty |
| `SpscQueue` | `core/spsc_queue.hpp` | one action per atomic access of `push` (load head, test full, write, publish) and `pop`; `Producers` is a set, so that one module serves the documented use and the real one |
| `RiskManager` | `risk/risk_manager.*` and `handle_signal` | one action per acquisition of `mu_` or atomic access; `pc` is where each strategy thread is inside `check()` |
| `OrderClient` | `order/order_client.*` and the callback's filter | strategy threads in `submit`, the stream thread, both in `upsert` (read, write, then under `cb_mu_` one runner's callback after the other); reports may come before the answer, and the answer may be lost; the exchange and the wire are external |
| `Contract` | `core/contract.hpp` | operators only |
| `Rollover` | the rollover part of `strategy_runner.hpp` | clock, watchdog (two reads, then push), queue, dispatch of a RolloverEvent in three steps, the order callback |
| `ConfluenceStrategy` | `confluence_strategy.hpp`, `session_context.hpp` | `on_quote` on the strategy thread and `on_bar` on the M1 thread, a step for each test and each write that follows it (`pc`), down to the two tests of `orb_finalized_`, the flag and the bias |
| `StreamThread` | what a stream's thread promises | working, handling a message, calling back for an item of it, ended; at most one message after it was told to stop |
| `StreamLoop` | the loops of `order_client.cpp`, `market_data_client.cpp` and `token_manager.cpp`, `backoff.hpp`, `maintenance.hpp` | one action per test of the stop flag, look at the clock, `Read`, item of a message, `Finish` and wait; `kind` selects the four variants of the loop; implements `StreamThread` |
| `Lifecycle` | `main.cpp`, the constructor and destructor of `StrategyRunner`, `init()` and every `shutdown()`, `health_server.hpp` | `step` walks main's statements (`Program`) beside all threads of the process; stream threads are used by what `StreamThread` promises of them, with one message of any number of items after stop |
| `BookFeed` | `subscribe_order_book` and `subscribe_book_events` | the exchange's book, the wire, the maps, the last state and what the queue was told of each level |
| `OrderFlow` | `order_book_state.hpp`, `trade_flow_analyzer.hpp`, `spoof_filter.hpp` and the strategy's handlers that drive them | one action per event, with the session's events as history |
| `Exposure` | `make_order_callback`, the queue, `on_order_update` and the strategy's decisions, on top of `OrderClient` (EXTENDS) | every action of `OrderClient`, joined with the queue, the position and what the strategy was told; a runner's callback is two steps, `on_fill()` and then the push (`hand` is the runner between them) |
| `MC*` | bounds | constants for TLC |
| `*Proofs` | | theorems; `BookFlowProofs` holds those of `BookFeed` and of `OrderFlow`, the two halves of an event's way, and therefore `OrderFlow` has names of its own for what both have (`InitFlow`, `Keys`, `Slots`) |

The operators whose comment begins with "Mutant of" are deliberate small mistakes
in the definition that follows them. No specification uses them; they serve to see
that each property notices the mistake it is meant for.

### What the models abstract

- Money and prices are integers and percentages are compared by multiplication.
- Order sizes are one contract in `RiskManager` and `Rollover` (`base_qty = 1`
  throughout `make_symbol_configs()`); `OrderClient` has an order of three, so that
  partial fills happen.
- `RiskManager` models the prices its interface documents. `OrderClient` in fact
  sends 0 (section 5): with that price `on_fill()` books zero profits, a special
  case of the model.
- `RiskManager!RolloverZone` is the set of symbols `check_expiry()` refuses. It is
  empty in the runs since no code of `nearest_contract()` has the separators the
  function looks for; the proofs hold for every set.
- In `Rollover` the strategy is reduced to its symbol, its position and whether it
  would enter. A session reset on a quote may clear the position, as in the code.
- `Exposure` has one session and one runner: sessions are in `ConfluenceStrategy`, the
  broadcast to several runners in `OrderClient`. An entry may come whenever the
  position is 0 (the five seconds between signals pass while an order is out), a
  close whenever it is not.
- `StreamLoop` takes the two ends of the jitter's interval for a delay, and the window
  of `maintenance.hpp` as a Boolean that changes at any time.
- `Lifecycle` has one market data thread per runner for the five alike, and a queue
  that is the set of the kinds of event in it.
- `BookFeed`'s exchange sends its whole book first and then what changes, as the
  code's clearing of the maps supposes; a message has all rows of one change.
- `OrderFlow` halves the score once per unit of time, in exact arithmetic, where the
  code multiplies by `pow(time_decay_per_sec, dt)` in floating point. `on_large_fill()` and
  `decay_tick()` have no caller in the bot and are left out.
- In `ConfluenceStrategy` a bar is one price, the votes of the two analyzers and the
  verdict of the spoof filter are any outcome, and the ATR filter may go either way
  once an ATR is known. Test and write are separate steps, but each write (both ends of
  the range, the reset of a session, a daily bar) is one: the data race inside one would be
  undefined behaviour, and the model does not claim anything about torn values.
- In `Lifecycle` the threads are joined by main's explicit calls. The destructors of the
  owning classes join as well (`token_manager.cpp:16`, `order_client.cpp:96`,
  `risk_manager.cpp:38`, `health_server.hpp:40`), so that no
  joinable thread is destroyed whatever path main takes; they are left out.
- Sequential consistency is assumed for `SpscQueue`'s interleavings; its
  release/acquire pairs justify that as long as no two threads access one slot at
  once, which is itself the property `NoSlotRace`.

## 3. Runs that pass

| Run | Bounds | Shows |
|---|---|---|
| `spsc` | 1 producer, 4 slots, 2 items | the ring refines `BoundedFifo`; no slot is shared (`NoSlotRace`); the index invariant the proofs rest on |
| `risk` | 2 runners, 2 orders, 1 position allowed | `PeakDominates`, `OneSidedBook`, `OneMoreEntry` (one entry per runner after a trip, never two), `ReasonIsFirstCause`; liveness `LossTrips` |
| `orders` | 2 runners, 1 order of 3 contracts, 2 stream breaks; answers before, after and between the reports, or lost | a runner takes another's fill only of an order whose report overtook the answer, or whose answer was lost (`OwnOrdersOnly`); deltas never exceed the fills, at most twice after a late answer, and are exact for orders not overtaken (`CountedExactly`); liveness `EndIsLearned` |
| `calendar` | 3651 consecutive days from 2026-01-01 | `third_friday` against a calendar that only counts days; `nearest_contract` against its meaning |
| `rollover` | 115 days of 2028 (leap day, March and June rollovers), queue of 2 | `FeedIsActive`, `RollsForward`; liveness `Rolled` |
| `strategy` | one day, 2 prices, fills with and without a price, 3 daily bars through a ring of 2, 1 order | `Nr7IsNarrowest`, `EntryOnlyOnNr7`, with the M1, D1 and strategy threads interleaved between every test and write |
| `exposure` | 1 runner, 2 orders of 1 contract, late and lost answers, 1 stream break, 1 update refused by the queue | the RiskManager hears of a fill before the strategy can act on it and never of less (`StrategyBehindRisk`); exchange, RiskManager and strategy agree on what has settled (`SettledAgrees`; orders a report overtook and updates refused are left out) |
| `streams` | the four kinds of loop, messages of any number of items, delays of 500 ms to 30 s with 25% of jitter, 3 tokens | the loops implement `StreamThread` (`KeepsPromise`: at most one message after stop, all of its items); `DelaysGrow`, `OneTryInWindow`; liveness `TokenSettles`, `Stops` |
| `lifecycle` | 2 runners, with and without `--dry-run`, authentication or `bind()` failing, a signal at any moment | `TradersCovered`, `HandlesUnshared`; liveness `Exits` |
| `book` | 3 prices, 2 levels shown, 3 changes of up to two rows, 1 break, 1 event refused | `BookInSync`, `NeverCrossed`, `EventsAddUp`; liveness `CatchesUp` |
| `flow` | 5 events of a session among 5 book events, one of a level out of range, and late or punctual trades, over 4 units of time, resets at any moment | `ScoreIsDecayedFlow`, `WindowIsRecent`, `VetoIsExact` (a veto is earned, and given when it is earned) |

Every module also defines its `TypeOK` (`TypeOKFlow`, `TypeOKExposure`), the types its proofs rest on; the runs do not
spend a property on it, but TLC finds it invariant when it is added to any of these
configurations. So is `NeverMisrouted` (a record may lack a symbol but never has
another runner's): `MCOrderTwo.cfg` checks it together with `OwnOrdersOnly` and
`CountedExactly` on two orders of two runners at once (6.4 million states, longer than a
run should take).

Why these bounds suffice to be interesting. Two runners are enough for every
check-then-act race, since the code never treats three threads differently from
two. Four slots make the ring fill, empty and wrap with room for several items.
An order of three gives two partial fills and a final one, and two breaks give a
repetition before and after a late answer. A queue of two is full with one event waiting and one behind
it, which is where the watchdog's event is dropped. Two rollovers let an event of
the first wait until the second is due. One day of the strategy has every phase of a
session, and both threads may open it. The backoff's real numbers are
small enough to be used as they are: six doublings reach the cap and one more stays
there. Two instruments let one runner trade while the next is constructed, or while
the first is destroyed. With three prices and two levels shown, a level falls out of
sight and comes back. Four units of time exceed the windows (1), the time a flag lasts
(2) and both together. `MaxOrders`, `MaxDrops`, `MaxDays`, `MaxDaily`, `MaxTurns`,
`MaxToken`, `MaxWire`, `MaxChanges`, `MaxBreaks`, `MaxLost`, `MaxRefused`, `MaxTime`
and `MaxEvents` only bound counters.

What a passing run does not say: `CatchesUp` is about the last state `on_book()`
compared; an event the queue refused is not sent again. `ScoreIsDecayedFlow` has a clock
that goes forward; the return for a clock stepping back (`order_book_state.hpp:76`) is
not exercised. `TradersCovered` says that the streams a runner needs are up, not that
anybody listens to them, nor that callbacks end before the runner does (section 5).
`FeedIsActive` is about subscriptions, not about what a cancelled one still delivers.
The order of the shutdown is checked by `Exits` under the fairness below, which supposes
away the peers that never answer.

Deadlock is checked except where the system may stop: in `orders` and `exposure` (all
orders done and the stream quiet), `calendar` (the last date), `streams` (the thread
has ended), `lifecycle` (the process has exited), `book` and `flow` (the bounded inputs
are used up).

### Fairness

- `risk`: weak fairness of the steps of `handle_signal` that wait for nobody. None
  for the RPCs, which have no deadline, nor for the exchange or the order stream.
- `orders`: weak fairness of subscribing, reading what has arrived and finishing an
  `upsert`: the loop of `run_order_stream` while the process is up. None for the
  exchange.
- `rollover`: weak fairness of the watchdog (wakes every minute) and of dispatching.
  `Rolled` is conditional on the watchdog not finding the queue full for ever: a full
  queue drops the event and nothing in the code reserves a place for it.
- `streams`: weak fairness of the thread between its calls. The server is asked for
  more than once what is supposed of it: not to refuse every subscription for ever, to
  send the token it has issued, and (`LiveSpec` only) to end every stream sooner or
  later, as the exchange's daily maintenance and the token's expiry do. Without the
  last (`QuietSpec`), `Stops` does not hold: nothing in the code cancels a
  `ClientContext`, and the join never returns.
- `lifecycle`: weak fairness of main, of the threads that look at their flag, of
  callbacks under way and of a health connection (its peer sends or closes). Strong
  fairness says of the runner main is joining that its queue, a FIFO that market data
  threads still feed, is found empty again and again (events come slower than they
  are taken); otherwise the last `drain_queue()` never returns.
- `book`: weak fairness of reading and reconnecting.

## 4. Theorems

All proofs are checked by TLAPS, with no assumption beyond the named `ASSUME`s of the
modules, which say what the constants are (the runs evaluate them).

| Theorem | Statement | Argument |
|---|---|---|
| `SpscQueueProofs!RingInvariant` | types and `IndexInv`, one producer | `IndexInv` says what the local copies of `head_` and `tail_` are worth at each step of a call and which slots hold items; it is inductive with `TypeOK` |
| `SpscQueueProofs!SlotsAreNotShared` | `[]NoSlotRace`, one producer | from `IndexInv`: the slot written lies outside the window that is read |
| `SpscQueueProofs!RingRefinesFifo` | `Spec => RefinesFifo`, one producer | the queue's contents are the window from `tail_` to `head_`, modulo N; publishing grows it by one, advancing the tail shrinks it |
| `RiskManagerProofs!TypeCorrect` | `[]TypeOK` | one step per action |
| `RiskManagerProofs!PeakIsUpperBound` | `[]PeakDominates` | inductive with `TypeOK`: both writers raise the peak under the lock they write the account under |
| `RiskManagerProofs!BookIsOneSided` | `[]OneSidedBook` | inductive: an entry is added only when no opposite one exists |
| `RiskManagerProofs!AtMostOneMoreEntry` | `[]OneMoreEntry` | strengthened to `EntryBudget`: a runner past the breaker's test has used none of its budget, one that has used it can no longer pass |
| `RiskManagerProofs!ReasonWrittenOnce` | `ReasonIsFirstCause` | strengthened to `ReasonOwner`: at most one thread is between the exchange and the write, its message is not the breaker's own |
| `RolloverProofs!FeedFollowsActive` | `[]FeedIsActive` | strengthened over the three steps of the dispatch |
| `RolloverProofs!RunnerTyped` | `[]TypeOK` | `RunnerInv`: types, `DateInv` and the feed |
| `RolloverProofs!ThirdFridayCorrect` | `[]ThirdFridayIsFriday` | `DateInv`: the day number of `date` is the start's plus the days elapsed, and both calendars agree modulo 7 |
| `RolloverProofs!NearestCorrect` | `[]NearestIsFirstTradable` | a later quarter expires later (`ExpiryOrder`), and the quarters before the one `nearest_contract()` chooses are over or in their window (`NearestShape`) |
| `RolloverProofs!NeverRollsBack` | `RollsForward` if `MaxDays <= 1095` | strengthened to `RollInv`: in the order of expiries, active symbol, event being dispatched, queue (front to back), the watchdog's copy and today's nearest contract never decrease. A code has one digit of the year, so the order of codes is that of expiries only within ten years; three keep every code of the behaviour inside |
| `ConfluenceProofs!EntriesNeedNr7` | `EntryOnlyOnNr7` if `BaseQty = 1` | half of one contract truncates to 0, which `validate()` refuses |
| `ConfluenceProofs!Nr7Correct` | `[]Nr7IsNarrowest` | `RingInv`: the slot of the k-th latest day holds its range; the lemmas are the ring's modular arithmetic |
| `StreamLoopProofs!LoopKeepsPromise` | `Spec => KeepsPromise`, every kind of loop | strengthened to `LateInv`: a thread that has taken its one late message is delivering its items or on its way out, past every `Read()` |
| `StreamLoopProofs!AtMostOneTry` | `[]OneTryInWindow` | strengthened to `WindowInv`: nothing is counted outside the window, and a thread about to subscribe has last looked at the clock outside it |
| `StreamLoopProofs!WaitsGetLonger` | `[]DelaysGrow` if `WideSteps` | `DelayInv`: below the cap, a delay is at most the longest of its attempt, which is less than the shortest of the next. `WideSteps` says that doubling outweighs the jitter of both delays and that the cut of the exponent comes after the cap, as it does with the numbers of `BackoffConfig` |
| `LifecycleProofs!ShutdownCoversTraders` | `[]TradersCovered`, any number of runners | `LifeInv` ties `step` to the phases of the threads: which are not yet begun, which may dispatch, which flags are set, in the order of `Program` |
| `LifecycleProofs!HandlesNeedNoLock` | `[]HandlesUnshared`, any number of runners | `LifeInv`: a runner under construction or destruction has no strategy thread at work |
| `ExposureProofs!ClientTyped`, `ExposureTyped` | `[]TypeOK`, `[]TypeOKExposure` | types with what each thread holds at its place in `submit` or `upsert` |
| `ExposureProofs!OnlyOwnOrders` | `[]OwnOrdersOnly` if no order is left from an earlier process (`Prior = 0`) | strengthened to `LedgerInv` (below): a record has its owner's symbol or none (`Routed`), and of an order not overtaken a runner that does not own it counts nothing unless the record has none (`Exact`) |
| `ExposureProofs!CountsAddUp` | `[]CountedExactly`, same condition | `LedgerInv` (below), with what an upsert under way has read but not yet passed on |
| `ExposureProofs!RiskHearsFirst` | `[]StrategyBehindRisk`, no condition | strengthened to `BehindInv`: what was told plus the deltas in the queue is at most what was counted, less the delta of a callback between its two steps (`InHand`); the sum is given by its partial sums |
| `ExposureProofs!NoMisrouting` | `[]NeverMisrouted` if `Prior = 0` | `Owned`, `InOrder` and `Routed`, also with late and lost answers |
| `ExposureProofs!SettledOrdersAgree` | `[]SettledAgrees` if `Prior = 0` | strengthened to `SettlingInv`: `LedgerInv`, a one-lot order with a fill is filled (`OneLot`), no strategy has heard of an order the exchange does not know (`Untold`), and the one contract is nowhere yet or told (`Done`), in the queue (`Queued`) or with a callback (`Held`; together `Carried`) |
| `BookFlowProofs!BookFollows` | `[]BookInSync` | `FeedInv`: replaying the wire message by message leads from the maps to the exchange's book (`Leads`) |
| `BookFlowProofs!NoCrossedBook` | `[]NeverCrossed` | `FeedInv`: every book along that replay is uncrossed, so the one after a whole message is |
| `BookFlowProofs!EventsTelescope` | `[]EventsAddUp` | inductive: the differences of a level telescope, refused ones included |
| `BookFlowProofs!FlowTyped` | `[]TypeOKFlow` | part of `FlowInv` |
| `BookFlowProofs!ScoreDecays` | `[]ScoreIsDecayedFlow` | `FlowInv` has `Scored`: the time kept is that of the last event in range, and the score is the decayed flow up to it. What is left of an event is a power of two as long as the clock is within `MaxTime`, so halving the score halves every share without a remainder (`ShareHalves`, `FlowScales`) |
| `BookFlowProofs!WindowsAreRecent` | `[]WindowIsRecent` | inductive (`KeptStep`): what `evict_old()` drops is a prefix, all of it too old for the trade that came |
| `BookFlowProofs!VetoesAreExact` | `[]VetoIsExact` | `FlowInv` has `Faithful`, price by price: an entry counts no more than has happened (`Sound`), and as long as an add is within the window of the last event the entry is no older than it and counts all that was withdrawn since (`CompleteFor`), although any event at any price may evict it |

`LedgerInv` is the invariant of `OrderClient`. For every order, in whatever order answers
and reports come: what is on the wire is ordered in time and behind the exchange
(`InOrder`), the recorded fill is behind every report to come, also when `submit()` takes
it back between the two locks of the stream's `upsert()` (`Forward`), and what a runner
has counted, with what it is still owed, is at most the recorded fill until `submit()`
has written its answer and at most that plus the exchange's fill afterwards (`Twice`; the
answer can write its zero over the record only once). For an order no report overtook
(`Undisturbed`): `submit()` records it first and without a fill (`SubmitFirst`), from its
first fill on the record precedes every report to come (`Since`), the stream's `upsert()`
runs as if alone (`Latest`), and counted and owed make up the record, the owner's alone
when it has a symbol (`Exact`). The second half is false of an overtaken order, which is
why the properties except those; without the first half nothing would bound what is
counted of them.

The conditions of the theorems are the ones the code needs, not the prover. With orders
of an earlier process `OwnOrdersOnly` is false (`MCOrderRestart.cfg`, section 5). The
runs satisfy the conditions of the theorems whose properties they check.

The inductive invariants were found with TLC before they were proved (`RollInv` on an
instance of 1.3 million states). Induction over the natural numbers is done without the
library's induction rules: `WFMin` of `WellFoundedInduction` gives the least number of a
set (`LeastNumber`, `LeastExponent`), and the least counterexample is refuted. What the
proofs reason about is written as a recursive function (`Shl`, `BookFeed!Replay`,
`OrderFlow!Pow2` and `DecayedFlow`); that such a function exists and what it computes
is then a lemma (`PowDoubles`, `PowSum`, `FlowIsTotal`).

`OrderFlow` supposes that a flag takes at least two cancels (`min_events` is 5). With
one, the first cancel at a price where nothing was shown would raise a flag before
`evict_old()` erases the entry, and `VetoIsExact` would be false.

Only model-checked: the liveness properties (`LossTrips`, `EndIsLearned`, `Rolled`,
`TokenSettles`, `Stops`, `Exits`, `CatchesUp`), since fairness is outside the prover's
reach. Every invariant and every action property of the runs that pass is a theorem.

## 5. Where the code disagrees with its documentation

Each of these is a behaviour TLC exhibits. The first is a run of the project that
expects the violation (`PROJECT.json`, `findings`): `strategy_close` refutes
`CloseReduces`, since the close of a short is sent as a Sell. Today that bug is latent:
`order_client.cpp:311` leaves the price of every fill at 0, and without an entry price no
close is ever sent. It bites as soon as fills carry their price.

The others are found by hand: put the property in the place of the properties of the
configuration named (several share one), and run it (`tlc -config X.cfg M`).

| Configuration, module | Property | In short |
|---|---|---|
| `MCSpscQueueMulti`, `MCSpscQueue` | `NoSlotRace` | `spsc_queue.hpp:12` documents one producer; a runner pushes from the order stream (`strategy_runner.hpp:86`), the watchdog (125) and three market data threads (193-203): two of them pass the full test with one head and write one slot |
| `MCRiskDailyStop`, `MCRiskManager` | `DailyStopCountsRealised` | README.md:182 promises a daily stop; `risk_manager.cpp:98` replaces `daily_pnl` by the floating profit, and a realised loss no longer counts |
| `MCOrderBroadcast`, `MCOrderClient` | `EachItsOwn` | `strategy_runner.hpp:73` says each runner processes only its own orders; a report that overtakes the answer to PlaceOrder has no symbol, and every runner takes its fill |
| `MCOrderRevived`, `MCOrderClient` | `TerminalIsFinal` | an answer that comes after the order's end is reported (`order_client.cpp:157-168`) writes its older status and a fill of zero over the record: a filled order is active again, and the next repetition of its reports counts the fill a second time |
| `MCRolloverFills`, `MCRollover` | `StrategyFollowsRoll` | README.md:198 promises the rollover; the strategy still compares symbols with the old contract (`confluence_strategy.hpp:56`, 76) and ignores the new one |
| `MCExposureParts`, `MCExposure` | `PartsAreKnown` | `confluence_strategy.hpp:98` adds only the update whose status is Filled: with `base_qty` 2 the first part of an order never reaches the position |
| `MCExposureTwice`, `MCExposure` | `OneEntryAtATime` | `confluence_strategy.hpp:161` enters only without a position; while the first entry's fill is on its way a second is sent |
| `MCExposureOverclosed`, `MCExposure` | `NeverOverclosed` | `confluence_strategy.hpp:84` asks for the close on every quote until the fill is dispatched: a long of one is sold twice |
| `MCStreamLoop` with `QuietSpec`, `MCStreamLoop` | `Stops` | a stream on which the server is silent is never left, and `shutdown()` (`order_client.cpp:100`, `token_manager.cpp:99`) joins its thread |
| `MCLifecycle`, `MCLifecycle` | `TradersHeard` | `main.cpp:176` registers the callback after all runners are constructed; the first ones may have submitted orders by then |
| `MCLifecycle`, `MCLifecycle` | `CallsTheLiving` | `main.cpp:208` destroys the runners while the order stream and the detached market data threads may be inside a callback that captured one |
| `MCLifecycle`, `MCLifecycle` | `ClientOutlivesThreads` | main returns, and destroys the `MarketDataClient`, while its detached threads still run |
| `MCOrderFlow`, `MCOrderFlow` | `OnlyRecentTrades` | README.md:13 gives TFI a window of 5 s; `evict_old()` (`trade_flow_analyzer.hpp:53`) looks at the front only, so a late trade behind a younger one stays in the window although it is older |
| `MCOrderFlow`, `MCOrderFlow` | `EntryOnRecentTrades` | the same window; only a trade evicts, so a book event may enter on trades of any age |
| `MCRiskPositions`, `MCRiskManager` | `PositionLimit` | README.md:175 promises a limit over all instruments; `risk_manager.cpp:250` compares a count up to 10 s old, so two runners pass together. (`main.cpp:125` also sets 5 where README.md:184 says 3.) |
| `MCRiskOpenFill`, `MCRiskManager` | `OpeningFillIsRemembered` | `risk_manager.cpp:122` looks for an entry of the other side in any symbol: one instrument's opening closes another's entry |
| `MCOrderRestart`, `MCOrderClient` | `OwnOrdersOnly` | a new process takes the repeated reports of the old one's orders for everybody's |
| `MCOrderClient`, `MCOrderClient` | `FillCarriesPrice` | `risk_manager.hpp:48` computes PnL from the fill's price; `order_client.cpp:311` always sends 0 |
| `MCConfluenceStop`, `MCConfluence` | `StopLossArmed` | README.md:21 promises stop loss and take profit; with that price, `check_exit` (`confluence_strategy.hpp:216`) never looks at the position: neither of them works |
| `MCConfluenceBias`, `MCConfluence` | `BiasIsFixed` | `session_context.hpp:37` and 53 leave a finalized range alone; unlocked, both threads pass the test before either sets the flag, and the second changes the range or the bias after the first has finalized it |
| `MCConfluenceClose`, `MCConfluence` | `OneThread` | `confluence_strategy.hpp:28` promises one thread; bars are delivered on two more (`strategy_runner.hpp:207`) |
| `MCConfluenceClose`, `MCConfluence` | `OrbLasts15Minutes` | README.md:208 gives the range 15 minutes; the first quote finalizes it (`confluence_strategy.hpp:80`) |
| `MCRolloverFills`, `MCRollover` | `RolledFlat` | `strategy_runner.hpp:171` supposes the position closed; nothing closes it, and the reset forgets it |
| `MCRolloverFills`, `MCRollover` | `OwnFillsTaken` | the fill of an order sent before the rollover is discarded by its own runner (`strategy_runner.hpp:76`) |
| `MCRolloverFills`, `MCRollover` | `NoEntryInWindow` | `check_expiry` looks for `-` and `.` (`risk_manager.cpp:301`), which the codes do not have: entries are not blocked before expiry |
| `MCRolloverDecade`, `MCRollover` | `ExpiryRoundTrip` | from mid December 2029 the code's year digit 0 is read as 2020 (`contract.hpp:110`) |

Seen while reading, without a model:

- `tests/unit/test_session_context.cpp:51` expects a long bias after `session_reset()`
  and `finalize_orb(125.0)` (45-53), where the code's empty range gives none.
- README.md:188-195 documents codes `Si-6.26@FORTS`, the code writes `SiM6@RTSX`.
- `backoff.hpp:20` says the delay is clamped to the cap; the jitter is applied after
  the cap and takes it to 37.5 s (`DelaysGrow` states the bound the code keeps).
- `maintenance.hpp:16` says a wait is interrupted at once; it sleeps 30 s through, and
  may then report the end of the window although stop is set.
- README.md:206 says the bot waits during the maintenance; only the order stream does.
- The runners' destructors run one after the other, and each waits up to a minute for
  its watchdog: the later ones trade on for minutes after the signal.
- The price of a level's event may be the other side's or the previous book's
  (`market_data_client.cpp:428`), and a size falls to 0, the spoof filter's "cancel",
  only where the book gets shorter. `on_large_fill()` has no caller, so the filter's
  ratio is always 1.
- README.md:13 names CVD and the speed of trades; neither enters the vote.

## 6. Not modelled

- `get_bars()` and the conversions of bars, quotes and trades in `MarketDataClient`
  (`market_data_client.cpp:362` infers a trade's side): inputs of the strategy's models.
- The rounding of floating point: scores and prices are integers. The value of the ATR.
- The clock arithmetic of the maintenance window: the window is a Boolean.
- The text of the health server's answers, logging, the dry-run executor's counter.
- `decay_tick()`, `on_large_fill()`, the result records of the analyzers and the average
  volume behind them: no code of the bot calls or reads them. The same holds of
  `core/event_bus.hpp`, `active_orders()` and `find()`.
- `connectivity_check`, the backtest and the scripts: programs of their own.

## 7. Plan

Done, in this order: the queue and its abstract specification; the risk manager; the
order client; the calendar and the rollover; the strategy and its session; the
first theorems; the stream loops, what they promise and the proof that they do; the process's start
and shutdown; the order book; the analyzers; fills on their way to the strategy.

Then the proofs of every safety property the runs check: the queue and its refinement,
the risk manager, the loops and theirs, the calendar and the rollover, the session and
its ring, the order client with the way of a fill to the strategy, the order book,
start and shutdown, and the three analyzers.

Left: the hazards without a property in `PROJECT.json`, each with its reason; the
liveness properties stay with TLC.
