------------------------ MODULE ConfluenceStrategy -------------------------
(***************************************************************************)
(* strategy::ConfluenceStrategy with its SessionContext, as StrategyRunner *)
(* drives it: quotes, book and trade events and order updates on the       *)
(* strategy thread, M1 bars on one gRPC thread and D1 bars on another,     *)
(* which call on_bar() directly.  Nothing here is locked: in on_quote(),   *)
(* on_bar() and the session methods they call every test and every write   *)
(* that follows it is a step of its own, so that the two threads meet      *)
(* between them.  Each such step, and on_daily_bar(), is atomic.           *)
(*                                                                         *)
(* A day has four phases: before the open, the five minutes in which a     *)
(* session may be opened, the rest of the opening range (ORB), the main    *)
(* session.  The votes of OrderBookState and TradeFlowAnalyzer, the spoof  *)
(* filter's verdict and the risk check's are any outcome; a bar is one     *)
(* price, so the day's range of finalize_orb() is the ORB's, and the ATR   *)
(* filter may go either way once the ATR is known.                         *)
(***************************************************************************)
EXTENDS Integers, Sequences, FiniteSets

CONSTANTS
  History,     \* kMaxDailyHistory
  Nr7Period,   \* nr7_period
  Ranges,      \* high - low of a daily bar
  Prices,      \* prices of bars, quotes and trades
  FillPrices,  \* OrderUpdate::price of a fill
  BaseQty,     \* Config::base_qty
  SlTicks, TpTicks,  \* Config::sl_ticks, tp_ticks, with tick_size 1
  MaxDaily,    \* bound: daily bars
  MaxOrders,   \* bound: orders sent
  MaxTurns     \* bound: changes of phase, four to a day

ASSUME StrategyAssumption ==
  /\ History \in Nat /\ Nr7Period \in 1..History
  /\ Ranges \subseteq Nat \ {0} /\ Prices \subseteq Nat \ {0} /\ FillPrices \subseteq Nat
  /\ BaseQty \in Nat /\ SlTicks \in Nat /\ TpTicks \in Nat
  /\ MaxDaily \in Nat /\ MaxOrders \in Nat /\ MaxTurns \in Nat

VARIABLES
  turns, phase,          \* the clock: changes of phase so far
  ranges, idx, count,    \* daily_ranges_, daily_idx_, daily_count_
  nr7,                   \* nr7_confirmed_
  orb,                   \* <<orb_low_, orb_high_>>, or <<>> after session_reset()
  final, bias,           \* orb_finalized_, bias_
  opened,                \* session_opened_today_
  book, flow,            \* ob_state_.vote(), tfi_analyzer_.vote()
  cooling,               \* less than 5 s since last_signal_ts_
  pos, entry,            \* position_, entry_price_
  pc, tick,              \* where each thread is inside on_quote() or on_bar(), and
                         \* the time and price of its quote or bar
  orders,                \* external: orders at the exchange, not yet reported filled
  sent,                  \* history: how many orders were sent
  daily                  \* history: every daily range so far

clock    == <<turns, phase>>
dailyCtx == <<ranges, idx, count, nr7, daily>>
session  == <<orb, final, bias>>
position == <<pos, entry>>
votes    == <<book, flow, cooling>>
calls    == <<pc, tick>>
market   == <<orders, sent>>
vars == <<clock, dailyCtx, session, opened, position, votes, calls, market>>

Phases == {"pre", "open", "orb", "main"}
Threads == {"Strategy", "M1"}
Places == {"idle", "check", "open", "reset", "test", "widen", "finalize", "set", "bias",
           "exit"}
NoTick == [phase |-> "pre", price |-> 0]
Order == [buy : BOOLEAN, qty : Nat, close : BOOLEAN]

TypeOK ==
  /\ turns \in 0..MaxTurns /\ phase \in Phases
  /\ ranges \in [0..(History - 1) -> Ranges \cup {0}]
  /\ idx \in 0..(History - 1) /\ count \in 0..History
  /\ nr7 \in BOOLEAN /\ daily \in Seq(Ranges)
  /\ orb = <<>> \/ orb \in Prices \X Prices
  /\ final \in BOOLEAN /\ bias \in {"Long", "Short", "None"}
  /\ opened \in BOOLEAN
  /\ book \in -1..1 /\ flow \in -1..1 /\ cooling \in BOOLEAN
  /\ pos \in Int /\ entry \in Nat
  /\ pc \in [Threads -> Places]
  /\ tick \in [Threads -> [phase : Phases, price : Prices] \cup {NoTick}]
  /\ \A k \in 1..Len(orders) : orders[k] \in Order
  /\ sent \in 0..MaxOrders

Init ==
  /\ turns = 0 /\ phase = "pre"
  /\ ranges = [i \in 0..(History - 1) |-> 0] /\ idx = 0 /\ count = 0
  /\ nr7 = FALSE /\ daily = <<>>
  /\ orb = <<>> /\ final = FALSE /\ bias = "None"
  /\ opened = FALSE
  /\ book = 0 /\ flow = 0 /\ cooling = FALSE
  /\ pos = 0 /\ entry = 0
  /\ pc = [t \in Threads |-> "idle"] /\ tick = [t \in Threads |-> NoTick]
  /\ orders = <<>> /\ sent = 0

NextPhase ==
  /\ turns < MaxTurns /\ turns' = turns + 1
  /\ phase' = CASE phase = "pre" -> "open" [] phase = "open" -> "orb"
                [] phase = "orb" -> "main" [] phase = "main" -> "pre"
  /\ UNCHANGED <<dailyCtx, session, opened, position, votes, calls, market>>

\* Five seconds pass.
CoolDown ==
  /\ cooling /\ cooling' = FALSE
  /\ UNCHANGED <<clock, dailyCtx, session, opened, position, book, flow,
                 calls, market>>

-----------------------------------------------------------------------------
(* SessionContext *)

\* Mutant of Nr7: the last bar is compared with one bar too few.
Nr7Short(ring, next, n) ==
  /\ n >= Nr7Period
  /\ LET At(i) == ring[(next - 1 - i + History) % History]
     IN  \A i \in 1..(Nr7Period - 2) : At(i) > At(0)

\* update_nr7(), after daily_idx_ has moved on
Nr7(ring, next, n) ==
  /\ n >= Nr7Period
  /\ LET At(i) == ring[(next - 1 - i + History) % History]
     IN  \A i \in 1..(Nr7Period - 1) : At(i) > At(0)

\* on_daily_bar(), from load_history() or the D1 thread.  update_atr() makes atr_
\* positive and keeps it so.
OnDailyBar(range) ==
  /\ Len(daily) < MaxDaily
  /\ ranges' = [ranges EXCEPT ![idx] = range]
  /\ idx' = (idx + 1) % History
  /\ count' = IF count < History THEN count + 1 ELSE count
  /\ nr7' = Nr7(ranges', idx', count')
  /\ daily' = Append(daily, range)
  /\ UNCHANGED <<clock, session, opened, position, votes, calls, market>>

HasAtr == count > 0

\* std::min and std::max on the opening range
Widened(price) ==
  IF orb = <<>> THEN <<price, price>>
  ELSE <<IF price < orb[1] THEN price ELSE orb[1], IF price > orb[2] THEN price ELSE orb[2]>>

\* on_session_open(): session_ctx_, tfi_analyzer_, spoof_filter_ and ob_state_ are
\* reset and the position is forgotten.
OnSessionOpen ==
  /\ orb' = <<>> /\ final' = FALSE /\ bias' = "None"
  /\ book' = 0 /\ flow' = 0 /\ cooling' = FALSE
  /\ pos' = 0 /\ entry' = 0

-----------------------------------------------------------------------------
(* on_quote() on the strategy thread and on_bar() on the M1 thread *)

\* Thread t goes on at place, or returns.
Goes(t, place) ==
  /\ pc' = [pc EXCEPT ![t] = place]
  /\ tick' = IF place = "idle" THEN [tick EXCEPT ![t] = NoTick] ELSE tick

\* Where thread t goes on after session_ctx_: on_bar() returns.
AfterSession(t) == IF t = "M1" THEN "idle" ELSE "exit"

\* dispatch(Quote) calls update_bbo(), then on_quote(); the bars' stream calls
\* on_bar().  Each carries its own time: the phase it was made in.
Arrives(t, p) ==
  /\ pc[t] = "idle"
  /\ pc' = [pc EXCEPT ![t] = "check"]
  /\ tick' = [tick EXCEPT ![t] = [phase |-> phase, price |-> p]]
  /\ UNCHANGED <<clock, dailyCtx, session, opened, position, votes, market>>

\* handle_session_open(): the test, and the flag going down before the open
SessionCheck(t) ==
  /\ pc[t] = "check"
  /\ Goes(t, IF ~ opened /\ tick[t].phase = "open" THEN "open" ELSE "test")
  /\ opened' = IF tick[t].phase = "pre" THEN FALSE ELSE opened
  /\ UNCHANGED <<clock, dailyCtx, session, position, votes, market>>

SetOpened(t) ==
  /\ pc[t] = "open" /\ opened' = TRUE
  /\ Goes(t, "reset")
  /\ UNCHANGED <<clock, dailyCtx, session, position, votes, market>>

Reset(t) ==
  /\ pc[t] = "reset" /\ OnSessionOpen
  /\ Goes(t, "test")
  /\ UNCHANGED <<clock, dailyCtx, opened, market>>

\* The first test of orb_finalized_: on_quote()'s own, and on_intraday_bar()'s with
\* those of the bar's time after it.
SessionTest(t) ==
  /\ pc[t] = "test"
  /\ Goes(t, IF final \/ (t = "M1" /\ tick[t].phase = "pre") THEN AfterSession(t)
             ELSE IF t = "M1" /\ tick[t].phase \in {"open", "orb"} THEN "widen"
             ELSE "finalize")
  /\ UNCHANGED <<clock, dailyCtx, session, opened, position, votes, market>>

\* The rest of on_intraday_bar(), for a bar of the opening range
WidenOrb(t) ==
  /\ pc[t] = "widen" /\ orb' = Widened(tick[t].price)
  /\ Goes(t, "idle")
  /\ UNCHANGED <<clock, dailyCtx, final, bias, opened, position, votes, market>>

\* finalize_orb(): its own test, the flag, and last the bias
FinalizeTest(t) ==
  /\ pc[t] = "finalize"
  /\ Goes(t, IF final THEN AfterSession(t) ELSE "set")
  /\ UNCHANGED <<clock, dailyCtx, session, opened, position, votes, market>>

FinalizeSet(t) ==
  /\ pc[t] = "set" /\ final' = TRUE
  /\ Goes(t, "bias")
  /\ UNCHANGED <<clock, dailyCtx, orb, bias, opened, position, votes, market>>

\* Without a bar the range is -inf, which the ATR filter or, when there is no ATR,
\* the test orb_high_ < -1e8 turns into no bias.
FinalizeBias(t) ==
  /\ pc[t] = "bias"
  /\ \/ bias' = "None" /\ (HasAtr \/ orb = <<>>)
     \/ orb # <<>> /\ bias' = IF tick[t].price > orb[2] THEN "Long"
                              ELSE IF tick[t].price < orb[1] THEN "Short" ELSE "None"
  /\ Goes(t, AfterSession(t))
  /\ UNCHANGED <<clock, dailyCtx, orb, final, opened, position, votes, market>>

-----------------------------------------------------------------------------
(* The strategy thread *)

\* handle_signal() and executor_->submit(): OrderClient's validate() refuses a
\* quantity of zero, the risk check or the exchange may refuse the order.
Submit(o) ==
  \/ /\ o.qty > 0 /\ sent < MaxOrders
     /\ orders' = Append(orders, o) /\ sent' = sent + 1
  \/ UNCHANGED market

\* check_exit(): stop loss, take profit, flow reversal
Profit(price) == IF pos > 0 THEN price - entry ELSE entry - price
Exit(price) ==
  /\ pos # 0 /\ entry > 0
  /\ \/ Profit(price) < -SlTicks
     \/ Profit(price) > TpTicks
     \/ IF pos > 0 THEN book + flow = -2 ELSE book + flow = 2

Magnitude(n) == IF n < 0 THEN -n ELSE n

\* The end of on_quote().  handle_signal() sends a close as a Sell.
CheckExit ==
  /\ pc["Strategy"] = "exit"
  /\ IF Exit(tick["Strategy"].price)
     THEN Submit([buy |-> FALSE, qty |-> Magnitude(pos), close |-> TRUE])
     ELSE UNCHANGED market
  /\ Goes("Strategy", "idle")
  /\ UNCHANGED <<clock, dailyCtx, session, opened, position, votes>>

\* Mutant of EntryQty: rounded up instead of truncated.
EntryQtyUp == IF nr7 THEN BaseQty ELSE (BaseQty + 1) \div 2

\* static_cast<int32_t>(base_qty * size_multiplier())
EntryQty == IF nr7 THEN BaseQty ELSE BaseQty \div 2

\* try_enter() and build_entry(), on the votes b and f
Signals(b, f) ==
  /\ pos = 0 /\ final /\ bias # "None" /\ ~ cooling
  /\ b + f = (IF bias = "Long" THEN 2 ELSE -2)

TryEnter(b, f) ==
  \/ /\ Signals(b, f)
     /\ cooling' = TRUE
     /\ Submit([buy |-> b > 0, qty |-> EntryQty, close |-> FALSE])
  \/ UNCHANGED <<cooling, market>>    \* no signal, or the spoof filter's veto

OnBookEvent(v) ==
  /\ pc["Strategy"] = "idle"
  /\ book' = v /\ UNCHANGED flow
  /\ TryEnter(v, flow)
  /\ UNCHANGED <<clock, dailyCtx, session, opened, position, calls>>

OnTradeEvent(v) ==
  /\ pc["Strategy"] = "idle"
  /\ flow' = v /\ UNCHANGED book
  /\ TryEnter(book, v)
  /\ UNCHANGED <<clock, dailyCtx, session, opened, position, calls>>

\* on_order_update() with status Filled
OnOrderUpdate(price) ==
  /\ pc["Strategy"] = "idle" /\ orders # <<>>
  /\ LET o == Head(orders)
     IN  /\ entry' = IF pos = 0 THEN price ELSE entry
         /\ pos' = pos + (IF o.buy THEN o.qty ELSE -o.qty)
  /\ orders' = Tail(orders)
  /\ UNCHANGED <<clock, dailyCtx, session, opened, votes, calls, sent>>

Next ==
  \/ NextPhase \/ CoolDown
  \/ \E r \in Ranges : OnDailyBar(r)
  \/ \E t \in Threads :
       \/ \E p \in Prices : Arrives(t, p)
       \/ SessionCheck(t) \/ SetOpened(t) \/ Reset(t)
       \/ SessionTest(t) \/ WidenOrb(t)
       \/ FinalizeTest(t) \/ FinalizeSet(t) \/ FinalizeBias(t)
  \/ CheckExit
  \/ \E v \in -1..1 : OnBookEvent(v) \/ OnTradeEvent(v)
  \/ \E p \in FillPrices : OnOrderUpdate(p)

Spec == Init /\ [][Next]_vars

-----------------------------------------------------------------------------
(* Properties *)

\* README.md:16 -- nr7_confirmed_ says that the latest daily range is the narrowest
\* of the last Nr7Period, however far the ring of ranges has wrapped.
Nr7IsNarrowest ==
  LET n == Len(daily)
  IN  nr7 <=> /\ n >= Nr7Period
              /\ \A k \in (n - Nr7Period + 1)..(n - 1) : daily[k] > daily[n]

\* With base_qty = 1 the halved size is zero: only on an NR7 day does an entry
\* reach the exchange.
EntryOnlyOnNr7 ==
  [][sent' > sent /\ ~ orders'[Len(orders')].close => nr7]_vars

\* session_context.hpp:37, 53 -- a finalized range and its bias are left alone until
\* the session is reset.
BiasIsFixed == [][final /\ final' => orb' = orb /\ bias' = bias]_vars

\* confluence_strategy.hpp:28 -- all methods run on the strategy thread: the M1
\* thread is never inside on_bar() while the strategy thread is inside on_quote().
OneThread == \E t \in Threads : pc[t] = "idle"

\* README.md:208 -- the ORB forms over the first 15 minutes of the session: it is
\* not finalized before they are over.
OrbLasts15Minutes == [][~ final /\ final' => phase = "main"]_vars

\* README.md:21 -- stop loss and take profit: a position has the entry price they
\* are measured from.
StopLossArmed == pos # 0 => entry > 0

\* risk_manager.cpp:112 -- a Sell closes a long, a Buy closes a short: a close order
\* takes the position towards zero.
CloseReduces ==
  [][sent' > sent /\ orders'[Len(orders')].close =>
       orders'[Len(orders')].buy = (pos < 0)]_vars
=============================================================================
