---------------------------- MODULE RiskManager ----------------------------
(***************************************************************************)
(* risk::RiskManager, shared by all StrategyRunners.  Three kinds of       *)
(* thread use it: every runner's strategy thread (handle_signal: check an  *)
(* entry, perhaps trip the breaker, submit), the poll thread               *)
(* (refresh_account) and the order stream's thread (on_fill, through       *)
(* StrategyRunner::make_order_callback).  Each acquisition of mu_ and each *)
(* atomic access is one step, so the threads interleave between the checks.*)
(*                                                                         *)
(* Money and prices are integers, percentages are compared by cross        *)
(* multiplication.  Every order is for one contract: base_qty = 1 in       *)
(* main.cpp's make_symbol_configs().  A runner stands for its symbol.      *)
(* The exchange and the broker's account are external.                     *)
(***************************************************************************)
EXTENDS Integers, Sequences, FiniteSets

CONSTANTS
  Runners,          \* one StrategyRunner, one symbol, one strategy thread each
  MaxPositions,     \* RiskConfig::max_positions
  MaxDailyLossPct,  \* RiskConfig::max_daily_loss_pct
  MaxDrawdownPct,   \* RiskConfig::max_drawdown_pct
  PerTradePct,      \* RiskConfig::per_trade_pct
  RolloverZone,     \* the runners whose symbol check_expiry() refuses (none has a
                    \* code it can read: Rollover!CheckExpiry)
  Equities,         \* GetAccount: equity
  Profits,          \* GetAccount: unrealized_profit of an account with positions
  FreeMargins,      \* GetAccount: available_cash
  Margins,          \* GetAssetParams: initial margin of one contract
  Prices,           \* OrderUpdate::price of a fill
  MaxOrders         \* bound: orders submitted in a behaviour

ASSUME RiskAssumption ==
  /\ MaxPositions \in Int /\ MaxDailyLossPct \in Int /\ MaxDrawdownPct \in Int
  /\ PerTradePct \in Int /\ MaxOrders \in Nat
  /\ Equities \subseteq Int /\ Profits \subseteq Int /\ FreeMargins \subseteq Int
  /\ Margins \subseteq Int /\ Prices \subseteq Int
  /\ IsFiniteSet(Runners) /\ RolloverZone \subseteq Runners

VARIABLES
  state,     \* state_: liquid, free, pnl (daily_pnl), positions (open_positions)
  peak,      \* peak_liquid_
  openPos,   \* open_pos_: transaction id -> entry price and signed quantity
  tripped,   \* tripped_
  reason,    \* trip_reason_; "none" stands for the empty string
  pc,        \* the strategy threads: where handle_signal() is
  dir,       \* its signal's direction
  need,      \* check_margin()'s local: the margin required
  why,       \* the message of the error check() returned
  snap,      \* refresh_account's local: the answer about to be stored, or NoSnap
  pos,       \* the strategies' own position_qty_, by runner
  net,       \* external: contracts held at the broker, by runner
  working,   \* external: orders the exchange has accepted and not yet executed
  stream,    \* external: executions the order stream has not yet delivered
  nextTid,   \* OrderClient's id counter
  extra,     \* history: entries submitted by each runner after the trip
  booked     \* history: the profit on_fill() has realised so far

account == <<state, peak, openPos, booked>>
breaker == <<tripped, reason>>
thread  == <<pc, dir, need, why>>
market  == <<net, working, stream, nextTid>>
vars == <<account, breaker, thread, snap, pos, market, extra>>

NoSnap == [fetched |-> FALSE]

\* The messages of the errors check() returns, by check.
Causes == {"loss", "drawdown", "positions", "expiry", "margin"}

Account == [liquid : Int, free : Int, pnl : Int, positions : Int]
Order == [tid : Nat, buy : BOOLEAN, runner : Runners]
Fill == [tid : Nat, buy : BOOLEAN, runner : Runners, price : Int]
Entry == [price : Int, qty : Int \ {0}]

Pcs == {"idle", "breaker", "loss", "drawdown", "positions", "expiry",
        "fetch", "margin", "trip", "reason", "submit"}

TypeOK ==
  /\ state \in Account
  /\ peak \in Int
  /\ DOMAIN openPos \subseteq Nat /\ \A t \in DOMAIN openPos : openPos[t] \in Entry
  /\ tripped \in BOOLEAN
  /\ reason \in Causes \cup {"none", "breaker"}
  /\ pc \in [Runners -> Pcs]
  /\ dir \in [Runners -> {"None", "Buy", "Sell", "Close"}]
  /\ need \in [Runners -> Int]
  /\ why \in [Runners -> Causes \cup {"none", "breaker"}]
  /\ snap = NoSnap \/ snap \in Account
  /\ pos \in [Runners -> Int] /\ net \in [Runners -> Int]
  /\ working \subseteq Order
  /\ stream \in Seq(Fill)
  /\ nextTid \in Nat
  /\ extra \in [Runners -> Nat]
  /\ booked \in Int

-----------------------------------------------------------------------------
(* GetAccount, external: the equity and the margin are the market's, the    *)
(* positions are the ones held, and a flat account has no floating profit. *)
Held == {r \in Runners : net[r] # 0}

Snapshots ==
  {s \in [liquid : Equities, free : FreeMargins, pnl : Profits \cup {0},
          positions : {Cardinality(Held)}] : Held = {} => s.pnl = 0}

\* RiskManager::start() refreshes once before the poll thread exists; when that
\* fails the account keeps its zeros.
Init ==
  /\ state \in {[liquid |-> 0, free |-> 0, pnl |-> 0, positions |-> 0]}
               \cup [liquid : Equities, free : FreeMargins, pnl : {0}, positions : {0}]
  /\ peak = IF state.liquid > 0 THEN state.liquid ELSE 0
  /\ openPos = <<>> /\ booked = 0
  /\ tripped = FALSE /\ reason = "none"
  /\ pc = [r \in Runners |-> "idle"] /\ dir = [r \in Runners |-> "None"]
  /\ need = [r \in Runners |-> 0] /\ why = [r \in Runners |-> "none"]
  /\ snap = NoSnap
  /\ pos = [r \in Runners |-> 0] /\ net = [r \in Runners |-> 0]
  /\ working = {} /\ stream = <<>> /\ nextTid = 1
  /\ extra = [r \in Runners |-> 0]

-----------------------------------------------------------------------------
(* The poll thread: refresh_account() *)

\* The RPC answers; a failed one is logged and changes nothing.
RefreshFetch ==
  /\ snap = NoSnap
  /\ snap' \in Snapshots
  /\ UNCHANGED <<account, breaker, thread, pos, market, extra>>

RefreshStore ==
  /\ snap # NoSnap
  /\ state' = snap
  /\ peak' = IF snap.liquid > peak THEN snap.liquid ELSE peak
  /\ snap' = NoSnap
  /\ UNCHANGED <<openPos, booked, breaker, thread, pos, market, extra>>

-----------------------------------------------------------------------------
(* The order stream's thread: make_order_callback() calls on_fill() *)

\* find_if over an unordered_map: any entry of the opposite side, any symbol.
Opposite(buy) == {t \in DOMAIN openPos : IF buy THEN openPos[t].qty < 0
                                                ELSE openPos[t].qty > 0}

FillPnl(f, t) == (f.price - openPos[t].price) * (IF openPos[t].qty > 0 THEN 1 ELSE -1)

\* Mutant of CloseEntry: the peak is not raised.
CloseEntryNoPeak(f, t) ==
  /\ state' = [state EXCEPT !.pnl = @ + FillPnl(f, t), !.liquid = @ + FillPnl(f, t)]
  /\ openPos' = [u \in DOMAIN openPos \ {t} |-> openPos[u]]
  /\ booked' = booked + FillPnl(f, t)
  /\ UNCHANGED peak

\* state_.daily_pnl and liquid_value take the profit, the entry is erased.
CloseEntry(f, t) ==
  LET liquid == state.liquid + FillPnl(f, t)
  IN  /\ state' = [state EXCEPT !.pnl = @ + FillPnl(f, t), !.liquid = liquid]
      /\ peak' = IF liquid > peak THEN liquid ELSE peak
      /\ openPos' = [u \in DOMAIN openPos \ {t} |-> openPos[u]]
      /\ booked' = booked + FillPnl(f, t)

\* open_pos_[tid] = {price, signed quantity}
OpenEntry(f) ==
  /\ openPos' = [u \in DOMAIN openPos \cup {f.tid} |->
                   IF u = f.tid THEN [price |-> f.price, qty |-> IF f.buy THEN 1 ELSE -1]
                                ELSE openPos[u]]
  /\ UNCHANGED <<state, peak, booked>>

\* Mutant of OnFill: no search for an entry to close.
OnFillOpens(f) == OpenEntry(f)

OnFill(f) == \/ \E t \in Opposite(f.buy) : CloseEntry(f, t)
             \/ Opposite(f.buy) = {} /\ OpenEntry(f)

\* The callback also hands the update to the runner's strategy.
DeliverFill ==
  /\ stream # <<>>
  /\ LET f == Head(stream)
     IN  /\ OnFill(f)
         /\ pos' = [pos EXCEPT ![f.runner] = @ + (IF f.buy THEN 1 ELSE -1)]
  /\ stream' = Tail(stream)
  /\ UNCHANGED <<breaker, thread, snap, net, working, nextTid, extra>>

-----------------------------------------------------------------------------
(* A strategy thread: handle_signal() *)

Goto(r, step) == pc' = [pc EXCEPT ![r] = step] /\ UNCHANGED <<dir, need, why>>

\* The locals go with the call.
Return(r) == /\ pc' = [pc EXCEPT ![r] = "idle"] /\ dir' = [dir EXCEPT ![r] = "None"]
             /\ need' = [need EXCEPT ![r] = 0] /\ why' = [why EXCEPT ![r] = "none"]

\* Mutant of Reject: only RiskLimitExceeded asks for a trip.
RejectQuiet(r, cause) ==
  \/ cause = "loss" /\ Return(r)
  \/ /\ cause # "loss"
     /\ pc' = [pc EXCEPT ![r] = "trip"]
     /\ why' = [why EXCEPT ![r] = cause]
     /\ UNCHANGED <<dir, need>>

\* r.error(): what handle_signal does with a failed check.
Reject(r, cause) == /\ pc' = [pc EXCEPT ![r] = "trip"]
                    /\ why' = [why EXCEPT ![r] = cause]
                    /\ UNCHANGED <<dir, need>>

CheckVars == <<account, breaker, snap, pos, market, extra>>

\* The strategy enters when it is flat and closes when it is not; a close is
\* not checked.
Signal(r, d) ==
  /\ pc[r] = "idle"
  /\ nextTid <= MaxOrders
  /\ (d = "Close") = (pos[r] # 0)
  /\ pc' = [pc EXCEPT ![r] = IF d = "Close" THEN "submit" ELSE "breaker"]
  /\ dir' = [dir EXCEPT ![r] = d]
  /\ UNCHANGED <<need, why>>
  /\ UNCHANGED CheckVars

\* Mutant of CheckCircuitBreaker: the breaker is not consulted.
CheckCircuitBreakerSkipped(r) ==
  /\ pc[r] = "breaker"
  /\ Goto(r, "loss")
  /\ UNCHANGED CheckVars

CheckCircuitBreaker(r) ==
  /\ pc[r] = "breaker"
  /\ IF tripped THEN Reject(r, "breaker") ELSE Goto(r, "loss")
  /\ UNCHANGED CheckVars

\* loss_pct >= max_daily_loss_pct, on an account worth at least 1
LossBreached == state.liquid >= 1 /\ -state.pnl * 100 >= MaxDailyLossPct * state.liquid

CheckDailyLoss(r) ==
  /\ pc[r] = "loss"
  /\ IF LossBreached THEN Reject(r, "loss") ELSE Goto(r, "drawdown")
  /\ UNCHANGED CheckVars

DrawdownBreached == peak >= 1 /\ (peak - state.liquid) * 100 >= MaxDrawdownPct * peak

CheckDrawdown(r) ==
  /\ pc[r] = "drawdown"
  /\ IF DrawdownBreached THEN Reject(r, "drawdown") ELSE Goto(r, "positions")
  /\ UNCHANGED CheckVars

CheckPositionCount(r) ==
  /\ pc[r] = "positions"
  /\ IF state.positions >= MaxPositions THEN Reject(r, "positions") ELSE Goto(r, "expiry")
  /\ UNCHANGED CheckVars

CheckExpiry(r) ==
  /\ pc[r] = "expiry"
  /\ IF r \in RolloverZone THEN Reject(r, "expiry") ELSE Goto(r, "fetch")
  /\ UNCHANGED CheckVars

\* GetAssetParams answers, or fails and the margin check is skipped.
FetchInitialMargin(r) ==
  /\ pc[r] = "fetch"
  /\ \/ \E m \in Margins : /\ need' = [need EXCEPT ![r] = m]
                         /\ pc' = [pc EXCEPT ![r] = "margin"]
                         /\ UNCHANGED <<dir, why>>
     \/ Goto(r, "submit")
  /\ UNCHANGED CheckVars

\* InsufficientMargin is the one error that does not trip the breaker.
CheckMargin(r) ==
  /\ pc[r] = "margin"
  /\ IF need[r] > state.free THEN Return(r)
     ELSE IF state.liquid > 1 /\ need[r] * 100 > state.liquid * PerTradePct
          THEN Reject(r, "margin") ELSE Goto(r, "submit")
  /\ UNCHANGED CheckVars

\* Mutant of TripExchange: a store, not an exchange.
TripStore(r) ==
  /\ pc[r] = "trip"
  /\ tripped' = TRUE
  /\ Goto(r, "reason")
  /\ UNCHANGED <<account, reason, snap, pos, market, extra>>

\* tripped_.exchange(true)
TripExchange(r) ==
  /\ pc[r] = "trip"
  /\ tripped' = TRUE
  /\ IF tripped THEN Return(r) ELSE Goto(r, "reason")
  /\ UNCHANGED <<account, reason, snap, pos, market, extra>>

TripReason(r) ==
  /\ pc[r] = "reason"
  /\ reason' = why[r]
  /\ Return(r)
  /\ UNCHANGED <<account, tripped, snap, pos, market, extra>>

\* A close is sent as a Sell whatever the position's side.
Submit(r) ==
  /\ pc[r] = "submit"
  /\ working' = working \cup
       {[tid |-> nextTid, buy |-> dir[r] = "Buy", runner |-> r]}
  /\ nextTid' = nextTid + 1
  /\ extra' = [extra EXCEPT ![r] = @ + (IF tripped /\ dir[r] # "Close" THEN 1 ELSE 0)]
  /\ Return(r)
  /\ UNCHANGED <<account, breaker, snap, pos, net, stream>>

\* executor_->submit() fails: the order does not reach the exchange.
SubmitFails(r) ==
  /\ pc[r] = "submit"
  /\ Return(r)
  /\ UNCHANGED CheckVars

-----------------------------------------------------------------------------
(* The exchange executes an order *)
Execute(o) ==
  /\ working' = working \ {o}
  /\ net' = [net EXCEPT ![o.runner] = @ + (IF o.buy THEN 1 ELSE -1)]
  /\ \E p \in Prices : stream' = Append(stream, [tid |-> o.tid, buy |-> o.buy,
                                                 runner |-> o.runner, price |-> p])
  /\ UNCHANGED <<account, breaker, thread, snap, pos, nextTid, extra>>

\* The steps of handle_signal() that wait for nobody.
LocalStep(r) ==
  \/ CheckCircuitBreaker(r) \/ CheckDailyLoss(r) \/ CheckDrawdown(r)
  \/ CheckPositionCount(r) \/ CheckExpiry(r) \/ CheckMargin(r)
  \/ TripExchange(r) \/ TripReason(r)

Next ==
  \/ RefreshFetch \/ RefreshStore \/ DeliverFill
  \/ \E r \in Runners : \/ \E d \in {"Buy", "Sell", "Close"} : Signal(r, d)
                        \/ LocalStep(r) \/ FetchInitialMargin(r)
                        \/ Submit(r) \/ SubmitFails(r)
  \/ \E o \in working : Execute(o)

Spec == Init /\ [][Next]_vars

\* A strategy thread inside check() keeps running until its RPC, which has no
\* deadline: no fairness for the RPCs, the exchange or the order stream.
LiveSpec == Spec /\ \A r \in Runners : WF_vars(LocalStep(r))

-----------------------------------------------------------------------------
(* Properties *)

\* The account never stands above the peak the drawdown is measured from,
\* although the poll thread and on_fill() both write both fields.
PeakDominates == state.liquid <= peak

\* open_pos_ never holds a long and a short entry together: on_fill() nets a
\* fill against any entry of the opposite side, whatever its symbol.
OneSidedBook ==
  \A t, u \in DOMAIN openPos : (openPos[t].qty > 0) = (openPos[u].qty > 0)

\* Once the breaker is tripped a runner submits at most the one entry whose
\* check was already past check_circuit_breaker().
OneMoreEntry == \A r \in Runners : extra[r] <= 1

\* trip_reason_ is written once, by the thread that tripped the breaker, and
\* names a limit: never the breaker's own refusal, which also asks for a trip.
ReasonIsFirstCause ==
  [][reason' # reason => reason = "none" /\ reason' \in Causes /\ tripped]_vars

\* An entry signal that starts its check while the daily loss is at the limit
\* ends with the breaker tripped, unless the account recovers meanwhile.
LossTrips ==
  \A r \in Runners :
    (pc[r] = "breaker" /\ LossBreached) ~> (tripped \/ ~LossBreached)

\* README.md:175 -- max_positions bounds the open positions over all symbols.
PositionLimit == Cardinality(Held) <= MaxPositions

\* README.md:182 -- the daily stop: an entry passes check_daily_loss() only while
\* the loss already realised by fills is below the limit too.
DailyStopCountsRealised ==
  [][\A r \in Runners : pc[r] = "loss" /\ pc'[r] = "drawdown" =>
        state.liquid < 1 \/ -booked * 100 < MaxDailyLossPct * state.liquid]_vars

\* risk_manager.cpp:111 -- a fill that opens a position is remembered with its
\* entry price: its runner had no position before, its tid has an entry after.
OpeningFillIsRemembered ==
  [][\A r \in Runners : pos[r] = 0 /\ pos'[r] # 0 =>
        Head(stream).tid \in DOMAIN openPos']_vars
=============================================================================
