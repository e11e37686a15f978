------------------------------ MODULE Rollover ------------------------------
(***************************************************************************)
(* How one strategy::StrategyRunner moves from an expiring future to the   *)
(* next one.  Four kinds of thread share the runner: the rollover watchdog *)
(* compares nearest_contract() with active_symbol_ every minute and queues *)
(* a RolloverEvent; the market data threads queue quotes of the symbol     *)
(* they were started for; the order stream's callback queues the updates   *)
(* of the active symbol; the strategy thread takes events off the queue    *)
(* and dispatches them.                                                    *)
(*                                                                         *)
(* The strategy is reduced to what the rollover touches: cfg_.symbol,      *)
(* position_, and whether it would enter ("armed": ORB, bias and flow).    *)
(* The clock counts days; the watchdog and the queue may lag behind it.    *)
(***************************************************************************)
EXTENDS Contract, Sequences

CONSTANTS
  Start,         \* the date the process starts on
  RolloverDays,  \* Config::rollover_days
  QueueSize,     \* what queue_ holds (kQueueSize - 1 in the code)
  None,          \* no symbol
  MaxDays        \* bound: days the clock advances

ASSUME RolloverAssumption ==
  /\ Start \in [year : 2020..2090, month : 1..12, day : 1..31]
  /\ Start.day <= MonthLength(Start.year, Start.month)
  /\ RolloverDays \in 0..14
  /\ QueueSize \in Nat \ {0} /\ MaxDays \in Nat
  /\ None \notin Codes

VARIABLES
  date,      \* today, UTC
  elapsed,   \* days since Start
  active,    \* active_symbol_
  cfgSym,    \* strategy_'s cfg_.symbol
  armed,     \* strategy_: an entry signal may come
  pos,       \* strategy_: position_, in contracts
  subs,      \* the symbol the subscriptions were started for
  late,      \* symbols of cancelled streams whose thread is still in Read()
  queue,     \* queue_
  wnext,     \* the watchdog's "next", between its two reads
  spc,       \* the strategy thread inside dispatch(RolloverEvent)
  rollTo,    \* that event's symbol
  order      \* external: the order at the exchange, or None

clock    == <<date, elapsed>>
strategy == <<cfgSym, armed, pos>>
feed     == <<subs, late>>
roll     == <<spc, rollTo>>
vars == <<clock, active, strategy, feed, queue, wnext, roll, order>>

Event == [kind : {"roll", "quote"}, sym : Codes] \cup [kind : {"fill"}, qty : {-1, 1}]

TypeOK ==
  /\ date.month \in 1..12 /\ date.day \in 1..MonthLength(date.year, date.month)
  /\ elapsed \in 0..MaxDays
  /\ active \in Codes /\ cfgSym \in Codes
  /\ armed \in BOOLEAN /\ pos \in Int
  /\ subs \in Codes \cup {None} /\ late \subseteq Codes
  /\ queue \in Seq(Event) /\ Len(queue) <= QueueSize
  /\ wnext \in Codes \cup {None}
  /\ spc \in {"idle", "activate", "subscribe"} /\ rollTo \in Codes \cup {None}
  /\ order = None \/ order \in [sym : Codes, qty : {-1, 1}]

\* main(): the symbol is chosen once, then the constructor subscribes to it.
Init ==
  /\ date = Start /\ elapsed = 0
  /\ active = NearestContract(Start, RolloverDays) /\ cfgSym = active
  /\ armed = FALSE /\ pos = 0
  /\ subs = active /\ late = {}
  /\ queue = <<>> /\ wnext = None
  /\ spc = "idle" /\ rollTo = None
  /\ order = None

NextDay ==
  /\ elapsed < MaxDays
  /\ elapsed' = elapsed + 1
  /\ date' = IF date.day < MonthLength(date.year, date.month)
             THEN [date EXCEPT !.day = @ + 1]
             ELSE IF date.month < 12 THEN [date EXCEPT !.month = @ + 1, !.day = 1]
             ELSE [year |-> date.year + 1, month |-> 1, day |-> 1]
  /\ UNCHANGED <<active, strategy, feed, queue, wnext, roll, order>>

\* Mutant of Push: the newest event is taken first.
PushFront(e) == queue' = IF Len(queue) < QueueSize THEN <<e>> \o queue ELSE queue

\* queue_.push(): an event that finds the queue full is dropped.
Push(e) == queue' = IF Len(queue) < QueueSize THEN Append(queue, e) ELSE queue

-----------------------------------------------------------------------------
(* The rollover thread: check_rollover() *)

WatchdogNearest ==
  /\ wnext = None
  /\ wnext' = NearestContract(date, RolloverDays)
  /\ UNCHANGED <<clock, active, strategy, feed, queue, roll, order>>

WatchdogSame ==
  /\ wnext # None /\ wnext = active
  /\ wnext' = None
  /\ UNCHANGED <<clock, active, strategy, feed, queue, roll, order>>

WatchdogPush ==
  /\ wnext # None /\ wnext # active
  /\ Len(queue) < QueueSize
  /\ Push([kind |-> "roll", sym |-> wnext])
  /\ wnext' = None
  /\ UNCHANGED <<clock, active, strategy, feed, roll, order>>

\* "queue full, rollover event dropped!": the next minute tries again
WatchdogDrop ==
  /\ wnext # None /\ wnext # active
  /\ Len(queue) = QueueSize
  /\ wnext' = None
  /\ UNCHANGED <<clock, active, strategy, feed, queue, roll, order>>

-----------------------------------------------------------------------------
(* The market data threads *)

PushQuote ==
  /\ subs # None
  /\ Push([kind |-> "quote", sym |-> subs])
  /\ UNCHANGED <<clock, active, strategy, feed, wnext, roll, order>>

\* A cancelled stream tests its stop flag before Read(), not after.
PushLateQuote(s) ==
  /\ s \in late
  /\ Push([kind |-> "quote", sym |-> s])
  /\ late' = late \ {s}
  /\ UNCHANGED <<clock, active, strategy, subs, wnext, roll, order>>

-----------------------------------------------------------------------------
(* The strategy thread: drain_queue() and dispatch() *)

Pop(kind) == /\ spc = "idle" /\ queue # <<>> /\ Head(queue).kind = kind
             /\ queue' = Tail(queue)

\* on_quote() passes over a quote of another symbol.  Otherwise it may open the
\* session (which clears position_), finalize the ORB and exit.
DispatchQuote ==
  /\ Pop("quote")
  /\ IF Head(queue).sym # cfgSym THEN UNCHANGED <<armed, pos, order>>
     ELSE /\ armed' \in BOOLEAN
          /\ \/ pos' \in {pos, 0} /\ UNCHANGED order
             \/ /\ pos > 0 /\ order = None
                /\ order' = [sym |-> cfgSym, qty |-> -1]
                /\ UNCHANGED pos
  /\ UNCHANGED <<clock, active, cfgSym, feed, wnext, roll>>

\* RiskManager::check_expiry(): it looks for '-' and '.' in the code and passes
\* when they are not there.
InWindow(code) ==
  /\ date.year = 2020 + code.digit /\ date.month = MonthOf(code.letter)
  /\ date.day >= ExpiryDay(code) - RolloverDays
Expired(code) ==
  \/ date.year > 2020 + code.digit
  \/ date.year = 2020 + code.digit /\ date.month > MonthOf(code.letter)
CheckExpiry(code) == ~ code.dashed \/ ~ (Expired(code) \/ InWindow(code))

\* on_book_event() or on_trade_event() signals and handle_signal() submits; one
\* order at a time (bound).
Enter ==
  /\ spc = "idle" /\ armed /\ pos = 0 /\ order = None
  /\ CheckExpiry(cfgSym)
  /\ order' = [sym |-> cfgSym, qty |-> 1]
  /\ UNCHANGED <<clock, active, strategy, feed, queue, wnext, roll>>

DispatchFill ==
  /\ Pop("fill")
  /\ pos' = pos + Head(queue).qty
  /\ UNCHANGED <<clock, active, cfgSym, armed, feed, wnext, roll, order>>

\* unsubscribe_all() sets the stop flags; on_session_open() resets the strategy.
RollReset ==
  /\ Pop("roll")
  /\ rollTo' = Head(queue).sym
  /\ late' = late \cup {subs} /\ subs' = None
  /\ armed' = FALSE /\ pos' = 0
  /\ spc' = "activate"
  /\ UNCHANGED <<clock, active, cfgSym, wnext, order>>

\* Mutant of RollActivate: the active symbol is not changed.
RollActivateForgets ==
  /\ spc = "activate"
  /\ spc' = "subscribe"
  /\ UNCHANGED <<clock, active, strategy, feed, queue, wnext, rollTo, order>>

RollActivate ==
  /\ spc = "activate"
  /\ active' = rollTo
  /\ spc' = "subscribe"
  /\ UNCHANGED <<clock, strategy, feed, queue, wnext, rollTo, order>>

\* Mutant of RollSubscribe: the strategy's own symbol, as in the constructor.
RollSubscribeOld ==
  /\ spc = "subscribe"
  /\ subs' = cfgSym
  /\ spc' = "idle" /\ rollTo' = None
  /\ UNCHANGED <<clock, active, strategy, late, queue, wnext, order>>

\* load_history(): on_bar() passes over the new contract's bars, whose symbol is
\* not cfg_.symbol.  Then start_subscriptions().
RollSubscribe ==
  /\ spc = "subscribe"
  /\ subs' = rollTo
  /\ spc' = "idle" /\ rollTo' = None
  /\ UNCHANGED <<clock, active, strategy, late, queue, wnext, order>>

-----------------------------------------------------------------------------
(* make_order_callback(), on the order stream's thread *)

\* The exchange reports the order filled; updates of a symbol that is not the
\* active one are passed over.
OrderFilled ==
  /\ order # None
  /\ IF order.sym = active THEN Push([kind |-> "fill", qty |-> order.qty])
                           ELSE UNCHANGED queue
  /\ order' = None
  /\ UNCHANGED <<clock, active, strategy, feed, wnext, roll>>

Watchdog == WatchdogNearest \/ WatchdogSame \/ WatchdogPush \/ WatchdogDrop
Dispatch == \/ DispatchQuote \/ DispatchFill
            \/ RollReset \/ RollActivate \/ RollSubscribe

Next == \/ NextDay \/ Watchdog \/ Dispatch \/ Enter
        \/ PushQuote \/ \E s \in late : PushLateQuote(s)
        \/ OrderFilled

Spec == Init /\ [][Next]_vars

\* The clock alone, to run through years of dates.
CalendarSpec == Init /\ [][NextDay]_vars

\* The watchdog wakes every minute, the strategy thread polls for ever.
LiveSpec == Spec /\ WF_vars(Watchdog) /\ WF_vars(Dispatch)

-----------------------------------------------------------------------------
(* Properties *)

\* third_friday() against a calendar that only counts: the weekday of Start moved
\* on by the days elapsed.  It is a Friday, and the third one.
ThirdFridayIsFriday ==
  date.day = ThirdFriday(date.year, date.month) =>
    /\ (Weekday(Start.year, Start.month, Start.day) + elapsed) % 7 = 5
    /\ date.day \in 15..21

\* nearest_contract() against its meaning: of all the quarterly futures, the first
\* one to expire more than RolloverDays from today.
NearestIsFirstTradable ==
  LET today == DayNumber(date.year, date.month, date.day)
      Expiry(e) == DayNumber(e.year, e.month, ThirdFriday(e.year, e.month))
      tradable == {e \in [year : date.year..(date.year + 1), month : QuarterlyMonths] :
                     Expiry(e) > today + RolloverDays}
      near == NearestExpiry(date, RolloverDays)
  IN  near \in tradable /\ \A e \in tradable : Expiry(near) <= Expiry(e)

\* The expiry a code stands for, seen from a year close to it.
ExpiryOf(code, year) ==
  [year |-> CHOOSE y \in (year - 3)..(year + 6) : y % 10 = code.digit,
   month |-> MonthOf(code.letter)]

\* The runner only ever rolls to a later contract, although the watchdog queues
\* one event a minute until the first is dispatched, and events wait in the queue
\* while the date moves on.
RollsForward ==
  [][active' # active =>
       LET old == ExpiryOf(active, date.year)
           new == ExpiryOf(active', date.year)
       IN  12 * new.year + new.month > 12 * old.year + old.month]_vars

\* Between dispatches the market data streams are the active symbol's: the order
\* callback and the feed never disagree for longer than one dispatch.
FeedIsActive == spc = "idle" => subs = active

\* A contract that enters its window is left: whatever RolloverEvents were dropped
\* because the queue was full, unless the watchdog finds it full for ever.
Rolled ==
  <>[][~ WatchdogDrop]_vars =>
    ((active # NearestContract(date, RolloverDays))
       ~> (active = NearestContract(date, RolloverDays)))

\* strategy_runner.hpp:171 -- "the position is already closed": a rollover finds no
\* position to forget.
RolledFlat == [][spc = "idle" /\ spc' = "activate" => pos = 0]_vars

\* README.md:198 -- the bot trades the contract it rolled to: its strategy takes
\* the quotes it is subscribed to.
StrategyFollowsRoll == spc = "idle" => cfgSym = subs

\* contract.hpp:102 -- until 2030 expiry_day() gives the expiry of the contract
\* nearest_contract() chose.
ExpiryRoundTrip ==
  LET e == NearestExpiry(date, RolloverDays)
  IN  date.year < 2030 => ExpiryDay(Code(e)) = ThirdFriday(e.year, e.month)

\* risk_manager.cpp:291 -- RolloverDays before the expiry, entries are refused.
NoEntryInWindow ==
  [][order' # None /\ order' # order /\ order'.qty = 1 => ~ InWindow(order'.sym)]_vars

\* strategy_runner.hpp:73 -- the callback drops what belongs to other instruments:
\* the runner's own order is never among it.
OwnFillsTaken == [][order # None /\ order' = None => order.sym = active]_vars
=============================================================================
