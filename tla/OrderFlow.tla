----------------------------- MODULE OrderFlow ------------------------------
(***************************************************************************)
(* The three analyzers ConfluenceStrategy asks before an entry, on the     *)
(* strategy thread: OrderBookState's decaying score, TradeFlowAnalyzer's   *)
(* window of trades and SpoofFilter's flags, with the session reset that   *)
(* clears all three.                                                       *)
(*                                                                         *)
(* A book event carries the local clock, a trade the exchange's, which may *)
(* lag behind it.  The score halves with every unit of time and is kept in *)
(* units of 2^-MaxTime, so that halving is exact.  last(), the average     *)
(* volume and on_large_fill() have no caller in the bot: a cancel ratio is *)
(* always 1 and they are left out.                                         *)
(***************************************************************************)
EXTENDS Integers, Sequences, FiniteSets, SequencesExt

CONSTANTS
  BookLevels,      \* kBookLevels
  Keys,            \* of round_price(): the prices of events
  BookEvents,      \* BookLevelEvent without its time
  Volumes,         \* TradeEvent::volume
  Threshold,       \* OrderBookStateConfig::signal_threshold
  TfiWindow, VelocityWindow,          \* TradeFlowAnalyzerConfig
  LargeQty, MinEvents, SpoofWindow, FlagTtl,   \* SpoofFilterConfig
  MaxLag,          \* a trade's time is at most so far behind
  MaxTime,         \* bound: the clock
  MaxEvents        \* bound: events of a session

ASSUME FlowAssumption ==
  /\ BookLevels \in Nat \ {0} /\ MinEvents \in Nat \ {0, 1}
  /\ BookEvents \subseteq [level : Int, price : Keys, bid : Nat \X Nat, ask : Nat \X Nat]
  /\ Volumes \subseteq Nat \ {0}
  /\ {Threshold, TfiWindow, VelocityWindow, LargeQty, SpoofWindow, FlagTtl,
      MaxLag, MaxTime, MaxEvents} \subseteq Nat

VARIABLES
  now,        \* the clock
  ob,         \* OrderBookState: score_, level_scores_, last_event_ts_
  tfi,        \* TradeFlowAnalyzer: window_, velocity_window_, cvd_
  spoof,      \* SpoofFilter: stats_, flagged_
  signal,     \* what try_enter() has just returned
  books,      \* history: the book events of this session
  trades      \* history: its trades

flowVars == <<now, ob, tfi, spoof, signal, books, trades>>

Slots == 0..(BookLevels - 1)
NoTime == -1    \* time_point{}
Times == 0..MaxTime
Trade == [ts : Times, buy : BOOLEAN, volume : Volumes]

TypeOKFlow ==
  /\ now \in Times
  /\ ob \in [score : Int, levels : [Slots -> Int], last : Times \cup {NoTime}]
  /\ tfi \in [window : Seq(Trade), velocity : Seq(Times), cvd : Int]
  /\ spoof \in [stats   : [Keys -> [cancels : Nat, added : Times \cup {NoTime}]],
               flagged : [Keys -> Times \cup {NoTime}]]
  /\ signal \in {"None", "Long", "Short"}
  /\ books \in Seq([event : BookEvents, ts : Times]) /\ trades \in Seq(Trade)

-----------------------------------------------------------------------------
(* OrderBookState *)

\* std::pow() of two
Pow2[n \in Nat] == IF n = 0 THEN 1 ELSE 2 * Pow2[n - 1]

\* precompute_weights(), up to their sum
Weight(k) == Pow2[BookLevels - 1 - k]

FreshBook == [score |-> 0, levels |-> [k \in Slots |-> 0], last |-> NoTime]

\* Mutant of ApplyTimeDecay: last_event_ts_ is left where it was.
ApplyTimeDecayAgain(b, t) ==
  IF b.last = NoTime THEN [b EXCEPT !.last = t]
  ELSE LET factor == Pow2[t - b.last]
       IN  [score |-> b.score \div factor,
            levels |-> [k \in Slots |-> b.levels[k] \div factor], last |-> b.last]

\* apply_time_decay(): the first event of a session only sets the time.
ApplyTimeDecay(b, t) ==
  IF b.last = NoTime THEN [b EXCEPT !.last = t]
  ELSE LET factor == Pow2[t - b.last]
       IN  [score |-> b.score \div factor,
            levels |-> [k \in Slots |-> b.levels[k] \div factor], last |-> t]

Grown(side) == side[2] - side[1]
OfiDelta(e) == (Grown(e.bid) - Grown(e.ask)) * Pow2[MaxTime]

\* on_book_event(): a level out of range changes nothing.
ObOnBookEvent(b, e, t) ==
  IF e.level \notin Slots THEN b
  ELSE LET d == ApplyTimeDecay(b, t)
       IN  [d EXCEPT !.levels[e.level] = @ + OfiDelta(e),
                     !.score = @ + Weight(e.level) * OfiDelta(e)]

ObVote(b) ==
  CASE b.score > Threshold * Pow2[MaxTime] -> 1
    [] b.score < -(Threshold * Pow2[MaxTime]) -> -1
    [] OTHER -> 0

-----------------------------------------------------------------------------
(* TradeFlowAnalyzer *)

NoTrades == [window |-> <<>>, velocity |-> <<>>, cvd |-> 0]

TimesOf(ts) == [k \in 1..Len(ts) |-> ts[k].ts]

\* while (!empty && front is older than from) pop_front()
DropOld(seq, times, from) ==
  LET young == {k \in 1..Len(seq) : times[k] >= from}
  IN  IF young = {} THEN <<>>
      ELSE SubSeq(seq, CHOOSE k \in young : \A j \in young : k <= j, Len(seq))

Signed(t) == IF t.buy THEN t.volume ELSE -t.volume

\* Mutant of OnTrade: a trade exactly as old as the window is dropped.
OnTradeStrict(f, t) ==
  [window   |-> Append(DropOld(f.window, TimesOf(f.window), t.ts - TfiWindow + 1), t),
   velocity |-> Append(DropOld(f.velocity, f.velocity, t.ts - VelocityWindow + 1), t.ts),
   cvd      |-> f.cvd + Signed(t)]

\* on_trade(), with evict_old()
OnTrade(f, t) ==
  [window   |-> Append(DropOld(f.window, TimesOf(f.window), t.ts - TfiWindow), t),
   velocity |-> Append(DropOld(f.velocity, f.velocity, t.ts - VelocityWindow), t.ts),
   cvd      |-> f.cvd + Signed(t)]

VolumeOf(ts) == FoldLeft(LAMBDA sum, t : sum + t.volume, 0, ts)
Imbalance(ts) == FoldLeft(LAMBDA sum, t : sum + Signed(t), 0, ts)

\* vote(): normalized_tfi() against 0.3
TfiVoteOf(ts) ==
  CASE 10 * Imbalance(ts) > 3 * VolumeOf(ts) -> 1
    [] 10 * Imbalance(ts) < -(3 * VolumeOf(ts)) -> -1
    [] OTHER -> 0

-----------------------------------------------------------------------------
(* SpoofFilter *)

\* An absent entry of stats_ and a new one are the same to every reader.
NoStats == [cancels |-> 0, added |-> NoTime]
NoSpoof == [stats |-> [p \in Keys |-> NoStats], flagged |-> [p \in Keys |-> NoTime]]

\* evict_old(): an entry that was never added to has the epoch as its time.
EvictOld(f, t) ==
  [f EXCEPT !.stats = [p \in Keys |->
     IF f.stats[p].added = NoTime \/ t - f.stats[p].added > SpoofWindow
     THEN NoStats ELSE f.stats[p]]]

\* maybe_flag(): enough cancels, and their ratio is 1
MaybeFlag(f, p, t) ==
  IF f.stats[p].cancels < MinEvents THEN f ELSE [f EXCEPT !.flagged[p] = t]

OnLargeAdd(f, p, t) == EvictOld([f EXCEPT !.stats[p].added = t], t)

\* Mutant of OnLargeCancel: the entry is forgotten once it has been counted.
OnLargeCancelForgets(f, p, t) ==
  LET g == MaybeFlag([f EXCEPT !.stats[p].cancels = @ + 1], p, t)
  IN  EvictOld([g EXCEPT !.stats[p].added = NoTime], t)

OnLargeCancel(f, p, t) ==
  EvictOld(MaybeFlag([f EXCEPT !.stats[p].cancels = @ + 1], p, t), t)

Added(side) == Grown(side) > LargeQty
Gone(side) == side[1] > LargeQty /\ side[2] = 0

\* update_spoof_on_book(): adds before cancels, the bid before the ask
UpdateSpoofOnBook(f, e, t) ==
  LET a == IF Added(e.bid) THEN OnLargeAdd(f, e.price, t) ELSE f
      b == IF Added(e.ask) THEN OnLargeAdd(a, e.price, t) ELSE a
      c == IF Gone(e.bid) THEN OnLargeCancel(b, e.price, t) ELSE b
  IN  IF Gone(e.ask) THEN OnLargeCancel(c, e.price, t) ELSE c

IsSpoofed(f, p, t) == f.flagged[p] # NoTime /\ t - f.flagged[p] < FlagTtl

-----------------------------------------------------------------------------
(* ConfluenceStrategy *)

InitFlow ==
  /\ now = 0
  /\ ob = FreshBook /\ tfi = NoTrades /\ spoof = NoSpoof
  /\ signal = "None" /\ books = <<>> /\ trades = <<>>

\* External: the clock, and the end of an event's instant
ClockMoves ==
  /\ now < MaxTime /\ now' = now + 1
  /\ signal' = "None"
  /\ UNCHANGED <<ob, tfi, spoof, books, trades>>

Strong(vote) == vote \in {-2, 2}

\* try_enter() as far as it asks the analyzers.  The position, the bias and the
\* five seconds between signals (module ConfluenceStrategy) may forbid any entry.
TryEnter(t) ==
  LET vote == ObVote(ob') + TfiVoteOf(tfi'.window)
  IN  \/ /\ Strong(vote)
         /\ \E bid, ask \in Keys : ~ IsSpoofed(spoof', bid, t) /\ ~ IsSpoofed(spoof', ask, t)
         /\ signal' = IF vote > 0 THEN "Long" ELSE "Short"
      \/ signal' = "None"

Room == Len(books) + Len(trades) < MaxEvents

OnBookEvent(e) ==
  /\ Room
  /\ spoof' = UpdateSpoofOnBook(spoof, e, now)
  /\ ob' = ObOnBookEvent(ob, e, now)
  /\ UNCHANGED <<now, tfi, trades>>
  /\ TryEnter(now)
  /\ books' = Append(books, [event |-> e, ts |-> now])

OnTradeEvent(t) ==
  /\ Room
  /\ tfi' = OnTrade(tfi, t)
  /\ UNCHANGED <<now, ob, spoof, books>>
  /\ TryEnter(t.ts)
  /\ trades' = Append(trades, t)

\* on_session_open(): reset(), and session_reset() of the two others
OnSessionOpen ==
  /\ ob' = FreshBook /\ tfi' = NoTrades /\ spoof' = NoSpoof
  /\ signal' = "None" /\ books' = <<>> /\ trades' = <<>>
  /\ UNCHANGED now

NextFlow ==
  \/ ClockMoves \/ OnSessionOpen
  \/ \E e \in BookEvents : OnBookEvent(e)
  \/ \E t \in Trade : now - t.ts \in 0..MaxLag /\ OnTradeEvent(t)

SpecFlow == InitFlow /\ [][NextFlow]_flowVars

-----------------------------------------------------------------------------
(* Properties *)

\* What an event adds to the score, and what is left of it later
InRange(b) == b.event.level \in Slots
Share(b, until) ==
  IF InRange(b) THEN (Weight(b.event.level) * OfiDelta(b.event)) \div Pow2[until - b.ts] ELSE 0
DecayedFlow(bs, until) ==
  LET sum[n \in 0..Len(bs)] == IF n = 0 THEN 0 ELSE sum[n - 1] + Share(bs[n], until)
  IN  sum[Len(bs)]

\* The time of the last event in range
LastTime(bs) == Max({NoTime} \cup {bs[k].ts : k \in {j \in 1..Len(bs) : InRange(bs[j])}})

\* order_book_state.hpp:29 -- however the events are spaced, the running score is
\* what the definition gives: every event of the session at its level's weight,
\* halved once per unit of time up to the last event.  One that is out of range
\* neither counts nor moves that time.
ScoreIsDecayedFlow == ob.score = DecayedFlow(books, LastTime(books))

\* A window holds the latest trades of the session, in order and the last one always.
\* What has left it is too old for some trade that came; what is in it and too old
\* for one came late, behind a trade of the window that is recent enough for it.
Kept(win, times, width) ==
  /\ Len(win) <= Len(times) /\ (win = <<>> => times = <<>>)
  /\ LET gone == Len(times) - Len(win)
     IN  /\ \A k \in 1..Len(win) : win[k] = times[gone + k]
         /\ \A k \in 1..gone : \E j \in 1..Len(times) : times[k] < times[j] - width
         /\ \A k \in 1..Len(win), j \in 1..Len(times) :
              \/ win[k] >= times[j] - width
              \/ \E i \in 1..(k - 1) : win[i] >= times[j] - width

\* trade_flow_analyzer.hpp:50 -- evict_old() leaves out no trade that is recent, and
\* keeps one that is not only if it came late, behind a younger one: of a feed in
\* order the windows are exactly what their widths say.
WindowIsRecent ==
  /\ Kept(TimesOf(tfi.window), TimesOf(trades), TfiWindow)
  /\ Kept(tfi.velocity, TimesOf(trades), VelocityWindow)

\* README.md:13 -- the trade flow is that of a 5-second window: no trade in it is
\* older than the window reaches back from the last one.
OnlyRecentTrades ==
  \A k \in 1..Len(tfi.window) : tfi.window[k].ts >= Last(tfi.window).ts - TfiWindow

CancelsAt(p) == {c \in (1..Len(books)) \X {"bid", "ask"} :
                   books[c[1]].event.price = p /\ Gone(books[c[1]].event[c[2]])}
AddsAt(p) == {k \in 1..Len(books) : /\ books[k].event.price = p
                                    /\ \E s \in {"bid", "ask"} : Added(books[k].event[s])}

\* A veto rests on what happened at its price in this session: a large order was
\* shown, MinEvents were withdrawn, one of them within the time a flag lasts.
VetoIsEarned ==
  \A p \in Keys : IsSpoofed(spoof, p, now) =>
    /\ Cardinality(CancelsAt(p)) >= MinEvents
    /\ AddsAt(p) # {}
    /\ \E c \in CancelsAt(p) : now - books[c[1]].ts < FlagTtl

\* The other way round: an order shown and MinEvents withdrawn within the window is
\* a veto as long as a flag lasts, whatever happened at other prices meanwhile.
VetoIsGiven ==
  \A p \in Keys : \A a \in AddsAt(p) :
    LET after == {c \in CancelsAt(p) : c[1] > a /\ books[c[1]].ts - books[a].ts <= SpoofWindow}
    IN  /\ Cardinality(after) >= MinEvents
        /\ \E c \in after : now - books[c[1]].ts < FlagTtl
        => IsSpoofed(spoof, p, now)

\* spoof_filter.hpp:65 -- is_spoofed() vetoes a price for what happened at it in this
\* session and nothing else, and does so whenever enough has happened, whatever was
\* evicted meanwhile at this price or at others.
VetoIsExact == VetoIsEarned /\ VetoIsGiven

\* README.md:13 -- the trade flow of an entry is that of a 5-second window: no trade
\* behind the vote of an entry is older than the window.
EntryOnRecentTrades ==
  signal # "None" => \A k \in 1..Len(tfi.window) : tfi.window[k].ts >= now - MaxLag - TfiWindow
=============================================================================
