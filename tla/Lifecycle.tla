----------------------------- MODULE Lifecycle -----------------------------
(***************************************************************************)
(* main.cpp: what is started in which order, which threads run beside it,  *)
(* and how a signal takes it all down again, with the constructor and the  *)
(* destructor of StrategyRunner, TokenManager::init(), the shutdown()s,    *)
(* and the health server.                                                  *)
(*                                                                         *)
(* A stream's thread (orders, market data, token) is known here by what    *)
(* StreamThread promises of it.  A runner's five market data threads are   *)
(* alike and stand as one, as do the updates of all orders; its queue is   *)
(* the set of the kinds of event that wait in it.                          *)
(***************************************************************************)
EXTENDS Integers, Sequences, Functions

CONSTANT N   \* instruments, one StrategyRunner each

ASSUME LifecycleAssumption == N \in Nat \ {0}

Runners == 1..N
Renewal == <<"token", 0>>
Poll == <<"risk", 0>>
Orders == <<"order", 0>>
Health == <<"health", 0>>
Strategy(r) == <<"strategy", r>>
Watchdog(r) == <<"watchdog", r>>
Md(r) == <<"md", r>>

\* The threads somebody joins, and the detached ones
Joined == {Renewal, Poll, Orders, Health} \cup {Strategy(r) : r \in Runners}
            \cup {Watchdog(r) : r \in Runners}
Detached == {Md(r) : r \in Runners}
Threads == Joined \cup Detached

VARIABLES
  step,      \* where main() is
  cur,       \* the runner it constructs or destroys
  dry,       \* --dry-run: no OrderClient
  sig,       \* g_shutdown
  phase,     \* of every thread: "none", "working", "calling" or "ended"; a stream's
             \* is "calling" from the first to the last item of a message
  told,      \* the stop flag each thread looks at
  late,      \* streams that have taken their one message since then
  freed,     \* the runners whose memory is gone
  queue,     \* queue_ of every runner
  event,     \* what a strategy thread is dispatching, or "none"
  cbs,       \* set_update_callback() was called
  to         \* the runner whose callback the order stream is in, or 0

process == <<step, cur, dry, sig>>
threads == <<phase, told, late>>
runners == <<freed, queue, event>>
orders  == <<cbs, to>>
vars == <<process, threads, runners, orders>>

\* Mutant of Program: the order stream is shut down before the runners.
ProgramOrdersFirst ==
  <<"auth", "risk", "client", "history", "strategy", "subscribe", "subscribing", "watchdog",
    "callbacks", "health", "run", "stop_health", "join_health", "stop_order", "join_order",
    "stop_runner", "join_watchdog", "join_strategy", "free", "stop_risk", "join_risk",
    "stop_token", "join_token", "exited">>

\* The statements in their order; "history" to "watchdog" and "stop_runner" to "free"
\* are repeated for every runner.
Program ==
  <<"auth", "risk", "client", "history", "strategy", "subscribe", "subscribing", "watchdog",
    "callbacks", "health", "run", "stop_health", "join_health", "stop_runner",
    "join_watchdog", "join_strategy", "free", "stop_order", "join_order", "stop_risk",
    "join_risk", "stop_token", "join_token", "exited">>

After(s) == Program[1 + CHOOSE i \in DOMAIN Program : Program[i] = s]

\* "data" is a market data event or an order update.
Events == {"data", "roll"}

TypeOK ==
  /\ step \in Range(Program) \cup {"failed"} /\ cur \in Runners /\ dry \in BOOLEAN /\ sig \in BOOLEAN
  /\ phase \in [Threads -> {"none", "working", "calling", "ended"}]
  /\ told \in [Threads -> BOOLEAN] /\ late \subseteq Threads
  /\ freed \subseteq Runners
  /\ queue \in [Runners -> SUBSET Events] /\ event \in [Runners -> Events \cup {"none"}]
  /\ cbs \in BOOLEAN /\ to \in 0..N

Init ==
  /\ step = "auth" /\ cur = 1 /\ dry \in BOOLEAN /\ sig = FALSE
  /\ phase = [t \in Threads |-> "none"] /\ told = [t \in Threads |-> FALSE] /\ late = {}
  /\ freed = {} /\ queue = [r \in Runners |-> {}] /\ event = [r \in Runners |-> "none"]
  /\ cbs = FALSE /\ to = 0

-----------------------------------------------------------------------------
(* main() *)

At(s) == step = s /\ step' = After(s)
Start(ts) == phase' = [t \in Threads |-> IF t \in ts THEN "working" ELSE phase[t]]
Tell(ts) == told' = [t \in Threads |-> t \in ts \/ told[t]]

\* init(): Auth(), TokenDetails(), at least one account; or main() returns 1
Auth ==
  /\ step = "auth"
  /\ \/ step' = "failed" /\ UNCHANGED phase
     \/ step' = After("auth") /\ Start({Renewal})
  /\ UNCHANGED <<cur, dry, sig, told, late, runners, orders>>

\* refresh_account(), then the poll thread
StartRisk ==
  /\ At("risk") /\ Start({Poll})
  /\ UNCHANGED <<cur, dry, sig, told, late, runners, orders>>

\* OrderClient's constructor starts the stream; nobody listens to it yet.
MakeClient ==
  /\ At("client") /\ Start(IF dry THEN {} ELSE {Orders})
  /\ UNCHANGED <<cur, dry, sig, told, late, runners, orders>>

\* StrategyRunner's constructor: load_history() changes nothing that is shared.
LoadHistory ==
  /\ At("history")
  /\ UNCHANGED <<cur, dry, sig, threads, runners, orders>>

\* Mutant of StartStrategy: the watchdog is started with the strategy thread.
StartBoth ==
  /\ At("strategy") /\ Start({Strategy(cur), Watchdog(cur)})
  /\ UNCHANGED <<cur, dry, sig, told, late, runners, orders>>

StartStrategy ==
  /\ At("strategy") /\ Start({Strategy(cur)})
  /\ UNCHANGED <<cur, dry, sig, told, late, runners, orders>>

\* start_subscriptions(): the first threads run while the later handles are stored.
SubscribeFirst ==
  /\ At("subscribe") /\ Start({Md(cur)})
  /\ UNCHANGED <<cur, dry, sig, told, late, runners, orders>>

SubscribeLast ==
  /\ At("subscribing")
  /\ UNCHANGED <<cur, dry, sig, threads, runners, orders>>

\* start_rollover_watchdog(), and on to the next runner
StartWatchdog ==
  /\ step = "watchdog" /\ Start({Watchdog(cur)})
  /\ step' = IF cur < N THEN "history" ELSE After("watchdog")
  /\ cur' = IF cur < N THEN cur + 1 ELSE 1
  /\ UNCHANGED <<dry, sig, told, late, runners, orders>>

SetUpdateCallback ==
  /\ At("callbacks") /\ cbs' = ~ dry
  /\ UNCHANGED <<cur, dry, sig, threads, runners, to>>

\* serve_loop() returns at once when socket() or bind() fails.
StartHealth ==
  /\ At("health")
  /\ Start({Health}) \/ phase' = [phase EXCEPT ![Health] = "ended"]
  /\ UNCHANGED <<cur, dry, sig, told, late, runners, orders>>

SeesSignal ==
  /\ sig /\ At("run")
  /\ UNCHANGED <<cur, dry, sig, threads, runners, orders>>

\* The shutdown()s set a flag, then join.  A runner's two threads share one flag.
StopStep == [s \in {"stop_health", "stop_runner", "stop_order", "stop_risk", "stop_token"} |->
  CASE s = "stop_health" -> {Health} [] s = "stop_runner" -> {Strategy(cur), Watchdog(cur)}
    [] s = "stop_order" -> {Orders} [] s = "stop_risk" -> {Poll} [] s = "stop_token" -> {Renewal}]

JoinStep == [s \in {"join_health", "join_watchdog", "join_strategy", "join_order", "join_risk",
                    "join_token"} |->
  CASE s = "join_health" -> Health [] s = "join_watchdog" -> Watchdog(cur)
    [] s = "join_strategy" -> Strategy(cur) [] s = "join_order" -> Orders
    [] s = "join_risk" -> Poll [] s = "join_token" -> Renewal]

\* Mutant of Stop: the flag is not set.
StopUntold(s) ==
  /\ At(s)
  /\ UNCHANGED <<cur, dry, sig, threads, runners, orders>>

Stop(s) ==
  /\ At(s) /\ Tell(StopStep[s])
  /\ UNCHANGED <<cur, dry, sig, phase, late, runners, orders>>

\* joinable() is false for a thread that was never started (a dry run's order stream).
Join(s) ==
  /\ At(s) /\ phase[JoinStep[s]] \in {"none", "ended"}
  /\ UNCHANGED <<cur, dry, sig, threads, runners, orders>>

\* ~StrategyRunner() has returned: its members go, the Subscriptions by setting the
\* stop flags of threads that are not waited for.  vector::clear() goes on.
Free ==
  /\ step = "free" /\ Tell({Md(cur)})
  /\ freed' = freed \cup {cur}
  /\ step' = IF cur < N THEN "stop_runner" ELSE After("free")
  /\ cur' = IF cur < N THEN cur + 1 ELSE 1
  /\ UNCHANGED <<dry, sig, phase, late, queue, event, orders>>

Main ==
  \/ Auth \/ StartRisk \/ MakeClient
  \/ LoadHistory \/ StartStrategy \/ SubscribeFirst \/ SubscribeLast \/ StartWatchdog
  \/ SetUpdateCallback \/ StartHealth \/ SeesSignal
  \/ \E s \in DOMAIN StopStep : Stop(s)
  \/ \E s \in DOMAIN JoinStep : Join(s)
  \/ Free

-----------------------------------------------------------------------------
(* The threads beside it *)

Move(t, from, into) == phase[t] = from /\ phase' = [phase EXCEPT ![t] = into]

\* StreamThread: a message is taken, one at most after the stop flag
Take(t) ==
  /\ Move(t, "working", "calling")
  /\ told[t] => t \notin late
  /\ late' = IF told[t] THEN late \cup {t} ELSE late
  /\ UNCHANGED told

\* A loop that waits, polls or reads ends when it next looks at its flag.
Ends(t) ==
  /\ t \in {Renewal, Poll, Orders} \cup Detached \cup {Watchdog(r) : r \in Runners}
  /\ told[t] /\ Move(t, "working", "ended")
  /\ UNCHANGED <<process, told, late, runners, orders>>

\* What a push leaves in the queue; a freed one is not there to keep it.
Pushed(r, e) == IF r \in freed THEN queue ELSE [queue EXCEPT ![r] = @ \cup {e}]

MdCalls(r) ==
  /\ Take(Md(r))
  /\ UNCHANGED <<process, runners, orders>>

\* A callback for each item
MdPushes(r) ==
  /\ phase[Md(r)] = "calling"
  /\ queue' = Pushed(r, "data")
  /\ UNCHANGED <<process, threads, freed, event, orders>>

MdReturns(r) ==
  /\ Move(Md(r), "calling", "working")
  /\ UNCHANGED <<process, told, late, runners, orders>>

\* for (const auto& cb : cbs) cb(upd): the runners in turn
OrderCalls ==
  /\ cbs /\ Take(Orders) /\ to' = 1
  /\ UNCHANGED <<process, runners, cbs>>

OrderCallsNext ==
  /\ to \in 1..(N - 1) /\ to' = to + 1
  /\ queue' = Pushed(to, "data")
  /\ UNCHANGED <<process, threads, freed, event, cbs>>

\* Another order in the same message
OrderNextItem ==
  /\ to = N /\ to' = 1
  /\ queue' = Pushed(to, "data")
  /\ UNCHANGED <<process, threads, freed, event, cbs>>

OrderReturns ==
  /\ to = N /\ to' = 0
  /\ Move(Orders, "calling", "working")
  /\ queue' = Pushed(to, "data")
  /\ UNCHANGED <<process, told, late, freed, event, cbs>>

\* check_rollover() finds a new contract.
WatchdogPushes(r) ==
  /\ phase[Watchdog(r)] = "working" /\ ~ told[Watchdog(r)]
  /\ queue' = Pushed(r, "roll")
  /\ UNCHANGED <<process, threads, freed, event, orders>>

\* drain_queue(): pop() and dispatch(); once more after the flag is seen
Pop(r, e) ==
  /\ e \in queue[r] /\ queue' = [queue EXCEPT ![r] = @ \ {e}]
  /\ event' = [event EXCEPT ![r] = e]
  /\ Move(Strategy(r), "working", "calling")
  /\ UNCHANGED <<process, told, late, freed, orders>>

\* handle_signal() may submit an order; a rollover replaces the handles.
Dispatch(r) ==
  /\ Move(Strategy(r), "calling", "working")
  /\ event' = [event EXCEPT ![r] = "none"]
  /\ UNCHANGED <<process, told, late, freed, queue, orders>>

StrategyEnds(r) ==
  /\ told[Strategy(r)] /\ queue[r] = {}
  /\ Move(Strategy(r), "working", "ended")
  /\ UNCHANGED <<process, told, late, runners, orders>>

-----------------------------------------------------------------------------
(* serve_loop() *)

\* accept(), then recv() without a timeout
HealthAccepts ==
  /\ ~ told[Health] /\ Move(Health, "working", "calling")
  /\ UNCHANGED <<process, told, late, runners, orders>>

\* A request came, or the peer closed: an answer if it is one of the two paths
HealthReplies ==
  /\ Move(Health, "calling", "working")
  /\ UNCHANGED <<process, told, late, runners, orders>>

HealthEnds ==
  /\ told[Health] /\ Move(Health, "working", "ended")
  /\ UNCHANGED <<process, told, late, runners, orders>>

Signal ==
  /\ ~ sig /\ sig' = TRUE
  /\ UNCHANGED <<step, cur, dry, threads, runners, orders>>

Next ==
  \/ Main \/ Signal
  \/ \E t \in Threads : Ends(t)
  \/ \E r \in Runners : \/ MdCalls(r) \/ MdPushes(r) \/ MdReturns(r)
                        \/ WatchdogPushes(r)
                        \/ \E e \in Events : Pop(r, e)
                        \/ Dispatch(r) \/ StrategyEnds(r)
  \/ OrderCalls \/ OrderCallsNext \/ OrderNextItem \/ OrderReturns
  \/ HealthAccepts \/ HealthReplies \/ HealthEnds

Spec == Init /\ [][Next]_vars

\* RPCs, timers and threads go on; the peer of an accepted connection sends or
\* closes; the server ends streams (StreamLoop); a message has an end.  The queue is a
\* FIFO, so a RolloverEvent has its turn; one still fed while it is drained is found
\* empty again and again.  What is asked of a strategy thread is asked of the one
\* main() joins.
LiveSpec ==
  /\ Spec
  /\ WF_vars(Main) /\ WF_vars(\E t \in Joined : Ends(t))
  /\ WF_vars(OrderCallsNext) /\ SF_vars(OrderReturns)
  /\ WF_vars(HealthReplies \/ HealthEnds)
  /\ WF_vars(Pop(cur, "data") \/ Dispatch(cur)) /\ SF_vars(Pop(cur, "roll"))
  /\ SF_vars(Dispatch(cur) /\ queue[cur] = {}) /\ SF_vars(StrategyEnds(cur))

-----------------------------------------------------------------------------
(* Properties *)

\* As long as a strategy thread may submit an order, the stream that reports on it
\* is up, the account is polled and the token renewed: shutdown does not pull them
\* from under a runner that is still draining its queue.
TradersCovered ==
  \A r \in Runners : event[r] # "none" =>
    /\ ~ told[Renewal] /\ ~ told[Poll] /\ ~ told[Orders]
    /\ ~ dry => phase[Orders] \in {"working", "calling"}

\* The subscription handles are unique_ptrs without a lock: main(), constructing or
\* destroying a runner, and the rollover on its strategy thread never touch them at
\* the same time.
HandlesUnshared ==
  \A r \in Runners :
    step \in {"subscribe", "subscribing", "free"} /\ cur = r => event[r] # "roll"

\* Health server, runners, order stream, poll and renewal are stopped one after the
\* other, and every join returns: a signal ends the process, at whatever moment of
\* the start it comes.
Exits == sig ~> step \in {"exited", "failed"}

\* main.cpp:208 -- the runners are cleared first; a callback that captured one runs
\* only as long as it exists.
CallsTheLiving ==
  \A r \in freed : phase[Md(r)] # "calling" /\ to # r

\* strategy_runner.hpp:23 -- the OrderClient's updates go to the strategy's queue: a
\* runner that may already submit has its callback registered.
TradersHeard == \A r \in Runners : event[r] # "none" => dry \/ cbs

\* MarketDataClient's threads capture it, and main() destroys it as it returns.
ClientOutlivesThreads ==
  step = "exited" => \A r \in Runners : phase[Md(r)] = "ended"
=============================================================================
