-------------------------- MODULE LifecycleProofs --------------------------
(***************************************************************************)
(* Proofs about Lifecycle, for every number of instruments.                *)
(***************************************************************************)
EXTENDS Lifecycle, TLAPS

\* The length of main(), and its statements by their place
LEMMA ProgramLength == DOMAIN Program = 1..24
BY DEF Program

LEMMA ProgramAt ==
  /\ Program[1] = "auth" /\ Program[2] = "risk" /\ Program[3] = "client"
  /\ Program[4] = "history" /\ Program[5] = "strategy" /\ Program[6] = "subscribe"
  /\ Program[7] = "subscribing" /\ Program[8] = "watchdog" /\ Program[9] = "callbacks"
  /\ Program[10] = "health" /\ Program[11] = "run" /\ Program[12] = "stop_health"
  /\ Program[13] = "join_health" /\ Program[14] = "stop_runner"
  /\ Program[15] = "join_watchdog" /\ Program[16] = "join_strategy"
  /\ Program[17] = "free" /\ Program[18] = "stop_order" /\ Program[19] = "join_order"
  /\ Program[20] = "stop_risk" /\ Program[21] = "join_risk"
  /\ Program[22] = "stop_token" /\ Program[23] = "join_token" /\ Program[24] = "exited"
BY DEF Program

\* A statement that stands in one place only has the next one as its successor.
LEMMA OnePlace ==
  ASSUME NEW s, NEW n \in 1..23, Program[n] = s,
         \A i \in 1..24 : Program[i] = s => i = n
  PROVE  After(s) = Program[n + 1]
<1> DEFINE place == CHOOSE i \in DOMAIN Program : Program[i] = s
<1>1. n \in DOMAIN Program /\ Program[n] = s
  BY ProgramLength
<1>2. place \in DOMAIN Program /\ Program[place] = s
  BY <1>1, Zenon
<1>3. place = n
  BY <1>2, ProgramLength, Zenon
<1>4. After(s) = Program[1 + n]
  BY <1>3, Zenon DEF After
<1> QED  BY <1>4

\* What main() does after each of its statements
LEMMA AfterEach ==
  /\ After("auth") = "risk" /\ After("risk") = "client" /\ After("client") = "history"
  /\ After("history") = "strategy" /\ After("strategy") = "subscribe"
  /\ After("subscribe") = "subscribing" /\ After("subscribing") = "watchdog"
  /\ After("watchdog") = "callbacks" /\ After("callbacks") = "health"
  /\ After("health") = "run" /\ After("run") = "stop_health"
  /\ After("stop_health") = "join_health" /\ After("join_health") = "stop_runner"
  /\ After("stop_runner") = "join_watchdog" /\ After("join_watchdog") = "join_strategy"
  /\ After("join_strategy") = "free" /\ After("free") = "stop_order"
  /\ After("stop_order") = "join_order" /\ After("join_order") = "stop_risk"
  /\ After("stop_risk") = "join_risk" /\ After("join_risk") = "stop_token"
  /\ After("stop_token") = "join_token" /\ After("join_token") = "exited"
<1>1. \A i \in 1..24 :
        \/ i = 1 \/ i = 2 \/ i = 3 \/ i = 4 \/ i = 5 \/ i = 6 \/ i = 7 \/ i = 8
        \/ i = 9 \/ i = 10 \/ i = 11 \/ i = 12 \/ i = 13 \/ i = 14 \/ i = 15 \/ i = 16
        \/ i = 17 \/ i = 18 \/ i = 19 \/ i = 20 \/ i = 21 \/ i = 22 \/ i = 23 \/ i = 24
  OBVIOUS
<1>2. \A n \in 1..23, i \in 1..24 : Program[i] = Program[n] => i = n
  <2> SUFFICES ASSUME NEW n \in 1..23, NEW i \in 1..24, Program[i] = Program[n]
               PROVE  i = n
    OBVIOUS
  <2> QED  BY <1>1, ProgramAt, SMTT(60)
<1>3. \A n \in 1..23 : After(Program[n]) = Program[n + 1]
  BY <1>2, OnePlace
<1> QED  BY <1>3, ProgramAt
-----------------------------------------------------------------------------
(* The inductive invariant: where main() is says which threads there can be. *)

Before == {"auth", "risk", "client", "failed"}
Building == {"history", "strategy", "subscribe", "subscribing", "watchdog"}
Running == {"callbacks", "health", "run", "stop_health", "join_health"}
Stopping == {"stop_runner", "join_watchdog", "join_strategy", "free"}
TokenDown == {"join_token", "exited"}
RiskDown == {"join_risk", "stop_token"} \cup TokenDown
OrderDown == {"join_order", "stop_risk"} \cup RiskDown
RunnersGone == {"stop_order"} \cup OrderDown

Over(t) == phase[t] \in {"none", "ended"}

LifeTypes ==
  /\ cur \in Runners /\ dry \in BOOLEAN
  /\ phase \in [Threads -> {"none", "working", "calling", "ended"}]
  /\ told \in [Threads -> BOOLEAN]
  /\ queue \in [Runners -> SUBSET Events] /\ event \in [Runners -> Events \cup {"none"}]

\* What has not been started yet: a failed start has begun no thread, and a runner
\* has no strategy thread and no watchdog before its constructor comes to them.
NotYet ==
  /\ step \in {"auth", "failed"} => \A t \in Joined : phase[t] = "none"
  /\ step \in Before \cup Running => cur = 1
  /\ \A r \in Runners :
       /\ step \in Before \/ (step \in Building /\ r > cur)
            \/ (step \in {"history", "strategy"} /\ r = cur) => phase[Strategy(r)] = "none"
       /\ step \in Before \/ (step \in Building /\ r >= cur) => phase[Watchdog(r)] = "none"

\* A strategy thread dispatches while it is calling, and a rollover only after its
\* watchdog was started.
Dispatching ==
  \A r \in Runners :
    /\ event[r] # "none" <=> phase[Strategy(r)] = "calling"
    /\ phase[Watchdog(r)] = "none" => "roll" \notin queue[r] /\ event[r] # "roll"

\* The order of the shutdown: which flags may be set, and who has been joined.
ShutInOrder ==
  /\ told[Orders] => step \in OrderDown
  /\ told[Poll] => step \in RiskDown
  /\ told[Renewal] => step \in TokenDown
  /\ step \in Stopping \cup RunnersGone => Over(Health)
  /\ step \in {"join_strategy", "free"} => Over(Watchdog(cur))
  /\ step = "free" => Over(Strategy(cur))
  /\ \A r \in Runners : step \in RunnersGone \/ (step \in Stopping /\ r < cur) =>
       Over(Strategy(r)) /\ Over(Watchdog(r))
  /\ step \in {"stop_risk"} \cup RiskDown => Over(Orders)
  /\ step \in {"stop_token"} \cup TokenDown => Over(Poll)
  /\ step = "exited" => Over(Renewal)

\* The order stream's thread, once there, stays until it is told to go.
StreamUp ==
  ~ dry /\ step \notin Before /\ ~ told[Orders] => phase[Orders] \in {"working", "calling"}

LifeInv == LifeTypes /\ NotYet /\ Dispatching /\ ShutInOrder /\ StreamUp
-----------------------------------------------------------------------------
(* The threads *)

\* The names of the threads are distinct.
LEMMA ThreadNames ==
  /\ Renewal \in Threads /\ Poll \in Threads /\ Orders \in Threads /\ Health \in Threads
  /\ Joined \subseteq Threads
  /\ \A r \in Runners : Strategy(r) \in Joined /\ Watchdog(r) \in Joined /\ Md(r) \in Threads
  /\ Renewal # Poll /\ Renewal # Orders /\ Renewal # Health
  /\ Poll # Orders /\ Poll # Health /\ Orders # Health
  /\ \A r : /\ Strategy(r) \notin {Renewal, Poll, Orders, Health}
            /\ Watchdog(r) \notin {Renewal, Poll, Orders, Health}
            /\ Md(r) \notin {Renewal, Poll, Orders, Health}
  /\ \A r, q : Strategy(r) # Watchdog(q) /\ Strategy(r) # Md(q) /\ Watchdog(r) # Md(q)
  /\ \A r, q : Strategy(r) = Strategy(q) => r = q
  /\ \A r, q : Watchdog(r) = Watchdog(q) => r = q
  /\ \A r : Strategy(r) \notin Detached
BY DEF Renewal, Poll, Orders, Health, Strategy, Watchdog, Md, Joined, Detached, Threads

\* What the threads do beside main(): none starts, none that has ended comes back,
\* and the order stream's ends only when it is told to.
Beside ==
  /\ LifeTypes' /\ Dispatching' /\ UNCHANGED <<step, cur, dry, told>>
  /\ \A t \in Threads : /\ phase[t] = "none" <=> phase'[t] = "none"
                        /\ phase[t] = "ended" => phase'[t] = "ended"
  /\ phase'[Orders] = "ended" => phase[Orders] = "ended" \/ told[Orders]

\* No action of a thread does more than that.
LEMMA ThreadsBeside ==
  ASSUME LifeTypes, Dispatching,
         \/ Signal \/ UNCHANGED vars
         \/ \E t \in Threads : Ends(t)
         \/ \E r \in Runners : \/ MdCalls(r) \/ MdPushes(r) \/ MdReturns(r) \/ WatchdogPushes(r)
                               \/ \E e \in Events : Pop(r, e)
                               \/ Dispatch(r) \/ StrategyEnds(r)
         \/ OrderCalls \/ OrderCallsNext \/ OrderNextItem \/ OrderReturns
         \/ HealthAccepts \/ HealthReplies \/ HealthEnds
  PROVE  Beside
<1> USE ThreadNames DEF LifeTypes, Dispatching, Beside, process, runners, orders, threads, vars
<1>1. CASE Signal \/ UNCHANGED vars
  BY <1>1 DEF Signal
<1>2. ASSUME NEW t \in Threads, Ends(t) PROVE Beside
  BY <1>2 DEF Ends, Move
<1>3. ASSUME NEW r \in Runners, MdCalls(r) PROVE Beside
  BY <1>3 DEF MdCalls, Take, Move
<1>4. ASSUME NEW r \in Runners, MdReturns(r) PROVE Beside
  BY <1>4 DEF MdReturns, Move
<1>15. ASSUME NEW r \in Runners, MdPushes(r) PROVE Beside
  BY <1>15 DEF MdPushes, Pushed, Events
<1>5. ASSUME NEW r \in Runners, WatchdogPushes(r) PROVE Beside
  BY <1>5 DEF WatchdogPushes, Pushed, Events
<1>6. ASSUME NEW r \in Runners, NEW e \in Events, Pop(r, e) PROVE Beside
  BY <1>6 DEF Pop, Move, Events
<1>7. ASSUME NEW r \in Runners, Dispatch(r) PROVE Beside
  BY <1>7 DEF Dispatch, Move
<1>8. ASSUME NEW r \in Runners, StrategyEnds(r) PROVE Beside
  BY <1>8 DEF StrategyEnds, Move
<1>9. CASE OrderCalls
  BY <1>9 DEF OrderCalls, Take, Move
<1>10. CASE OrderCallsNext \/ OrderNextItem
  BY <1>10, LifecycleAssumption DEF OrderCallsNext, OrderNextItem, Pushed, Runners, Events
<1>11. CASE OrderReturns
  BY <1>11, LifecycleAssumption DEF OrderReturns, Move, Pushed, Runners, Events
<1>12. CASE HealthAccepts
  BY <1>12 DEF HealthAccepts, Move
<1>13. CASE HealthReplies
  BY <1>13 DEF HealthReplies, Move
<1>14. CASE HealthEnds
  BY <1>14 DEF HealthEnds, Move
<1> QED
  BY <1>1, <1>2, <1>3, <1>4, <1>5, <1>6, <1>7, <1>8, <1>9, <1>10, <1>11, <1>12, <1>13, <1>14,
     <1>15
-----------------------------------------------------------------------------
(* main() *)

\* The shutdown()s in their order, each with the thread it stops
LEMMA StopEach ==
  /\ DOMAIN StopStep = {"stop_health", "stop_runner", "stop_order", "stop_risk", "stop_token"}
  /\ StopStep["stop_health"] = {Health}
  /\ StopStep["stop_runner"] = {Strategy(cur), Watchdog(cur)}
  /\ StopStep["stop_order"] = {Orders} /\ StopStep["stop_risk"] = {Poll}
  /\ StopStep["stop_token"] = {Renewal}
BY DEF StopStep

\* and the thread it joins
LEMMA JoinEach ==
  /\ DOMAIN JoinStep = {"join_health", "join_watchdog", "join_strategy", "join_order",
                        "join_risk", "join_token"}
  /\ JoinStep["join_health"] = Health /\ JoinStep["join_watchdog"] = Watchdog(cur)
  /\ JoinStep["join_strategy"] = Strategy(cur) /\ JoinStep["join_order"] = Orders
  /\ JoinStep["join_risk"] = Poll /\ JoinStep["join_token"] = Renewal
BY DEF JoinStep

\* Every statement of main() keeps the invariant.
LEMMA MainStep == LifeInv /\ Main => LifeInv'
<1> SUFFICES ASSUME LifeInv, Main PROVE LifeInv'
  OBVIOUS
<1> USE ThreadNames, AfterEach, LifecycleAssumption
    DEF LifeInv, LifeTypes, NotYet, Dispatching, ShutInOrder, StreamUp, Over, Before,
        Building, Running, Stopping, RunnersGone, OrderDown, RiskDown, TokenDown,
        At, Start, Tell, runners, threads, orders, Runners
<1>1. CASE Auth
  BY <1>1 DEF Auth
<1>2. CASE StartRisk
  BY <1>2 DEF StartRisk
<1>3. CASE MakeClient
  BY <1>3 DEF MakeClient
<1>4. CASE LoadHistory
  BY <1>4 DEF LoadHistory
<1>5. CASE StartStrategy
  BY <1>5 DEF StartStrategy
<1>6. CASE SubscribeFirst
  BY <1>6 DEF SubscribeFirst
<1>7. CASE SubscribeLast
  BY <1>7 DEF SubscribeLast
<1>8. CASE StartWatchdog
  BY <1>8 DEF StartWatchdog
<1>9. CASE SetUpdateCallback
  BY <1>9 DEF SetUpdateCallback
<1>10. CASE StartHealth
  BY <1>10 DEF StartHealth
<1>11. CASE SeesSignal
  BY <1>11 DEF SeesSignal
<1>12. ASSUME NEW s \in DOMAIN StopStep, Stop(s) PROVE LifeInv'
  BY <1>12, StopEach DEF Stop
<1>13. ASSUME NEW s \in DOMAIN JoinStep, Join(s) PROVE LifeInv'
  <2>1. phase[JoinStep[s]] \in {"none", "ended"} /\ At(s)
        /\ UNCHANGED <<cur, dry, sig, threads, runners, orders>>
    BY <1>13 DEF Join
  <2>2. CASE s = "join_health"
    BY <2>1, <2>2, JoinEach
  <2>3. CASE s = "join_watchdog"
    BY <2>1, <2>3, JoinEach
  <2>4. CASE s = "join_strategy"
    BY <2>1, <2>4, JoinEach
  <2>5. CASE s = "join_order"
    BY <2>1, <2>5, JoinEach
  <2>6. CASE s \in {"join_risk", "join_token"}
    BY <2>1, <2>6, JoinEach
  <2> QED  BY <1>13, <2>2, <2>3, <2>4, <2>5, <2>6, JoinEach
<1>14. CASE Free
  BY <1>14 DEF Free
<1> QED
  BY <1>1, <1>2, <1>3, <1>4, <1>5, <1>6, <1>7, <1>8, <1>9, <1>10, <1>11, <1>12, <1>13,
     <1>14 DEF Main

\* The first state: main() is before everything.
LEMMA LifeInit == Init => LifeInv
<1> SUFFICES ASSUME Init PROVE LifeInv
  OBVIOUS
<1>1. LifeTypes
  BY LifecycleAssumption DEF Init, LifeTypes, Runners
<1>2. \A t \in Threads : phase[t] = "none" /\ ~ told[t]
  BY DEF Init
<1>3. step = "auth" /\ cur = 1 /\ \A r \in Runners : queue[r] = {} /\ event[r] = "none"
  BY DEF Init
<1> QED
  BY <1>1, <1>2, <1>3, ThreadNames
  DEF LifeInv, NotYet, Dispatching, ShutInOrder, StreamUp, Over, Before,
      Building, Running, Stopping, RunnersGone, OrderDown, RiskDown, TokenDown

\* Every step keeps the invariant.
LEMMA LifeStep == LifeInv /\ [Next]_vars => LifeInv'
<1> SUFFICES ASSUME LifeInv, [Next]_vars, ~ Main PROVE LifeInv'
  BY MainStep
<1>1. Beside
  BY ThreadsBeside DEF Next, LifeInv
<1> QED
  BY <1>1, ThreadNames DEF Beside, LifeInv, NotYet, ShutInOrder, StreamUp, Over, LifeTypes

-----------------------------------------------------------------------------
(* Theorems *)

\* main.cpp:207-211 -- shutdown takes the runners down before the order stream, the
\* account poll and the token renewal, for any number of instruments and at whatever
\* moment of the start the signal comes.
THEOREM ShutdownCoversTraders == Spec => []TradersCovered
<1>1. LifeInv => TradersCovered
  <2> SUFFICES ASSUME LifeInv, NEW r \in Runners, event[r] # "none"
               PROVE  /\ ~ told[Renewal] /\ ~ told[Poll] /\ ~ told[Orders]
                      /\ ~ dry => phase[Orders] \in {"working", "calling"}
    BY DEF TradersCovered
  <2>1. phase[Strategy(r)] = "calling"
    BY DEF LifeInv, Dispatching
  <2>2. step \notin Before /\ step \notin RunnersGone
    BY <2>1 DEF LifeInv, NotYet, ShutInOrder, Over
  <2> QED
    BY <2>2 DEF LifeInv, ShutInOrder, StreamUp, RunnersGone, OrderDown, RiskDown
<1> QED  BY <1>1, LifeInit, LifeStep, PTL DEF Spec

\* strategy_runner.hpp:55-66 -- the handles need no lock: main() touches them before
\* the watchdog that asks for rollovers is started and after the strategy thread that
\* carries them out was joined.
THEOREM HandlesNeedNoLock == Spec => []HandlesUnshared
<1>1. LifeInv => HandlesUnshared
  <2> SUFFICES ASSUME LifeInv, step \in {"subscribe", "subscribing", "free"}
               PROVE  event[cur] # "roll"
    BY DEF HandlesUnshared
  <2>1. cur \in Runners /\ cur >= cur
    BY DEF LifeInv, LifeTypes, Runners
  <2>2. CASE step = "free"
    BY <2>1, <2>2 DEF LifeInv, ShutInOrder, Over, Dispatching
  <2>3. CASE step # "free"
    BY <2>1, <2>3 DEF LifeInv, NotYet, Dispatching, Building
  <2> QED  BY <2>2, <2>3
<1> QED  BY <1>1, LifeInit, LifeStep, PTL DEF Spec
=============================================================================
