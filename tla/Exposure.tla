------------------------------ MODULE Exposure ------------------------------
(***************************************************************************)
(* From the exchange's fill to the strategy's position: OrderClient with   *)
(* what lies behind its callback.  make_order_callback() tells the         *)
(* RiskManager and then pushes the update into the runner's queue, which   *)
(* may be full of market data; the strategy thread, when it is not inside  *)
(* submit(), takes it out and moves position_, and on that position        *)
(* decides the next entry or close.                                        *)
(*                                                                         *)
(* One session: on_session_open(), which forgets the position, is in       *)
(* module ConfluenceStrategy, and so are the votes and the exit rules;     *)
(* here an entry or an exit may come whenever the position allows it.      *)
(***************************************************************************)
EXTENDS OrderClient

CONSTANTS
  BaseQty,      \* ConfluenceStrategy::Config::base_qty
  EntrySides,   \* the sides a signal may ask for: 1 buys, -1 sells
  MaxRefused    \* bound: updates a full queue refuses

ASSUME ExposureAssumption == 
  BaseQty \in Nat \ {0} /\ EntrySides \subseteq {-1, 1} /\ MaxRefused \in Nat

VARIABLES
  side,      \* OrderRequest::side by id: 1 buys, -1 sells
  queue,     \* the order updates in each runner's queue_
  pos,       \* position_
  told,      \* history: what each strategy added to position_, by order, unsigned
  hand,      \* the runner whose callback has told the RiskManager and has yet to push
  refused    \* history: ids of the updates a full queue refused

strategy == <<queue, pos, told>>
exposure == <<side, strategy, hand, refused>>
evars == <<vars, exposure>>

Update == [id : Ids, status : Statuses, qty : Int]

TypeOKExposure ==
  /\ TypeOK
  /\ side \in [Ids -> {-1, 0, 1}]
  /\ queue \in [Runners -> Seq(Update)]
  /\ pos \in [Runners -> Int]
  /\ told \in [Runners -> [Ids -> Int]]
  /\ hand \in Runners \cup {NoSym}
  /\ refused \in [Runners -> SUBSET Ids]

InitExposure ==
  /\ Init
  /\ side = [i \in Ids |-> 0]
  /\ queue = [r \in Runners |-> <<>>]
  /\ pos = [r \in Runners |-> 0]
  /\ told = [r \in Runners |-> [i \in Ids |-> 0]]
  /\ hand = NoSym
  /\ refused = [r \in Runners |-> {}]

-----------------------------------------------------------------------------
(* The strategy thread *)

Magnitude(n) == IF n < 0 THEN -n ELSE n

\* try_enter() has a signal and the risk check lets it through.  The five seconds
\* between signals are over sooner or later, whatever the order is doing.
Enter(r) ==
  /\ pos[r] = 0
  /\ \E s \in EntrySides : Submit(r, BaseQty) /\ side' = [side EXCEPT ![nextId] = s]
  /\ UNCHANGED <<strategy, hand, refused>>

\* check_exit() asks for a close, on every quote until the position is gone;
\* handle_signal() sends it as a Sell.
Close(r) ==
  /\ pos[r] # 0
  /\ Submit(r, Magnitude(pos[r])) /\ side' = [side EXCEPT ![nextId] = -1]
  /\ UNCHANGED <<strategy, hand, refused>>

\* drain_queue() and on_order_update(): only the status Filled moves the position.
DispatchUpdate(r) ==
  /\ pc[r] = "idle" /\ queue[r] # <<>>
  /\ LET u == Head(queue[r])
     IN  IF u.status = "Filled"
         THEN /\ pos' = [pos EXCEPT ![r] = @ + side[u.id] * u.qty]
              /\ told' = [told EXCEPT ![r][u.id] = @ + u.qty]
         ELSE UNCHANGED <<pos, told>>
  /\ queue' = [queue EXCEPT ![r] = Tail(@)]
  /\ UNCHANGED <<vars, side, hand, refused>>

-----------------------------------------------------------------------------
(* The callbacks, and the rest of OrderClient *)

\* queue_.push(upd) of a runner, which a full queue refuses
PushUpdate(t, r) ==
  LET u == [id |-> arg[t].id, status |-> arg[t].status, qty |-> delta[t]]
  IN  \/ queue' = [queue EXCEPT ![r] = Append(@, u)] /\ UNCHANGED refused
      \/ /\ Cardinality(refused[r]) < MaxRefused
         /\ refused' = [refused EXCEPT ![r] = @ \cup {u.id}] /\ UNCHANGED queue

\* Mutant of Callback: the queue first, then the RiskManager.
CallbackPushFirst(t, r) ==
  /\ \/ hand = NoSym /\ pc[t] = "inside" /\ r \in left /\ Takes(r, arg[t].sym)
        /\ PushUpdate(t, r) /\ hand' = r /\ UNCHANGED vars
     \/ hand = NoSym /\ ~ Takes(r, arg[t].sym) /\ CallRunner(t, r)
        /\ UNCHANGED <<queue, hand, refused>>
     \/ hand = r /\ CallRunner(t, r) /\ hand' = NoSym /\ UNCHANGED <<queue, refused>>
  /\ UNCHANGED <<side, pos, told>>

\* make_order_callback() of one runner: an update of another's symbol is discarded;
\* of the others the RiskManager hears first, and the queue gets them then.
Callback(t, r) ==
  /\ \/ hand = NoSym /\ CallRunner(t, r)
        /\ hand' = (IF Takes(r, arg[t].sym) THEN r ELSE NoSym) /\ UNCHANGED <<queue, refused>>
     \/ hand = r /\ pc[t] = "inside" /\ PushUpdate(t, r) /\ hand' = NoSym /\ UNCHANGED vars
  /\ UNCHANGED <<side, pos, told>>

Returns(t) == hand = NoSym /\ CallbackEnds(t) /\ UNCHANGED exposure

\* What does not reach the strategy's thread or its queue
Quiet ==
  /\ \/ \E r \in Runners : PlaceFails(r) \/ Accept(r) \/ Answer(r)
     \/ \E t \in Threads : UpsertRead(t) \/ UpsertWrite(t) \/ InvokeCallback(t)
     \/ Subscribe \/ StreamBreaks \/ StreamRead \/ StreamLookup
     \/ \E i \in DOMAIN ex : Fill(i) \/ Expire(i)
  /\ UNCHANGED exposure

NextExposure ==
  \/ \E r \in Runners : Enter(r) \/ Close(r) \/ DispatchUpdate(r)
  \/ \E t \in Threads : (\E r \in Runners : Callback(t, r)) \/ Returns(t)
  \/ Quiet

SpecExposure == InitExposure /\ [][NextExposure]_evars

-----------------------------------------------------------------------------
(* Properties *)

\* strategy_runner.hpp:84 -- the RiskManager hears of a fill before the strategy
\* can act on it, and never of less, also with late, lost and repeated reports.
StrategyBehindRisk == \A r \in Runners, i \in Ids : told[r][i] <= counted[r][i]

Pending(i) ==
  \/ \E t \in Threads : pc[t] \in {"lookup", "read", "write", "call", "inside"} /\ arg[t].id = i
  \/ \E r \in Runners : \E k \in 1..Len(queue[r]) : queue[r][k].id = i

\* A report that has gone all the way, except one whose update a full queue refused
\* or that overtook the answer to PlaceOrder
Settled(r, i) ==
  /\ Owner(i) = r /\ i \notin overtaken \cup refused[r] /\ ~ Pending(i)
  /\ i \in DOMAIN orders /\ orders[i].filled = ex[i].filled

\* Exchange, RiskManager and strategy agree on every one-lot order that has settled,
\* also when the answer was lost and the stream broke and repeated itself.
SettledAgrees ==
  \A r \in Runners, i \in DOMAIN ex :
    Settled(r, i) /\ ex[i].qty = 1 =>
      told[r][i] = ex[i].filled /\ counted[r][i] = ex[i].filled

\* confluence_strategy.hpp:98 -- the position has every contract of a filled order,
\* however many parts it was filled in.
PartsAreKnown ==
  \A r \in Runners, i \in DOMAIN ex :
    Settled(r, i) /\ ex[i].status = "FILLED" => told[r][i] = ex[i].filled

\* confluence_strategy.hpp:161 -- an entry is made only without a position: a runner
\* never has two entries at the exchange.
OneEntryAtATime ==
  \A i, j \in DOMAIN ex :
    i # j /\ ex[i].owner = ex[j].owner /\ {side[i], side[j]} \subseteq EntrySides =>
      ~ (ex[i].status = "NEW" /\ ex[j].status = "NEW")

\* confluence_strategy.hpp:247 -- a close is as large as the position: the contracts
\* sold are never more than the contracts bought.
Contracts(r, s) == LET mine == {i \in DOMAIN ex : ex[i].owner = r /\ side[i] = s}
                   IN  Cardinality({p \in mine \X (1..(BaseQty * MaxOrders)) : p[2] <= ex[p[1]].filled})
NeverOverclosed == \A r \in Runners : EntrySides = {1} => Contracts(r, -1) <= Contracts(r, 1)
=============================================================================
