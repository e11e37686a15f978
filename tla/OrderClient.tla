---------------------------- MODULE OrderClient ----------------------------
(***************************************************************************)
(* order::OrderClient: the strategy threads submit orders, a stream thread *)
(* applies the exchange's reports, and both go through upsert(), which     *)
(* reads the previous fill under one lock, writes the record under another *)
(* and then, under cb_mu_, passes the difference to one StrategyRunner's   *)
(* callback after the other.                                               *)
(*                                                                         *)
(* A runner stands for its active symbol.  The exchange is external: it    *)
(* accepts, fills, cancels and reports; reports sent while the stream is   *)
(* down are lost, and a new subscription starts with every order's current *)
(* state.  Its reports may come before PlaceOrder returns, and the answer  *)
(* may be lost.                                                            *)
(***************************************************************************)
EXTENDS Integers, Sequences, FiniteSets

CONSTANTS
  Runners,      \* the strategy threads, one symbol each
  Stream,       \* stream_thread_
  NoSym,        \* Symbol{}: an empty security_code
  Quantities,   \* OrderRequest::quantity, as the strategy asks for
  Prior,        \* orders of an earlier process run, known to the exchange: 1..Prior
  MaxOrders,    \* bound: orders submitted
  MaxDrops      \* bound: times the stream breaks

ASSUME OrderAssumption ==
  /\ Stream \notin Runners /\ NoSym \notin Runners
  /\ Quantities \subseteq Int
  /\ MaxOrders \in Nat /\ Prior \in 0..MaxOrders /\ MaxDrops \in Nat

Threads == Runners \cup {Stream}

VARIABLES
  orders,     \* orders_: local id -> the fields of OrderState the code uses
  nextId,     \* id_counter_
  pc,         \* where each thread is
  arg,        \* the OrderState a thread is passing to upsert()
  delta,      \* upsert()'s delta_filled
  left,       \* the runners the thread inside invoke_callback() has yet to call
  connected,  \* SubscribeOrders is up
  wire,       \* external: reports sent and not yet read
  ex,         \* external: the exchange's orders, by client_order_id
  drops,      \* how often the stream broke
  counted,    \* history: contracts each runner has passed to on_fill(), by order
  overtaken   \* history: ids reported on while their submit() was still running

client == <<orders, nextId, pc, arg, delta, left>>
exchange == <<connected, wire, ex, drops>>
history == <<counted, overtaken>>
vars == <<client, exchange, history>>

\* Mutant of MapStatus: every status but these four is taken for a live one, as
\* an earlier version of the table did (order_client.cpp:31-33).
MapStatusOld(s) ==
  CASE s = "PARTIALLY_FILLED" -> "PartialFill" [] s = "FILLED" -> "Filled"
    [] s = "CANCELED" -> "Cancelled" [] s = "REJECTED" -> "Rejected"
    [] OTHER -> "Pending"

\* map_status(), by groups of the proto's statuses
MapStatus(s) ==
  CASE s = "PARTIALLY_FILLED" -> "PartialFill"
    [] s \in {"FILLED", "EXECUTED", "SL_EXECUTED", "TP_EXECUTED"} -> "Filled"
    [] s \in {"CANCELED", "REPLACED", "DONE_FOR_DAY", "EXPIRED", "DISABLED"} -> "Cancelled"
    [] s \in {"REJECTED", "REJECTED_BY_EXCHANGE", "DENIED_BY_BROKER", "FAILED"} -> "Rejected"
    [] OTHER -> "Pending"   \* the live ones, and any status not in the table

Statuses == {"Pending", "PartialFill", "Filled", "Cancelled", "Rejected"}
Terminal == {"Filled", "Cancelled", "Rejected"}

\* One exchange status of each group; EXPIRED ends an order nobody cancelled.
ExStatuses == {"NEW", "PARTIALLY_FILLED", "FILLED", "CANCELED", "EXPIRED", "REJECTED"}
Live == {"NEW", "PARTIALLY_FILLED"}

Ids == 1..MaxOrders
Record == [sym : Runners \cup {NoSym}, status : Statuses, filled : Int, price : Int]
NoArg == [id |-> 0, sym |-> NoSym, status |-> "Pending", filled |-> 0, price |-> 0]

TypeOK ==
  /\ DOMAIN orders \subseteq Ids /\ \A i \in DOMAIN orders : orders[i] \in Record
  /\ nextId \in 1..(MaxOrders + 1)
  /\ pc \in [Threads -> {"idle", "place", "answer", "lookup", "read", "write", "call", "inside"}]
  /\ arg \in [Threads -> [id : Ids \cup {0}, sym : Runners \cup {NoSym}, status : Statuses,
                          filled : Int, price : Int]]
  /\ delta \in [Threads -> Int] /\ left \subseteq Runners
  /\ connected \in BOOLEAN
  /\ wire \in Seq([id : Ids, status : ExStatuses, filled : Nat])
  /\ DOMAIN ex \subseteq Ids
  /\ \A i \in DOMAIN ex :
       ex[i] \in [owner : Runners \cup {NoSym}, qty : Nat, filled : Nat, status : ExStatuses]
  /\ drops \in 0..MaxDrops
  /\ counted \in [Runners -> [Ids -> Int]] /\ overtaken \subseteq Ids

\* orders_[id] = rec
Put(f, i, rec) == [j \in DOMAIN f \cup {i} |-> IF j = i THEN rec ELSE f[j]]

\* The exchange may hold orders of an earlier run of the bot; their ids are the
\* ones id_counter_ hands out again.
Init ==
  /\ orders = <<>> /\ nextId = 1
  /\ pc = [t \in Threads |-> "idle"]
  /\ arg = [t \in Threads |-> NoArg]
  /\ delta = [t \in Threads |-> 0] /\ left = {}
  /\ connected = FALSE /\ wire = <<>> /\ drops = 0
  /\ ex = [i \in 1..Prior |-> [owner |-> NoSym, qty |-> 1, filled |-> 1, status |-> "FILLED"]]
  /\ counted = [r \in Runners |-> [i \in Ids |-> 0]] /\ overtaken = {}

Goto(t, step) == pc' = [pc EXCEPT ![t] = step]

-----------------------------------------------------------------------------
(* submit() *)

\* validate(): client_id and, for a market order, the price are always in order
Validate(q) == q > 0

Submit(r, q) ==
  /\ pc[r] = "idle"
  /\ nextId <= MaxOrders
  /\ Validate(q)
  /\ arg' = [arg EXCEPT ![r] = [NoArg EXCEPT !.id = nextId, !.sym = r, !.filled = q]]
  /\ nextId' = nextId + 1
  /\ Goto(r, "place")
  /\ UNCHANGED <<orders, delta, left, exchange, history>>

\* PlaceOrder fails and the exchange has nothing.
PlaceFails(r) ==
  /\ pc[r] = "place"
  /\ Goto(r, "idle")
  /\ arg' = [arg EXCEPT ![r] = NoArg]
  /\ UNCHANGED <<orders, nextId, delta, left, exchange, history>>

Report(i, x) == [id |-> i, status |-> x.status, filled |-> x.filled]

\* External: a report goes out when somebody listens.
Send(i, x) == wire' = IF connected THEN Append(wire, Report(i, x)) ELSE wire

\* External: the exchange takes or rejects the order.
Accept(r) ==
  /\ pc[r] = "place"
  /\ \E s \in {"NEW", "REJECTED"} :
       LET x == [owner |-> r, qty |-> arg[r].filled, filled |-> 0, status |-> s]
       IN  /\ ex' = Put(ex, arg[r].id, x)
           /\ Send(arg[r].id, x)
  /\ Goto(r, "answer")
  /\ UNCHANGED <<orders, nextId, arg, delta, left, connected, drops, history>>

\* PlaceOrder returns.  With the response qty_filled is left at zero, and the price
\* is the request's (0 for a market order); without it (the RPC fails after the
\* exchange took the order) nothing is recorded.
Answer(r) ==
  /\ pc[r] = "answer"
  /\ \E ok \in BOOLEAN :
       /\ arg' = IF ok THEN [arg EXCEPT ![r].status = MapStatus(ex[arg[r].id].status),
                                        ![r].filled = 0]
                 ELSE [arg EXCEPT ![r] = NoArg]
       /\ Goto(r, IF ok THEN "read" ELSE "idle")
  /\ UNCHANGED <<orders, nextId, delta, left, exchange, history>>

-----------------------------------------------------------------------------
(* upsert(), on a strategy thread or on the stream thread *)

\* Mutant of UpsertRead: the total is passed on instead of the difference.
UpsertReadTotal(t) ==
  /\ pc[t] = "read"
  /\ delta' = [delta EXCEPT ![t] = arg[t].filled]
  /\ Goto(t, "write")
  /\ UNCHANGED <<orders, nextId, arg, left, exchange, history>>

UpsertRead(t) ==
  /\ pc[t] = "read"
  /\ delta' = [delta EXCEPT ![t] =
       arg[t].filled - (IF arg[t].id \in DOMAIN orders THEN orders[arg[t].id].filled ELSE 0)]
  /\ Goto(t, "write")
  /\ UNCHANGED <<orders, nextId, arg, left, exchange, history>>

UpsertWrite(t) ==
  /\ pc[t] = "write"
  /\ orders' = Put(orders, arg[t].id, [sym |-> arg[t].sym, status |-> arg[t].status,
                                       filled |-> arg[t].filled, price |-> arg[t].price])
  /\ Goto(t, "call")
  /\ UNCHANGED <<nextId, arg, delta, left, exchange, history>>

\* Mutant of Takes: no filter.
TakesAll(r, sym) == TRUE

\* make_order_callback(): the runner's own symbol, or no symbol at all
Takes(r, sym) == sym = r \/ sym = NoSym

\* Mutant of IsFill: partial fills are passed over.
IsFullFill(t) == arg[t].status = "Filled" /\ delta[t] > 0

IsFill(t) == arg[t].status \in {"Filled", "PartialFill"} /\ delta[t] > 0

\* invoke_callback() takes cb_mu_ ...
InvokeCallback(t) ==
  /\ pc[t] = "call" /\ \A u \in Threads : pc[u] # "inside"
  /\ left' = Runners
  /\ Goto(t, "inside")
  /\ UNCHANGED <<orders, nextId, arg, delta, exchange, history>>

\* ... and main's callback calls the runners' one after the other (in whatever order
\* the configuration names them): each filters, and passes a fill to on_fill().
CallRunner(t, r) ==
  /\ pc[t] = "inside" /\ r \in left
  /\ counted' = IF Takes(r, arg[t].sym) /\ IsFill(t)
                THEN [counted EXCEPT ![r][arg[t].id] = @ + delta[t]] ELSE counted
  /\ left' = left \ {r}
  /\ UNCHANGED <<orders, nextId, pc, arg, delta, exchange, overtaken>>

\* The last one has returned: cb_mu_ is released, upsert() and its caller are done.
CallbackEnds(t) ==
  /\ pc[t] = "inside" /\ left = {}
  /\ Goto(t, "idle")
  /\ arg' = [arg EXCEPT ![t] = NoArg] /\ delta' = [delta EXCEPT ![t] = 0]
  /\ UNCHANGED <<orders, nextId, left, exchange, history>>

-----------------------------------------------------------------------------
(* run_order_stream() *)

\* The first thing a new subscription sends: every order's current state, by id.
ByAge == {ids \in [1..Cardinality(DOMAIN ex) -> DOMAIN ex] :
            \A j, k \in DOMAIN ids : j < k => ids[j] < ids[k]}
Snapshots == {[k \in DOMAIN ids |-> Report(ids[k], ex[ids[k]])] : ids \in ByAge}

Subscribe ==
  /\ ~ connected /\ pc[Stream] = "idle"
  /\ connected' = TRUE
  /\ wire' \in Snapshots
  /\ UNCHANGED <<client, ex, drops, history>>

\* Read() returns false: what was on the way is lost, Finish, back off, reconnect.
StreamBreaks ==
  /\ connected /\ pc[Stream] = "idle"
  /\ drops < MaxDrops
  /\ connected' = FALSE /\ wire' = <<>> /\ drops' = drops + 1
  /\ UNCHANGED <<client, ex, history>>

\* submit() of this order has not returned yet.
InSubmit(i) == \E r \in Runners : arg[r].id = i

\* Read() returns the next report, perhaps of an order submit() has yet to record;
\* its price is not taken.
StreamRead ==
  /\ connected /\ pc[Stream] = "idle" /\ wire # <<>>
  /\ LET m == Head(wire)
     IN  /\ arg' = [arg EXCEPT ![Stream] = [id |-> m.id, sym |-> NoSym, price |-> 0,
                              status |-> MapStatus(m.status), filled |-> m.filled]]
         /\ overtaken' = IF InSubmit(m.id) THEN overtaken \cup {m.id} ELSE overtaken
  /\ wire' = Tail(wire)
  /\ Goto(Stream, "lookup")
  /\ UNCHANGED <<orders, nextId, delta, left, connected, ex, drops, counted>>

\* The symbol comes from the record submit() left, when it is there.
StreamLookup ==
  /\ pc[Stream] = "lookup"
  /\ arg' = [arg EXCEPT ![Stream].sym =
       IF arg[Stream].id \in DOMAIN orders THEN orders[arg[Stream].id].sym ELSE NoSym]
  /\ Goto(Stream, "read")
  /\ UNCHANGED <<orders, nextId, delta, left, exchange, history>>

-----------------------------------------------------------------------------
(* The exchange works on an order, and cancel() *)

Change(i, x) ==
  /\ ex' = [ex EXCEPT ![i] = x]
  /\ Send(i, x)
  /\ UNCHANGED <<client, connected, drops, history>>

Fill(i) ==
  /\ i \in DOMAIN ex /\ ex[i].status \in Live
  /\ Change(i, [ex[i] EXCEPT !.filled = @ + 1,
       !.status = IF ex[i].filled + 1 = ex[i].qty THEN "FILLED" ELSE "PARTIALLY_FILLED"])

Expire(i) ==
  /\ i \in DOMAIN ex /\ ex[i].status \in Live
  /\ Change(i, [ex[i] EXCEPT !.status = "EXPIRED"])

\* cancel(local_id): refused for an unknown id, otherwise the exchange's id goes
\* out; the map is updated by the report, not here.
Cancel(i) ==
  /\ i \in DOMAIN orders
  /\ i \in DOMAIN ex /\ ex[i].status \in Live
  /\ Change(i, [ex[i] EXCEPT !.status = "CANCELED"])

Upsert(t) == \/ UpsertRead(t) \/ UpsertWrite(t) \/ InvokeCallback(t)
             \/ (\E r \in Runners : CallRunner(t, r)) \/ CallbackEnds(t)

Next ==
  \/ \E r \in Runners : \/ \E q \in Quantities : Submit(r, q)
                        \/ PlaceFails(r) \/ Accept(r) \/ Answer(r)
  \/ \E t \in Threads : Upsert(t)
  \/ Subscribe \/ StreamBreaks \/ StreamRead \/ StreamLookup
  \/ \E i \in DOMAIN ex : Fill(i) \/ Expire(i) \/ Cancel(i)

Spec == Init /\ [][Next]_vars

\* The stream thread reconnects and reads for ever (run_order_stream's loop, with
\* the process up and the backoff finite); an upsert once begun is finished.
LiveSpec == /\ Spec
            /\ WF_vars(Subscribe) /\ WF_vars(StreamRead) /\ WF_vars(StreamLookup)
            /\ \A t \in Threads : WF_vars(Upsert(t))

-----------------------------------------------------------------------------
(* Properties *)

Owner(i) == ex[i].owner

\* strategy_runner.hpp:73 -- "each runner only processes its own orders".  A runner
\* passes a fill of another's order to the RiskManager only when a report overtook the
\* answer to PlaceOrder, or the answer was lost and the record has no symbol: once
\* submit() has recorded the order, every later report finds its way.
OwnOrdersOnly ==
  \A r \in Runners : \A i \in DOMAIN ex :
    counted[r][i] # 0 /\ r # Owner(i) => i \in overtaken \/ orders[i].sym = NoSym

\* The same without the exceptions, as the comment has it; not so (MCOrderBroadcast.cfg).
EachItsOwn == \A r \in Runners : \A i \in DOMAIN ex : r # Owner(i) => counted[r][i] = 0

\* However often the stream breaks and repeats itself, the deltas of upsert() never
\* exceed the fills: the RiskManager hears of a contract at most once from a runner,
\* and once more only when the answer of PlaceOrder, coming late, wrote its zero over
\* the fills recorded.  Without that, and when no upsert of an order is under way, its
\* owner has reported exactly the fills the map records, as long as the record says
\* (partly) filled.
Busy(i) == \E t \in Threads : pc[t] \in {"write", "call", "inside"} /\ arg[t].id = i
CountedExactly ==
  \A i \in DOMAIN ex :
    /\ \A r \in Runners :
         counted[r][i] <= (IF i \in overtaken THEN 2 ELSE 1) * ex[i].filled
    /\ /\ i \in DOMAIN orders \ overtaken /\ ~ Busy(i)
       /\ orders[i].status \in {"Filled", "PartialFill"}
       => counted[Owner(i)][i] = orders[i].filled

\* A filled, cancelled or rejected order never comes back to life in orders_, so
\* active_orders() never shows an order that has once left it.  A late answer, or a
\* late report of the time before the answer, revives one (MCOrderRevived.cfg).
TerminalIsFinal ==
  [][\A i \in DOMAIN orders : orders[i].status \in Terminal =>
       orders'[i].status = orders[i].status]_vars

\* What ends at the exchange ends in orders_ and stays so, whatever reports and answers
\* were lost: the resubscription catches up.  Only an answer that a report overtook may
\* write its older status last.
EndIsLearned ==
  \A i \in Ids :
    (i \in DOMAIN ex /\ ex[i].status \notin Live)
      ~> [](\/ i \in overtaken
            \/ i \in DOMAIN orders /\ orders[i].status \in Terminal)

\* Even when answers are late or lost, a record never carries another runner's
\* symbol: ids handed out to concurrent submits are never shared, and the stream
\* only copies the symbol it finds (or none).
NeverMisrouted == \A i \in DOMAIN orders : orders[i].sym \in {Owner(i), NoSym}

\* risk_manager.hpp:48 -- "computes the PnL from fill_price": a fill handed to the
\* runners carries the price it was executed at.
FillCarriesPrice ==
  \A t \in Threads : pc[t] = "inside" /\ IsFill(t) => arg[t].price > 0
=============================================================================
