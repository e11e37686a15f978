--------------------------- MODULE ExposureProofs ---------------------------
(***************************************************************************)
(* Proofs about OrderClient and Exposure, for every set of runners, every  *)
(* quantity and any number of orders and breaks of the stream.             *)
(***************************************************************************)
EXTENDS Exposure, FiniteSetTheorems, SequenceTheorems, TLAPS

\* The steps of both specifications, seen from OrderClient
ClientNext ==
  \/ \E r \in Runners : \/ \E q \in Nat \ {0} : Submit(r, q)
                        \/ PlaceFails(r) \/ Accept(r) \/ Answer(r)
  \/ \E t \in Threads : \/ UpsertRead(t) \/ UpsertWrite(t) \/ InvokeCallback(t)
                        \/ (\E r \in Runners : CallRunner(t, r)) \/ CallbackEnds(t)
  \/ Subscribe \/ StreamBreaks \/ StreamRead \/ StreamLookup
  \/ \E i \in DOMAIN ex : Fill(i) \/ Expire(i) \/ Cancel(i)

-----------------------------------------------------------------------------
(* Types, and what a thread holds where it is *)

Pcs == {"idle", "place", "answer", "lookup", "read", "write", "call", "inside"}
Args == [id : Ids \cup {0}, sym : Runners \cup {NoSym}, status : Statuses,
         filled : Int, price : Int]
Reports == [id : Ids, status : ExStatuses, filled : Nat]
ExOrders == [owner : Runners \cup {NoSym}, qty : Nat, filled : Nat, status : ExStatuses]

\* TypeOK, with a name for the type of every variable
Types ==
  /\ DOMAIN orders \subseteq Ids /\ \A i \in DOMAIN orders : orders[i] \in Record
  /\ nextId \in 1..(MaxOrders + 1)
  /\ pc \in [Threads -> Pcs] /\ arg \in [Threads -> Args] /\ delta \in [Threads -> Int]
  /\ connected \in BOOLEAN /\ wire \in Seq(Reports)
  /\ DOMAIN ex \subseteq Ids /\ \A i \in DOMAIN ex : ex[i] \in ExOrders
  /\ drops \in 0..MaxDrops /\ counted \in [Runners -> [Ids -> Int]]
  /\ left \subseteq Runners /\ overtaken \subseteq Ids

\* A submit() has its own id, below the counter; the stream has one of the exchange's;
\* one thread at a time has cb_mu_.
Holds ==
  /\ \A r \in Runners :
       /\ pc[r] # "lookup"
       /\ pc[r] = "idle" => arg[r].id = 0
       /\ pc[r] # "idle" => arg[r].id \in 1..(nextId - 1) /\ arg[r].sym = r
       /\ pc[r] = "place" => arg[r].filled > 0
       /\ pc[r] \notin {"idle", "place"} => arg[r].id \in DOMAIN ex
  /\ \A r, q \in Runners : r # q /\ pc[r] # "idle" => arg[r].id # arg[q].id
  /\ pc[Stream] \notin {"place", "answer"}
  /\ pc[Stream] = "idle" => arg[Stream].id = 0
  /\ pc[Stream] # "idle" => arg[Stream].id \in Ids
  /\ \A t, u \in Threads : pc[t] = "inside" /\ pc[u] = "inside" => t = u

ClientInv == Types /\ Holds

\* It says the same.
LEMMA TypesOf == Types <=> TypeOK
BY DEF Types, TypeOK, Pcs, Args, Reports, ExOrders

\* map_status() is total.
LEMMA MapStatusTotal == \A s : MapStatus(s) \in Statuses
BY DEF MapStatus, Statuses

\* A function on 1..n is a sequence of length n.
LEMMA FunctionIsSeq ==
  \A R : \A n \in Nat : \A w \in [1..n -> R] : w \in Seq(R) /\ Len(w) = n
OBVIOUS

\* A snapshot is a sequence of reports, each the present state of an order.
LEMMA SnapshotReports ==
  ASSUME Types, NEW w \in Snapshots
  PROVE  /\ w \in Seq(Reports)
         /\ \A k \in 1..Len(w) : /\ w[k].id \in DOMAIN ex
                                 /\ w[k] = Report(w[k].id, ex[w[k].id])
<1>1. DOMAIN ex \subseteq Ids
  BY DEF Types
<1>2. Cardinality(DOMAIN ex) \in Nat
  <2>1. IsFiniteSet(Ids)
    BY FS_Interval, OrderAssumption DEF Ids
  <2> QED  BY <1>1, <2>1, FS_Subset, FS_CardinalityType
<1>3. PICK ids \in [1..Cardinality(DOMAIN ex) -> DOMAIN ex] :
        w = [k \in 1..Cardinality(DOMAIN ex) |-> Report(ids[k], ex[ids[k]])]
  BY DEF Snapshots, ByAge
<1>4. \A i \in DOMAIN ex : Report(i, ex[i]) \in Reports
  BY <1>1 DEF Report, Types, Reports, ExOrders
<1>5. Len(w) = Cardinality(DOMAIN ex) /\ w \in Seq(Reports)
  <2>1. w \in [1..Cardinality(DOMAIN ex) -> Reports]
    BY <1>3, <1>4
  <2> QED  BY <1>2, <2>1, FunctionIsSeq
<1>6. ASSUME NEW k \in 1..Len(w)
      PROVE  w[k].id \in DOMAIN ex /\ w[k] = Report(w[k].id, ex[w[k].id])
  <2>1. w[k] = Report(ids[k], ex[ids[k]]) /\ ids[k] \in DOMAIN ex
    BY <1>3, <1>5
  <2> QED  BY <2>1 DEF Report
<1> QED  BY <1>5, <1>6

\* No order and no thread yet.
LEMMA ClientInit == Init => ClientInv
<1> SUFFICES ASSUME Init PROVE ClientInv
  OBVIOUS
<1> USE OrderAssumption
<1>1. DOMAIN orders = {} /\ nextId \in 1..(MaxOrders + 1)
  BY DEF Init
<1>2. /\ pc \in [Threads -> Pcs]
      /\ delta \in [Threads -> Int] /\ drops \in 0..MaxDrops
      /\ counted \in [Runners -> [Ids -> Int]] /\ left \subseteq Runners /\ overtaken \subseteq Ids
  BY DEF Init, Pcs
<1> connected \in BOOLEAN
  BY DEF Init
<1>3. arg \in [Threads -> Args]
  BY DEF Init, NoArg, Statuses, Args
<1>4. wire \in Seq(Reports)
  BY DEF Init
<1>5. /\ DOMAIN ex \subseteq Ids
      /\ \A i \in DOMAIN ex : ex[i] \in ExOrders
  BY DEF Init, Ids, ExStatuses, ExOrders
<1>6. Holds
  BY DEF Init, Holds, Threads, NoArg
<1> QED  BY <1>1, <1>2, <1>3, <1>4, <1>5, <1>6 DEF ClientInv, Types

\* An idle thread's OrderState
LEMMA NoArgType == NoArg \in Args /\ NoArg.id = 0
BY DEF NoArg, Args, Statuses

\* What submit() begins with
LEMMA SubmitArg ==
  ASSUME NEW a \in Args, NEW i \in Ids, NEW r \in Runners, NEW q \in Int
  PROVE  /\ [a EXCEPT !.id = i, !.sym = r, !.filled = q] \in Args
         /\ [a EXCEPT !.id = i, !.sym = r, !.filled = q].id = i
         /\ [a EXCEPT !.id = i, !.sym = r, !.filled = q].sym = r
         /\ [a EXCEPT !.id = i, !.sym = r, !.filled = q].filled = q
<1>1. [a EXCEPT !.id = i, !.sym = r, !.filled = q] \in Args
  BY DEF Args
<1>2. [a EXCEPT !.id = i, !.sym = r, !.filled = q].id = i
  BY DEF Args
<1>3. [a EXCEPT !.id = i, !.sym = r, !.filled = q].sym = r
  BY DEF Args
<1>4. [a EXCEPT !.id = i, !.sym = r, !.filled = q].filled = q
  BY DEF Args
<1> QED  BY <1>1, <1>2, <1>3, <1>4

\* Every thread is a runner's or the stream's.
LEMMA ThreadKinds ==
  /\ Runners \subseteq Threads /\ Stream \in Threads /\ Stream \notin Runners
  /\ \A t \in Threads : t \in Runners \/ t = Stream
BY OrderAssumption DEF Threads

\* Every action keeps the types.
LEMMA TypeStep == ClientInv /\ [ClientNext]_vars => Types'
<1> SUFFICES ASSUME ClientInv, [ClientNext]_vars PROVE Types'
  OBVIOUS
<1> Types /\ Holds
  BY DEF ClientInv
<1> USE ThreadKinds DEF Types, client, exchange, history, Goto
<1>1. ASSUME NEW r \in Runners, NEW q \in Nat \ {0}, Submit(r, q) PROVE Types'
  <2>1. nextId \in Ids /\ nextId' \in 1..(MaxOrders + 1)
    BY <1>1, OrderAssumption DEF Submit, Ids
  <2>2. q \in Int
    OBVIOUS
  <2>3. [NoArg EXCEPT !.id = nextId, !.sym = r, !.filled = q] \in Args
    BY <2>1, <2>2, NoArgType, SubmitArg, Zenon
  <2>4. pc' \in [Threads -> Pcs] /\ arg' \in [Threads -> Args]
    BY <1>1, <2>3 DEF Submit, Pcs
  <2> QED  BY <1>1, <2>1, <2>4 DEF Submit
<1>2. ASSUME NEW r \in Runners, PlaceFails(r) PROVE Types'
  <2>1. pc' \in [Threads -> Pcs] /\ arg' \in [Threads -> Args]
    BY <1>2, NoArgType DEF PlaceFails, Pcs
  <2> QED  BY <1>2, <2>1 DEF PlaceFails
<1>3. ASSUME NEW r \in Runners, Accept(r) PROVE Types'
  <2>1. arg[r].id \in Ids /\ arg[r].filled \in Nat
    BY <1>3, OrderAssumption DEF Accept, Holds, Ids, Args
  <2>2. PICK x \in ExOrders :
          ex' = Put(ex, arg[r].id, x) /\ (wire' = wire \/ wire' = Append(wire, Report(arg[r].id, x)))
    BY <1>3, <2>1 DEF Accept, Send, ExOrders, ExStatuses
  <2>3. DOMAIN ex' \subseteq Ids /\ \A i \in DOMAIN ex' : ex'[i] \in ExOrders
    BY <2>1, <2>2 DEF Put
  <2>4. Report(arg[r].id, x) \in Reports
    BY <2>1 DEF Report, Reports, ExOrders
  <2>5. wire' \in Seq(Reports)
    <3>1. Append(wire, Report(arg[r].id, x)) \in Seq(Reports)
      BY <2>4, AppendProperties
    <3> QED  BY <2>2, <3>1
  <2>6. pc' \in [Threads -> Pcs]
    BY <1>3 DEF Accept, Pcs
  <2> QED  BY <1>3, <2>3, <2>5, <2>6 DEF Accept
<1>4. ASSUME NEW r \in Runners, Answer(r) PROVE Types'
  <2>1. pc' \in [Threads -> Pcs]
    BY <1>4 DEF Answer, Pcs
  <2>2. PICK s \in Statuses : \/ arg' = [arg EXCEPT ![r].status = s, ![r].filled = 0]
                              \/ arg' = [arg EXCEPT ![r] = NoArg]
    BY <1>4, MapStatusTotal DEF Answer
  <2>3. [arg[r] EXCEPT !.status = s, !.filled = 0] \in Args
    <3>1. arg[r] \in Args /\ 0 \in Int
      OBVIOUS
    <3> QED  BY <3>1 DEF Args
  <2>4. arg' \in [Threads -> Args]
    BY <2>2, <2>3, NoArgType
  <2> QED  BY <1>4, <2>1, <2>4 DEF Answer
<1>5. ASSUME NEW t \in Threads, UpsertRead(t) PROVE Types'
  <2>1. pc' \in [Threads -> Pcs]
    BY <1>5 DEF UpsertRead, Pcs
  <2>2. delta' \in [Threads -> Int]
    BY <1>5 DEF UpsertRead, Args, Record
  <2> QED  BY <1>5, <2>1, <2>2 DEF UpsertRead
<1>6. ASSUME NEW t \in Threads, UpsertWrite(t) PROVE Types'
  <2>1. arg[t].id \in Ids
    BY <1>6, OrderAssumption DEF UpsertWrite, Holds, Ids
  <2>2. [sym |-> arg[t].sym, status |-> arg[t].status,
         filled |-> arg[t].filled, price |-> arg[t].price] \in Record
    BY DEF Record, Args
  <2>3. DOMAIN orders' \subseteq Ids /\ \A i \in DOMAIN orders' : orders'[i] \in Record
    BY <1>6, <2>1, <2>2 DEF UpsertWrite, Put
  <2>4. pc' \in [Threads -> Pcs]
    BY <1>6 DEF UpsertWrite, Pcs
  <2> QED  BY <1>6, <2>3, <2>4 DEF UpsertWrite
<1>7. ASSUME NEW t \in Threads, InvokeCallback(t) PROVE Types'
  <2>1. pc' \in [Threads -> Pcs] /\ left' \subseteq Runners
    BY <1>7 DEF InvokeCallback, Pcs
  <2> QED  BY <1>7, <2>1 DEF InvokeCallback
<1>14. ASSUME NEW t \in Threads, NEW r \in Runners, CallRunner(t, r) PROVE Types'
  <2>2. arg[t].id \in Ids
    <3>1. CASE t \in Runners
      BY <1>14, <3>1, OrderAssumption DEF CallRunner, Holds, Ids
    <3>2. CASE t = Stream
      BY <1>14, <3>2 DEF CallRunner, Holds
    <3> QED  BY <3>1, <3>2
  <2>3. [counted[r] EXCEPT ![arg[t].id] = @ + delta[t]] \in [Ids -> Int]
    BY <2>2
  <2>4. counted' \in [Runners -> [Ids -> Int]]
    BY <1>14, <2>3 DEF CallRunner
  <2> QED  BY <1>14, <2>4 DEF CallRunner
<1>15. ASSUME NEW t \in Threads, CallbackEnds(t) PROVE Types'
  <2>1. pc' \in [Threads -> Pcs] /\ arg' \in [Threads -> Args] /\ delta' \in [Threads -> Int]
    BY <1>15, NoArgType DEF CallbackEnds, Pcs
  <2> QED  BY <1>15, <2>1 DEF CallbackEnds
<1>8. CASE Subscribe
  <2>1. wire' \in Seq(Reports)
    BY <1>8, SnapshotReports DEF Subscribe, Reports
  <2> QED  BY <1>8, <2>1 DEF Subscribe
<1>9. CASE StreamBreaks
  <2>1. wire' \in Seq(Reports) /\ drops' \in 0..MaxDrops
    BY <1>9, OrderAssumption DEF StreamBreaks
  <2> QED  BY <1>9, <2>1 DEF StreamBreaks
<1>10. CASE StreamRead
  <2>1. Head(wire) \in Reports /\ wire' \in Seq(Reports)
    BY <1>10 DEF StreamRead
  <2>2. arg' \in [Threads -> Args] /\ pc' \in [Threads -> Pcs]
    BY <1>10, <2>1, MapStatusTotal DEF StreamRead, Reports, Args, Pcs
  <2>3. overtaken' \subseteq Ids
    BY <1>10, <2>1 DEF StreamRead, Reports
  <2> QED  BY <1>10, <2>1, <2>2, <2>3 DEF StreamRead
<1>11. CASE StreamLookup
  <2>1. PICK sym \in Runners \cup {NoSym} : arg' = [arg EXCEPT ![Stream].sym = sym]
    BY <1>11 DEF StreamLookup, Record
  <2>2. [arg[Stream] EXCEPT !.sym = sym] \in Args
    <3>1. arg[Stream] \in Args
      OBVIOUS
    <3> QED  BY <3>1 DEF Args
  <2>3. arg' \in [Threads -> Args] /\ pc' \in [Threads -> Pcs]
    BY <1>11, <2>1, <2>2 DEF StreamLookup, Pcs
  <2> QED  BY <1>11, <2>3 DEF StreamLookup
<1>12. ASSUME NEW i \in DOMAIN ex, Fill(i) \/ Expire(i) \/ Cancel(i) PROVE Types'
  <2>1. PICK x \in ExOrders : Change(i, x)
    <3>1. ASSUME NEW n \in Nat, NEW s \in ExStatuses
          PROVE  [ex[i] EXCEPT !.filled = n, !.status = s] \in ExOrders
                 /\ [ex[i] EXCEPT !.status = s] \in ExOrders
      BY DEF ExOrders
    <3>2. ex[i].filled \in Nat /\ ex[i].filled + 1 \in Nat
      BY DEF ExOrders
    <3> QED  BY <1>12, <3>1, <3>2 DEF Fill, Expire, Cancel, ExStatuses
  <2>2. Report(i, x) \in Reports
    BY DEF Report, Reports, ExOrders
  <2>3. wire' \in Seq(Reports)
    BY <2>1, <2>2, AppendProperties DEF Change, Send
  <2>4. DOMAIN ex' \subseteq Ids /\ \A j \in DOMAIN ex' : ex'[j] \in ExOrders
    BY <2>1 DEF Change
  <2> QED  BY <2>1, <2>3, <2>4 DEF Change
<1>13. CASE UNCHANGED vars
  BY <1>13 DEF vars
<1> QED
  BY <1>1, <1>2, <1>3, <1>4, <1>5, <1>6, <1>7, <1>8, <1>9, <1>10, <1>11, <1>12, <1>13, <1>14, <1>15
  DEF ClientNext

\* Every action keeps the ids apart.
LEMMA HoldsStep == ClientInv /\ [ClientNext]_vars => Holds'
<1> SUFFICES ASSUME ClientInv, [ClientNext]_vars PROVE Holds'
  OBVIOUS
<1>0. /\ pc \in [Threads -> Pcs] /\ arg \in [Threads -> Args] /\ nextId \in Nat
      /\ nextId \in 1..(MaxOrders + 1) /\ MaxOrders \in Nat
  BY OrderAssumption DEF ClientInv, Types
<1> Holds
  BY DEF ClientInv
<1> USE <1>0, ThreadKinds DEF Holds, client, exchange, Goto
<1>1. ASSUME NEW r \in Runners, NEW q \in Nat \ {0}, Submit(r, q) PROVE Holds'
  <2>1. nextId \in Ids /\ q \in Int
    BY <1>1 DEF Submit, Ids
  <2> DEFINE a == [NoArg EXCEPT !.id = nextId, !.sym = r, !.filled = q]
  <2>2. a.id = nextId /\ a.sym = r /\ a.filled = q
    BY DEF NoArg
  <2>3. arg' = [arg EXCEPT ![r] = a] /\ pc' = [pc EXCEPT ![r] = "place"] /\ nextId' = nextId + 1
        /\ ex' = ex
    BY <1>1 DEF Submit
  <2> HIDE DEF a
  <2> QED  BY <2>2, <2>3
<1>2. ASSUME NEW r \in Runners, PlaceFails(r) PROVE Holds'
  BY <1>2, NoArgType DEF PlaceFails
<1>3. ASSUME NEW r \in Runners, Accept(r) PROVE Holds'
  <2>1. PICK x : ex' = Put(ex, arg[r].id, x)
    BY <1>3 DEF Accept
  <2>2. DOMAIN ex' = DOMAIN ex \cup {arg[r].id}
    BY <2>1 DEF Put
  <2> QED  BY <1>3, <2>2 DEF Accept
<1>4. ASSUME NEW r \in Runners, Answer(r) PROVE Holds'
  <2>1. UNCHANGED <<nextId, ex>> /\ pc[r] = "answer"
    BY <1>4 DEF Answer
  <2>2. CASE pc' = [pc EXCEPT ![r] = "idle"] /\ arg' = [arg EXCEPT ![r] = NoArg]
    BY <2>1, <2>2, NoArgType
  <2>3. CASE /\ pc' = [pc EXCEPT ![r] = "read"]
             /\ arg' = [arg EXCEPT ![r].status = MapStatus(ex[arg[r].id].status), ![r].filled = 0]
    <3>1. arg'[r].id = arg[r].id /\ arg'[r].sym = arg[r].sym
          /\ \A t \in Threads : t # r => arg'[t] = arg[t]
      BY <2>3 DEF Args
    <3>2. /\ \A t \in Threads : arg'[t].id = arg[t].id /\ arg'[t].sym = arg[t].sym
          /\ \A t \in Threads : t # r => pc'[t] = pc[t] /\ arg'[t].filled = arg[t].filled
          /\ pc'[r] = "read" /\ nextId' = nextId /\ ex' = ex
      BY <2>1, <2>3, <3>1
    <3>3. \A q \in Runners :
            /\ pc'[q] # "lookup"
            /\ pc'[q] = "idle" => arg'[q].id = 0
            /\ pc'[q] # "idle" => arg'[q].id \in 1..(nextId' - 1) /\ arg'[q].sym = q
            /\ pc'[q] = "place" => arg'[q].filled > 0
            /\ pc'[q] \notin {"idle", "place"} => arg'[q].id \in DOMAIN ex'
      BY <2>1, <3>2
    <3>4. \A p, q \in Runners : p # q /\ pc'[p] # "idle" => arg'[p].id # arg'[q].id
      BY <2>1, <3>2
    <3> QED  BY <3>2, <3>3, <3>4
  <2> QED  BY <1>4, <2>2, <2>3 DEF Answer
<1>5. ASSUME NEW t \in Threads, UpsertRead(t) PROVE Holds'
  BY <1>5 DEF UpsertRead
<1>6. ASSUME NEW t \in Threads, UpsertWrite(t) PROVE Holds'
  BY <1>6 DEF UpsertWrite
<1>7. ASSUME NEW t \in Threads, InvokeCallback(t) PROVE Holds'
  BY <1>7 DEF InvokeCallback
<1>14. ASSUME NEW t \in Threads, NEW r \in Runners, CallRunner(t, r) PROVE Holds'
  BY <1>14 DEF CallRunner
<1>15. ASSUME NEW t \in Threads, CallbackEnds(t) PROVE Holds'
  <2>1. /\ pc' = [pc EXCEPT ![t] = "idle"] /\ arg' = [arg EXCEPT ![t] = NoArg]
        /\ UNCHANGED <<nextId, ex>>
    BY <1>15 DEF CallbackEnds
  <2> QED  BY <2>1, NoArgType
<1>8. CASE Subscribe
  BY <1>8 DEF Subscribe
<1>9. CASE StreamBreaks
  BY <1>9 DEF StreamBreaks
<1>10. CASE StreamRead
  <2>1. Head(wire).id \in Ids
    <3>1. wire \in Seq(Reports) /\ wire # <<>>
      BY <1>10 DEF StreamRead, ClientInv, Types
    <3>2. Head(wire) \in Reports
      BY <3>1
    <3> QED  BY <3>2 DEF Reports
  <2>2. /\ arg'[Stream].id = Head(wire).id /\ \A r \in Runners : arg'[r] = arg[r]
        /\ pc' = [pc EXCEPT ![Stream] = "lookup"] /\ UNCHANGED <<nextId, ex>>
    BY <1>10 DEF StreamRead
  <2> QED  BY <2>1, <2>2
<1>11. CASE StreamLookup
  <2>1. /\ arg'[Stream].id = arg[Stream].id /\ \A r \in Runners : arg'[r] = arg[r]
        /\ pc[Stream] = "lookup" /\ pc' = [pc EXCEPT ![Stream] = "read"] /\ UNCHANGED <<nextId, ex>>
    BY <1>11 DEF StreamLookup, Args
  <2> QED  BY <2>1
<1>12. ASSUME NEW i \in DOMAIN ex, Fill(i) \/ Expire(i) \/ Cancel(i) PROVE Holds'
  <2>1. DOMAIN ex' = DOMAIN ex /\ UNCHANGED <<pc, arg, nextId>>
    BY <1>12 DEF Fill, Expire, Cancel, Change
  <2> QED  BY <2>1
<1>13. CASE UNCHANGED vars
  BY <1>13 DEF vars
<1> QED
  BY <1>1, <1>2, <1>3, <1>4, <1>5, <1>6, <1>7, <1>8, <1>9, <1>10, <1>11, <1>12, <1>13, <1>14, <1>15
  DEF ClientNext

\* Every action keeps the invariant.
LEMMA ClientStep == ClientInv /\ [ClientNext]_vars => ClientInv'
BY TypeStep, HoldsStep DEF ClientInv

-----------------------------------------------------------------------------
(* Reports in order (no orders of an earlier run) *)

\* What map_status() makes of a report or an order
Mapped(x) == [status |-> MapStatus(x.status), filled |-> x.filled]

\* A record or report may be followed by another one: fills are never taken back, a
\* final status stays, and a partly filled order is not new again.
Precedes(x, y) ==
  /\ x.filled <= y.filled
  /\ x.status \in Terminal => y.status = x.status /\ y.filled = x.filled
  /\ x.status = "PartialFill" => y.status # "Pending"

\* Every order has an owner and was numbered by this process.
Owned ==
  \A i \in DOMAIN ex :
    /\ i < nextId /\ ex[i].owner \in Runners
    /\ ex[i].status = "NEW" => ex[i].filled = 0
    /\ \A r \in Runners : arg[r].id = i => r = ex[i].owner /\ pc[r] # "place"

StreamHas(i) == pc[Stream] # "idle" /\ arg[Stream].id = i

\* A report on the way: behind what the stream thread has taken, before what the
\* exchange has.
OnTheWay(m) ==
  /\ m.id \in DOMAIN ex /\ Precedes(Mapped(m), Mapped(ex[m.id]))
  /\ m.status = "NEW" => m.filled = 0
  /\ StreamHas(m.id) => Precedes(arg[Stream], Mapped(m))

\* What the stream thread has taken, what is on the way and what the exchange has
\* follow one another.
InOrder ==
  /\ \A k \in 1..Len(wire) : OnTheWay(wire[k])
  /\ \A j, k \in 1..Len(wire) :
       j < k /\ wire[j].id = wire[k].id => Precedes(Mapped(wire[j]), Mapped(wire[k]))
  /\ pc[Stream] # "idle" =>
       /\ arg[Stream].id \in DOMAIN ex /\ Precedes(arg[Stream], Mapped(ex[arg[Stream].id]))
       /\ arg[Stream].status = "Pending" => arg[Stream].filled = 0

\* map_status() of the exchange's statuses
LEMMA MapStatusOf ==
  /\ MapStatus("NEW") = "Pending" /\ MapStatus("PARTIALLY_FILLED") = "PartialFill"
  /\ MapStatus("FILLED") = "Filled" /\ MapStatus("CANCELED") = "Cancelled"
  /\ MapStatus("EXPIRED") = "Cancelled" /\ MapStatus("REJECTED") = "Rejected"
BY DEF MapStatus

\* Precedes is a preorder.
LEMMA PrecedesSelf == ASSUME NEW x, x.filled \in Int PROVE Precedes(x, x)
BY DEF Precedes

\* What follows a follower follows.
LEMMA PrecedesTrans ==
  ASSUME NEW x, NEW y, NEW z, x.filled \in Int, y.filled \in Int, z.filled \in Int,
         y.status \in Statuses, Precedes(x, y), Precedes(y, z)
  PROVE  Precedes(x, z)
BY DEF Precedes, Statuses, Terminal

\* The fields of what map_status() makes
LEMMA MappedFields ==
  ASSUME NEW x PROVE Mapped(x).filled = x.filled /\ Mapped(x).status = MapStatus(x.status)
BY DEF Mapped

\* A report of an order is that order to map_status().
LEMMA MappedReport ==
  ASSUME NEW i, NEW x
  PROVE  Mapped(Report(i, x)) = Mapped(x) /\ Report(i, x).id = i
         /\ Report(i, x).status = x.status /\ Report(i, x).filled = x.filled
BY DEF Mapped, Report

\* What the exchange does to an order it has.
LEMMA ChangeOf ==
  ASSUME Types, NEW i \in DOMAIN ex, Fill(i) \/ Expire(i) \/ Cancel(i)
  PROVE  \E x \in ExOrders :
           /\ Change(i, x) /\ ex[i].status \in Live
           /\ Precedes(Mapped(ex[i]), Mapped(x)) /\ x.status # "NEW"
           /\ x.owner = ex[i].owner /\ x.qty = ex[i].qty
           /\ \/ x.filled = ex[i].filled /\ x.status \in {"EXPIRED", "CANCELED"}
              \/ /\ x.filled = ex[i].filled + 1
                 /\ x.status = IF x.filled = ex[i].qty THEN "FILLED" ELSE "PARTIALLY_FILLED"
<1> ex[i] \in ExOrders /\ ex[i].filled \in Nat
  BY DEF Types, ExOrders
<1>1. CASE Fill(i)
  <2> DEFINE s == IF ex[i].filled + 1 = ex[i].qty THEN "FILLED" ELSE "PARTIALLY_FILLED"
             x == [ex[i] EXCEPT !.filled = ex[i].filled + 1, !.status = s]
  <2>0. s \in ExStatuses /\ ex[i].filled + 1 \in Nat
    BY DEF ExStatuses
  <2>1. x \in ExOrders /\ x.filled = ex[i].filled + 1 /\ x.status = s
        /\ x.owner = ex[i].owner /\ x.qty = ex[i].qty
    <3> DEFINE n == ex[i].filled + 1
    <3>0. n \in Nat /\ s \in ExStatuses
      BY <2>0
    <3> HIDE DEF n, s
    <3> DEFINE y == [ex[i] EXCEPT !.filled = n, !.status = s]
    <3>1. y \in ExOrders
      BY <3>0 DEF ExOrders
    <3>2. y.filled = n /\ y.status = s
      BY <3>0 DEF ExOrders
    <3>3. y.owner = ex[i].owner /\ y.qty = ex[i].qty
      BY <3>0 DEF ExOrders
    <3> QED  BY <3>1, <3>2, <3>3 DEF n
  <2>2. Change(i, x) /\ ex[i].status \in Live
    BY <1>1 DEF Fill
  <2>3. Precedes(Mapped(ex[i]), Mapped(x))
    BY <2>1, <2>2, MapStatusOf DEF Precedes, Mapped, Live, Terminal
  <2>4. x.status = (IF x.filled = ex[i].qty THEN "FILLED" ELSE "PARTIALLY_FILLED")
        /\ x.status # "NEW"
    BY <2>1
  <2> HIDE DEF x
  <2> QED  BY <2>1, <2>2, <2>3, <2>4
<1>2. ASSUME NEW s \in {"EXPIRED", "CANCELED"}, Change(i, [ex[i] EXCEPT !.status = s]),
             ex[i].status \in Live
      PROVE  \E x \in ExOrders :
               /\ Change(i, x) /\ ex[i].status \in Live
               /\ Precedes(Mapped(ex[i]), Mapped(x)) /\ x.status # "NEW"
               /\ x.owner = ex[i].owner /\ x.qty = ex[i].qty
               /\ x.filled = ex[i].filled /\ x.status \in {"EXPIRED", "CANCELED"}
  <2> DEFINE x == [ex[i] EXCEPT !.status = s]
  <2>1. x \in ExOrders /\ x.filled = ex[i].filled /\ x.status = s
        /\ x.owner = ex[i].owner /\ x.qty = ex[i].qty
    BY DEF ExOrders, ExStatuses
  <2>2. Precedes(Mapped(ex[i]), Mapped(x))
    BY <1>2, <2>1, MapStatusOf DEF Precedes, Mapped, Live, Terminal
  <2> QED  BY <1>2, <2>1, <2>2
<1>3. CASE Expire(i)
  BY <1>2, <1>3 DEF Expire
<1>4. CASE Cancel(i)
  BY <1>2, <1>4 DEF Cancel
<1> QED  BY <1>1, <1>3, <1>4

\* An order at the exchange goes on, or is new there.
GoesOn(i) ==
  /\ i \in DOMAIN ex' /\ ex'[i].owner = ex[i].owner /\ ex'[i].qty = ex[i].qty
  /\ Precedes(Mapped(ex[i]), Mapped(ex'[i]))
  /\ \/ ex'[i] = ex[i]
     \/ /\ ex'[i].status # "NEW" /\ ex[i].status \in Live
        /\ \/ ex'[i].filled = ex[i].filled /\ ex'[i].status \in {"EXPIRED", "CANCELED"}
           \/ /\ ex'[i].filled = ex[i].filled + 1
              /\ ex'[i].status = IF ex'[i].filled = ex[i].qty THEN "FILLED"
                                 ELSE "PARTIALLY_FILLED"

\* submit() of r brings it to the exchange.
Arrives(i, r) ==
  /\ Accept(r) /\ pc[r] = "place" /\ arg[r].id = i
  /\ ex'[i].owner = r /\ ex'[i].qty = arg[r].filled /\ ex'[i].filled = 0
  /\ ex'[i].status \in {"NEW", "REJECTED"}

\* What every step does to the exchange's orders
LEMMA ExEffect ==
  ASSUME ClientInv, Owned, [ClientNext]_vars
  PROVE  /\ \A i \in DOMAIN ex : GoesOn(i)
         /\ \A i \in DOMAIN ex' : i \in DOMAIN ex \/ \E r \in Runners : Arrives(i, r)
<1>0. \A i \in DOMAIN ex : ex[i].filled \in Nat
  BY DEF ClientInv, Types, ExOrders
<1>1. CASE UNCHANGED ex
  BY <1>0, <1>1, PrecedesSelf, MappedFields DEF GoesOn
<1>2. ASSUME NEW r \in Runners, Accept(r)
      PROVE  /\ \A i \in DOMAIN ex : GoesOn(i)
             /\ \A i \in DOMAIN ex' : i \in DOMAIN ex \/ \E q \in Runners : Arrives(i, q)
  <2>1. PICK s \in {"NEW", "REJECTED"} :
          ex' = Put(ex, arg[r].id, [owner |-> r, qty |-> arg[r].filled, filled |-> 0, status |-> s])
    BY <1>2 DEF Accept
  <2>2. pc[r] = "place" /\ arg[r].id \notin DOMAIN ex
    BY <1>2 DEF Accept, Owned
  <2>3. \A i \in DOMAIN ex : i \in DOMAIN ex' /\ ex'[i] = ex[i]
    BY <2>1, <2>2 DEF Put
  <2>4. \A i \in DOMAIN ex' : i \in DOMAIN ex \/ i = arg[r].id
    BY <2>1 DEF Put
  <2>5. Arrives(arg[r].id, r)
    BY <1>2, <2>1, <2>2 DEF Put, Arrives
  <2> QED  BY <1>0, <2>3, <2>4, <2>5, PrecedesSelf, MappedFields DEF GoesOn
<1>3. ASSUME NEW i \in DOMAIN ex, Fill(i) \/ Expire(i) \/ Cancel(i)
      PROVE  DOMAIN ex' = DOMAIN ex /\ \A j \in DOMAIN ex : GoesOn(j)
  <2>1. PICK x \in ExOrders :
           /\ Change(i, x) /\ ex[i].status \in Live
           /\ Precedes(Mapped(ex[i]), Mapped(x)) /\ x.status # "NEW"
           /\ x.owner = ex[i].owner /\ x.qty = ex[i].qty
           /\ \/ x.filled = ex[i].filled /\ x.status \in {"EXPIRED", "CANCELED"}
              \/ /\ x.filled = ex[i].filled + 1
                 /\ x.status = IF x.filled = ex[i].qty THEN "FILLED" ELSE "PARTIALLY_FILLED"
    BY <1>3, ChangeOf DEF ClientInv
  <2>2. DOMAIN ex' = DOMAIN ex /\ ex'[i] = x /\ \A j \in DOMAIN ex : j # i => ex'[j] = ex[j]
    BY <2>1 DEF Change
  <2>4. GoesOn(i)
    BY <2>1, <2>2 DEF GoesOn
  <2>5. \A j \in DOMAIN ex : j # i => GoesOn(j)
    BY <1>0, <2>2, PrecedesSelf, MappedFields DEF GoesOn
  <2> QED  BY <2>2, <2>4, <2>5
<1>4. \/ UNCHANGED ex \/ \E r \in Runners : Accept(r)
      \/ \E i \in DOMAIN ex : Fill(i) \/ Expire(i) \/ Cancel(i)
  BY DEF ClientNext, Submit, PlaceFails, Answer, UpsertRead, UpsertWrite, InvokeCallback,
         CallRunner, CallbackEnds, Subscribe, StreamBreaks, StreamRead, StreamLookup,
         vars, client, exchange
<1> QED  BY <1>1, <1>2, <1>3, <1>4

\* A report just sent is the present state of an order.
JustSent(m) == m.id \in DOMAIN ex' /\ m = Report(m.id, ex'[m.id])

\* What every step does to the reports on the way
LEMMA WireEffect ==
  ASSUME ClientInv, Owned, [ClientNext]_vars
  PROVE  /\ \A k \in 1..Len(wire') : JustSent(wire'[k]) \/ \E j \in 1..Len(wire) : wire'[k] = wire[j]
         /\ \A j, k \in 1..Len(wire') : j < k =>
              \/ JustSent(wire'[k])
              \/ \E a, b \in 1..Len(wire) : a < b /\ wire'[j] = wire[a] /\ wire'[k] = wire[b]
<1> DEFINE Goal == 
         /\ \A k \in 1..Len(wire') : JustSent(wire'[k]) \/ \E j \in 1..Len(wire) : wire'[k] = wire[j]
         /\ \A j, k \in 1..Len(wire') : j < k =>
              \/ JustSent(wire'[k])
              \/ \E a, b \in 1..Len(wire) : a < b /\ wire'[j] = wire[a] /\ wire'[k] = wire[b]
<1>0. wire \in Seq(Reports)
  BY DEF ClientInv, Types
<1>1. CASE UNCHANGED wire
  BY <1>1
<1>2. ASSUME NEW m, wire' = Append(wire, m), JustSent(m) PROVE Goal
  <2>1. /\ Len(wire') = Len(wire) + 1 /\ wire'[Len(wire) + 1] = m
        /\ \A k \in 1..Len(wire) : wire'[k] = wire[k]
    BY <1>0, <1>2
  <2>2. Len(wire) \in Nat
    BY <1>0
  <2> QED  BY <1>2, <2>1, <2>2
<1>3. CASE wire' = <<>>
  BY <1>3
<1>4. CASE wire # <<>> /\ wire' = Tail(wire)
  <2>1. Len(wire') = Len(wire) - 1 /\ \A k \in 1..Len(wire') : wire'[k] = wire[k + 1]
    BY <1>0, <1>4
  <2>2. Len(wire) \in Nat
    BY <1>0
  <2> QED  BY <2>1, <2>2
<1>5. CASE Subscribe
  <2>1. /\ \A k \in 1..Len(wire') : /\ wire'[k].id \in DOMAIN ex
                                    /\ wire'[k] = Report(wire'[k].id, ex[wire'[k].id])
        /\ ex' = ex
    BY <1>5, SnapshotReports DEF Subscribe, ClientInv
  <2>2. \A k \in 1..Len(wire') : JustSent(wire'[k])
    BY <2>1 DEF JustSent
  <2> QED  BY <2>2
<1>6. ASSUME NEW r \in Runners, Accept(r), wire' # wire PROVE Goal
  <2>1. PICK x : /\ ex' = Put(ex, arg[r].id, x)
                 /\ wire' = Append(wire, Report(arg[r].id, x))
    BY <1>6 DEF Accept, Send
  <2>2. arg[r].id \in DOMAIN ex' /\ ex'[arg[r].id] = x
    BY <2>1 DEF Put
  <2>3. JustSent(Report(arg[r].id, x))
    BY <2>1, <2>2, MappedReport DEF JustSent
  <2> QED  BY <1>2, <2>1, <2>3
<1>7. ASSUME NEW i \in DOMAIN ex, Fill(i) \/ Expire(i) \/ Cancel(i), wire' # wire PROVE Goal
  <2>1. PICK x \in ExOrders : Change(i, x)
    BY <1>7, ChangeOf DEF ClientInv
  <2>2. wire' = Append(wire, Report(i, x)) /\ i \in DOMAIN ex' /\ ex'[i] = x
    BY <1>7, <2>1 DEF Change, Send
  <2>4. JustSent(Report(i, x))
    BY <2>2, MappedReport DEF JustSent
  <2> QED  BY <1>2, <2>2, <2>4
<1>8. \/ UNCHANGED wire \/ wire' = <<>> \/ (wire # <<>> /\ wire' = Tail(wire)) \/ Subscribe
      \/ \E r \in Runners : Accept(r)
      \/ \E i \in DOMAIN ex : Fill(i) \/ Expire(i) \/ Cancel(i)
  BY DEF ClientNext, Submit, PlaceFails, Answer, UpsertRead, UpsertWrite, InvokeCallback,
         CallRunner, CallbackEnds, StreamBreaks, StreamRead, StreamLookup, vars, client, exchange
<1> QED  BY <1>1, <1>3, <1>4, <1>5, <1>6, <1>7, <1>8

\* What every step does to the ids the submit()s have
LEMMA SubmitEffect ==
  ASSUME ClientInv, [ClientNext]_vars
  PROVE  /\ nextId' \in Nat /\ nextId' >= nextId
         /\ \A r \in Runners :
              \/ arg'[r].id = 0
              \/ arg'[r].id = nextId /\ nextId' = nextId + 1
              \/ arg'[r].id = arg[r].id /\ (pc'[r] = "place" => pc[r] = "place" /\ ~ Accept(r))
<1>0. pc \in [Threads -> Pcs] /\ arg \in [Threads -> Args] /\ nextId \in Nat
  BY OrderAssumption DEF ClientInv, Types
<1> USE <1>0, ThreadKinds
<1>1. ASSUME NEW r \in Runners, NEW q \in Nat \ {0}, Submit(r, q)
      PROVE  /\ nextId' = nextId + 1 /\ arg'[r].id = nextId
             /\ \A t \in Threads : t # r => arg'[t] = arg[t] /\ pc'[t] = pc[t]
             /\ ~ \E t \in Threads : pc[t] = "place" /\ pc'[t] = "answer"
  <2>1. [NoArg EXCEPT !.id = nextId, !.sym = r, !.filled = q].id = nextId
    BY DEF NoArg
  <2> QED  BY <1>1, <2>1 DEF Submit, Goto
<1>2. ASSUME NEW r \in Runners, Answer(r)
      PROVE  /\ nextId' = nextId /\ pc'[r] # "place"
             /\ arg'[r].id = 0 \/ arg'[r].id = arg[r].id
             /\ \A t \in Threads : t # r => arg'[t] = arg[t] /\ pc'[t] = pc[t]
  <2>1. CASE pc' = [pc EXCEPT ![r] = "idle"] /\ arg' = [arg EXCEPT ![r] = NoArg]
    BY <1>2, <2>1, NoArgType DEF Answer
  <2>2. CASE /\ pc' = [pc EXCEPT ![r] = "read"]
             /\ arg' = [arg EXCEPT ![r].status = MapStatus(ex[arg[r].id].status), ![r].filled = 0]
    BY <1>2, <2>2 DEF Answer, Args
  <2> QED  BY <1>2, <2>1, <2>2 DEF Answer, Goto
<1>3. ASSUME NEW t \in Threads,
             PlaceFails(t) \/ CallbackEnds(t)
      PROVE  /\ nextId' = nextId /\ arg'[t].id = 0
             /\ \A u \in Threads : u # t => arg'[u] = arg[u] /\ pc'[u] = pc[u]
  BY <1>3, NoArgType DEF PlaceFails, CallbackEnds, Goto
<1>4. ASSUME NEW t \in Threads,
             Accept(t) \/ UpsertRead(t) \/ UpsertWrite(t) \/ InvokeCallback(t)
             \/ \E r \in Runners : CallRunner(t, r)
      PROVE  nextId' = nextId /\ arg' = arg /\ pc'[t] # "place"
             /\ \A u \in Threads : u # t => pc'[u] = pc[u]
  BY <1>4 DEF Accept, UpsertRead, UpsertWrite, InvokeCallback, CallRunner, Goto
<1>5. ASSUME StreamRead \/ StreamLookup
      PROVE  nextId' = nextId /\ \A r \in Runners : arg'[r] = arg[r] /\ pc'[r] = pc[r]
  BY <1>5 DEF StreamRead, StreamLookup, Goto
<1>6. ASSUME \/ Subscribe \/ StreamBreaks \/ UNCHANGED vars
             \/ \E i \in DOMAIN ex : Fill(i) \/ Expire(i) \/ Cancel(i)
      PROVE  UNCHANGED <<nextId, arg, pc>>
  BY <1>6 DEF Subscribe, StreamBreaks, Fill, Expire, Cancel, Change, vars, client
<1>7. ASSUME NEW r \in Runners, Accept(r) PROVE pc[r] = "place" /\ pc'[r] = "answer"
  BY <1>7 DEF Accept, Goto
<1> QED
  BY <1>1, <1>2, <1>3, <1>4, <1>5, <1>6, <1>7 DEF ClientNext

\* Every step keeps the orders owned.
LEMMA OwnedStep == ClientInv /\ Owned /\ [ClientNext]_vars => Owned'
<1> SUFFICES ASSUME ClientInv, Owned, [ClientNext]_vars, NEW i \in DOMAIN ex'
             PROVE  /\ i < nextId' /\ ex'[i].owner \in Runners
                    /\ ex'[i].status = "NEW" => ex'[i].filled = 0
                    /\ \A r \in Runners : arg'[r].id = i => r = ex'[i].owner /\ pc'[r] # "place"
  BY DEF Owned
<1>0. nextId \in Nat /\ DOMAIN ex \subseteq Ids
  BY OrderAssumption DEF ClientInv, Types
<1>1. CASE i \in DOMAIN ex
  <2>1. GoesOn(i)
    BY <1>1, ExEffect
  <2>2. i \in Nat /\ i # 0 /\ i < nextId
    BY <1>0, <1>1 DEF Owned, Ids
  <2> QED  BY <1>0, <1>1, <2>1, <2>2, SubmitEffect DEF Owned, GoesOn
<1>2. ASSUME NEW q \in Runners, Arrives(i, q)
      PROVE  /\ i < nextId' /\ ex'[i].owner \in Runners
             /\ ex'[i].status = "NEW" => ex'[i].filled = 0
             /\ \A r \in Runners : arg'[r].id = i => r = ex'[i].owner /\ pc'[r] # "place"
  <2>1. i \in 1..(nextId - 1) /\ \A r \in Runners : r # q => arg[r].id # i
    BY <1>2 DEF Arrives, ClientInv, Holds
  <2> QED  BY <1>0, <1>2, <2>1, SubmitEffect DEF Arrives
<1> QED  BY <1>1, <1>2, ExEffect

\* The stream thread keeps the report it has, whatever symbol it finds for it,
StreamKeeps ==
  /\ pc[Stream] # "idle" /\ arg'[Stream].id = arg[Stream].id
  /\ arg'[Stream].status = arg[Stream].status /\ arg'[Stream].filled = arg[Stream].filled

\* or takes the first one on the way.
StreamTakes ==
  /\ StreamRead /\ pc[Stream] = "idle" /\ wire # <<>> /\ wire' = Tail(wire) /\ UNCHANGED ex
  /\ arg'[Stream].id = Head(wire).id /\ arg'[Stream].status = MapStatus(Head(wire).status)
  /\ arg'[Stream].filled = Head(wire).filled

\* The stream thread keeps its report, takes the next one or has none.
LEMMA StreamEffect ==
  ASSUME ClientInv, [ClientNext]_vars
  PROVE  pc'[Stream] = "idle" \/ StreamKeeps \/ StreamTakes
<1>0. pc \in [Threads -> Pcs] /\ arg \in [Threads -> Args]
  BY DEF ClientInv, Types
<1> USE <1>0, ThreadKinds
<1>1. CASE pc'[Stream] = pc[Stream] /\ arg'[Stream] = arg[Stream]
  BY <1>1 DEF StreamKeeps
<1>2. ASSUME NEW r \in Runners, NEW q \in Nat \ {0},
             Submit(r, q) \/ PlaceFails(r) \/ Accept(r) \/ Answer(r)
      PROVE  pc'[Stream] = pc[Stream] /\ arg'[Stream] = arg[Stream]
  BY <1>2 DEF Submit, PlaceFails, Accept, Answer, Goto
<1>3. ASSUME NEW t \in Threads, UpsertRead(t) \/ UpsertWrite(t) \/ InvokeCallback(t)
                                \/ \E r \in Runners : CallRunner(t, r)
      PROVE  arg' = arg /\ (pc'[Stream] = pc[Stream] \/ pc[Stream] \in {"read", "write", "call"})
  BY <1>3 DEF UpsertRead, UpsertWrite, InvokeCallback, CallRunner, Goto
<1>4. ASSUME NEW t \in Threads, CallbackEnds(t)
      PROVE  pc'[Stream] = "idle" \/ (pc'[Stream] = pc[Stream] /\ arg'[Stream] = arg[Stream])
  BY <1>4 DEF CallbackEnds, Goto
<1>5. CASE StreamRead
  BY <1>5 DEF StreamRead, StreamTakes
<1>6. CASE StreamLookup
  BY <1>6 DEF StreamLookup, StreamKeeps, Args
<1>7. ASSUME \/ Subscribe \/ StreamBreaks \/ UNCHANGED vars
             \/ \E i \in DOMAIN ex : Fill(i) \/ Expire(i) \/ Cancel(i)
      PROVE  UNCHANGED <<pc, arg>>
  BY <1>7 DEF Subscribe, StreamBreaks, Fill, Expire, Cancel, Change, vars, client
<1> QED
  <2>1. \/ \E r \in Runners, q \in Nat \ {0} : Submit(r, q) \/ PlaceFails(r) \/ Accept(r) \/ Answer(r)
        \/ \E t \in Threads : \/ UpsertRead(t) \/ UpsertWrite(t) \/ InvokeCallback(t)
                              \/ (\E r \in Runners : CallRunner(t, r)) \/ CallbackEnds(t)
        \/ StreamRead \/ StreamLookup
        \/ Subscribe \/ StreamBreaks \/ UNCHANGED vars
        \/ \E i \in DOMAIN ex : Fill(i) \/ Expire(i) \/ Cancel(i)
    <3>1. 1 \in Nat \ {0}
      OBVIOUS
    <3> QED  BY <3>1 DEF ClientNext
  <2> QED  BY <1>1, <1>2, <1>3, <1>4, <1>5, <1>6, <1>7, <2>1 DEF StreamKeeps

\* Only filled and status count.
LEMMA PrecedesFields ==
  ASSUME NEW x, NEW y, NEW z, x.filled = y.filled, x.status = y.status
  PROVE  /\ Precedes(x, z) <=> Precedes(y, z)
         /\ Precedes(z, x) <=> Precedes(z, y)
BY DEF Precedes

\* Every step keeps the reports in order.
LEMMA InOrderStep == ClientInv /\ Owned /\ InOrder /\ [ClientNext]_vars => InOrder'
<1> SUFFICES ASSUME ClientInv, Owned, InOrder, [ClientNext]_vars PROVE InOrder'
  OBVIOUS
<1>0. /\ wire \in Seq(Reports) /\ wire' \in Seq(Reports)
      /\ arg[Stream] \in Args /\ arg'[Stream] \in Args
      /\ \A i \in DOMAIN ex : Mapped(ex[i]).filled \in Int /\ Mapped(ex[i]).status \in Statuses
      /\ \A i \in DOMAIN ex' : Mapped(ex'[i]).filled \in Int /\ Mapped(ex'[i]).status \in Statuses
  BY TypeStep, ThreadKinds, MappedFields, MapStatusTotal DEF ClientInv, Types, ExOrders
<1>a. ASSUME NEW m \in Reports PROVE Mapped(m).filled \in Int /\ Mapped(m).status \in Statuses
  BY MappedFields, MapStatusTotal DEF Reports
<1>b. /\ \A k \in 1..Len(wire) : wire[k] \in Reports
      /\ \A k \in 1..Len(wire') : wire'[k] \in Reports
  BY <1>0
<1>c. /\ arg[Stream].filled \in Int /\ arg[Stream].status \in Statuses
      /\ arg'[Stream].filled \in Int /\ arg'[Stream].status \in Statuses
  BY <1>0 DEF Args
<1>d. \A i \in DOMAIN ex : i \in DOMAIN ex' /\ Precedes(Mapped(ex[i]), Mapped(ex'[i]))
  BY ExEffect DEF GoesOn
<1>e. ASSUME NEW m, JustSent(m) PROVE m.id \in DOMAIN ex' /\ Mapped(m) = Mapped(ex'[m.id])
  BY <1>e, MappedReport DEF JustSent
<1>1. ASSUME NEW k \in 1..Len(wire')
      PROVE  /\ wire'[k].id \in DOMAIN ex' /\ Precedes(Mapped(wire'[k]), Mapped(ex'[wire'[k].id]))
             /\ wire'[k].status = "NEW" => wire'[k].filled = 0
  <2>1. CASE JustSent(wire'[k])
    <3>1. wire'[k].status = "NEW" => wire'[k].filled = 0
      <4>1. wire'[k] = Report(wire'[k].id, ex'[wire'[k].id]) /\ wire'[k].id \in DOMAIN ex'
        BY <2>1 DEF JustSent
      <4>2. wire'[k].status = ex'[wire'[k].id].status /\ wire'[k].filled = ex'[wire'[k].id].filled
        BY <4>1 DEF Report
      <4> QED  BY <4>1, <4>2, OwnedStep DEF Owned
    <3> QED  BY <1>0, <1>e, <2>1, <3>1, PrecedesSelf
  <2>2. ASSUME NEW j \in 1..Len(wire), wire'[k] = wire[j]
        PROVE  /\ wire'[k].id \in DOMAIN ex' /\ Precedes(Mapped(wire'[k]), Mapped(ex'[wire'[k].id]))
               /\ wire'[k].status = "NEW" => wire'[k].filled = 0
    <3>1. /\ wire[j].id \in DOMAIN ex /\ Precedes(Mapped(wire[j]), Mapped(ex[wire[j].id]))
          /\ wire[j].status = "NEW" => wire[j].filled = 0
      BY DEF InOrder, OnTheWay
    <3>2. Precedes(Mapped(ex[wire[j].id]), Mapped(ex'[wire[j].id])) /\ wire[j].id \in DOMAIN ex'
      BY <1>d, <3>1
    <3>3. Precedes(Mapped(wire[j]), Mapped(ex'[wire[j].id]))
      BY <1>0, <1>a, <1>b, <3>1, <3>2, PrecedesTrans
    <3> QED  BY <2>2, <3>1, <3>2, <3>3
  <2> QED  BY <2>1, <2>2, WireEffect
<1>2. ASSUME NEW j \in 1..Len(wire'), NEW k \in 1..Len(wire'), j < k, wire'[j].id = wire'[k].id
      PROVE  Precedes(Mapped(wire'[j]), Mapped(wire'[k]))
  <2>1. CASE JustSent(wire'[k])
    BY <1>1, <1>2, <1>e, <2>1
  <2>2. ASSUME NEW a \in 1..Len(wire), NEW b \in 1..Len(wire),
               a < b, wire'[j] = wire[a], wire'[k] = wire[b]
        PROVE  Precedes(Mapped(wire'[j]), Mapped(wire'[k]))
    BY <1>2, <2>2 DEF InOrder
  <2> QED  BY <1>2, <2>1, <2>2, WireEffect
<1>3. ASSUME pc'[Stream] # "idle"
      PROVE  /\ arg'[Stream].id \in DOMAIN ex'
             /\ Precedes(arg'[Stream], Mapped(ex'[arg'[Stream].id]))
             /\ arg'[Stream].status = "Pending" => arg'[Stream].filled = 0
             /\ \A k \in 1..Len(wire') :
                  wire'[k].id = arg'[Stream].id => Precedes(arg'[Stream], Mapped(wire'[k]))
  <2>1. CASE StreamKeeps
    <3>1. /\ arg[Stream].id \in DOMAIN ex /\ Precedes(arg[Stream], Mapped(ex[arg[Stream].id]))
          /\ arg[Stream].status = "Pending" => arg[Stream].filled = 0
      BY <2>1 DEF StreamKeeps, InOrder
    <3>2. /\ arg[Stream].id \in DOMAIN ex'
          /\ Precedes(arg[Stream], Mapped(ex'[arg[Stream].id]))
      BY <1>0, <1>c, <1>d, <3>1, PrecedesTrans
    <3>3. Precedes(arg'[Stream], Mapped(ex'[arg'[Stream].id]))
      BY <2>1, <3>2, PrecedesFields DEF StreamKeeps
    <3>4. ASSUME NEW k \in 1..Len(wire'), wire'[k].id = arg'[Stream].id
          PROVE  Precedes(arg'[Stream], Mapped(wire'[k]))
      <4>1. CASE JustSent(wire'[k])
        BY <1>e, <3>3, <3>4, <4>1
      <4>2. ASSUME NEW j \in 1..Len(wire), wire'[k] = wire[j]
            PROVE  Precedes(arg'[Stream], Mapped(wire'[k]))
        <5>1. Precedes(arg[Stream], Mapped(wire[j]))
          BY <2>1, <3>4, <4>2 DEF StreamKeeps, StreamHas, InOrder, OnTheWay
        <5> QED  BY <2>1, <4>2, <5>1, PrecedesFields DEF StreamKeeps
      <4> QED  BY <4>1, <4>2, WireEffect
    <3> QED  BY <2>1, <3>1, <3>2, <3>3, <3>4 DEF StreamKeeps
  <2>2. CASE StreamTakes
    <3>1. /\ 1 \in 1..Len(wire) /\ Head(wire) = wire[1] /\ Len(wire') = Len(wire) - 1
          /\ \A k \in 1..Len(wire') : wire'[k] = wire[k + 1] /\ k + 1 \in 1..Len(wire)
      BY <1>0, <2>2 DEF StreamTakes
    <3>2. OnTheWay(wire[1])
      BY <3>1 DEF InOrder
    <3>3. arg'[Stream].id = wire[1].id /\ arg'[Stream].filled = Mapped(wire[1]).filled
          /\ arg'[Stream].status = Mapped(wire[1]).status
      BY <2>2, <3>1, MappedFields DEF StreamTakes
    <3>4. arg'[Stream].id \in DOMAIN ex' /\ Precedes(arg'[Stream], Mapped(ex'[arg'[Stream].id]))
      BY <2>2, <3>2, <3>3, PrecedesFields DEF StreamTakes, OnTheWay
    <3>5. arg'[Stream].status = "Pending" => arg'[Stream].filled = 0
      <4>1. wire[1].status \in ExStatuses
        BY <1>b, <3>1 DEF Reports
      <4> QED  BY <3>2, <3>3, <4>1, MappedFields, MapStatusOf DEF OnTheWay, ExStatuses
    <3>6. ASSUME NEW k \in 1..Len(wire'), wire'[k].id = arg'[Stream].id
          PROVE  Precedes(arg'[Stream], Mapped(wire'[k]))
      <4>1. Precedes(Mapped(wire[1]), Mapped(wire[k + 1]))
        BY <3>1, <3>3, <3>6 DEF InOrder
      <4> QED  BY <3>1, <3>3, <4>1, PrecedesFields
    <3> QED  BY <3>4, <3>5, <3>6
  <2> QED  BY <1>3, <2>1, <2>2, StreamEffect
<1> QED  BY <1>1, <1>2, <1>3 DEF InOrder, OnTheWay, StreamHas

-----------------------------------------------------------------------------
(* The ledger of an order: what its record says, and what the runners counted *)

\* A status that upsert() passes on as a fill
Fills == {"Filled", "PartialFill"}

FilledSoFar(i) == IF i \in DOMAIN orders THEN orders[i].filled ELSE 0
LabelOf(i) == IF i \in DOMAIN orders THEN orders[i].sym ELSE NoSym

\* What the stream thread has written and has yet to pass to the runner q
Owed(q, i) ==
  IF /\ arg[Stream].id = i
     /\ pc[Stream] = "call" \/ (pc[Stream] = "inside" /\ q \in left)
  THEN delta[Stream] ELSE 0

\* submit() has yet to record its answer.
Early(i) == \E r \in Runners : arg[r].id = i /\ pc[r] \in {"answer", "read", "write"}

\* Nobody has heard of an order the exchange does not know.
Unknown ==
  \A i \in Ids \ DOMAIN ex : i \notin DOMAIN orders /\ \A r \in Runners : counted[r][i] = 0

\* Fills are not negative, and submit() never brings one.
Plain ==
  /\ \A i \in DOMAIN orders : orders[i].filled >= 0
  /\ pc[Stream] # "idle" => arg[Stream].filled >= 0
  /\ \A r \in Runners :
       /\ pc[r] \in {"read", "write", "call", "inside"} => arg[r].filled = 0
       /\ pc[r] \in {"write", "call", "inside"} => delta[r] <= 0

\* The record is behind the reports to come: submit() may take it back to nothing, also
\* between the two locks of the stream's upsert().
Forward(i) ==
  /\ FilledSoFar(i) <= ex[i].filled
  /\ \A k \in 1..Len(wire) : wire[k].id = i => FilledSoFar(i) <= wire[k].filled
  /\ StreamHas(i) =>
       /\ FilledSoFar(i) <= arg[Stream].filled
       /\ pc[Stream] = "write" => /\ delta[Stream] >= 0
                                  /\ FilledSoFar(i) + delta[Stream] <= arg[Stream].filled
       /\ pc[Stream] \in {"call", "inside"} => delta[Stream] >= 0

\* Counted and owed make up the record, and the fills once more when submit() took the
\* record back.
Twice(i) ==
  \A q \in Runners :
    /\ counted[q][i] >= 0
    /\ counted[q][i] + Owed(q, i) <= ex[i].filled + FilledSoFar(i)
    /\ Early(i) => counted[q][i] + Owed(q, i) <= FilledSoFar(i)

\* An order no report has overtaken is recorded by submit() first, without a fill;
SubmitFirst(i) ==
  \A r \in Runners : arg[r].id = i =>
    /\ ~ StreamHas(i) /\ FilledSoFar(i) = 0
    /\ \A q \in Runners : counted[q][i] = 0
    /\ pc[r] \in {"write", "call", "inside"} => delta[r] = 0

\* from then on the record precedes every report to come, once it has a fill,
Since(i) ==
  FilledSoFar(i) > 0 =>
    /\ orders[i].status # "Pending" /\ Precedes(orders[i], Mapped(ex[i]))
    /\ \A k \in 1..Len(wire) : wire[k].id = i => Precedes(orders[i], Mapped(wire[k]))
    /\ StreamHas(i) => Precedes(orders[i], arg[Stream])

\* the stream's upsert() runs as if alone,
Latest(i) ==
  StreamHas(i) =>
    /\ pc[Stream] # "lookup" => arg[Stream].sym = LabelOf(i)
    /\ pc[Stream] = "write" => delta[Stream] = arg[Stream].filled - FilledSoFar(i)
    /\ pc[Stream] \in {"call", "inside"} =>
         /\ i \in DOMAIN orders /\ orders[i].filled = arg[Stream].filled
         /\ orders[i].status = arg[Stream].status

\* and counted and owed make up the record, the owner's alone when it has a symbol.
Exact(i) ==
  /\ \A q \in Runners :
       /\ counted[q][i] + Owed(q, i) <= FilledSoFar(i)
       /\ q # ex[i].owner /\ LabelOf(i) # NoSym => counted[q][i] = 0
  /\ i \in DOMAIN orders /\ orders[i].status \in Fills =>
       counted[ex[i].owner][i] + Owed(ex[i].owner, i) = FilledSoFar(i)

Undisturbed(i) == SubmitFirst(i) /\ Since(i) /\ Latest(i) /\ Exact(i)

\* Records and reports carry their owner's symbol or none.
Routed ==
  /\ \A i \in DOMAIN orders : i \in DOMAIN ex /\ orders[i].sym \in {ex[i].owner, NoSym}
  /\ pc[Stream] \notin {"idle", "lookup"} =>
       arg[Stream].sym \in {ex[arg[Stream].id].owner, NoSym}

LedgerInv ==
  /\ ClientInv /\ Owned /\ InOrder /\ Unknown /\ Plain /\ Routed
  /\ \A i \in DOMAIN ex : Forward(i) /\ Twice(i) /\ (i \notin overtaken => Undisturbed(i))

-----------------------------------------------------------------------------
(* Which steps touch what *)

\* Which steps touch the stream thread
LEMMA StreamSteps ==
  ASSUME ClientInv, [ClientNext]_vars
  PROVE  \/ /\ pc'[Stream] = pc[Stream] /\ arg'[Stream] = arg[Stream]
            /\ delta'[Stream] = delta[Stream]
         \/ StreamRead \/ StreamLookup
         \/ UpsertRead(Stream) \/ UpsertWrite(Stream) \/ InvokeCallback(Stream)
         \/ CallbackEnds(Stream)
<1>0. pc \in [Threads -> Pcs] /\ arg \in [Threads -> Args] /\ delta \in [Threads -> Int]
  BY DEF ClientInv, Types
<1> USE <1>0, ThreadKinds
<1> DEFINE Same == pc'[Stream] = pc[Stream] /\ arg'[Stream] = arg[Stream] /\ delta'[Stream] = delta[Stream]
<1>1. ASSUME NEW r \in Runners, NEW q, Submit(r, q) PROVE Same
  BY <1>1 DEF Submit, Goto
<1>2. ASSUME NEW r \in Runners, PlaceFails(r) \/ Accept(r) \/ Answer(r) PROVE Same
  BY <1>2 DEF PlaceFails, Accept, Answer, Goto
<1>3. ASSUME NEW r \in Runners, \/ UpsertRead(r) \/ UpsertWrite(r) \/ InvokeCallback(r)
                                \/ CallbackEnds(r)
      PROVE  Same
  BY <1>3 DEF UpsertRead, UpsertWrite, InvokeCallback, CallbackEnds, Goto
<1>4. ASSUME NEW t \in Threads, NEW r \in Runners, CallRunner(t, r) PROVE Same
  BY <1>4 DEF CallRunner
<1>5. ASSUME \/ Subscribe \/ StreamBreaks \/ UNCHANGED vars
             \/ \E i \in DOMAIN ex : Fill(i) \/ Expire(i) \/ Cancel(i)
      PROVE  Same
  BY <1>5 DEF Subscribe, StreamBreaks, Fill, Expire, Cancel, Change, vars, client
<1> QED  BY <1>1, <1>2, <1>3, <1>4, <1>5 DEF ClientNext

\* Which steps touch a submit()
LEMMA RunnerSteps ==
  ASSUME ClientInv, [ClientNext]_vars, NEW r \in Runners
  PROVE  \/ pc'[r] = pc[r] /\ arg'[r] = arg[r] /\ delta'[r] = delta[r]
         \/ \E q \in Nat \ {0} : Submit(r, q)
         \/ PlaceFails(r) \/ Accept(r) \/ Answer(r)
         \/ UpsertRead(r) \/ UpsertWrite(r) \/ InvokeCallback(r) \/ CallbackEnds(r)
<1>0. pc \in [Threads -> Pcs] /\ arg \in [Threads -> Args] /\ delta \in [Threads -> Int]
  BY DEF ClientInv, Types
<1> USE <1>0, ThreadKinds
<1> DEFINE Same == pc'[r] = pc[r] /\ arg'[r] = arg[r] /\ delta'[r] = delta[r]
<1>1. ASSUME NEW t \in Runners, t # r, NEW q, Submit(t, q) PROVE Same
  BY <1>1 DEF Submit, Goto
<1>2. ASSUME NEW t \in Runners, t # r, PlaceFails(t) \/ Accept(t) \/ Answer(t) PROVE Same
  BY <1>2 DEF PlaceFails, Accept, Answer, Goto
<1>3. ASSUME NEW t \in Threads, t # r, \/ UpsertRead(t) \/ UpsertWrite(t) \/ InvokeCallback(t)
                                       \/ CallbackEnds(t)
      PROVE  Same
  BY <1>3 DEF UpsertRead, UpsertWrite, InvokeCallback, CallbackEnds, Goto
<1>4. ASSUME StreamRead \/ StreamLookup PROVE Same
  BY <1>4 DEF StreamRead, StreamLookup, Goto
<1>5. ASSUME NEW t \in Threads, NEW q \in Runners, CallRunner(t, q) PROVE Same
  BY <1>5 DEF CallRunner
<1>6. ASSUME \/ Subscribe \/ StreamBreaks \/ UNCHANGED vars
             \/ \E i \in DOMAIN ex : Fill(i) \/ Expire(i) \/ Cancel(i)
      PROVE  Same
  BY <1>6 DEF Subscribe, StreamBreaks, Fill, Expire, Cancel, Change, vars, client
<1> QED  BY <1>1, <1>2, <1>3, <1>4, <1>5, <1>6 DEF ClientNext

\* Which steps touch the records, the counts and the runners yet to call
LEMMA RecordSteps ==
  ASSUME [ClientNext]_vars
  PROVE  /\ UNCHANGED orders \/ \E t \in Threads : UpsertWrite(t)
         /\ \/ UNCHANGED counted
            \/ \E t \in Threads, q \in Runners : CallRunner(t, q)
         /\ \/ UNCHANGED left
            \/ \E t \in Threads : InvokeCallback(t)
            \/ \E t \in Threads, q \in Runners : CallRunner(t, q)
         /\ UNCHANGED overtaken \/ StreamRead
BY DEF ClientNext, Submit, PlaceFails, Accept, Answer, UpsertRead, UpsertWrite, InvokeCallback,
       CallRunner, CallbackEnds, Subscribe, StreamBreaks, StreamRead, StreamLookup,
       Fill, Expire, Cancel, Change, vars, client, exchange, history

\* upsert() writes one record.
LEMMA Writes ==
  ASSUME NEW t, UpsertWrite(t)
  PROVE  /\ DOMAIN orders' = DOMAIN orders \cup {arg[t].id}
         /\ orders'[arg[t].id].sym = arg[t].sym /\ orders'[arg[t].id].status = arg[t].status
         /\ orders'[arg[t].id].filled = arg[t].filled
         /\ \A j \in DOMAIN orders : j # arg[t].id => orders'[j] = orders[j]
         /\ UNCHANGED <<nextId, arg, delta, left, connected, wire, ex, counted, overtaken>>
         /\ pc[t] = "write" /\ pc' = [pc EXCEPT ![t] = "call"]
BY DEF UpsertWrite, Put, Goto, exchange, history

\* The stream thread never takes a report of an order under submit() without notice.
LEMMA OvertakenSteps ==
  ASSUME ClientInv, [ClientNext]_vars
  PROVE  /\ overtaken \subseteq overtaken'
         /\ pc[Stream] = "idle" /\ pc'[Stream] # "idle" =>
              \A r \in Runners : arg[r].id = arg'[Stream].id => arg[r].id \in overtaken'
<1>0. pc \in [Threads -> Pcs] /\ arg \in [Threads -> Args]
  BY DEF ClientInv, Types
<1> USE <1>0, ThreadKinds
<1>1. CASE StreamRead
  BY <1>1 DEF StreamRead, InSubmit
<1>2. ASSUME pc[Stream] = "idle", pc'[Stream] # "idle" PROVE StreamRead
  BY <1>2, StreamSteps DEF StreamLookup, UpsertRead, UpsertWrite, InvokeCallback, CallbackEnds
<1> QED  BY <1>1, <1>2, RecordSteps

-----------------------------------------------------------------------------
(* What a step does to the ledger of an order *)

\* A thread inside upsert() has an order the exchange knows.
LEMMA KnownOrder ==
  ASSUME ClientInv, InOrder, NEW t \in Threads, pc[t] \in {"read", "write", "call", "inside"}
  PROVE  arg[t].id \in DOMAIN ex
BY ThreadKinds DEF ClientInv, Holds, InOrder

\* The numbers of a ledger
LEMMA LedgerTypes ==
  ASSUME ClientInv, NEW i \in Ids
  PROVE  /\ i \in Nat /\ i # 0 /\ FilledSoFar(i) \in Int
         /\ delta[Stream] \in Int /\ arg[Stream].filled \in Int
         /\ \A q \in Runners : counted[q][i] \in Int /\ Owed(q, i) \in Int
         /\ \A t \in Threads : delta[t] \in Int /\ arg[t].filled \in Int
         /\ \A k \in 1..Len(wire) : wire[k].filled \in Nat
         /\ i \in DOMAIN ex => ex[i].filled \in Nat
<1>1. i \in Nat /\ i # 0
  BY OrderAssumption DEF Ids
<1>2. FilledSoFar(i) \in Int
  BY DEF ClientInv, Types, FilledSoFar, Record
<1>3. delta[Stream] \in Int /\ \A t \in Threads : delta[t] \in Int
  BY ThreadKinds DEF ClientInv, Types
<1>4. arg[Stream].filled \in Int /\ \A t \in Threads : arg[t].filled \in Int
  BY ThreadKinds DEF ClientInv, Types, Args
<1>5. \A q \in Runners : counted[q][i] \in Int
  BY DEF ClientInv, Types
<1>6. \A q \in Runners : Owed(q, i) \in Int
  BY <1>3 DEF Owed
<1>7. \A k \in 1..Len(wire) : wire[k].filled \in Nat
  <2>1. \A k \in 1..Len(wire) : wire[k] \in Reports
    BY DEF ClientInv, Types
  <2> QED  BY <2>1 DEF Reports
<1>8. i \in DOMAIN ex => ex[i].filled \in Nat
  BY DEF ClientInv, Types, ExOrders
<1> QED  BY <1>1, <1>2, <1>3, <1>4, <1>5, <1>6, <1>7, <1>8

\* and after a step
LEMMA LedgerTypesNext ==
  ASSUME ClientInv', NEW i \in Ids
  PROVE  /\ FilledSoFar(i)' \in Int
         /\ \A q \in Runners : counted'[q][i] \in Int /\ Owed(q, i)' \in Int
         /\ \A k \in 1..Len(wire') : wire'[k].filled \in Nat
         /\ i \in DOMAIN ex' => ex'[i].filled \in Nat
<1>1. FilledSoFar(i)' \in Int
  BY DEF ClientInv, Types, FilledSoFar, Record
<1>2. \A q \in Runners : counted'[q][i] \in Int /\ Owed(q, i)' \in Int
  BY ThreadKinds DEF ClientInv, Types, Owed
<1>3. \A k \in 1..Len(wire') : wire'[k].filled \in Nat
  <2>1. \A k \in 1..Len(wire') : wire'[k] \in Reports
    BY DEF ClientInv, Types
  <2> QED  BY <2>1 DEF Reports
<1>4. i \in DOMAIN ex' => ex'[i].filled \in Nat
  BY DEF ClientInv, Types, ExOrders
<1> QED  BY <1>1, <1>2, <1>3, <1>4

\* Only an upsert() of an order writes its record.
Writer(t, i) == UpsertWrite(t) /\ arg[t].id = i
Unwritten(i) ==
  /\ FilledSoFar(i)' = FilledSoFar(i) /\ LabelOf(i)' = LabelOf(i)
  /\ i \in DOMAIN orders' <=> i \in DOMAIN orders
  /\ i \in DOMAIN orders => orders'[i] = orders[i]
  /\ ~ \E t \in Threads : Writer(t, i)

\* What every step does to a record
LEMMA Records ==
  ASSUME [ClientNext]_vars, NEW i
  PROVE  \/ Unwritten(i)
         \/ \E t \in Threads :
              /\ Writer(t, i) /\ pc[t] = "write" /\ i \in DOMAIN orders'
              /\ FilledSoFar(i)' = arg[t].filled /\ LabelOf(i)' = arg[t].sym
              /\ orders'[i].status = arg[t].status /\ orders'[i].filled = arg[t].filled
<1>1. ASSUME NEW t \in Threads, UpsertWrite(t), arg[t].id = i
      PROVE  /\ Writer(t, i) /\ pc[t] = "write" /\ i \in DOMAIN orders'
             /\ FilledSoFar(i)' = arg[t].filled /\ LabelOf(i)' = arg[t].sym
             /\ orders'[i].status = arg[t].status /\ orders'[i].filled = arg[t].filled
  BY <1>1, Writes DEF Writer, FilledSoFar, LabelOf
<1>2. ASSUME NEW t \in Threads, UpsertWrite(t), ~ \E u \in Threads : Writer(u, i)
      PROVE  Unwritten(i)
  <2>1. arg[t].id # i
    BY <1>2 DEF Writer
  <2>2. /\ DOMAIN orders' = DOMAIN orders \cup {arg[t].id}
        /\ \A j \in DOMAIN orders : j # arg[t].id => orders'[j] = orders[j]
    BY <1>2, Writes
  <2> QED  BY <1>2, <2>1, <2>2 DEF Unwritten, FilledSoFar, LabelOf
<1>3. ASSUME UNCHANGED orders, ~ \E u \in Threads : Writer(u, i) PROVE Unwritten(i)
  BY <1>3 DEF Unwritten, FilledSoFar, LabelOf
<1>4. CASE \E u \in Threads : Writer(u, i)
  BY <1>1, <1>4 DEF Writer
<1> QED  BY <1>2, <1>3, <1>4, RecordSteps

\* What the stream thread writes is owed to every runner, until it has called it.
Unpaid(q, i) == counted'[q][i] = counted[q][i] /\ Owed(q, i)' = Owed(q, i)
Booked(q, i) == /\ Writer(Stream, i) /\ counted'[q][i] = counted[q][i]
                /\ Owed(q, i) = 0 /\ Owed(q, i)' = delta[Stream]
Paid(q, i) ==
  /\ CallRunner(Stream, q) /\ pc[Stream] = "inside" /\ arg[Stream].id = i
  /\ Owed(q, i) = delta[Stream] /\ Owed(q, i)' = 0
  /\ counted'[q][i] = IF Takes(q, arg[Stream].sym) /\ IsFill(Stream)
                      THEN counted[q][i] + delta[Stream] ELSE counted[q][i]

\* Only the stream thread calls a runner back with a fill.
LEMMA OnlyStreamPays ==
  ASSUME ClientInv, Plain, [ClientNext]_vars, NEW q \in Runners, NEW i \in Ids
  PROVE  \/ counted'[q][i] = counted[q][i] /\ ~ (CallRunner(Stream, q) /\ arg[Stream].id = i)
         \/ /\ CallRunner(Stream, q) /\ arg[Stream].id = i
            /\ counted'[q][i] = IF Takes(q, arg[Stream].sym) /\ IsFill(Stream)
                                THEN counted[q][i] + delta[Stream] ELSE counted[q][i]
<1>0. counted \in [Runners -> [Ids -> Int]] /\ delta \in [Threads -> Int]
  BY DEF ClientInv, Types
<1>1. ASSUME NEW t \in Threads, NEW p \in Runners, CallRunner(t, p)
      PROVE  counted'[q][i] = IF /\ q = p /\ Takes(q, arg[t].sym)
                                 /\ IsFill(t) /\ i = arg[t].id
                              THEN counted[q][i] + delta[t] ELSE counted[q][i]
  BY <1>0, <1>1 DEF CallRunner
<1>2. ASSUME NEW t \in Runners, pc[t] = "inside" PROVE ~ IsFill(t)
  BY <1>0, <1>2, ThreadKinds DEF Plain, IsFill
<1>3. CASE CallRunner(Stream, q) /\ arg[Stream].id = i
  BY <1>1, <1>3, ThreadKinds
<1>4. CASE ~ (CallRunner(Stream, q) /\ arg[Stream].id = i)
  <2>1. ASSUME NEW t \in Threads, NEW p \in Runners, CallRunner(t, p)
        PROVE  counted'[q][i] = counted[q][i]
    <3>1. pc[t] = "inside"
      BY <2>1 DEF CallRunner
    <3>2. CASE t \in Runners
      BY <1>1, <1>2, <2>1, <3>1, <3>2
    <3>3. CASE t = Stream
      BY <1>1, <1>4, <2>1, <3>3
    <3> QED  BY <3>2, <3>3, ThreadKinds
  <2> QED  BY <1>4, <2>1, RecordSteps
<1> QED  BY <1>3, <1>4

\* What every step does to the sums
LEMMA Sums ==
  ASSUME ClientInv, Plain, [ClientNext]_vars, NEW q \in Runners, NEW i \in Ids
  PROVE  Unpaid(q, i) \/ Booked(q, i) \/ Paid(q, i)
<1>0. pc \in [Threads -> Pcs] /\ arg \in [Threads -> Args] /\ delta \in [Threads -> Int]
      /\ i # 0
  BY LedgerTypes DEF ClientInv, Types
<1> USE ThreadKinds
<1>1. CASE CallRunner(Stream, q) /\ arg[Stream].id = i
  <2>1. /\ pc[Stream] = "inside" /\ pc' = pc /\ arg' = arg /\ delta' = delta
        /\ q \in left /\ left' = left \ {q}
    BY <1>1 DEF CallRunner
  <2>2. Owed(q, i) = delta[Stream] /\ Owed(q, i)' = 0
    BY <1>1, <2>1 DEF Owed
  <2> QED  BY <1>1, <2>1, <2>2, OnlyStreamPays DEF Paid
<1>2. CASE ~ (CallRunner(Stream, q) /\ arg[Stream].id = i)
  <2>1. counted'[q][i] = counted[q][i]
    BY <1>2, OnlyStreamPays
  <2>2. ASSUME UNCHANGED left, ~ Writer(Stream, i) PROVE Owed(q, i)' = Owed(q, i)
    <3>1. CASE pc'[Stream] = pc[Stream] /\ arg'[Stream] = arg[Stream] /\ delta'[Stream] = delta[Stream]
      BY <2>2, <3>1 DEF Owed
    <3>2. CASE StreamRead \/ StreamLookup \/ UpsertRead(Stream)
      BY <1>0, <3>2 DEF StreamRead, StreamLookup, UpsertRead, Goto, Owed
    <3>3. CASE UpsertWrite(Stream)
      BY <1>0, <2>2, <3>3 DEF UpsertWrite, Goto, Owed, Writer
    <3>4. CASE InvokeCallback(Stream)
      <4>1. pc[Stream] = "call" /\ pc'[Stream] = "inside" /\ UNCHANGED <<arg, delta>> /\ q \in left'
        BY <1>0, <3>4 DEF InvokeCallback, Goto
      <4> QED  BY <4>1 DEF Owed
    <3>5. CASE CallbackEnds(Stream)
      <4>1. pc[Stream] = "inside" /\ pc'[Stream] = "idle" /\ left = {}
        BY <1>0, <3>5 DEF CallbackEnds, Goto
      <4> QED  BY <4>1 DEF Owed
    <3> QED  BY <3>1, <3>2, <3>3, <3>4, <3>5, StreamSteps
  <2>3. ASSUME NEW t \in Threads, InvokeCallback(t) PROVE Owed(q, i)' = Owed(q, i)
    <3>1. /\ UNCHANGED <<arg, delta>> /\ left' = Runners /\ pc[Stream] # "inside"
          /\ pc[t] = "call" /\ pc' = [pc EXCEPT ![t] = "inside"]
      BY <2>3 DEF InvokeCallback, Goto
    <3> QED  BY <1>0, <3>1 DEF Owed
  <2>4. ASSUME NEW t \in Threads, NEW p \in Runners, CallRunner(t, p)
        PROVE  Owed(q, i)' = Owed(q, i)
    <3>1. UNCHANGED <<pc, arg, delta>> /\ left' = left \ {p} /\ pc[t] = "inside"
      BY <2>4 DEF CallRunner
    <3>2. CASE pc[Stream] = "inside"
      <4>1. t = Stream
        BY <3>1, <3>2 DEF ClientInv, Holds
      <4>2. p # q \/ arg[Stream].id # i
        BY <1>2, <2>4, <4>1
      <4> QED  BY <3>1, <4>2 DEF Owed
    <3>3. CASE pc[Stream] # "inside"
      BY <3>1, <3>3 DEF Owed
    <3> QED  BY <3>2, <3>3
  <2>5. CASE Writer(Stream, i)
    <3>1. /\ pc[Stream] = "write" /\ pc'[Stream] = "call" /\ UNCHANGED <<arg, delta, left>>
          /\ arg[Stream].id = i
      BY <1>0, <2>5, Writes DEF Writer
    <3> QED  BY <2>1, <2>5, <3>1 DEF Booked, Owed
  <2>6. CASE ~ Writer(Stream, i)
    BY <2>1, <2>2, <2>3, <2>4, <2>6, RecordSteps DEF Unpaid
  <2> QED  BY <2>5, <2>6
<1> QED  BY <1>1, <1>2

\* Every step keeps unknown orders unheard of.
LEMMA UnknownStep ==
  ClientInv /\ Owned /\ InOrder /\ Plain /\ Unknown /\ [ClientNext]_vars => Unknown'
<1> SUFFICES ASSUME ClientInv, Owned, InOrder, Plain, Unknown, [ClientNext]_vars,
                    NEW i \in Ids \ DOMAIN ex'
             PROVE  i \notin DOMAIN orders' /\ \A r \in Runners : counted'[r][i] = 0
  BY DEF Unknown
<1>1. i \notin DOMAIN ex /\ i \notin DOMAIN orders /\ \A r \in Runners : counted[r][i] = 0
  BY ExEffect DEF GoesOn, Unknown
<1>2. i \notin DOMAIN orders'
  <2>1. ASSUME NEW t \in Threads, Writer(t, i) PROVE FALSE
    BY <1>1, <2>1, KnownOrder DEF Writer, UpsertWrite
  <2> QED  BY <1>1, <2>1, Records DEF Unwritten
<1>3. ASSUME NEW r \in Runners PROVE counted'[r][i] = 0
  <2>1. CASE CallRunner(Stream, r) /\ arg[Stream].id = i
    BY <1>1, <2>1, KnownOrder, ThreadKinds DEF CallRunner
  <2> QED  BY <1>1, <2>1, OnlyStreamPays
<1> QED  BY <1>2, <1>3

\* Every step keeps submit() from bringing a fill.
LEMMA PlainStep == ClientInv /\ Plain /\ [ClientNext]_vars => Plain'
<1> SUFFICES ASSUME ClientInv, Plain, [ClientNext]_vars PROVE Plain'
  OBVIOUS
<1> USE ThreadKinds
<1>0. /\ pc \in [Threads -> Pcs] /\ arg \in [Threads -> Args] /\ delta \in [Threads -> Int]
      /\ wire \in Seq(Reports) /\ \A i \in DOMAIN orders : orders[i].filled \in Int
  BY DEF ClientInv, Types, Record
<1>1. ASSUME NEW i \in DOMAIN orders' PROVE orders'[i].filled >= 0
  <2>1. ASSUME NEW t \in Threads, pc[t] = "write" PROVE arg[t].filled >= 0
    <3>1. CASE t = Stream
      BY <2>1, <3>1 DEF Plain
    <3>2. CASE t \in Runners
      BY <2>1, <3>2 DEF Plain
    <3> QED  BY <3>1, <3>2
  <2>2. CASE Unwritten(i)
    BY <1>1, <2>2 DEF Unwritten, Plain
  <2> QED  BY <2>1, <2>2, Records
<1>2. ASSUME pc'[Stream] # "idle" PROVE arg'[Stream].filled >= 0
  <2>1. CASE StreamKeeps
    BY <2>1 DEF StreamKeeps, Plain
  <2>2. CASE StreamTakes
    <3>1. Head(wire) \in Reports
      BY <1>0, <2>2 DEF StreamTakes
    <3> QED  BY <2>2, <3>1 DEF StreamTakes, Reports
  <2> QED  BY <1>2, <2>1, <2>2, StreamEffect
<1>3. ASSUME NEW r \in Runners
      PROVE  /\ pc'[r] \in {"read", "write", "call", "inside"} => arg'[r].filled = 0
             /\ pc'[r] \in {"write", "call", "inside"} => delta'[r] <= 0
  <2>1. CASE pc'[r] = pc[r] /\ arg'[r] = arg[r] /\ delta'[r] = delta[r]
    BY <2>1 DEF Plain
  <2>2. ASSUME NEW q \in Nat \ {0}, Submit(r, q) PROVE pc'[r] = "place"
    BY <1>0, <2>2 DEF Submit, Goto
  <2>3. ASSUME PlaceFails(r) \/ CallbackEnds(r) PROVE pc'[r] = "idle"
    BY <1>0, <2>3 DEF PlaceFails, CallbackEnds, Goto
  <2>4. ASSUME Accept(r) PROVE pc'[r] = "answer"
    BY <1>0, <2>4 DEF Accept, Goto
  <2>5. CASE Answer(r)
    <3>1. \/ pc'[r] = "idle"
          \/ /\ pc'[r] = "read"
             /\ arg' = [arg EXCEPT ![r].status = MapStatus(ex[arg[r].id].status), ![r].filled = 0]
      BY <1>0, <2>5 DEF Answer, Goto
    <3>2. arg' = [arg EXCEPT ![r].status = MapStatus(ex[arg[r].id].status), ![r].filled = 0]
            => arg'[r].filled = 0
      BY <1>0 DEF Args
    <3> QED  BY <3>1, <3>2
  <2>6. CASE UpsertRead(r)
    <3>1. /\ pc'[r] = "write" /\ pc[r] = "read" /\ arg' = arg
          /\ delta'[r] = arg[r].filled - (IF arg[r].id \in DOMAIN orders
                                          THEN orders[arg[r].id].filled ELSE 0)
      BY <1>0, <2>6 DEF UpsertRead, Goto
    <3>2. arg[r].filled = 0
      BY <3>1 DEF Plain
    <3>3. arg[r].id \in DOMAIN orders => orders[arg[r].id].filled >= 0
      BY DEF Plain
    <3> QED  BY <1>0, <3>1, <3>2, <3>3
  <2>7. CASE UpsertWrite(r) \/ InvokeCallback(r)
    <3>1. pc[r] \in {"write", "call"} /\ arg' = arg /\ delta' = delta
      BY <2>7 DEF UpsertWrite, InvokeCallback
    <3> QED  BY <3>1 DEF Plain
  <2> QED  BY <2>1, <2>2, <2>3, <2>4, <2>5, <2>6, <2>7, RunnerSteps
<1> QED  BY <1>1, <1>2, <1>3 DEF Plain

\* Every step keeps the symbols.
LEMMA RoutedStep ==
  ClientInv /\ Owned /\ InOrder /\ Routed /\ [ClientNext]_vars => Routed'
<1> SUFFICES ASSUME ClientInv, Owned, InOrder, Routed, [ClientNext]_vars PROVE Routed'
  OBVIOUS
<1> USE ThreadKinds
<1>0. pc \in [Threads -> Pcs] /\ arg \in [Threads -> Args]
  BY DEF ClientInv, Types
<1>1. \A i \in DOMAIN ex : i \in DOMAIN ex' /\ ex'[i].owner = ex[i].owner
  BY ExEffect DEF GoesOn
<1>2. ASSUME NEW t \in Threads, UpsertWrite(t) PROVE Routed'
  <2>1. pc[t] = "write" /\ arg[t].id \in DOMAIN ex
    BY <1>2, KnownOrder DEF UpsertWrite
  <2>2. arg[t].sym \in {ex[arg[t].id].owner, NoSym}
    BY <2>1 DEF ClientInv, Holds, Owned, Routed
  <2>3. /\ DOMAIN orders' = DOMAIN orders \cup {arg[t].id}
        /\ orders'[arg[t].id].sym = arg[t].sym
        /\ \A j \in DOMAIN orders : j # arg[t].id => orders'[j] = orders[j]
        /\ arg' = arg /\ pc' = [pc EXCEPT ![t] = "call"]
    BY <1>2, Writes
  <2>4. \A i \in DOMAIN orders' : i \in DOMAIN ex' /\ orders'[i].sym \in {ex'[i].owner, NoSym}
    BY <1>1, <2>1, <2>2, <2>3 DEF Routed
  <2>5. pc'[Stream] \notin {"idle", "lookup"} => arg[Stream].sym \in {ex[arg[Stream].id].owner, NoSym}
    BY <1>0, <2>1, <2>2, <2>3 DEF Routed
  <2>6. pc'[Stream] \notin {"idle", "lookup"} => arg[Stream].id \in DOMAIN ex
    BY <1>0, <2>1, <2>3 DEF InOrder
  <2> QED  BY <1>1, <2>3, <2>4, <2>5, <2>6 DEF Routed
<1>3. ASSUME UNCHANGED orders, ~ UpsertWrite(Stream) PROVE Routed'
  <2>1. \A i \in DOMAIN orders' : i \in DOMAIN ex' /\ orders'[i].sym \in {ex'[i].owner, NoSym}
    BY <1>1, <1>3 DEF Routed
  <2> DEFINE Goal == pc'[Stream] \notin {"idle", "lookup"} =>
                       arg'[Stream].sym \in {ex'[arg'[Stream].id].owner, NoSym}
  <2>2. ASSUME pc'[Stream] = pc[Stream], arg'[Stream] = arg[Stream] PROVE Goal
    BY <1>1, <2>2 DEF Routed, InOrder
  <2>3. ASSUME StreamRead \/ CallbackEnds(Stream) PROVE Goal
    BY <1>0, <2>3 DEF StreamRead, CallbackEnds, Goto
  <2>4. ASSUME UpsertRead(Stream) \/ InvokeCallback(Stream) PROVE Goal
    <3>1. arg' = arg /\ pc[Stream] \in {"read", "call"}
      BY <2>4 DEF UpsertRead, InvokeCallback
    <3> QED  BY <1>1, <3>1 DEF Routed, InOrder
  <2>5. ASSUME StreamLookup PROVE Goal
    <3>1. /\ pc[Stream] = "lookup" /\ arg'[Stream].id = arg[Stream].id
          /\ arg'[Stream].sym = IF arg[Stream].id \in DOMAIN orders
                                THEN orders[arg[Stream].id].sym ELSE NoSym
      BY <1>0, <2>5 DEF StreamLookup, Args
    <3> QED  BY <1>1, <3>1 DEF Routed
  <2>6. Goal
    BY <1>3, <2>2, <2>3, <2>4, <2>5, StreamSteps
  <2> QED  BY <2>1, <2>6 DEF Routed
<1> QED  BY <1>2, <1>3, RecordSteps

\* Every step keeps a record behind its reports.
LEMMA ForwardStep ==
  ASSUME ClientInv, Owned, InOrder, Plain, [ClientNext]_vars, NEW i \in DOMAIN ex, Forward(i)
  PROVE  Forward(i)'
<1> USE ThreadKinds
<1>0. /\ pc \in [Threads -> Pcs] /\ arg \in [Threads -> Args] /\ delta \in [Threads -> Int]
      /\ wire \in Seq(Reports) /\ i \in Ids
  BY DEF ClientInv, Types
<1>1. ClientInv' /\ i \in DOMAIN ex' /\ ex[i].filled <= ex'[i].filled
  BY ClientStep, ExEffect, MappedFields DEF GoesOn, Precedes
<1>2. /\ FilledSoFar(i) \in Int /\ FilledSoFar(i)' \in Int /\ FilledSoFar(i)' >= 0
      /\ arg[Stream].filled \in Int /\ delta[Stream] \in Int
      /\ ex[i].filled \in Nat /\ ex'[i].filled \in Nat
      /\ \A k \in 1..Len(wire) : wire[k].filled \in Nat
      /\ \A k \in 1..Len(wire') : wire'[k].filled \in Nat
  <2>1. FilledSoFar(i)' >= 0
    BY PlainStep DEF Plain, FilledSoFar
  <2>2. /\ FilledSoFar(i)' \in Int /\ (i \in DOMAIN ex' => ex'[i].filled \in Nat)
        /\ \A k \in 1..Len(wire') : wire'[k].filled \in Nat
    BY <1>0, <1>1, LedgerTypesNext
  <2> QED  BY <1>0, <1>1, <2>1, <2>2, LedgerTypes
<1>3. ASSUME NEW t \in Runners, Writer(t, i), FilledSoFar(i)' = arg[t].filled, pc[t] = "write"
      PROVE  Forward(i)'
  <2>1. FilledSoFar(i)' = 0 /\ arg' = arg /\ delta' = delta /\ pc'[Stream] = pc[Stream]
    BY <1>0, <1>3, Writes DEF Plain, Writer
  <2>2. FilledSoFar(i) >= 0
    BY DEF Plain, FilledSoFar
  <2>3. StreamHas(i)' =>
          /\ 0 <= arg[Stream].filled
          /\ pc[Stream] = "write" => delta[Stream] >= 0 /\ 0 + delta[Stream] <= arg[Stream].filled
          /\ pc[Stream] \in {"call", "inside"} => delta[Stream] >= 0
    BY <1>2, <2>1, <2>2 DEF Forward, StreamHas
  <2> QED  BY <1>2, <2>1, <2>3 DEF Forward
<1>4. ASSUME Writer(Stream, i), FilledSoFar(i)' = arg[Stream].filled, pc[Stream] = "write"
      PROVE  Forward(i)'
  <2>1. /\ UNCHANGED <<arg, delta, wire, ex>> /\ pc'[Stream] = "call" /\ arg[Stream].id = i
    BY <1>0, <1>4, Writes DEF Writer
  <2>2. delta[Stream] >= 0
    BY <1>4, <2>1 DEF Forward, StreamHas
  <2>3. arg[Stream].filled <= ex[i].filled
    BY <1>4, <2>1, MappedFields DEF InOrder, Precedes
  <2>4. ASSUME NEW k \in 1..Len(wire), wire[k].id = i PROVE arg[Stream].filled <= wire[k].filled
    BY <1>4, <2>1, <2>4, MappedFields DEF InOrder, OnTheWay, StreamHas, Precedes
  <2> QED  BY <1>2, <1>4, <2>1, <2>2, <2>3, <2>4 DEF Forward
<1>5. ASSUME Unwritten(i) PROVE Forward(i)'
  <2>1. FilledSoFar(i)' = FilledSoFar(i) /\ ~ Writer(Stream, i)
    BY <1>5 DEF Unwritten
  <2>2. FilledSoFar(i) <= ex'[i].filled
    <3>1. FilledSoFar(i) <= ex[i].filled
      BY DEF Forward
    <3> QED  BY <1>1, <1>2, <3>1
  <2>3. ASSUME NEW k \in 1..Len(wire'), wire'[k].id = i PROVE FilledSoFar(i) <= wire'[k].filled
    <3>1. CASE JustSent(wire'[k])
      <4>1. wire'[k].filled = ex'[i].filled
        BY <2>3, <3>1 DEF JustSent, Report
      <4> QED  BY <2>2, <4>1
    <3>2. ASSUME NEW j \in 1..Len(wire), wire'[k] = wire[j]
          PROVE  FilledSoFar(i) <= wire'[k].filled
      BY <2>3, <3>2 DEF Forward
    <3> QED  BY <3>1, <3>2, WireEffect
  <2> DEFINE Goal == StreamHas(i)' =>
         /\ FilledSoFar(i) <= arg'[Stream].filled
         /\ pc'[Stream] = "write" => /\ delta'[Stream] >= 0
                                     /\ FilledSoFar(i) + delta'[Stream] <= arg'[Stream].filled
         /\ pc'[Stream] \in {"call", "inside"} => delta'[Stream] >= 0
  <2>4. ASSUME pc'[Stream] = pc[Stream], arg'[Stream] = arg[Stream], delta'[Stream] = delta[Stream]
        PROVE  Goal
    BY <2>4 DEF Forward, StreamHas
  <2>5. ASSUME StreamRead PROVE Goal
    <3>1. /\ pc'[Stream] = "lookup" /\ arg'[Stream].id = Head(wire).id
          /\ arg'[Stream].filled = Head(wire).filled /\ wire # <<>>
      BY <1>0, <2>5 DEF StreamRead, Goto
    <3>2. Head(wire) = wire[1] /\ 1 \in 1..Len(wire)
      BY <1>0, <3>1
    <3> QED  BY <3>1, <3>2 DEF Forward, StreamHas
  <2>6. ASSUME StreamLookup PROVE Goal
    <3>1. /\ pc'[Stream] = "read" /\ pc[Stream] = "lookup" /\ arg'[Stream].id = arg[Stream].id
          /\ arg'[Stream].filled = arg[Stream].filled
      BY <1>0, <2>6 DEF StreamLookup, Goto, Args
    <3> QED  BY <3>1 DEF Forward, StreamHas
  <2>7. ASSUME UpsertRead(Stream) PROVE Goal
    <3>1. /\ pc'[Stream] = "write" /\ pc[Stream] = "read" /\ arg' = arg
          /\ arg[Stream].id = i => delta'[Stream] = arg[Stream].filled - FilledSoFar(i)
      BY <1>0, <2>7 DEF UpsertRead, Goto, FilledSoFar
    <3>2. StreamHas(i)' => FilledSoFar(i) <= arg[Stream].filled /\ arg[Stream].id = i
      BY <3>1 DEF Forward, StreamHas
    <3> QED  BY <1>2, <3>1, <3>2
  <2>8. ASSUME InvokeCallback(Stream) PROVE Goal
    <3>1. /\ pc'[Stream] = "inside" /\ pc[Stream] = "call" /\ arg' = arg /\ delta' = delta
      BY <1>0, <2>8 DEF InvokeCallback, Goto
    <3> QED  BY <3>1 DEF Forward, StreamHas
  <2>9. ASSUME CallbackEnds(Stream) PROVE Goal
    <3>1. pc'[Stream] = "idle"
      BY <1>0, <2>9 DEF CallbackEnds, Goto
    <3> QED  BY <3>1 DEF StreamHas
  <2>10. ASSUME UpsertWrite(Stream) PROVE Goal
    BY <2>1, <2>10, Writes DEF StreamHas, Writer
  <2>11. Goal
    BY <2>4, <2>5, <2>6, <2>7, <2>8, <2>9, <2>10, StreamSteps
  <2> HIDE DEF Goal
  <2> QED  BY <2>1, <2>2, <2>3, <2>11 DEF Forward, Goal
<1> QED  BY <1>3, <1>4, <1>5, Records

\* The answer is recorded once, by the submit() that waits for it.
LEMMA EarlySteps ==
  ASSUME ClientInv, Owned, [ClientNext]_vars, NEW i \in DOMAIN ex
  PROVE  /\ Early(i)' => Early(i) /\ \A t \in Runners : ~ Writer(t, i)
         /\ \A t \in Runners : Writer(t, i) => Early(i)
<1> USE ThreadKinds
<1>0. /\ pc \in [Threads -> Pcs] /\ arg \in [Threads -> Args] /\ i # 0 /\ i < nextId
      /\ nextId \in Nat /\ i \in Nat
  BY OrderAssumption DEF ClientInv, Types, Ids, Owned
<1>1. ASSUME NEW r \in Runners, arg'[r].id = i, pc'[r] \in {"answer", "read", "write"}
      PROVE  Early(i) /\ \A t \in Runners : ~ Writer(t, i)
  <2>1. arg[r].id = i
    BY <1>0, <1>1, SubmitEffect
  <2>2. pc[r] \in {"answer", "read", "write"}
    <3>1. pc[r] # "place"
      BY <2>1 DEF Owned
    <3>2. CASE pc'[r] = pc[r]
      BY <1>1, <3>2
    <3>3. ASSUME NEW q \in Nat \ {0}, Submit(r, q) PROVE pc'[r] = "place"
      BY <1>0, <3>3 DEF Submit, Goto
    <3>4. ASSUME \/ PlaceFails(r) \/ Accept(r) \/ UpsertWrite(r) \/ InvokeCallback(r)
                 \/ CallbackEnds(r)
          PROVE  pc[r] = "place" \/ pc'[r] \in {"idle", "call", "inside"}
      BY <1>0, <3>4 DEF PlaceFails, Accept, UpsertWrite, InvokeCallback, CallbackEnds, Goto
    <3>5. ASSUME Answer(r) \/ UpsertRead(r) PROVE pc[r] \in {"answer", "read"}
      BY <3>5 DEF Answer, UpsertRead
    <3> QED  BY <1>1, <3>1, <3>2, <3>3, <3>4, <3>5, RunnerSteps
  <2>3. ASSUME NEW t \in Runners, Writer(t, i) PROVE FALSE
    <3>1. pc[t] = "write" /\ pc'[t] = "call" /\ arg[t].id = i
      BY <1>0, <2>3, Writes DEF Writer
    <3>2. t # r
      BY <1>1, <3>1
    <3> QED  BY <2>1, <3>1, <3>2 DEF ClientInv, Holds
  <2> QED  BY <2>1, <2>2, <2>3 DEF Early
<1>2. ASSUME NEW t \in Runners, Writer(t, i) PROVE Early(i)
  BY <1>2 DEF Writer, UpsertWrite, Early
<1>3. Early(i)' => \E r \in Runners : arg'[r].id = i /\ pc'[r] \in {"answer", "read", "write"}
  BY DEF Early
<1> QED  BY <1>1, <1>2, <1>3

\* Two threads never write in one step.
LEMMA OneWriter ==
  ASSUME ClientInv, NEW t \in Runners, NEW i, Writer(t, i) PROVE ~ Writer(Stream, i)
<1> SUFFICES ASSUME Writer(Stream, i) PROVE FALSE
  OBVIOUS
<1>1. pc \in [Threads -> Pcs] /\ t # Stream /\ t \in Threads /\ Stream \in Threads
  BY ThreadKinds DEF ClientInv, Types
<1>2. pc[t] = "write" /\ pc' = [pc EXCEPT ![t] = "call"] /\ pc' = [pc EXCEPT ![Stream] = "call"]
  BY Writes DEF Writer
<1> QED  BY <1>1, <1>2

\* The sum grows only by what the stream thread writes.
LEMMA SumSteps ==
  ASSUME ClientInv, Plain, [ClientNext]_vars, NEW q \in Runners, NEW i \in Ids, Forward(i)
  PROVE  /\ counted'[q][i] >= counted[q][i]
         /\ \/ counted'[q][i] + Owed(q, i)' <= counted[q][i] + Owed(q, i)
            \/ /\ Writer(Stream, i) /\ Owed(q, i) = 0
               /\ counted'[q][i] + Owed(q, i)' = counted[q][i] + delta[Stream]
<1>0. counted[q][i] \in Int /\ Owed(q, i) \in Int /\ delta[Stream] \in Int
  BY LedgerTypes
<1>1. CASE Unpaid(q, i)
  BY <1>0, <1>1 DEF Unpaid
<1>2. CASE Booked(q, i)
  BY <1>0, <1>2 DEF Booked
<1>3. CASE Paid(q, i)
  <2>1. delta[Stream] >= 0
    BY <1>3 DEF Paid, Forward, StreamHas
  <2> QED  BY <1>0, <1>3, <2>1 DEF Paid
<1> QED  BY <1>1, <1>2, <1>3, Sums

\* Every step keeps the sums within twice the fills.
LEMMA TwiceStep ==
  ASSUME ClientInv, Owned, InOrder, Plain, [ClientNext]_vars, NEW i \in DOMAIN ex,
         Forward(i), Twice(i)
  PROVE  Twice(i)'
<1>0. ClientInv' /\ i \in Ids /\ i \in DOMAIN ex' /\ ex[i].filled <= ex'[i].filled
  BY ClientStep, ExEffect, MappedFields DEF GoesOn, Precedes, ClientInv, Types
<1> SUFFICES ASSUME NEW q \in Runners
             PROVE  /\ counted'[q][i] >= 0
                    /\ counted'[q][i] + Owed(q, i)' <= ex'[i].filled + FilledSoFar(i)'
                    /\ Early(i)' => counted'[q][i] + Owed(q, i)' <= FilledSoFar(i)'
  BY DEF Twice
<1> DEFINE S == counted[q][i] + Owed(q, i)
           F == FilledSoFar(i)
           T == counted'[q][i] + Owed(q, i)'
           G == FilledSoFar(i)'
<1>1. /\ S \in Int /\ F \in Int /\ ex[i].filled \in Int /\ delta[Stream] \in Int
      /\ arg[Stream].filled \in Int /\ counted[q][i] \in Int
  BY <1>0, LedgerTypes
<1>2. T \in Int /\ G \in Int /\ ex'[i].filled \in Int /\ counted'[q][i] \in Int
  BY <1>0, LedgerTypesNext
<1>3. /\ counted[q][i] >= 0 /\ S <= ex[i].filled + F /\ (Early(i) => S <= F)
      /\ F <= ex[i].filled
  BY DEF Twice, Forward
<1>4. counted'[q][i] >= counted[q][i] /\ (T <= S \/ (Writer(Stream, i) /\ T = S + delta[Stream]))
  BY <1>0, <1>1, SumSteps
<1>5. Early(i)' => Early(i) /\ \A t \in Runners : ~ Writer(t, i)
  BY <1>0, EarlySteps
<1>6. CASE Unwritten(i)
  <2>1. G = F /\ T <= S
    BY <1>4, <1>6, ThreadKinds DEF Unwritten
  <2> HIDE DEF S, F, T, G
  <2> QED  BY <1>0, <1>1, <1>2, <1>3, <1>4, <1>5, <2>1 DEF T, G
<1>7. ASSUME NEW t \in Runners, Writer(t, i), G = arg[t].filled, pc[t] = "write"
      PROVE  counted'[q][i] >= 0 /\ T <= ex'[i].filled + G /\ ~ Early(i)'
  <2>1. G = 0 /\ T <= S /\ S <= F
    BY <1>3, <1>4, <1>7, EarlySteps, OneWriter DEF Plain
  <2>2. ~ Early(i)'
    BY <1>5, <1>7
  <2> HIDE DEF S, F, T, G
  <2> QED  BY <1>0, <1>1, <1>2, <1>3, <1>4, <2>1, <2>2
<1>8. ASSUME Writer(Stream, i), G = arg[Stream].filled, pc[Stream] = "write"
      PROVE  /\ counted'[q][i] >= 0 /\ T <= ex'[i].filled + G
             /\ Early(i)' => T <= G
  <2>1. delta[Stream] >= 0 /\ F + delta[Stream] <= G
    BY <1>8 DEF Forward, StreamHas, Writer
  <2> HIDE DEF S, F, T, G
  <2>2. T <= S + delta[Stream]
    BY <1>1, <1>2, <1>4, <2>1
  <2> QED  BY <1>0, <1>1, <1>2, <1>3, <1>4, <1>5, <2>1, <2>2
<1> HIDE DEF S, F
<1> QED  BY <1>6, <1>7, <1>8, Records, ThreadKinds

\* Every step of an order not overtaken keeps its submit() before the stream.
LEMMA SubmitFirstStep ==
  ASSUME ClientInv, Owned, InOrder, Plain, [ClientNext]_vars, NEW i \in DOMAIN ex,
         i \notin overtaken', SubmitFirst(i)
  PROVE  SubmitFirst(i)'
<1> SUFFICES ASSUME NEW r \in Runners, arg'[r].id = i
             PROVE  /\ ~ StreamHas(i)' /\ FilledSoFar(i)' = 0
                    /\ \A q \in Runners : counted'[q][i] = 0
                    /\ pc'[r] \in {"write", "call", "inside"} => delta'[r] = 0
  BY DEF SubmitFirst
<1>0. i \in Ids /\ i # 0 /\ i \in Nat /\ i < nextId /\ nextId \in Nat
  BY OrderAssumption DEF ClientInv, Types, Ids, Owned
<1>1. arg[r].id = i
  BY <1>0, SubmitEffect
<1>2. /\ ~ StreamHas(i) /\ FilledSoFar(i) = 0 /\ \A q \in Runners : counted[q][i] = 0
      /\ pc[r] \in {"write", "call", "inside"} => delta[r] = 0
  BY <1>1 DEF SubmitFirst
<1>3. ~ StreamHas(i)'
  <2>1. CASE StreamKeeps
    BY <1>2, <2>1 DEF StreamKeeps, StreamHas
  <2>2. CASE StreamTakes
    BY <1>1, <2>2, OvertakenSteps DEF StreamTakes, StreamHas
  <2> QED  BY <2>1, <2>2, StreamEffect DEF StreamHas
<1>4. FilledSoFar(i)' = 0
  <2>1. ASSUME NEW t \in Threads, Writer(t, i), pc[t] = "write" PROVE arg[t].filled = 0
    <3>1. t # Stream
      BY <1>2, <2>1 DEF Writer, StreamHas
    <3> QED  BY <2>1, <3>1, ThreadKinds DEF Plain
  <2>2. CASE Unwritten(i)
    BY <1>2, <2>2 DEF Unwritten
  <2> QED  BY <2>1, <2>2, Records
<1>5. ASSUME NEW q \in Runners PROVE counted'[q][i] = 0
  <2>1. ~ (CallRunner(Stream, q) /\ arg[Stream].id = i)
    BY <1>2 DEF CallRunner, StreamHas
  <2> QED  BY <1>0, <1>2, <2>1, OnlyStreamPays
<1>6. ASSUME pc'[r] \in {"write", "call", "inside"} PROVE delta'[r] = 0
  <2>0. pc \in [Threads -> Pcs] /\ delta \in [Threads -> Int] /\ r \in Threads
    BY ThreadKinds DEF ClientInv, Types
  <2>1. CASE pc'[r] = pc[r] /\ delta'[r] = delta[r]
    BY <1>2, <1>6, <2>1
  <2>2. ASSUME \/ \E q \in Nat \ {0} : Submit(r, q)
               \/ PlaceFails(r) \/ Accept(r) \/ Answer(r) \/ CallbackEnds(r)
        PROVE  pc'[r] \in {"place", "idle", "answer", "read"}
    BY <2>0, <2>2 DEF Submit, PlaceFails, Accept, Answer, CallbackEnds, Goto
  <2>3. CASE UpsertRead(r)
    <3>1. pc[r] = "read" /\ delta'[r] = arg[r].filled - FilledSoFar(i)
      BY <1>1, <2>0, <2>3 DEF UpsertRead, FilledSoFar
    <3>2. arg[r].filled = 0
      BY <3>1 DEF Plain
    <3> QED  BY <1>2, <3>1, <3>2
  <2>4. CASE UpsertWrite(r) \/ InvokeCallback(r)
    BY <1>2, <2>4 DEF UpsertWrite, InvokeCallback
  <2> QED  BY <1>6, <2>1, <2>2, <2>3, <2>4, RunnerSteps
<1> QED  BY <1>3, <1>4, <1>5, <1>6

\* Every step keeps the record of an order not overtaken before the reports to come.
LEMMA SinceStep ==
  ASSUME ClientInv, Owned, InOrder, Plain, [ClientNext]_vars, NEW i \in DOMAIN ex, Since(i)
  PROVE  Since(i)'
<1> SUFFICES ASSUME FilledSoFar(i)' > 0
             PROVE  /\ orders'[i].status # "Pending" /\ Precedes(orders'[i], Mapped(ex'[i]))
                    /\ \A k \in 1..Len(wire') : wire'[k].id = i => Precedes(orders'[i], Mapped(wire'[k]))
                    /\ StreamHas(i)' => Precedes(orders'[i], arg'[Stream])
  BY DEF Since
<1>0. /\ pc \in [Threads -> Pcs] /\ arg \in [Threads -> Args] /\ wire \in Seq(Reports)
      /\ arg[Stream].filled \in Int /\ arg[Stream].status \in Statuses
      /\ Mapped(ex[i]).filled \in Int /\ Mapped(ex[i]).status \in Statuses
      /\ i \in DOMAIN ex' /\ Mapped(ex'[i]).filled \in Int
      /\ Precedes(Mapped(ex[i]), Mapped(ex'[i]))
  <2>1. arg[Stream] \in Args /\ i \in DOMAIN ex'
    BY ThreadKinds, ExEffect DEF GoesOn, ClientInv, Types
  <2>2. ex[i] \in ExOrders /\ ex'[i] \in ExOrders
    BY <2>1, TypeStep DEF ClientInv, Types
  <2>3. Precedes(Mapped(ex[i]), Mapped(ex'[i]))
    BY ExEffect DEF GoesOn
  <2>4. arg[Stream].filled \in Int /\ arg[Stream].status \in Statuses
    BY <2>1 DEF Args
  <2>5. /\ Mapped(ex[i]).filled \in Int /\ Mapped(ex[i]).status \in Statuses
        /\ Mapped(ex'[i]).filled \in Int
    BY <2>2, MappedFields, MapStatusTotal DEF ExOrders
  <2> QED  BY <2>1, <2>3, <2>4, <2>5 DEF ClientInv, Types
<1>1. ASSUME Writer(Stream, i), pc[Stream] = "write", FilledSoFar(i)' = arg[Stream].filled,
             orders'[i].status = arg[Stream].status, orders'[i].filled = arg[Stream].filled
      PROVE  /\ orders'[i].status # "Pending" /\ Precedes(orders'[i], Mapped(ex'[i]))
             /\ \A k \in 1..Len(wire') : wire'[k].id = i => Precedes(orders'[i], Mapped(wire'[k]))
             /\ StreamHas(i)' => Precedes(orders'[i], arg'[Stream])
  <2>1. UNCHANGED <<ex, wire, arg>> /\ arg[Stream].id = i
    BY <1>1, Writes DEF Writer
  <2>2. /\ Precedes(arg[Stream], Mapped(ex[i]))
        /\ arg[Stream].status = "Pending" => arg[Stream].filled = 0
        /\ \A k \in 1..Len(wire) : wire[k].id = i => Precedes(arg[Stream], Mapped(wire[k]))
    BY <1>1, <2>1 DEF InOrder, OnTheWay, StreamHas
  <2>3. Precedes(arg[Stream], arg[Stream])
    BY <1>0, PrecedesSelf
  <2> QED  BY <1>0, <1>1, <2>1, <2>2, <2>3, PrecedesFields
<1>2. ASSUME Unwritten(i)
      PROVE  /\ orders'[i].status # "Pending" /\ Precedes(orders'[i], Mapped(ex'[i]))
             /\ \A k \in 1..Len(wire') : wire'[k].id = i => Precedes(orders'[i], Mapped(wire'[k]))
             /\ StreamHas(i)' => Precedes(orders'[i], arg'[Stream])
  <2>1. FilledSoFar(i) > 0 /\ i \in DOMAIN orders /\ orders'[i] = orders[i]
    BY <1>2 DEF Unwritten, FilledSoFar
  <2>2. /\ orders[i].status # "Pending" /\ Precedes(orders[i], Mapped(ex[i]))
        /\ \A k \in 1..Len(wire) : wire[k].id = i => Precedes(orders[i], Mapped(wire[k]))
        /\ StreamHas(i) => Precedes(orders[i], arg[Stream])
    BY <2>1 DEF Since
  <2>3. Precedes(orders[i], Mapped(ex'[i]))
    <3>1. orders[i].filled \in Int
      BY <2>1 DEF ClientInv, Types, Record
    <3> QED  BY <1>0, <2>2, <3>1, PrecedesTrans
  <2>4. ASSUME NEW k \in 1..Len(wire'), wire'[k].id = i PROVE Precedes(orders[i], Mapped(wire'[k]))
    <3>1. CASE JustSent(wire'[k])
      <4>1. Mapped(wire'[k]) = Mapped(ex'[i])
        BY <2>4, <3>1, MappedReport DEF JustSent
      <4> QED  BY <2>3, <4>1
    <3>2. ASSUME NEW j \in 1..Len(wire), wire'[k] = wire[j]
          PROVE  Precedes(orders[i], Mapped(wire'[k]))
      BY <2>2, <2>4, <3>2
    <3> QED  BY <3>1, <3>2, WireEffect
  <2>5. ASSUME StreamHas(i)' PROVE Precedes(orders[i], arg'[Stream])
    <3>1. CASE StreamKeeps
      BY <2>2, <2>5, <3>1, PrecedesFields DEF StreamKeeps, StreamHas
    <3>2. CASE StreamTakes
      <4>1. Head(wire) = wire[1] /\ 1 \in 1..Len(wire)
        BY <1>0, <3>2 DEF StreamTakes
      <4>2. arg'[Stream].id = wire[1].id /\ arg'[Stream].filled = Mapped(wire[1]).filled
            /\ arg'[Stream].status = Mapped(wire[1]).status
        BY <3>2, <4>1, MappedFields DEF StreamTakes
      <4>3. wire[1].id = i
        BY <2>5, <4>2 DEF StreamHas
      <4>4. Precedes(orders[i], Mapped(wire[1]))
        BY <2>2, <4>1, <4>3
      <4> QED  BY <4>2, <4>4, PrecedesFields
    <3> QED  BY <2>5, <3>1, <3>2, StreamEffect DEF StreamHas
  <2> QED  BY <2>1, <2>2, <2>3, <2>4, <2>5
<1>3. ASSUME NEW t \in Runners, pc[t] = "write", FilledSoFar(i)' = arg[t].filled PROVE FALSE
  BY <1>3 DEF Plain
<1> QED  BY <1>1, <1>2, <1>3, Records, ThreadKinds

\* The stream thread's upsert() of an order not overtaken is not disturbed.
LEMMA LatestStep ==
  ASSUME ClientInv, InOrder, Plain, [ClientNext]_vars, NEW i \in DOMAIN ex,
         i \notin overtaken', SubmitFirst(i), Latest(i)
  PROVE  Latest(i)'
<1> USE ThreadKinds
<1>0. /\ pc \in [Threads -> Pcs] /\ arg \in [Threads -> Args] /\ delta \in [Threads -> Int]
  BY DEF ClientInv, Types
<1>1. ASSUME Writer(Stream, i), i \in DOMAIN orders', LabelOf(i)' = arg[Stream].sym,
             orders'[i].status = arg[Stream].status, orders'[i].filled = arg[Stream].filled
      PROVE  Latest(i)'
  <2>1. pc'[Stream] = "call" /\ arg' = arg
    BY <1>0, <1>1, Writes DEF Writer
  <2> QED  BY <1>1, <2>1 DEF Latest
<1>2. ASSUME NEW t \in Runners, Writer(t, i) PROVE Latest(i)'
  <2>0. UpsertWrite(t) /\ arg[t].id = i
    BY <1>2 DEF Writer
  <2>1. ~ StreamHas(i) /\ arg' = arg /\ pc'[Stream] = pc[Stream]
    BY <1>0, <2>0 DEF SubmitFirst, UpsertWrite, Goto
  <2> QED  BY <2>1 DEF Latest, StreamHas
<1>3. ASSUME Unwritten(i) PROVE Latest(i)'
  <2>1. /\ FilledSoFar(i)' = FilledSoFar(i) /\ LabelOf(i)' = LabelOf(i) /\ ~ Writer(Stream, i)
        /\ i \in DOMAIN orders => i \in DOMAIN orders' /\ orders'[i] = orders[i]
    BY <1>3 DEF Unwritten
  <2>2. CASE pc'[Stream] = pc[Stream] /\ arg'[Stream] = arg[Stream] /\ delta'[Stream] = delta[Stream]
    BY <2>1, <2>2 DEF Latest, StreamHas
  <2>3. CASE StreamRead
    BY <1>0, <2>3 DEF StreamRead, Goto, Latest
  <2>4. CASE StreamLookup
    <3>1. /\ pc'[Stream] = "read" /\ arg'[Stream].id = arg[Stream].id
          /\ arg[Stream].id = i => arg'[Stream].sym = LabelOf(i)
      BY <1>0, <2>4 DEF StreamLookup, Goto, Args, LabelOf
    <3> QED  BY <2>1, <3>1 DEF Latest, StreamHas
  <2>5. CASE UpsertRead(Stream)
    <3>1. /\ pc'[Stream] = "write" /\ pc[Stream] = "read" /\ arg' = arg
          /\ arg[Stream].id = i => delta'[Stream] = arg[Stream].filled - FilledSoFar(i)
      BY <1>0, <2>5 DEF UpsertRead, Goto, FilledSoFar
    <3> QED  BY <2>1, <3>1 DEF Latest, StreamHas
  <2>6. CASE InvokeCallback(Stream)
    <3>1. /\ pc'[Stream] = "inside" /\ pc[Stream] = "call" /\ arg' = arg
      BY <1>0, <2>6 DEF InvokeCallback, Goto
    <3> QED  BY <2>1, <3>1 DEF Latest, StreamHas
  <2>7. CASE CallbackEnds(Stream)
    <3>1. pc'[Stream] = "idle"
      BY <1>0, <2>7 DEF CallbackEnds, Goto
    <3> QED  BY <3>1 DEF Latest, StreamHas
  <2>8. CASE UpsertWrite(Stream)
    BY <2>1, <2>8, Writes DEF Latest, StreamHas, Writer
  <2> QED  BY <2>2, <2>3, <2>4, <2>5, <2>6, <2>7, <2>8, StreamSteps
<1> QED  BY <1>1, <1>2, <1>3, Records

\* What the stream thread writes it owes.
LEMMA Booking ==
  ASSUME ClientInv, NEW q \in Runners, NEW i, Writer(Stream, i) PROVE Booked(q, i)
<1>1. pc \in [Threads -> Pcs] /\ Stream \in Threads
  BY ThreadKinds DEF ClientInv, Types
<1>2. /\ pc[Stream] = "write" /\ pc'[Stream] = "call" /\ UNCHANGED <<arg, delta, counted>>
      /\ arg[Stream].id = i
  BY <1>1, Writes DEF Writer
<1> QED  BY <1>2 DEF Booked, Owed

\* Every step of an order not overtaken keeps the sums.
LEMMA ExactStep ==
  ASSUME ClientInv, Owned, InOrder, Plain, Routed, [ClientNext]_vars, NEW i \in DOMAIN ex,
         Forward(i), Twice(i), Undisturbed(i)
  PROVE  Exact(i)'
<1>0. /\ i \in Ids /\ ex'[i].owner = ex[i].owner /\ ex[i].owner \in Runners
      /\ SubmitFirst(i) /\ Since(i) /\ Latest(i) /\ Exact(i)
  BY ExEffect DEF GoesOn, ClientInv, Types, Owned, Undisturbed
<1>1. /\ FilledSoFar(i) \in Int /\ delta[Stream] \in Int /\ arg[Stream].filled \in Int
      /\ \A q \in Runners : counted[q][i] \in Int /\ Owed(q, i) \in Int
  BY <1>0, LedgerTypes
<1>2. ASSUME Unwritten(i) PROVE Exact(i)'
  <2>1. /\ FilledSoFar(i)' = FilledSoFar(i) /\ LabelOf(i)' = LabelOf(i) /\ ~ Writer(Stream, i)
        /\ i \in DOMAIN orders' <=> i \in DOMAIN orders
        /\ i \in DOMAIN orders => orders'[i] = orders[i]
    BY <1>2, ThreadKinds DEF Unwritten
  <2>2. ASSUME NEW q \in Runners, Paid(q, i)
        PROVE  /\ delta[Stream] >= 0
               /\ Takes(ex[i].owner, arg[Stream].sym)
               /\ q # ex[i].owner /\ LabelOf(i) # NoSym => ~ Takes(q, arg[Stream].sym)
               /\ orders[i].status = arg[Stream].status
    <3>1. pc[Stream] = "inside" /\ arg[Stream].id = i
      BY <2>2 DEF Paid
    <3>2. delta[Stream] >= 0
      BY <3>1 DEF Forward, StreamHas
    <3>3. arg[Stream].sym = LabelOf(i) /\ orders[i].status = arg[Stream].status
      BY <1>0, <3>1 DEF Latest, StreamHas
    <3>4. arg[Stream].sym \in {ex[i].owner, NoSym}
      BY <3>1 DEF Routed
    <3> QED  BY <3>2, <3>3, <3>4 DEF Takes
  <2>3. ASSUME NEW q \in Runners
        PROVE  /\ counted'[q][i] + Owed(q, i)' <= FilledSoFar(i)
               /\ q # ex[i].owner /\ LabelOf(i) # NoSym => counted'[q][i] = 0
    <3>1. /\ counted[q][i] + Owed(q, i) <= FilledSoFar(i)
          /\ q # ex[i].owner /\ LabelOf(i) # NoSym => counted[q][i] = 0
      BY <1>0 DEF Exact
    <3>2. CASE Unpaid(q, i)
      BY <3>1, <3>2 DEF Unpaid
    <3>3. CASE Paid(q, i)
      BY <1>1, <2>2, <3>1, <3>3 DEF Paid
    <3> QED  BY <1>0, <2>1, <3>2, <3>3, Sums DEF Booked
  <2>4. ASSUME i \in DOMAIN orders, orders[i].status \in Fills, NEW q \in Runners, q = ex[i].owner
        PROVE  counted'[q][i] + Owed(q, i)' = FilledSoFar(i)
    <3>1. counted[q][i] + Owed(q, i) = FilledSoFar(i)
      BY <1>0, <2>4 DEF Exact
    <3>2. CASE Unpaid(q, i)
      BY <3>1, <3>2 DEF Unpaid
    <3>3. CASE Paid(q, i)
      <4>1. delta[Stream] >= 0 /\ (delta[Stream] > 0 => IsFill(Stream)) /\ Takes(q, arg[Stream].sym)
        BY <2>2, <2>4, <3>3 DEF IsFill, Fills
      <4> QED  BY <1>1, <3>1, <3>3, <4>1 DEF Paid
    <3> QED  BY <1>0, <2>1, <3>2, <3>3, Sums DEF Booked
  <2> QED  BY <1>0, <2>1, <2>3, <2>4 DEF Exact
<1>3. ASSUME NEW t \in Runners, Writer(t, i), FilledSoFar(i)' = arg[t].filled, pc[t] = "write"
      PROVE  Exact(i)'
  <2>1. ~ StreamHas(i) /\ \A q \in Runners : counted[q][i] = 0
    BY <1>0, <1>3 DEF SubmitFirst, Writer
  <2>2. \A q \in Runners : Owed(q, i) = 0
    BY <2>1 DEF Owed, StreamHas
  <2>3. ASSUME NEW q \in Runners PROVE counted'[q][i] = 0 /\ Owed(q, i)' = 0
    <3>1. ~ Booked(q, i) /\ ~ Paid(q, i)
      BY <1>3, <2>1, OneWriter DEF Booked, Paid, StreamHas
    <3> QED  BY <1>0, <2>1, <2>2, <3>1, Sums DEF Unpaid
  <2>4. FilledSoFar(i)' = 0
    BY <1>3 DEF Plain
  <2> QED  BY <1>0, <2>3, <2>4 DEF Exact
<1>4. ASSUME Writer(Stream, i), pc[Stream] = "write", FilledSoFar(i)' = arg[Stream].filled,
             LabelOf(i)' = arg[Stream].sym, orders'[i].status = arg[Stream].status
      PROVE  Exact(i)'
  <2>1. StreamHas(i)
    BY <1>4 DEF Writer, StreamHas
  <2>2. LabelOf(i)' = LabelOf(i) /\ delta[Stream] = arg[Stream].filled - FilledSoFar(i)
    BY <1>0, <1>4, <2>1 DEF Latest
  <2>3. ASSUME NEW q \in Runners
        PROVE  /\ counted'[q][i] = counted[q][i] /\ Owed(q, i) = 0 /\ Owed(q, i)' = delta[Stream]
               /\ counted[q][i] >= 0 /\ counted[q][i] <= FilledSoFar(i)
               /\ q # ex[i].owner /\ LabelOf(i) # NoSym => counted[q][i] = 0
    <3>1. Booked(q, i)
      BY <1>4, Booking
    <3>2. counted[q][i] + Owed(q, i) <= FilledSoFar(i) /\ counted[q][i] >= 0
          /\ (q # ex[i].owner /\ LabelOf(i) # NoSym => counted[q][i] = 0)
      BY <1>0 DEF Exact, Twice
    <3> QED  BY <1>1, <3>1, <3>2 DEF Booked
  <2>4. ASSUME arg[Stream].status \in Fills, NEW q \in Runners, q = ex[i].owner
        PROVE  counted[q][i] = FilledSoFar(i)
    <3>1. CASE FilledSoFar(i) <= 0
      BY <1>1, <2>3, <3>1
    <3>2. CASE FilledSoFar(i) > 0
      <4>1. i \in DOMAIN orders /\ orders[i].status # "Pending" /\ Precedes(orders[i], arg[Stream])
        BY <1>0, <2>1, <3>2 DEF Since, FilledSoFar
      <4>2. orders[i].status \in Statuses
        BY <4>1 DEF ClientInv, Types, Record
      <4>3. orders[i].status \in Fills
        BY <2>4, <4>1, <4>2 DEF Precedes, Terminal, Fills, Statuses
      <4>4. counted[q][i] + Owed(q, i) = FilledSoFar(i)
        BY <1>0, <2>4, <4>1, <4>3 DEF Exact
      <4> QED  BY <1>1, <2>3, <4>4
    <3> QED  BY <1>1, <3>1, <3>2
  <2>5. ASSUME NEW q \in Runners
        PROVE  /\ counted'[q][i] + Owed(q, i)' <= FilledSoFar(i)'
               /\ q # ex[i].owner /\ LabelOf(i)' # NoSym => counted'[q][i] = 0
    BY <1>1, <1>4, <2>2, <2>3
  <2>6. ASSUME arg[Stream].status \in Fills, NEW q \in Runners, q = ex[i].owner
        PROVE  counted'[q][i] + Owed(q, i)' = FilledSoFar(i)'
    BY <1>1, <1>4, <2>2, <2>3, <2>4, <2>6
  <2> QED  BY <1>0, <1>4, <2>5, <2>6 DEF Exact
<1> QED  BY <1>2, <1>3, <1>4, Records, ThreadKinds

\* An order begins with an empty ledger.
LEMMA NewLedger ==
  ASSUME ClientInv, InOrder, Unknown, [ClientNext]_vars, NEW i \in DOMAIN ex' \ DOMAIN ex,
         NEW r \in Runners, Arrives(i, r)
  PROVE  Forward(i)' /\ Twice(i)' /\ Undisturbed(i)'
<1>0. i \in Ids /\ ClientInv' /\ pc \in [Threads -> Pcs]
  BY ClientStep DEF ClientInv, Types
<1>1. /\ UNCHANGED <<orders, counted, delta, arg>> /\ pc' = [pc EXCEPT ![r] = "answer"]
      /\ arg[r].id = i /\ ex'[i].filled = 0 /\ ex'[i].owner = r
  BY DEF Arrives, Accept, Goto, history
<1>2. i \notin DOMAIN orders /\ \A q \in Runners : counted[q][i] = 0
  BY <1>0 DEF Unknown
<1>3. FilledSoFar(i)' = 0 /\ LabelOf(i)' = NoSym /\ i \notin DOMAIN orders'
  BY <1>1, <1>2 DEF FilledSoFar, LabelOf
<1>4. ~ StreamHas(i)'
  <2>1. pc'[Stream] = pc[Stream]
    BY <1>0, <1>1, ThreadKinds
  <2> QED  BY <1>1, <2>1 DEF StreamHas, InOrder
<1>5. \A q \in Runners : counted'[q][i] = 0 /\ Owed(q, i)' = 0
  BY <1>1, <1>2, <1>4 DEF Owed, StreamHas
<1>6. Forward(i)'
  <2>1. \A k \in 1..Len(wire') : wire'[k].filled \in Nat
    BY <1>0, LedgerTypesNext
  <2> QED  BY <1>1, <1>3, <1>4, <2>1 DEF Forward
<1>7. Twice(i)' /\ Exact(i)'
  BY <1>1, <1>3, <1>5 DEF Twice, Exact
<1>8. SubmitFirst(i)'
  <2> SUFFICES ASSUME NEW q \in Runners, arg'[q].id = i PROVE pc'[q] = "answer"
    BY <1>3, <1>4, <1>5 DEF SubmitFirst
  <2>1. pc[r] # "idle"
    BY DEF Arrives
  <2>2. q = r
    BY <1>1, <2>1 DEF ClientInv, Holds
  <2> QED  BY <1>0, <1>1, <2>2, ThreadKinds
<1>9. Since(i)' /\ Latest(i)'
  BY <1>3, <1>4 DEF Since, Latest
<1> QED  BY <1>6, <1>7, <1>8, <1>9 DEF Undisturbed

-----------------------------------------------------------------------------
(* OrderClient: what is counted *)

\* OrderClient takes these steps.
LEMMA NextIsClient == [Next]_vars => [ClientNext]_vars
<1> SUFFICES ASSUME Next PROVE ClientNext
  OBVIOUS
<1>1. ASSUME NEW r \in Runners, NEW q \in Quantities, Submit(r, q) PROVE q \in Nat \ {0}
  BY <1>1, OrderAssumption DEF Submit, Validate
<1> QED  BY <1>1 DEF Next, ClientNext, Upsert

\* Without an earlier run there is no order at first.
LEMMA LedgerInit == Prior = 0 /\ Init => LedgerInv
<1> SUFFICES ASSUME Prior = 0, Init PROVE LedgerInv
  OBVIOUS
<1>1. /\ DOMAIN ex = {} /\ DOMAIN orders = {} /\ Len(wire) = 0
      /\ \A t \in Threads : pc[t] = "idle"
      /\ \A r \in Runners, i \in Ids : counted[r][i] = 0
  BY DEF Init
<1>2. ClientInv
  BY ClientInit
<1>3. Owned /\ InOrder /\ Unknown /\ Plain /\ Routed
  BY <1>1, ThreadKinds DEF Owned, InOrder, Unknown, Plain, Routed
<1> QED  BY <1>1, <1>2, <1>3 DEF LedgerInv

\* Every step keeps the ledgers.
LEMMA LedgerStep == LedgerInv /\ [ClientNext]_vars => LedgerInv'
<1> SUFFICES ASSUME LedgerInv, [ClientNext]_vars PROVE LedgerInv'
  OBVIOUS
<1>1. ClientInv /\ Owned /\ InOrder /\ Unknown /\ Plain /\ Routed
  BY DEF LedgerInv
<1>2. ClientInv' /\ Owned' /\ InOrder' /\ Unknown' /\ Plain' /\ Routed'
  BY <1>1, ClientStep, OwnedStep, InOrderStep, UnknownStep, PlainStep, RoutedStep
<1>3. ASSUME NEW i \in DOMAIN ex' PROVE Forward(i)' /\ Twice(i)' /\ (i \notin overtaken' => Undisturbed(i)')
  <2>1. CASE i \in DOMAIN ex
    <3>1. Forward(i) /\ Twice(i) /\ (i \notin overtaken => Undisturbed(i))
      BY <2>1 DEF LedgerInv
    <3>2. Forward(i)' /\ Twice(i)'
      BY <1>1, <2>1, <3>1, ForwardStep, TwiceStep
    <3>3. ASSUME i \notin overtaken' PROVE Undisturbed(i)'
      <4>1. Undisturbed(i)
        BY <1>1, <3>1, <3>3, OvertakenSteps
      <4>2. SubmitFirst(i)' /\ Since(i)' /\ Latest(i)'
        BY <1>1, <2>1, <3>3, <4>1, SubmitFirstStep, SinceStep, LatestStep DEF Undisturbed
      <4>3. Exact(i)'
        BY <1>1, <2>1, <3>1, <4>1, ExactStep
      <4> QED  BY <4>2, <4>3 DEF Undisturbed
    <3> QED  BY <3>2, <3>3
  <2>2. CASE i \notin DOMAIN ex
    BY <1>1, <2>2, ExEffect, NewLedger
  <2> QED  BY <2>1, <2>2
<1> QED  BY <1>2, <1>3 DEF LedgerInv

\* OrderClient keeps its types, also with late or lost answers and with orders of an
\* earlier run at the exchange: nothing is ever recorded or counted under an id that
\* was not handed out.
THEOREM ClientTyped == Spec => []TypeOK
<1>1. Init => ClientInv
  BY ClientInit
<1>2. ClientInv /\ [Next]_vars => ClientInv'
  BY ClientStep, NextIsClient
<1>3. ClientInv => TypeOK
  BY TypesOf DEF ClientInv
<1> QED  BY <1>1, <1>2, <1>3, PTL DEF Spec

\* strategy_runner.hpp:73 -- whatever the stream loses, repeats and overtakes, and
\* whatever answers are late or lost, a runner passes on a fill of an order it did not
\* submit only when a report overtook that order's answer or its record has no symbol.
THEOREM OnlyOwnOrders == Prior = 0 /\ Spec => []OwnOrdersOnly
<1> SUFFICES ASSUME Prior = 0 PROVE Spec => []OwnOrdersOnly
  OBVIOUS
<1>1. Init => LedgerInv
  BY LedgerInit
<1>2. LedgerInv /\ [Next]_vars => LedgerInv'
  BY LedgerStep, NextIsClient
<1>3. LedgerInv => OwnOrdersOnly
  <2> SUFFICES ASSUME LedgerInv, NEW r \in Runners, NEW i \in DOMAIN ex, r # ex[i].owner,
                      i \notin overtaken, orders[i].sym # NoSym
               PROVE  counted[r][i] = 0
    BY DEF OwnOrdersOnly, Owner
  <2>1. ClientInv /\ i \in Ids /\ Forward(i) /\ Twice(i) /\ Exact(i)
    BY DEF LedgerInv, Undisturbed, ClientInv, Types
  <2>2. CASE i \in DOMAIN orders
    BY <2>1, <2>2 DEF Exact, LabelOf
  <2>3. CASE i \notin DOMAIN orders
    <3>1. FilledSoFar(i) = 0 /\ counted[r][i] \in Int /\ Owed(r, i) \in Int
      BY <2>1, <2>3, LedgerTypes DEF FilledSoFar
    <3>2. counted[r][i] >= 0 /\ counted[r][i] + Owed(r, i) <= 0
      BY <2>1, <3>1 DEF Twice, Exact
    <3>3. Owed(r, i) >= 0
      BY <2>1 DEF Owed, Forward, StreamHas
    <3> QED  BY <3>1, <3>2, <3>3
  <2> QED  BY <2>2, <2>3
<1> QED  BY <1>1, <1>2, <1>3, PTL DEF Spec

\* upsert()'s deltas add up: a runner never passes on more contracts than were filled,
\* or than twice as many when a late answer set the record back; and with an order not
\* overtaken, exactly the recorded ones between two upserts.
THEOREM CountsAddUp == Prior = 0 /\ Spec => []CountedExactly
<1> SUFFICES ASSUME Prior = 0 PROVE Spec => []CountedExactly
  OBVIOUS
<1>1. Init => LedgerInv
  BY LedgerInit
<1>2. LedgerInv /\ [Next]_vars => LedgerInv'
  BY LedgerStep, NextIsClient
<1>3. LedgerInv => CountedExactly
  <2> SUFFICES ASSUME LedgerInv, NEW i \in DOMAIN ex
               PROVE  /\ \A r \in Runners :
                           counted[r][i] <= (IF i \in overtaken THEN 2 ELSE 1) * ex[i].filled
                      /\ /\ i \in DOMAIN orders \ overtaken /\ ~ Busy(i)
                         /\ orders[i].status \in {"Filled", "PartialFill"}
                         => counted[ex[i].owner][i] = orders[i].filled
    BY DEF CountedExactly, Owner
  <2>1. /\ ClientInv /\ i \in Ids /\ ex[i].owner \in Runners /\ Forward(i) /\ Twice(i)
        /\ i \notin overtaken => Exact(i)
    BY DEF LedgerInv, Undisturbed, ClientInv, Types, Owned
  <2>2. /\ FilledSoFar(i) \in Int /\ ex[i].filled \in Nat
        /\ \A r \in Runners : counted[r][i] \in Int /\ Owed(r, i) \in Int
    BY <2>1, LedgerTypes
  <2>3. \A r \in Runners : Owed(r, i) >= 0
    BY <2>1 DEF Owed, Forward, StreamHas
  <2>4. ASSUME NEW r \in Runners
        PROVE  counted[r][i] <= (IF i \in overtaken THEN 2 ELSE 1) * ex[i].filled
    <3>1. /\ counted[r][i] + Owed(r, i) <= ex[i].filled + FilledSoFar(i)
          /\ FilledSoFar(i) <= ex[i].filled
      BY <2>1 DEF Twice, Forward
    <3>2. CASE i \in overtaken
      BY <2>2, <2>3, <3>1, <3>2
    <3>3. CASE i \notin overtaken
      <4>1. counted[r][i] + Owed(r, i) <= FilledSoFar(i)
        BY <2>1, <3>3 DEF Exact
      <4> QED  BY <2>2, <2>3, <3>1, <3>3, <4>1
    <3> QED  BY <3>2, <3>3
  <2>5. ASSUME i \in DOMAIN orders, i \notin overtaken, ~ Busy(i),
               orders[i].status \in {"Filled", "PartialFill"}
        PROVE  counted[ex[i].owner][i] = orders[i].filled
    <3>1. Owed(ex[i].owner, i) = 0
      BY <2>5, ThreadKinds DEF Busy, Owed
    <3>2. counted[ex[i].owner][i] + Owed(ex[i].owner, i) = FilledSoFar(i)
      BY <2>1, <2>5 DEF Exact, Fills
    <3> QED  BY <2>1, <2>2, <2>5, <3>1, <3>2 DEF FilledSoFar
  <2> QED  BY <2>4, <2>5
<1> QED  BY <1>1, <1>2, <1>3, PTL DEF Spec

\* Even when answers are late or lost, no record ever carries another runner's symbol:
\* concurrent submit()s never share an id, and the stream copies the symbol it finds
\* or none.
THEOREM NoMisrouting == Prior = 0 /\ Spec => []NeverMisrouted
<1> SUFFICES ASSUME Prior = 0 PROVE Spec => []NeverMisrouted
  OBVIOUS
<1>1. Init => LedgerInv
  BY LedgerInit
<1>2. LedgerInv /\ [Next]_vars => LedgerInv'
  BY LedgerStep, NextIsClient
<1>3. LedgerInv => NeverMisrouted
  BY DEF LedgerInv, Routed, NeverMisrouted, Owner
<1> QED  BY <1>1, <1>2, <1>3, PTL DEF Spec

-----------------------------------------------------------------------------
(* From the queue to the position *)

\* Exposure takes OrderClient's steps.
LEMMA ExposureIsClient == TypeOKExposure /\ [NextExposure]_evars => [ClientNext]_vars
<1> SUFFICES ASSUME TypeOKExposure, [NextExposure]_evars PROVE [ClientNext]_vars
  OBVIOUS
<1>1. ASSUME NEW r \in Runners, Enter(r) PROVE ClientNext
  <2>1. Submit(r, BaseQty) /\ BaseQty \in Nat \ {0}
    BY <1>1, ExposureAssumption DEF Enter
  <2> QED  BY <2>1 DEF ClientNext
<1>2. ASSUME NEW r \in Runners, Close(r) PROVE ClientNext
  <2>1. pos[r] \in Int /\ pos[r] # 0 /\ Submit(r, Magnitude(pos[r]))
    BY <1>2 DEF Close, TypeOKExposure
  <2>2. Magnitude(pos[r]) \in Nat \ {0}
    BY <2>1 DEF Magnitude
  <2> QED  BY <2>1, <2>2 DEF ClientNext
<1>3. ASSUME NEW r \in Runners, DispatchUpdate(r) PROVE UNCHANGED vars
  BY <1>3 DEF DispatchUpdate
<1>4. ASSUME NEW t \in Threads, NEW r \in Runners, Callback(t, r) PROVE [ClientNext]_vars
  BY <1>4 DEF Callback, ClientNext
<1>5. ASSUME NEW t \in Threads, Returns(t) PROVE ClientNext
  BY <1>5 DEF Returns, ClientNext
<1>6. CASE Quiet
  BY <1>6 DEF Quiet, ClientNext
<1>7. CASE UNCHANGED evars
  BY <1>7 DEF evars
<1> QED  BY <1>1, <1>2, <1>3, <1>4, <1>5, <1>6, <1>7 DEF NextExposure

\* A callback's two steps: it tells the RiskManager, and pushes.
Tells(t, r) ==
  /\ hand = NoSym /\ CallRunner(t, r) /\ pc[t] = "inside"
  /\ hand' = (IF Takes(r, arg[t].sym) THEN r ELSE NoSym)
  /\ UNCHANGED <<queue, pos, told, refused>>
Pushes(t, r) ==
  /\ hand = r /\ pc[t] = "inside" /\ PushUpdate(t, r) /\ hand' = NoSym
  /\ UNCHANGED vars /\ UNCHANGED <<pos, told>>

\* Which steps touch what lies behind the callback
LEMMA QueueSteps ==
  ASSUME [NextExposure]_evars
  PROVE  \/ UNCHANGED <<queue, pos, told, hand, refused, counted>>
         \/ \E r \in Runners : DispatchUpdate(r)
         \/ \E t \in Threads, r \in Runners : Tells(t, r) \/ Pushes(t, r)
<1>1. ASSUME NEW t \in Threads, NEW r \in Runners, Callback(t, r) PROVE Tells(t, r) \/ Pushes(t, r)
  BY <1>1 DEF Callback, CallRunner, Tells, Pushes
<1>2. ASSUME NEW t \in Threads, Returns(t)
      PROVE  UNCHANGED <<queue, pos, told, hand, refused, counted>>
  BY <1>2 DEF Returns, CallbackEnds, exposure, strategy, history
<1>3. ASSUME NEW r \in Runners, Enter(r) \/ Close(r)
      PROVE  UNCHANGED <<queue, pos, told, hand, refused, counted>>
  BY <1>3 DEF Enter, Close, Submit, strategy, history
<1>4. ASSUME Quiet PROVE UNCHANGED <<queue, pos, told, hand, refused, counted>>
  <2>1. UNCHANGED <<queue, pos, told, hand, refused>>
    BY <1>4 DEF Quiet, exposure, strategy
  <2>2. counted' = counted
    BY <1>4 DEF Quiet, PlaceFails, Accept, Answer, UpsertRead, UpsertWrite, InvokeCallback,
                Subscribe, StreamBreaks, StreamRead, StreamLookup, Fill, Expire, Change, history
  <2> QED  BY <2>1, <2>2
<1>5. CASE UNCHANGED evars
  BY <1>5 DEF evars, vars, exposure, strategy, history
<1> QED  BY <1>1, <1>2, <1>3, <1>4, <1>5 DEF NextExposure

\* While a callback has yet to push, the thread inside it stays where it is, and nobody
\* else gets in.
InHand == hand # NoSym => \E t \in Threads : pc[t] = "inside" /\ Takes(hand, arg[t].sym)

\* What happens to the thread that has cb_mu_ meanwhile
LEMMA HeldSteps ==
  ASSUME ClientInv, InHand, hand # NoSym, [NextExposure]_evars, NEW t \in Threads
  PROVE  /\ pc'[t] = "inside" <=> pc[t] = "inside"
         /\ pc[t] = "inside" => arg'[t] = arg[t] /\ delta'[t] = delta[t]
<1>0. pc \in [Threads -> Pcs] /\ arg \in [Threads -> Args] /\ delta \in [Threads -> Int]
  BY DEF ClientInv, Types
<1> USE <1>0, ThreadKinds
<1> DEFINE Stays == /\ pc'[t] = "inside" <=> pc[t] = "inside"
                    /\ pc[t] = "inside" => arg'[t] = arg[t] /\ delta'[t] = delta[t]
<1>1. CASE UNCHANGED <<pc, arg, delta>>
  BY <1>1
<1>2. ASSUME NEW r \in Runners, Enter(r) \/ Close(r) PROVE Stays
  <2>1. PICK q : Submit(r, q)
    BY <1>2 DEF Enter, Close
  <2> QED  BY <2>1 DEF Submit, Goto
<1>3. ASSUME NEW r \in Runners, PlaceFails(r) \/ Accept(r) PROVE Stays
  BY <1>3 DEF PlaceFails, Accept, Goto
<1>4. ASSUME NEW r \in Runners, Answer(r) PROVE Stays
  BY <1>4 DEF Answer, Goto
<1>5. ASSUME NEW u \in Threads, UpsertRead(u) \/ UpsertWrite(u) PROVE Stays
  BY <1>5 DEF UpsertRead, UpsertWrite, Goto
<1>6. ASSUME NEW u \in Threads, InvokeCallback(u) PROVE FALSE
  BY <1>6 DEF InvokeCallback, InHand
<1>7. CASE StreamRead \/ StreamLookup
  BY <1>7 DEF StreamRead, StreamLookup, Goto
<1>8. ASSUME \/ Subscribe \/ StreamBreaks \/ UNCHANGED evars
             \/ \E i \in DOMAIN ex : Fill(i) \/ Expire(i)
             \/ \E r \in Runners : DispatchUpdate(r)
             \/ \E u \in Threads, r \in Runners : Callback(u, r)
      PROVE  UNCHANGED <<pc, arg, delta>>
  BY <1>8 DEF Subscribe, StreamBreaks, Fill, Expire, Change, DispatchUpdate, Callback,
              evars, vars, client
<1>9. ASSUME NEW u \in Threads, Returns(u) PROVE FALSE
  BY <1>9 DEF Returns
<1> QED
  BY <1>1, <1>2, <1>3, <1>4, <1>5, <1>6, <1>7, <1>8, <1>9 DEF NextExposure, Quiet

\* What drain_queue() does
LEMMA Dispatched ==
  ASSUME TypeOKExposure, NEW r \in Runners, DispatchUpdate(r)
  PROVE  /\ UNCHANGED vars /\ UNCHANGED <<side, hand, refused>>
         /\ queue[r] \in Seq(Update) /\ queue[r] # <<>> /\ Head(queue[r]) \in Update
         /\ queue' = [queue EXCEPT ![r] = Tail(queue[r])]
         /\ pos' \in [Runners -> Int]
         /\ told' = IF Head(queue[r]).status = "Filled"
                    THEN [told EXCEPT ![r][Head(queue[r]).id] = @ + Head(queue[r]).qty] ELSE told
<1>1. queue[r] \in Seq(Update) /\ queue[r] # <<>>
  BY DEF TypeOKExposure, DispatchUpdate
<1>2. Head(queue[r]) \in Update
  BY <1>1
<1>3. side[Head(queue[r]).id] \in Int /\ Head(queue[r]).qty \in Int /\ pos \in [Runners -> Int]
  <2>1. Head(queue[r]).id \in Ids /\ Head(queue[r]).qty \in Int
    BY <1>2 DEF Update
  <2>2. side \in [Ids -> {-1, 0, 1}] /\ pos \in [Runners -> Int]
    BY DEF TypeOKExposure
  <2>3. side[Head(queue[r]).id] \in {-1, 0, 1}
    BY <2>1, <2>2
  <2> QED  BY <2>1, <2>2, <2>3
<1>4. pos' = pos \/ pos' = [pos EXCEPT ![r] = @ + side[Head(queue[r]).id] * Head(queue[r]).qty]
  BY DEF DispatchUpdate
<1>5. side[Head(queue[r]).id] * Head(queue[r]).qty \in Int
  BY <1>3
<1>6. pos' \in [Runners -> Int]
  BY <1>3, <1>4, <1>5
<1> QED  BY <1>1, <1>2, <1>6 DEF DispatchUpdate

\* The update every callback is given
Pushed(t) == [id |-> arg[t].id, status |-> arg[t].status, qty |-> delta[t]]

\* The thread inside the callbacks has an order's update.
LEMMA UpdateInside ==
  ASSUME ClientInv, NEW t \in Threads, pc[t] = "inside"
  PROVE  arg[t].id \in Ids /\ Pushed(t) \in Update /\ delta[t] \in Int
<1>0. arg[t] \in Args /\ delta[t] \in Int
  BY DEF ClientInv, Types
<1>1. arg[t].id \in Ids
  <2>1. CASE t \in Runners
    BY <2>1, OrderAssumption DEF ClientInv, Types, Holds, Ids
  <2>2. CASE t = Stream
    BY <2>2 DEF ClientInv, Holds
  <2> QED  BY <2>1, <2>2, ThreadKinds
<1> QED  BY <1>0, <1>1 DEF Pushed, Update, Args

\* What telling does
LEMMA Told ==
  ASSUME ClientInv, NEW t \in Threads, NEW r \in Runners, Tells(t, r)
  PROVE  /\ UNCHANGED <<orders, ex, pc, arg, delta, overtaken>>
         /\ \A q \in Runners : \A i \in Ids :
              counted'[q][i] = IF q = r /\ Takes(r, arg[t].sym) /\ IsFill(t) /\ i = arg[t].id
                               THEN counted[q][i] + delta[t] ELSE counted[q][i]
<1>1. counted \in [Runners -> [Ids -> Int]] /\ CallRunner(t, r)
  BY DEF ClientInv, Types, Tells
<1>2. \A q \in Runners : \A i \in Ids :
        counted'[q][i] = IF q = r /\ Takes(r, arg[t].sym) /\ IsFill(t) /\ i = arg[t].id
                         THEN counted[q][i] + delta[t] ELSE counted[q][i]
  BY <1>1 DEF CallRunner
<1> QED  BY <1>1, <1>2 DEF CallRunner, exchange

\* What pushing does
LEMMA PushedTo ==
  ASSUME TypeOKExposure, ClientInv, NEW t \in Threads, NEW r \in Runners, Pushes(t, r)
  PROVE  /\ queue' \in [Runners -> Seq(Update)] /\ refused' \in [Runners -> SUBSET Ids]
         /\ \A q \in Runners : refused[q] \subseteq refused'[q]
         /\ \A q \in Runners : q # r => queue'[q] = queue[q]
         /\ \/ queue'[r] = Append(queue[r], Pushed(t))
            \/ queue'[r] = queue[r] /\ arg[t].id \in refused'[r]
<1>0. queue \in [Runners -> Seq(Update)] /\ refused \in [Runners -> SUBSET Ids]
  BY DEF TypeOKExposure
<1>1. arg[t].id \in Ids /\ Pushed(t) \in Update
  BY UpdateInside DEF Pushes
<1>2. \/ queue' = [queue EXCEPT ![r] = Append(queue[r], Pushed(t))] /\ refused' = refused
      \/ refused' = [refused EXCEPT ![r] = refused[r] \cup {arg[t].id}] /\ queue' = queue
  BY DEF Pushes, PushUpdate, Pushed
<1>3. Append(queue[r], Pushed(t)) \in Seq(Update)
  BY <1>0, <1>1, AppendProperties
<1>4. queue' \in [Runners -> Seq(Update)] /\ refused' \in [Runners -> SUBSET Ids]
  BY <1>0, <1>1, <1>2, <1>3
<1> QED  BY <1>0, <1>2, <1>4

\* Nothing queued, held or counted yet
LEMMA ExposureInit == InitExposure => TypeOKExposure /\ ClientInv /\ InHand
<1> SUFFICES ASSUME InitExposure PROVE TypeOKExposure /\ ClientInv /\ InHand
  OBVIOUS
<1>1. ClientInv /\ InHand
  BY ClientInit DEF InitExposure, InHand
<1>2. /\ side \in [Ids -> {-1, 0, 1}] /\ pos \in [Runners -> Int]
      /\ told \in [Runners -> [Ids -> Int]]
      /\ refused \in [Runners -> SUBSET Ids] /\ hand \in Runners \cup {NoSym}
  BY DEF InitExposure
<1>3. queue \in [Runners -> Seq(Update)]
  BY DEF InitExposure
<1> QED  BY <1>1, <1>2, <1>3, TypesOf DEF TypeOKExposure, ClientInv

\* Every step keeps the types.
LEMMA ExposureStep ==
  TypeOKExposure /\ ClientInv /\ InHand /\ [NextExposure]_evars
    => TypeOKExposure' /\ ClientInv' /\ InHand'
<1> SUFFICES ASSUME TypeOKExposure, ClientInv, InHand, [NextExposure]_evars
             PROVE  TypeOKExposure' /\ ClientInv' /\ InHand'
  OBVIOUS
<1>1. ClientInv' /\ TypeOK'
  <2>1. ClientInv'
    BY ClientStep, ExposureIsClient
  <2>2. Types'
    BY <2>1 DEF ClientInv
  <2> QED  BY <2>1, <2>2 DEF Types, TypeOK, Pcs, Args, Reports, ExOrders
<1>2. side' \in [Ids -> {-1, 0, 1}]
  <2>1. ASSUME NEW r \in Runners, Enter(r) \/ Close(r) PROVE side' \in [Ids -> {-1, 0, 1}]
    <3>1. PICK s \in {-1, 1} : side' = [side EXCEPT ![nextId] = s]
      BY <2>1, ExposureAssumption DEF Enter, Close
    <3> QED  BY <3>1 DEF TypeOKExposure
  <2>2. UNCHANGED side \/ \E r \in Runners : Enter(r) \/ Close(r)
    BY DEF NextExposure, DispatchUpdate, Callback, Returns, Quiet, exposure, evars
  <2> QED  BY <2>1, <2>2 DEF TypeOKExposure
<1>3. InHand' /\ hand' \in Runners \cup {NoSym}
  <2>1. ASSUME UNCHANGED hand PROVE InHand' /\ hand' \in Runners \cup {NoSym}
    <3>1. hand \in Runners \cup {NoSym}
      BY DEF TypeOKExposure
    <3>2. ASSUME hand # NoSym PROVE \E t \in Threads : pc'[t] = "inside" /\ Takes(hand, arg'[t].sym)
      <4>1. PICK t \in Threads : pc[t] = "inside" /\ Takes(hand, arg[t].sym)
        BY <3>2 DEF InHand
      <4> QED  BY <3>2, <4>1, HeldSteps
    <3> QED  BY <2>1, <3>1, <3>2 DEF InHand, Takes
  <2>2. ASSUME NEW t \in Threads, NEW r \in Runners, Tells(t, r)
        PROVE  InHand' /\ hand' \in Runners \cup {NoSym}
    BY <2>2, Told DEF Tells, InHand, Takes
  <2>3. ASSUME NEW t \in Threads, NEW r \in Runners, Pushes(t, r)
        PROVE  InHand' /\ hand' \in Runners \cup {NoSym}
    BY <2>3 DEF Pushes, InHand
  <2>4. ASSUME NEW r \in Runners, DispatchUpdate(r) PROVE UNCHANGED hand
    BY <2>4 DEF DispatchUpdate
  <2> QED  BY <2>1, <2>2, <2>3, <2>4, QueueSteps
<1>4. /\ queue' \in [Runners -> Seq(Update)] /\ pos' \in [Runners -> Int]
      /\ told' \in [Runners -> [Ids -> Int]] /\ refused' \in [Runners -> SUBSET Ids]
  <2>1. CASE UNCHANGED <<queue, pos, told, refused>>
    BY <2>1 DEF TypeOKExposure
  <2>2. ASSUME NEW t \in Threads, NEW r \in Runners, Pushes(t, r)
        PROVE  /\ queue' \in [Runners -> Seq(Update)] /\ pos' \in [Runners -> Int]
               /\ told' \in [Runners -> [Ids -> Int]] /\ refused' \in [Runners -> SUBSET Ids]
    BY <2>2, PushedTo DEF TypeOKExposure, Pushes
  <2>3. ASSUME NEW r \in Runners, DispatchUpdate(r)
        PROVE  /\ queue' \in [Runners -> Seq(Update)] /\ pos' \in [Runners -> Int]
               /\ told' \in [Runners -> [Ids -> Int]] /\ refused' \in [Runners -> SUBSET Ids]
    <3>1. Head(queue[r]) \in Update /\ Tail(queue[r]) \in Seq(Update)
      BY <2>3, Dispatched
    <3>2. Head(queue[r]).id \in Ids /\ Head(queue[r]).qty \in Int
      BY <3>1 DEF Update
    <3>3. told' \in [Runners -> [Ids -> Int]]
      <4>1. told \in [Runners -> [Ids -> Int]]
        BY DEF TypeOKExposure
      <4>2. \/ told' = told
            \/ told' = [told EXCEPT ![r][Head(queue[r]).id] = @ + Head(queue[r]).qty]
        BY <2>3, Dispatched
      <4>3. [told[r] EXCEPT ![Head(queue[r]).id] = @ + Head(queue[r]).qty] \in [Ids -> Int]
        BY <3>2, <4>1
      <4> QED  BY <4>1, <4>2, <4>3
    <3>4. queue' \in [Runners -> Seq(Update)]
      <4>1. queue' = [queue EXCEPT ![r] = Tail(queue[r])] /\ queue \in [Runners -> Seq(Update)]
        BY <2>3, Dispatched DEF TypeOKExposure
      <4> QED  BY <3>1, <4>1
    <3>5. pos' \in [Runners -> Int] /\ refused' = refused
      BY <2>3, Dispatched
    <3> QED  BY <3>3, <3>4, <3>5 DEF TypeOKExposure
  <2> QED  BY <2>1, <2>2, <2>3, QueueSteps DEF Tells
<1> QED  BY <1>1, <1>2, <1>3, <1>4 DEF TypeOKExposure

\* What an update will add to the position
Adds(u, i) == IF u.id = i /\ u.status = "Filled" THEN u.qty ELSE 0

\* However far the strategy gets with a queue q, from n on, it stays behind c: f has
\* what it will have been told after so many updates.
Behind(q, i, n, c) ==
  \E f \in [0..Len(q) -> Int] :
    /\ f[0] = n
    /\ \A k \in 1..Len(q) : f[k] = f[k - 1] + Adds(q[k], i)
    /\ \A k \in 0..Len(q) : f[k] <= c

\* The same without the fill that is told of and has yet to be pushed
BehindInv ==
  /\ TypeOKExposure /\ ClientInv /\ InHand
  /\ \A r \in Runners, i \in Ids :
       /\ Behind(queue[r], i, told[r][i], counted[r][i])
       /\ \A t \in Threads : hand = r /\ pc[t] = "inside" /\ arg[t].id = i /\ IsFill(t) =>
            Behind(queue[r], i, told[r][i], counted[r][i] - delta[t])

\* It is a number.
LEMMA AddsInt == ASSUME NEW u \in Update, NEW i PROVE Adds(u, i) \in Int
BY DEF Adds, Update

\* The RiskManager hears of more.
LEMMA BehindMore ==
  ASSUME NEW q \in Seq(Update), NEW i, NEW n, NEW c \in Int, NEW d \in Int, c <= d,
         Behind(q, i, n, c)
  PROVE  Behind(q, i, n, d)
<1>1. PICK f \in [0..Len(q) -> Int] :
        /\ f[0] = n
        /\ \A k \in 1..Len(q) : f[k] = f[k - 1] + Adds(q[k], i)
        /\ \A k \in 0..Len(q) : f[k] <= c
  BY DEF Behind
<1>2. ASSUME NEW k \in 0..Len(q) PROVE f[k] <= d
  <2>1. f[k] \in Int /\ f[k] <= c
    BY <1>1
  <2> QED  BY <2>1
<1> QED  BY <1>1, <1>2 DEF Behind

\* The strategy takes an update.
LEMMA BehindTail ==
  ASSUME NEW q \in Seq(Update), q # <<>>, NEW i, NEW n \in Int, NEW c \in Int, Behind(q, i, n, c)
  PROVE  Behind(Tail(q), i, n + Adds(Head(q), i), c)
<1>1. PICK f \in [0..Len(q) -> Int] :
        /\ f[0] = n
        /\ \A k \in 1..Len(q) : f[k] = f[k - 1] + Adds(q[k], i)
        /\ \A k \in 0..Len(q) : f[k] <= c
  BY DEF Behind
<1>2. /\ Len(q) \in Nat /\ Len(q) > 0 /\ Len(Tail(q)) = Len(q) - 1 /\ Head(q) = q[1]
      /\ \A k \in 1..Len(Tail(q)) : Tail(q)[k] = q[k + 1]
  OBVIOUS
<1> DEFINE g == [k \in 0..Len(Tail(q)) |-> f[k + 1]]
<1>3. g \in [0..Len(Tail(q)) -> Int] /\ g[0] = n + Adds(Head(q), i)
  BY <1>1, <1>2
<1>4. ASSUME NEW k \in 1..Len(Tail(q)) PROVE g[k] = g[k - 1] + Adds(Tail(q)[k], i)
  <2>1. g[k] = f[k + 1] /\ g[k - 1] = f[k] /\ k + 1 \in 1..Len(q) /\ (k + 1) - 1 = k
    BY <1>2
  <2> QED  BY <1>1, <1>2, <2>1
<1>5. \A k \in 0..Len(Tail(q)) : g[k] <= c
  BY <1>1, <1>2
<1> HIDE DEF g
<1> QED  BY <1>3, <1>4, <1>5 DEF Behind

\* A callback that has counted pushes.
LEMMA BehindAppend ==
  ASSUME NEW q \in Seq(Update), NEW u \in Update, NEW i, NEW n \in Int,
         NEW c \in Int, NEW d \in Int, c <= d, c + Adds(u, i) <= d, Behind(q, i, n, c)
  PROVE  Behind(Append(q, u), i, n, d)
<1>1. PICK f \in [0..Len(q) -> Int] :
        /\ f[0] = n
        /\ \A k \in 1..Len(q) : f[k] = f[k - 1] + Adds(q[k], i)
        /\ \A k \in 0..Len(q) : f[k] <= c
  BY DEF Behind
<1> DEFINE p == Append(q, u)
<1>2. /\ Len(q) \in Nat /\ Len(p) = Len(q) + 1 /\ p[Len(q) + 1] = u
      /\ \A k \in 1..Len(q) : p[k] = q[k]
  OBVIOUS
<1> HIDE DEF p
<1>3. Adds(u, i) \in Int
  BY AddsInt
<1> DEFINE g == [k \in 0..Len(p) |-> IF k <= Len(q) THEN f[k] ELSE f[Len(q)] + Adds(u, i)]
<1>4. g \in [0..Len(p) -> Int] /\ g[0] = n
  BY <1>1, <1>2, <1>3
<1>5. ASSUME NEW k \in 1..Len(p) PROVE g[k] = g[k - 1] + Adds(p[k], i)
  <2>1. CASE k <= Len(q)
    BY <1>1, <1>2, <2>1
  <2>2. CASE k = Len(q) + 1
    <3>1. g[k] = f[Len(q)] + Adds(u, i) /\ g[k - 1] = f[Len(q)] /\ p[k] = u
      BY <1>2, <2>2
    <3> QED  BY <3>1
  <2> QED  BY <1>2, <2>1, <2>2
<1>6. ASSUME NEW k \in 0..Len(p) PROVE g[k] <= d
  <2>1. f[Len(q)] \in Int /\ f[Len(q)] <= c /\ (k <= Len(q) => f[k] \in Int /\ f[k] <= c)
    BY <1>1, <1>2
  <2> QED  BY <1>2, <1>3, <2>1
<1> HIDE DEF g
<1> QED  BY <1>4, <1>5, <1>6 DEF Behind, p

\* The queue of a runner when its strategy thread takes an update
LEMMA BehindDispatch ==
  ASSUME TypeOKExposure, NEW q \in Runners, DispatchUpdate(q), NEW r \in Runners, NEW i \in Ids,
         NEW c \in Int, Behind(queue[r], i, told[r][i], c)
  PROVE  Behind(queue'[r], i, told'[r][i], c)
<1>0. /\ queue[r] \in Seq(Update) /\ told[r][i] \in Int
      /\ queue \in [Runners -> Seq(Update)] /\ told \in [Runners -> [Ids -> Int]]
  BY DEF TypeOKExposure
<1>1. CASE q = r
  <2>1. /\ queue[r] # <<>> /\ Head(queue[r]) \in Update /\ queue'[r] = Tail(queue[r])
        /\ told' = IF Head(queue[r]).status = "Filled"
                   THEN [told EXCEPT ![r][Head(queue[r]).id] = @ + Head(queue[r]).qty] ELSE told
    BY <1>0, <1>1, Dispatched
  <2>2. told'[r][i] = told[r][i] + Adds(Head(queue[r]), i)
    BY <1>0, <2>1 DEF Adds, Update
  <2> QED  BY <1>0, <2>1, <2>2, BehindTail
<1>2. CASE q # r
  <2>1. queue'[r] = queue[r] /\ told'[r] = told[r]
    BY <1>0, <1>2, Dispatched
  <2> QED  BY <1>0, <2>1
<1> QED  BY <1>1, <1>2

\* Every step keeps the strategy behind.
LEMMA BehindStep == BehindInv /\ [NextExposure]_evars => BehindInv'
<1> SUFFICES ASSUME BehindInv, [NextExposure]_evars, NEW r \in Runners, NEW i \in Ids
             PROVE  /\ Behind(queue'[r], i, told'[r][i], counted'[r][i])
                    /\ \A t \in Threads :
                         hand' = r /\ pc'[t] = "inside" /\ arg'[t].id = i /\ IsFill(t)' =>
                           Behind(queue'[r], i, told'[r][i], counted'[r][i] - delta'[t])
  BY ExposureStep DEF BehindInv
<1> TypeOKExposure /\ ClientInv /\ InHand
  BY DEF BehindInv
<1>0. /\ queue[r] \in Seq(Update) /\ told[r][i] \in Int /\ counted[r][i] \in Int
      /\ Behind(queue[r], i, told[r][i], counted[r][i])
      /\ \A t \in Threads : delta[t] \in Int
      /\ r # NoSym
  BY OrderAssumption DEF BehindInv, TypeOKExposure, ClientInv, Types
<1>1. ASSUME NEW t \in Threads, hand = r, pc[t] = "inside", arg[t].id = i, IsFill(t)
      PROVE  Behind(queue[r], i, told[r][i], counted[r][i] - delta[t])
  BY <1>1 DEF BehindInv
<1>2. ASSUME UNCHANGED <<queue, pos, told, hand, refused, counted>>,
             NEW t \in Threads, hand' = r, pc'[t] = "inside", arg'[t].id = i, IsFill(t)'
      PROVE  Behind(queue'[r], i, told'[r][i], counted'[r][i] - delta'[t])
  <2>1. pc[t] = "inside" /\ arg'[t] = arg[t] /\ delta'[t] = delta[t]
    BY <1>0, <1>2, HeldSteps
  <2> QED  BY <1>1, <1>2, <2>1 DEF IsFill
<1>3. ASSUME NEW q \in Runners, DispatchUpdate(q)
      PROVE  /\ Behind(queue'[r], i, told'[r][i], counted'[r][i])
             /\ \A t \in Threads :
                  hand' = r /\ pc'[t] = "inside" /\ arg'[t].id = i /\ IsFill(t)' =>
                    Behind(queue'[r], i, told'[r][i], counted'[r][i] - delta'[t])
  <2>1. UNCHANGED <<counted, hand, pc, arg, delta>>
    BY <1>3 DEF DispatchUpdate, vars, client, history
  <2>2. Behind(queue'[r], i, told'[r][i], counted[r][i])
    BY <1>0, <1>3, BehindDispatch
  <2>3. ASSUME NEW t \in Threads, hand = r, pc[t] = "inside", arg[t].id = i, IsFill(t)
        PROVE  Behind(queue'[r], i, told'[r][i], counted[r][i] - delta[t])
    <3>1. counted[r][i] - delta[t] \in Int
      BY <1>0
    <3> QED  BY <1>1, <1>3, <2>3, <3>1, BehindDispatch
  <2> QED  BY <2>1, <2>2, <2>3 DEF IsFill
<1>4. ASSUME NEW t \in Threads, NEW q \in Runners, Tells(t, q)
      PROVE  /\ Behind(queue'[r], i, told'[r][i], counted'[r][i])
             /\ \A u \in Threads :
                  hand' = r /\ pc'[u] = "inside" /\ arg'[u].id = i /\ IsFill(u)' =>
                    Behind(queue'[r], i, told'[r][i], counted'[r][i] - delta'[u])
  <2>1. /\ UNCHANGED <<queue, told, pc, arg, delta>> /\ pc[t] = "inside"
        /\ counted'[r][i] = IF r = q /\ Takes(q, arg[t].sym) /\ IsFill(t) /\ i = arg[t].id
                            THEN counted[r][i] + delta[t] ELSE counted[r][i]
        /\ hand' = IF Takes(q, arg[t].sym) THEN q ELSE NoSym
    BY <1>4, Told DEF Tells
  <2>2. counted'[r][i] \in Int /\ counted[r][i] <= counted'[r][i]
    BY <1>0, <2>1 DEF IsFill
  <2>3. Behind(queue[r], i, told[r][i], counted'[r][i])
    BY <1>0, <2>2, BehindMore
  <2>4. ASSUME NEW u \in Threads, hand' = r, pc[u] = "inside", arg[u].id = i, IsFill(u)
        PROVE  counted'[r][i] - delta[u] = counted[r][i]
    <3>1. u = t
      BY <2>1, <2>4 DEF ClientInv, Holds
    <3>2. q = r /\ Takes(q, arg[t].sym)
      BY <1>0, <2>1, <2>4
    <3> QED  BY <1>0, <2>1, <2>4, <3>1, <3>2
  <2> QED  BY <1>0, <2>1, <2>3, <2>4 DEF IsFill
<1>5. ASSUME NEW t \in Threads, NEW q \in Runners, Pushes(t, q)
      PROVE  Behind(queue'[r], i, told'[r][i], counted'[r][i]) /\ hand' # r
  <2>1. /\ counted' = counted /\ told' = told /\ hand' = NoSym /\ hand = q /\ pc[t] = "inside"
    BY <1>5 DEF Pushes, vars, history
  <2>2. CASE queue'[r] = queue[r]
    BY <1>0, <2>1, <2>2
  <2>3. CASE q = r /\ queue'[r] = Append(queue[r], Pushed(t))
    <3>1. Pushed(t) \in Update /\ delta[t] \in Int
      BY <2>1, UpdateInside
    <3>2. CASE arg[t].id = i /\ IsFill(t)
      <4>1. Behind(queue[r], i, told[r][i], counted[r][i] - delta[t])
        BY <1>1, <2>1, <2>3, <3>2
      <4>2. /\ counted[r][i] - delta[t] \in Int /\ counted[r][i] - delta[t] <= counted[r][i]
            /\ (counted[r][i] - delta[t]) + Adds(Pushed(t), i) <= counted[r][i]
        BY <1>0, <3>1, <3>2 DEF Adds, Pushed, IsFill
      <4> QED  BY <1>0, <2>1, <2>3, <3>1, <4>1, <4>2, BehindAppend
    <3>3. CASE ~ (arg[t].id = i /\ IsFill(t))
      <4>1. counted[r][i] + Adds(Pushed(t), i) <= counted[r][i] /\ counted[r][i] <= counted[r][i]
        BY <1>0, <3>1, <3>3 DEF Adds, Pushed, IsFill
      <4> QED  BY <1>0, <2>1, <2>3, <3>1, <4>1, BehindAppend
    <3> QED  BY <3>2, <3>3
  <2> QED  BY <1>0, <1>5, <2>1, <2>2, <2>3, PushedTo
<1> QED  BY <1>0, <1>2, <1>3, <1>4, <1>5, QueueSteps

\* Exposure keeps its types.
THEOREM ExposureTyped == SpecExposure => []TypeOKExposure
<1> DEFINE I == TypeOKExposure /\ ClientInv /\ InHand
<1>1. InitExposure => I
  BY ExposureInit
<1>2. I /\ [NextExposure]_evars => I'
  BY ExposureStep
<1>3. I => TypeOKExposure
  OBVIOUS
<1> QED  BY <1>1, <1>2, <1>3, PTL DEF SpecExposure

\* strategy_runner.hpp:84 -- for any interleaving of reports, answers, callbacks and the
\* strategy threads, with orders of an earlier run too, the strategy's position never
\* holds a contract the RiskManager has not heard of: on_fill() comes before the push.
THEOREM RiskHearsFirst == SpecExposure => []StrategyBehindRisk
<1>1. InitExposure => BehindInv
  <2> SUFFICES ASSUME InitExposure, NEW r \in Runners, NEW i \in Ids
               PROVE  Behind(queue[r], i, told[r][i], counted[r][i]) /\ hand # r
    BY ExposureInit DEF BehindInv
  <2>1. Len(queue[r]) = 0 /\ told[r][i] = 0 /\ counted[r][i] = 0 /\ hand # r
    BY OrderAssumption DEF InitExposure, Init
  <2> DEFINE f == [k \in 0..0 |-> 0]
  <2>2. f \in [0..Len(queue[r]) -> Int] /\ f[0] = 0
    BY <2>1
  <2> HIDE DEF f
  <2> QED  BY <2>1, <2>2 DEF Behind
<1>2. BehindInv /\ [NextExposure]_evars => BehindInv'
  BY BehindStep
<1>3. BehindInv => StrategyBehindRisk
  <2> SUFFICES ASSUME BehindInv, NEW r \in Runners, NEW i \in Ids
               PROVE  told[r][i] <= counted[r][i]
    BY DEF StrategyBehindRisk
  <2>1. PICK f \in [0..Len(queue[r]) -> Int] :
          f[0] = told[r][i] /\ \A k \in 0..Len(queue[r]) : f[k] <= counted[r][i]
    BY DEF BehindInv, Behind
  <2>2. 0 \in 0..Len(queue[r])
    BY DEF BehindInv, TypeOKExposure
  <2> QED  BY <2>1, <2>2
<1> QED  BY <1>1, <1>2, <1>3, PTL DEF SpecExposure

-----------------------------------------------------------------------------
(* One-lot orders, up to the position *)

\* A one-lot order that has a fill is filled.
OneLot ==
  /\ \A i \in DOMAIN ex :
       /\ ex[i].status \in Live => ex[i].filled < ex[i].qty
       /\ ex[i].qty = 1 => ex[i].filled = 0 \/ (ex[i].filled = 1 /\ ex[i].status = "FILLED")
  /\ \A k \in 1..Len(wire) :
       ex[wire[k].id].qty = 1 => wire[k].filled = 0 \/ (wire[k].filled = 1 /\ wire[k].status = "FILLED")
  /\ pc[Stream] # "idle" /\ ex[arg[Stream].id].qty = 1 =>
       arg[Stream].filled = 0 \/ (arg[Stream].filled = 1 /\ arg[Stream].status = "Filled")
  /\ \A i \in DOMAIN orders :
       ex[i].qty = 1 => orders[i].filled = 0 \/ (orders[i].filled = 1 /\ orders[i].status = "Filled")

\* No strategy has heard of an order the exchange does not know.
Untold ==
  \A i \in Ids \ DOMAIN ex : \A r \in Runners :
    told[r][i] = 0 /\ \A k \in 1..Len(queue[r]) : queue[r][k].id # i

\* The updates of a queue that will move the position
Moving(q, i) == {k \in 1..Len(q) : Adds(q[k], i) # 0}

\* The callback of r has no fill of the order to push,
Empty(r, i) == \A t \in Threads : hand = r /\ pc[t] = "inside" => Adds(Pushed(t), i) = 0

\* The fill of a one-lot order is where it belongs, or there is none yet;
Done(r, i) == Moving(queue[r], i) = {} /\ told[r][i] = counted[r][i] /\ Empty(r, i)

\* it waits in the queue; or the callback has it.
Queued(r, i) ==
  /\ \E k \in 1..Len(queue[r]) : Moving(queue[r], i) = {k} /\ queue[r][k].qty = 1
  /\ told[r][i] = 0 /\ counted[r][i] = 1 /\ Empty(r, i)
Held(r, i) ==
  /\ hand = r /\ \E t \in Threads : pc[t] = "inside" /\ Adds(Pushed(t), i) = 1
  /\ Moving(queue[r], i) = {} /\ told[r][i] = 0 /\ counted[r][i] = 1

\* One of the three, for every order no report overtook and no queue refused
Carried ==
  \A i \in DOMAIN ex \ overtaken :
    ex[i].qty = 1 /\ i \notin refused[ex[i].owner] =>
      Done(ex[i].owner, i) \/ Queued(ex[i].owner, i) \/ Held(ex[i].owner, i)

SettlingInv ==
  TypeOKExposure /\ InHand /\ LedgerInv /\ OneLot /\ Untold /\ Carried

\* Every step keeps one-lot orders whole.
LEMMA OneLotStep ==
  ClientInv /\ Owned /\ InOrder /\ Plain /\ Routed /\ OneLot /\ [ClientNext]_vars => OneLot'
<1> SUFFICES ASSUME ClientInv, Owned, InOrder, Plain, Routed, OneLot, [ClientNext]_vars PROVE OneLot'
  OBVIOUS
<1>0. /\ wire \in Seq(Reports) /\ \A i \in DOMAIN ex : ex[i].filled \in Nat /\ ex[i].qty \in Nat
      /\ pc \in [Threads -> Pcs] /\ arg \in [Threads -> Args]
  BY DEF ClientInv, Types, ExOrders
<1>1. ASSUME NEW i \in DOMAIN ex'
      PROVE  /\ ex'[i].status \in Live => ex'[i].filled < ex'[i].qty
             /\ ex'[i].qty = 1 => ex'[i].filled = 0 \/ (ex'[i].filled = 1 /\ ex'[i].status = "FILLED")
  <2>1. CASE i \in DOMAIN ex
    <3>1. GoesOn(i)
      BY <2>1, ExEffect
    <3> QED  BY <1>0, <2>1, <3>1 DEF GoesOn, OneLot, Live
  <2>2. ASSUME NEW r \in Runners, Arrives(i, r)
        PROVE  /\ ex'[i].status \in Live => ex'[i].filled < ex'[i].qty
               /\ ex'[i].qty = 1 => ex'[i].filled = 0
    BY <2>2 DEF Arrives, ClientInv, Holds
  <2> QED  BY <2>1, <2>2, ExEffect
<1>2. \A i \in DOMAIN ex : ex'[i].qty = ex[i].qty
  BY ExEffect DEF GoesOn
<1>3. ASSUME NEW k \in 1..Len(wire'), ex'[wire'[k].id].qty = 1
      PROVE  wire'[k].filled = 0 \/ (wire'[k].filled = 1 /\ wire'[k].status = "FILLED")
  <2>1. CASE JustSent(wire'[k])
    <3>1. wire'[k].id \in DOMAIN ex' /\ wire'[k] = Report(wire'[k].id, ex'[wire'[k].id])
      BY <2>1 DEF JustSent
    <3>2. wire'[k].status = ex'[wire'[k].id].status /\ wire'[k].filled = ex'[wire'[k].id].filled
      BY <3>1 DEF Report
    <3> QED  BY <1>1, <1>3, <3>1, <3>2
  <2>2. ASSUME NEW j \in 1..Len(wire), wire'[k] = wire[j]
        PROVE  wire'[k].filled = 0 \/ (wire'[k].filled = 1 /\ wire'[k].status = "FILLED")
    <3>1. wire[j].id \in DOMAIN ex
      BY DEF InOrder, OnTheWay
    <3> QED  BY <1>2, <1>3, <2>2, <3>1 DEF OneLot
  <2> QED  BY <2>1, <2>2, WireEffect
<1>4. ASSUME pc'[Stream] # "idle", ex'[arg'[Stream].id].qty = 1
      PROVE  arg'[Stream].filled = 0 \/ (arg'[Stream].filled = 1 /\ arg'[Stream].status = "Filled")
  <2>1. CASE StreamKeeps
    <3>1. arg[Stream].id \in DOMAIN ex /\ pc[Stream] # "idle"
      BY <2>1 DEF StreamKeeps, InOrder
    <3> QED  BY <1>2, <1>4, <2>1, <3>1 DEF StreamKeeps, OneLot
  <2>2. CASE StreamTakes
    <3>1. Head(wire) = wire[1] /\ 1 \in 1..Len(wire)
      BY <1>0, <2>2 DEF StreamTakes
    <3>2. wire[1].id \in DOMAIN ex
      BY <3>1 DEF InOrder, OnTheWay
    <3> QED  BY <1>2, <1>4, <2>2, <3>1, <3>2, MapStatusOf DEF StreamTakes, OneLot
  <2> QED  BY <1>4, <2>1, <2>2, StreamEffect
<1>5. ASSUME NEW i \in DOMAIN orders', ex'[i].qty = 1
      PROVE  orders'[i].filled = 0 \/ (orders'[i].filled = 1 /\ orders'[i].status = "Filled")
  <2>1. CASE Unwritten(i)
    BY <1>2, <1>5, <2>1 DEF Unwritten, Routed, OneLot
  <2>2. ASSUME NEW t \in Threads, Writer(t, i), pc[t] = "write",
               orders'[i].status = arg[t].status, orders'[i].filled = arg[t].filled
        PROVE  orders'[i].filled = 0 \/ (orders'[i].filled = 1 /\ orders'[i].status = "Filled")
    <3>1. arg[t].id = i /\ i \in DOMAIN ex
      BY <2>2, KnownOrder DEF Writer
    <3>2. CASE t \in Runners
      BY <2>2, <3>2 DEF Plain
    <3>3. CASE t = Stream
      BY <1>2, <1>5, <2>2, <3>1, <3>3 DEF OneLot
    <3> QED  BY <3>2, <3>3, ThreadKinds
  <2> QED  BY <2>1, <2>2, Records
<1> QED  BY <1>1, <1>3, <1>4, <1>5 DEF OneLot

\* Every step keeps unknown orders from the strategies.
LEMMA UntoldStep ==
  TypeOKExposure /\ ClientInv /\ Owned /\ InOrder /\ Untold /\ [NextExposure]_evars => Untold'
<1> SUFFICES ASSUME TypeOKExposure, ClientInv, Owned, InOrder, Untold, [NextExposure]_evars,
                    NEW i \in Ids \ DOMAIN ex', NEW r \in Runners
             PROVE  told'[r][i] = 0 /\ \A k \in 1..Len(queue'[r]) : queue'[r][k].id # i
  BY DEF Untold
<1>c. [ClientNext]_vars
  BY ExposureIsClient
<1>0. queue \in [Runners -> Seq(Update)] /\ told \in [Runners -> [Ids -> Int]]
  BY DEF TypeOKExposure
<1>1. i \notin DOMAIN ex
  BY <1>c, ExEffect DEF GoesOn
<1>2. told[r][i] = 0 /\ \A k \in 1..Len(queue[r]) : queue[r][k].id # i
  BY <1>1 DEF Untold
<1>3. CASE UNCHANGED <<queue, told>>
  BY <1>2, <1>3
<1>4. ASSUME NEW q \in Runners, DispatchUpdate(q)
      PROVE  told'[r][i] = 0 /\ \A k \in 1..Len(queue'[r]) : queue'[r][k].id # i
  <2>1. /\ queue' = [queue EXCEPT ![q] = Tail(queue[q])]
        /\ queue[q] \in Seq(Update) /\ queue[q] # <<>> /\ Head(queue[q]) \in Update
        /\ told' = IF Head(queue[q]).status = "Filled"
                   THEN [told EXCEPT ![q][Head(queue[q]).id] = @ + Head(queue[q]).qty] ELSE told
    BY <1>4, Dispatched
  <2>2. CASE r = q
    <3>1. queue'[r] = Tail(queue[r])
      BY <1>0, <2>1, <2>2
    <3>2. /\ Head(queue[r]) = queue[r][1] /\ 1 \in 1..Len(queue[r])
          /\ \A k \in 1..Len(Tail(queue[r])) :
               k + 1 \in 1..Len(queue[r]) /\ Tail(queue[r])[k] = queue[r][k + 1]
      BY <2>1, <2>2
    <3>3. Head(queue[r]).id # i /\ Head(queue[r]).id \in Ids
      BY <1>2, <2>1, <2>2, <3>2 DEF Update
    <3>4. told'[r][i] = told[r][i]
      BY <1>0, <2>1, <2>2, <3>3
    <3> QED  BY <1>2, <3>1, <3>2, <3>4
  <2>3. CASE r # q
    <3>1. queue'[r] = queue[r] /\ told'[r] = told[r]
      BY <1>0, <2>1, <2>3
    <3> QED  BY <1>2, <3>1
  <2> QED  BY <2>2, <2>3
<1>5. ASSUME NEW t \in Threads, NEW q \in Runners, Pushes(t, q)
      PROVE  told'[r][i] = 0 /\ \A k \in 1..Len(queue'[r]) : queue'[r][k].id # i
  <2>1. told' = told /\ pc[t] = "inside"
    BY <1>5 DEF Pushes
  <2>2. arg[t].id \in DOMAIN ex /\ Pushed(t) \in Update
    BY <2>1, KnownOrder, UpdateInside
  <2>3. Pushed(t).id # i
    BY <1>1, <2>2 DEF Pushed
  <2>4. queue'[r] = queue[r] \/ queue'[r] = Append(queue[r], Pushed(t))
    BY <1>5, PushedTo
  <2>5. CASE queue'[r] = Append(queue[r], Pushed(t))
    <3>1. /\ Len(queue'[r]) = Len(queue[r]) + 1 /\ queue'[r][Len(queue[r]) + 1] = Pushed(t)
          /\ \A k \in 1..Len(queue[r]) : queue'[r][k] = queue[r][k]
          /\ Len(queue[r]) \in Nat
      BY <1>0, <2>2, <2>5
    <3>2. \A k \in 1..Len(queue'[r]) : queue'[r][k].id # i
      BY <1>2, <2>3, <3>1
    <3> QED  BY <1>2, <2>1, <3>2
  <2> QED  BY <1>2, <2>1, <2>4, <2>5
<1> QED  BY <1>3, <1>4, <1>5, QueueSteps DEF Tells

\* What an update does to the moving ones
LEMMA MovingAppend ==
  ASSUME NEW q \in Seq(Update), NEW u \in Update, NEW i
  PROVE  Moving(Append(q, u), i) =
           IF Adds(u, i) = 0 THEN Moving(q, i) ELSE Moving(q, i) \cup {Len(q) + 1}
<1> DEFINE p == Append(q, u)
<1>1. /\ Len(q) \in Nat /\ Len(p) = Len(q) + 1 /\ p[Len(q) + 1] = u
      /\ \A k \in 1..Len(q) : p[k] = q[k]
  OBVIOUS
<1> HIDE DEF p
<1>2. \A k : k \in 1..Len(p) <=> k \in 1..Len(q) \/ k = Len(q) + 1
  BY <1>1
<1>3. \A k : k \in Moving(p, i) <=> k \in Moving(q, i) \/ (k = Len(q) + 1 /\ Adds(u, i) # 0)
  BY <1>1, <1>2 DEF Moving
<1> QED  BY <1>3 DEF p

\* What taking one does to them
LEMMA MovingTail ==
  ASSUME NEW q \in Seq(Update), q # <<>>, NEW i, NEW k \in 1..Len(Tail(q))
  PROVE  /\ k + 1 \in 1..Len(q) /\ Tail(q)[k] = q[k + 1] /\ Len(Tail(q)) = Len(q) - 1
         /\ k \in Moving(Tail(q), i) <=> k + 1 \in Moving(q, i)
<1>1. Len(q) \in Nat /\ Len(Tail(q)) = Len(q) - 1 /\ Tail(q)[k] = q[k + 1]
  OBVIOUS
<1>2. k + 1 \in 1..Len(q)
  BY <1>1
<1> QED  BY <1>1, <1>2 DEF Moving

\* The strategy takes an update: the fill goes from the queue into the position.
LEMMA CarriedDispatch ==
  ASSUME TypeOKExposure, NEW q \in Runners, DispatchUpdate(q), NEW r \in Runners, NEW i \in Ids,
         Done(r, i) \/ Queued(r, i) \/ Held(r, i)
  PROVE  Done(r, i)' \/ Queued(r, i)' \/ Held(r, i)'
<1>0. /\ queue \in [Runners -> Seq(Update)] /\ told \in [Runners -> [Ids -> Int]]
      /\ counted \in [Runners -> [Ids -> Int]]
  BY DEF TypeOKExposure, TypeOK
<1>1. /\ UNCHANGED <<counted, pc, arg, delta, hand>>
      /\ queue' = [queue EXCEPT ![q] = Tail(queue[q])]
      /\ queue[q] \in Seq(Update) /\ queue[q] # <<>> /\ Head(queue[q]) \in Update
      /\ told' = IF Head(queue[q]).status = "Filled"
                 THEN [told EXCEPT ![q][Head(queue[q]).id] = @ + Head(queue[q]).qty] ELSE told
  BY Dispatched DEF vars, client, history
<1>2. /\ Empty(r, i)' <=> Empty(r, i)
      /\ \A t \in Threads : Adds(Pushed(t), i)' = Adds(Pushed(t), i)
  BY <1>1 DEF Empty, Adds, Pushed
<1>3. CASE q # r
  <2>1. queue'[r] = queue[r] /\ told'[r] = told[r]
    BY <1>0, <1>1, <1>3
  <2> QED  BY <1>1, <1>2, <2>1 DEF Done, Queued, Held
<1>4. CASE q = r
  <2> DEFINE u == Head(queue[r])
  <2>1. queue'[r] = Tail(queue[r]) /\ queue[r] \in Seq(Update) /\ queue[r] # <<>> /\ u \in Update
    BY <1>0, <1>1, <1>4
  <2>2. told'[r][i] = told[r][i] + Adds(u, i)
    BY SMTT(30), <1>0, <1>1, <1>4 DEF Adds, Update
  <2>3. u = queue[r][1] /\ 1 \in 1..Len(queue[r]) /\ Len(queue[r]) \in Nat
        /\ Len(Tail(queue[r])) = Len(queue[r]) - 1
    BY <2>1
  <2>4. 1 \in Moving(queue[r], i) <=> Adds(u, i) # 0
    BY <2>3 DEF Moving
  <2>5. \A k \in 1..Len(Tail(queue[r])) :
          /\ k + 1 \in 1..Len(queue[r]) /\ Tail(queue[r])[k] = queue[r][k + 1]
          /\ k \in Moving(Tail(queue[r]), i) <=> k + 1 \in Moving(queue[r], i)
    BY <2>1, MovingTail
  <2>6. Moving(Tail(queue[r]), i) \subseteq 1..Len(Tail(queue[r]))
        /\ Moving(queue[r], i) \subseteq 1..Len(queue[r])
    BY DEF Moving
  <2>7. counted'[r][i] = counted[r][i] /\ told[r][i] \in Int
    BY <1>0, <1>1
  <2> HIDE DEF u
  <2>8. ASSUME Moving(queue[r], i) = {}
        PROVE  Moving(queue'[r], i) = {} /\ told'[r][i] = told[r][i]
    <3>1. Moving(Tail(queue[r]), i) = {}
      BY <2>5, <2>6, <2>8
    <3> QED  BY <2>1, <2>2, <2>4, <2>7, <2>8, <3>1
  <2>9. CASE Done(r, i)
    BY <1>2, <2>7, <2>8, <2>9 DEF Done
  <2>10. CASE Held(r, i)
    BY <1>1, <1>2, <2>7, <2>8, <2>10 DEF Held
  <2>11. CASE Queued(r, i)
    <3>1. PICK k \in 1..Len(queue[r]) : Moving(queue[r], i) = {k} /\ queue[r][k].qty = 1
      BY <2>11 DEF Queued
    <3>2. told[r][i] = 0 /\ counted[r][i] = 1 /\ Empty(r, i)
      BY <2>11 DEF Queued
    <3>3. CASE k = 1
      <4>1. Moving(Tail(queue[r]), i) = {}
        BY <2>3, <2>5, <2>6, <3>1, <3>3
      <4>2. Adds(u, i) = 1
        BY <2>3, <2>4, <3>1, <3>3 DEF Adds
      <4> QED  BY <1>2, <2>1, <2>2, <2>7, <3>2, <4>1, <4>2 DEF Done
    <3>4. CASE k # 1
      <4>1. Adds(u, i) = 0
        BY <2>4, <3>1, <3>4
      <4>2. k - 1 \in 1..Len(Tail(queue[r])) /\ (k - 1) + 1 = k
        BY <2>3, <3>4
      <4>3. Moving(Tail(queue[r]), i) = {k - 1}
        BY <2>3, <2>5, <2>6, <3>1, <4>2
      <4>4. Tail(queue[r])[k - 1].qty = 1
        BY <2>5, <3>1, <4>2
      <4>5. told'[r][i] = 0
        BY <2>2, <3>2, <4>1
      <4> QED  BY <1>2, <2>1, <2>7, <3>2, <4>2, <4>3, <4>4, <4>5 DEF Queued
    <3> QED  BY <3>3, <3>4
  <2> QED  BY <2>9, <2>10, <2>11
<1> QED  BY <1>3, <1>4

\* The callback tells the RiskManager: a fill of a one-lot order is its only one, and the
\* callback has it now.
LEMMA CarriedTells ==
  ASSUME SettlingInv, NEW t \in Threads, NEW q \in Runners, Tells(t, q),
         NEW i \in DOMAIN ex \ overtaken, NEW r \in Runners, r = ex[i].owner, ex[i].qty = 1,
         Done(r, i) \/ Queued(r, i) \/ Held(r, i)
  PROVE  Done(r, i)' \/ Queued(r, i)' \/ Held(r, i)'
<1> USE ThreadKinds
<1>0. /\ ClientInv /\ i \in Ids /\ r # NoSym /\ Forward(i) /\ Twice(i)
      /\ SubmitFirst(i) /\ Latest(i) /\ Exact(i) /\ OneLot
  BY OrderAssumption DEF SettlingInv, LedgerInv, Undisturbed, ClientInv, Types
<1>1. /\ hand = NoSym /\ pc[t] = "inside" /\ q \in left
      /\ hand' = IF Takes(q, arg[t].sym) THEN q ELSE NoSym
      /\ UNCHANGED <<queue, told, orders, ex, pc, arg, delta>>
      /\ counted'[r][i] = IF r = q /\ Takes(q, arg[t].sym) /\ IsFill(t) /\ i = arg[t].id
                          THEN counted[r][i] + delta[t] ELSE counted[r][i]
  BY <1>0, Told DEF Tells, CallRunner
<1>2. Done(r, i) \/ Queued(r, i)
  BY <1>0, <1>1 DEF Held
<1>3. /\ counted[r][i] \in Int /\ counted[r][i] >= 0 /\ delta[t] \in Int
      /\ \A u \in Threads : Adds(Pushed(u), i)' = Adds(Pushed(u), i)
      /\ \A u \in Threads : pc[u] = "inside" => u = t
  BY <1>0, <1>1, LedgerTypes DEF Twice, Adds, Pushed, ClientInv, Holds
<1>4. ASSUME counted'[r][i] = counted[r][i], Empty(r, i)' PROVE Done(r, i)' \/ Queued(r, i)'
  BY <1>1, <1>2, <1>4 DEF Done, Queued
<1>5. CASE q # r \/ ~ Takes(q, arg[t].sym)
  <2>1. counted'[r][i] = counted[r][i] /\ hand' # r
    BY <1>0, <1>1, <1>5
  <2>2. Empty(r, i)'
    BY <2>1 DEF Empty
  <2> QED  BY <1>4, <2>1, <2>2
<1>6. ASSUME q = r, arg[t].id = i, delta[t] # 0
      PROVE  /\ t = Stream /\ delta[t] > 0 /\ arg[t].status = orders[i].status
             /\ counted[r][i] = 0 /\ delta[t] = 1 /\ arg[t].status = "Filled"
  <2>1. t = Stream
    BY <1>0, <1>1, <1>6 DEF SubmitFirst
  <2>2. delta[t] > 0
    BY <1>0, <1>1, <1>3, <1>6, <2>1 DEF Forward, StreamHas
  <2>3. /\ i \in DOMAIN orders /\ orders[i].filled = arg[t].filled
        /\ orders[i].status = arg[t].status
    BY <1>0, <1>1, <1>6, <2>1 DEF Latest, StreamHas
  <2>4. Owed(r, i) = delta[t]
    BY <1>1, <1>6, <2>1 DEF Owed
  <2>5. counted[r][i] + delta[t] <= arg[t].filled
    BY <1>0, <2>3, <2>4 DEF Exact, FilledSoFar
  <2>6. arg[t].filled = 0 \/ (arg[t].filled = 1 /\ arg[t].status = "Filled")
    BY <1>0, <2>3 DEF OneLot
  <2>7. arg[t].filled = 1 /\ arg[t].status = "Filled"
    BY <1>3, <2>2, <2>5, <2>6
  <2>8. counted[r][i] = 0 /\ delta[t] = 1
    BY <1>3, <2>2, <2>5, <2>7
  <2> QED  BY <2>1, <2>2, <2>3, <2>7, <2>8
<1>7. CASE q = r /\ ~ (arg[t].id = i /\ delta[t] # 0)
  <2>1. Adds(Pushed(t), i) = 0 /\ counted'[r][i] = counted[r][i]
    BY <1>1, <1>3, <1>7 DEF Adds, Pushed, IsFill
  <2>2. Empty(r, i)'
    BY <1>1, <1>3, <2>1 DEF Empty
  <2> QED  BY <1>4, <2>1, <2>2
<1>8. CASE q = r /\ Takes(q, arg[t].sym) /\ arg[t].id = i /\ delta[t] # 0
  <2>1. counted[r][i] = 0 /\ delta[t] = 1 /\ arg[t].status = "Filled"
    BY <1>6, <1>8
  <2>2. counted'[r][i] = 1 /\ hand' = r
    BY <1>1, <1>8, <2>1 DEF IsFill
  <2>3. Moving(queue[r], i) = {} /\ told[r][i] = 0
    BY <1>2, <2>1 DEF Done, Queued
  <2>4. Adds(Pushed(t), i)' = 1
    <3>1. Adds(Pushed(t), i) = 1
      BY <1>8, <2>1 DEF Adds, Pushed
    <3> QED  BY <1>3, <3>1
  <2> QED  BY <1>1, <2>2, <2>3, <2>4 DEF Held
<1> QED  BY <1>5, <1>7, <1>8

\* The callback pushes what it has.
LEMMA CarriedPushes ==
  ASSUME SettlingInv, NEW t \in Threads, NEW q \in Runners, Pushes(t, q),
         NEW i \in Ids, NEW r \in Runners, i \notin refused'[r],
         Done(r, i) \/ Queued(r, i) \/ Held(r, i)
  PROVE  Done(r, i)' \/ Queued(r, i)' \/ Held(r, i)'
<1>0. /\ ClientInv /\ TypeOKExposure /\ r # NoSym /\ queue[r] \in Seq(Update)
  BY OrderAssumption DEF SettlingInv, LedgerInv, TypeOKExposure
<1>1. /\ hand = q /\ pc[t] = "inside" /\ hand' = NoSym /\ UNCHANGED <<told, counted>>
  BY DEF Pushes, vars, history
<1>2. Pushed(t) \in Update
  BY <1>0, <1>1, UpdateInside
<1>3. Empty(r, i)'
  BY <1>0, <1>1 DEF Empty
<1>4. ASSUME ~ Held(r, i), queue'[r] = queue[r] PROVE Done(r, i)' \/ Queued(r, i)'
  BY <1>1, <1>3, <1>4 DEF Done, Queued
<1>5. CASE q # r
  BY <1>0, <1>1, <1>4, <1>5, PushedTo DEF Held
<1>6. CASE q = r /\ Adds(Pushed(t), i) = 0
  <2>1. ~ Held(r, i)
    BY <1>0, <1>1, <1>6 DEF Held, ClientInv, Holds
  <2>2. CASE queue'[r] = Append(queue[r], Pushed(t))
    <3>1. Moving(queue'[r], i) = Moving(queue[r], i)
      BY <1>0, <1>2, <1>6, <2>2, MovingAppend
    <3>2. \A k \in 1..Len(queue[r]) : k \in 1..Len(queue'[r]) /\ queue'[r][k] = queue[r][k]
      BY <1>0, <1>2, <2>2
    <3> QED  BY <1>1, <1>3, <2>1, <3>1, <3>2 DEF Done, Queued
  <2> QED  BY <1>0, <1>4, <1>6, <2>1, <2>2, PushedTo
<1>7. CASE q = r /\ Adds(Pushed(t), i) # 0
  <2>1. ~ Empty(r, i)
    BY <1>1, <1>7 DEF Empty
  <2>2. Held(r, i)
    BY <2>1 DEF Done, Queued
  <2>3. Moving(queue[r], i) = {} /\ told[r][i] = 0 /\ counted[r][i] = 1 /\ Adds(Pushed(t), i) = 1
    BY <1>0, <1>1, <2>2 DEF Held, ClientInv, Holds
  <2>4. arg[t].id = i /\ Pushed(t).qty = 1
    BY <2>3 DEF Adds, Pushed
  <2>5. queue'[r] = Append(queue[r], Pushed(t))
    BY <1>0, <1>7, <2>4, PushedTo
  <2>6. Moving(queue'[r], i) = {Len(queue[r]) + 1}
    BY <1>0, <1>2, <2>3, <2>5, MovingAppend
  <2>7. Len(queue[r]) + 1 \in 1..Len(queue'[r]) /\ queue'[r][Len(queue[r]) + 1] = Pushed(t)
    BY <1>0, <1>2, <2>5
  <2> QED  BY <1>1, <1>3, <2>3, <2>4, <2>6, <2>7 DEF Queued
<1> QED  BY <1>5, <1>6, <1>7

\* Every step keeps the one fill in the callback, in the queue or in the position.
LEMMA CarriedStep == SettlingInv /\ [NextExposure]_evars => Carried'
<1> SUFFICES ASSUME SettlingInv, [NextExposure]_evars, NEW i \in DOMAIN ex', i \notin overtaken',
                    NEW r, r = ex'[i].owner, ex'[i].qty = 1, i \notin refused'[r]
             PROVE  Done(r, i)' \/ Queued(r, i)' \/ Held(r, i)'
  BY DEF Carried, Done, Queued, Held, Empty
<1> TypeOKExposure /\ InHand /\ ClientInv /\ Owned /\ InOrder /\ Unknown /\ Untold
  BY DEF SettlingInv, LedgerInv
<1>c. [ClientNext]_vars
  BY ExposureIsClient
<1>0. /\ refused \in [Runners -> SUBSET Ids] /\ DOMAIN ex' \subseteq Ids /\ DOMAIN ex \subseteq Ids
      /\ NoSym \notin Runners
  BY <1>c, TypeStep, OrderAssumption DEF TypeOKExposure, ClientInv, Types
<1>1. ASSUME UNCHANGED hand, r \in Runners, NEW t \in Threads, hand = r
      PROVE  /\ pc'[t] = "inside" <=> pc[t] = "inside"
             /\ pc[t] = "inside" => Adds(Pushed(t), i)' = Adds(Pushed(t), i)
  BY <1>0, <1>1, HeldSteps DEF Adds, Pushed
<1>2. ASSUME r \in Runners, i \notin DOMAIN ex PROVE Done(r, i)'
  <2>1. ex' # ex
    BY <1>2
  <2>2. /\ counted[r][i] = 0 /\ told[r][i] = 0
        /\ \A k \in 1..Len(queue[r]) : queue[r][k].id # i
    BY <1>0, <1>2 DEF Unknown, Untold
  <2>3. UNCHANGED <<queue, told, counted, hand>>
    <3>1. ASSUME NEW q \in Runners, DispatchUpdate(q) PROVE FALSE
      BY <2>1, <3>1, Dispatched DEF vars, exchange
    <3>2. ASSUME NEW t \in Threads, NEW q \in Runners, Tells(t, q) PROVE FALSE
      BY <2>1, <3>2, Told
    <3>3. ASSUME NEW t \in Threads, NEW q \in Runners, Pushes(t, q) PROVE FALSE
      BY <2>1, <3>3 DEF Pushes, vars, exchange
    <3> QED  BY <3>1, <3>2, <3>3, QueueSteps
  <2>4. Moving(queue[r], i) = {}
    BY <2>2 DEF Moving, Adds
  <2>5. ASSUME NEW t \in Threads, hand' = r, pc'[t] = "inside" PROVE Adds(Pushed(t), i)' = 0
    <3>1. pc[t] = "inside" /\ Adds(Pushed(t), i)' = Adds(Pushed(t), i)
      BY <1>1, <1>2, <2>3, <2>5
    <3>2. arg[t].id # i
      BY <1>2, <3>1, KnownOrder
    <3> QED  BY <3>1, <3>2 DEF Adds, Pushed
  <2> QED  BY <2>2, <2>3, <2>4, <2>5 DEF Done, Empty
<1>3. ASSUME i \in DOMAIN ex
      PROVE  r \in Runners /\ r = ex[i].owner /\ ex[i].qty = 1 /\ i \notin overtaken
  <2>1. r \in Runners /\ r = ex[i].owner /\ ex[i].qty = 1
    BY <1>3, <1>c, ExEffect DEF GoesOn, Owned
  <2> QED  BY <1>c, <2>1, OvertakenSteps
<1>4. CASE i \in DOMAIN ex
  <2>1. /\ r \in Runners /\ r = ex[i].owner /\ ex[i].qty = 1 /\ i \in DOMAIN ex \ overtaken
        /\ i \in Ids /\ i \notin refused'[r]
    BY <1>0, <1>3, <1>4
  <2>2. ASSUME refused[r] \subseteq refused'[r] PROVE Done(r, i) \/ Queued(r, i) \/ Held(r, i)
    BY <2>1, <2>2 DEF SettlingInv, Carried
  <2>3. ASSUME UNCHANGED <<queue, pos, told, hand, refused, counted>>
        PROVE  Done(r, i)' \/ Queued(r, i)' \/ Held(r, i)'
    <3>1. Done(r, i) \/ Queued(r, i) \/ Held(r, i)
      BY <2>2, <2>3
    <3>2. Empty(r, i) => Empty(r, i)'
      BY <1>1, <2>1, <2>3 DEF Empty
    <3>3. CASE Done(r, i)
      BY <2>3, <3>2, <3>3 DEF Done
    <3>4. CASE Queued(r, i)
      BY <2>3, <3>2, <3>4 DEF Queued
    <3>5. CASE Held(r, i)
      <4>1. PICK t \in Threads : pc[t] = "inside" /\ Adds(Pushed(t), i) = 1
        BY <3>5 DEF Held
      <4>2. hand = r
        BY <3>5 DEF Held
      <4>3. pc'[t] = "inside" /\ Adds(Pushed(t), i)' = 1
        BY <1>1, <2>1, <2>3, <4>1, <4>2
      <4> QED  BY <2>3, <3>5, <4>3 DEF Held
    <3> QED  BY <3>1, <3>3, <3>4, <3>5
  <2>4. ASSUME NEW q \in Runners, DispatchUpdate(q)
        PROVE  Done(r, i)' \/ Queued(r, i)' \/ Held(r, i)'
    <3>1. Done(r, i) \/ Queued(r, i) \/ Held(r, i)
      BY <2>2, <2>4, Dispatched
    <3> QED  BY <2>1, <2>4, <3>1, CarriedDispatch
  <2>5. ASSUME NEW t \in Threads, NEW q \in Runners, Tells(t, q)
        PROVE  Done(r, i)' \/ Queued(r, i)' \/ Held(r, i)'
    <3>1. Done(r, i) \/ Queued(r, i) \/ Held(r, i)
      BY <2>2, <2>5 DEF Tells
    <3> QED  BY <2>1, <2>5, <3>1, CarriedTells
  <2>6. ASSUME NEW t \in Threads, NEW q \in Runners, Pushes(t, q)
        PROVE  Done(r, i)' \/ Queued(r, i)' \/ Held(r, i)'
    <3>1. Done(r, i) \/ Queued(r, i) \/ Held(r, i)
      BY <2>1, <2>2, <2>6, PushedTo
    <3> QED  BY <2>1, <2>6, <3>1, CarriedPushes
  <2> QED  BY <2>3, <2>4, <2>5, <2>6, QueueSteps
<1>5. CASE i \notin DOMAIN ex
  <2>1. r \in Runners
    BY <1>5, <1>c, ExEffect DEF Arrives
  <2> QED  BY <1>2, <1>5, <2>1
<1> QED  BY <1>4, <1>5

\* Exchange, RiskManager and strategy agree on every one-lot order whose reports have
\* gone all the way, for every interleaving of the stream with late or lost answers,
\* breaks and repeated snapshots, unless a report overtook submit() or a full queue
\* refused the update.
THEOREM SettledOrdersAgree == Prior = 0 /\ SpecExposure => []SettledAgrees
<1> SUFFICES ASSUME Prior = 0 PROVE SpecExposure => []SettledAgrees
  OBVIOUS
<1>1. InitExposure => SettlingInv
  <2> SUFFICES ASSUME InitExposure PROVE SettlingInv
    OBVIOUS
  <2>1. TypeOKExposure /\ InHand /\ LedgerInv
    BY ExposureInit, LedgerInit DEF InitExposure
  <2>2. /\ DOMAIN ex = {} /\ DOMAIN orders = {} /\ Len(wire) = 0 /\ pc[Stream] = "idle"
        /\ \A r \in Runners : Len(queue[r]) = 0
        /\ \A r \in Runners, i \in Ids : told[r][i] = 0
    BY ThreadKinds DEF InitExposure, Init
  <2>3. OneLot /\ Untold /\ Carried
    BY <2>2 DEF OneLot, Untold, Carried
  <2> QED  BY <2>1, <2>3 DEF SettlingInv
<1>2. SettlingInv /\ [NextExposure]_evars => SettlingInv'
  <2> SUFFICES ASSUME SettlingInv, [NextExposure]_evars PROVE SettlingInv'
    OBVIOUS
  <2>1. /\ [ClientNext]_vars /\ ClientInv /\ Owned /\ InOrder /\ Plain /\ Routed
        /\ TypeOKExposure /\ InHand /\ LedgerInv /\ OneLot /\ Untold
    BY ExposureIsClient DEF SettlingInv, LedgerInv
  <2>2. TypeOKExposure' /\ InHand'
    BY <2>1, ExposureStep
  <2>3. LedgerInv' /\ OneLot' /\ Untold'
    BY <2>1, LedgerStep, OneLotStep, UntoldStep
  <2> QED  BY <2>2, <2>3, CarriedStep DEF SettlingInv
<1>3. SettlingInv => SettledAgrees
  <2> SUFFICES ASSUME SettlingInv, NEW r \in Runners, NEW i \in DOMAIN ex,
                      Settled(r, i), ex[i].qty = 1
               PROVE  told[r][i] = ex[i].filled /\ counted[r][i] = ex[i].filled
    BY DEF SettledAgrees
  <2>1. /\ r = ex[i].owner /\ i \notin overtaken /\ i \notin refused[r] /\ ~ Pending(i)
        /\ i \in DOMAIN orders /\ orders[i].filled = ex[i].filled
    BY DEF Settled, Owner
  <2>2. Owed(r, i) = 0
    BY <2>1, ThreadKinds DEF Pending, Owed
  <2>3. \A k \in 1..Len(queue[r]) : queue[r][k].id # i
    BY <2>1 DEF Pending
  <2>4. Moving(queue[r], i) = {} /\ ~ Held(r, i)
    <3>1. Moving(queue[r], i) = {}
      BY <2>3 DEF Moving, Adds
    <3>2. ASSUME NEW t \in Threads, pc[t] = "inside", Adds(Pushed(t), i) = 1 PROVE FALSE
      BY <2>1, <3>2 DEF Pending, Adds, Pushed
    <3> QED  BY <3>1, <3>2 DEF Held
  <2>5. told[r][i] = counted[r][i]
    BY <2>1, <2>4 DEF SettlingInv, Carried, Done, Queued
  <2>6. counted[r][i] = orders[i].filled
    <3>1. /\ ClientInv /\ i \in Ids /\ Forward(i) /\ Twice(i) /\ Exact(i)
          /\ orders[i].filled = 0 \/ (orders[i].filled = 1 /\ orders[i].status = "Filled")
      BY <2>1 DEF SettlingInv, LedgerInv, Undisturbed, ClientInv, Types, OneLot
    <3>2. counted[r][i] \in Int /\ counted[r][i] >= 0 /\ counted[r][i] <= orders[i].filled
      BY <2>1, <2>2, <3>1, LedgerTypes DEF Exact, Twice, FilledSoFar
    <3>3. CASE orders[i].filled = 0
      BY <3>2, <3>3
    <3>4. CASE orders[i].status = "Filled"
      BY <2>1, <2>2, <3>1, <3>2, <3>4 DEF Exact, FilledSoFar, Fills
    <3> QED  BY <3>1, <3>3, <3>4
  <2> QED  BY <2>1, <2>5, <2>6
<1> QED  BY <1>1, <1>2, <1>3, PTL DEF SpecExposure

=============================================================================
