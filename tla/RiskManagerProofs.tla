------------------------- MODULE RiskManagerProofs -------------------------
(***************************************************************************)
(* The RiskManager's safety properties for any number of runners, any      *)
(* limits and any behaviour of the broker: the fields keep their types,    *)
(* the account never exceeds the peak, open_pos_ is one-sided, a tripped   *)
(* breaker lets each runner submit at most one more entry and its reason   *)
(* is the first failed limit.                                              *)
(***************************************************************************)
EXTENDS RiskManager, FiniteSetTheorems, TLAPS

\* What a runner that is past check_circuit_breaker() can still do.
PastBreaker == {"loss", "drawdown", "positions", "expiry", "fetch", "margin", "submit"}
MayEnter(r) == pc[r] \in PastBreaker /\ dir[r] # "Close"

\* The budget of entries after the trip: none is spent before the trip, and a
\* runner that has spent its one entry has no check under way.
EntryBudget ==
  \A r \in Runners : /\ extra[r] <= 1
                     /\ ~ tripped => extra[r] = 0
                     /\ MayEnter(r) => extra[r] = 0

\* Who may write trip_reason_: the one thread that won the exchange, before
\* anybody wrote it, with a limit for a reason.
ReasonOwner ==
  /\ ~ tripped => reason = "none"
  /\ \A r \in Runners :
       /\ pc[r] = "trip" => why[r] \in Causes \/ tripped
       /\ pc[r] = "reason" => /\ why[r] \in Causes
                                  /\ tripped /\ reason = "none"
       /\ \A s \in Runners : pc[r] = "reason" /\ pc[s] = "reason" => r = s

\* The locals of handle_signal() in every strategy thread.
ThreadTypes ==
  /\ pc \in [Runners -> Pcs]
  /\ dir \in [Runners -> {"None", "Buy", "Sell", "Close"}]
  /\ need \in [Runners -> Int]
  /\ why \in [Runners -> Causes \cup {"none", "breaker"}]

\* A record of integers in the fields of an account is an account.
LEMMA RecordSubset ==
  ASSUME NEW L, NEW F, NEW P, NEW C,
         L \subseteq Int, F \subseteq Int, P \subseteq Int, C \subseteq Int,
         NEW s \in [liquid : L, free : F, pnl : P, positions : C]
  PROVE  s \in Account
<1>1. s.liquid \in Int /\ s.free \in Int /\ s.pnl \in Int /\ s.positions \in Int
  OBVIOUS
<1>2. s = [liquid |-> s.liquid, free |-> s.free, pnl |-> s.pnl, positions |-> s.positions]
  OBVIOUS
<1>3. QED
  BY <1>1, <1>2 DEF Account

\* The answers of GetAccount are accounts.
LEMMA SnapshotsAreAccounts == Snapshots \subseteq Account
<1>1. IsFiniteSet(Held)
  BY RiskAssumption, FS_Subset DEF Held
<1>2. Cardinality(Held) \in Nat
  BY <1>1, FS_CardinalityType
<1>3. ASSUME NEW s \in Snapshots PROVE s \in Account
  <2>1. s \in [liquid : Equities, free : FreeMargins, pnl : Profits \cup {0},
               positions : {Cardinality(Held)}]
    BY DEF Snapshots
  <2>2. /\ Equities \subseteq Int /\ FreeMargins \subseteq Int
        /\ Profits \cup {0} \subseteq Int /\ {Cardinality(Held)} \subseteq Int
    BY <1>2, RiskAssumption
  <2>3. QED
    BY <2>1, <2>2, RecordSubset, Zenon
<1>4. QED
  BY <1>3

\* The initial account is well typed.
LEMMA InitTypes == Init => TypeOK
<1> SUFFICES ASSUME Init PROVE TypeOK
  OBVIOUS
<1>1. state \in Account
  <2>1. Equities \subseteq Int /\ FreeMargins \subseteq Int /\ {0} \subseteq Int
    BY RiskAssumption
  <2>2. CASE state = [liquid |-> 0, free |-> 0, pnl |-> 0, positions |-> 0]
    BY <2>2 DEF Account
  <2>3. CASE state \in [liquid : Equities, free : FreeMargins, pnl : {0}, positions : {0}]
    BY <2>1, <2>3, RecordSubset, Zenon
  <2>4. QED
    BY <2>2, <2>3 DEF Init
<1>2. peak \in Int
  BY <1>1 DEF Init, Account
<1>3. DOMAIN openPos \subseteq Nat /\ \A t \in DOMAIN openPos : openPos[t] \in Entry
  BY DEF Init
<1>4. ThreadTypes
  BY DEF Init, ThreadTypes, Pcs, Causes
<1>5. /\ stream \in Seq(Fill) /\ working \subseteq Order /\ nextTid \in Nat
      /\ pos \in [Runners -> Int] /\ net \in [Runners -> Int]
      /\ extra \in [Runners -> Nat] /\ booked \in Int
  BY DEF Init
<1>6. tripped \in BOOLEAN /\ reason \in Causes \cup {"none", "breaker"} /\ snap = NoSnap
  BY DEF Init
<1>7. QED
  BY <1>1, <1>2, <1>3, <1>4, <1>5, <1>6 DEF TypeOK, ThreadTypes

\* on_fill() keeps the account and the entries well typed.
LEMMA FillTypes ==
  ASSUME TypeOK, NEW f \in Fill, OnFill(f)
  PROVE  /\ state' \in Account /\ peak' \in Int /\ booked' \in Int
         /\ DOMAIN openPos' \subseteq Nat
         /\ \A t \in DOMAIN openPos' : openPos'[t] \in Entry
<1>1. CASE \E t \in Opposite(f.buy) : CloseEntry(f, t)
  <2>1. PICK t \in Opposite(f.buy) : CloseEntry(f, t)
    BY <1>1
  <2>2. openPos[t] \in Entry /\ t \in DOMAIN openPos
    BY <2>1 DEF Opposite, TypeOK
  <2>3. FillPnl(f, t) \in Int
    <3>1. f.price - openPos[t].price \in Int
      BY <2>2 DEF Fill, Entry
    <3>2. QED
      BY <3>1 DEF FillPnl
  <2>4. /\ state.liquid \in Int /\ state.free \in Int /\ state.pnl \in Int
        /\ state.positions \in Int /\ state \in Account /\ peak \in Int /\ booked \in Int
    BY DEF TypeOK, Account
  <2>5. state.liquid + FillPnl(f, t) \in Int /\ state.pnl + FillPnl(f, t) \in Int
    BY <2>3, <2>4
  <2>6. state' \in Account
    BY <2>1, <2>4, <2>5 DEF CloseEntry, Account
  <2>7. peak' \in Int /\ booked' \in Int
    BY <2>1, <2>3, <2>4, <2>5 DEF CloseEntry
  <2>8. DOMAIN openPos' \subseteq Nat /\ \A u \in DOMAIN openPos' : openPos'[u] \in Entry
    BY <2>1 DEF CloseEntry, TypeOK
  <2>9. QED
    BY <2>6, <2>7, <2>8
<1>2. CASE Opposite(f.buy) = {} /\ OpenEntry(f)
  BY <1>2 DEF OpenEntry, TypeOK, Fill, Entry
<1>3. QED
  BY <1>1, <1>2 DEF OnFill

\* The locals of handle_signal() stay well typed when it moves on or rejects.
LEMMA RunTypes ==
  ASSUME TypeOK, NEW r \in Runners, NEW step \in Pcs, NEW cause \in Causes \cup {"breaker"},
         Goto(r, step) \/ Reject(r, cause) \/ Return(r)
  PROVE  ThreadTypes'
<1>0. {"idle", "trip"} \subseteq Pcs
  BY DEF Pcs
<1>1. CASE Goto(r, step)
  BY <1>1 DEF TypeOK, ThreadTypes, Goto
<1>2. CASE Reject(r, cause)
  BY <1>0, <1>2 DEF TypeOK, ThreadTypes, Reject
<1>3. CASE Return(r)
  BY <1>0, <1>3 DEF TypeOK, ThreadTypes, Return
<1>4. QED
  BY <1>1, <1>2, <1>3

\* Every step preserves the types.
LEMMA TypeStep == TypeOK /\ [Next]_vars => TypeOK'
<1> SUFFICES ASSUME TypeOK, [Next]_vars PROVE TypeOK'
  OBVIOUS
<1> USE DEF account, breaker, thread, market
<1>1. CASE RefreshFetch
  <2>1. snap' \in Account
    BY <1>1, SnapshotsAreAccounts DEF RefreshFetch
  <2>2. QED
    BY <1>1, <2>1 DEF RefreshFetch, TypeOK
<1>2. CASE RefreshStore
  <2>1. snap \in Account
    BY <1>2 DEF RefreshStore, TypeOK
  <2>2. state' \in Account /\ peak' \in Int /\ snap' = NoSnap
    BY <1>2, <2>1 DEF RefreshStore, TypeOK, Account
  <2>3. QED
    BY <1>2, <2>2 DEF RefreshStore, TypeOK
<1>3. CASE DeliverFill
  <2>1. Head(stream) \in Fill /\ Tail(stream) \in Seq(Fill)
    BY <1>3 DEF DeliverFill, TypeOK
  <2>2. OnFill(Head(stream))
    BY <1>3 DEF DeliverFill
  <2>3. /\ state' \in Account /\ peak' \in Int /\ booked' \in Int
        /\ DOMAIN openPos' \subseteq Nat
        /\ \A t \in DOMAIN openPos' : openPos'[t] \in Entry
    BY <2>1, <2>2, FillTypes
  <2>4. pos' \in [Runners -> Int] /\ stream' \in Seq(Fill)
    <3> DEFINE f == Head(stream)
    <3>1. f.runner \in Runners
      BY <2>1 DEF Fill
    <3>2. pos' = [pos EXCEPT ![f.runner] = @ + (IF f.buy THEN 1 ELSE -1)]
      BY <1>3 DEF DeliverFill
    <3>3. pos \in [Runners -> Int] /\ pos[f.runner] + (IF f.buy THEN 1 ELSE -1) \in Int
      BY <3>1 DEF TypeOK
    <3> HIDE DEF f
    <3>4. QED
      BY ZenonT(60), <1>3, <2>1, <3>1, <3>2, <3>3 DEF DeliverFill
  <2>5. QED
    BY <1>3, <2>3, <2>4 DEF DeliverFill, TypeOK
<1>4. ASSUME NEW r \in Runners, NEW d \in {"Buy", "Sell", "Close"}, Signal(r, d)
      PROVE  TypeOK'
  BY <1>4 DEF Signal, CheckVars, TypeOK, Pcs
<1>5. ASSUME NEW r \in Runners, LocalStep(r) PROVE TypeOK'
  <2>1. \/ \E step \in Pcs : Goto(r, step)
        \/ \E cause \in Causes \cup {"breaker"} : Reject(r, cause)
        \/ Return(r)
    BY <1>5 DEF LocalStep, CheckCircuitBreaker, CheckDailyLoss, CheckDrawdown,
                CheckPositionCount, CheckExpiry, CheckMargin, TripExchange, TripReason,
                Pcs, Causes
  <2>2. ThreadTypes'
    BY <2>1, RunTypes DEF Pcs, Causes
  <2>3. /\ UNCHANGED <<account, snap, pos, market, extra>>
        /\ tripped' \in BOOLEAN /\ reason' \in Causes \cup {"none", "breaker"}
    BY <1>5 DEF LocalStep, CheckCircuitBreaker, CheckDailyLoss, CheckDrawdown,
                CheckPositionCount, CheckExpiry, CheckMargin, TripExchange, TripReason,
                CheckVars, TypeOK
  <2>4. QED
    BY <2>2, <2>3 DEF TypeOK, ThreadTypes
<1>6. ASSUME NEW r \in Runners, FetchInitialMargin(r) PROVE TypeOK'
  BY <1>6, RiskAssumption DEF FetchInitialMargin, Goto, CheckVars, TypeOK, Pcs
<1>7. ASSUME NEW r \in Runners, Submit(r) PROVE TypeOK'
  <2>1. ThreadTypes'
    BY <1>7, RunTypes DEF Submit, Pcs, Causes
  <2>2. working' \subseteq Order /\ nextTid' \in Nat
    <3>1. [tid |-> nextTid, buy |-> dir[r] = "Buy", runner |-> r] \in Order
      BY DEF TypeOK, Order
    <3>2. QED
      BY <1>7, <3>1 DEF Submit, TypeOK
  <2>3. extra' \in [Runners -> Nat]
    BY <1>7 DEF Submit, TypeOK
  <2>4. QED
    BY <1>7, <2>1, <2>2, <2>3 DEF Submit, TypeOK, ThreadTypes
<1>8. ASSUME NEW r \in Runners, SubmitFails(r) PROVE TypeOK'
  BY <1>8 DEF SubmitFails, Return, CheckVars, TypeOK, Pcs
<1>9. ASSUME NEW o \in working, Execute(o) PROVE TypeOK'
  <2>1. o \in Order
    BY DEF TypeOK
  <2>2. net' \in [Runners -> Int] /\ working' \subseteq Order
    BY <1>9, <2>1 DEF Execute, TypeOK, Order
  <2>3. stream' \in Seq(Fill)
    BY <1>9, <2>1, RiskAssumption DEF Execute, TypeOK, Order, Fill
  <2>4. QED
    BY <1>9, <2>2, <2>3 DEF Execute, TypeOK
<1>10. CASE UNCHANGED vars
  BY <1>10 DEF vars, TypeOK
<1>11. QED
  BY <1>1, <1>2, <1>3, <1>4, <1>5, <1>6, <1>7, <1>8, <1>9, <1>10 DEF Next

\* risk_manager.hpp:70-89 -- the fields of the RiskManager and the locals of its
\* callers keep their types.
THEOREM TypeCorrect == Spec => []TypeOK
  BY InitTypes, TypeStep, PTL DEF Spec

-----------------------------------------------------------------------------
(* The account and the book *)

\* Both writers of the account keep the peak above it.
LEMMA PeakStep == TypeOK /\ PeakDominates /\ [Next]_vars => PeakDominates'
<1> SUFFICES ASSUME TypeOK, PeakDominates, [Next]_vars PROVE PeakDominates'
  OBVIOUS
<1> USE DEF PeakDominates
<1>1. CASE RefreshStore
  <2>1. snap \in Account /\ peak \in Int
    BY <1>1 DEF RefreshStore, TypeOK
  <2>2. QED
    BY <1>1, <2>1 DEF RefreshStore, Account
<1>2. CASE DeliverFill
  <2> DEFINE f == Head(stream)
  <2>1. f \in Fill /\ OnFill(f)
    BY <1>2 DEF DeliverFill, TypeOK
  <2>2. CASE OpenEntry(f)
    BY <2>2 DEF OpenEntry
  <2>3. ASSUME NEW t \in Opposite(f.buy), CloseEntry(f, t) PROVE PeakDominates'
    <3> DEFINE l == state.liquid + FillPnl(f, t)
    <3>1. openPos[t] \in Entry
      BY DEF Opposite, TypeOK
    <3>2. l \in Int /\ peak \in Int
      <4>1. f.price - openPos[t].price \in Int
        BY <2>1, <3>1 DEF Fill, Entry
      <4>2. state.liquid \in Int /\ peak \in Int
        BY DEF TypeOK, Account
      <4>3. QED
        BY <4>1, <4>2 DEF FillPnl
    <3>3. state'.liquid = l /\ peak' = IF l > peak THEN l ELSE peak
      <4>1. state \in Account
        BY DEF TypeOK
      <4>2. QED
        BY <2>3, <4>1 DEF CloseEntry, Account
    <3> HIDE DEF l
    <3>4. QED
      BY <3>2, <3>3
  <2>4. QED
    BY <2>1, <2>2, <2>3 DEF OnFill
<1>3. CASE UNCHANGED <<state, peak>>
  BY <1>3
<1>4. QED
  BY <1>1, <1>2, <1>3 DEF Next, RefreshFetch, Signal, LocalStep, CheckCircuitBreaker,
     CheckDailyLoss, CheckDrawdown, CheckPositionCount, CheckExpiry, CheckMargin,
     TripExchange, TripReason, FetchInitialMargin, Submit, SubmitFails, Execute,
     CheckVars, account, vars

\* risk_manager.cpp:96-101,134-137 -- the account never exceeds the peak.
THEOREM PeakIsUpperBound == Spec => []PeakDominates
<1>1. Init => PeakDominates
  <2> SUFFICES ASSUME Init PROVE PeakDominates
    OBVIOUS
  <2>1. state \in Account
    BY InitTypes DEF TypeOK
  <2>2. QED
    BY <2>1 DEF Init, PeakDominates, Account
<1>2. QED
  BY <1>1, PeakStep, TypeCorrect, PTL DEF Spec

\* on_fill() adds an entry only when none of the other side is left.
LEMMA BookStep == TypeOK /\ OneSidedBook /\ [Next]_vars => OneSidedBook'
<1> SUFFICES ASSUME TypeOK, OneSidedBook, [Next]_vars PROVE OneSidedBook'
  OBVIOUS
<1>1. CASE DeliverFill
  <2> DEFINE f == Head(stream)
  <2>1. f \in Fill /\ OnFill(f)
    BY <1>1 DEF DeliverFill, TypeOK
  <2>2. ASSUME NEW t \in Opposite(f.buy), CloseEntry(f, t) PROVE OneSidedBook'
    BY <2>2 DEF CloseEntry, OneSidedBook
  <2>3. CASE Opposite(f.buy) = {} /\ OpenEntry(f)
    <3>1. \A t \in DOMAIN openPos : openPos[t].qty \in Int \ {0}
      BY DEF TypeOK, Entry
    <3>2. \A t \in DOMAIN openPos : (openPos[t].qty > 0) = f.buy
      BY <2>1, <2>3, <3>1 DEF Opposite, Fill
    <3>3. \A t \in DOMAIN openPos' : (openPos'[t].qty > 0) = f.buy
      BY <2>1, <2>3, <3>2 DEF OpenEntry, Fill
    <3>4. QED
      BY <3>3 DEF OneSidedBook
  <2>4. QED
    BY <2>1, <2>2, <2>3 DEF OnFill
<1>2. CASE UNCHANGED openPos
  BY <1>2 DEF OneSidedBook
<1>3. QED
  BY <1>1, <1>2 DEF Next, RefreshFetch, RefreshStore, Signal, LocalStep,
     CheckCircuitBreaker, CheckDailyLoss, CheckDrawdown, CheckPositionCount, CheckExpiry,
     CheckMargin, TripExchange, TripReason, FetchInitialMargin, Submit, SubmitFails,
     Execute, CheckVars, account, vars

\* risk_manager.cpp:114-150 -- open_pos_ never mixes long and short entries.
THEOREM BookIsOneSided == Spec => []OneSidedBook
<1>1. Init => OneSidedBook
  BY DEF Init, OneSidedBook
<1>2. QED
  BY <1>1, BookStep, TypeCorrect, PTL DEF Spec

-----------------------------------------------------------------------------
(* The circuit breaker *)

\* Nobody gets past check_circuit_breaker() once the breaker is tripped.
LEMMA BudgetStep == TypeOK /\ EntryBudget /\ [Next]_vars => EntryBudget'
<1> SUFFICES ASSUME TypeOK, EntryBudget, [Next]_vars PROVE EntryBudget'
  OBVIOUS
<1> USE DEF EntryBudget, MayEnter, PastBreaker
<1>0. /\ pc \in [Runners -> Pcs] /\ extra \in [Runners -> Nat] /\ tripped \in BOOLEAN
      /\ dir \in [Runners -> {"None", "Buy", "Sell", "Close"}]
  BY DEF TypeOK
<1>1. ASSUME NEW r \in Runners, NEW d \in {"Buy", "Sell", "Close"}, Signal(r, d)
      PROVE  EntryBudget'
  BY <1>0, <1>1 DEF Signal, CheckVars, breaker
<1>2. ASSUME NEW r \in Runners, CheckCircuitBreaker(r) PROVE EntryBudget'
  BY <1>0, <1>2 DEF CheckCircuitBreaker, Goto, Reject, CheckVars, breaker
<1>3. ASSUME NEW r \in Runners,
             \/ CheckDailyLoss(r) \/ CheckDrawdown(r) \/ CheckPositionCount(r)
             \/ CheckExpiry(r) \/ FetchInitialMargin(r) \/ CheckMargin(r)
      PROVE  EntryBudget'
  BY <1>0, <1>3 DEF CheckDailyLoss, CheckDrawdown, CheckPositionCount, CheckExpiry,
     FetchInitialMargin, CheckMargin, Goto, Reject, Return, CheckVars, breaker
<1>4. ASSUME NEW r \in Runners, TripExchange(r) \/ TripReason(r) \/ SubmitFails(r)
      PROVE  EntryBudget'
  BY <1>0, <1>4 DEF TripExchange, TripReason, SubmitFails, Goto, Return, CheckVars, breaker
<1>5. ASSUME NEW r \in Runners, Submit(r) PROVE EntryBudget'
  BY <1>0, <1>5 DEF Submit, Return, breaker
<1>6. CASE UNCHANGED <<pc, dir, tripped, extra>>
  BY <1>6
<1>7. QED
  BY <1>1, <1>2, <1>3, <1>4, <1>5, <1>6 DEF Next, LocalStep, RefreshFetch, RefreshStore,
     DeliverFill, Execute, breaker, thread, vars

\* strategy_runner.hpp:251-266 with risk_manager.cpp:154-158,202-203 -- after the
\* trip a runner submits at most the entry whose check was already under way.
THEOREM AtMostOneMoreEntry == Spec => []OneMoreEntry
<1>1. Init => EntryBudget
  BY DEF Init, EntryBudget, MayEnter, PastBreaker
<1>2. EntryBudget => OneMoreEntry
  BY DEF EntryBudget, OneMoreEntry
<1>3. QED
  BY <1>1, <1>2, BudgetStep, TypeCorrect, PTL DEF Spec

\* The winner of tripped_.exchange() owns trip_reason_ until it has written it.
LEMMA OwnerStep == TypeOK /\ ReasonOwner /\ [Next]_vars => ReasonOwner'
<1> SUFFICES ASSUME TypeOK, ReasonOwner, [Next]_vars PROVE ReasonOwner'
  OBVIOUS
<1> USE DEF ReasonOwner
<1>0. /\ pc \in [Runners -> Pcs] /\ tripped \in BOOLEAN
      /\ why \in [Runners -> Causes \cup {"none", "breaker"}]
  BY DEF TypeOK
<1>1. ASSUME NEW r \in Runners, NEW d \in {"Buy", "Sell", "Close"}, Signal(r, d)
      PROVE  ReasonOwner'
  BY <1>0, <1>1 DEF Signal, CheckVars, breaker
<1>2. ASSUME NEW r \in Runners,
             \/ CheckCircuitBreaker(r) \/ CheckDailyLoss(r) \/ CheckDrawdown(r)
             \/ CheckPositionCount(r) \/ CheckExpiry(r) \/ CheckMargin(r)
      PROVE  ReasonOwner'
  BY <1>0, <1>2 DEF CheckCircuitBreaker, CheckDailyLoss, CheckDrawdown,
     CheckPositionCount, CheckExpiry, CheckMargin, Goto, Reject, Return, CheckVars,
     breaker, Causes
<1>3. ASSUME NEW r \in Runners, FetchInitialMargin(r) \/ Submit(r) \/ SubmitFails(r)
      PROVE  ReasonOwner'
  BY <1>0, <1>3 DEF FetchInitialMargin, Submit, SubmitFails, Goto, Return, CheckVars,
     breaker
<1>4. ASSUME NEW r \in Runners, TripExchange(r) PROVE ReasonOwner'
  BY <1>0, <1>4 DEF TripExchange, Goto, Return
<1>5. ASSUME NEW r \in Runners, TripReason(r) PROVE ReasonOwner'
  BY <1>0, <1>5 DEF TripReason, Return
<1>6. CASE UNCHANGED <<pc, why, tripped, reason>>
  BY <1>6
<1>7. QED
  BY <1>1, <1>2, <1>3, <1>4, <1>5, <1>6 DEF Next, LocalStep, RefreshFetch, RefreshStore,
     DeliverFill, Execute, breaker, thread, vars

\* risk_manager.cpp:154-157 -- trip_reason_ is written once and names a limit.
THEOREM ReasonWrittenOnce == Spec => ReasonIsFirstCause
<1>1. Init => ReasonOwner
  BY DEF Init, ReasonOwner
<1>2. ReasonOwner /\ [Next]_vars =>
        [reason' # reason => reason = "none" /\ reason' \in Causes /\ tripped]_vars
  <2> SUFFICES ASSUME ReasonOwner, Next, reason' # reason
               PROVE  reason = "none" /\ reason' \in Causes /\ tripped
    BY DEF vars, breaker
  <2>1. \E r \in Runners : TripReason(r)
    BY DEF Next, LocalStep, RefreshFetch, RefreshStore, DeliverFill, Execute, Signal,
       CheckCircuitBreaker, CheckDailyLoss, CheckDrawdown, CheckPositionCount,
       CheckExpiry, CheckMargin, TripExchange, FetchInitialMargin, Submit, SubmitFails,
       CheckVars, breaker
  <2>2. QED
    BY <2>1 DEF TripReason, ReasonOwner
<1>3. QED
  BY <1>1, <1>2, OwnerStep, TypeCorrect, PTL DEF Spec, ReasonIsFirstCause
=============================================================================
