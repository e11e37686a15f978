--------------------------- MODULE BookFlowProofs ---------------------------
(***************************************************************************)
(* Proofs about what a book event goes through: BookFeed, from the stream  *)
(* to the queue, and OrderFlow, from the queue to the votes.  They hold    *)
(* for any prices, sizes, windows and thresholds, and any number of        *)
(* messages, breaks, events and trades.                                    *)
(***************************************************************************)
EXTENDS BookFeed, OrderFlow, FiniteSetTheorems, SequenceTheorems, WellFoundedInduction, TLAPS

-----------------------------------------------------------------------------
(* Induction on numbers, and the messages one after the other *)

\* Every set of numbers has a least one.
LEMMA LeastNumber == \A T \in SUBSET Nat : T # {} => \E n \in T : \A m \in T : n <= m
<1> DEFINE R == OpToRel(<, Nat)
<1>1. IsWellFoundedOn(R, Nat)
  BY NatLessThanWellFounded
<1>2. \A x, y \in Nat : x < y => <<x, y>> \in R
  BY DEF OpToRel
<1> HIDE DEF R
<1> SUFFICES ASSUME NEW T \in SUBSET Nat, T # {} PROVE \E n \in T : \A m \in T : n <= m
  OBVIOUS
<1>3. PICK n \in T : \A m \in T : ~ (<<m, n>> \in R)
  BY <1>1, WFMin
<1>4. ASSUME NEW m \in T PROVE n <= m
  <2>1. n \in Nat /\ m \in Nat /\ ~ (m < n)
    BY <1>2, <1>3
  <2> QED  BY <2>1
<1> QED  BY <1>4

\* The states f of a book b while the messages w are read
Passes(f, b, w) ==
  /\ f \in [0..Len(w) -> Books] /\ f[0] = b
  /\ \A k \in 1..Len(w) : f[k] = ApplyRows(f[k - 1], w[k])

\* The last of them is what Replay computes.
LEMMA ReplayIsLast ==
  ASSUME NEW b, NEW w \in Seq(SUBSET Row), NEW f, Passes(f, b, w)
  PROVE  Replay(b, w) = f[Len(w)]
<1> DEFINE Solves(g) ==
             g = [n \in 0..Len(w) |-> IF n = 0 THEN b ELSE ApplyRows(g[n - 1], w[n])]
           state == CHOOSE g : Solves(g)
<1>0. Len(w) \in Nat
  OBVIOUS
<1>1. Replay(b, w) = state[Len(w)]
  BY DEF Replay
<1>2. Solves(f)
  <2>1. \A n \in 0..Len(w) : f[n] = IF n = 0 THEN b ELSE ApplyRows(f[n - 1], w[n])
    BY <1>0 DEF Passes
  <2>2. f = [n \in 0..Len(w) |-> f[n]]
    BY DEF Passes
  <2> QED  BY <2>1, <2>2
<1>3. Solves(state)
  <2> HIDE DEF Solves
  <2> QED  BY <1>2, Zenon
<1> HIDE DEF state
<1>4. \A n \in 0..Len(w) : state[n] = IF n = 0 THEN b ELSE ApplyRows(state[n - 1], w[n])
  BY <1>3
<1>5. ASSUME state[Len(w)] # f[Len(w)] PROVE FALSE
  <2> DEFINE T == {n \in Nat : n <= Len(w) /\ state[n] # f[n]}
  <2>1. T \in SUBSET Nat /\ Len(w) \in T
    BY <1>0, <1>5
  <2>2. PICK n \in T : \A m \in T : n <= m
    BY <2>1, LeastNumber
  <2>3. n # 0
    BY <1>0, <1>4 DEF Passes
  <2>4. n - 1 \in Nat /\ n - 1 \notin T /\ n \in 1..Len(w) /\ n \in 0..Len(w)
    BY <2>2, <2>3
  <2>5. state[n - 1] = f[n - 1]
    BY <2>4
  <2>6. f[n] = ApplyRows(f[n - 1], w[n])
    BY <2>4 DEF Passes
  <2> QED  BY <1>4, <2>3, <2>4, <2>5, <2>6
<1> QED  BY <1>1, <1>5

-----------------------------------------------------------------------------
(* Books and rows *)

\* Reading rows keeps a book a book.
LEMMA ApplyRowsType ==
  ASSUME NEW b \in Books, NEW rows \in SUBSET Row
  PROVE  ApplyRows(b, rows) \in Books
<1>1. ASSUME NEW s \in Sides, NEW p \in Prices, RowAt(rows, s, p) # {}
      PROVE  (CHOOSE r \in RowAt(rows, s, p) : TRUE).size \in 0..MaxSize
  <2> DEFINE c == CHOOSE r \in RowAt(rows, s, p) : TRUE
  <2>1. c \in RowAt(rows, s, p)
    BY <1>1
  <2> HIDE DEF c
  <2>2. c \in Row
    BY <2>1 DEF RowAt
  <2>3. c.size \in 0..MaxSize
    BY <2>2 DEF Row
  <2> QED  BY <2>3 DEF c
<1>2. \A s \in Sides, p \in Prices : b[s][p] \in 0..MaxSize
  BY DEF Books
<1> QED  BY <1>1, <1>2 DEF ApplyRows, Books

\* The rows between two books lead from one to the other.
LEMMA RowsLead ==
  ASSUME NEW b \in Books, NEW c \in Books
  PROVE  Rows(b, c) \in SUBSET Row /\ ApplyRows(b, Rows(b, c)) = c
<1>0. \A s \in Sides, p \in Prices : b[s][p] \in 0..MaxSize /\ c[s][p] \in 0..MaxSize
  BY DEF Books
<1>1. Rows(b, c) \in SUBSET Row
  BY <1>0 DEF Rows, Differ, Entries, Row
<1>2. ASSUME NEW s \in Sides, NEW p \in Prices
      PROVE  ApplyRows(b, Rows(b, c))[s][p] = c[s][p]
  <2> DEFINE at == RowAt(Rows(b, c), s, p)
             row == [side |-> s, price |-> p, size |-> c[s][p]]
  <2>1. \A r \in at : r = row
    BY DEF RowAt, Rows, Differ, Entries
  <2>2. b[s][p] # c[s][p] => row \in at
    <3> SUFFICES ASSUME b[s][p] # c[s][p] PROVE row \in at
      OBVIOUS
    <3>1. <<s, p>> \in Differ(b, c)
      BY DEF Differ, Entries
    <3>2. row \in Rows(b, c)
      BY <3>1 DEF Rows
    <3> QED  BY <3>2 DEF RowAt
  <2>3. at # {} => (CHOOSE r \in at : TRUE) = row
    BY <2>1
  <2>4. ApplyRows(b, Rows(b, c))[s][p] =
          IF at = {} THEN b[s][p] ELSE (CHOOSE r \in at : TRUE).size
    BY DEF ApplyRows
  <2>5. row.size = c[s][p]
    OBVIOUS
  <2> HIDE DEF at, row
  <2> QED  BY <2>2, <2>3, <2>4, <2>5
<1>3. ApplyRows(b, Rows(b, c)) \in Books
  BY <1>1, ApplyRowsType
<1>4. ASSUME NEW d \in Books, \A s \in Sides, p \in Prices : d[s][p] = c[s][p] PROVE d = c
  <2>1. \A s \in Sides : d[s] = c[s]
    BY <1>4 DEF Books
  <2> QED  BY <2>1 DEF Books
<1> QED  BY <1>1, <1>2, <1>3, <1>4

\* An empty book is one, and is not crossed.
LEMMA EmptyBook == Empty \in Books /\ Uncrossed(Empty)
BY BookAssumption DEF Empty, Books, Uncrossed, Sides

\* A level's size is a number; an empty book has none.
LEMMA LevelSizes ==
  ASSUME NEW s \in Sides, NEW k
  PROVE  LevelSize(Empty, s, k) = 0 /\ \A b \in Books : LevelSize(b, s, k) \in Int
<1>1. LevelSize(Empty, s, k) = 0
  BY DEF LevelSize, Empty
<1>2. ASSUME NEW b \in Books PROVE LevelSize(b, s, k) \in Int
  <2> DEFINE at == {p \in Prices : b[s][p] > 0 /\ Rank(b, s, p) = k}
  <2>1. LevelSize(b, s, k) = IF at = {} THEN 0 ELSE b[s][CHOOSE p \in at : TRUE]
    BY DEF LevelSize
  <2>2. at # {} => (CHOOSE p \in at : TRUE) \in Prices
    <3>1. at # {} => (CHOOSE p \in at : TRUE) \in at
      OBVIOUS
    <3> QED  BY <3>1
  <2>3. \A p \in Prices : b[s][p] \in Int
    BY DEF Books
  <2> QED  BY <2>1, <2>2, <2>3
<1> QED  BY <1>1, <1>2

-----------------------------------------------------------------------------
(* The invariant *)

\* The messages on the way lead the maps through uncrossed books, to the exchange's
\* one while the stream is open.
Leads ==
  \E f : /\ Passes(f, book, wire)
         /\ \A k \in 1..Len(wire) : Uncrossed(f[k])
         /\ conn = "open" => f[Len(wire)] = ex

FeedInv == TypeOK /\ Uncrossed(ex) /\ Uncrossed(prev) /\ Leads /\ EventsAddUp

\* A number of refused events
LEMMA RefusedType ==
  ASSUME NEW b, NEW c, NEW refused \in SUBSET Changed(b, c)
  PROVE  Cardinality(refused) \in Nat
<1>1. IsFiniteSet(Depth)
  BY FS_Interval, BookAssumption DEF Depth
<1> QED  BY <1>1, FS_Subset, FS_CardinalityType DEF Changed

\* The counters of the bounds
Counters == [changes : 0..MaxChanges, breaks : 0..MaxBreaks, lost : 0..MaxLost]

\* The counters stay within their bounds when one of them, below its bound, moves on.
LEMMA CounterTypes ==
  ASSUME NEW u \in Counters
  PROVE  /\ u.changes < MaxChanges => [u EXCEPT !.changes = @ + 1] \in Counters
         /\ u.breaks < MaxBreaks => [u EXCEPT !.breaks = @ + 1] \in Counters
         /\ \A n \in Nat : u.lost + n <= MaxLost => [u EXCEPT !.lost = @ + n] \in Counters
<1>0. MaxChanges \in Nat /\ MaxBreaks \in Nat /\ MaxLost \in Nat
  BY BookAssumption
<1>1. u.changes \in 0..MaxChanges /\ u.breaks \in 0..MaxBreaks /\ u.lost \in 0..MaxLost
  BY DEF Counters
<1>2. \A n \in 0..MaxChanges : [u EXCEPT !.changes = n] \in Counters
  BY DEF Counters
<1>3. \A n \in 0..MaxBreaks : [u EXCEPT !.breaks = n] \in Counters
  BY DEF Counters
<1>4. \A n \in 0..MaxLost : [u EXCEPT !.lost = n] \in Counters
  BY DEF Counters
<1> QED  BY <1>0, <1>1, <1>2, <1>3, <1>4

\* No message, no event
LEMMA FeedInit == Init => FeedInv
<1> SUFFICES ASSUME Init PROVE FeedInv
  OBVIOUS
<1>1. TypeOK
  <2>1. wire \in Seq(SUBSET Row)
    BY DEF Init
  <2> QED  BY <2>1, EmptyBook, BookAssumption DEF Init, TypeOK
<1>2. Uncrossed(ex) /\ Uncrossed(prev)
  BY EmptyBook DEF Init
<1>3. Leads
  <2> DEFINE f == [n \in 0..0 |-> book]
  <2>1. Len(wire) = 0 /\ conn # "open" /\ book \in Books
    BY EmptyBook DEF Init
  <2>2. f \in [0..Len(wire) -> Books] /\ f[0] = book
    BY <2>1
  <2> HIDE DEF f
  <2> QED  BY <2>1, <2>2 DEF Leads, Passes
<1>4. EventsAddUp
  BY LevelSizes DEF Init, EventsAddUp, Sides
<1> QED  BY <1>1, <1>2, <1>3, <1>4 DEF FeedInv

\* The exchange sends its changes as rows.
LEMMA ExchangeStep == FeedInv /\ ExchangeMoves => FeedInv'
<1> SUFFICES ASSUME FeedInv, ExchangeMoves PROVE FeedInv'
  OBVIOUS
<1> TypeOK /\ Leads
  BY DEF FeedInv
<1>1. PICK e \in Entries, d \in Entries, x \in 0..MaxSize, y \in 0..MaxSize :
        /\ ex' = [ex EXCEPT ![e[1]][e[2]] = x, ![d[1]][d[2]] = y] /\ Uncrossed(ex')
        /\ wire' = IF conn = "open" THEN Append(wire, Rows(ex, ex')) ELSE wire
  <2>1. PICK e \in Entries, d \in Entries, x \in 0..MaxSize, y \in 0..MaxSize :
          LET new == [ex EXCEPT ![e[1]][e[2]] = x, ![d[1]][d[2]] = y]
          IN  /\ new # ex /\ Uncrossed(new)
              /\ ex' = new
              /\ wire' = IF conn = "open" THEN Append(wire, Rows(ex, new)) ELSE wire
    BY Zenon DEF ExchangeMoves
  <2> DEFINE new == [ex EXCEPT ![e[1]][e[2]] = x, ![d[1]][d[2]] = y]
  <2>2. /\ ex' = new /\ Uncrossed(new)
        /\ wire' = IF conn = "open" THEN Append(wire, Rows(ex, new)) ELSE wire
    BY <2>1, Zenon
  <2>3. new = [ex EXCEPT ![e[1]][e[2]] = x, ![d[1]][d[2]] = y]
    OBVIOUS
  <2> HIDE DEF new
  <2>4. /\ ex' = [ex EXCEPT ![e[1]][e[2]] = x, ![d[1]][d[2]] = y] /\ Uncrossed(ex')
        /\ wire' = IF conn = "open" THEN Append(wire, Rows(ex, ex')) ELSE wire
    BY <2>2, <2>3
  <2> QED  BY <2>4, Zenon
<1>2. ex' \in Books
  <2>1. ex \in Books /\ e[1] \in Sides /\ e[2] \in Prices /\ d[1] \in Sides /\ d[2] \in Prices
    BY DEF TypeOK, Entries
  <2> DEFINE b == [ex EXCEPT ![e[1]][e[2]] = x]
  <2>2. b \in Books
    BY <2>1 DEF Books
  <2>3. ex' = [b EXCEPT ![d[1]][d[2]] = y]
    BY <1>1
  <2> HIDE DEF b
  <2> QED  BY <2>1, <2>2, <2>3 DEF Books
<1>3. /\ UNCHANGED <<conn, book, prev, flow, lost>> /\ wire \in Seq(SUBSET Row) /\ ex \in Books
      /\ used' = [used EXCEPT !.changes = @ + 1] /\ used.changes < MaxChanges
  BY DEF ExchangeMoves, TypeOK
<1>4. Rows(ex, ex') \in SUBSET Row /\ ApplyRows(ex, Rows(ex, ex')) = ex'
  BY <1>2, <1>3, RowsLead
<1>5. wire' \in Seq(SUBSET Row)
  <2>1. Append(wire, Rows(ex, ex')) \in Seq(SUBSET Row)
    BY <1>3, <1>4, AppendProperties
  <2> QED  BY <1>1, <1>3, <2>1
<1>6. used' \in [changes : 0..MaxChanges, breaks : 0..MaxBreaks, lost : 0..MaxLost]
  BY <1>3, CounterTypes DEF TypeOK, Counters
<1>7. TypeOK'
  BY <1>2, <1>3, <1>5, <1>6 DEF TypeOK
<1>8. Leads'
  <2>1. PICK f : /\ Passes(f, book, wire) /\ \A k \in 1..Len(wire) : Uncrossed(f[k])
                 /\ conn = "open" => f[Len(wire)] = ex
    BY DEF Leads
  <2>2. CASE conn = "open"
    <3> DEFINE w == Append(wire, Rows(ex, ex'))
               g == [n \in 0..Len(w) |-> IF n <= Len(wire) THEN f[n] ELSE ex']
    <3>1. /\ Len(wire) \in Nat /\ Len(w) = Len(wire) + 1 /\ w[Len(wire) + 1] = Rows(ex, ex')
          /\ \A k \in 1..Len(wire) : w[k] = wire[k]
      BY <1>3, <1>4
    <3>2. wire' = w
      BY <1>1, <2>2
    <3> HIDE DEF w
    <3>3. g \in [0..Len(w) -> Books] /\ g[0] = book
      BY <1>2, <2>1, <3>1 DEF Passes
    <3>4. ASSUME NEW k \in 1..Len(w) PROVE g[k] = ApplyRows(g[k - 1], w[k]) /\ Uncrossed(g[k])
      <4>1. CASE k <= Len(wire)
        <5>1. k \in 1..Len(wire) /\ g[k] = f[k] /\ g[k - 1] = f[k - 1] /\ w[k] = wire[k]
          BY <3>1, <4>1
        <5> QED  BY <2>1, <5>1 DEF Passes
      <4>2. CASE k = Len(wire) + 1
        <5>1. g[k] = ex' /\ g[k - 1] = f[Len(wire)] /\ w[k] = Rows(ex, ex')
          BY <3>1, <4>2
        <5> QED  BY <1>1, <1>4, <2>1, <2>2, <5>1
      <4> QED  BY <3>1, <4>1, <4>2
    <3>5. g[Len(w)] = ex'
      BY <3>1
    <3> HIDE DEF g
    <3> QED  BY <1>3, <3>2, <3>3, <3>4, <3>5 DEF Leads, Passes
  <2>3. CASE conn # "open"
    BY <1>1, <1>3, <2>1, <2>3 DEF Leads
  <2> QED  BY <2>2, <2>3
<1>9. Uncrossed(ex') /\ Uncrossed(prev')
  BY <1>1, <1>3 DEF FeedInv
<1>10. EventsAddUp'
  BY <1>3 DEF FeedInv, EventsAddUp
<1> QED  BY <1>7, <1>8, <1>9, <1>10 DEF FeedInv

\* A break cuts the messages short.
LEMMA BreakStep == FeedInv /\ StreamBreaks => FeedInv'
<1> SUFFICES ASSUME FeedInv, StreamBreaks PROVE FeedInv'
  OBVIOUS
<1> TypeOK /\ Leads
  BY DEF FeedInv
<1>1. PICK n \in 0..Len(wire) : wire' = SubSeq(wire, 1, n)
  BY DEF StreamBreaks
<1>2. /\ UNCHANGED <<ex, book, prev, flow, lost>> /\ wire \in Seq(SUBSET Row)
      /\ conn' = "ended" /\ used' = [used EXCEPT !.breaks = @ + 1] /\ used.breaks < MaxBreaks
  BY DEF StreamBreaks, TypeOK
<1>3. /\ wire' \in Seq(SUBSET Row) /\ Len(wire') = n /\ Len(wire) \in Nat
      /\ \A k \in 1..n : wire'[k] = wire[k]
  BY <1>1, <1>2
<1>4. TypeOK'
  <2>1. used' \in [changes : 0..MaxChanges, breaks : 0..MaxBreaks, lost : 0..MaxLost]
    BY <1>2, CounterTypes DEF TypeOK, Counters
  <2> QED  BY <1>2, <1>3, <2>1 DEF TypeOK
<1>5. Leads'
  <2>1. PICK f : Passes(f, book, wire) /\ \A k \in 1..Len(wire) : Uncrossed(f[k])
    BY DEF Leads
  <2> DEFINE g == [k \in 0..n |-> f[k]]
  <2>2. g \in [0..n -> Books] /\ g[0] = book
    BY <1>3, <2>1 DEF Passes
  <2>3. ASSUME NEW k \in 1..n PROVE g[k] = ApplyRows(g[k - 1], wire[k]) /\ Uncrossed(g[k])
    <3>1. k \in 1..Len(wire) /\ g[k] = f[k] /\ g[k - 1] = f[k - 1]
      BY <1>3
    <3> QED  BY <2>1, <3>1 DEF Passes
  <2> HIDE DEF g
  <2> QED  BY <1>2, <1>3, <2>2, <2>3 DEF Leads, Passes
<1> QED  BY <1>2, <1>4, <1>5 DEF FeedInv, EventsAddUp

\* A new subscription starts from nothing with the whole book.
LEMMA ReconnectStep == FeedInv /\ Reconnect => FeedInv'
<1> SUFFICES ASSUME FeedInv, Reconnect PROVE FeedInv'
  OBVIOUS
<1> TypeOK
  BY DEF FeedInv
<1>1. /\ UNCHANGED <<ex, prev, flow, lost, used>> /\ book' = Empty /\ conn' = "open"
      /\ wire' = <<Rows(Empty, ex)>> /\ ex \in Books
  BY DEF Reconnect, TypeOK
<1>2. Rows(Empty, ex) \in SUBSET Row /\ ApplyRows(Empty, Rows(Empty, ex)) = ex
  BY <1>1, EmptyBook, RowsLead
<1>3. wire' \in Seq(SUBSET Row) /\ Len(wire') = 1 /\ wire'[1] = Rows(Empty, ex)
  BY <1>1, <1>2
<1>4. TypeOK'
  BY <1>1, <1>3, EmptyBook DEF TypeOK
<1>5. Leads'
  <2> DEFINE f == [n \in 0..1 |-> IF n = 0 THEN Empty ELSE ex]
  <2>1. f \in [0..1 -> Books] /\ f[0] = Empty /\ f[1] = ex
    BY <1>1, EmptyBook
  <2> HIDE DEF f
  <2>2. \A k \in 1..1 : f[k] = ApplyRows(f[k - 1], wire'[k]) /\ Uncrossed(f[k])
    BY <1>2, <1>3, <2>1 DEF FeedInv
  <2> QED  BY <1>1, <1>3, <2>1, <2>2 DEF Leads, Passes
<1> QED  BY <1>1, <1>4, <1>5 DEF FeedInv, EventsAddUp

\* A message moves the maps to the next book, and its events make up the difference.
LEMMA ReadStep == FeedInv /\ ReadMessage => FeedInv'
<1> SUFFICES ASSUME FeedInv, ReadMessage PROVE FeedInv'
  OBVIOUS
<1> TypeOK /\ Leads
  BY DEF FeedInv
<1> DEFINE new == ApplyRows(book, Head(wire))
<1>1. PICK refused \in SUBSET Changed(prev, new) :
        /\ used.lost + Cardinality(refused) <= MaxLost /\ Emit(new, refused)
        /\ used' = [used EXCEPT !.lost = @ + Cardinality(refused)]
  BY DEF ReadMessage
<1>2. /\ UNCHANGED <<ex, conn>> /\ wire # <<>> /\ wire' = Tail(wire) /\ book' = new
      /\ wire \in Seq(SUBSET Row) /\ book \in Books /\ prev \in Books
  BY DEF ReadMessage, TypeOK
<1>3. Head(wire) \in SUBSET Row /\ wire' \in Seq(SUBSET Row)
  BY <1>2
<1>4. new \in Books
  BY <1>2, <1>3, ApplyRowsType
<1> HIDE DEF new
<1>5. /\ prev' = new
      /\ flow' = [k \in Depth |-> IF k \in refused THEN flow[k] ELSE flow[k] + Delta(prev, new, k)]
      /\ lost' = [k \in Depth |-> IF k \in refused THEN lost[k] + Delta(prev, new, k) ELSE lost[k]]
  BY <1>1 DEF Emit
<1>6. \A k \in Depth : Delta(prev, new, k) \in Int
  <2>1. \A k \in Depth : \A s \in Sides : LevelSize(prev, s, k) \in Int /\ LevelSize(new, s, k) \in Int
    BY <1>2, <1>4, LevelSizes
  <2>2. \A k \in Depth :
          /\ LevelSize(prev, "bid", k) \in Int /\ LevelSize(prev, "ask", k) \in Int
          /\ LevelSize(new, "bid", k) \in Int /\ LevelSize(new, "ask", k) \in Int
    BY <2>1 DEF Sides
  <2> QED  BY <2>2 DEF Delta
<1>7. TypeOK'
  <2>1. Cardinality(refused) \in Nat
    BY RefusedType
  <2>2. used' \in [changes : 0..MaxChanges, breaks : 0..MaxBreaks, lost : 0..MaxLost]
    BY <1>1, <2>1, CounterTypes DEF TypeOK, Counters
  <2>3. flow' \in [Depth -> Int] /\ lost' \in [Depth -> Int]
    BY <1>5, <1>6 DEF TypeOK
  <2> QED  BY <1>2, <1>3, <1>4, <1>5, <2>2, <2>3 DEF TypeOK
<1>8. Leads' /\ Uncrossed(new)
  <2>1. PICK f : /\ Passes(f, book, wire) /\ \A k \in 1..Len(wire) : Uncrossed(f[k])
                 /\ conn = "open" => f[Len(wire)] = ex
    BY DEF Leads
  <2>2. /\ Len(wire) \in Nat /\ Len(wire) > 0 /\ Len(wire') = Len(wire) - 1
        /\ Head(wire) = wire[1] /\ \A k \in 1..Len(wire') : wire'[k] = wire[k + 1]
    BY <1>2
  <2>3. f[1] = new /\ Uncrossed(new)
    <3>1. 1 \in 1..Len(wire) /\ 1 - 1 = 0
      BY <2>2
    <3>2. f[1] = ApplyRows(f[1 - 1], wire[1]) /\ Uncrossed(f[1]) /\ f[0] = book
      BY <2>1, <3>1 DEF Passes
    <3> QED  BY <2>2, <3>1, <3>2 DEF new
  <2> DEFINE g == [k \in 0..Len(wire') |-> f[k + 1]]
  <2>4. g \in [0..Len(wire') -> Books] /\ g[0] = new
    BY <2>1, <2>2, <2>3 DEF Passes
  <2>5. ASSUME NEW k \in 1..Len(wire') PROVE g[k] = ApplyRows(g[k - 1], wire'[k]) /\ Uncrossed(g[k])
    <3>1. /\ k + 1 \in 1..Len(wire) /\ g[k] = f[k + 1] /\ g[k - 1] = f[k] /\ (k + 1) - 1 = k
          /\ wire'[k] = wire[k + 1]
      BY <2>2
    <3>2. f[k + 1] = ApplyRows(f[(k + 1) - 1], wire[k + 1]) /\ Uncrossed(f[k + 1])
      BY <2>1, <3>1 DEF Passes
    <3> QED  BY <3>1, <3>2
  <2>6. conn' = "open" => g[Len(wire')] = ex'
    <3>1. g[Len(wire')] = f[Len(wire)]
      BY <2>2
    <3> QED  BY <1>2, <2>1, <3>1
  <2> HIDE DEF g
  <2> QED  BY <1>2, <2>3, <2>4, <2>5, <2>6 DEF Leads, Passes
<1>9. EventsAddUp'
  <2> SUFFICES ASSUME NEW k \in Depth
               PROVE  flow'[k] + lost'[k] = LevelSize(new, "bid", k) - LevelSize(new, "ask", k)
    BY <1>5 DEF EventsAddUp
  <2>1. /\ flow[k] \in Int /\ lost[k] \in Int
        /\ flow[k] + lost[k] = LevelSize(prev, "bid", k) - LevelSize(prev, "ask", k)
    BY DEF TypeOK, FeedInv, EventsAddUp
  <2>2. flow'[k] + lost'[k] = (flow[k] + lost[k]) + Delta(prev, new, k)
    BY <1>5, <1>6, <2>1
  <2>3. /\ LevelSize(prev, "bid", k) \in Int /\ LevelSize(prev, "ask", k) \in Int
        /\ LevelSize(new, "bid", k) \in Int /\ LevelSize(new, "ask", k) \in Int
    BY <1>2, <1>4, LevelSizes DEF Sides
  <2> QED  BY <2>1, <2>2, <2>3 DEF Delta
<1> QED  BY <1>2, <1>5, <1>7, <1>8, <1>9 DEF FeedInv

\* Every action keeps the invariant.
LEMMA FeedStep == FeedInv /\ [Next]_vars => FeedInv'
<1> SUFFICES ASSUME FeedInv, [Next]_vars PROVE FeedInv'
  OBVIOUS
<1>1. CASE UNCHANGED vars
  BY <1>1 DEF FeedInv, TypeOK, Leads, EventsAddUp, vars
<1> QED  BY <1>1, ExchangeStep, BreakStep, ReconnectStep, ReadStep DEF Next

-----------------------------------------------------------------------------
(* Theorems *)

\* The maps and the messages on the way make up the exchange's book, for any book and
\* any number of breaks: clearing the maps before a new subscription is enough.
THEOREM BookFollows == Spec => []BookInSync
<1>1. Init => FeedInv
  BY FeedInit
<1>2. FeedInv /\ [Next]_vars => FeedInv'
  BY FeedStep
<1>3. FeedInv => BookInSync
  <2> SUFFICES ASSUME FeedInv, conn = "open" PROVE Replay(book, wire) = ex
    BY DEF BookInSync
  <2>1. PICK f : Passes(f, book, wire) /\ f[Len(wire)] = ex
    BY DEF FeedInv, Leads
  <2>2. wire \in Seq(SUBSET Row)
    BY DEF FeedInv, TypeOK
  <2> QED  BY <2>1, <2>2, ReplayIsLast
<1> QED  BY <1>1, <1>2, <1>3, PTL DEF Spec

\* market_data_client.cpp:282 -- the strategy is never shown a half-updated, crossed
\* book, however the messages are cut off by a break.
THEOREM NoCrossedBook == Spec => []NeverCrossed
<1>1. Init => FeedInv
  BY FeedInit
<1>2. FeedInv /\ [Next]_vars => FeedInv'
  BY FeedStep
<1>3. FeedInv => NeverCrossed
  BY DEF FeedInv, NeverCrossed
<1> QED  BY <1>1, <1>2, <1>3, PTL DEF Spec

\* The events of a level telescope: what the queue took and what it refused are
\* together the level's imbalance in the last state, across reconnections too.
THEOREM EventsTelescope == Spec => []EventsAddUp
<1>1. Init => FeedInv
  BY FeedInit
<1>2. FeedInv /\ [Next]_vars => FeedInv'
  BY FeedStep
<1>3. FeedInv => EventsAddUp
  BY DEF FeedInv
<1> QED  BY <1>1, <1>2, <1>3, PTL DEF Spec

-----------------------------------------------------------------------------
(* Powers of two *)

\* The powers up to an exponent
Doubles(g, n) ==
  g \in [0..n -> Nat \ {0}] /\ g[0] = 1 /\ \A k \in 1..n : g[k] = 2 * g[k - 1]

\* There is a table of the powers up to any exponent.
LEMMA TableExists == \A n \in Nat : \E g : Doubles(g, n)
<1> SUFFICES ASSUME NEW bad \in Nat, ~ \E g : Doubles(g, bad) PROVE FALSE
  OBVIOUS
<1> DEFINE T == {n \in Nat : ~ \E g : Doubles(g, n)}
<1>1. PICK n \in T : \A m \in T : n <= m
  BY LeastNumber
<1>2. n # 0
  <2>1. Doubles([k \in 0..0 |-> 1], 0)
    BY DEF Doubles
  <2> QED  BY <2>1
<1>3. n - 1 \in Nat /\ n - 1 \notin T
  BY <1>1, <1>2
<1>4. PICK g : Doubles(g, n - 1)
  BY <1>3
<1> DEFINE h == [k \in 0..n |-> IF k < n THEN g[k] ELSE 2 * g[n - 1]]
<1>5. h \in [0..n -> Nat \ {0}] /\ h[0] = 1
  BY <1>2, <1>3, <1>4 DEF Doubles
<1>6. ASSUME NEW k \in 1..n PROVE h[k] = 2 * h[k - 1]
  <2>1. CASE k < n
    <3>1. k \in 1..(n - 1) /\ k \in 0..n /\ k - 1 \in 0..n /\ k - 1 < n
      BY <2>1, <1>3
    <3>2. h[k] = g[k] /\ h[k - 1] = g[k - 1]
      BY <2>1, <3>1
    <3> QED  BY <3>1, <3>2, <1>4 DEF Doubles
  <2>2. CASE k = n
    <3>1. n \in 0..n /\ n - 1 \in 0..n /\ n - 1 < n /\ ~ (n < n)
      BY <1>3
    <3>2. h[n] = 2 * g[n - 1] /\ h[n - 1] = g[n - 1]
      BY <3>1
    <3> QED  BY <2>2, <3>2
  <2> QED  BY <2>1, <2>2
<1>7. Doubles(h, n)
  <2> HIDE DEF h
  <2> QED  BY <1>5, <1>6 DEF Doubles
<1> QED  BY <1>7

\* Two tables agree where both have an entry.
LEMMA TablesAgree ==
  ASSUME NEW m \in Nat, NEW n \in Nat, m <= n, NEW g, NEW h, Doubles(g, m), Doubles(h, n)
  PROVE  g[m] = h[m]
<1> DEFINE T == {k \in Nat : k <= m /\ g[k] # h[k]}
<1>1. ASSUME m \in T PROVE FALSE
  <2>1. PICK k \in T : \A j \in T : k <= j
    BY <1>1, LeastNumber
  <2>2. k # 0
    BY <2>1 DEF Doubles
  <2>3. k - 1 \in Nat /\ k - 1 \notin T /\ k \in 1..m /\ k \in 1..n
    BY <2>1, <2>2
  <2>4. g[k - 1] = h[k - 1]
    BY <2>3
  <2> QED  BY <2>1, <2>3, <2>4 DEF Doubles
<1> QED  BY <1>1

\* What Pow2 computes: it begins at 1 and doubles.
LEMMA PowDoubles ==
  /\ Pow2[0] = 1
  /\ \A n \in Nat : Pow2[n] \in Nat \ {0} /\ Pow2[n + 1] = 2 * Pow2[n]
<1> DEFINE Solves(g) == g = [n \in Nat |-> IF n = 0 THEN 1 ELSE 2 * g[n - 1]]
           table(n) == CHOOSE g : Doubles(g, n)
           f == [n \in Nat |-> table(n)[n]]
<1>1. \A n \in Nat : Doubles(table(n), n)
  BY TableExists, Zenon
<1> HIDE DEF table
<1>2. ASSUME NEW n \in Nat, n # 0 PROVE table(n)[n] = 2 * table(n - 1)[n - 1]
  <2>1. n - 1 \in Nat /\ n - 1 <= n /\ n \in 1..n
    BY <1>2
  <2>2. table(n - 1)[n - 1] = table(n)[n - 1]
    BY <1>1, <2>1, TablesAgree
  <2>3. table(n)[n] = 2 * table(n)[n - 1]
    BY <1>1, <2>1 DEF Doubles
  <2> QED  BY <2>2, <2>3
<1>3. table(0)[0] = 1
  BY <1>1 DEF Doubles
<1>4. \A n \in Nat : f[n] = IF n = 0 THEN 1 ELSE 2 * f[n - 1]
  BY <1>2, <1>3
<1>5. Solves(f)
  <2>1. f = [n \in Nat |-> f[n]]
    OBVIOUS
  <2> HIDE DEF f
  <2> QED  BY <1>4, <2>1
<1>6. Pow2 = CHOOSE g : Solves(g)
  BY DEF Pow2
<1>7. Solves(Pow2)
  <2> HIDE DEF Solves, f
  <2> QED  BY <1>5, <1>6, Zenon
<1>8. \A n \in Nat : Pow2[n] = IF n = 0 THEN 1 ELSE 2 * Pow2[n - 1]
  BY <1>7
<1>9. ASSUME NEW bad \in Nat, Pow2[bad] \notin Nat \ {0} PROVE FALSE
  <2> DEFINE T == {n \in Nat : Pow2[n] \notin Nat \ {0}}
  <2>1. PICK n \in T : \A m \in T : n <= m
    BY <1>9, LeastNumber
  <2>2. n # 0
    BY <1>8
  <2>3. n - 1 \in Nat /\ n - 1 \notin T
    BY <2>1, <2>2
  <2>4. Pow2[n] = 2 * Pow2[n - 1] /\ Pow2[n - 1] \in Nat \ {0}
    BY <1>8, <2>2, <2>3
  <2> QED  BY <2>4
<1>10. ASSUME NEW n \in Nat PROVE Pow2[n + 1] = 2 * Pow2[n]
  <2>1. n + 1 \in Nat /\ n + 1 # 0 /\ (n + 1) - 1 = n
    OBVIOUS
  <2> QED  BY <1>8, <2>1
<1> QED  BY <1>8, <1>9, <1>10

\* Exponents add up.
LEMMA PowSum == \A m, n \in Nat : Pow2[m + n] = Pow2[m] * Pow2[n]
<1> SUFFICES ASSUME NEW m \in Nat, NEW bad \in Nat, Pow2[m + bad] # Pow2[m] * Pow2[bad]
             PROVE  FALSE
  OBVIOUS
<1> DEFINE T == {n \in Nat : Pow2[m + n] # Pow2[m] * Pow2[n]}
<1>1. PICK n \in T : \A k \in T : n <= k
  BY LeastNumber
<1>2. n # 0
  <2>1. m + 0 = m /\ Pow2[m] \in Nat
    BY PowDoubles
  <2> QED  BY <2>1, PowDoubles
<1>3. n - 1 \in Nat /\ n - 1 \notin T
  BY <1>1, <1>2
<1>4. m + (n - 1) \in Nat /\ (n - 1) + 1 = n /\ (m + (n - 1)) + 1 = m + n
  BY <1>3
<1>5. /\ Pow2[m + n] = 2 * Pow2[m + (n - 1)] /\ Pow2[n] = 2 * Pow2[n - 1]
      /\ Pow2[m] \in Nat /\ Pow2[n - 1] \in Nat
  BY <1>3, <1>4, PowDoubles
<1>6. Pow2[m + (n - 1)] = Pow2[m] * Pow2[n - 1]
  BY <1>3
<1>7. \A x, y \in Nat : 2 * (x * y) = x * (2 * y)
  OBVIOUS
<1> QED  BY <1>1, <1>5, <1>6, <1>7

-----------------------------------------------------------------------------
(* The windows of trades *)

\* evict_old(): the first n go, all of them old; the next one stays.
LEMMA DropOldIs ==
  ASSUME NEW S, NEW seq \in Seq(S), NEW times \in [1..Len(seq) -> Int], NEW from \in Int
  PROVE  LET d == DropOld(seq, times, from)
         IN  /\ d \in Seq(S)
             /\ \E n \in 0..Len(seq) :
                  /\ Len(d) = Len(seq) - n /\ \A k \in 1..Len(d) : d[k] = seq[n + k]
                  /\ \A k \in 1..n : times[k] < from
                  /\ n < Len(seq) => times[n + 1] >= from
<1> DEFINE young == {k \in 1..Len(seq) : times[k] >= from}
           first == CHOOSE k \in young : \A j \in young : k <= j
           d == DropOld(seq, times, from)
<1>0. Len(seq) \in Nat /\ young \in SUBSET Nat
  OBVIOUS
<1>1. CASE young = {}
  <2>1. d = <<>>
    BY <1>1 DEF DropOld
  <2>2. \A k \in 1..Len(seq) : times[k] < from
    BY <1>1
  <2>3. d \in Seq(S) /\ Len(d) = Len(seq) - Len(seq) /\ Len(seq) \in 0..Len(seq)
    BY <1>0, <2>1
  <2> HIDE DEF d
  <2> QED  BY <1>0, <2>2, <2>3 DEF d
<1>2. CASE young # {}
  <2>1. d = SubSeq(seq, first, Len(seq))
    BY <1>2 DEF DropOld
  <2>2. \E k \in young : \A j \in young : k <= j
    BY <1>0, <1>2, LeastNumber
  <2>3. first \in young /\ \A j \in young : first <= j
    BY <2>2, Zenon
  <2> HIDE DEF first, d
  <2>4. first \in 1..Len(seq) /\ times[first] >= from
    BY <2>3
  <2>5. d \in Seq(S) /\ Len(d) = Len(seq) - (first - 1)
        /\ \A k \in 1..Len(d) : d[k] = seq[first - 1 + k]
    BY <1>0, <2>1, <2>4, SubSeqProperties
  <2>6. first - 1 \in 0..Len(seq) /\ (first - 1) + 1 = first
    BY <2>4
  <2>7. ASSUME NEW k \in 1..(first - 1) PROVE times[k] < from
    <3>1. k \in 1..Len(seq) /\ ~ (first <= k)
      BY <1>0, <2>4
    <3>2. k \notin young
      BY <2>3, <3>1
    <3> QED  BY <3>1, <3>2
  <2> QED  BY <2>4, <2>5, <2>6, <2>7 DEF d
<1> QED  BY <1>1, <1>2

\* A window w becomes v when a trade at t comes and the first n, too old for it, leave.
Slides(w, v, n, t, width) ==
  /\ n \in 0..Len(w) /\ Len(v) = Len(w) - n + 1 /\ v[Len(v)] = t
  /\ \A k \in 1..(Len(w) - n) : v[k] = w[n + k]
  /\ \A k \in 1..n : w[k] < t - width
  /\ n < Len(w) => w[n + 1] >= t - width

\* It is then still what is left of the history.
LEMMA KeptStep ==
  ASSUME NEW w \in Seq(Int), NEW h \in Seq(Int), NEW width \in Nat, NEW t \in Int,
         Kept(w, h, width), NEW v \in Seq(Int), NEW n, Slides(w, v, n, t, width)
  PROVE  Kept(v, Append(h, t), width)
<1> DEFINE g == Append(h, t)
           gone == Len(h) - Len(w)
<1>0. /\ Len(w) \in Nat /\ Len(h) \in Nat /\ Len(v) \in Nat /\ Len(w) <= Len(h)
      /\ n \in Nat /\ n <= Len(w) /\ Len(v) = Len(w) - n + 1
  BY DEF Kept, Slides
<1>1. g \in Seq(Int) /\ Len(g) = Len(h) + 1 /\ g[Len(h) + 1] = t
      /\ \A k \in 1..Len(h) : g[k] = h[k]
  BY AppendProperties
<1> HIDE DEF g
<1>2. /\ \A k \in 1..Len(w) : w[k] = h[gone + k]
      /\ \A k \in 1..gone : \E j \in 1..Len(h) : h[k] < h[j] - width
  BY DEF Kept
<1>3. Len(g) - Len(v) = gone + n /\ Len(v) <= Len(g) /\ gone \in Nat /\ Len(h) = gone + Len(w)
  BY <1>0, <1>1
<1> HIDE DEF gone
<1>4. ASSUME NEW k \in 1..Len(v) PROVE v[k] = g[gone + n + k]
  <2>1. CASE k = Len(v)
    <3>1. gone + n + k = Len(h) + 1
      BY <1>0, <1>3, <2>1
    <3>2. v[k] = t
      BY <2>1 DEF Slides
    <3> QED  BY <1>1, <3>1, <3>2
  <2>2. CASE k # Len(v)
    <3>0. k \in Nat /\ 1 <= k /\ k <= Len(w) - n
      BY <1>0, <2>2
    <3>1. k \in 1..(Len(w) - n) /\ n + k \in 1..Len(w) /\ gone + (n + k) \in 1..Len(h)
          /\ gone + n + k = gone + (n + k)
      BY <1>0, <1>3, <3>0
    <3>2. v[k] = w[n + k]
      <4>1. \A j \in 1..(Len(w) - n) : v[j] = w[n + j]
        BY Zenon DEF Slides
      <4> QED  BY <3>1, <4>1
    <3>3. w[n + k] = h[gone + (n + k)] /\ g[gone + (n + k)] = h[gone + (n + k)]
      BY <1>1, <1>2, <3>1
    <3> QED  BY <3>1, <3>2, <3>3
  <2> QED  BY <2>1, <2>2
<1>5. ASSUME NEW k \in 1..(gone + n) PROVE \E j \in 1..Len(g) : g[k] < g[j] - width
  <2>1. k \in 1..Len(h)
    BY <1>0, <1>3
  <2>2. g[k] = h[k]
    BY <1>1, <2>1
  <2>3. CASE k <= gone
    <3>1. k \in 1..gone
      BY <1>3, <2>3
    <3>2. PICK j \in 1..Len(h) : h[k] < h[j] - width
      BY <1>2, <3>1
    <3>3. j \in 1..Len(g) /\ g[j] = h[j]
      BY <1>0, <1>1
    <3> QED  BY <2>2, <3>2, <3>3
  <2>4. CASE k > gone
    <3>1. k - gone \in 1..n /\ k - gone \in 1..Len(w) /\ gone + (k - gone) = k
      BY <1>0, <1>3, <2>4
    <3>2. w[k - gone] < t - width
      BY <3>1 DEF Slides
    <3>3. w[k - gone] = h[k]
      BY <1>2, <3>1
    <3>4. Len(h) + 1 \in 1..Len(g)
      BY <1>0, <1>1
    <3> QED  BY <1>1, <2>2, <3>2, <3>3, <3>4
  <2> QED  BY <1>3, <2>3, <2>4
<1>6. v[1] \in Int /\ v[1] >= t - width /\ (n > 0 => v[1] >= w[1])
  <2>1. v[1] \in Int /\ (n > 0 => w[1] \in Int)
    BY <1>0
  <2>2. CASE n = Len(w)
    <3>1. Len(v) = 1
      BY <1>0, <2>2
    <3>2. v[1] = t
      BY <3>1 DEF Slides
    <3>3. n > 0 => w[1] < t - width
      BY <1>0 DEF Slides
    <3> QED  BY <2>1, <3>2, <3>3
  <2>3. CASE n # Len(w)
    <3>1. 1 \in 1..(Len(w) - n) /\ n < Len(w)
      BY <1>0, <2>3
    <3>2. v[1] = w[n + 1] /\ w[n + 1] >= t - width
      BY <3>1 DEF Slides
    <3>3. n > 0 => w[1] < t - width
      BY <1>0 DEF Slides
    <3> QED  BY <2>1, <3>2, <3>3
  <2> QED  BY <2>2, <2>3
<1>7. ASSUME NEW j \in 1..Len(g) PROVE v[1] >= g[j] - width
  <2>1. CASE j = Len(h) + 1
    BY <1>1, <1>6, <2>1
  <2>2. CASE j # Len(h) + 1
    <3>0. j \in 1..Len(h)
      BY <1>0, <1>1, <2>2
    <3>1. j \in 1..Len(h) /\ g[j] = h[j] /\ h[j] \in Int
      BY <1>1, <3>0
    <3>2. Len(w) > 0
      <4>0. Len(h) # 0
        BY <1>0, <3>1
      <4>1. h # <<>>
        BY <4>0, EmptySeq
      <4>2. w # <<>>
        BY <4>1 DEF Kept
      <4> QED  BY <1>0, <4>2
    <3>3. 1 \in 1..Len(w) /\ w[1] \in Int
      BY <1>0, <3>2
    <3>4. w[1] >= h[j] - width
      <4>1. \/ w[1] >= h[j] - width
            \/ \E i \in 1..(1 - 1) : w[i] >= h[j] - width
        BY <3>1, <3>3 DEF Kept
      <4> QED  BY <4>1
    <3>5. CASE n > 0
      BY <1>6, <3>1, <3>3, <3>4, <3>5
    <3>6. CASE n = 0
      <4>1. 1 \in 1..(Len(w) - n) /\ n + 1 = 1
        BY <1>0, <3>2, <3>6
      <4>2. v[1] = w[n + 1]
        BY <4>1 DEF Slides
      <4> QED  BY <3>1, <3>4, <4>1, <4>2
    <3> QED  BY <1>0, <3>5, <3>6
  <2> QED  BY <2>1, <2>2
<1>8. ASSUME NEW k \in 1..Len(v), NEW j \in 1..Len(g)
      PROVE  v[k] >= g[j] - width \/ \E i \in 1..(k - 1) : v[i] >= g[j] - width
  <2>1. CASE k = 1
    BY <1>7, <2>1
  <2>2. CASE k # 1
    <3>1. 1 \in 1..(k - 1)
      BY <2>2
    <3> QED  BY <1>7, <3>1
  <2> QED  BY <2>1, <2>2
<1>9. v # <<>>
  BY <1>0
<1>10. LET out == Len(g) - Len(v)
       IN  /\ \A k \in 1..Len(v) : v[k] = g[out + k]
           /\ \A k \in 1..out : \E j \in 1..Len(g) : g[k] < g[j] - width
           /\ \A k \in 1..Len(v), j \in 1..Len(g) :
                \/ v[k] >= g[j] - width
                \/ \E i \in 1..(k - 1) : v[i] >= g[j] - width
  BY <1>3, <1>4, <1>5, <1>8
<1> QED  BY <1>3, <1>9, <1>10 DEF Kept, g

\* The times of trades
LEMMA TimesOfIs ==
  ASSUME NEW w \in Seq(Trade)
  PROVE  /\ TimesOf(w) \in Seq(Int) /\ Len(TimesOf(w)) = Len(w)
         /\ \A k \in 1..Len(w) : TimesOf(w)[k] = w[k].ts
         /\ \A t \in Trade : TimesOf(Append(w, t)) = Append(TimesOf(w), t.ts)
<1>t. \A t \in Trade : t.ts \in Int
  BY FlowAssumption DEF Trade, Times
<1>0. Len(w) \in Nat /\ \A k \in 1..Len(w) : w[k] \in Trade /\ w[k].ts \in Int
  BY <1>t
<1>1. /\ TimesOf(w) \in Seq(Int) /\ Len(TimesOf(w)) = Len(w)
      /\ \A k \in 1..Len(w) : TimesOf(w)[k] = w[k].ts
  BY <1>0 DEF TimesOf
<1>2. ASSUME NEW t \in Trade PROVE TimesOf(Append(w, t)) = Append(TimesOf(w), t.ts)
  <2> DEFINE v == Append(w, t)
  <2>1. v \in Seq(Trade) /\ Len(v) = Len(w) + 1 /\ v[Len(w) + 1] = t
        /\ \A k \in 1..Len(w) : v[k] = w[k]
    BY AppendProperties
  <2> HIDE DEF v
  <2>2. t.ts \in Int /\ \A k \in 1..Len(v) : v[k].ts \in Int
    BY <1>t, <2>1
  <2>3. TimesOf(v) \in Seq(Int) /\ Len(TimesOf(v)) = Len(v)
        /\ \A k \in 1..Len(v) : TimesOf(v)[k] = v[k].ts
    BY <2>2, <2>1 DEF TimesOf
  <2> DEFINE u == Append(TimesOf(w), t.ts)
  <2>4. u \in Seq(Int) /\ Len(u) = Len(w) + 1 /\ u[Len(w) + 1] = t.ts
        /\ \A k \in 1..Len(w) : u[k] = w[k].ts
    BY <1>1, <2>2, AppendProperties
  <2> HIDE DEF u
  <2>5. ASSUME NEW k \in 1..(Len(w) + 1) PROVE TimesOf(v)[k] = u[k]
    <3>1. k \in 1..Len(w) \/ k = Len(w) + 1
      BY <1>0
    <3>2. TimesOf(v)[k] = v[k].ts
      BY <2>1, <2>3
    <3>3. CASE k \in 1..Len(w)
      BY <2>1, <2>4, <3>2, <3>3
    <3>4. CASE k = Len(w) + 1
      BY <2>1, <2>4, <3>2, <3>4
    <3> QED  BY <3>1, <3>3, <3>4
  <2>6. TimesOf(v) = u
    BY <1>0, <2>1, <2>3, <2>4, <2>5
  <2> QED  BY <2>6 DEF u, v
<1> QED  BY <1>1, <1>2

-----------------------------------------------------------------------------
(* The spoof filter *)

Stat == [cancels : Nat, added : Times \cup {NoTime}]
Filters == [stats : [Keys -> Stat], flagged : [Keys -> Times \cup {NoTime}]]

\* What evict_old() erases
Stale(s, t) == s.added = NoTime \/ t - s.added > SpoofWindow
Evicted(s, t) == IF Stale(s, t) THEN NoStats ELSE s

\* The numbers of the filter
LEMMA SpoofNumbers ==
  /\ SpoofWindow \in Nat /\ MinEvents \in Nat /\ MinEvents >= 2 /\ FlagTtl \in Nat
  /\ MaxTime \in Nat /\ Times \subseteq Nat /\ NoTime \notin Times /\ NoTime \in Int
  /\ NoStats \in Stat /\ NoStats.cancels = 0 /\ NoStats.added = NoTime
BY FlowAssumption DEF Times, NoTime, NoStats, Stat

\* Times are natural numbers, and NoTime is before all of them.
LEMMA TimesAre == NoTime \in Int /\ NoTime < 0 /\ \A x \in Times : x \in Int /\ 0 <= x /\ x # NoTime
BY FlowAssumption DEF Times, NoTime

\* evict_old() looks at every price alike.
LEMMA EvictIs ==
  ASSUME NEW f \in Filters, NEW t \in Times
  PROVE  LET g == EvictOld(f, t)
         IN  /\ g \in Filters /\ g.flagged = f.flagged
             /\ \A p \in Keys : g.stats[p] = Evicted(f.stats[p], t)
BY SpoofNumbers DEF EvictOld, Evicted, Stale, Filters

\* on_large_add()
LEMMA AddIs ==
  ASSUME NEW f \in Filters, NEW q \in Keys, NEW t \in Times
  PROVE  LET g == OnLargeAdd(f, q, t)
         IN  /\ g \in Filters /\ g.flagged = f.flagged
             /\ g.stats[q] = [cancels |-> f.stats[q].cancels, added |-> t]
             /\ \A p \in Keys : p # q => g.stats[p] = Evicted(f.stats[p], t)
<1> DEFINE h == [f EXCEPT !.stats[q].added = t]
           s == [cancels |-> f.stats[q].cancels, added |-> t]
<1>1. s \in Stat /\ s = [f.stats[q] EXCEPT !.added = t]
  BY DEF Filters, Stat
<1>2. /\ h \in Filters /\ h.flagged = f.flagged /\ h.stats[q] = s
      /\ \A p \in Keys : p # q => h.stats[p] = f.stats[p]
  BY <1>1 DEF Filters
<1>3. Evicted(s, t) = s
  BY SpoofNumbers DEF Evicted, Stale
<1>4. OnLargeAdd(f, q, t) = EvictOld(h, t)
  BY DEF OnLargeAdd
<1> HIDE DEF h, s
<1> QED  BY <1>2, <1>3, <1>4, EvictIs DEF s

\* on_large_cancel()
LEMMA CancelIs ==
  ASSUME NEW f \in Filters, NEW q \in Keys, NEW t \in Times
  PROVE  LET g == OnLargeCancel(f, q, t)
             s == [cancels |-> f.stats[q].cancels + 1, added |-> f.stats[q].added]
         IN  /\ g \in Filters /\ g.stats[q] = Evicted(s, t)
             /\ g.flagged[q] = IF f.stats[q].cancels + 1 >= MinEvents THEN t ELSE f.flagged[q]
             /\ \A p \in Keys : p # q => /\ g.stats[p] = Evicted(f.stats[p], t)
                                         /\ g.flagged[p] = f.flagged[p]
<1> DEFINE s == [cancels |-> f.stats[q].cancels + 1, added |-> f.stats[q].added]
           h == [f EXCEPT !.stats[q].cancels = @ + 1]
           m == MaybeFlag(h, q, t)
<1>1. s \in Stat /\ s = [f.stats[q] EXCEPT !.cancels = @ + 1]
  BY DEF Filters, Stat
<1>2. /\ h \in Filters /\ h.flagged = f.flagged /\ h.stats[q] = s
      /\ \A p \in Keys : p # q => h.stats[p] = f.stats[p]
  BY <1>1 DEF Filters
<1>3. s.cancels = f.stats[q].cancels + 1
  OBVIOUS
<1> HIDE DEF h, s
<1>4. /\ m \in Filters /\ m.stats = h.stats
      /\ m.flagged[q] = IF f.stats[q].cancels + 1 >= MinEvents THEN t ELSE f.flagged[q]
      /\ \A p \in Keys : p # q => m.flagged[p] = f.flagged[p]
  <2>1. f.stats[q].cancels + 1 \in Nat /\ MinEvents \in Nat
    BY SpoofNumbers DEF Filters, Stat
  <2>2. CASE f.stats[q].cancels + 1 < MinEvents
    <3>1. m = h
      BY <1>2, <1>3, <2>2 DEF MaybeFlag
    <3> QED  BY <1>2, <2>1, <2>2, <3>1
  <2>3. CASE ~ (f.stats[q].cancels + 1 < MinEvents)
    <3>1. m = [h EXCEPT !.flagged[q] = t]
      BY <1>2, <1>3, <2>3 DEF MaybeFlag
    <3> QED  BY <1>2, <2>1, <2>3, <3>1 DEF Filters
  <2> QED  BY <2>2, <2>3
<1>5. OnLargeCancel(f, q, t) = EvictOld(m, t)
  BY DEF OnLargeCancel, h
<1> HIDE DEF m
<1> QED  BY <1>2, <1>4, <1>5, EvictIs DEF s

\* What an event shows and withdraws at its price
Shown(e) == Added(e.bid) \/ Added(e.ask)
Withdrawn(e) == (IF Gone(e.bid) THEN 1 ELSE 0) + (IF Gone(e.ask) THEN 1 ELSE 0)

\* The adds of an event
AfterAdds(f, e, t) ==
  LET a == IF Added(e.bid) THEN OnLargeAdd(f, e.price, t) ELSE f
  IN  IF Added(e.ask) THEN OnLargeAdd(a, e.price, t) ELSE a

\* They make the entry of its price as young as the event; elsewhere they may evict.
LEMMA AddsAre ==
  ASSUME NEW f \in Filters, NEW e \in BookEvents, NEW t \in Times
  PROVE  LET g == AfterAdds(f, e, t)
             q == e.price
         IN  /\ g \in Filters /\ g.flagged = f.flagged /\ q \in Keys
             /\ g.stats[q] = IF Shown(e) THEN [cancels |-> f.stats[q].cancels, added |-> t]
                             ELSE f.stats[q]
             /\ \A p \in Keys : p # q =>
                  /\ g.stats[p] \in {f.stats[p], NoStats}
                  /\ ~ Stale(f.stats[p], t) => g.stats[p] = f.stats[p]
<1> DEFINE q == e.price
           a == IF Added(e.bid) THEN OnLargeAdd(f, q, t) ELSE f
           g == IF Added(e.ask) THEN OnLargeAdd(a, q, t) ELSE a
<1>1. q \in Keys
  BY FlowAssumption
<1> HIDE DEF q
<1>2. /\ a \in Filters /\ a.flagged = f.flagged
      /\ a.stats[q] = IF Added(e.bid) THEN [cancels |-> f.stats[q].cancels, added |-> t]
                      ELSE f.stats[q]
      /\ \A p \in Keys : p # q => a.stats[p] \in {f.stats[p], Evicted(f.stats[p], t)}
  BY <1>1, AddIs
<1> HIDE DEF a
<1>3. /\ g \in Filters /\ g.flagged = a.flagged
      /\ g.stats[q] = IF Added(e.ask) THEN [cancels |-> a.stats[q].cancels, added |-> t]
                      ELSE a.stats[q]
      /\ \A p \in Keys : p # q => g.stats[p] \in {a.stats[p], Evicted(a.stats[p], t)}
  BY <1>1, <1>2, AddIs
<1>4. AfterAdds(f, e, t) = g
  BY DEF AfterAdds, a, q
<1> HIDE DEF g
<1>5. g.stats[q] = IF Shown(e) THEN [cancels |-> f.stats[q].cancels, added |-> t] ELSE f.stats[q]
  BY <1>2, <1>3 DEF Shown
<1>6. ASSUME NEW p \in Keys, p # q
      PROVE  /\ g.stats[p] \in {f.stats[p], NoStats}
             /\ ~ Stale(f.stats[p], t) => g.stats[p] = f.stats[p]
  <2>1. \A s : Evicted(s, t) \in {s, NoStats} /\ (~ Stale(s, t) => Evicted(s, t) = s)
    BY DEF Evicted
  <2>2. Evicted(NoStats, t) = NoStats
    BY DEF Evicted
  <2>3. a.stats[p] \in {f.stats[p], Evicted(f.stats[p], t)}
        /\ g.stats[p] \in {a.stats[p], Evicted(a.stats[p], t)}
    BY <1>2, <1>3, <1>6
  <2> QED  BY <2>1, <2>2, <2>3
<1> QED  BY <1>1, <1>2, <1>3, <1>4, <1>5, <1>6 DEF q

\* The cancels of an event
LEMMA UpdateIsBoth ==
  ASSUME NEW f, NEW e, NEW t
  PROVE  LET b == AfterAdds(f, e, t)
             c == IF Gone(e.bid) THEN OnLargeCancel(b, e.price, t) ELSE b
         IN  UpdateSpoofOnBook(f, e, t) = IF Gone(e.ask) THEN OnLargeCancel(c, e.price, t) ELSE c
BY DEF UpdateSpoofOnBook, AfterAdds

\* A large order withdrawn at one price, or none, at the others
LEMMA CancelElsewhere ==
  ASSUME NEW f \in Filters, NEW q \in Keys, NEW t \in Times, NEW gone \in BOOLEAN
  PROVE  LET g == IF gone THEN OnLargeCancel(f, q, t) ELSE f
         IN  /\ g \in Filters
             /\ \A p \in Keys : p # q => /\ g.stats[p] \in {f.stats[p], Evicted(f.stats[p], t)}
                                         /\ g.flagged[p] = f.flagged[p]
<1>1. CASE gone
  BY <1>1, CancelIs
<1>2. CASE ~ gone
  BY <1>2
<1> QED  BY <1>1, <1>2

\* What update_spoof_on_book() does at the other prices: it may evict what is stale.
LEMMA UpdateElsewhere ==
  ASSUME NEW f \in Filters, NEW e \in BookEvents, NEW t \in Times
  PROVE  LET g == UpdateSpoofOnBook(f, e, t)
         IN  /\ g \in Filters
             /\ \A p \in Keys : p # e.price =>
                  /\ g.flagged[p] = f.flagged[p] /\ g.stats[p] \in {f.stats[p], NoStats}
                  /\ ~ Stale(f.stats[p], t) => g.stats[p] = f.stats[p]
<1> DEFINE q == e.price
           b == AfterAdds(f, e, t)
           c == IF Gone(e.bid) THEN OnLargeCancel(b, q, t) ELSE b
           g == IF Gone(e.ask) THEN OnLargeCancel(c, q, t) ELSE c
<1>0. Gone(e.bid) \in BOOLEAN /\ Gone(e.ask) \in BOOLEAN
  BY DEF Gone
<1>1. /\ b \in Filters /\ b.flagged = f.flagged /\ q \in Keys
      /\ \A p \in Keys : p # q =>
           /\ b.stats[p] \in {f.stats[p], NoStats}
           /\ ~ Stale(f.stats[p], t) => b.stats[p] = f.stats[p]
  BY AddsAre
<1> HIDE DEF b, q
<1>2. /\ c \in Filters
      /\ \A p \in Keys : p # q => /\ c.stats[p] \in {b.stats[p], Evicted(b.stats[p], t)}
                                  /\ c.flagged[p] = b.flagged[p]
  BY <1>1, <1>0, CancelElsewhere
<1> HIDE DEF c
<1>3. /\ g \in Filters
      /\ \A p \in Keys : p # q => /\ g.stats[p] \in {c.stats[p], Evicted(c.stats[p], t)}
                                  /\ g.flagged[p] = c.flagged[p]
  BY <1>1, <1>2, <1>0, CancelElsewhere
<1>4. UpdateSpoofOnBook(f, e, t) = g
  BY UpdateIsBoth DEF b, c, q
<1> HIDE DEF g
<1>5. ASSUME NEW p \in Keys, p # q
      PROVE  /\ g.flagged[p] = f.flagged[p] /\ g.stats[p] \in {f.stats[p], NoStats}
             /\ ~ Stale(f.stats[p], t) => g.stats[p] = f.stats[p]
  <2>1. \A s : Evicted(s, t) \in {s, NoStats} /\ (~ Stale(s, t) => Evicted(s, t) = s)
    BY DEF Evicted
  <2>2. Evicted(NoStats, t) = NoStats
    BY DEF Evicted
  <2>3. /\ b.stats[p] \in {f.stats[p], NoStats}
        /\ ~ Stale(f.stats[p], t) => b.stats[p] = f.stats[p]
        /\ c.stats[p] \in {b.stats[p], Evicted(b.stats[p], t)}
        /\ g.stats[p] \in {c.stats[p], Evicted(c.stats[p], t)}
    BY <1>1, <1>2, <1>3, <1>5
  <2> QED  BY <1>1, <1>2, <1>3, <1>5, <2>1, <2>2, <2>3
<1> QED  BY <1>3, <1>4, <1>5 DEF q

\* One large order withdrawn, or none
LEMMA OneCancel ==
  ASSUME NEW f \in Filters, NEW q \in Keys, NEW t \in Times, NEW gone \in BOOLEAN,
         f.stats[q].added = NoTime => f.stats[q].cancels = 0
  PROVE  LET g == IF gone THEN OnLargeCancel(f, q, t) ELSE f
             i == IF gone THEN 1 ELSE 0
             s == f.stats[q]
             r == g.stats[q]
         IN  /\ g \in Filters /\ r.cancels <= s.cancels + i
             /\ r.added = NoTime => r.cancels = 0
             /\ ~ Stale(s, t) => r.added = s.added /\ r.cancels = s.cancels + i
             /\ r.added \in {s.added, NoTime}
             /\ g.flagged[q] = IF i = 1 /\ s.cancels + i >= MinEvents THEN t ELSE f.flagged[q]
<1>0. f.stats[q] \in Stat /\ f.stats[q].cancels \in Nat
  BY DEF Filters, Stat
<1>1. CASE ~ gone
  BY <1>0, <1>1
<1>2. CASE gone
  <2> DEFINE g == OnLargeCancel(f, q, t)
             s == [cancels |-> f.stats[q].cancels + 1, added |-> f.stats[q].added]
  <2>1. /\ g \in Filters /\ g.stats[q] = Evicted(s, t)
        /\ g.flagged[q] = IF f.stats[q].cancels + 1 >= MinEvents THEN t ELSE f.flagged[q]
    BY CancelIs
  <2>2. s.cancels = f.stats[q].cancels + 1 /\ s.added = f.stats[q].added
        /\ (Stale(s, t) <=> Stale(f.stats[q], t))
    BY DEF Stale
  <2> HIDE DEF g, s
  <2>3. CASE Stale(f.stats[q], t)
    <3>1. g.stats[q] = NoStats
      BY <2>1, <2>2, <2>3 DEF Evicted
    <3>2. g.stats[q].cancels = 0 /\ g.stats[q].added = NoTime
      BY <3>1, SpoofNumbers
    <3> QED  BY <1>0, <1>2, <2>1, <2>3, <3>2 DEF g
  <2>4. CASE ~ Stale(f.stats[q], t)
    <3>1. g.stats[q] = s /\ f.stats[q].added # NoTime
      BY <2>1, <2>2, <2>4 DEF Evicted, Stale
    <3> QED  BY <1>0, <1>2, <2>1, <2>2, <2>4, <3>1 DEF g
  <2> QED  BY <2>3, <2>4
<1> QED  BY <1>1, <1>2

\* What update_spoof_on_book() makes of the entry s and the flag old of the event's price
Here(s, old, r, flag, e, t) ==
  /\ r.cancels <= s.cancels + Withdrawn(e)
  /\ r.added = NoTime => r.cancels = 0
  /\ Shown(e) => r.added = t /\ r.cancels = s.cancels + Withdrawn(e)
  /\ ~ Shown(e) /\ ~ Stale(s, t) => r.added = s.added /\ r.cancels = s.cancels + Withdrawn(e)
  /\ r.added # NoTime => Shown(e) \/ s.added # NoTime
  /\ flag # old => /\ flag = t /\ Withdrawn(e) >= 1 /\ s.cancels + Withdrawn(e) >= MinEvents
                   /\ Shown(e) \/ s.added # NoTime
  /\ /\ Withdrawn(e) >= 1 /\ s.cancels + Withdrawn(e) >= MinEvents
     /\ Shown(e) \/ ~ Stale(s, t)
     => flag = t

\* That is what the adds and the cancels of an event come to.
LEMMA UpdateHere ==
  ASSUME NEW f \in Filters, NEW e \in BookEvents, NEW t \in Times,
         f.stats[e.price].added = NoTime => f.stats[e.price].cancels = 0
  PROVE  LET g == UpdateSpoofOnBook(f, e, t)
         IN  Here(f.stats[e.price], f.flagged[e.price], g.stats[e.price], g.flagged[e.price], e, t)
<1> DEFINE q == e.price
           b == AfterAdds(f, e, t)
           c == IF Gone(e.bid) THEN OnLargeCancel(b, q, t) ELSE b
           g == IF Gone(e.ask) THEN OnLargeCancel(c, q, t) ELSE c
           i == IF Gone(e.bid) THEN 1 ELSE 0
           j == IF Gone(e.ask) THEN 1 ELSE 0
<1>0. Gone(e.bid) \in BOOLEAN /\ Gone(e.ask) \in BOOLEAN
  BY DEF Gone
<1>1. /\ b \in Filters /\ b.flagged = f.flagged /\ q \in Keys
      /\ b.stats[q] = IF Shown(e) THEN [cancels |-> f.stats[q].cancels, added |-> t]
                      ELSE f.stats[q]
  BY AddsAre
<1>2. f.stats[q] \in Stat /\ f.stats[q].cancels \in Nat
      /\ f.stats[q].added \in Int /\ t \in Int /\ t # NoTime
  <2>1. f.stats[q] \in Stat
    BY <1>1 DEF Filters
  <2>2. f.stats[q].cancels \in Nat /\ f.stats[q].added \in Times \cup {NoTime}
    BY <2>1 DEF Stat
  <2> HIDE DEF q
  <2> QED  BY <2>1, <2>2, TimesAre
<1>3. b.stats[q].added = NoTime => b.stats[q].cancels = 0
  BY <1>1, <1>2
<1>4. UpdateSpoofOnBook(f, e, t) = g
  BY UpdateIsBoth
<1> HIDE DEF b
<1>5. /\ c \in Filters /\ c.stats[q].cancels <= b.stats[q].cancels + i
      /\ c.stats[q].added = NoTime => c.stats[q].cancels = 0
      /\ ~ Stale(b.stats[q], t) =>
           c.stats[q].added = b.stats[q].added /\ c.stats[q].cancels = b.stats[q].cancels + i
      /\ c.stats[q].added \in {b.stats[q].added, NoTime}
      /\ c.flagged[q] = IF i = 1 /\ b.stats[q].cancels + i >= MinEvents THEN t ELSE b.flagged[q]
  <2> HIDE DEF q
  <2> QED  BY <1>0, <1>1, <1>3, OneCancel
<1> HIDE DEF c
<1>6. /\ g \in Filters /\ g.stats[q].cancels <= c.stats[q].cancels + j
      /\ g.stats[q].added = NoTime => g.stats[q].cancels = 0
      /\ ~ Stale(c.stats[q], t) =>
           g.stats[q].added = c.stats[q].added /\ g.stats[q].cancels = c.stats[q].cancels + j
      /\ g.stats[q].added \in {c.stats[q].added, NoTime}
      /\ g.flagged[q] = IF j = 1 /\ c.stats[q].cancels + j >= MinEvents THEN t ELSE c.flagged[q]
  <2> HIDE DEF q
  <2> QED  BY <1>0, <1>1, <1>5, OneCancel
<1>7. Withdrawn(e) = i + j /\ i \in {0, 1} /\ j \in {0, 1}
  BY <1>0 DEF Withdrawn
<1> HIDE DEF g, i, j, q
<1>8. /\ b.stats[q].cancels = f.stats[q].cancels
      /\ Shown(e) => b.stats[q].added = t
      /\ ~ Shown(e) => b.stats[q].added = f.stats[q].added
  BY <1>1
<1>9. /\ Shown(e) => ~ Stale(b.stats[q], t)
      /\ ~ Shown(e) => (Stale(b.stats[q], t) <=> Stale(f.stats[q], t))
      /\ c.stats[q].added = b.stats[q].added => (Stale(c.stats[q], t) <=> Stale(b.stats[q], t))
  BY <1>1, <1>2, <1>8, SpoofNumbers DEF Stale
<1>10. /\ b.stats[q].cancels \in Nat /\ c.stats[q].cancels \in Nat /\ g.stats[q].cancels \in Nat
       /\ MinEvents \in Nat /\ MinEvents >= 2
  BY <1>1, <1>5, <1>6, SpoofNumbers DEF Filters, Stat
<1> DEFINE s == f.stats[q]
           r == g.stats[q]
<1>11. r.cancels <= s.cancels + Withdrawn(e)
  BY <1>2, <1>5, <1>6, <1>7, <1>8, <1>10
<1>12. ~ Stale(b.stats[q], t) => r.added = b.stats[q].added /\ r.cancels = s.cancels + Withdrawn(e)
  BY <1>2, <1>5, <1>6, <1>7, <1>8, <1>9, <1>10
<1>13. r.added # NoTime => Shown(e) \/ s.added # NoTime
  BY <1>5, <1>6, <1>8
<1>14. ASSUME g.flagged[q] # f.flagged[q]
       PROVE  /\ g.flagged[q] = t /\ Withdrawn(e) >= 1 /\ s.cancels + Withdrawn(e) >= MinEvents
              /\ Shown(e) \/ s.added # NoTime
  <2>1. \/ j = 1 /\ c.stats[q].cancels + j >= MinEvents
        \/ i = 1 /\ b.stats[q].cancels + i >= MinEvents
    BY <1>1, <1>5, <1>6, <1>14
  <2>2. g.flagged[q] = t
    BY <1>5, <1>6, <2>1
  <2>3. Withdrawn(e) >= 1 /\ s.cancels + Withdrawn(e) >= MinEvents
    BY <1>2, <1>5, <1>7, <1>8, <1>10, <2>1
  <2>4. ASSUME b.stats[q].added = NoTime PROVE FALSE
    <3>1. b.stats[q].cancels = 0 /\ c.stats[q].added = NoTime
      BY <1>3, <1>5, <2>4
    <3>2. c.stats[q].cancels = 0
      BY <1>5, <3>1
    <3> QED  BY <1>10, <2>1, <3>1, <3>2
  <2> QED  BY <1>8, <2>2, <2>3, <2>4
<1>15. ASSUME Withdrawn(e) >= 1, s.cancels + Withdrawn(e) >= MinEvents, Shown(e) \/ ~ Stale(s, t)
       PROVE  g.flagged[q] = t
  <2>1. ~ Stale(b.stats[q], t)
    BY <1>9, <1>15
  <2>2. c.stats[q].cancels = s.cancels + i
    BY <1>5, <1>8, <2>1
  <2>3. CASE j = 1
    <3>1. c.stats[q].cancels + j >= MinEvents
      BY <1>2, <1>7, <1>15, <2>2, <2>3
    <3> QED  BY <1>6, <2>3, <3>1
  <2>4. CASE j = 0
    <3>1. i = 1 /\ b.stats[q].cancels + i >= MinEvents
      BY <1>2, <1>7, <1>8, <1>15, <2>4
    <3> QED  BY <1>5, <1>6, <2>4, <3>1
  <2> QED  BY <1>7, <2>3, <2>4
<1>16. Here(s, f.flagged[q], r, g.flagged[q], e, t)
  BY <1>6, <1>8, <1>9, <1>11, <1>12, <1>13, <1>14, <1>15 DEF Here
<1> QED  BY <1>4, <1>16 DEF q

-----------------------------------------------------------------------------
(* The history of a price *)

BookRecords == [event : BookEvents, ts : Times]

\* CancelsAt, AddsAt and what VetoIsGiven counts, of any history
CancelsIn(bs, p) == {c \in (1..Len(bs)) \X {"bid", "ask"} :
                       bs[c[1]].event.price = p /\ Gone(bs[c[1]].event[c[2]])}
AddsIn(bs, p) == {k \in 1..Len(bs) : /\ bs[k].event.price = p
                                      /\ \E s \in {"bid", "ask"} : Added(bs[k].event[s])}
AfterIn(bs, p, a) == {c \in CancelsIn(bs, p) : c[1] > a /\ bs[c[1]].ts - bs[a].ts <= SpoofWindow}

\* The cancels of the m-th event
News(m, e) == {c \in {m} \X {"bid", "ask"} : Gone(e[c[2]])}

\* An event has what its assumption says.
LEMMA EventIs ==
  ASSUME NEW e \in BookEvents
  PROVE  /\ e.price \in Keys /\ e["bid"] = e.bid /\ e["ask"] = e.ask
         /\ Withdrawn(e) \in Nat /\ Gone(e.bid) \in BOOLEAN /\ Gone(e.ask) \in BOOLEAN
<1>1. e.price \in Keys
  BY FlowAssumption
<1>2. Gone(e.bid) \in BOOLEAN /\ Gone(e.ask) \in BOOLEAN
  BY DEF Gone
<1>3. Withdrawn(e) \in Nat
  BY DEF Withdrawn
<1> QED  BY <1>1, <1>2, <1>3

\* What the history consists of
LEMMA RecordsAre ==
  ASSUME NEW bs \in Seq(BookRecords), NEW k \in 1..Len(bs)
  PROVE  bs[k] \in BookRecords /\ bs[k].ts \in Times /\ bs[k].event \in BookEvents
<1>1. bs[k] \in BookRecords
  OBVIOUS
<1> QED  BY <1>1 DEF BookRecords

\* They are as many as it withdraws.
LEMMA NewsCount ==
  ASSUME NEW m \in Nat, NEW e \in BookEvents, NEW S, IsFiniteSet(S), \A c \in S : c[1] # m
  PROVE  /\ IsFiniteSet(S \cup News(m, e))
         /\ Cardinality(S \cup News(m, e)) = Cardinality(S) + Withdrawn(e)
         /\ Withdrawn(e) = 0 => News(m, e) = {}
<1> DEFINE B == IF Gone(e.bid) THEN S \cup {<<m, "bid">>} ELSE S
           A == IF Gone(e.ask) THEN B \cup {<<m, "ask">>} ELSE B
<1>0. Cardinality(S) \in Nat
  BY FS_CardinalityType
<1>1. IsFiniteSet(B) /\ Cardinality(B) = Cardinality(S) + (IF Gone(e.bid) THEN 1 ELSE 0)
      /\ <<m, "ask">> \notin B
  <2>1. <<m, "bid">> \notin S /\ <<m, "ask">> \notin S /\ <<m, "ask">> # <<m, "bid">>
    BY Zenon
  <2>2. CASE Gone(e.bid)
    <3>1. B = S \cup {<<m, "bid">>}
      BY <2>2
    <3>2. IsFiniteSet(B) /\ Cardinality(B) = Cardinality(S) + 1
      BY <2>1, <3>1, FS_AddElement
    <3> QED  BY <2>1, <2>2, <3>1, <3>2
  <2>3. CASE ~ Gone(e.bid)
    BY <1>0, <2>1, <2>3
  <2> QED  BY <2>2, <2>3
<1> HIDE DEF B
<1>2. IsFiniteSet(A) /\ Cardinality(A) = Cardinality(B) + (IF Gone(e.ask) THEN 1 ELSE 0)
  BY <1>1, FS_AddElement, FS_CardinalityType
<1>3. News(m, e) = (IF Gone(e.bid) THEN {<<m, "bid">>} ELSE {})
                   \cup (IF Gone(e.ask) THEN {<<m, "ask">>} ELSE {})
  BY EventIs DEF News
<1>4. A = S \cup News(m, e)
  BY <1>3 DEF B
<1>5. Cardinality(A) = Cardinality(S) + Withdrawn(e)
  BY <1>0, <1>1, <1>2 DEF Withdrawn
<1>6. Withdrawn(e) = 0 => News(m, e) = {}
  BY <1>3 DEF Withdrawn
<1> HIDE DEF A
<1> QED  BY <1>2, <1>4, <1>5, <1>6

\* The history of a price is finite.
LEMMA CancelsFinite ==
  ASSUME NEW bs \in Seq(BookRecords), NEW p
  PROVE  /\ IsFiniteSet(CancelsIn(bs, p)) /\ Cardinality(CancelsIn(bs, p)) \in Nat
         /\ \A a : /\ IsFiniteSet(AfterIn(bs, p, a)) /\ Cardinality(AfterIn(bs, p, a)) \in Nat
                   /\ Cardinality(AfterIn(bs, p, a)) <= Cardinality(CancelsIn(bs, p))
<1>1. IsFiniteSet(1..Len(bs))
  BY FS_Interval
<1>2. IsFiniteSet({"bid", "ask"})
  <2>1. IsFiniteSet({"bid"})
    BY FS_Singleton
  <2>2. IsFiniteSet({"bid"} \cup {"ask"})
    BY <2>1, FS_AddElement
  <2>3. {"bid", "ask"} = {"bid"} \cup {"ask"}
    OBVIOUS
  <2> QED  BY <2>2, <2>3
<1>3. IsFiniteSet((1..Len(bs)) \X {"bid", "ask"})
  BY <1>1, <1>2, FS_Product
<1>4. IsFiniteSet(CancelsIn(bs, p))
  BY <1>3, FS_Subset DEF CancelsIn
<1>5. \A a : AfterIn(bs, p, a) \subseteq CancelsIn(bs, p)
  BY DEF AfterIn
<1> QED  BY <1>4, <1>5, FS_Subset, FS_CardinalityType

\* One more event in the history
LEMMA HistoryGrows ==
  ASSUME NEW bs \in Seq(BookRecords), NEW b \in BookRecords, NEW p
  PROVE  LET cs == Append(bs, b)
             n == Len(bs) + 1
         IN  /\ cs \in Seq(BookRecords) /\ Len(cs) = n /\ cs[n] = b /\ Last(cs) = b /\ n \in Nat
             /\ \A k \in 1..Len(bs) : cs[k] = bs[k]
             /\ \A c \in CancelsIn(bs, p) : c[1] \in 1..Len(bs) /\ cs[c[1]] = bs[c[1]]
             /\ CancelsIn(cs, p) = CancelsIn(bs, p)
                                   \cup (IF b.event.price = p THEN News(n, b.event) ELSE {})
             /\ AddsIn(cs, p) = AddsIn(bs, p)
                                \cup (IF b.event.price = p /\ Shown(b.event) THEN {n} ELSE {})
<1> DEFINE cs == Append(bs, b)
           n == Len(bs) + 1
<1>1. cs \in Seq(BookRecords) /\ Len(cs) = n /\ cs[n] = b /\ n \in Nat
      /\ 1..n = (1..Len(bs)) \cup {n} /\ n \notin 1..Len(bs)
      /\ \A k \in 1..Len(bs) : cs[k] = bs[k]
  BY AppendProperties
<1>2. Last(cs) = b
  BY <1>1 DEF Last
<1> HIDE DEF cs, n
<1>3. \A c \in CancelsIn(bs, p) : c[1] \in 1..Len(bs) /\ cs[c[1]] = bs[c[1]]
  BY <1>1 DEF CancelsIn
<1>4. CancelsIn(cs, p) = CancelsIn(bs, p) \cup (IF b.event.price = p THEN News(n, b.event) ELSE {})
  BY <1>1 DEF CancelsIn, News
<1>5. b.event["bid"] = b.event.bid /\ b.event["ask"] = b.event.ask
  BY EventIs DEF BookRecords
<1>6. Shown(b.event) <=> \E s \in {"bid", "ask"} : Added(b.event[s])
  BY <1>5 DEF Shown
<1>7. AddsIn(cs, p) = AddsIn(bs, p) \cup (IF b.event.price = p /\ Shown(b.event) THEN {n} ELSE {})
  BY <1>1, <1>6 DEF AddsIn
<1> QED  BY <1>1, <1>2, <1>3, <1>4, <1>7 DEF cs, n

-----------------------------------------------------------------------------
(* The filter against the history *)

\* What the filter f holds at p has happened: the entry counts no more than that, an
\* order was shown before it, and a flag is the time of one of its cancels.
Sound(f, bs, p) ==
  /\ f.stats[p].added = NoTime => f.stats[p].cancels = 0
  /\ f.stats[p].added # NoTime => AddsIn(bs, p) # {}
  /\ f.stats[p].cancels <= Cardinality(CancelsIn(bs, p))
  /\ f.flagged[p] # NoTime =>
       /\ Cardinality(CancelsIn(bs, p)) >= MinEvents /\ AddsIn(bs, p) # {}
       /\ \E c \in CancelsIn(bs, p) : bs[c[1]].ts = f.flagged[p]

\* What has happened is in it: as long as an add is in the window of the last event the
\* entry is no older than it and counts what came after, and enough of it are a flag.
CompleteFor(f, bs, p, a) ==
  /\ Last(bs).ts - bs[a].ts <= SpoofWindow =>
       /\ f.stats[p].added >= bs[a].ts
       /\ f.stats[p].cancels >= Cardinality(AfterIn(bs, p, a))
  /\ Cardinality(AfterIn(bs, p, a)) >= MinEvents =>
       \A c \in AfterIn(bs, p, a) : f.flagged[p] >= bs[c[1]].ts
Complete(f, bs, p) == \A a \in AddsIn(bs, p) : CompleteFor(f, bs, p, a)

\* The history is not of the future.
PastOf(bs, t) == \A k \in 1..Len(bs) : bs[k].ts <= t

\* An event keeps the filter sound at its own price,
LEMMA SoundHere ==
  ASSUME NEW f \in Filters, NEW bs \in Seq(BookRecords), NEW e \in BookEvents, NEW t \in Times,
         NEW g \in Filters, Sound(f, bs, e.price),
         Here(f.stats[e.price], f.flagged[e.price], g.stats[e.price], g.flagged[e.price], e, t)
  PROVE  Sound(g, Append(bs, [event |-> e, ts |-> t]), e.price)
<1> DEFINE p == e.price
           b == [event |-> e, ts |-> t]
           cs == Append(bs, b)
           n == Len(bs) + 1
           s == f.stats[p]
           r == g.stats[p]
           old == Cardinality(CancelsIn(bs, p))
           new == Cardinality(CancelsIn(cs, p))
<1>0. b \in BookRecords /\ b.event = e /\ b.ts = t /\ p \in Keys /\ Withdrawn(e) \in Nat
  BY EventIs DEF BookRecords
<1> HIDE DEF b
<1>1. /\ cs \in Seq(BookRecords) /\ Len(cs) = n /\ cs[n] = b /\ n \in Nat
      /\ \A c \in CancelsIn(bs, p) : c[1] \in 1..Len(bs) /\ cs[c[1]] = bs[c[1]]
      /\ CancelsIn(cs, p) = CancelsIn(bs, p) \cup News(n, e)
      /\ AddsIn(cs, p) = AddsIn(bs, p) \cup (IF Shown(e) THEN {n} ELSE {})
  BY <1>0, HistoryGrows
<1> HIDE DEF cs, p
<1>2. IsFiniteSet(CancelsIn(bs, p)) /\ old \in Nat
  BY CancelsFinite
<1>3. \A c \in CancelsIn(bs, p) : c[1] # n
  <2>1. \A k \in 1..Len(bs) : k # Len(bs) + 1
    OBVIOUS
  <2> QED  BY <1>1, <2>1
<1>4. new = old + Withdrawn(e) /\ (Withdrawn(e) = 0 => News(n, e) = {})
  BY <1>1, <1>2, <1>3, NewsCount
<1> HIDE DEF n
<1>5. r.cancels <= s.cancels + Withdrawn(e) /\ (r.added = NoTime => r.cancels = 0)
      /\ (r.added # NoTime => Shown(e) \/ s.added # NoTime)
  BY DEF Here, p
<1>6. s.cancels <= old /\ (s.added # NoTime => AddsIn(bs, p) # {})
  BY DEF Sound, p
<1>7. s.cancels \in Nat /\ r.cancels \in Nat /\ MinEvents \in Nat
  BY <1>0, SpoofNumbers DEF Filters, Stat
<1>8. Shown(e) \/ s.added # NoTime => AddsIn(cs, p) # {}
  BY <1>1, <1>6
<1> HIDE DEF old, new
<1>9. ASSUME g.flagged[p] # NoTime
      PROVE  /\ new >= MinEvents /\ AddsIn(cs, p) # {}
             /\ \E c \in CancelsIn(cs, p) : cs[c[1]].ts = g.flagged[p]
  <2>1. CASE g.flagged[p] = f.flagged[p]
    <3>1. /\ old >= MinEvents /\ AddsIn(bs, p) # {}
          /\ \E c \in CancelsIn(bs, p) : bs[c[1]].ts = f.flagged[p]
      BY <1>9, <2>1 DEF Sound, p, old
    <3>2. PICK c \in CancelsIn(bs, p) : bs[c[1]].ts = f.flagged[p]
      BY <3>1
    <3>3. c \in CancelsIn(cs, p) /\ cs[c[1]].ts = g.flagged[p]
      BY <1>1, <2>1, <3>2
    <3>4. new >= MinEvents
      BY <1>0, <1>2, <1>4, <1>7, <3>1
    <3> QED  BY <1>1, <3>1, <3>3, <3>4
  <2>2. CASE g.flagged[p] # f.flagged[p]
    <3>1. /\ g.flagged[p] = t /\ Withdrawn(e) >= 1 /\ s.cancels + Withdrawn(e) >= MinEvents
          /\ Shown(e) \/ s.added # NoTime
      BY <2>2 DEF Here, p
    <3>2. new >= MinEvents
      BY <1>0, <1>2, <1>4, <1>6, <1>7, <3>1
    <3>3. \E c \in News(n, e) : c[1] = n
      <4>1. Gone(e.bid) \/ Gone(e.ask)
        BY <3>1 DEF Withdrawn
      <4>2. Gone(e.bid) => <<n, "bid">> \in News(n, e)
        BY EventIs DEF News
      <4>3. Gone(e.ask) => <<n, "ask">> \in News(n, e)
        BY EventIs DEF News
      <4> QED  BY <4>1, <4>2, <4>3
    <3>4. PICK c \in News(n, e) : c[1] = n
      BY <3>3
    <3>5. c \in CancelsIn(cs, p) /\ cs[c[1]].ts = t
      BY <1>0, <1>1, <3>4
    <3> QED  BY <1>8, <3>1, <3>2, <3>5
  <2> QED  BY <2>1, <2>2
<1>10. r.cancels <= new
  BY <1>0, <1>2, <1>4, <1>5, <1>6, <1>7
<1>11. r.added # NoTime => AddsIn(cs, p) # {}
  BY <1>5, <1>8
<1> HIDE DEF s
<1>12. Sound(g, cs, p)
  BY <1>5, <1>9, <1>10, <1>11 DEF Sound, new
<1> QED  BY <1>12 DEF p, b, cs

\* and complete.
LEMMA CompleteHere ==
  ASSUME NEW f \in Filters, NEW bs \in Seq(BookRecords), NEW e \in BookEvents, NEW t \in Times,
         NEW g \in Filters, Complete(f, bs, e.price), PastOf(bs, t),
         Here(f.stats[e.price], f.flagged[e.price], g.stats[e.price], g.flagged[e.price], e, t)
  PROVE  Complete(g, Append(bs, [event |-> e, ts |-> t]), e.price)
<1> DEFINE p == e.price
           b == [event |-> e, ts |-> t]
           cs == Append(bs, b)
           n == Len(bs) + 1
           s == f.stats[p]
           r == g.stats[p]
<1>0. b \in BookRecords /\ b.event = e /\ b.ts = t /\ p \in Keys /\ Withdrawn(e) \in Nat
  BY EventIs DEF BookRecords
<1> HIDE DEF b
<1>1. /\ cs \in Seq(BookRecords) /\ Len(cs) = n /\ cs[n] = b /\ Last(cs) = b /\ n \in Nat
      /\ \A k \in 1..Len(bs) : cs[k] = bs[k]
      /\ \A c \in CancelsIn(bs, p) : c[1] \in 1..Len(bs) /\ cs[c[1]] = bs[c[1]]
      /\ CancelsIn(cs, p) = CancelsIn(bs, p) \cup News(n, e)
      /\ AddsIn(cs, p) = AddsIn(bs, p) \cup (IF Shown(e) THEN {n} ELSE {})
  BY <1>0, HistoryGrows
<1> HIDE DEF cs, p
<1>2. \A c \in News(n, e) : c[1] = n /\ cs[c[1]].ts = t
  BY <1>0, <1>1 DEF News
<1>3. /\ s.cancels \in Nat /\ r.cancels \in Nat /\ s.added \in Int /\ r.added \in Int
      /\ s.added \in Times \cup {NoTime} /\ f.flagged[p] \in Int /\ g.flagged[p] \in Int
  <2>1. s \in Stat /\ f.flagged[p] \in Times \cup {NoTime}
    BY <1>0 DEF Filters
  <2>r. r \in Stat /\ g.flagged[p] \in Times \cup {NoTime}
    BY <1>0 DEF Filters
  <2>2. s.cancels \in Nat /\ r.cancels \in Nat /\ s.added \in Times \cup {NoTime}
        /\ r.added \in Times \cup {NoTime}
    BY <2>1, <2>r DEF Stat
  <2> HIDE DEF s, r
  <2> QED  BY <2>1, <2>r, <2>2, TimesAre
<1>4. Len(bs) \in Nat /\ t \in Int /\ MinEvents \in Nat /\ MinEvents >= 2 /\ SpoofWindow \in Nat
  BY TimesAre, SpoofNumbers
<1>5. \A k \in 1..Len(bs) : bs[k].ts \in Int /\ 0 <= bs[k].ts /\ bs[k].ts <= t
  <2>1. \A k \in 1..Len(bs) : bs[k].ts \in Times
    BY RecordsAre
  <2> QED  BY <2>1, TimesAre DEF PastOf
<1>h. Here(s, f.flagged[p], r, g.flagged[p], e, t)
  BY DEF p
<1>c. Complete(f, bs, p)
  BY DEF p
<1> HIDE DEF n, s, r
<1>6. ASSUME NEW a \in AddsIn(cs, p) PROVE CompleteFor(g, cs, p, a)
  <2>1. CASE a \in AddsIn(bs, p)
    <3> DEFINE old == Cardinality(AfterIn(bs, p, a))
               new == Cardinality(AfterIn(cs, p, a))
               fresh == t - bs[a].ts <= SpoofWindow
    <3>1. a \in 1..Len(bs) /\ bs[a].ts \in Int /\ 0 <= bs[a].ts /\ bs[a].ts <= t /\ cs[a] = bs[a]
          /\ a < n
      <4>1. a \in 1..Len(bs)
        BY <2>1 DEF AddsIn
      <4>2. a < n
        BY <1>4, <4>1 DEF n
      <4> QED  BY <1>1, <1>5, <4>1, <4>2
    <3>2. AfterIn(cs, p, a) = AfterIn(bs, p, a) \cup (IF fresh THEN News(n, e) ELSE {})
      BY <1>1, <1>2, <3>1 DEF AfterIn
    <3>3. IsFiniteSet(AfterIn(bs, p, a)) /\ old \in Nat
      BY CancelsFinite
    <3>4. \A c \in AfterIn(bs, p, a) : c[1] # n /\ cs[c[1]] = bs[c[1]] /\ c[1] \in 1..Len(bs)
      <4>1. \A k \in 1..Len(bs) : k # Len(bs) + 1
        OBVIOUS
      <4> QED  BY <1>1, <4>1 DEF AfterIn, n
    <3>5. /\ fresh => new = old + Withdrawn(e)
          /\ (Withdrawn(e) = 0 => News(n, e) = {})
      BY <1>1, <3>2, <3>3, <3>4, NewsCount
    <3>6. ~ fresh \/ Withdrawn(e) = 0 => AfterIn(cs, p, a) = AfterIn(bs, p, a)
      BY <3>2, <3>5
    <3>c. CompleteFor(f, bs, p, a)
      BY <1>c, <2>1 DEF Complete
    <3>7. fresh => s.added >= bs[a].ts /\ s.cancels >= old /\ ~ Stale(s, t)
      <4>1. Last(bs).ts <= t /\ Last(bs).ts \in Int
        <5>1. Last(bs) = bs[Len(bs)] /\ Len(bs) \in 1..Len(bs)
          BY <3>1 DEF Last
        <5> QED  BY <1>5, <5>1
      <4>2. fresh => Last(bs).ts - bs[a].ts <= SpoofWindow
        BY <1>4, <3>1, <4>1
      <4>3. fresh => s.added >= bs[a].ts /\ s.cancels >= old
        BY <3>c, <4>2 DEF CompleteFor, s
      <4>4. fresh => ~ Stale(s, t)
        BY <1>3, <1>4, <3>1, <4>3, TimesAre DEF Stale
      <4> QED  BY <4>3, <4>4
    <3> HIDE DEF old, new
    <3>8. ASSUME fresh PROVE r.added >= bs[a].ts /\ r.cancels >= new
      <4>1. r.cancels = s.cancels + Withdrawn(e) /\ r.added \in {t, s.added}
        BY <1>h, <3>7, <3>8 DEF Here
      <4> HIDE DEF fresh
      <4>2. new = old + Withdrawn(e) /\ s.cancels >= old /\ s.added >= bs[a].ts
        BY <3>5, <3>7, <3>8
      <4> QED  BY <1>0, <1>3, <3>1, <3>3, <4>1, <4>2
    <3>9. ASSUME new >= MinEvents, NEW c \in AfterIn(cs, p, a) PROVE g.flagged[p] >= cs[c[1]].ts
      <4>1. CASE fresh /\ Withdrawn(e) # 0
        <5>1. Withdrawn(e) >= 1 /\ s.cancels + Withdrawn(e) >= MinEvents
          <6> HIDE DEF fresh
          <6> QED  BY <1>0, <1>3, <1>4, <3>3, <3>5, <3>7, <3>9, <4>1
        <5>2. g.flagged[p] = t
          BY <1>h, <3>7, <4>1, <5>1 DEF Here
        <5>3. cs[c[1]].ts = t \/ c \in AfterIn(bs, p, a)
          BY <1>2, <3>2
        <5> QED  BY <1>4, <1>5, <3>4, <5>2, <5>3
      <4>2. CASE ~ (fresh /\ Withdrawn(e) # 0)
        <5>1. AfterIn(cs, p, a) = AfterIn(bs, p, a)
          BY <3>6, <4>2
        <5>2. f.flagged[p] >= bs[c[1]].ts
          BY <3>9, <3>c, <5>1 DEF CompleteFor, old, new
        <5>3. cs[c[1]] = bs[c[1]] /\ bs[c[1]].ts <= t /\ bs[c[1]].ts \in Int
          BY <1>5, <3>4, <5>1
        <5>4. g.flagged[p] \in {t, f.flagged[p]}
          BY <1>h DEF Here
        <5> QED  BY <5>2, <5>3, <5>4
      <4> QED  BY <4>1, <4>2
    <3>10. Last(cs).ts - cs[a].ts <= SpoofWindow => fresh
      BY <1>0, <1>1, <3>1
    <3> QED  BY <3>1, <3>8, <3>9, <3>10 DEF CompleteFor, r, new
  <2>2. CASE a \notin AddsIn(bs, p)
    <3>1. a = n /\ Shown(e)
      BY <1>1, <2>2, <1>6
    <3>2. r.added = t
      BY <1>h, <3>1 DEF Here
    <3>3. AfterIn(cs, p, a) = {}
      <4>1. \A k \in 1..n : ~ (k > n)
        BY <1>1
      <4>2. \A c \in CancelsIn(cs, p) : c[1] \in 1..n
        BY <1>1 DEF CancelsIn
      <4> QED  BY <3>1, <4>1, <4>2 DEF AfterIn
    <3>4. Cardinality(AfterIn(cs, p, a)) = 0
      BY <3>3, FS_EmptySet
    <3>5. cs[a].ts = t /\ t >= t
      BY <1>0, <1>1, <1>4, <3>1
    <3>6. g.stats[p].added >= cs[a].ts /\ g.stats[p].cancels >= Cardinality(AfterIn(cs, p, a))
      BY <1>3, <3>2, <3>4, <3>5 DEF r
    <3>7. ~ (Cardinality(AfterIn(cs, p, a)) >= MinEvents)
      BY <1>4, <3>4
    <3> QED  BY <3>6, <3>7 DEF CompleteFor
  <2> QED  BY <2>1, <2>2
<1>7. Complete(g, cs, p)
  BY <1>6 DEF Complete
<1> QED  BY <1>7 DEF p, b, cs

\* Elsewhere an event evicts at most what is stale, and both still hold.
LEMMA Elsewhere ==
  ASSUME NEW f \in Filters, NEW bs \in Seq(BookRecords), NEW e \in BookEvents, NEW t \in Times,
         NEW g \in Filters, NEW p \in Keys, p # e.price,
         Sound(f, bs, p), Complete(f, bs, p), PastOf(bs, t),
         g.flagged[p] = f.flagged[p], g.stats[p] \in {f.stats[p], NoStats},
         ~ Stale(f.stats[p], t) => g.stats[p] = f.stats[p]
  PROVE  LET cs == Append(bs, [event |-> e, ts |-> t])
         IN  Sound(g, cs, p) /\ Complete(g, cs, p)
<1> DEFINE b == [event |-> e, ts |-> t]
           cs == Append(bs, b)
           s == f.stats[p]
           r == g.stats[p]
<1>0. b \in BookRecords /\ b.event = e /\ b.ts = t
  BY DEF BookRecords
<1> HIDE DEF b
<1>1. /\ Last(cs) = b
      /\ \A k \in 1..Len(bs) : cs[k] = bs[k]
      /\ \A c \in CancelsIn(bs, p) : c[1] \in 1..Len(bs) /\ cs[c[1]] = bs[c[1]]
      /\ CancelsIn(cs, p) = CancelsIn(bs, p) /\ AddsIn(cs, p) = AddsIn(bs, p)
  <2>1. /\ Last(cs) = b
        /\ \A k \in 1..Len(bs) : cs[k] = bs[k]
        /\ \A c \in CancelsIn(bs, p) : c[1] \in 1..Len(bs) /\ cs[c[1]] = bs[c[1]]
        /\ CancelsIn(cs, p) = CancelsIn(bs, p)
             \cup (IF b.event.price = p THEN News(Len(bs) + 1, b.event) ELSE {})
        /\ AddsIn(cs, p) = AddsIn(bs, p)
             \cup (IF b.event.price = p /\ Shown(b.event) THEN {Len(bs) + 1} ELSE {})
    BY <1>0, HistoryGrows
  <2>2. b.event.price # p
    BY <1>0
  <2> QED  BY <2>1, <2>2, Zenon
<1> HIDE DEF cs
<1>2. /\ s.cancels \in Nat /\ s.added \in Int /\ s.added \in Times \cup {NoTime}
      /\ NoStats.cancels = 0 /\ NoStats.added = NoTime /\ Cardinality(CancelsIn(bs, p)) \in Nat
  <2>1. s \in Stat
    BY DEF Filters
  <2>2. s.cancels \in Nat /\ s.added \in Times \cup {NoTime}
    BY <2>1 DEF Stat
  <2> HIDE DEF s
  <2> QED  BY <2>2, TimesAre, SpoofNumbers, CancelsFinite
<1>3. Sound(g, cs, p)
  <2>1. r.added = NoTime => r.cancels = 0
    BY <1>2 DEF Sound
  <2>2. r.added # NoTime => AddsIn(cs, p) # {}
    BY <1>1, <1>2 DEF Sound
  <2>3. r.cancels <= Cardinality(CancelsIn(cs, p))
    BY <1>1, <1>2 DEF Sound
  <2>4. ASSUME g.flagged[p] # NoTime
        PROVE  /\ Cardinality(CancelsIn(cs, p)) >= MinEvents /\ AddsIn(cs, p) # {}
               /\ \E c \in CancelsIn(cs, p) : cs[c[1]].ts = g.flagged[p]
    BY <1>1, <2>4 DEF Sound
  <2> QED  BY <2>1, <2>2, <2>3, <2>4 DEF Sound
<1>4. \A k \in 1..Len(bs) : bs[k].ts \in Int /\ 0 <= bs[k].ts /\ bs[k].ts <= t
  <2>1. \A k \in 1..Len(bs) : bs[k].ts \in Times
    BY RecordsAre
  <2> QED  BY <2>1, TimesAre DEF PastOf
<1>5. Len(bs) \in Nat /\ t \in Int /\ SpoofWindow \in Nat
  BY TimesAre, SpoofNumbers
<1>6. ASSUME NEW a \in AddsIn(cs, p) PROVE CompleteFor(g, cs, p, a)
  <2>1. a \in 1..Len(bs) /\ cs[a] = bs[a] /\ a \in AddsIn(bs, p)
    BY <1>1 DEF AddsIn
  <2>2. AfterIn(cs, p, a) = AfterIn(bs, p, a)
    BY <1>1, <2>1 DEF AfterIn
  <2>3. CompleteFor(f, bs, p, a)
    BY <2>1 DEF Complete
  <2>4. ASSUME t - bs[a].ts <= SpoofWindow
        PROVE  r.added >= bs[a].ts /\ r.cancels >= Cardinality(AfterIn(bs, p, a))
    <3>1. Last(bs) = bs[Len(bs)] /\ Len(bs) \in 1..Len(bs)
      BY <2>1 DEF Last
    <3>2. Last(bs).ts - bs[a].ts <= SpoofWindow
      BY <1>4, <1>5, <2>1, <2>4, <3>1
    <3>3. s.added >= bs[a].ts /\ s.cancels >= Cardinality(AfterIn(bs, p, a))
      BY <2>3, <3>2 DEF CompleteFor
    <3>4. ~ Stale(s, t)
      <4> HIDE DEF s
      <4> QED  BY <1>2, <1>4, <1>5, <2>1, <2>4, <3>3, TimesAre DEF Stale
    <3> QED  BY <3>3, <3>4
  <2>5. Last(cs).ts - cs[a].ts = t - bs[a].ts
    BY <1>0, <1>1, <2>1
  <2>6. \A c \in AfterIn(bs, p, a) : cs[c[1]] = bs[c[1]]
    BY <1>1 DEF AfterIn
  <2> QED  BY <2>1, <2>2, <2>3, <2>4, <2>5, <2>6 DEF CompleteFor
<1>7. Complete(g, cs, p)
  BY <1>6 DEF Complete
<1> QED  BY <1>3, <1>7 DEF b, cs

\* The filter against the history, at every price
Faithful(f, bs) == \A p \in Keys : Sound(f, bs, p) /\ Complete(f, bs, p)

\* update_spoof_on_book() keeps the filter in line with the history.
LEMMA FaithfulStep ==
  ASSUME NEW f \in Filters, NEW bs \in Seq(BookRecords), NEW e \in BookEvents, NEW t \in Times,
         Faithful(f, bs), PastOf(bs, t)
  PROVE  /\ UpdateSpoofOnBook(f, e, t) \in Filters
         /\ Faithful(UpdateSpoofOnBook(f, e, t), Append(bs, [event |-> e, ts |-> t]))
<1> DEFINE g == UpdateSpoofOnBook(f, e, t)
           cs == Append(bs, [event |-> e, ts |-> t])
<1>1. /\ g \in Filters
      /\ \A p \in Keys : p # e.price =>
           /\ g.flagged[p] = f.flagged[p] /\ g.stats[p] \in {f.stats[p], NoStats}
           /\ ~ Stale(f.stats[p], t) => g.stats[p] = f.stats[p]
  BY UpdateElsewhere
<1>2. e.price \in Keys
  BY EventIs
<1>3. Sound(f, bs, e.price) /\ Complete(f, bs, e.price)
  BY <1>2 DEF Faithful
<1>4. Here(f.stats[e.price], f.flagged[e.price], g.stats[e.price], g.flagged[e.price], e, t)
  <2>1. f.stats[e.price].added = NoTime => f.stats[e.price].cancels = 0
    BY <1>3 DEF Sound
  <2> QED  BY <2>1, UpdateHere
<1> HIDE DEF g
<1>5. ASSUME NEW p \in Keys PROVE Sound(g, cs, p) /\ Complete(g, cs, p)
  <2>1. CASE p = e.price
    BY <1>1, <1>3, <1>4, <2>1, SoundHere, CompleteHere
  <2>2. CASE p # e.price
    <3>1. Sound(f, bs, p) /\ Complete(f, bs, p)
      BY DEF Faithful
    <3> QED  BY <1>1, <2>2, <3>1, Elsewhere
  <2> QED  BY <2>1, <2>2
<1> QED  BY <1>1, <1>5 DEF Faithful, g

-----------------------------------------------------------------------------
(* The decaying score *)

\* A product is divided without a remainder.
LEMMA ExactDivision == \A x \in Int : \A y \in Nat \ {0} : (x * y) \div y = x
OBVIOUS

\* What an event is worth before the halving
Worth(e) == Weight(e.level) * (Grown(e.bid) - Grown(e.ask))

\* Weights and worths are whole numbers.
LEMMA WorthIs ==
  ASSUME NEW e \in BookEvents, e.level \in Slots
  PROVE  /\ Worth(e) \in Int /\ OfiDelta(e) \in Int
         /\ Weight(e.level) * OfiDelta(e) = Worth(e) * Pow2[MaxTime]
<1> DEFINE w == Weight(e.level)
           d == Grown(e.bid) - Grown(e.ask)
           m == Pow2[MaxTime]
<1>1. w \in Nat
  <2>1. BookLevels - 1 - e.level \in Nat
    BY FlowAssumption DEF Slots
  <2> QED  BY <2>1, PowDoubles DEF Weight
<1>2. d \in Int
  <2>1. e.bid \in Nat \X Nat /\ e.ask \in Nat \X Nat
    BY FlowAssumption
  <2>2. \A side \in Nat \X Nat : Grown(side) \in Int
    BY DEF Grown
  <2> QED  BY <2>1, <2>2
<1>3. m \in Nat
  BY FlowAssumption, PowDoubles
<1>4. Worth(e) = w * d /\ OfiDelta(e) = d * m
  BY DEF Worth, OfiDelta
<1> HIDE DEF w, d, m
<1>5. w * (d * m) = (w * d) * m /\ w * d \in Int /\ d * m \in Int
  BY <1>1, <1>2, <1>3
<1> QED  BY <1>4, <1>5 DEF w, m

\* What is left of an event: the halving is exact as long as there is time to come.
LEMMA ShareIs ==
  ASSUME NEW b \in BookRecords, NEW u \in Times, InRange(b) => b.ts <= u
  PROVE  /\ ~ InRange(b) => Share(b, u) = 0
         /\ InRange(b) => Share(b, u) = Worth(b.event) * Pow2[MaxTime - (u - b.ts)]
         /\ Share(b, u) \in Int
<1>1. ~ InRange(b) => Share(b, u) = 0
  BY DEF Share
<1>2. ASSUME InRange(b)
      PROVE  /\ Share(b, u) = Worth(b.event) * Pow2[MaxTime - (u - b.ts)]
             /\ Share(b, u) \in Int
  <2> DEFINE w == Worth(b.event)
             n == u - b.ts
             x == Pow2[MaxTime - n]
             y == Pow2[n]
  <2>1. b.event \in BookEvents /\ b.ts \in Times /\ b.event.level \in Slots
    BY <1>2 DEF BookRecords, InRange
  <2>2. w \in Int /\ Weight(b.event.level) * OfiDelta(b.event) = w * Pow2[MaxTime]
    BY <2>1, WorthIs
  <2>3. n \in Nat /\ MaxTime - n \in Nat /\ (MaxTime - n) + n = MaxTime
    BY <1>2, <2>1, FlowAssumption DEF Times
  <2>4. Pow2[MaxTime] = x * y
    BY <2>3, PowSum
  <2>5. x \in Nat \ {0} /\ y \in Nat \ {0}
    BY <2>3, PowDoubles
  <2>6. Share(b, u) = (w * Pow2[MaxTime]) \div y
    BY <1>2, <2>2 DEF Share
  <2> HIDE DEF w, x, y
  <2>7. w * (x * y) = (w * x) * y /\ w * x \in Int
    BY <2>2, <2>5
  <2>8. Share(b, u) = w * x
    BY <2>4, <2>5, <2>6, <2>7, ExactDivision
  <2> QED  BY <2>7, <2>8 DEF w, x
<1> QED  BY <1>1, <1>2

\* Later there is less of it, by as many halvings.
LEMMA ShareHalves ==
  ASSUME NEW b \in BookRecords, NEW u \in Times, NEW t \in Times, u <= t, InRange(b) => b.ts <= u
  PROVE  Share(b, u) = Share(b, t) * Pow2[t - u]
<1>0. b.ts \in Int /\ u \in Int /\ t \in Int /\ MaxTime \in Int /\ 0 <= b.ts /\ t <= MaxTime
      /\ b.event \in BookEvents
  BY FlowAssumption DEF Times, BookRecords
<1>1. CASE ~ InRange(b)
  <2>1. Share(b, u) = 0 /\ Share(b, t) = 0
    BY <1>1 DEF Share
  <2>2. t - u \in Nat
    BY <1>0
  <2>3. Pow2[t - u] \in Nat
    BY <2>2, PowDoubles
  <2> QED  BY <2>1, <2>3
<1>2. CASE InRange(b)
  <2> DEFINE w == Worth(b.event)
             n == MaxTime - (t - b.ts)
  <2>1. w \in Int
    BY <1>0, <1>2, WorthIs DEF InRange
  <2>2. b.ts <= u /\ b.ts <= t
    BY <1>0, <1>2
  <2>3. n \in Nat /\ t - u \in Nat /\ n + (t - u) = MaxTime - (u - b.ts)
    BY <1>0, <2>2
  <2>4. Share(b, u) = w * Pow2[MaxTime - (u - b.ts)] /\ Share(b, t) = w * Pow2[n]
    BY <1>2, <2>2, ShareIs
  <2>5. Pow2[MaxTime - (u - b.ts)] = Pow2[n] * Pow2[t - u]
    <3>1. Pow2[n + (t - u)] = Pow2[n] * Pow2[t - u]
      BY <2>3, PowSum
    <3> QED  BY <2>3, <3>1
  <2>6. Pow2[n] \in Nat /\ Pow2[t - u] \in Nat
    BY <2>3, PowDoubles
  <2>7. \A x \in Int : \A y, z \in Nat : x * (y * z) = (x * y) * z
    OBVIOUS
  <2> QED  BY <2>1, <2>4, <2>5, <2>6, <2>7
<1> QED  BY <1>1, <1>2

\* No event in range is after u.
Covers(bs, u) == \A k \in 1..Len(bs) : InRange(bs[k]) => bs[k].ts <= u

\* Then what is left of each event is a whole number, and without u none is in range.
LEMMA SharesAre ==
  ASSUME NEW bs \in Seq(BookRecords), NEW u \in Times \cup {NoTime}, Covers(bs, u),
         NEW k \in 1..Len(bs)
  PROVE  Share(bs[k], u) \in Int /\ (u = NoTime => ~ InRange(bs[k]))
<1>1. bs[k] \in BookRecords /\ bs[k].ts \in Times /\ (InRange(bs[k]) => bs[k].ts <= u)
  BY RecordsAre DEF Covers
<1>2. CASE u = NoTime
  <2>1. bs[k].ts \in Int /\ 0 <= bs[k].ts /\ u < 0 /\ u \in Int
    BY <1>1, <1>2, TimesAre
  <2>2. ~ InRange(bs[k])
    BY <1>1, <2>1
  <2>3. Share(bs[k], u) = 0
    BY <2>2 DEF Share
  <2> QED  BY <2>2, <2>3
<1>3. CASE u \in Times
  BY <1>1, <1>3, ShareIs, TimesAre
<1> QED  BY <1>2, <1>3

\* The running totals s of the first n events
Totals(s, n, bs, u) ==
  s \in [0..n -> Int] /\ s[0] = 0 /\ \A k \in 1..n : s[k] = s[k - 1] + Share(bs[k], u)

\* There are such totals of any history.
LEMMA TotalsExist ==
  ASSUME NEW bs \in Seq(BookRecords), NEW u \in Times \cup {NoTime}, Covers(bs, u)
  PROVE  \E s : Totals(s, Len(bs), bs, u)
<1> DEFINE T == {n \in Nat : n <= Len(bs) /\ ~ \E s : Totals(s, n, bs, u)}
<1>1. ASSUME Len(bs) \in T PROVE FALSE
  <2>1. PICK n \in T : \A m \in T : n <= m
    BY <1>1, LeastNumber
  <2>2. n # 0
    <3>1. Totals([k \in 0..0 |-> 0], 0, bs, u)
      BY DEF Totals
    <3> QED  BY <3>1
  <2>3. n - 1 \in Nat /\ n - 1 \notin T /\ n \in 1..Len(bs) /\ n - 1 <= Len(bs)
    BY <2>1, <2>2
  <2>4. PICK s : Totals(s, n - 1, bs, u)
    BY <2>3
  <2>5. Share(bs[n], u) \in Int
    BY <2>3, SharesAre
  <2> DEFINE h == [k \in 0..n |-> IF k < n THEN s[k] ELSE s[n - 1] + Share(bs[n], u)]
  <2>6. h \in [0..n -> Int] /\ h[0] = 0
    BY <2>3, <2>4, <2>5 DEF Totals
  <2>7. ASSUME NEW k \in 1..n PROVE h[k] = h[k - 1] + Share(bs[k], u)
    <3>1. CASE k < n
      <4>1. k \in 1..(n - 1) /\ k \in 0..n /\ k - 1 \in 0..n /\ k - 1 < n
        BY <3>1, <2>3
      <4>2. h[k] = s[k] /\ h[k - 1] = s[k - 1]
        BY <3>1, <4>1
      <4> QED  BY <4>1, <4>2, <2>4 DEF Totals
    <3>2. CASE k = n
      <4>1. n \in 0..n /\ n - 1 \in 0..n /\ n - 1 < n /\ ~ (n < n)
        BY <2>3
      <4>2. h[n] = s[n - 1] + Share(bs[n], u) /\ h[n - 1] = s[n - 1]
        BY <4>1
      <4> QED  BY <3>2, <4>2
    <3> QED  BY <3>1, <3>2
  <2>8. Totals(h, n, bs, u)
    <3> HIDE DEF h
    <3> QED  BY <2>6, <2>7 DEF Totals
  <2> QED  BY <2>1, <2>8
<1> QED  BY <1>1

\* The last of them is the decayed flow.
LEMMA FlowIsTotal ==
  ASSUME NEW bs \in Seq(BookRecords), NEW u, NEW s, Totals(s, Len(bs), bs, u)
  PROVE  DecayedFlow(bs, u) = s[Len(bs)] /\ s[Len(bs)] \in Int
<1> DEFINE Solves(g) ==
             g = [n \in 0..Len(bs) |-> IF n = 0 THEN 0 ELSE g[n - 1] + Share(bs[n], u)]
           sum == CHOOSE g : Solves(g)
<1>0. Len(bs) \in Nat
  OBVIOUS
<1>1. DecayedFlow(bs, u) = sum[Len(bs)]
  BY DEF DecayedFlow
<1>2. Solves(s)
  <2>1. \A n \in 0..Len(bs) : s[n] = IF n = 0 THEN 0 ELSE s[n - 1] + Share(bs[n], u)
    BY <1>0 DEF Totals
  <2>2. s = [n \in 0..Len(bs) |-> s[n]]
    BY DEF Totals
  <2> QED  BY <2>1, <2>2
<1>3. Solves(sum)
  <2> HIDE DEF Solves
  <2> QED  BY <1>2, Zenon
<1> HIDE DEF sum
<1>4. \A n \in 0..Len(bs) : sum[n] = IF n = 0 THEN 0 ELSE sum[n - 1] + Share(bs[n], u)
  BY <1>3
<1>5. ASSUME sum[Len(bs)] # s[Len(bs)] PROVE FALSE
  <2> DEFINE T == {n \in Nat : n <= Len(bs) /\ sum[n] # s[n]}
  <2>1. T \in SUBSET Nat /\ Len(bs) \in T
    BY <1>0, <1>5
  <2>2. PICK n \in T : \A m \in T : n <= m
    BY <2>1, LeastNumber
  <2>3. n # 0
    BY <1>0, <1>4 DEF Totals
  <2>4. n - 1 \in Nat /\ n - 1 \notin T /\ n \in 1..Len(bs) /\ n \in 0..Len(bs)
    BY <2>2, <2>3
  <2>5. sum[n - 1] = s[n - 1]
    BY <2>4
  <2>6. s[n] = s[n - 1] + Share(bs[n], u)
    BY <2>4 DEF Totals
  <2> QED  BY <1>4, <2>3, <2>4, <2>5, <2>6
<1>6. s[Len(bs)] \in Int
  BY <1>0 DEF Totals
<1> QED  BY <1>1, <1>5, <1>6

\* One more event adds what is left of it.
LEMMA FlowGrows ==
  ASSUME NEW bs \in Seq(BookRecords), NEW b \in BookRecords, NEW u \in Times \cup {NoTime},
         Covers(Append(bs, b), u)
  PROVE  DecayedFlow(Append(bs, b), u) = DecayedFlow(bs, u) + Share(b, u)
<1> DEFINE cs == Append(bs, b)
           n == Len(bs) + 1
<1>1. cs \in Seq(BookRecords) /\ Len(cs) = n /\ cs[n] = b /\ Len(bs) \in Nat
      /\ \A k \in 1..Len(bs) : cs[k] = bs[k]
  BY AppendProperties
<1> HIDE DEF cs
<1>2. PICK s : Totals(s, Len(cs), cs, u)
  BY <1>1, TotalsExist DEF cs
<1>3. DecayedFlow(cs, u) = s[n]
  BY <1>1, <1>2, FlowIsTotal
<1> DEFINE r == [k \in 0..Len(bs) |-> s[k]]
<1>4. s \in [0..n -> Int] /\ s[0] = 0 /\ \A k \in 1..n : s[k] = s[k - 1] + Share(cs[k], u)
  BY <1>1, <1>2 DEF Totals
<1>5. Totals(r, Len(bs), bs, u)
  <2>1. r \in [0..Len(bs) -> Int] /\ r[0] = 0
    BY <1>1, <1>4
  <2>2. ASSUME NEW k \in 1..Len(bs) PROVE r[k] = r[k - 1] + Share(bs[k], u)
    <3>1. k \in 0..Len(bs) /\ k - 1 \in 0..Len(bs) /\ k \in 1..n
      BY <1>1
    <3>2. r[k] = s[k] /\ r[k - 1] = s[k - 1]
      BY <3>1
    <3> HIDE DEF r
    <3> QED  BY <1>1, <1>4, <3>1, <3>2
  <2> HIDE DEF r
  <2> QED  BY <2>1, <2>2 DEF Totals
<1>6. DecayedFlow(bs, u) = r[Len(bs)]
  BY <1>5, FlowIsTotal
<1>7. r[Len(bs)] = s[Len(bs)] /\ n \in 1..n /\ n - 1 = Len(bs)
  BY <1>1
<1>8. s[n] = s[n - 1] + Share(b, u)
  BY <1>1, <1>4, <1>7
<1> HIDE DEF r
<1> QED  BY <1>3, <1>6, <1>7, <1>8 DEF cs

\* The flow scales with what is left of the events.
LEMMA FlowScales ==
  ASSUME NEW bs \in Seq(BookRecords), NEW u \in Times \cup {NoTime}, NEW t \in Times \cup {NoTime},
         NEW m \in Nat, Covers(bs, u), Covers(bs, t),
         \A k \in 1..Len(bs) : Share(bs[k], u) = Share(bs[k], t) * m
  PROVE  /\ DecayedFlow(bs, u) = DecayedFlow(bs, t) * m
         /\ DecayedFlow(bs, u) \in Int /\ DecayedFlow(bs, t) \in Int
<1>1. PICK x : Totals(x, Len(bs), bs, u)
  BY TotalsExist
<1>2. PICK y : Totals(y, Len(bs), bs, t)
  BY TotalsExist
<1>3. /\ DecayedFlow(bs, u) = x[Len(bs)] /\ x[Len(bs)] \in Int
      /\ DecayedFlow(bs, t) = y[Len(bs)] /\ y[Len(bs)] \in Int
  BY <1>1, <1>2, FlowIsTotal
<1> DEFINE T == {n \in Nat : n <= Len(bs) /\ x[n] # y[n] * m}
<1>4. ASSUME Len(bs) \in T PROVE FALSE
  <2>1. PICK n \in T : \A k \in T : n <= k
    BY <1>4, LeastNumber
  <2>2. n # 0
    BY <1>1, <1>2 DEF Totals
  <2>3. n - 1 \in Nat /\ n - 1 \notin T /\ n \in 1..Len(bs) /\ n - 1 \in 0..Len(bs)
    BY <2>1, <2>2
  <2>4. x[n - 1] = y[n - 1] * m
    BY <2>3
  <2>5. x[n] = x[n - 1] + Share(bs[n], u) /\ y[n] = y[n - 1] + Share(bs[n], t)
        /\ y[n - 1] \in Int
    BY <1>1, <1>2, <2>3 DEF Totals
  <2>6. Share(bs[n], t) \in Int /\ Share(bs[n], u) = Share(bs[n], t) * m
    BY <2>3, SharesAre
  <2>7. \A a, b \in Int : a * m + b * m = (a + b) * m
    OBVIOUS
  <2>8. x[n] = y[n] * m
    BY <2>4, <2>5, <2>6, <2>7
  <2> QED  BY <2>1, <2>8
<1>5. Len(bs) \in Nat /\ Len(bs) <= Len(bs)
  OBVIOUS
<1> QED  BY <1>3, <1>4, <1>5

BookStates == [score : Int, levels : [Slots -> Int], last : Times \cup {NoTime}]

\* The score of b is the decayed flow of bs up to its last event in range.
Scored(b, bs) ==
  /\ b.last = NoTime \/ \E k \in 1..Len(bs) : InRange(bs[k]) /\ bs[k].ts = b.last
  /\ Covers(bs, b.last) /\ b.score = DecayedFlow(bs, b.last)

\* The time it keeps is the time of that event.
LEMMA LastTimeIs ==
  ASSUME NEW b \in BookStates, NEW bs \in Seq(BookRecords), Scored(b, bs)
  PROVE  LastTime(bs) = b.last
<1> DEFINE S == {NoTime} \cup {bs[k].ts : k \in {j \in 1..Len(bs) : InRange(bs[j])}}
           P(x) == \A y \in S : x >= y
<1>0. b.last \in Times \cup {NoTime}
  BY DEF BookStates
<1>1. \A x \in S : x \in Int /\ NoTime <= x
  <2>1. \A k \in 1..Len(bs) : bs[k].ts \in Times
    BY RecordsAre
  <2>2. \A x \in Times : x \in Int /\ NoTime <= x
    BY TimesAre
  <2>3. NoTime \in Int /\ NoTime <= NoTime
    BY TimesAre
  <2> QED  BY <2>1, <2>2, <2>3
<1>2. b.last \in S
  BY DEF Scored
<1>3. \A y \in S : b.last >= y
  <2>1. b.last >= NoTime /\ b.last \in Int
    BY <1>1, <1>2
  <2>2. ASSUME NEW k \in 1..Len(bs), InRange(bs[k]) PROVE b.last >= bs[k].ts
    <3>1. bs[k].ts <= b.last /\ bs[k].ts \in S
      BY <2>2 DEF Scored, Covers
    <3> QED  BY <1>1, <2>1, <3>1
  <2> QED  BY <2>1, <2>2
<1>4. LastTime(bs) = CHOOSE x \in S : P(x)
  BY DEF LastTime, Max
<1>5. \E x \in S : P(x)
  BY <1>2, <1>3
<1> DEFINE m == CHOOSE x \in S : P(x)
<1>6. m \in S /\ P(m)
  <2> HIDE DEF S, P
  <2> QED  BY <1>5, Zenon
<1> HIDE DEF m
<1>7. m >= b.last /\ b.last >= m /\ m \in Int /\ b.last \in Int
  BY <1>1, <1>2, <1>3, <1>6
<1> QED  BY <1>4, <1>7 DEF m

\* apply_time_decay() halves the score as often as time has passed.
LEMMA DecayIs ==
  ASSUME NEW b \in BookStates, NEW bs \in Seq(BookRecords), NEW t \in Times,
         Scored(b, bs), PastOf(bs, t)
  PROVE  LET d == ApplyTimeDecay(b, t)
         IN  /\ d \in BookStates /\ d.last = t
             /\ d.score = DecayedFlow(bs, t) /\ Covers(bs, t)
<1> DEFINE d == ApplyTimeDecay(b, t)
           u == b.last
<1>0. b.score \in Int /\ b.levels \in [Slots -> Int] /\ u \in Times \cup {NoTime}
      /\ b.score = DecayedFlow(bs, u) /\ Covers(bs, u)
  BY DEF BookStates, Scored
<1>1. Covers(bs, t)
  BY DEF Covers, PastOf
<1>2. CASE u = NoTime
  <2>1. d = [b EXCEPT !.last = t]
    BY <1>2 DEF ApplyTimeDecay
  <2>2. d \in BookStates /\ d.last = t /\ d.score = b.score
    BY <2>1 DEF BookStates
  <2>3. \A k \in 1..Len(bs) : ~ InRange(bs[k])
    BY <1>0, <1>2, SharesAre
  <2>4. \A k \in 1..Len(bs) : Share(bs[k], u) = 0 /\ Share(bs[k], t) = 0
    BY <2>3 DEF Share
  <2>5. \A k \in 1..Len(bs) : /\ Share(bs[k], u) = Share(bs[k], t) * 0
                              /\ Share(bs[k], t) = Share(bs[k], t) * 0
    BY <2>4
  <2>z. 0 \in Nat /\ t \in Times \cup {NoTime}
    OBVIOUS
  <2> HIDE DEF u, d
  <2>6. DecayedFlow(bs, u) = DecayedFlow(bs, t) * 0 /\ DecayedFlow(bs, t) \in Int
    BY <1>0, <1>1, <2>5, <2>z, FlowScales
  <2>7. DecayedFlow(bs, t) = DecayedFlow(bs, t) * 0
    BY <1>1, <2>5, <2>z, FlowScales
  <2> QED  BY <1>0, <1>1, <2>2, <2>6, <2>7 DEF d
<1>3. CASE u # NoTime
  <2> DEFINE factor == Pow2[t - u]
  <2>1. u \in Times /\ u <= t /\ t - u \in Nat
    <3>1. PICK k \in 1..Len(bs) : bs[k].ts = u
      BY <1>3 DEF Scored
    <3>2. u <= t /\ u \in Times
      BY <1>0, <1>3, <3>1 DEF PastOf
    <3>3. u \in Int /\ t \in Int
      BY <3>2, TimesAre
    <3> QED  BY <3>2, <3>3
  <2>2. factor \in Nat \ {0}
    BY <2>1, PowDoubles
  <2>3. d = [score |-> b.score \div factor,
             levels |-> [k \in Slots |-> b.levels[k] \div factor], last |-> t]
    BY <1>3 DEF ApplyTimeDecay
  <2> HIDE DEF factor
  <2>4. \A k \in Slots : b.levels[k] \in Int
    BY <1>0
  <2>5. \A x \in Int : x \div factor \in Int
    BY <2>2
  <2>6. d \in BookStates /\ d.last = t /\ d.score = b.score \div factor
    BY <1>0, <2>3, <2>4, <2>5 DEF BookStates
  <2>7. \A k \in 1..Len(bs) : Share(bs[k], u) = Share(bs[k], t) * factor
    <3>1. \A k \in 1..Len(bs) : bs[k] \in BookRecords /\ (InRange(bs[k]) => bs[k].ts <= u)
      BY <1>0, RecordsAre DEF Covers
    <3> HIDE DEF u
    <3> QED  BY <2>1, <3>1, ShareHalves DEF factor
  <2> HIDE DEF u, d
  <2>8. DecayedFlow(bs, u) = DecayedFlow(bs, t) * factor /\ DecayedFlow(bs, t) \in Int
    <3>1. u \in Times \cup {NoTime} /\ t \in Times \cup {NoTime} /\ factor \in Nat
      BY <2>1, <2>2
    <3> QED  BY <1>0, <1>1, <2>7, <3>1, FlowScales
  <2>9. (DecayedFlow(bs, t) * factor) \div factor = DecayedFlow(bs, t)
    BY <2>2, <2>8, ExactDivision
  <2> QED  BY <1>0, <1>1, <2>6, <2>8, <2>9 DEF d
<1> QED  BY <1>2, <1>3

\* on_book_event() keeps the score what it is said to be.
LEMMA ScoredStep ==
  ASSUME NEW b \in BookStates, NEW bs \in Seq(BookRecords), NEW e \in BookEvents, NEW t \in Times,
         Scored(b, bs), PastOf(bs, t)
  PROVE  /\ ObOnBookEvent(b, e, t) \in BookStates
         /\ Scored(ObOnBookEvent(b, e, t), Append(bs, [event |-> e, ts |-> t]))
<1> DEFINE c == [event |-> e, ts |-> t]
           cs == Append(bs, c)
           g == ObOnBookEvent(b, e, t)
           n == Len(bs) + 1
<1>0. c \in BookRecords /\ c.event = e /\ c.ts = t
  BY DEF BookRecords
<1>r. InRange(c) <=> e.level \in Slots
  BY <1>0 DEF InRange
<1> HIDE DEF c
<1>1. cs \in Seq(BookRecords) /\ Len(cs) = n /\ cs[n] = c /\ Len(bs) \in Nat /\ n \in 1..n
      /\ (\A k \in 1..Len(bs) : cs[k] = bs[k]) /\ 1..n = (1..Len(bs)) \cup {n}
  BY <1>0, AppendProperties
<1> HIDE DEF cs, n
<1>2. CASE e.level \notin Slots
  <2>1. g = b
    BY <1>2 DEF ObOnBookEvent
  <2>2. Covers(bs, b.last) /\ b.score = DecayedFlow(bs, b.last) /\ b.score \in Int
        /\ b.last \in Times \cup {NoTime}
    BY DEF Scored, BookStates
  <2>3. Covers(cs, b.last)
    BY <1>1, <1>2, <1>r, <2>2 DEF Covers
  <2>4. DecayedFlow(cs, b.last) = DecayedFlow(bs, b.last) + Share(c, b.last)
    BY <1>0, <2>2, <2>3, FlowGrows DEF cs
  <2>5. Share(c, b.last) = 0
    BY <1>2, <1>r DEF Share
  <2>6. b.score = DecayedFlow(cs, b.last)
    BY <2>2, <2>4, <2>5
  <2>7. b.last = NoTime \/ \E k \in 1..Len(cs) : InRange(cs[k]) /\ cs[k].ts = b.last
    BY <1>1 DEF Scored
  <2>8. Scored(b, cs)
    BY <2>3, <2>6, <2>7 DEF Scored
  <2> QED  BY <2>1, <2>8 DEF cs, c
<1>3. CASE e.level \in Slots
  <2> DEFINE d == ApplyTimeDecay(b, t)
             x == Weight(e.level) * OfiDelta(e)
  <2>1. d \in BookStates /\ d.last = t /\ d.score = DecayedFlow(bs, t) /\ Covers(bs, t)
    BY DecayIs
  <2>2. g = [d EXCEPT !.levels[e.level] = @ + OfiDelta(e), !.score = @ + x]
    BY <1>3 DEF ObOnBookEvent
  <2>3. OfiDelta(e) \in Int /\ Worth(e) \in Int /\ x = Worth(e) * Pow2[MaxTime]
    BY <1>3, WorthIs
  <2>4. x \in Int
    <3>1. Pow2[MaxTime] \in Nat
      BY FlowAssumption, PowDoubles
    <3> QED  BY <2>3, <3>1
  <2> HIDE DEF d, x
  <2>5. g \in BookStates /\ g.last = t /\ g.score = DecayedFlow(bs, t) + x
    <3>1. d.score \in Int /\ d.levels \in [Slots -> Int]
      BY <2>1 DEF BookStates
    <3>2. d.score + x \in Int
      BY <2>4, <3>1
    <3>3. d.levels[e.level] + OfiDelta(e) \in Int
      BY <1>3, <2>3, <3>1
    <3> DEFINE ls == [d.levels EXCEPT ![e.level] = @ + OfiDelta(e)]
    <3>4. ls \in [Slots -> Int]
      BY <3>1, <3>3
    <3>5. g = [[d EXCEPT !.levels = ls] EXCEPT !.score = d.score + x]
      BY <2>1, <2>2 DEF BookStates
    <3> HIDE DEF ls, g
    <3>6. g \in BookStates /\ g.last = d.last /\ g.score = d.score + x
      BY <2>1, <3>2, <3>4, <3>5 DEF BookStates
    <3> QED  BY <2>1, <3>6
  <2>6. Covers(cs, t)
    <3>1. t <= t
      BY TimesAre
    <3> QED  BY <1>0, <1>1, <2>1, <3>1 DEF Covers
  <2>7. DecayedFlow(cs, t) = DecayedFlow(bs, t) + Share(c, t)
    BY <1>0, <2>6, FlowGrows DEF cs
  <2>8. Share(c, t) = x
    <3>0. t \in Int /\ MaxTime \in Int
      BY TimesAre, SpoofNumbers
    <3>1. t <= t /\ t - t = 0 /\ MaxTime - 0 = MaxTime
      BY <3>0
    <3>2. Share(c, t) = Worth(e) * Pow2[MaxTime - (t - t)]
      BY <1>0, <1>3, <1>r, <3>1, ShareIs
    <3> QED  BY <2>3, <3>1, <3>2
  <2>9. InRange(cs[n]) /\ cs[n].ts = t
    BY <1>0, <1>1, <1>3, <1>r
  <2> HIDE DEF g
  <2>10. Scored(g, cs)
    BY <1>1, <2>5, <2>6, <2>7, <2>8, <2>9 DEF Scored
  <2> QED  BY <2>5, <2>10 DEF g, cs, c
<1> QED  BY <1>2, <1>3

-----------------------------------------------------------------------------
(* The invariant *)

Flows == [window : Seq(Trade), velocity : Seq(Times), cvd : Int]

\* The windows hold what is left of the history hs of trades.
Recent(f, hs) ==
  /\ Kept(TimesOf(f.window), TimesOf(hs), TfiWindow)
  /\ Kept(f.velocity, TimesOf(hs), VelocityWindow)

\* A window of trades slides.
LEMMA WindowSlides ==
  ASSUME NEW w \in Seq(Trade), NEW t \in Trade, NEW width \in Nat
  PROVE  LET v == Append(DropOld(w, TimesOf(w), t.ts - width), t)
         IN  /\ v \in Seq(Trade) /\ TimesOf(v) \in Seq(Int) /\ TimesOf(w) \in Seq(Int)
             /\ \E n : Slides(TimesOf(w), TimesOf(v), n, t.ts, width)
<1> DEFINE d == DropOld(w, TimesOf(w), t.ts - width)
           v == Append(d, t)
<1>0. t.ts \in Int /\ t.ts - width \in Int
  BY TimesAre DEF Trade
<1>1. TimesOf(w) \in Seq(Int) /\ Len(TimesOf(w)) = Len(w) /\ Len(w) \in Nat
      /\ \A k \in 1..Len(w) : TimesOf(w)[k] = w[k].ts
  BY TimesOfIs
<1>2. TimesOf(w) \in [1..Len(w) -> Int]
  BY <1>1
<1>3. d \in Seq(Trade)
  BY <1>0, <1>2, DropOldIs
<1>4. PICK n \in 0..Len(w) :
        /\ Len(d) = Len(w) - n /\ \A k \in 1..Len(d) : d[k] = w[n + k]
        /\ \A k \in 1..n : TimesOf(w)[k] < t.ts - width
        /\ n < Len(w) => TimesOf(w)[n + 1] >= t.ts - width
  BY <1>0, <1>2, DropOldIs
<1> HIDE DEF d
<1>5. v \in Seq(Trade) /\ TimesOf(v) = Append(TimesOf(d), t.ts)
      /\ TimesOf(d) \in Seq(Int) /\ Len(TimesOf(d)) = Len(d) /\ Len(d) \in Nat
      /\ \A k \in 1..Len(d) : TimesOf(d)[k] = d[k].ts
  BY <1>3, TimesOfIs
<1>6. TimesOf(v) \in Seq(Int) /\ Len(TimesOf(v)) = Len(d) + 1 /\ TimesOf(v)[Len(d) + 1] = t.ts
      /\ \A k \in 1..Len(d) : TimesOf(v)[k] = TimesOf(d)[k]
  <2> HIDE DEF v
  <2> QED  BY <1>0, <1>5, AppendProperties
<1> HIDE DEF v
<1>7. \A k \in 1..(Len(w) - n) : TimesOf(v)[k] = TimesOf(w)[n + k]
  <2> SUFFICES ASSUME NEW k \in 1..(Len(w) - n) PROVE TimesOf(v)[k] = TimesOf(w)[n + k]
    OBVIOUS
  <2>1. k \in 1..Len(d) /\ n + k \in 1..Len(w)
    BY <1>1, <1>4
  <2>2. d[k] = w[n + k]
    BY <1>4, <2>1
  <2> QED  BY <1>1, <1>5, <1>6, <2>1, <2>2
<1>8. Slides(TimesOf(w), TimesOf(v), n, t.ts, width)
  BY <1>1, <1>4, <1>6, <1>7 DEF Slides
<1> QED  BY <1>1, <1>5, <1>6, <1>8 DEF v, d

\* So does the window of times alone.
LEMMA VelocitySlides ==
  ASSUME NEW w \in Seq(Times), NEW t \in Times, NEW width \in Nat
  PROVE  LET v == Append(DropOld(w, w, t - width), t)
         IN  /\ v \in Seq(Times) /\ v \in Seq(Int) /\ w \in Seq(Int)
             /\ \E n : Slides(w, v, n, t, width)
<1> DEFINE d == DropOld(w, w, t - width)
           v == Append(d, t)
<1>0. t \in Int /\ t - width \in Int
  BY TimesAre
<1>1. \A u \in Seq(Times) : u \in Seq(Int) /\ u \in [1..Len(u) -> Int] /\ Len(u) \in Nat
  BY TimesAre
<1>2. d \in Seq(Times)
  BY <1>0, <1>1, DropOldIs
<1>3. PICK n \in 0..Len(w) :
        /\ Len(d) = Len(w) - n /\ \A k \in 1..Len(d) : d[k] = w[n + k]
        /\ \A k \in 1..n : w[k] < t - width
        /\ n < Len(w) => w[n + 1] >= t - width
  BY <1>0, <1>1, DropOldIs
<1> HIDE DEF d
<1>4. v \in Seq(Times) /\ Len(v) = Len(d) + 1 /\ v[Len(d) + 1] = t
      /\ \A k \in 1..Len(d) : v[k] = d[k]
  BY <1>2, AppendProperties
<1> HIDE DEF v
<1>5. Slides(w, v, n, t, width)
  BY <1>1, <1>3, <1>4 DEF Slides
<1> QED  BY <1>1, <1>4, <1>5 DEF v, d

\* on_trade() keeps both windows.
LEMMA RecentStep ==
  ASSUME NEW f \in Flows, NEW hs \in Seq(Trade), NEW t \in Trade, Recent(f, hs)
  PROVE  OnTrade(f, t) \in Flows /\ Recent(OnTrade(f, t), Append(hs, t))
<1> DEFINE g == OnTrade(f, t)
           w == Append(DropOld(f.window, TimesOf(f.window), t.ts - TfiWindow), t)
           v == Append(DropOld(f.velocity, f.velocity, t.ts - VelocityWindow), t.ts)
<1>0. f.window \in Seq(Trade) /\ f.velocity \in Seq(Times) /\ f.cvd \in Int
  BY DEF Flows
<1>1. t.ts \in Times /\ t.ts \in Int /\ TfiWindow \in Nat /\ VelocityWindow \in Nat
  BY TimesAre, FlowAssumption DEF Trade
<1>2. Signed(t) \in Int
  <2>1. t.volume \in Volumes
    BY DEF Trade
  <2>2. \A x \in Volumes : x \in Int
    BY FlowAssumption
  <2> QED  BY <2>1, <2>2 DEF Signed
<1>3. g.window = w /\ g.velocity = v /\ g.cvd = f.cvd + Signed(t)
      /\ g = [window |-> w, velocity |-> v, cvd |-> f.cvd + Signed(t)]
  BY DEF OnTrade
<1>4. /\ w \in Seq(Trade) /\ TimesOf(w) \in Seq(Int) /\ TimesOf(f.window) \in Seq(Int)
      /\ \E n : Slides(TimesOf(f.window), TimesOf(w), n, t.ts, TfiWindow)
  BY <1>0, <1>1, WindowSlides
<1>5. /\ v \in Seq(Times) /\ v \in Seq(Int) /\ f.velocity \in Seq(Int)
      /\ \E n : Slides(f.velocity, v, n, t.ts, VelocityWindow)
  BY <1>0, <1>1, VelocitySlides
<1> HIDE DEF w, v, g
<1>6. f.cvd + Signed(t) \in Int
  BY <1>0, <1>2
<1>7. g \in Flows
  BY <1>3, <1>4, <1>5, <1>6 DEF Flows
<1>8. TimesOf(hs) \in Seq(Int) /\ TimesOf(Append(hs, t)) = Append(TimesOf(hs), t.ts)
  BY TimesOfIs
<1>9. Kept(TimesOf(w), Append(TimesOf(hs), t.ts), TfiWindow)
  <2>1. Kept(TimesOf(f.window), TimesOf(hs), TfiWindow)
    BY DEF Recent
  <2> QED  BY <1>1, <1>4, <1>8, <2>1, KeptStep
<1>10. Kept(v, Append(TimesOf(hs), t.ts), VelocityWindow)
  <2>1. Kept(f.velocity, TimesOf(hs), VelocityWindow)
    BY DEF Recent
  <2> QED  BY <1>1, <1>5, <1>8, <2>1, KeptStep
<1> QED  BY <1>3, <1>7, <1>8, <1>9, <1>10 DEF Recent, g

\* The inductive invariant: nothing recorded is of the future, and each analyzer
\* holds what the history of the session says it holds.
FlowInv ==
  /\ TypeOKFlow
  /\ PastOf(books, now)
  /\ Scored(ob, books)
  /\ Recent(tfi, trades)
  /\ Faithful(spoof, books)

\* The types by the names used here
LEMMA FlowTypes ==
  TypeOKFlow <=>
    /\ now \in Times /\ ob \in BookStates /\ tfi \in Flows /\ spoof \in Filters
    /\ signal \in {"None", "Long", "Short"} /\ books \in Seq(BookRecords) /\ trades \in Seq(Trade)
BY DEF TypeOKFlow, BookStates, Flows, Filters, Stat, BookRecords

\* A session without events
Blank ==
  /\ ob = FreshBook /\ tfi = NoTrades /\ spoof = NoSpoof
  /\ signal = "None" /\ books = <<>> /\ trades = <<>>

\* It fulfils the invariant at any time,
LEMMA BlankIsFaithful == now \in Times /\ Blank => FlowInv
<1> SUFFICES ASSUME now \in Times, Blank PROVE FlowInv
  OBVIOUS
<1>1. /\ Len(books) = 0 /\ books = <<>> /\ trades = <<>> /\ books \in Seq(BookRecords)
      /\ trades \in Seq(Trade) /\ signal \in {"None", "Long", "Short"}
  BY DEF Blank
<1>2. ob \in BookStates /\ ob.last = NoTime /\ ob.score = 0
  BY DEF Blank, FreshBook, BookStates
<1>3. tfi \in Flows /\ tfi.window = <<>> /\ tfi.velocity = <<>>
  BY DEF Blank, NoTrades, Flows
<1>4. spoof \in Filters /\ \A p \in Keys : spoof.stats[p] = NoStats /\ spoof.flagged[p] = NoTime
  BY SpoofNumbers DEF Blank, NoSpoof, Filters
<1>5. TypeOKFlow
  BY <1>1, <1>2, <1>3, <1>4, FlowTypes
<1>6. PastOf(books, now)
  BY <1>1 DEF PastOf
<1>7. Scored(ob, books)
  <2>1. Covers(books, NoTime)
    BY <1>1 DEF Covers
  <2>2. Totals([k \in 0..0 |-> 0], Len(books), books, NoTime)
    BY <1>1 DEF Totals
  <2>3. DecayedFlow(books, NoTime) = [k \in 0..0 |-> 0][Len(books)]
    BY <1>1, <2>2, FlowIsTotal
  <2>4. DecayedFlow(books, NoTime) = 0
    BY <1>1, <2>3
  <2> QED  BY <1>2, <2>1, <2>4 DEF Scored
<1>8. Recent(tfi, trades)
  <2>1. TimesOf(<<>>) = <<>>
    BY DEF TimesOf
  <2>2. \A width : Kept(<<>>, <<>>, width)
    BY DEF Kept
  <2> QED  BY <1>1, <1>3, <2>1, <2>2 DEF Recent
<1>9. Faithful(spoof, books)
  <2>1. ASSUME NEW p \in Keys PROVE Sound(spoof, books, p) /\ Complete(spoof, books, p)
    <3>1. AddsIn(books, p) = {} /\ Cardinality(CancelsIn(books, p)) \in Nat
      <4>1. 1..Len(books) = {}
        BY <1>1
      <4>2. AddsIn(books, p) = {}
        BY <4>1 DEF AddsIn
      <4> QED  BY <1>1, <4>2, CancelsFinite
    <3>2. spoof.stats[p].cancels = 0 /\ spoof.stats[p].added = NoTime /\ spoof.flagged[p] = NoTime
      BY <1>4, SpoofNumbers
    <3> QED  BY <3>1, <3>2 DEF Sound, Complete
  <2> QED  BY <2>1 DEF Faithful
<1> QED  BY <1>5, <1>6, <1>7, <1>8, <1>9 DEF FlowInv

\* the start of the bot included.
LEMMA FlowInit == InitFlow => FlowInv
<1>1. 0 \in Times
  BY FlowAssumption DEF Times
<1> QED  BY <1>1, BlankIsFaithful DEF InitFlow, Blank

\* on_session_open()
LEMMA OpenStep == FlowInv /\ OnSessionOpen => FlowInv'
<1> SUFFICES ASSUME FlowInv, OnSessionOpen PROVE FlowInv'
  OBVIOUS
<1>1. now' \in Times /\ Blank'
  BY DEF FlowInv, TypeOKFlow, OnSessionOpen, Blank
<1>2. (now \in Times /\ Blank => FlowInv)'
  BY BlankIsFaithful, PTL
<1> QED  BY <1>1, <1>2

\* The clock
LEMMA ClockStep == FlowInv /\ ClockMoves => FlowInv'
<1> SUFFICES ASSUME FlowInv, ClockMoves PROVE FlowInv'
  OBVIOUS
<1>1. now' \in Times /\ now <= now' /\ now \in Int /\ now' \in Int /\ signal' = "None"
      /\ UNCHANGED <<ob, tfi, spoof, books, trades>>
  BY FlowAssumption DEF FlowInv, TypeOKFlow, ClockMoves, Times
<1>2. TypeOKFlow'
  BY <1>1 DEF FlowInv, TypeOKFlow
<1>3. PastOf(books', now')
  <2>1. \A k \in 1..Len(books) : books[k].ts \in Int
    <3>1. books \in Seq(BookRecords)
      BY FlowTypes DEF FlowInv
    <3> QED  BY <3>1, RecordsAre, TimesAre
  <2> QED  BY <1>1, <2>1 DEF FlowInv, PastOf
<1> QED  BY <1>1, <1>2, <1>3 DEF FlowInv

\* on_book_event()
LEMMA BookStep == ASSUME FlowInv, NEW e \in BookEvents, OnBookEvent(e) PROVE FlowInv'
<1> DEFINE b == [event |-> e, ts |-> now]
<1>0. /\ now \in Times /\ ob \in BookStates /\ tfi \in Flows /\ spoof \in Filters
      /\ books \in Seq(BookRecords) /\ trades \in Seq(Trade)
  BY FlowTypes DEF FlowInv
<1>i. PastOf(books, now) /\ Scored(ob, books) /\ Recent(tfi, trades) /\ Faithful(spoof, books)
  BY DEF FlowInv
<1>1. /\ spoof' = UpdateSpoofOnBook(spoof, e, now) /\ ob' = ObOnBookEvent(ob, e, now)
      /\ now' = now /\ tfi' = tfi /\ trades' = trades /\ books' = Append(books, b)
      /\ signal' \in {"None", "Long", "Short"}
  BY DEF OnBookEvent, TryEnter
<1>2. b \in BookRecords /\ b.ts = now
  BY <1>0 DEF BookRecords
<1>3. spoof' \in Filters /\ Faithful(spoof', books')
  BY <1>0, <1>i, <1>1, FaithfulStep
<1>4. ob' \in BookStates /\ Scored(ob', books')
  BY <1>0, <1>i, <1>1, ScoredStep
<1> HIDE DEF b
<1>5. books' \in Seq(BookRecords) /\ PastOf(books', now')
  <2>1. books' \in Seq(BookRecords) /\ Len(books') = Len(books) + 1 /\ Len(books) \in Nat
        /\ books'[Len(books) + 1] = b /\ \A k \in 1..Len(books) : books'[k] = books[k]
    BY <1>0, <1>1, <1>2, AppendProperties
  <2>2. now <= now
    BY <1>0, TimesAre
  <2>3. ASSUME NEW k \in 1..Len(books') PROVE books'[k].ts <= now
    <3>1. k \in 1..Len(books) \/ k = Len(books) + 1
      BY <2>1
    <3> QED  BY <1>i, <1>2, <2>1, <2>2, <3>1 DEF PastOf
  <2> QED  BY <1>1, <2>1, <2>3 DEF PastOf
<1>6. TypeOKFlow'
  <2>1. (TypeOKFlow <=>
          /\ now \in Times /\ ob \in BookStates /\ tfi \in Flows /\ spoof \in Filters
          /\ signal \in {"None", "Long", "Short"} /\ books \in Seq(BookRecords)
          /\ trades \in Seq(Trade))'
    BY FlowTypes, PTL
  <2> QED  BY <1>0, <1>1, <1>3, <1>4, <1>5, <2>1
<1> QED  BY <1>i, <1>1, <1>3, <1>4, <1>5, <1>6 DEF FlowInv

\* on_trade()
LEMMA TradeStep == ASSUME FlowInv, NEW t \in Trade, OnTradeEvent(t) PROVE FlowInv'
<1>0. /\ now \in Times /\ ob \in BookStates /\ tfi \in Flows /\ spoof \in Filters
      /\ books \in Seq(BookRecords) /\ trades \in Seq(Trade)
  BY FlowTypes DEF FlowInv
<1>i. PastOf(books, now) /\ Scored(ob, books) /\ Recent(tfi, trades) /\ Faithful(spoof, books)
  BY DEF FlowInv
<1>1. /\ tfi' = OnTrade(tfi, t) /\ UNCHANGED <<now, ob, spoof, books>>
      /\ trades' = Append(trades, t) /\ signal' \in {"None", "Long", "Short"}
  BY DEF OnTradeEvent, TryEnter
<1>2. tfi' \in Flows /\ Recent(tfi', trades')
  BY <1>0, <1>i, <1>1, RecentStep
<1>3. trades' \in Seq(Trade)
  BY <1>0, <1>1
<1>4. TypeOKFlow'
  <2>1. (TypeOKFlow <=>
          /\ now \in Times /\ ob \in BookStates /\ tfi \in Flows /\ spoof \in Filters
          /\ signal \in {"None", "Long", "Short"} /\ books \in Seq(BookRecords)
          /\ trades \in Seq(Trade))'
    BY FlowTypes, PTL
  <2> QED  BY <1>0, <1>1, <1>2, <1>3, <2>1
<1> QED  BY <1>i, <1>1, <1>2, <1>4 DEF FlowInv

\* Every step keeps the invariant.
LEMMA FlowStep == FlowInv /\ [NextFlow]_flowVars => FlowInv'
<1> SUFFICES ASSUME FlowInv, [NextFlow]_flowVars PROVE FlowInv'
  OBVIOUS
<1>1. ASSUME NEW e \in BookEvents, OnBookEvent(e) PROVE FlowInv'
  BY <1>1, BookStep
<1>2. ASSUME NEW t \in Trade, OnTradeEvent(t) PROVE FlowInv'
  BY <1>2, TradeStep
<1>3. CASE UNCHANGED flowVars
  BY <1>3 DEF FlowInv, TypeOKFlow, flowVars
<1> QED  BY <1>1, <1>2, <1>3, OpenStep, ClockStep DEF NextFlow

\* The types of the analyzers' state hold, as the proofs below need them.
THEOREM FlowTyped == SpecFlow => []TypeOKFlow
<1>1. FlowInv => TypeOKFlow
  BY DEF FlowInv
<1> QED  BY <1>1, FlowInit, FlowStep, PTL DEF SpecFlow

\* order_book_state.hpp:29 -- the running score is every event of the session at its
\* level's weight, halved once per unit of time up to the last one in range, for any
\* number of events however spaced.
THEOREM ScoreDecays == SpecFlow => []ScoreIsDecayedFlow
<1>1. FlowInv => ScoreIsDecayedFlow
  <2> SUFFICES ASSUME FlowInv PROVE ScoreIsDecayedFlow
    OBVIOUS
  <2>1. ob \in BookStates /\ books \in Seq(BookRecords) /\ Scored(ob, books)
    BY FlowTypes DEF FlowInv
  <2>2. LastTime(books) = ob.last
    BY <2>1, LastTimeIs
  <2> QED  BY <2>1, <2>2 DEF ScoreIsDecayedFlow, Scored
<1> QED  BY <1>1, FlowInit, FlowStep, PTL DEF SpecFlow

\* trade_flow_analyzer.hpp:50 -- evict_old() leaves out no recent trade of the session
\* and keeps an old one only if it came late, behind a younger one, for any two widths
\* and trades in any order.
THEOREM WindowsAreRecent == SpecFlow => []WindowIsRecent
<1>1. FlowInv => WindowIsRecent
  BY DEF FlowInv, Recent, WindowIsRecent
<1> QED  BY <1>1, FlowInit, FlowStep, PTL DEF SpecFlow

\* spoof_filter.hpp:65 -- is_spoofed() vetoes a price exactly for what was shown and
\* withdrawn at it in this session, whatever evict_old() erased meanwhile.
THEOREM VetoesAreExact == SpecFlow => []VetoIsExact
<1>1. FlowInv => VetoIsExact
  <2> SUFFICES ASSUME FlowInv PROVE VetoIsExact
    OBVIOUS
  <2>0. /\ now \in Times /\ spoof \in Filters /\ books \in Seq(BookRecords)
        /\ now \in Int /\ FlagTtl \in Int
    <3>1. now \in Times /\ spoof \in Filters /\ books \in Seq(BookRecords)
      BY FlowTypes DEF FlowInv
    <3>2. FlagTtl \in Int
      BY SpoofNumbers
    <3> QED  BY <3>1, <3>2, TimesAre
  <2>i. \A p \in Keys : /\ Sound(spoof, books, p) /\ Complete(spoof, books, p)
                        /\ spoof.flagged[p] \in Times \cup {NoTime}
    BY <2>0 DEF FlowInv, Faithful, Filters
  <2>1. \A p : CancelsAt(p) = CancelsIn(books, p) /\ AddsAt(p) = AddsIn(books, p)
    BY DEF CancelsAt, CancelsIn, AddsAt, AddsIn
  <2>2. ASSUME NEW p \in Keys, IsSpoofed(spoof, p, now)
        PROVE  /\ Cardinality(CancelsAt(p)) >= MinEvents /\ AddsAt(p) # {}
               /\ \E c \in CancelsAt(p) : now - books[c[1]].ts < FlagTtl
    BY <2>i, <2>1, <2>2 DEF Sound, IsSpoofed
  <2>3. ASSUME NEW p \in Keys, NEW a \in AddsAt(p),
               Cardinality(AfterIn(books, p, a)) >= MinEvents,
               NEW c \in AfterIn(books, p, a), now - books[c[1]].ts < FlagTtl
        PROVE  IsSpoofed(spoof, p, now)
    <3>1. CompleteFor(spoof, books, p, a)
      BY <2>i, <2>1 DEF Complete
    <3>2. spoof.flagged[p] >= books[c[1]].ts
      BY <2>3, <3>1 DEF CompleteFor
    <3>3. books[c[1]].ts \in Times
      <4>1. c[1] \in 1..Len(books)
        BY DEF AfterIn, CancelsIn
      <4> QED  BY <2>0, <4>1, RecordsAre
    <3>4. books[c[1]].ts \in Int /\ 0 <= books[c[1]].ts /\ spoof.flagged[p] \in Int
          /\ NoTime < 0 /\ NoTime \in Int
      BY <2>i, <3>3, TimesAre
    <3>5. spoof.flagged[p] # NoTime /\ now - spoof.flagged[p] < FlagTtl
      BY <2>0, <2>3, <3>2, <3>4
    <3> QED  BY <3>5 DEF IsSpoofed
  <2>4. \A p, a : AfterIn(books, p, a)
          = {c \in CancelsAt(p) : c[1] > a /\ books[c[1]].ts - books[a].ts <= SpoofWindow}
    BY <2>1 DEF AfterIn
  <2>5. VetoIsEarned
    BY <2>2 DEF VetoIsEarned
  <2>6. VetoIsGiven
    BY <2>3, <2>4 DEF VetoIsGiven
  <2> QED  BY <2>5, <2>6 DEF VetoIsExact
<1> QED  BY <1>1, FlowInit, FlowStep, PTL DEF SpecFlow

=============================================================================
