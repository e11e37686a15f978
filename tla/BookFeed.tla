------------------------------ MODULE BookFeed ------------------------------
(***************************************************************************)
(* MarketDataClient::subscribe_order_book() and subscribe_book_events():   *)
(* one thread keeps the exchange's order book from the rows of a stream    *)
(* that breaks and starts again, hands every new state to a callback, and  *)
(* that callback turns two states in a row into one event per level, which *)
(* the runner's queue may refuse.                                          *)
(*                                                                         *)
(* A book gives every side and price a size, 0 where the code's map has no *)
(* row.  The exchange is external: a subscription starts with its whole    *)
(* book, then come the rows that change.                                   *)
(***************************************************************************)
EXTENDS Integers, FiniteSets, Sequences

CONSTANTS
  Prices,       \* a set of integers
  MaxSize,      \* the largest size of a row
  Levels,       \* kBookLevels
  MaxWire,      \* bound: messages on the way
  MaxChanges,   \* bound: changes of the book
  MaxBreaks,    \* bound: times the stream breaks
  MaxLost       \* bound: events refused by the queue

ASSUME BookAssumption ==
  /\ Prices \subseteq Int /\ IsFiniteSet(Prices)
  /\ MaxSize \in Nat \ {0} /\ Levels \in Nat \ {0}
  /\ {MaxWire, MaxChanges, MaxBreaks, MaxLost} \subseteq Nat

VARIABLES
  ex,       \* external: the exchange's book
  conn,     \* external: the stream is "open" or has "ended"
  wire,     \* external: messages sent and not yet read, each a set of rows
  book,     \* bids_map and asks_map
  prev,     \* PrevBook: the state of the last callback
  flow,     \* the sum of the events the queue took, by level: bids less asks
  lost,     \* history: the sum of the ones it refused
  used      \* the counters of the bounds

vars == <<ex, conn, wire, book, prev, flow, lost, used>>

Sides == {"bid", "ask"}
Books == [Sides -> [Prices -> 0..MaxSize]]
Row == [side : Sides, price : Prices, size : 0..MaxSize]
Empty == [s \in Sides |-> [p \in Prices |-> 0]]
Depth == 0..(Levels - 1)

TypeOK ==
  /\ ex \in Books /\ book \in Books /\ prev \in Books
  /\ conn \in {"open", "ended"} /\ wire \in Seq(SUBSET Row)
  /\ flow \in [Depth -> Int] /\ lost \in [Depth -> Int]
  /\ used \in [changes : 0..MaxChanges, breaks : 0..MaxBreaks, lost : 0..MaxLost]

\* Orders that cross are matched by the exchange.
Uncrossed(b) ==
  \A p, q \in Prices : b["bid"][p] > 0 /\ b["ask"][q] > 0 => p < q

Init ==
  /\ ex \in {b \in Books : Uncrossed(b)}
  /\ conn = "ended" /\ wire = <<>>
  /\ book = Empty /\ prev = Empty
  /\ flow = [k \in Depth |-> 0] /\ lost = [k \in Depth |-> 0]
  /\ used = [changes |-> 0, breaks |-> 0, lost |-> 0]

-----------------------------------------------------------------------------
(* The exchange *)

Entries == Sides \X Prices
Differ(b, c) == {e \in Entries : b[e[1]][e[2]] # c[e[1]][e[2]]}

\* The rows that lead from one book to another; size 0 is ACTION_REMOVE.
Rows(b, c) == {[side |-> e[1], price |-> e[2], size |-> c[e[1]][e[2]]] : e \in Differ(b, c)}

\* External: an order comes, goes or trades; one message has all that changed.
ExchangeMoves ==
  /\ used.changes < MaxChanges /\ Len(wire) < MaxWire
  /\ \E e, f \in Entries, x, y \in 0..MaxSize :
       LET new == [ex EXCEPT ![e[1]][e[2]] = x, ![f[1]][f[2]] = y]
       IN  /\ new # ex /\ Uncrossed(new)
           /\ ex' = new
           /\ wire' = IF conn = "open" THEN Append(wire, Rows(ex, new)) ELSE wire
  /\ used' = [used EXCEPT !.changes = @ + 1]
  /\ UNCHANGED <<conn, book, prev, flow, lost>>

\* External: the stream ends; what was not yet sent on is lost.
StreamBreaks ==
  /\ conn = "open" /\ used.breaks < MaxBreaks
  /\ conn' = "ended"
  /\ \E n \in 0..Len(wire) : wire' = SubSeq(wire, 1, n)
  /\ used' = [used EXCEPT !.breaks = @ + 1]
  /\ UNCHANGED <<ex, book, prev, flow, lost>>

-----------------------------------------------------------------------------
(* The thread of the subscription *)

\* Mutant of Reconnect: the maps are not cleared.
ReconnectKeeps ==
  /\ conn = "ended" /\ wire = <<>>
  /\ conn' = "open" /\ wire' = <<Rows(Empty, ex)>>
  /\ UNCHANGED <<ex, book, prev, flow, lost, used>>

\* Mutant of Reconnect: the last state is cleared with the maps.
ReconnectForgets ==
  /\ conn = "ended" /\ wire = <<>>
  /\ book' = Empty /\ prev' = Empty
  /\ conn' = "open" /\ wire' = <<Rows(Empty, ex)>>
  /\ UNCHANGED <<ex, flow, lost, used>>

\* Mutant of Reconnect: a stream that broke is not opened again.
ReconnectOnce ==
  /\ conn = "ended" /\ wire = <<>> /\ used.breaks = 0
  /\ book' = Empty
  /\ conn' = "open" /\ wire' = <<Rows(Empty, ex)>>
  /\ UNCHANGED <<ex, prev, flow, lost, used>>

\* Read() returns false: clear both maps, wait, subscribe again.
Reconnect ==
  /\ conn = "ended" /\ wire = <<>>
  /\ book' = Empty
  /\ conn' = "open" /\ wire' = <<Rows(Empty, ex)>>
  /\ UNCHANGED <<ex, prev, flow, lost, used>>

RowAt(rows, s, p) == {r \in rows : r.side = s /\ r.price = p}

\* A row replaces the size at its price, or erases it.
ApplyRows(b, rows) ==
  [s \in Sides |-> [p \in Prices |->
     IF RowAt(rows, s, p) = {} THEN b[s][p] ELSE (CHOOSE r \in RowAt(rows, s, p) : TRUE).size]]

\* The maps are sorted from the best price: descending for bids, ascending for asks.
Better(s, p, q) == IF s = "bid" THEN p > q ELSE p < q
Rank(b, s, p) == Cardinality({q \in Prices : b[s][q] > 0 /\ Better(s, q, p)})

\* The size at level k of a side; 0 beyond the end of the book
LevelSize(b, s, k) ==
  LET at == {p \in Prices : b[s][p] > 0 /\ Rank(b, s, p) = k}
  IN  IF at = {} THEN 0 ELSE b[s][CHOOSE p \in at : TRUE]

\* The levels on_book has an event for, and what an event adds to the order flow
Changed(b, c) == {k \in Depth : \E s \in Sides : LevelSize(b, s, k) # LevelSize(c, s, k)}
Delta(b, c, k) == (LevelSize(c, "bid", k) - LevelSize(b, "bid", k))
                    - (LevelSize(c, "ask", k) - LevelSize(b, "ask", k))

\* on_book: an event for every changed level, each taken or refused by the queue
Emit(new, refused) ==
  /\ flow' = [k \in Depth |-> IF k \in refused THEN flow[k] ELSE flow[k] + Delta(prev, new, k)]
  /\ lost' = [k \in Depth |-> IF k \in refused THEN lost[k] + Delta(prev, new, k) ELSE lost[k]]
  /\ prev' = new

\* Mutant of ReadMessage: the callback is called while the rows are applied.
ReadMessageHalf ==
  /\ wire # <<>> /\ wire' = Tail(wire)
  /\ book' = ApplyRows(book, Head(wire))
  /\ \E rows \in SUBSET Head(wire) : Emit(ApplyRows(book, rows), {})
  /\ UNCHANGED <<ex, conn, used>>

\* Read() returns a message: all its rows, then the callback, once.
ReadMessage ==
  /\ wire # <<>> /\ wire' = Tail(wire)
  /\ LET new == ApplyRows(book, Head(wire))
     IN  /\ book' = new
         /\ \E refused \in SUBSET Changed(prev, new) :
              /\ used.lost + Cardinality(refused) <= MaxLost
              /\ Emit(new, refused)
              /\ used' = [used EXCEPT !.lost = @ + Cardinality(refused)]
  /\ UNCHANGED <<ex, conn>>

Next == ExchangeMoves \/ StreamBreaks \/ Reconnect \/ ReadMessage

Spec == Init /\ [][Next]_vars

\* The thread reads and reconnects for ever.
LiveSpec == Spec /\ WF_vars(Reconnect) /\ WF_vars(ReadMessage)

-----------------------------------------------------------------------------
(* Properties *)

\* The book after all of the messages w
Replay(b, w) ==
  LET state[n \in 0..Len(w)] == IF n = 0 THEN b ELSE ApplyRows(state[n - 1], w[n])
  IN  state[Len(w)]

\* The maps and the messages on the way make up the exchange's book, also after a
\* stream that broke while levels came and went unseen.
BookInSync == conn = "open" => Replay(book, wire) = ex

\* market_data_client.cpp:282 -- no half-updated state reaches the strategy: the
\* best bid it is shown is below the best ask.
NeverCrossed == Uncrossed(prev)

\* The events add up to the book: what OrderBookState has been told of a level is
\* the imbalance of its sizes, less what the queue refused.  A reconnection, which
\* sends the whole book again, is not counted as new orders.
EventsAddUp ==
  \A k \in Depth : flow[k] + lost[k] = LevelSize(prev, "bid", k) - LevelSize(prev, "ask", k)

\* Once the exchange is quiet the strategy has seen its book.
CatchesUp == <>[](prev = ex)
=============================================================================
