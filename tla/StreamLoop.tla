----------------------------- MODULE StreamLoop -----------------------------
(***************************************************************************)
(* The loop every stream's thread runs: subscribe, read until the stream   *)
(* ends, Finish(), wait, and again until told to stop.  There are four     *)
(* kinds of it: OrderClient::run_order_stream ("order", the one that waits *)
(* for the exchange's maintenance), MarketDataClient::subscribe_quotes     *)
(* ("quotes", which leaves its reads on an error message), the other three *)
(* subscriptions of MarketDataClient ("data") and TokenManager's           *)
(* run_renewal_stream ("jwt").                                             *)
(*                                                                         *)
(* gRPC is external: Read() returns a message or the end of the stream,    *)
(* Finish() returns when the server has ended the stream, and nothing in   *)
(* the code cancels a context.  A thread looks at its stop flag only       *)
(* between these calls.                                                    *)
(***************************************************************************)
EXTENDS Integers

CONSTANTS
  Kinds,               \* subset of {"order", "quotes", "data", "jwt"}
  Base, Cap, Shift,    \* BackoffConfig: base and cap in ms; the largest exponent, 6
  Jitter,              \* BackoffConfig::jitter_pct, in percent
  MaxItems,            \* bound: quotes, bars, trades or orders in one message
  MaxToken             \* bound: tokens issued by the server

ASSUME LoopAssumption ==
  /\ Kinds \subseteq {"order", "quotes", "data", "jwt"}
  /\ Base \in Nat \ {0} /\ Cap \in Nat /\ Base <= Cap /\ Shift \in Nat
  /\ Jitter \in 0..100 /\ MaxItems \in Nat /\ MaxToken \in Nat \ {0}

VARIABLES
  kind,
  pc,        \* where the thread is
  stop,      \* the stop flag
  conn,      \* external: the stream, "none", "open" or "ended" by the server
  active,    \* external: the clock is inside the maintenance window
  attempt,   \* ExponentialBackoff::attempt_, which compute_delay() cuts at Shift
  delay,     \* the delay being waited for, or 0
  jwt,       \* TokenManager::jwt_, 0 for an empty string
  issued,    \* external: the token the server last issued
  last,      \* history: the delay before this one, 0 if a message came since
  tries,     \* history: subscriptions since the window opened
  items,     \* items of the message still to be passed on
  late       \* history: messages read since the stop flag was set

clock == <<active, tries>>
backoff == <<attempt, delay, last>>
tokens == <<jwt, issued>>
message == <<items, late>>
vars == <<kind, pc, stop, conn, clock, backoff, tokens, message>>

Pcs == {"top", "maintenance", "nap", "subscribe", "check", "read", "deliver",
        "callback", "finish", "wait", "done"}

Least(a, b) == IF a < b THEN a ELSE b

\* 1LL << n
Shl[n \in 0..Shift] == IF n = 0 THEN 1 ELSE 2 * Shl[n - 1]

\* compute_delay(): the shortest and the longest delay of an attempt
Capped(a) == Least(Base * Shl[Least(a, Shift)], Cap)
Shortest(a) == (Capped(a) * (100 - Jitter)) \div 100
Longest(a) == (Capped(a) * (100 + Jitter)) \div 100

TypeOK ==
  /\ kind \in Kinds /\ pc \in Pcs /\ stop \in BOOLEAN
  /\ conn \in {"none", "open", "ended"}
  /\ active \in BOOLEAN /\ tries \in Nat
  /\ attempt \in 0..Shift /\ delay \in Nat /\ last \in Nat
  /\ jwt \in 0..MaxToken /\ issued \in 1..MaxToken
  /\ items \in 0..MaxItems /\ late \in Nat

\* The thread starts once TokenManager::init() has stored the first token.
Init ==
  /\ kind \in Kinds /\ pc = "top" /\ stop = FALSE /\ conn = "none"
  /\ active \in BOOLEAN /\ tries = 0
  /\ attempt = 0 /\ delay = 0 /\ last = 0
  /\ jwt = 1 /\ issued = 1 /\ items = 0 /\ late = 0

-----------------------------------------------------------------------------
(* One pass of the loop *)

\* Mutant of Top: the flag is not tested.
TopForever ==
  /\ pc = "top"
  /\ pc' = IF kind = "order" THEN "maintenance" ELSE "subscribe"
  /\ UNCHANGED <<kind, stop, conn, clock, backoff, tokens, message>>

\* while (!stop)
Top ==
  /\ pc = "top"
  /\ pc' = IF stop THEN "done" ELSE IF kind = "order" THEN "maintenance" ELSE "subscribe"
  /\ UNCHANGED <<kind, stop, conn, clock, backoff, tokens, message>>

\* Mutant of WaitIfActive: no maintenance window.
WaitIfActiveNever ==
  /\ pc = "maintenance" /\ pc' = "subscribe"
  /\ UNCHANGED <<kind, stop, conn, clock, backoff, tokens, message>>

\* wait_if_active(): the first look at the clock
WaitIfActive ==
  /\ pc = "maintenance"
  /\ pc' = IF ~ active THEN "subscribe" ELSE IF stop THEN "done" ELSE "nap"
  /\ UNCHANGED <<kind, stop, conn, clock, backoff, tokens, message>>

\* poll_interval is slept through; a window that has ended is reported as such
\* even when stop was set meanwhile.
NapEnds ==
  /\ pc = "nap"
  /\ pc' = IF ~ active THEN "subscribe" ELSE IF stop THEN "done" ELSE "nap"
  /\ UNCHANGED <<kind, stop, conn, clock, backoff, tokens, message>>

\* Mutant of Subscribe: the backoff is reset when the stream is opened.
SubscribeResets ==
  /\ pc = "subscribe" /\ pc' = "check"
  /\ conn' \in {"open", "ended"}
  /\ tries' = IF kind = "order" /\ active THEN tries + 1 ELSE tries
  /\ attempt' = 0
  /\ UNCHANGED <<kind, stop, active, delay, last, tokens, message>>

\* make_context() and the call; a refused call is a stream that has ended
Subscribe ==
  /\ pc = "subscribe" /\ pc' = "check"
  /\ conn' \in {"open", "ended"}
  /\ tries' = IF kind = "order" /\ active THEN tries + 1 ELSE tries
  /\ UNCHANGED <<kind, stop, active, backoff, tokens, message>>

\* Where the loop goes once it stops reading: the renewal stream tests stop before
\* Finish(), the others after it.
Leave == IF kind = "jwt" /\ stop THEN "done" ELSE "finish"

\* Mutant of Check: the flag is not tested between two reads.
CheckNever ==
  /\ pc = "check" /\ pc' = "read"
  /\ UNCHANGED <<kind, stop, conn, clock, backoff, tokens, message>>

\* while (!stop && ...
Check ==
  /\ pc = "check"
  /\ pc' = IF stop THEN Leave ELSE "read"
  /\ UNCHANGED <<kind, stop, conn, clock, backoff, tokens, message>>

\* ... stream->Read(&resp)): a message with any number of items
ReadMessage ==
  /\ kind # "jwt" /\ pc = "read" /\ conn = "open"
  /\ pc' = "deliver" /\ items' \in 0..MaxItems
  /\ late' = IF stop THEN late + 1 ELSE late
  /\ UNCHANGED <<kind, stop, conn, clock, backoff, tokens>>

\* A message of the quote stream with an error code: break
ReadError ==
  /\ kind = "quotes" /\ pc = "read" /\ conn = "open"
  /\ pc' = "finish"
  /\ UNCHANGED <<kind, stop, conn, clock, backoff, tokens, message>>

\* Read() returns false.
ReadEnds ==
  /\ pc = "read" /\ conn = "ended"
  /\ pc' = Leave
  /\ UNCHANGED <<kind, stop, conn, clock, backoff, tokens, message>>

\* Mutant of StoreJwt: an empty token is stored like any other.
StoreJwtAny(token) == jwt' = token

\* if (!resp.token().empty()) store_jwt(...)
StoreJwt(token) == jwt' = IF token = 0 THEN jwt ELSE token

\* A message of the renewal stream: the token last issued, or an empty one
ReadToken(token) ==
  /\ kind = "jwt" /\ pc = "read" /\ conn = "open"
  /\ token \in {0, issued} /\ StoreJwt(token)
  /\ pc' = "check"
  /\ UNCHANGED <<kind, stop, conn, clock, backoff, issued, message>>

\* for (const auto& o : resp...): a callback for each item, and stop is not tested
\* between them.  A book has one callback for all its rows.
Deliver ==
  /\ pc = "deliver" /\ items > 0
  /\ pc' = "callback" /\ items' = items - 1
  /\ UNCHANGED <<kind, stop, conn, clock, backoff, tokens, late>>

CallbackReturns ==
  /\ pc = "callback" /\ pc' = "deliver"
  /\ UNCHANGED <<kind, stop, conn, clock, backoff, tokens, message>>

\* After the last one bo.reset()
Delivered ==
  /\ pc = "deliver" /\ items = 0 /\ pc' = "check"
  /\ attempt' = 0 /\ delay' = 0 /\ last' = 0
  /\ UNCHANGED <<kind, stop, conn, clock, tokens, message>>

\* Finish() has returned: back to the top or on to a wait.  Only run_order_stream
\* looks at the clock, and only it leaves the loop from here.
Finish ==
  /\ pc = "finish" /\ conn = "ended" /\ conn' = "none"
  /\ \/ /\ kind # "jwt" /\ stop
        /\ pc' = (IF kind = "order" THEN "done" ELSE "top") /\ UNCHANGED <<delay, last>>
     \/ /\ kind = "order" /\ ~ stop /\ active
        /\ pc' = "top" /\ UNCHANGED <<delay, last>>
     \/ /\ kind = "jwt"
        /\ pc' = "wait" /\ UNCHANGED <<delay, last>>
     \/ /\ kind # "jwt" /\ ~ stop /\ (kind = "order" => ~ active)
        /\ pc' = "wait"
        /\ delay' \in {Shortest(attempt), Longest(attempt)} /\ last' = delay
  /\ UNCHANGED <<kind, stop, clock, attempt, tokens, message>>

\* bo.wait() sees stop between two ticks; the renewal stream sleeps 5 s through.
WaitStopped ==
  /\ pc = "wait" /\ kind # "jwt" /\ stop
  /\ pc' = "done"
  /\ UNCHANGED <<kind, stop, conn, clock, backoff, tokens, message>>

WaitEnds ==
  /\ pc = "wait" /\ pc' = "top"
  /\ attempt' = IF kind = "jwt" THEN attempt ELSE Least(attempt + 1, Shift)
  /\ UNCHANGED <<kind, stop, conn, clock, delay, last, tokens, message>>

-----------------------------------------------------------------------------
(* External: shutdown(), the server, the clock *)

SetStop ==
  /\ ~ stop /\ stop' = TRUE
  /\ UNCHANGED <<kind, pc, conn, clock, backoff, tokens, message>>

ServerEnds ==
  /\ conn = "open" /\ conn' = "ended"
  /\ UNCHANGED <<kind, pc, stop, clock, backoff, tokens, message>>

ClockMoves ==
  /\ kind = "order"
  /\ active' = ~ active /\ tries' = 0
  /\ UNCHANGED <<kind, pc, stop, conn, backoff, tokens, message>>

IssueToken ==
  /\ kind = "jwt" /\ issued < MaxToken /\ issued' = issued + 1
  /\ UNCHANGED <<kind, pc, stop, conn, clock, backoff, jwt, message>>

Thread ==
  \/ Top \/ WaitIfActive \/ NapEnds \/ Subscribe \/ Check
  \/ ReadEnds \/ Deliver \/ CallbackReturns \/ Delivered \/ Finish \/ WaitStopped \/ WaitEnds

Next ==
  \/ Thread \/ ReadMessage \/ ReadError \/ \E token \in 0..MaxToken : ReadToken(token)
  \/ SetStop \/ ServerEnds \/ ClockMoves \/ IssueToken

Spec == Init /\ [][Next]_vars

\* A thread that is not inside a call goes on.  The server does not refuse every
\* subscription, nor end every stream before the first Read(), and sends the token it
\* has issued on the renewal stream.  The maintenance window closes, and some of the
\* naps of 30 s end outside it.
QuietSpec ==
  /\ Spec
  /\ WF_vars(Thread)
  /\ WF_vars(active /\ ClockMoves) /\ SF_vars(NapEnds /\ ~ active)
  /\ SF_vars(Subscribe /\ conn' = "open") /\ SF_vars(Check /\ conn = "open")
  /\ SF_vars(ReadToken(issued))

\* Besides, the server ends every stream sooner or later, as the exchange's
\* maintenance and the token's expiry make it.
LiveSpec == QuietSpec /\ WF_vars(ServerEnds)

-----------------------------------------------------------------------------
(* Properties *)

Doing ==
  CASE pc = "deliver" -> "handling" [] pc = "callback" -> "calling" [] pc = "done" -> "ended"
    [] OTHER -> "working"

\* Whatever the kind of stream, its thread ends only when told to, and never between
\* two items of a message; once told it takes at most one more message, of the Read()
\* it was already in, and so makes no other callback than for that one's items.
Promise == INSTANCE StreamThread WITH phase <- Doing, told <- stop
KeepsPromise == Promise!Spec

\* test_backoff.cpp:18 -- as long as no message arrives, every wait before a
\* reconnection is longer than the one before, whatever the jitter, until the
\* delay has reached its cap; and jitter takes it no further than Longest.
DelaysGrow ==
  /\ pc = "wait" /\ kind # "jwt" /\ last > 0 /\ Capped(attempt) < Cap => delay > last
  /\ delay <= (Cap * (100 + Jitter)) \div 100

\* README.md:206 -- the bot waits while the exchange is maintained: the order
\* stream is opened at most once in a window, by a thread that had looked at the
\* clock just before it opened.
OneTryInWindow == kind = "order" => tries <= 1

\* However often the renewal stream breaks and whatever else arrives on it, jwt()
\* ends up returning the token last issued and keeps doing so: make_context() is
\* not left with a token that has expired, or with none.
TokenSettles == kind = "jwt" /\ []~stop => <>[](jwt = issued)

\* shutdown() joins this thread: once told to stop it ends, provided the server
\* ends the stream it sits in.
Stops == stop ~> pc = "done"
=============================================================================
