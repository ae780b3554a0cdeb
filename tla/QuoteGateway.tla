---------------------------- MODULE QuoteGateway ----------------------------
(***************************************************************************)
(* Quotes as the HTTP threads serve them (app/services/quote_gateway.py):  *)
(* a fresh websocket row first, the REST client otherwise, with retries, a *)
(* cooldown per symbol after a failure, and the last row known as a last   *)
(* resort.  Nothing takes a lock; each action ends at a call or a loop     *)
(* end, where the interpreter may switch threads.  Counters, labels and    *)
(* the metrics of the last batch are left out.                             *)
(***************************************************************************)
EXTENDS Integers, FiniteSets

CONSTANTS
  Symbols, NoSymbol,
  Threads,      \* threads of the server's pool
  StaleAfter,   \* stale_after_sec
  Cooldown,     \* rest_cooldown_sec
  Attempts,     \* rest_retry_attempts
  Lag,          \* how old the time a websocket row carries may be
  MaxTime       \* bound on the clock

ASSUME SymbolsAssumption == NoSymbol \notin Symbols /\ IsFiniteSet(Symbols)
ASSUME TimesAssumption == {StaleAfter, Cooldown, Lag, MaxTime} \subseteq Nat
ASSUME QuoteAttemptsAssumption == Attempts \in Nat \ {0}

VARIABLES
  clock,  \* time.time(), in whole seconds
  row,    \* quote_cache: ts of the last websocket row of a symbol, or NoRow
  until,  \* _rest_symbol_cooldown_until, NoCooldown for a missing entry
  http,   \* http[t]: the request thread t serves
  mark,   \* history: the last cooldown given to a symbol
  sound,  \* history: no thread was about to remove an entry of s at that time
  late    \* history: the threads past the test for a cooldown whose symbol got
          \* one since

vars == <<clock, row, until, http, mark, sound, late>>
-----------------------------------------------------------------------------
NoRow == -1
NoCooldown == 0

\* A request: next step, "one" quote or a "batch", the time it read on entry,
\* symbols to answer, the one it is at, the attempt, the size of the cooldown
\* table when its iteration began, the entries it has read, those it will
\* remove, failed symbols.
Handler(pc, kind, now, todo) ==
  [pc |-> pc, kind |-> kind, now |-> now, todo |-> todo, sym |-> NoSymbol,
   attempt |-> 0, size |-> 0, read |-> {}, expired |-> {}, failed |-> {}]

Free == Handler("free", "none", 0, {})

Steps == {"free", "prune", "iterate", "pop", "rows", "gate", "source", "rest", "last"}

Handlers ==
  [pc : Steps, kind : {"one", "batch", "none"}, now : Nat, todo : SUBSET Symbols,
   sym : Symbols \cup {NoSymbol}, attempt : Nat, size : Nat,
   read : SUBSET Symbols, expired : SUBSET Symbols, failed : SUBSET Symbols]

Typed ==
  /\ clock \in Nat
  /\ row \in [Symbols -> Nat \cup {NoRow}]
  /\ until \in [Symbols -> Nat]
  /\ http \in [Threads -> Handlers]
  /\ mark \in [Symbols -> Nat]
  /\ sound \in [Symbols -> BOOLEAN]
  /\ late \subseteq Threads

Init ==
  /\ clock = 1
  /\ row = [s \in Symbols |-> NoRow]
  /\ until = [s \in Symbols |-> NoCooldown]
  /\ http = [t \in Threads |-> Free]
  /\ mark = [s \in Symbols |-> NoCooldown]
  /\ sound = [s \in Symbols |-> TRUE]
  /\ late = {}

InOrder(h) ==
  /\ h.attempt < Attempts
  /\ h.pc \in {"source", "rest", "last"} => h.sym \in h.todo

\* Each variable has its type; no request works with a time to come; the one
\* that asks for a symbol still owes its answer and has an attempt for it.
TypeOK ==
  /\ Typed
  /\ \A t \in Threads :
       /\ http[t].now <= clock
       /\ InOrder(http[t])

At(t, pc) == http[t].pc = pc

Go(t, pc) == http' = [http EXCEPT ![t].pc = pc]

NoHistory == UNCHANGED <<mark, sound, late>>
World == <<clock, row>>
-----------------------------------------------------------------------------
(* The world: time and the websocket thread. *)
Tick ==
  /\ clock < MaxTime
  /\ clock' = clock + 1
  /\ UNCHANGED <<row, until, http>> /\ NoHistory

\* on_ws_message; the row may carry an older time of its own.
Ingest(s, ts) ==
  /\ ts <= clock /\ clock - ts <= Lag
  /\ row' = [row EXCEPT ![s] = ts]
  /\ UNCHANGED <<clock, until, http>> /\ NoHistory
-----------------------------------------------------------------------------
(* get_quote and get_quotes begin alike: read the clock, prune. *)
Enter(t, kind, S) ==
  /\ At(t, "free")
  /\ http' = [http EXCEPT ![t] = Handler("prune", kind, clock, S)]
  /\ UNCHANGED <<World, until>> /\ NoHistory

Cooling == {s \in Symbols : until[s] # NoCooldown}

BeginScan(t) ==
  /\ At(t, "prune")
  /\ http' = [http EXCEPT ![t].pc = "iterate", ![t].size = Cardinality(Cooling)]
  /\ UNCHANGED <<World, until>> /\ NoHistory

SameSize(t) == http[t].size = Cardinality(Cooling)

\* The table changed its size during the iteration, or has an entry more to read
\* than it had entries: RuntimeError, status 500.
ScanRaises(t) ==
  /\ At(t, "iterate")
  /\ SameSize(t) => Cardinality(http[t].read) = http[t].size /\ ~(Cooling \subseteq http[t].read)
  /\ http' = [http EXCEPT ![t] = Free]
  /\ UNCHANGED <<World, until>> /\ NoHistory

\* The step after prune, or the next removal.
Prunes(t, expired) ==
  http' = [http EXCEPT ![t].read = {}, ![t].expired = expired,
                       ![t].pc = IF expired # {} THEN "pop"
                                 ELSE IF http[t].kind = "one" THEN "gate" ELSE "rows"]

\* The comprehension reads one entry after the other.
ReadEntry(t, s, ends) ==
  /\ At(t, "iterate")
  /\ SameSize(t) /\ Cardinality(http[t].read) < http[t].size
  /\ s \in Cooling \ http[t].read
  /\ http' = [http EXCEPT ![t].read = @ \cup {s},
                          ![t].expired = IF until[s] <= ends THEN @ \cup {s} ELSE @]
  /\ UNCHANGED <<World, until>> /\ NoHistory

\* Broken variant: entries are removed a second early.
ScanEarly(t, s) == ReadEntry(t, s, http[t].now + 1)

Scan(t, s) == ReadEntry(t, s, http[t].now)

EndScan(t) ==
  /\ At(t, "iterate")
  /\ SameSize(t) /\ Cooling \subseteq http[t].read
  /\ Prunes(t, http[t].expired)
  /\ UNCHANGED <<World, until>> /\ NoHistory

\* One entry at a time, whatever it holds by now.
Pop(t, s) ==
  /\ At(t, "pop")
  /\ s \in http[t].expired
  /\ until' = [until EXCEPT ![s] = NoCooldown]
  /\ Prunes(t, http[t].expired \ {s})
  /\ UNCHANGED World /\ NoHistory
-----------------------------------------------------------------------------
Fresh(s, now) == row[s] # NoRow /\ now - row[s] <= StaleAfter

\* get_quotes takes the fresh rows, whether the market is open or not.
Rows(t) ==
  /\ At(t, "rows")
  /\ http' = [http EXCEPT ![t].pc = "gate",
                          ![t].todo = {s \in @ : ~Fresh(s, http[t].now)}]
  /\ UNCHANGED <<World, until>> /\ NoHistory

\* Is the symbol cooling down, by the time read on entry?
Gate(t, s) ==
  /\ At(t, "gate")
  /\ s \in http[t].todo
  /\ http' = [http EXCEPT
                ![t].sym = s, ![t].attempt = 0,
                ![t].pc = IF http[t].now < until[s] THEN "last"
                          ELSE IF http[t].kind = "one" THEN "source" ELSE "rest"]
  /\ UNCHANGED <<World, until>> /\ NoHistory

\* The symbol in hand is answered, with a row or as failed.
Done(t, failed) ==
  http' = [http EXCEPT ![t].pc = "gate", ![t].todo = @ \ {http[t].sym},
                       ![t].sym = NoSymbol, ![t].attempt = 0,
                       ![t].failed = @ \cup failed]

\* get_quote asks is_market_open(), which may answer either way at any time.
Source(t, open) ==
  /\ At(t, "source")
  /\ \/ open /\ Fresh(http[t].sym, http[t].now) /\ Done(t, {}) /\ late' = late \ {t}
     \/ ~(open /\ Fresh(http[t].sym, http[t].now)) /\ Go(t, "rest") /\ late' = late
  /\ UNCHANGED <<World, until, mark, sound>>

RestAnswers(t) ==
  /\ At(t, "rest")
  /\ Done(t, {})
  /\ late' = late \ {t}
  /\ UNCHANGED <<World, until, mark, sound>>

TryAgain(t, last) ==
  /\ At(t, "rest")
  /\ http[t].attempt < last
  /\ http' = [http EXCEPT ![t].attempt = @ + 1]
  /\ UNCHANGED <<World, until>> /\ NoHistory

\* Broken variants: one attempt too many, all attempts anew.
RetryOnceMore(t) == TryAgain(t, Attempts)
RetryAnew(t) == At(t, "rest") /\ Go(t, "gate") /\ UNCHANGED <<World, until>> /\ NoHistory

\* An error that is no 429 is tried again, without another look at the cooldown.
Retry(t) == TryAgain(t, Attempts - 1)

\* t has found s not cooling down, and is not done with it.
PastGate(t, s) == http[t].sym = s /\ http[t].pc \in {"source", "rest"}

Mark(t) ==
  LET s == http[t].sym
      end == http[t].now + Cooldown
  IN  /\ until' = [until EXCEPT ![s] = end]
      /\ mark' = [mark EXCEPT ![s] = end]
      /\ sound' = [sound EXCEPT ![s] = \A u \in Threads : s \notin http[u].expired]
      /\ late' = (late \cup {u \in Threads : PastGate(u, s)}) \ {t}

\* A 429, or the error of the last attempt.
GiveUp(t) ==
  /\ At(t, "rest")
  /\ Mark(t)
  /\ Go(t, "last")
  /\ UNCHANGED World

\* _last_good_quote: any row will do; without one, 503 or failed_symbols.
LastGood(t) ==
  /\ At(t, "last")
  /\ Done(t, IF row[http[t].sym] = NoRow THEN {http[t].sym} ELSE {})
  /\ UNCHANGED <<World, until>> /\ NoHistory

Answer(t) ==
  /\ At(t, "gate")
  /\ http[t].todo = {}
  /\ http' = [http EXCEPT ![t] = Free]
  /\ UNCHANGED <<World, until>> /\ NoHistory
-----------------------------------------------------------------------------
Prune(t) ==
  \/ BeginScan(t) \/ ScanRaises(t) \/ EndScan(t)
  \/ \E s \in Symbols : Scan(t, s) \/ Pop(t, s)

Fetch(t) ==
  \/ Rows(t)
  \/ \E s \in Symbols : Gate(t, s)
  \/ \E open \in BOOLEAN : Source(t, open)
  \/ RestAnswers(t) \/ Retry(t) \/ GiveUp(t) \/ LastGood(t)
  \/ Answer(t)

Serve(t) == Prune(t) \/ Fetch(t)

Request(t) ==
  \/ \E s \in Symbols : Enter(t, "one", {s})
  \/ \E S \in SUBSET Symbols : Enter(t, "batch", S)

Next ==
  \/ Tick
  \/ \E s \in Symbols, ts \in 0..MaxTime : Ingest(s, ts)
  \/ \E t \in Threads : Request(t) \/ Serve(t)

Spec == Init /\ [][Next]_vars

\* Every REST call has a timeout, sleeps and loops are bounded: a thread with
\* a request goes on.
FairSpec == Spec /\ \A t \in Threads : WF_vars(Serve(t))
-----------------------------------------------------------------------------
(* Properties. *)

\* t asks REST for s, for the first time or again.
Asks(t, s) == http'[t].pc = "rest" /\ http'[t].sym = s /\ http'[t] # http[t]

\* Until the last cooldown given to a symbol is over no thread asks REST for it,
\* however old the times are by which threads set, prune and test cooldowns, but
\* those that had passed the test before it was given: they go on with their
\* retries, and may replace it by an earlier end, having read the clock before.
\* (The premise: a removal under way when it was given can drop it.)
CooldownHonored ==
  [][\A t \in Threads, s \in Symbols :
       Asks(t, s) /\ sound[s] => mark[s] <= clock \/ t \in late]_vars

\* Every request is answered in the end, through retries, cooldowns and
\* failures of other requests.
EveryRequestAnswered == \A t \in Threads : At(t, "prune") ~> At(t, "free")
=============================================================================
