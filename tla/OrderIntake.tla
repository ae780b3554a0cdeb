----------------------------- MODULE OrderIntake -----------------------------
(***************************************************************************)
(* POST /v1/orders as the thread pool of the server runs it: create_order  *)
(* (app/api/routes.py) with the risk policy, OrderQueue.enqueue with its   *)
(* idempotency table, and the daily order counter.  No lock is taken; each *)
(* action ends where the interpreter may switch threads or where the       *)
(* handler waits for the broker.                                           *)
(***************************************************************************)
EXTENDS RiskPolicy, FiniteSets

CONSTANTS
  Threads,       \* threads of the server's pool
  Keys,          \* Idempotency-Key values clients use
  Bodies,        \* request bodies (RiskPolicy!Requested)
  Positions,     \* what the position provider may answer
  Orders,        \* order ids uuid4 may produce: bounds the orders of a run
  NoOrder, NoKey, NoBody

ASSUME NoOrderAssumption == NoOrder \notin Orders
ASSUME NoKeyAssumption == NoKey \notin Keys
ASSUME ThreadsAssumption == IsFiniteSet(Threads) /\ Threads # {}
\* OrderRequest: qty is an integer.
ASSUME BodiesAssumption == \A b \in Bodies : b.qty \in Int

VARIABLES
  jobs,        \* jobs[o]: key and body the order was created for
  idem,        \* idem[k]: the order recorded for a key
  idemHash,    \* idem_body_hash[k]
  dailyCount,  \* _daily_order_count
  open,        \* the clock is in the trading window
  http         \* http[t]: the request thread t serves, or its last answer

vars == <<jobs, idem, idemHash, dailyCount, open, http>>
-----------------------------------------------------------------------------
NoJob == [key |-> NoKey, body |-> NoBody]

\* A handler: next step, request, counter value it read, order it answers
\* with, and whether it met another request of its key (history).
Handler(pc, key, body, seen, order, met) ==
  [pc |-> pc, key |-> key, body |-> body, seen |-> seen, order |-> order, met |-> met]

\* "accepted", "refused" (400) and "mismatch" (409) are answers.
Answered == {"free", "accepted", "refused", "mismatch"}
Steps == Answered \cup {"decide", "lookup", "dedup", "create", "record", "count"}

Typed ==
  /\ jobs \in [Orders -> [key : Keys \cup {NoKey}, body : Bodies \cup {NoBody}]]
  /\ idem \in [Keys -> Orders \cup {NoOrder}]
  /\ idemHash \in [Keys -> Bodies \cup {NoBody}]
  /\ dailyCount \in Nat
  /\ open \in BOOLEAN
  /\ http \in [Threads -> [pc    : Steps,
                           key   : Keys \cup {NoKey},
                           body  : Bodies \cup {NoBody},
                           seen  : Nat,
                           order : Orders \cup {NoOrder},
                           met   : BOOLEAN]]

Init ==
  /\ jobs = [o \in Orders |-> NoJob]
  /\ idem = [k \in Keys |-> NoOrder]
  /\ idemHash = [k \in Keys |-> NoBody]
  /\ dailyCount = 0
  /\ open \in BOOLEAN
  /\ http = [t \in Threads |-> Handler("free", NoKey, NoBody, 0, NoOrder, FALSE)]

Created == {o \in Orders : jobs[o] # NoJob}

\* Each variable has its type, and a handler that is past the table answers
\* with an order created under its own key.
TypeOK ==
  /\ Typed
  /\ \A t \in Threads :
       http[t].pc \in {"record", "count", "accepted"} =>
         http[t].order \in Created /\ jobs[http[t].order].key = http[t].key

At(t, pc) == http[t].pc = pc

Go(t, pc, order) ==
  http' = [http EXCEPT ![t] = [http[t] EXCEPT !.pc = pc, !.order = order]]
-----------------------------------------------------------------------------
\* A request with an acceptable contract arrives; check_risk reads the counter
\* before it asks for the positions.
Receive(t, k, b) ==
  /\ http[t].pc \in Answered
  /\ ContractError(b) = "none"
  /\ LET Others == {u \in Threads \ {t} : http[u].pc \notin Answered /\ http[u].key = k}
     IN  http' = [u \in Threads |->
                    IF u = t THEN Handler("decide", k, b, dailyCount, NoOrder, Others # {})
                    ELSE IF u \in Others THEN [http[u] EXCEPT !.met = TRUE]
                    ELSE http[u]]
  /\ UNCHANGED <<jobs, idem, idemHash, dailyCount, open>>

\* The positions are there and the clock is read: the rest of check_risk and
\* the fallback of create_order.
Decide(t, available) ==
  /\ At(t, "decide")
  /\ LET error == OrderError(http[t].body, http[t].seen, available, open, dailyCount)
     IN  Go(t, IF error = "none" THEN "lookup" ELSE "refused", NoOrder)
  /\ UNCHANGED <<jobs, idem, idemHash, dailyCount, open>>

Recorded(k) == idem[k] # NoOrder

\* Broken variant: the body of a known key is not compared.
SameRequestAny(k, b) == Recorded(k)

SameRequest(k, b) == idemHash[k] = b

\* enqueue: is the key in the table, and for the same body?
Lookup(t) ==
  /\ At(t, "lookup")
  /\ LET k == http[t].key
     IN  Go(t, IF ~Recorded(k) THEN "create"
               ELSE IF SameRequest(k, http[t].body) THEN "dedup"
               ELSE "mismatch", NoOrder)
  /\ UNCHANGED <<jobs, idem, idemHash, dailyCount, open>>

\* Broken variant: a repeated request is answered without its order.
DedupEmpty(t) ==
  /\ At(t, "dedup")
  /\ Go(t, "count", NoOrder)
  /\ UNCHANGED <<jobs, idem, idemHash, dailyCount, open>>

\* The dedup counter is bumped between the comparison and this read.
Dedup(t) ==
  /\ At(t, "dedup")
  /\ Go(t, "count", idem[http[t].key])
  /\ UNCHANGED <<jobs, idem, idemHash, dailyCount, open>>

\* A new job, appended to the queue.
Create(t, o) ==
  /\ At(t, "create")
  /\ o \notin Created
  /\ jobs' = [jobs EXCEPT ![o] = [key |-> http[t].key, body |-> http[t].body]]
  /\ Go(t, "record", o)
  /\ UNCHANGED <<idem, idemHash, dailyCount, open>>

\* Broken variant: the order is never recorded under its key.
RecordNothing(t) ==
  /\ At(t, "record")
  /\ Go(t, "count", http[t].order)
  /\ UNCHANGED <<jobs, idem, idemHash, dailyCount, open>>

Record(t) ==
  /\ At(t, "record")
  /\ idem' = [idem EXCEPT ![http[t].key] = http[t].order]
  /\ idemHash' = [idemHash EXCEPT ![http[t].key] = http[t].body]
  /\ Go(t, "count", http[t].order)
  /\ UNCHANGED <<jobs, dailyCount, open>>

\* Broken variant: the value read before the checks is written back.
CountStale(t) ==
  /\ At(t, "count")
  /\ dailyCount' = http[t].seen + 1
  /\ Go(t, "accepted", http[t].order)
  /\ UNCHANGED <<jobs, idem, idemHash, open>>

\* _increment_daily_order_count, for a new order and for a repeated one.
Count(t) ==
  /\ At(t, "count")
  /\ dailyCount' = dailyCount + 1
  /\ Go(t, "accepted", http[t].order)
  /\ UNCHANGED <<jobs, idem, idemHash, open>>

\* The trading window opens or closes.
Bell ==
  /\ open' = ~open
  /\ UNCHANGED <<jobs, idem, idemHash, dailyCount, http>>

Serve(t) ==
  \/ \E k \in Keys, b \in Bodies : Receive(t, k, b)
  \/ \E available \in Positions : Decide(t, available)
  \/ Lookup(t) \/ Dedup(t)
  \/ \E o \in Orders : Create(t, o)
  \/ Record(t) \/ Count(t)

Next == (\E t \in Threads : Serve(t)) \/ Bell

Spec == Init /\ [][Next]_vars
-----------------------------------------------------------------------------
OrdersOf(k) == {o \in Created : jobs[o].key = k}

\* Two requests can create an order each for one key only while they overlap:
\* a key has at most as many orders as there are threads, however often and
\* however late its request is repeated.
OrdersPerKeyBounded ==
  \A k \in Keys : Cardinality(OrdersOf(k)) <= Cardinality(Threads)

Uncounted == {t \in Threads : http[t].pc \in {"record", "count"}}

\* No order escapes the daily counter: those not counted yet are in the hands
\* of a handler.
EveryOrderCounted ==
  Cardinality(Created) <= dailyCount + Cardinality(Uncounted)

\* The daily limit is missed by at most one order for each other thread that
\* read the counter before it was bumped.
LimitOvershootBounded ==
  Cardinality(Created) < DailyOrderLimit + Cardinality(Threads)

\* docs/architecture/2026-02-28-kis-trading-next-architecture.md:45 "same key
\* and another body is 409", for a request that met no other request of its
\* key: whatever overlapped before it, it gets an order of its own body.
AloneAnswersOwnBody ==
  \A t \in Threads :
    http[t].pc = "accepted" /\ ~http[t].met => jobs[http[t].order].body = http[t].body

\* docs/evidence/2026-02-28-buy-sell-e2e.md:7 "same Idempotency-Key and same
\* body: deduplicate (the same order_id)".
OneOrderPerKey ==
  \A o1, o2 \in Created : jobs[o1] = jobs[o2] => o1 = o2
=============================================================================
