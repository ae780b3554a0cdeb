-------------------------- MODULE OrderIntakeProofs --------------------------
(* Theorems about OrderIntake, for any number of threads, keys, bodies and  *)
(* orders, and about the policy it applies, for every request and limit.    *)
EXTENDS OrderIntake, RiskPolicyCheck, FiniteSetTheorems, TLAPS
-----------------------------------------------------------------------------
(* The inductive invariants. *)

\* The table names, for each recorded key, an order created for that key.
TableKept ==
  \A k \in Keys : Recorded(k) => idem[k] \in Created /\ jobs[idem[k]].key = k

\* A thread that has served a request has its key and body, and deduplicates
\* only what is in the table.
HandlersKept ==
  \A t \in Threads :
    /\ http[t].pc # "free" => http[t].key \in Keys /\ http[t].body \in Bodies
    /\ http[t].pc = "dedup" => Recorded(http[t].key)

TypeInv == TypeOK /\ TableKept /\ HandlersKept /\ IsFiniteSet(Created)

Passed == {"lookup", "dedup", "create", "record", "count"}

\* Threads whose request may still be counted.
Admitted == {t \in Threads : http[t].pc \notin Answered /\ http[t].seen < DailyOrderLimit}

\* Who is past the policy read a counter below the limit, and the counter and
\* the requests that may still bump it stay within the bound.
LimitInv ==
  /\ \A t \in Threads : http[t].pc \in Passed => t \in Admitted
  /\ dailyCount + Cardinality(Admitted) < DailyOrderLimit + Cardinality(Threads)

Serving(pc, k) == {t \in Threads : http[t].pc = pc /\ http[t].key = k}

\* The orders of a key and those about to be created are within the bound;
\* before the key is recorded all its orders are in the hands of a thread.
KeyInvAt(k) ==
  /\ Cardinality(OrdersOf(k)) + Cardinality(Serving("create", k)) <= Cardinality(Threads)
  /\ ~Recorded(k) => \A o \in OrdersOf(k) : \E t \in Serving("record", k) : http[t].order = o

KeyInv == \A k \in Keys : KeyInvAt(k)

InFlight(t) == http[t].pc \notin Answered

\* Of two requests of one key in flight, each has met the other.
OverlapsMet ==
  \A t, u \in Threads :
    t # u /\ InFlight(t) /\ InFlight(u) /\ http[t].key = http[u].key => http[t].met

\* The table remembers the body of the order it names.
TableBody == \A k \in Keys : Recorded(k) => jobs[idem[k]].body = idemHash[k]

\* A thread that met nobody has in hand an order of its own body.
OwnBody(t) ==
  /\ http[t].pc = "record" => jobs[http[t].order].body = http[t].body
  /\ http[t].pc = "dedup" /\ ~http[t].met => jobs[idem[http[t].key]].body = http[t].body
  /\ http[t].pc \in {"count", "accepted"} /\ ~http[t].met =>
       jobs[http[t].order].body = http[t].body

BodyInv == OverlapsMet /\ TableBody /\ \A t \in Threads : OwnBody(t)
-----------------------------------------------------------------------------
(* What one step does to the threads. *)

Handlers ==
  [pc : Steps, key : Keys \cup {NoKey}, body : Bodies \cup {NoBody}, seen : Nat,
   order : Orders \cup {NoOrder}, met : BOOLEAN]

\* The request of a thread is the one it served before.
SameRequestOf(u) ==
  /\ http'[u].key = http[u].key
  /\ http'[u].body = http[u].body
  /\ http'[u].seen = http[u].seen

\* Go moves one thread to its next step and leaves its request alone.
LEMMA GoMoves ==
  ASSUME Typed, NEW t \in Threads, NEW pc \in Steps, NEW o \in Orders \cup {NoOrder},
         Go(t, pc, o)
  PROVE  /\ http' \in [Threads -> Handlers]
         /\ http'[t].pc = pc /\ http'[t].order = o
         /\ SameRequestOf(t) /\ http'[t].met = http[t].met
         /\ \A u \in Threads \ {t} : http'[u] = http[u]
<1>1. http \in [Threads -> Handlers]
  BY DEF Typed, Handlers
<1>2. http' = [http EXCEPT ![t] = [http[t] EXCEPT !.pc = pc, !.order = o]]
  BY DEF Go
<1>3. http[t] \in Handlers
  BY <1>1
<1>4. [http[t] EXCEPT !.pc = pc, !.order = o] \in Handlers
  BY <1>3 DEF Handlers
<1>5. http'[t] = [http[t] EXCEPT !.pc = pc, !.order = o]
  BY <1>1, <1>2
<1>6. http' \in [Threads -> Handlers]
  BY <1>1, <1>2, <1>4
<1>7. \A u \in Threads \ {t} : http'[u] = http[u]
  BY <1>1, <1>2
<1>8. http'[t].pc = pc /\ http'[t].order = o /\ SameRequestOf(t) /\ http'[t].met = http[t].met
  BY <1>3, <1>5 DEF Handlers, SameRequestOf
<1> QED BY <1>6, <1>7, <1>8

\* A request starts one thread; threads in flight with its key have met it.
LEMMA ReceiveMoves ==
  ASSUME Typed, NEW t \in Threads, NEW k \in Keys, NEW b \in Bodies, Receive(t, k, b)
  PROVE  /\ http' \in [Threads -> Handlers]
         /\ http'[t].pc = "decide" /\ http'[t].order = NoOrder
         /\ http'[t].key = k /\ http'[t].body = b /\ http'[t].seen = dailyCount
         /\ \A u \in Threads \ {t} : InFlight(u) /\ http[u].key = k =>
              http'[t].met /\ http'[u].met
         /\ \A u \in Threads \ {t} :
              /\ SameRequestOf(u)
              /\ http'[u].pc = http[u].pc /\ http'[u].order = http[u].order
              /\ http[u].met => http'[u].met
<1> DEFINE Others == {u \in Threads \ {t} : http[u].pc \notin Answered /\ http[u].key = k}
           first == Handler("decide", k, b, dailyCount, NoOrder, Others # {})
<1>1. http \in [Threads -> Handlers]
  BY DEF Typed, Handlers
<1>2. http' = [u \in Threads |-> IF u = t THEN first
                                 ELSE IF u \in Others THEN [http[u] EXCEPT !.met = TRUE]
                                 ELSE http[u]]
  BY DEF Receive
<1>3. first \in Handlers
  BY DEF Handlers, Handler, Steps, Typed
<1>4. \A u \in Threads : [http[u] EXCEPT !.met = TRUE] \in Handlers
  BY <1>1 DEF Handlers
<1>5. http'[t] = first
  BY <1>2
<1>6. \A u \in Threads \ {t} :
        http'[u] = IF u \in Others THEN [http[u] EXCEPT !.met = TRUE] ELSE http[u]
  BY <1>2
<1>7. http' \in [Threads -> Handlers]
  <2>1. \A u \in Threads : http'[u] \in Handlers
    BY <1>1, <1>3, <1>4, <1>5, <1>6
  <2> QED BY <1>2, <2>1
<1>8. /\ http'[t].pc = "decide" /\ http'[t].order = NoOrder
      /\ http'[t].key = k /\ http'[t].body = b /\ http'[t].seen = dailyCount
      /\ http'[t].met = (Others # {})
  BY <1>5 DEF Handler
<1>9. ASSUME NEW u \in Threads \ {t}
      PROVE  /\ SameRequestOf(u)
             /\ http'[u].pc = http[u].pc /\ http'[u].order = http[u].order
             /\ http[u].met => http'[u].met
             /\ u \in Others => http'[u].met
  <2>1. http[u] \in Handlers
    BY <1>1
  <2>2. CASE u \in Others
    BY <1>6, <2>1, <2>2 DEF Handlers, SameRequestOf
  <2>3. CASE u \notin Others
    <3>1. http'[u] = http[u]
      BY <1>6, <2>3
    <3> QED BY <2>3, <3>1 DEF SameRequestOf
  <2> QED BY <2>2, <2>3
<1>10. ASSUME NEW u \in Threads \ {t}, InFlight(u), http[u].key = k
       PROVE  http'[t].met /\ http'[u].met
  <2>1. u \in Others
    BY <1>10 DEF InFlight
  <2> QED BY <1>8, <1>9, <2>1
<1> QED BY <1>7, <1>8, <1>9, <1>10

\* A new order enters the job table and leaves the others alone.
LEMMA CreateAdds ==
  ASSUME Typed, NEW t \in Threads, NEW o \in Orders, Create(t, o), http[t].key \in Keys
  PROVE  /\ o \notin Created /\ Created' = Created \cup {o}
         /\ jobs' \in [Orders -> [key : Keys \cup {NoKey}, body : Bodies \cup {NoBody}]]
         /\ jobs'[o].key = http[t].key /\ jobs'[o].body = http[t].body
         /\ \A x \in Orders \ {o} : jobs'[x] = jobs[x]
<1> DEFINE job == [key |-> http[t].key, body |-> http[t].body]
<1>1. jobs' = [jobs EXCEPT ![o] = job] /\ o \notin Created
  BY DEF Create
<1>2. job \in [key : Keys \cup {NoKey}, body : Bodies \cup {NoBody}]
  BY DEF Typed
<1>3. jobs \in [Orders -> [key : Keys \cup {NoKey}, body : Bodies \cup {NoBody}]]
  BY DEF Typed
<1>4. jobs'[o] = job /\ \A x \in Orders \ {o} : jobs'[x] = jobs[x]
  BY <1>1, <1>3
<1>5. job # NoJob
  <2>1. job.key # NoJob.key
    BY NoKeyAssumption DEF NoJob
  <2> QED BY <2>1
<1>6. Created' = Created \cup {o}
  BY <1>4, <1>5 DEF Created
<1>7. jobs' \in [Orders -> [key : Keys \cup {NoKey}, body : Bodies \cup {NoBody}]]
  BY <1>1, <1>2, <1>3
<1> QED BY <1>1, <1>4, <1>6, <1>7

\* The step a thread takes tells where it goes and what it answers with.
LEMMA ServeMoves ==
  ASSUME TypeInv, NEW t \in Threads, Serve(t)
  PROVE  \/ \E k \in Keys, b \in Bodies : Receive(t, k, b)
         \/ /\ http[t].pc = "decide" /\ UNCHANGED <<jobs, idem, idemHash, dailyCount>>
            /\ \E pc \in {"lookup", "refused"} : Go(t, pc, NoOrder)
         \/ /\ Lookup(t)
            /\ \E pc \in {"create", "dedup", "mismatch"} :
                 /\ Go(t, pc, NoOrder)
                 /\ pc = "create" => ~Recorded(http[t].key)
                 /\ pc = "dedup" => Recorded(http[t].key)
                                    /\ SameRequest(http[t].key, http[t].body)
         \/ Dedup(t)
         \/ \E o \in Orders : Create(t, o)
         \/ Record(t)
         \/ Count(t)
<1>1. ASSUME NEW a \in Positions, Decide(t, a)
      PROVE  /\ http[t].pc = "decide" /\ UNCHANGED <<jobs, idem, idemHash, dailyCount>>
             /\ \E pc \in {"lookup", "refused"} : Go(t, pc, NoOrder)
  BY <1>1 DEF Decide, At
<1>2. ASSUME Lookup(t)
      PROVE  \E pc \in {"create", "dedup", "mismatch"} :
                 /\ Go(t, pc, NoOrder)
                 /\ pc = "create" => ~Recorded(http[t].key)
                 /\ pc = "dedup" => Recorded(http[t].key)
                                    /\ SameRequest(http[t].key, http[t].body)
  BY <1>2 DEF Lookup
<1> QED BY <1>1, <1>2 DEF Serve
-----------------------------------------------------------------------------
\* The type invariant holds initially.
LEMMA TypeInit == Init => TypeInv
<1> SUFFICES ASSUME Init PROVE TypeInv
  OBVIOUS
<1>1. Created = {}
  BY DEF Init, Created
<1>2. \A t \in Threads : http[t] = Handler("free", NoKey, NoBody, 0, NoOrder, FALSE)
  BY DEF Init
<1>3. Typed
  BY <1>2 DEF Init, Typed, NoJob, Handler, Steps, Answered
<1>4. TypeOK
  BY <1>2, <1>3 DEF TypeOK, Handler
<1>5. TableKept /\ HandlersKept
  BY <1>2 DEF Init, TableKept, HandlersKept, Recorded, Handler
<1> QED BY <1>1, <1>4, <1>5, FS_EmptySet DEF TypeInv

\* A step of a thread that moves by Go and keeps the tables, but for the counter.
LEMMA TypeGo ==
  ASSUME TypeInv, NEW t \in Threads, NEW pc \in Steps, NEW o \in Orders \cup {NoOrder},
         Go(t, pc, o), http[t].pc # "free",
         UNCHANGED <<jobs, idem, idemHash>>, dailyCount' \in Nat, open' \in BOOLEAN,
         pc \in {"record", "count", "accepted"} =>
           o \in Created /\ jobs[o].key = http[t].key,
         pc = "dedup" => Recorded(http[t].key)
  PROVE  TypeInv'
<1>0. Typed
  BY DEF TypeInv, TypeOK
<1>1. /\ http' \in [Threads -> Handlers]
      /\ http'[t].pc = pc /\ http'[t].order = o
      /\ http'[t].key = http[t].key /\ http'[t].body = http[t].body
      /\ \A u \in Threads \ {t} : http'[u] = http[u]
  BY <1>0, GoMoves DEF SameRequestOf
<1>2. Typed'
  BY <1>0, <1>1 DEF Typed, Handlers
<1>3. Created' = Created /\ \A k \in Keys : Recorded(k)' <=> Recorded(k)
  BY DEF Created, Recorded
<1>4. TypeOK'
  <2>1. ASSUME NEW u \in Threads, http'[u].pc \in {"record", "count", "accepted"}
        PROVE  http'[u].order \in Created' /\ jobs'[http'[u].order].key = http'[u].key
    BY <1>1, <1>3, <2>1 DEF TypeInv, TypeOK
  <2> QED BY <1>2, <2>1 DEF TypeOK
<1>5. TableKept'
  BY <1>3 DEF TypeInv, TableKept
<1>6. HandlersKept'
  BY <1>1, <1>3 DEF TypeInv, HandlersKept
<1> QED BY <1>3, <1>4, <1>5, <1>6 DEF TypeInv

\* A new request keeps the type invariant.
LEMMA TypeReceive ==
  ASSUME TypeInv, NEW t \in Threads, NEW k \in Keys, NEW b \in Bodies, Receive(t, k, b)
  PROVE  TypeInv'
<1>0. Typed
  BY DEF TypeInv, TypeOK
<1>1. /\ http' \in [Threads -> Handlers]
      /\ http'[t].pc = "decide" /\ http'[t].key = k /\ http'[t].body = b
      /\ \A u \in Threads \ {t} :
           /\ http'[u].key = http[u].key /\ http'[u].body = http[u].body
           /\ http'[u].pc = http[u].pc /\ http'[u].order = http[u].order
  BY <1>0, ReceiveMoves DEF SameRequestOf
<1>2. UNCHANGED <<jobs, idem, idemHash, dailyCount, open>>
  BY DEF Receive
<1>3. Typed'
  BY <1>0, <1>1, <1>2 DEF Typed, Handlers
<1>4. Created' = Created /\ \A x \in Keys : Recorded(x)' <=> Recorded(x)
  BY <1>2 DEF Created, Recorded
<1>5. TypeOK'
  <2>1. ASSUME NEW u \in Threads, http'[u].pc \in {"record", "count", "accepted"}
        PROVE  http'[u].order \in Created' /\ jobs'[http'[u].order].key = http'[u].key
    BY <1>1, <1>2, <1>4, <2>1 DEF TypeInv, TypeOK
  <2> QED BY <1>3, <2>1 DEF TypeOK
<1>6. TableKept'
  BY <1>2, <1>4 DEF TypeInv, TableKept
<1>7. HandlersKept'
  <2>1. \A u \in Threads : http'[u].pc # "free" => http'[u].key \in Keys /\ http'[u].body \in Bodies
    BY <1>1 DEF TypeInv, HandlersKept
  <2>2. \A u \in Threads : http'[u].pc = "dedup" =>
          http'[u].key \in Keys /\ http'[u].key = http[u].key /\ Recorded(http[u].key)
    BY <1>1, <2>1 DEF TypeInv, HandlersKept
  <2> QED BY <1>2, <2>1, <2>2 DEF HandlersKept, Recorded
<1> QED BY <1>4, <1>5, <1>6, <1>7 DEF TypeInv

\* So does the creation of an order.
LEMMA TypeCreate ==
  ASSUME TypeInv, NEW t \in Threads, NEW o \in Orders, Create(t, o)
  PROVE  TypeInv'
<1>0. Typed /\ http[t].pc = "create" /\ http[t].key \in Keys
  BY DEF TypeInv, TypeOK, HandlersKept, Create, At
<1>1. /\ o \notin Created /\ Created' = Created \cup {o}
      /\ jobs' \in [Orders -> [key : Keys \cup {NoKey}, body : Bodies \cup {NoBody}]]
      /\ jobs'[o].key = http[t].key
      /\ \A x \in Orders \ {o} : jobs'[x] = jobs[x]
  BY <1>0, CreateAdds
<1>2. Go(t, "record", o) /\ UNCHANGED <<idem, idemHash, dailyCount, open>>
  BY DEF Create
<1>3. /\ http' \in [Threads -> Handlers]
      /\ http'[t].pc = "record" /\ http'[t].order = o
      /\ http'[t].key = http[t].key /\ http'[t].body = http[t].body
      /\ \A u \in Threads \ {t} : http'[u] = http[u]
  <2>1. "record" \in Steps /\ o \in Orders \cup {NoOrder}
    BY DEF Steps
  <2> QED BY <1>0, <1>2, <2>1, GoMoves DEF SameRequestOf
<1>4. Typed'
  BY <1>0, <1>1, <1>2, <1>3 DEF Typed, Handlers
<1>5. \A x \in Created : x \in Created' /\ jobs'[x] = jobs[x]
  BY <1>1 DEF Created
<1>6. \A k \in Keys : Recorded(k)' <=> Recorded(k)
  BY <1>2 DEF Recorded
<1>7. TypeOK'
  <2>1. ASSUME NEW u \in Threads, http'[u].pc \in {"record", "count", "accepted"}
        PROVE  http'[u].order \in Created' /\ jobs'[http'[u].order].key = http'[u].key
    <3>1. CASE u = t BY <1>1, <1>3, <3>1
    <3>2. CASE u # t BY <1>3, <1>5, <2>1, <3>2 DEF TypeInv, TypeOK
    <3> QED BY <3>1, <3>2
  <2> QED BY <1>4, <2>1 DEF TypeOK
<1>8. TableKept'
  BY <1>2, <1>5, <1>6 DEF TypeInv, TableKept
<1>9. HandlersKept'
  BY <1>0, <1>3, <1>6 DEF TypeInv, HandlersKept
<1>10. IsFiniteSet(Created')
  BY <1>1, FS_AddElement DEF TypeInv
<1> QED BY <1>7, <1>8, <1>9, <1>10 DEF TypeInv

\* Recording a key names the order that was created for it.
LEMMA RecordSets ==
  ASSUME TypeInv, NEW t \in Threads, Record(t)
  PROVE  /\ http[t].key \in Keys /\ http[t].body \in Bodies
         /\ http[t].order \in Created /\ jobs[http[t].order].key = http[t].key
         /\ idem' \in [Keys -> Orders \cup {NoOrder}]
         /\ idemHash' \in [Keys -> Bodies \cup {NoBody}]
         /\ idem'[http[t].key] = http[t].order
         /\ idemHash'[http[t].key] = http[t].body
         /\ \A k \in Keys \ {http[t].key} : idem'[k] = idem[k] /\ idemHash'[k] = idemHash[k]
         /\ \A k \in Keys : Recorded(k)' <=> Recorded(k) \/ k = http[t].key
<1>1. /\ http[t].key \in Keys /\ http[t].body \in Bodies
      /\ http[t].order \in Created /\ jobs[http[t].order].key = http[t].key
  BY DEF Record, At, TypeInv, TypeOK, HandlersKept
<1>2. /\ idem \in [Keys -> Orders \cup {NoOrder}]
      /\ idemHash \in [Keys -> Bodies \cup {NoBody}]
  BY DEF TypeInv, TypeOK, Typed
<1>3. /\ idem' = [idem EXCEPT ![http[t].key] = http[t].order]
      /\ idemHash' = [idemHash EXCEPT ![http[t].key] = http[t].body]
  BY DEF Record
<1>4. http[t].order \in Orders /\ http[t].order # NoOrder
  BY <1>1, NoOrderAssumption DEF Created
<1>5. /\ idem' \in [Keys -> Orders \cup {NoOrder}]
      /\ idem'[http[t].key] = http[t].order
      /\ \A k \in Keys \ {http[t].key} : idem'[k] = idem[k]
  BY <1>1, <1>2, <1>3, <1>4
<1>6. /\ idemHash' \in [Keys -> Bodies \cup {NoBody}]
      /\ idemHash'[http[t].key] = http[t].body
      /\ \A k \in Keys \ {http[t].key} : idemHash'[k] = idemHash[k]
  BY <1>1, <1>2, <1>3
<1>7. \A k \in Keys : Recorded(k)' <=> Recorded(k) \/ k = http[t].key
  BY <1>4, <1>5 DEF Recorded
<1> QED BY <1>1, <1>5, <1>6, <1>7

\* So it keeps the type invariant.
LEMMA TypeRecord ==
  ASSUME TypeInv, NEW t \in Threads, Record(t)
  PROVE  TypeInv'
<1>0. Typed
  BY DEF TypeInv, TypeOK
<1>1. Go(t, "count", http[t].order) /\ UNCHANGED <<jobs, dailyCount, open>>
  BY DEF Record
<1>2. /\ http[t].key \in Keys /\ http[t].body \in Bodies
      /\ http[t].order \in Created /\ jobs[http[t].order].key = http[t].key
      /\ idem' \in [Keys -> Orders \cup {NoOrder}]
      /\ idemHash' \in [Keys -> Bodies \cup {NoBody}]
      /\ idem'[http[t].key] = http[t].order
      /\ \A k \in Keys \ {http[t].key} : idem'[k] = idem[k]
      /\ \A k \in Keys : Recorded(k)' <=> Recorded(k) \/ k = http[t].key
  BY RecordSets
<1>3. /\ http' \in [Threads -> Handlers]
      /\ http'[t].pc = "count" /\ http'[t].order = http[t].order
      /\ http'[t].key = http[t].key /\ http'[t].body = http[t].body
      /\ \A u \in Threads \ {t} : http'[u] = http[u]
  <2>1. PICK o \in Orders : o = http[t].order
    BY <1>2 DEF Created
  <2>2. "count" \in Steps /\ o \in Orders \cup {NoOrder}
    BY DEF Steps
  <2> QED BY <1>0, <1>1, <2>1, <2>2, GoMoves DEF SameRequestOf
<1>4. Typed'
  BY <1>0, <1>1, <1>2, <1>3 DEF Typed, Handlers
<1>5. Created' = Created
  BY <1>1 DEF Created
<1>6. TypeOK'
  <2>1. ASSUME NEW u \in Threads, http'[u].pc \in {"record", "count", "accepted"}
        PROVE  http'[u].order \in Created' /\ jobs'[http'[u].order].key = http'[u].key
    <3>1. CASE u = t BY <1>1, <1>2, <1>3, <1>5, <3>1
    <3>2. CASE u # t BY <1>1, <1>3, <1>5, <2>1, <3>2 DEF TypeInv, TypeOK
    <3> QED BY <3>1, <3>2
  <2> QED BY <1>4, <2>1 DEF TypeOK
<1>7. TableKept'
  BY <1>1, <1>2, <1>5 DEF TypeInv, TableKept
<1>8. HandlersKept'
  BY <1>2, <1>3 DEF TypeInv, HandlersKept
<1> QED BY <1>5, <1>6, <1>7, <1>8 DEF TypeInv

\* The type invariant is inductive.
LEMMA TypeStep == TypeInv /\ [Next]_vars => TypeInv'
<1> SUFFICES ASSUME TypeInv, [Next]_vars PROVE TypeInv'
  OBVIOUS
<1>0. Typed
  BY DEF TypeInv, TypeOK
<1>1. ASSUME NEW t \in Threads, Serve(t) PROVE TypeInv'
  <2> USE NoOrderAssumption
  <2>1. ASSUME NEW a \in Positions, Decide(t, a) PROVE TypeInv'
    <3>1. PICK pc \in {"lookup", "refused"} : Go(t, pc, NoOrder)
      BY <2>1 DEF Decide
    <3>2. /\ http[t].pc # "free" /\ UNCHANGED <<jobs, idem, idemHash>>
          /\ dailyCount' \in Nat /\ open' \in BOOLEAN
      BY <1>0, <2>1 DEF Decide, At, Typed
    <3> QED BY <3>1, <3>2, TypeGo DEF Steps, Answered
  <2>2. CASE Lookup(t)
    <3>1. PICK pc \in {"create", "dedup", "mismatch"} :
                 Go(t, pc, NoOrder) /\ (pc = "dedup" => Recorded(http[t].key))
      BY <2>2 DEF Lookup
    <3>2. /\ http[t].pc # "free" /\ UNCHANGED <<jobs, idem, idemHash>>
          /\ dailyCount' \in Nat /\ open' \in BOOLEAN
      BY <1>0, <2>2 DEF Lookup, At, Typed
    <3> QED BY <3>1, <3>2, TypeGo DEF Steps, Answered
  <2>3. CASE Dedup(t)
    <3>1. http[t].key \in Keys /\ Recorded(http[t].key)
      BY <2>3 DEF Dedup, At, TypeInv, HandlersKept
    <3>2. PICK o : o = idem[http[t].key]
      OBVIOUS
    <3>3. o \in Created /\ jobs[o].key = http[t].key /\ o \in Orders
      BY <3>1, <3>2 DEF TypeInv, TableKept, Created
    <3>4. /\ http[t].pc # "free" /\ UNCHANGED <<jobs, idem, idemHash>>
          /\ dailyCount' \in Nat /\ open' \in BOOLEAN
          /\ Go(t, "count", o)
      BY <1>0, <2>3, <3>2 DEF Dedup, At, Typed
    <3> QED BY <3>3, <3>4, TypeGo DEF Steps, Answered
  <2>4. CASE Count(t)
    <3>1. /\ http[t].order \in Created /\ http[t].order \in Orders
          /\ jobs[http[t].order].key = http[t].key
      BY <2>4 DEF Count, At, TypeInv, TypeOK, Created
    <3>2. /\ http[t].pc # "free" /\ UNCHANGED <<jobs, idem, idemHash>>
          /\ open' \in BOOLEAN /\ Go(t, "accepted", http[t].order)
      BY <1>0, <2>4 DEF Count, At, Typed
    <3>3. PICK n \in Nat : n = dailyCount
      BY <1>0 DEF Typed
    <3>4. dailyCount' \in Nat
      BY <2>4, <3>3 DEF Count
    <3> QED BY <3>1, <3>2, <3>4, TypeGo DEF Steps, Answered
  <2> QED
    BY <1>1, <2>1, <2>2, <2>3, <2>4, TypeReceive, TypeCreate, TypeRecord DEF Serve
<1>2. CASE Bell \/ UNCHANGED vars
  <2>1. UNCHANGED <<jobs, idem, idemHash, dailyCount, http>> /\ open' \in BOOLEAN
    BY <1>0, <1>2 DEF Bell, vars, Typed
  <2>2. Typed'
    BY <1>0, <2>1 DEF Typed
  <2> QED BY <2>1, <2>2 DEF TypeInv, TypeOK, TableKept, HandlersKept, Recorded, Created
<1> QED BY <1>1, <1>2 DEF Next

\* The strengthened type invariant is an invariant.
LEMMA TypeKept == Spec => []TypeInv
BY TypeInit, TypeStep, PTL DEF Spec

\* Every variable has its type, and a handler past the idempotency table
\* answers with an order that exists and belongs to the key it was asked for.
THEOREM TypeCorrect == Spec => []TypeOK
<1>1. TypeInv => TypeOK
  BY DEF TypeInv
<1> QED BY <1>1, TypeKept, PTL
-----------------------------------------------------------------------------
(* The daily counter and its limit. *)

\* Subsets of the threads are counted by natural numbers.
LEMMA ThreadsCount ==
  ASSUME NEW S \in SUBSET Threads
  PROVE  /\ IsFiniteSet(S) /\ Cardinality(S) \in Nat
         /\ Cardinality(S) <= Cardinality(Threads)
BY ThreadsAssumption, FS_Subset, FS_CardinalityType

\* A thread with an order not yet counted enters or leaves the uncounted alone.
LEMMA UncountedGo ==
  ASSUME Typed, NEW t \in Threads, NEW pc \in Steps, NEW o \in Orders \cup {NoOrder},
         Go(t, pc, o)
  PROVE  Uncounted' = IF pc \in {"record", "count"} THEN Uncounted \cup {t}
                      ELSE Uncounted \ {t}
<1>1. http'[t].pc = pc /\ \A u \in Threads \ {t} : http'[u] = http[u]
  BY GoMoves
<1> QED BY <1>1 DEF Uncounted

\* No step lets an order escape the counter.
LEMMA CountStep ==
  ASSUME TypeInv, EveryOrderCounted, [Next]_vars
  PROVE  EveryOrderCounted'
<1>0. Typed /\ dailyCount \in Nat /\ IsFiniteSet(Created) /\ Cardinality(Created) \in Nat
  BY FS_CardinalityType DEF TypeInv, TypeOK, Typed
<1>1. IsFiniteSet(Uncounted) /\ Cardinality(Uncounted) \in Nat
  BY ThreadsCount DEF Uncounted
<1>2. ASSUME UNCHANGED <<jobs, dailyCount>>, Uncounted' = Uncounted
      PROVE  EveryOrderCounted'
  BY <1>2 DEF EveryOrderCounted, Created
<1>3. ASSUME NEW t \in Threads, Serve(t) PROVE EveryOrderCounted'
  <2> USE DEF Steps, Answered, At
  <2>1. ASSUME NEW k \in Keys, NEW b \in Bodies, Receive(t, k, b) PROVE EveryOrderCounted'
    <3>1. /\ http'[t].pc = "decide"
          /\ \A u \in Threads \ {t} : http'[u].pc = http[u].pc
      BY <1>0, <2>1, ReceiveMoves
    <3>2. Uncounted' = Uncounted
      BY <2>1, <3>1 DEF Receive, Uncounted
    <3> QED BY <1>2, <2>1, <3>2 DEF Receive
  <2>2. ASSUME NEW pc \in {"lookup", "refused", "create", "dedup", "mismatch"},
               Go(t, pc, NoOrder), http[t].pc \in {"decide", "lookup"},
               UNCHANGED <<jobs, dailyCount>>
        PROVE  EveryOrderCounted'
    <3>1. Uncounted' = Uncounted \ {t}
      BY <1>0, <2>2, UncountedGo
    <3>2. t \notin Uncounted
      BY <2>2 DEF Uncounted
    <3> QED BY <1>2, <2>2, <3>1, <3>2
  <2>3. CASE Dedup(t)
    <3>1. PICK o \in Orders \cup {NoOrder} : Go(t, "count", o)
      BY <2>3 DEF Dedup, TypeInv, TypeOK, Typed, HandlersKept
    <3>2. Uncounted' = Uncounted \cup {t}
      BY <1>0, <3>1, UncountedGo
    <3>3. Cardinality(Uncounted') \in Nat /\ Cardinality(Uncounted') >= Cardinality(Uncounted)
      BY <1>1, <3>2, FS_AddElement
    <3> QED BY <1>0, <1>1, <2>3, <3>3 DEF Dedup, EveryOrderCounted, Created
  <2>4. ASSUME NEW o \in Orders, Create(t, o) PROVE EveryOrderCounted'
    <3>1. o \notin Created /\ Created' = Created \cup {o}
      BY <1>0, <2>4, CreateAdds DEF Create, TypeInv, HandlersKept
    <3>2. Uncounted' = Uncounted \cup {t} /\ t \notin Uncounted
      BY <1>0, <2>4, UncountedGo DEF Create, Uncounted
    <3>3. Cardinality(Created') = Cardinality(Created) + 1
      BY <1>0, <3>1, FS_AddElement
    <3>4. Cardinality(Uncounted') = Cardinality(Uncounted) + 1
      BY <1>1, <3>2, FS_AddElement
    <3> QED BY <1>0, <1>1, <2>4, <3>3, <3>4 DEF Create, EveryOrderCounted
  <2>5. CASE Record(t)
    <3>1. http[t].order \in Orders
      BY <2>5, RecordSets DEF Created
    <3>2. Uncounted' = Uncounted \cup {t} /\ t \in Uncounted
      BY <1>0, <2>5, <3>1, UncountedGo DEF Record, Uncounted
    <3> QED BY <1>2, <2>5, <3>2 DEF Record
  <2>6. CASE Count(t)
    <3>1. http[t].order \in Orders \cup {NoOrder}
      BY <1>0 DEF Typed
    <3>2. Uncounted' = Uncounted \ {t} /\ t \in Uncounted
      BY <1>0, <2>6, <3>1, UncountedGo DEF Count, Uncounted
    <3>3. Cardinality(Uncounted') = Cardinality(Uncounted) - 1
      BY <1>1, <3>2, FS_RemoveElement
    <3>4. Created' = Created /\ dailyCount' = dailyCount + 1
      BY <2>6 DEF Count, Created
    <3> QED BY <1>0, <1>1, <3>3, <3>4 DEF EveryOrderCounted
  <2> QED BY <1>3, <2>1, <2>2, <2>3, <2>4, <2>5, <2>6, ServeMoves DEF Lookup
<1>4. CASE Bell \/ UNCHANGED vars
  BY <1>2, <1>4 DEF Bell, vars, Uncounted
<1> QED BY <1>3, <1>4 DEF Next

\* No order has been created before the first request.
LEMMA CountInit == Init => EveryOrderCounted
<1> SUFFICES ASSUME Init PROVE EveryOrderCounted
  OBVIOUS
<1>1. Created = {} /\ dailyCount = 0
  BY DEF Init, Created
<1>2. Cardinality(Uncounted) \in Nat
  BY ThreadsCount DEF Uncounted
<1> QED BY <1>1, <1>2, FS_EmptySet DEF EveryOrderCounted

\* Every order that exists is in the daily counter, or in the hands of a
\* handler that is about to count it.
THEOREM Counted == Spec => []EveryOrderCounted
BY CountInit, CountStep, TypeKept, PTL DEF Spec

\* create_order accepts nothing once the counter it read has reached the limit,
\* the fallback for a missing position provider included: it sells nothing.
LEMMA AcceptedBelowLimit ==
  ASSUME NEW r, r.qty \in Int, NEW seen \in Nat, NEW answer, NEW bell, NEW again,
         OrderError(r, seen, answer, bell, again) = "none"
  PROVE  seen < DailyOrderLimit
<1> USE LimitsAssumption
<1>1. CASE RiskError(r, seen, answer, bell) = "none"
  <2>1. TradeError(r, seen, answer) = "none"
    BY <1>1 DEF RiskError
  <2> QED BY <2>1 DEF TradeError
<1>2. CASE r.side = "SELL" /\ RiskError(r, seen, answer, bell) = "POSITION_PROVIDER_UNAVAILABLE"
  <2>1. r.qty >= 1
    BY <1>2 DEF RiskError
  <2>2. SideError(r, 0) # "none"
    BY <1>2, <2>1, AbsentAssumption DEF SideError
  <2>3. TradeError(r, again, 0) # "none"
    BY <2>2 DEF TradeError
  <2>4. OrderError(r, seen, answer, bell, again) = TradeError(r, again, 0)
    BY <1>2 DEF OrderError
  <2> QED BY <2>3, <2>4
<1> QED BY <1>1, <1>2 DEF OrderError

\* A thread moves in or out of the admitted alone.
LEMMA AdmittedGo ==
  ASSUME Typed, NEW t \in Threads, NEW pc \in Steps, NEW o \in Orders \cup {NoOrder},
         Go(t, pc, o)
  PROVE  /\ Admitted' = IF pc \notin Answered /\ http[t].seen < DailyOrderLimit
                        THEN Admitted \cup {t} ELSE Admitted \ {t}
         /\ http'[t].pc = pc /\ \A u \in Threads \ {t} : http'[u] = http[u]
<1>1. /\ http'[t].pc = pc /\ http'[t].seen = http[t].seen
      /\ \A u \in Threads \ {t} : http'[u] = http[u]
  BY GoMoves DEF SameRequestOf
<1>2. \A u \in Threads \ {t} : u \in Admitted' <=> u \in Admitted
  BY <1>1 DEF Admitted
<1>3. t \in Admitted' <=> pc \notin Answered /\ http[t].seen < DailyOrderLimit
  BY <1>1 DEF Admitted
<1>4. Admitted \subseteq Threads /\ Admitted' \subseteq Threads
  BY DEF Admitted
<1> QED BY <1>1, <1>2, <1>3, <1>4

\* The bound on the counter and the admitted is inductive.
LEMMA LimitStep ==
  ASSUME TypeInv, LimitInv, [Next]_vars
  PROVE  LimitInv'
<1>0. Typed /\ dailyCount \in Nat
  BY DEF TypeInv, TypeOK, Typed
<1>1. /\ IsFiniteSet(Admitted) /\ Cardinality(Admitted) \in Nat
      /\ Cardinality(Admitted') \in Nat
      /\ Cardinality(Admitted') <= Cardinality(Threads)
      /\ Cardinality(Threads) \in Nat
      /\ Admitted \subseteq Threads
  <2>1. Admitted \in SUBSET Threads /\ Admitted' \in SUBSET Threads /\ Threads \in SUBSET Threads
    BY DEF Admitted
  <2> QED BY <2>1, ThreadsCount
<1>2. ASSUME UNCHANGED dailyCount, Admitted' = Admitted
      PROVE  dailyCount' + Cardinality(Admitted') < DailyOrderLimit + Cardinality(Threads)
  BY <1>2 DEF LimitInv
<1>3. ASSUME NEW t \in Threads, Serve(t) PROVE LimitInv'
  <2> USE DEF Steps, Answered, At, Passed
  <2>1. ASSUME NEW k \in Keys, NEW b \in Bodies, Receive(t, k, b) PROVE LimitInv'
    <3>1. /\ http'[t].pc = "decide" /\ http'[t].seen = dailyCount
          /\ \A u \in Threads \ {t} : http'[u].pc = http[u].pc /\ http'[u].seen = http[u].seen
      BY <1>0, <2>1, ReceiveMoves DEF SameRequestOf
    <3>2. dailyCount' = dailyCount /\ t \notin Admitted
      BY <2>1 DEF Receive, Admitted
    <3>3. \A u \in Threads \ {t} : u \in Admitted' <=> u \in Admitted
      BY <3>1 DEF Admitted
    <3>4. t \in Admitted' <=> dailyCount < DailyOrderLimit
      BY <3>1 DEF Admitted
    <3>5. dailyCount' + Cardinality(Admitted') < DailyOrderLimit + Cardinality(Threads)
      <4>1. CASE dailyCount < DailyOrderLimit
        BY <1>0, <1>1, <3>2, <4>1, LimitsAssumption
      <4>2. CASE ~(dailyCount < DailyOrderLimit)
        <5>1. Admitted' = Admitted
          BY <1>1, <3>2, <3>3, <3>4, <4>2 DEF Admitted
        <5> QED BY <1>2, <3>2, <5>1
      <4> QED BY <4>1, <4>2
    <3>6. \A u \in Threads : http'[u].pc \in Passed => u \in Admitted'
      BY <3>1, <3>3 DEF LimitInv
    <3> QED BY <3>5, <3>6 DEF LimitInv
  <2>2. ASSUME NEW pc \in Steps, NEW o \in Orders \cup {NoOrder}, Go(t, pc, o),
               dailyCount' = dailyCount,
               http[t].pc \notin Answered,
               http[t].pc = "decide" /\ pc \in Passed => http[t].seen < DailyOrderLimit
        PROVE  LimitInv'
    <3>1. /\ Admitted' = IF pc \notin Answered /\ http[t].seen < DailyOrderLimit
                        THEN Admitted \cup {t} ELSE Admitted \ {t}
          /\ http'[t].pc = pc /\ \A u \in Threads \ {t} : http'[u] = http[u]
      BY <1>0, <2>2, AdmittedGo
    <3>2. http[t].pc = "decide" \/ t \in Admitted
      BY <1>0, <2>2 DEF LimitInv, Typed
    <3>3. http[t].seen < DailyOrderLimit => t \in Admitted
      BY <2>2 DEF Admitted
    <3>4. t \in Admitted => http[t].seen < DailyOrderLimit
      BY DEF Admitted
    <3>5. pc \in Passed => t \in Admitted'
      BY <2>2, <3>1, <3>2, <3>4
    <3>6. \A u \in Threads : http'[u].pc \in Passed => u \in Admitted'
      BY <3>1, <3>5 DEF LimitInv
    <3>7. Admitted' = Admitted \/ Admitted' = Admitted \ {t}
      BY <3>1, <3>3
    <3>8. dailyCount' + Cardinality(Admitted') < DailyOrderLimit + Cardinality(Threads)
      <4>1. Cardinality(Admitted') <= Cardinality(Admitted)
        <5>1. Admitted' \in SUBSET Admitted
          BY <3>7
        <5> QED BY <1>1, <5>1, FS_Subset
      <4> QED BY <1>0, <1>1, <2>2, <4>1, LimitsAssumption DEF LimitInv
    <3> QED BY <3>6, <3>8 DEF LimitInv
  <2>3. ASSUME NEW a \in Positions, Decide(t, a) PROVE LimitInv'
    <3> DEFINE error == OrderError(http[t].body, http[t].seen, a, open, dailyCount)
    <3>1. /\ http[t].pc = "decide" /\ dailyCount' = dailyCount
          /\ Go(t, IF error = "none" THEN "lookup" ELSE "refused", NoOrder)
      BY <2>3 DEF Decide
    <3>2. http[t].body \in Bodies /\ http[t].seen \in Nat
      BY <1>0, <3>1 DEF TypeInv, HandlersKept, Typed
    <3>3. error = "none" => http[t].seen < DailyOrderLimit
      BY <3>2, BodiesAssumption, AcceptedBelowLimit
    <3> HIDE DEF error
    <3> QED BY <2>2, <3>1, <3>3
  <2>4. CASE Lookup(t)
    <3>1. PICK pc \in {"create", "dedup", "mismatch"} : Go(t, pc, NoOrder)
      BY <2>4 DEF Lookup
    <3> QED BY <2>2, <2>4, <3>1 DEF Lookup
  <2>5. CASE Dedup(t)
    <3>1. PICK o \in Orders \cup {NoOrder} : Go(t, "count", o)
      BY <2>5 DEF Dedup, TypeInv, TypeOK, Typed, HandlersKept
    <3> QED BY <2>2, <2>5, <3>1 DEF Dedup
  <2>6. ASSUME NEW o \in Orders, Create(t, o) PROVE LimitInv'
    BY <2>2, <2>6 DEF Create
  <2>7. CASE Record(t)
    <3>1. http[t].order \in Orders
      BY <2>7, RecordSets DEF Created
    <3> QED BY <2>2, <2>7, <3>1 DEF Record
  <2>8. CASE Count(t)
    <3>1. http[t].order \in Orders \cup {NoOrder}
      BY <1>0 DEF Typed
    <3>2. /\ Admitted' = Admitted \ {t}
          /\ http'[t].pc = "accepted" /\ \A u \in Threads \ {t} : http'[u] = http[u]
      BY <1>0, <2>8, <3>1, AdmittedGo DEF Count
    <3>3. t \in Admitted /\ dailyCount' = dailyCount + 1
      BY <2>8 DEF Count, LimitInv
    <3>4. Cardinality(Admitted') = Cardinality(Admitted) - 1
      BY <1>1, <3>2, <3>3, FS_RemoveElement
    <3>5. dailyCount' + Cardinality(Admitted') < DailyOrderLimit + Cardinality(Threads)
      BY <1>0, <1>1, <3>3, <3>4, LimitsAssumption DEF LimitInv
    <3>6. \A u \in Threads : http'[u].pc \in Passed => u \in Admitted'
      BY <3>2 DEF LimitInv
    <3> QED BY <3>5, <3>6 DEF LimitInv
  <2> QED BY <1>3, <2>1, <2>3, <2>4, <2>5, <2>6, <2>7, <2>8 DEF Serve
<1>4. CASE Bell \/ UNCHANGED vars
  BY <1>4 DEF Bell, vars, LimitInv, Admitted
<1> QED BY <1>3, <1>4 DEF Next

\* Before the first request nobody is admitted and the counter is at zero.
LEMMA LimitInit == Init => LimitInv
<1> SUFFICES ASSUME Init PROVE LimitInv
  OBVIOUS
<1>1. \A t \in Threads : http[t].pc = "free"
  BY DEF Init, Handler
<1>2. Admitted = {} /\ dailyCount = 0
  BY <1>1 DEF Init, Admitted, Answered
<1>3. Cardinality(Threads) \in Nat /\ Cardinality(Threads) # 0
  BY ThreadsAssumption, FS_CardinalityType, FS_EmptySet
<1>4. dailyCount + Cardinality(Admitted) < DailyOrderLimit + Cardinality(Threads)
  BY <1>2, <1>3, FS_EmptySet, LimitsAssumption
<1> QED BY <1>1, <1>4 DEF LimitInv, Passed

\* The daily limit of orders is overshot by less than the number of threads:
\* every order too many was admitted by a thread that read the counter before
\* another one bumped it.
THEOREM OvershootBounded == Spec => []LimitOvershootBounded
<1>1. TypeInv /\ LimitInv /\ EveryOrderCounted => LimitOvershootBounded
  <2> SUFFICES ASSUME TypeInv, LimitInv, EveryOrderCounted PROVE LimitOvershootBounded
    OBVIOUS
  <2>1. Uncounted \in SUBSET Admitted /\ Admitted \in SUBSET Threads
    BY DEF LimitInv, Uncounted, Passed, Admitted
  <2>2. Cardinality(Uncounted) <= Cardinality(Admitted)
    BY <2>1, ThreadsCount, FS_Subset
  <2>3. /\ Cardinality(Uncounted) \in Nat /\ Cardinality(Admitted) \in Nat
        /\ Cardinality(Threads) \in Nat /\ Cardinality(Created) \in Nat /\ dailyCount \in Nat
    BY <2>1, ThreadsCount, FS_CardinalityType DEF TypeInv, TypeOK, Typed
  <2> QED BY <2>2, <2>3, LimitsAssumption DEF LimitOvershootBounded, LimitInv, EveryOrderCounted
<1> QED BY <1>1, LimitInit, LimitStep, TypeKept, Counted, PTL DEF Spec
-----------------------------------------------------------------------------
(* Orders per idempotency key. *)

\* A thread moves in or out of the threads at a step of a key alone.
LEMMA ServingGo ==
  ASSUME Typed, NEW t \in Threads, NEW pc \in Steps, NEW o \in Orders \cup {NoOrder},
         Go(t, pc, o), NEW at, NEW k
  PROVE  /\ Serving(at, k)' = IF pc = at /\ http[t].key = k THEN Serving(at, k) \cup {t}
                              ELSE Serving(at, k) \ {t}
         /\ http'[t].order = o
         /\ \A u \in Threads \ {t} : http'[u] = http[u]
<1>1. /\ http'[t].pc = pc /\ http'[t].key = http[t].key /\ http'[t].order = o
      /\ \A u \in Threads \ {t} : http'[u] = http[u]
  BY GoMoves DEF SameRequestOf
<1>2. \A u \in Threads \ {t} : u \in Serving(at, k)' <=> u \in Serving(at, k)
  BY <1>1 DEF Serving
<1>3. t \in Serving(at, k)' <=> pc = at /\ http[t].key = k
  BY <1>1 DEF Serving
<1>4. Serving(at, k) \subseteq Threads /\ Serving(at, k)' \subseteq Threads
  BY DEF Serving
<1> QED BY <1>1, <1>2, <1>3, <1>4

\* The sets counted are finite.
LEMMA KeyCounts ==
  ASSUME TypeInv, NEW k
  PROVE  /\ IsFiniteSet(OrdersOf(k)) /\ Cardinality(OrdersOf(k)) \in Nat
         /\ Cardinality(Threads) \in Nat
         /\ \A at : /\ IsFiniteSet(Serving(at, k)) /\ Cardinality(Serving(at, k)) \in Nat
                    /\ Serving(at, k) \in SUBSET Threads
<1>1. OrdersOf(k) \in SUBSET Created
  BY DEF OrdersOf
<1>2. \A at : Serving(at, k) \in SUBSET Threads
  BY DEF Serving
<1>3. Threads \in SUBSET Threads
  OBVIOUS
<1> QED BY <1>1, <1>2, <1>3, ThreadsCount, FS_Subset, FS_CardinalityType DEF TypeInv

\* Of a key that is not recorded there are at most as many orders as threads
\* about to record one.
LEMMA UnrecordedOrders ==
  ASSUME TypeInv, NEW k \in Keys, KeyInvAt(k), ~Recorded(k)
  PROVE  Cardinality(OrdersOf(k)) <= Cardinality(Serving("record", k))
<1> DEFINE f == [u \in Serving("record", k) |-> http[u].order]
<1>1. \A u \in Serving("record", k) : http[u].order \in OrdersOf(k)
  BY DEF Serving, OrdersOf, TypeInv, TypeOK
<1>2. f \in [Serving("record", k) -> OrdersOf(k)]
  BY <1>1
<1>3. \A o \in OrdersOf(k) : \E u \in Serving("record", k) : f[u] = o
  BY DEF KeyInvAt
<1>4. f \in Surjection(Serving("record", k), OrdersOf(k))
  BY <1>2, <1>3 DEF Surjection
<1> HIDE DEF f
<1> QED BY <1>4, KeyCounts, FS_Surjection

\* A thread that is not about to record and moves to neither creation nor
\* recording keeps the bound.
LEMMA KeyGo ==
  ASSUME TypeInv, NEW k \in Keys, KeyInvAt(k), NEW t \in Threads, NEW pc \in Steps,
         NEW o \in Orders \cup {NoOrder}, Go(t, pc, o),
         http[t].pc # "record", pc \notin {"create", "record"}, UNCHANGED <<jobs, idem>>
  PROVE  KeyInvAt(k)'
<1>0. Typed
  BY DEF TypeInv, TypeOK
<1>1. /\ Serving("create", k)' = Serving("create", k) \ {t}
      /\ Serving("record", k)' = Serving("record", k) \ {t}
      /\ \A u \in Threads \ {t} : http'[u] = http[u]
  BY <1>0, ServingGo
<1>2. t \notin Serving("record", k)
  BY DEF Serving
<1>3. OrdersOf(k)' = OrdersOf(k) /\ (Recorded(k)' <=> Recorded(k))
  BY DEF OrdersOf, Created, Recorded
<1>4. Serving("create", k)' \in SUBSET Serving("create", k)
  BY <1>1
<1>5. /\ Cardinality(Serving("create", k)') \in Nat
      /\ Cardinality(Serving("create", k)') <= Cardinality(Serving("create", k))
  BY <1>4, KeyCounts, FS_Subset, FS_CardinalityType
<1>6. Cardinality(OrdersOf(k)') + Cardinality(Serving("create", k)') <= Cardinality(Threads)
  BY <1>3, <1>5, KeyCounts DEF KeyInvAt
<1>7. ASSUME ~Recorded(k)' , NEW x \in OrdersOf(k)'
      PROVE  \E u \in Serving("record", k)' : http'[u].order = x
  <2>1. PICK u \in Serving("record", k) : http[u].order = x
    BY <1>3, <1>7 DEF KeyInvAt
  <2> QED BY <1>1, <1>2, <2>1 DEF Serving
<1> QED BY <1>6, <1>7 DEF KeyInvAt

\* A thread found its key unrecorded: it joins the threads about to create.
LEMMA KeyMiss ==
  ASSUME TypeInv, NEW k \in Keys, KeyInvAt(k), NEW t \in Threads,
         Go(t, "create", NoOrder), http[t].pc = "lookup", ~Recorded(http[t].key),
         UNCHANGED <<jobs, idem>>
  PROVE  KeyInvAt(k)'
<1>0. Typed
  BY DEF TypeInv, TypeOK
<1>1. /\ Serving("create", k)' = IF http[t].key = k THEN Serving("create", k) \cup {t}
                                 ELSE Serving("create", k) \ {t}
      /\ Serving("record", k)' = Serving("record", k) \ {t}
      /\ \A u \in Threads \ {t} : http'[u] = http[u]
  BY <1>0, ServingGo DEF Steps
<1>2. t \notin Serving("record", k) /\ t \notin Serving("create", k)
  BY DEF Serving
<1>3. OrdersOf(k)' = OrdersOf(k) /\ (Recorded(k)' <=> Recorded(k))
  BY DEF OrdersOf, Created, Recorded
<1>4. Cardinality(OrdersOf(k)') + Cardinality(Serving("create", k)') <= Cardinality(Threads)
  <2>1. CASE http[t].key # k
    <3>1. Serving("create", k)' = Serving("create", k)
      BY <1>1, <1>2, <2>1
    <3> QED BY <1>3, <3>1 DEF KeyInvAt
  <2>2. CASE http[t].key = k
    <3> DEFINE R == Serving("record", k)
               C == Serving("create", k) \cup {t}
    <3>1. Serving("create", k)' = C
      BY <1>1, <2>2
    <3>2. Cardinality(OrdersOf(k)) <= Cardinality(R)
      BY <2>2, UnrecordedOrders
    <3>3. R \cap C = {}
      BY <1>2 DEF Serving
    <3>4. R \in SUBSET Threads /\ C \in SUBSET Threads /\ R \cup C \in SUBSET Threads
      BY DEF Serving
    <3>5. Cardinality(R \cup C) = Cardinality(R) + Cardinality(C)
      <4>1. Cardinality(R \cup C) = Cardinality(R) + Cardinality(C) - Cardinality(R \cap C)
        BY <3>4, ThreadsCount, FS_Union
      <4> QED BY <3>3, <3>4, <4>1, ThreadsCount, FS_EmptySet
    <3>6. Cardinality(R \cup C) <= Cardinality(Threads)
      BY <3>4, ThreadsCount
    <3>7. Cardinality(R) \in Nat /\ Cardinality(C) \in Nat
      BY <3>4, ThreadsCount
    <3> HIDE DEF R, C
    <3> QED BY <1>3, <3>1, <3>2, <3>5, <3>6, <3>7, KeyCounts
  <2> QED BY <2>1, <2>2
<1>5. ASSUME ~Recorded(k)' , NEW x \in OrdersOf(k)'
      PROVE  \E u \in Serving("record", k)' : http'[u].order = x
  <2>1. PICK u \in Serving("record", k) : http[u].order = x
    BY <1>3, <1>5 DEF KeyInvAt
  <2> QED BY <1>1, <1>2, <2>1 DEF Serving
<1> QED BY <1>4, <1>5 DEF KeyInvAt

\* A thread creates an order: one creator less, one order more, about to be
\* recorded.
LEMMA KeyCreate ==
  ASSUME TypeInv, NEW k \in Keys, KeyInvAt(k), NEW t \in Threads, NEW o \in Orders,
         Create(t, o)
  PROVE  KeyInvAt(k)'
<1>0. Typed /\ http[t].pc = "create" /\ http[t].key \in Keys /\ Go(t, "record", o)
  BY DEF TypeInv, TypeOK, HandlersKept, Create, At
<1>1. /\ Serving("create", k)' = Serving("create", k) \ {t}
      /\ Serving("record", k)' = IF http[t].key = k THEN Serving("record", k) \cup {t}
                                 ELSE Serving("record", k) \ {t}
      /\ http'[t].order = o
      /\ \A u \in Threads \ {t} : http'[u] = http[u]
  <2>1. "record" \in Steps /\ o \in Orders \cup {NoOrder}
    BY DEF Steps
  <2>2. Serving("create", k)' = Serving("create", k) \ {t}
    BY <1>0, <2>1, ServingGo
  <2>3. /\ Serving("record", k)' = IF http[t].key = k THEN Serving("record", k) \cup {t}
                                   ELSE Serving("record", k) \ {t}
        /\ http'[t].order = o
        /\ \A u \in Threads \ {t} : http'[u] = http[u]
    BY <1>0, <2>1, ServingGo
  <2> QED BY <2>2, <2>3
<1>2. /\ t \notin Serving("record", k)
      /\ t \in Serving("create", k) <=> http[t].key = k
  BY <1>0 DEF Serving
<1>3. /\ o \notin Created /\ Created' = Created \cup {o}
      /\ jobs'[o].key = http[t].key
      /\ \A x \in Orders \ {o} : jobs'[x] = jobs[x]
  BY <1>0, CreateAdds
<1>4. OrdersOf(k)' = IF http[t].key = k THEN OrdersOf(k) \cup {o} ELSE OrdersOf(k)
  BY <1>3 DEF OrdersOf, Created
<1>5. o \notin OrdersOf(k)
  BY <1>3 DEF OrdersOf
<1>6. Cardinality(OrdersOf(k)') + Cardinality(Serving("create", k)') <= Cardinality(Threads)
  <2>1. CASE http[t].key # k
    <3>1. Serving("create", k)' = Serving("create", k)
      BY <1>1, <1>2, <2>1
    <3> QED BY <1>4, <2>1, <3>1 DEF KeyInvAt
  <2>2. CASE http[t].key = k
    <3>1. Cardinality(OrdersOf(k)') = Cardinality(OrdersOf(k)) + 1
      BY <1>4, <1>5, <2>2, KeyCounts, FS_AddElement
    <3>2. Cardinality(Serving("create", k)') = Cardinality(Serving("create", k)) - 1
      <4>1. IsFiniteSet(Serving("create", k)) /\ t \in Serving("create", k)
        BY <1>2, <2>2, KeyCounts
      <4>2. Cardinality(Serving("create", k) \ {t}) = Cardinality(Serving("create", k)) - 1
        BY <4>1, FS_RemoveElement
      <4> QED BY <1>1, <4>2
    <3> QED BY <3>1, <3>2, KeyCounts DEF KeyInvAt
  <2> QED BY <2>1, <2>2
<1>7. Recorded(k)' <=> Recorded(k)
  BY DEF Create, Recorded
<1>8. ASSUME ~Recorded(k)' , NEW x \in OrdersOf(k)'
      PROVE  \E u \in Serving("record", k)' : http'[u].order = x
  <2>1. CASE x \in OrdersOf(k)
    <3>1. PICK u \in Serving("record", k) : http[u].order = x
      BY <1>7, <1>8, <2>1 DEF KeyInvAt
    <3> QED BY <1>1, <1>2, <3>1 DEF Serving
  <2>2. CASE x \notin OrdersOf(k)
    <3>1. x = o /\ http[t].key = k
      BY <1>4, <1>8, <2>2
    <3> QED BY <1>1, <3>1
  <2> QED BY <2>1, <2>2
<1> QED BY <1>6, <1>8 DEF KeyInvAt

\* Recording a key leaves its orders and their creators alone.
LEMMA KeyRecord ==
  ASSUME TypeInv, NEW k \in Keys, KeyInvAt(k), NEW t \in Threads, Record(t)
  PROVE  KeyInvAt(k)'
<1>0. /\ Typed /\ http[t].pc = "record" /\ http[t].order \in Orders
      /\ \E o \in Orders : Go(t, "count", o)
      /\ jobs' = jobs
  BY RecordSets DEF TypeInv, TypeOK, Record, At, Created
<1>1. /\ Serving("create", k)' = Serving("create", k) \ {t}
      /\ Serving("record", k)' = Serving("record", k) \ {t}
      /\ \A u \in Threads \ {t} : http'[u] = http[u]
  <2>1. PICK o \in Orders : Go(t, "count", o)
    BY <1>0
  <2>2. "count" \in Steps
    BY DEF Steps
  <2> QED BY <1>0, <2>1, <2>2, ServingGo
<1>2. t \notin Serving("create", k)
  BY <1>0 DEF Serving
<1>3. OrdersOf(k)' = OrdersOf(k)
  BY <1>0 DEF OrdersOf, Created
<1>4. Cardinality(OrdersOf(k)') + Cardinality(Serving("create", k)') <= Cardinality(Threads)
  <2>1. Serving("create", k)' = Serving("create", k)
    BY <1>1, <1>2
  <2> QED BY <1>3, <2>1 DEF KeyInvAt
<1>5. Recorded(k)' <=> Recorded(k) \/ k = http[t].key
  BY RecordSets
<1>6. ASSUME ~Recorded(k)' , NEW x \in OrdersOf(k)'
      PROVE  \E u \in Serving("record", k)' : http'[u].order = x
  <2>1. PICK u \in Serving("record", k) : http[u].order = x
    BY <1>3, <1>5, <1>6 DEF KeyInvAt
  <2>2. u # t
    BY <1>5, <1>6, <2>1 DEF Serving
  <2> QED BY <1>1, <2>1, <2>2 DEF Serving
<1> QED BY <1>4, <1>6 DEF KeyInvAt

\* A new request neither creates nor records.
LEMMA KeyReceive ==
  ASSUME TypeInv, NEW k \in Keys, KeyInvAt(k), NEW t \in Threads,
         NEW x \in Keys, NEW b \in Bodies, Receive(t, x, b)
  PROVE  KeyInvAt(k)'
<1>1. /\ http'[t].pc = "decide"
      /\ \A u \in Threads \ {t} : /\ http'[u].pc = http[u].pc /\ http'[u].key = http[u].key
                                  /\ http'[u].order = http[u].order
  BY ReceiveMoves DEF TypeInv, TypeOK, SameRequestOf
<1>2. http[t].pc \in Answered /\ UNCHANGED <<jobs, idem>>
  BY DEF Receive
<1>3. \A at \in {"create", "record"} : t \notin Serving(at, k) /\ t \notin Serving(at, k)'
  BY <1>1, <1>2 DEF Serving, Answered
<1>4. /\ Serving("create", k)' = Serving("create", k)
      /\ Serving("record", k)' = Serving("record", k)
  BY <1>1, <1>3 DEF Serving
<1>5. OrdersOf(k)' = OrdersOf(k) /\ (Recorded(k)' <=> Recorded(k))
  BY <1>2 DEF OrdersOf, Created, Recorded
<1>6. \A u \in Serving("record", k) : http'[u].order = http[u].order
  BY <1>1, <1>3 DEF Serving
<1> QED BY <1>4, <1>5, <1>6 DEF KeyInvAt

\* The bound on the orders of a key is inductive.
LEMMA KeyStep ==
  ASSUME TypeInv, KeyInv, [Next]_vars
  PROVE  KeyInv'
<1> SUFFICES ASSUME NEW k \in Keys PROVE KeyInvAt(k)'
  BY DEF KeyInv
<1>0. Typed /\ KeyInvAt(k)
  BY DEF TypeInv, TypeOK, KeyInv
<1>1. ASSUME NEW t \in Threads, Serve(t) PROVE KeyInvAt(k)'
  <2>1. CASE /\ http[t].pc = "decide" /\ UNCHANGED <<jobs, idem, idemHash, dailyCount>>
             /\ \E pc \in {"lookup", "refused"} : Go(t, pc, NoOrder)
    BY <1>0, <2>1, KeyGo DEF Steps, Answered
  <2>2. CASE Lookup(t)
    <3>1. PICK pc \in {"create", "dedup", "mismatch"} :
            /\ Go(t, pc, NoOrder)
            /\ pc = "create" => ~Recorded(http[t].key)
      BY <2>2 DEF Lookup
    <3>2. http[t].pc = "lookup" /\ UNCHANGED <<jobs, idem>>
      BY <2>2 DEF Lookup, At
    <3>3. CASE pc = "create"
      BY <1>0, <3>1, <3>2, <3>3, KeyMiss
    <3>4. CASE pc # "create"
      BY <1>0, <3>1, <3>2, <3>4, KeyGo DEF Steps, Answered
    <3> QED BY <3>3, <3>4
  <2>3. CASE Dedup(t)
    <3>1. PICK o \in Orders \cup {NoOrder} : Go(t, "count", o)
      BY <1>0, <2>3 DEF Dedup, At, TypeInv, HandlersKept, Typed
    <3> QED BY <1>0, <2>3, <3>1, KeyGo DEF Dedup, At, Steps
  <2>4. CASE Count(t)
    <3>1. http[t].order \in Orders \cup {NoOrder}
      BY <1>0 DEF Typed
    <3> QED BY <1>0, <2>4, <3>1, KeyGo DEF Count, At, Steps, Answered
  <2> QED
    BY <1>0, <1>1, <2>1, <2>2, <2>3, <2>4, ServeMoves, KeyReceive, KeyCreate, KeyRecord
<1>2. CASE Bell \/ UNCHANGED vars
  BY <1>0, <1>2 DEF Bell, vars, KeyInvAt, OrdersOf, Created, Serving, Recorded
<1> QED BY <1>1, <1>2 DEF Next

\* Without orders and requests the bound holds.
LEMMA KeyInit == Init => KeyInv
<1> SUFFICES ASSUME Init, NEW k \in Keys PROVE KeyInvAt(k)
  BY DEF KeyInv
<1>1. OrdersOf(k) = {}
  BY DEF Init, OrdersOf, Created
<1>2. Serving("create", k) = {}
  BY DEF Init, Serving, Handler
<1>3. Cardinality(Threads) \in Nat
  BY ThreadsAssumption, FS_CardinalityType
<1> QED BY <1>1, <1>2, <1>3, FS_EmptySet DEF KeyInvAt

\* A key has at most as many orders as the server has threads, however often
\* its request is repeated: duplicates need an overlap, and once the key is
\* recorded there are only those whose lookup came before.
THEOREM KeyOrdersBounded == Spec => []OrdersPerKeyBounded
<1>1. TypeInv /\ KeyInv => OrdersPerKeyBounded
  <2> SUFFICES ASSUME TypeInv, KeyInv, NEW k \in Keys
               PROVE  Cardinality(OrdersOf(k)) <= Cardinality(Threads)
    BY DEF OrdersPerKeyBounded
  <2>1. KeyInvAt(k)
    BY DEF KeyInv
  <2> QED BY <2>1, KeyCounts DEF KeyInvAt
<1> QED BY <1>1, KeyInit, KeyStep, TypeKept, PTL DEF Spec
-----------------------------------------------------------------------------
(* The body an idempotency key answers with. *)

\* A thread that continues its request overlaps with the same threads.
LEMMA OverlapsGo ==
  ASSUME Typed, OverlapsMet, NEW t \in Threads, NEW pc \in Steps,
         NEW o \in Orders \cup {NoOrder}, Go(t, pc, o), InFlight(t)
  PROVE  OverlapsMet'
<1>1. /\ http'[t].key = http[t].key /\ http'[t].met = http[t].met
      /\ \A u \in Threads \ {t} : http'[u] = http[u]
  BY GoMoves DEF SameRequestOf
<1>2. ASSUME NEW u \in Threads, NEW v \in Threads, u # v, http'[u].pc \notin Answered,
             http'[v].pc \notin Answered, http'[u].key = http'[v].key
      PROVE  http'[u].met
  <2>1. InFlight(u) /\ InFlight(v)
    BY <1>1, <1>2 DEF InFlight
  <2>2. http'[u].key = http[u].key /\ http'[v].key = http[v].key /\ http'[u].met = http[u].met
    BY <1>1
  <2> QED BY <1>2, <2>1, <2>2 DEF OverlapsMet
<1> QED BY <1>2 DEF OverlapsMet, InFlight

\* A new request meets those in flight with its key, and they meet it.
LEMMA OverlapsReceive ==
  ASSUME Typed, OverlapsMet, NEW t \in Threads, NEW k \in Keys, NEW b \in Bodies,
         Receive(t, k, b)
  PROVE  OverlapsMet'
<1>1. /\ http'[t].key = k
      /\ \A u \in Threads \ {t} : InFlight(u) /\ http[u].key = k => http'[t].met /\ http'[u].met
      /\ \A u \in Threads \ {t} :
           /\ http'[u].key = http[u].key /\ http'[u].pc = http[u].pc
           /\ http[u].met => http'[u].met
  BY ReceiveMoves DEF SameRequestOf
<1>2. ASSUME NEW u \in Threads, NEW v \in Threads, u # v, http'[u].pc \notin Answered,
             http'[v].pc \notin Answered, http'[u].key = http'[v].key
      PROVE  http'[u].met
  <2>1. CASE u = t
    BY <1>1, <1>2, <2>1 DEF InFlight
  <2>2. CASE v = t
    BY <1>1, <1>2, <2>2 DEF InFlight
  <2>3. CASE u # t /\ v # t
    BY <1>1, <1>2, <2>3 DEF InFlight, OverlapsMet
  <2> QED BY <2>1, <2>2, <2>3
<1> QED BY <1>2 DEF OverlapsMet, InFlight

\* A thread that moves on without touching job table and keys.
LEMMA BodyGo ==
  ASSUME TypeInv, BodyInv, NEW t \in Threads, NEW pc \in Steps,
         NEW o \in Orders \cup {NoOrder}, Go(t, pc, o), InFlight(t),
         UNCHANGED <<jobs, idem, idemHash>>, pc # "record",
         pc = "dedup" /\ ~http[t].met => jobs[idem[http[t].key]].body = http[t].body,
         pc \in {"count", "accepted"} /\ ~http[t].met => jobs[o].body = http[t].body
  PROVE  BodyInv'
<1>0. Typed
  BY DEF TypeInv, TypeOK
<1>1. /\ http'[t].pc = pc /\ http'[t].order = o /\ http'[t].met = http[t].met
      /\ http'[t].key = http[t].key /\ http'[t].body = http[t].body
      /\ \A u \in Threads \ {t} : http'[u] = http[u]
  BY <1>0, GoMoves DEF SameRequestOf
<1>2. OverlapsMet'
  BY <1>0, OverlapsGo DEF BodyInv
<1>3. TableBody'
  BY DEF BodyInv, TableBody, Recorded
<1>4. ASSUME NEW u \in Threads PROVE OwnBody(u)'
  <2>1. CASE u = t BY <1>1, <2>1 DEF OwnBody
  <2>2. CASE u # t BY <1>1, <2>2 DEF BodyInv, OwnBody
  <2> QED BY <2>1, <2>2
<1> QED BY <1>2, <1>3, <1>4 DEF BodyInv

\* A new request has nothing in hand.
LEMMA BodyReceive ==
  ASSUME TypeInv, BodyInv, NEW t \in Threads, NEW k \in Keys, NEW b \in Bodies,
         Receive(t, k, b)
  PROVE  BodyInv'
<1>0. Typed
  BY DEF TypeInv, TypeOK
<1>1. /\ http'[t].pc = "decide"
      /\ \A u \in Threads \ {t} :
           /\ http'[u].key = http[u].key /\ http'[u].body = http[u].body
           /\ http'[u].pc = http[u].pc /\ http'[u].order = http[u].order
           /\ http[u].met => http'[u].met
  BY <1>0, ReceiveMoves DEF SameRequestOf
<1>2. UNCHANGED <<jobs, idem, idemHash>>
  BY DEF Receive
<1>3. OverlapsMet'
  BY <1>0, OverlapsReceive DEF BodyInv
<1>4. TableBody'
  BY <1>2 DEF BodyInv, TableBody, Recorded
<1>5. ASSUME NEW u \in Threads PROVE OwnBody(u)'
  <2>1. CASE u = t BY <1>1, <2>1 DEF OwnBody
  <2>2. CASE u # t
    <3>1. OwnBody(u)
      BY DEF BodyInv
    <3> QED BY <1>1, <1>2, <2>2, <3>1 DEF OwnBody
  <2> QED BY <2>1, <2>2
<1> QED BY <1>3, <1>4, <1>5 DEF BodyInv

\* A new order has the body of its request, and the orders in other hands stay.
LEMMA BodyCreate ==
  ASSUME TypeInv, BodyInv, NEW t \in Threads, NEW o \in Orders, Create(t, o)
  PROVE  BodyInv'
<1>0. /\ Typed /\ http[t].pc = "create" /\ http[t].key \in Keys /\ Go(t, "record", o)
      /\ UNCHANGED <<idem, idemHash>>
  BY DEF TypeInv, TypeOK, HandlersKept, Create, At
<1>1. /\ http'[t].pc = "record" /\ http'[t].order = o /\ http'[t].body = http[t].body
      /\ \A u \in Threads \ {t} : http'[u] = http[u]
  BY <1>0, GoMoves DEF SameRequestOf, Steps
<1>2. /\ jobs'[o].body = http[t].body
      /\ \A x \in Created : jobs'[x] = jobs[x]
  BY <1>0, CreateAdds DEF Created
<1>3. OverlapsMet'
  BY <1>0, OverlapsGo DEF BodyInv, InFlight, Steps, Answered
<1>4. TableBody'
  BY <1>0, <1>2 DEF BodyInv, TableBody, Recorded, TypeInv, TableKept
<1>5. ASSUME NEW u \in Threads PROVE OwnBody(u)'
  <2>1. CASE u = t BY <1>1, <1>2, <2>1 DEF OwnBody
  <2>2. CASE u # t
    <3>1. OwnBody(u)
      BY DEF BodyInv
    <3>2. http[u].pc \in {"record", "count", "accepted"} => http[u].order \in Created
      BY DEF TypeInv, TypeOK
    <3>3. http[u].pc = "dedup" => idem[http[u].key] \in Created
      BY DEF TypeInv, HandlersKept, TableKept
    <3> QED BY <1>0, <1>1, <1>2, <2>2, <3>1, <3>2, <3>3 DEF OwnBody
  <2> QED BY <2>1, <2>2
<1> QED BY <1>3, <1>4, <1>5 DEF BodyInv

\* Recording a key changes the order it names only under requests of that key,
\* which have met the one that records.
LEMMA BodyRecord ==
  ASSUME TypeInv, BodyInv, NEW t \in Threads, Record(t)
  PROVE  BodyInv'
<1>0. /\ Typed /\ http[t].pc = "record" /\ http[t].order \in Orders
      /\ Go(t, "count", http[t].order) /\ jobs' = jobs
  BY RecordSets DEF TypeInv, TypeOK, Record, At, Created
<1>1. /\ http[t].key \in Keys
      /\ idem'[http[t].key] = http[t].order
      /\ idemHash'[http[t].key] = http[t].body
      /\ \A k \in Keys \ {http[t].key} : idem'[k] = idem[k] /\ idemHash'[k] = idemHash[k]
      /\ \A k \in Keys : Recorded(k)' <=> Recorded(k) \/ k = http[t].key
  BY RecordSets
<1>2. /\ http'[t].pc = "count" /\ http'[t].order = http[t].order
      /\ http'[t].body = http[t].body
      /\ \A u \in Threads \ {t} : http'[u] = http[u]
  <2>1. PICK o \in Orders : o = http[t].order
    BY <1>0
  <2>2. "count" \in Steps
    BY DEF Steps
  <2> QED BY <1>0, <2>1, <2>2, GoMoves DEF SameRequestOf
<1>3. jobs[http[t].order].body = http[t].body
  BY <1>0 DEF BodyInv, OwnBody
<1>4. OverlapsMet'
  <2>1. PICK o \in Orders : o = http[t].order
    BY <1>0
  <2>2. "count" \in Steps /\ InFlight(t)
    BY <1>0 DEF Steps, InFlight, Answered
  <2> QED BY <1>0, <2>1, <2>2, OverlapsGo DEF BodyInv
<1>5. TableBody'
  <2>1. ASSUME NEW k \in Keys, Recorded(k)' PROVE jobs'[idem'[k]].body = idemHash'[k]
    <3>1. CASE k = http[t].key BY <1>0, <1>1, <1>3, <3>1
    <3>2. CASE k # http[t].key BY <1>0, <1>1, <2>1, <3>2 DEF BodyInv, TableBody
    <3> QED BY <3>1, <3>2
  <2> QED BY <2>1 DEF TableBody
<1>6. ASSUME NEW u \in Threads PROVE OwnBody(u)'
  <2>0. OwnBody(u)
    BY DEF BodyInv
  <2>1. CASE u = t BY <1>0, <1>2, <1>3, <2>1 DEF OwnBody
  <2>2. CASE u # t
    <3>1. http'[u] = http[u]
      BY <1>2, <2>2
    <3>2. http[u].pc = "dedup" /\ ~http[u].met =>
            http[u].key \in Keys /\ http[u].key # http[t].key
      BY <1>0, <2>2 DEF BodyInv, OverlapsMet, InFlight, Answered, TypeInv, HandlersKept
    <3>3. http[u].pc = "dedup" /\ ~http[u].met => idem'[http[u].key] = idem[http[u].key]
      BY <1>1, <3>2
    <3> QED BY <1>0, <2>0, <3>1, <3>3 DEF OwnBody
  <2> QED BY <2>1, <2>2
<1> QED BY <1>4, <1>5, <1>6 DEF BodyInv

\* The invariant about bodies is inductive.
LEMMA BodyStep ==
  ASSUME TypeInv, BodyInv, [Next]_vars
  PROVE  BodyInv'
<1>0. Typed
  BY DEF TypeInv, TypeOK
<1>1. ASSUME NEW t \in Threads, Serve(t) PROVE BodyInv'
  <2>1. CASE /\ http[t].pc = "decide" /\ UNCHANGED <<jobs, idem, idemHash, dailyCount>>
             /\ \E pc \in {"lookup", "refused"} : Go(t, pc, NoOrder)
    BY <2>1, BodyGo DEF Steps, Answered, InFlight
  <2>2. CASE Lookup(t)
    <3>1. PICK pc \in {"create", "dedup", "mismatch"} :
            /\ Go(t, pc, NoOrder)
            /\ pc = "dedup" => Recorded(http[t].key) /\ idemHash[http[t].key] = http[t].body
      BY <2>2 DEF Lookup, SameRequest
    <3>2. http[t].pc = "lookup" /\ UNCHANGED <<jobs, idem, idemHash>> /\ http[t].key \in Keys
      BY <2>2 DEF Lookup, At, TypeInv, HandlersKept
    <3>3. pc = "dedup" => jobs[idem[http[t].key]].body = http[t].body
      BY <3>1, <3>2 DEF BodyInv, TableBody
    <3> QED BY <3>1, <3>2, <3>3, BodyGo DEF Steps, Answered, InFlight
  <2>3. CASE Dedup(t)
    <3>1. PICK o \in Orders \cup {NoOrder} : o = idem[http[t].key]
      BY <1>0, <2>3 DEF Dedup, At, TypeInv, HandlersKept, Typed
    <3>2. /\ Go(t, "count", o) /\ UNCHANGED <<jobs, idem, idemHash>>
          /\ http[t].pc = "dedup"
      BY <2>3, <3>1 DEF Dedup, At
    <3>3. ~http[t].met => jobs[o].body = http[t].body
      BY <3>1, <3>2 DEF BodyInv, OwnBody
    <3>4. "count" \in Steps /\ InFlight(t)
      BY <3>2 DEF Steps, InFlight, Answered
    <3> QED BY <3>2, <3>3, <3>4, BodyGo
  <2>4. CASE Count(t)
    <3>1. PICK o \in Orders \cup {NoOrder} : o = http[t].order
      BY <1>0 DEF Typed
    <3>2. /\ Go(t, "accepted", o) /\ UNCHANGED <<jobs, idem, idemHash>>
          /\ http[t].pc = "count"
      BY <2>4, <3>1 DEF Count, At
    <3>3. ~http[t].met => jobs[o].body = http[t].body
      BY <3>1, <3>2 DEF BodyInv, OwnBody
    <3>4. "accepted" \in Steps /\ InFlight(t)
      BY <3>2 DEF Steps, InFlight, Answered
    <3> QED BY <3>2, <3>3, <3>4, BodyGo
  <2> QED
    BY <1>1, <2>1, <2>2, <2>3, <2>4, ServeMoves, BodyReceive, BodyCreate, BodyRecord
<1>2. CASE Bell \/ UNCHANGED vars
  BY <1>2 DEF Bell, vars, BodyInv, OverlapsMet, TableBody, OwnBody, Recorded, InFlight
<1> QED BY <1>1, <1>2 DEF Next

\* Before the first request there is no body to mistake.
LEMMA BodyInit == Init => BodyInv
<1> SUFFICES ASSUME Init PROVE BodyInv
  OBVIOUS
<1>1. \A t \in Threads : http[t].pc = "free"
  BY DEF Init, Handler
<1>2. \A k \in Keys : ~Recorded(k)
  BY DEF Init, Recorded
<1> QED BY <1>1, <1>2 DEF BodyInv, OverlapsMet, TableBody, OwnBody, InFlight, Answered

\* A request that met no other request of its key is answered with an order of
\* its own body, or refused: never with an order placed for something else.
THEOREM AloneServed == Spec => []AloneAnswersOwnBody
<1>1. BodyInv => AloneAnswersOwnBody
  BY DEF BodyInv, OwnBody, AloneAnswersOwnBody
<1> QED BY <1>1, BodyInit, BodyStep, TypeKept, PTL DEF Spec
-----------------------------------------------------------------------------
(* The policy, for every request, limit, cap, price and quantity. *)

\* What the handler has read is of the right kind.
Inputs ==
  /\ req \in Requests
  /\ count \in Nat
  /\ recount \in Nat
  /\ available \in {NoProvider, Unavailable} \cup Holdings
  /\ window \in BOOLEAN

\* They stay so while another order is counted.
LEMMA InputsTyped == PolicySpec => []Inputs
<1>1. PolicyInit => Inputs
  BY LimitsAssumption DEF PolicyInit, Inputs
<1>2. Inputs /\ [PolicyNext]_inputs => Inputs'
  BY DEF Inputs, PolicyNext, CountOther, inputs
<1> QED
  BY <1>1, <1>2, PTL DEF PolicySpec

\* On such inputs the decision is exact: a case split on the side and on what
\* the position provider answered.
LEMMA PolicyExact == Inputs => PassesExactlyWhenSafe
<1> SUFFICES ASSUME Inputs, ContractError(req) = "none"
             PROVE  Verdict = "none"
                      <=> /\ LiveEnabled /\ window /\ count < DailyOrderLimit
                          /\ req.qty >= 1
                          /\ req.price # NoPrice => req.price > 0
                          /\ \/ /\ req.side = "BUY"
                                /\ req.qty <= MaxOrderQty
                                /\ Notional(req) <= BuyNotionalCap
                             \/ /\ req.side = "SELL"
                                /\ available \in Holdings
                                /\ req.qty <= available
  BY DEF PassesExactlyWhenSafe
<1> USE LimitsAssumption, AbsentAssumption, RequestsAssumption
<1>1. req.side \in {"BUY", "SELL"}
  BY DEF ContractError
<1>2. req.qty \in Int /\ req.price \in Int \cup {NoPrice}
  BY DEF Inputs, Requests
<1>3. Notional(req) \in Int
  BY <1>2 DEF Notional
<1>4. PICK notional \in Int : notional = Notional(req)
  BY <1>3
<1>5. CASE req.side = "BUY"
  BY <1>2, <1>4, <1>5 DEF Verdict, OrderError, RiskError, TradeError, SideError, Inputs
<1>6. CASE req.side = "SELL"
  <2> USE <1>2, <1>6
  <2>1. available \in Holdings => available \in Nat
    BY DEF Inputs
  <2>2. CASE available \in Holdings
    BY <2>1, <2>2 DEF Verdict, OrderError, RiskError, TradeError, SideError, Inputs
  <2>3. CASE available = NoProvider
    <3>1. available \notin Holdings
      BY <2>1, <2>3
    <3> QED
      BY <2>3, <3>1 DEF Verdict, OrderError, RiskError, TradeError, SideError, Inputs
  <2>4. CASE available = Unavailable
    <3>1. available \notin Holdings
      BY <2>1, <2>4
    <3> QED
      BY <2>4, <3>1 DEF Verdict, OrderError, RiskError, TradeError, SideError, Inputs
  <2> QED BY <2>2, <2>3, <2>4 DEF Inputs
<1> QED BY <1>1, <1>5, <1>6

\* What create_order accepts is exactly what the policy is for: live trading,
\* an open window, a day with room, a purchase within quantity and notional
\* caps, a sale covered by a position that was really reported.
THEOREM PolicyHolds == PolicySpec => []PassesExactlyWhenSafe
BY InputsTyped, PolicyExact, PTL
=============================================================================
