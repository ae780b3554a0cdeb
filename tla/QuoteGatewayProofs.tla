------------------------- MODULE QuoteGatewayProofs -------------------------
(* Theorems about QuoteGateway, for any symbols, threads, cooldown, number  *)
(* of attempts and bound on the clock.                                      *)
EXTENDS QuoteGateway, FiniteSetTheorems, TLAPS
-----------------------------------------------------------------------------
\* The cooldown table has a size.
LEMMA CoolingSize == Cardinality(Cooling) \in Nat
BY SymbolsAssumption, FS_Subset, FS_CardinalityType DEF Cooling

\* A request that just entered, and a thread without one, are well typed.
LEMMA HandlerTyped ==
  ASSUME NEW pc \in Steps, NEW kind \in {"one", "batch", "none"}, NEW now \in Nat,
         NEW todo \in SUBSET Symbols
  PROVE  Handler(pc, kind, now, todo) \in Handlers
BY DEF Handler, Handlers

\* The type invariant holds initially.
LEMMA QuoteTypeInit == Init => TypeOK
BY HandlerTyped, QuoteAttemptsAssumption
DEF Init, TypeOK, Typed, InOrder, Free, Handler, Steps, NoRow, NoCooldown

\* A step that only replaces the handler of one thread keeps the type invariant
\* when the new handler is typed, in order and not ahead of the clock.
LEMMA HandlerStep ==
  ASSUME TypeOK, NEW t \in Threads, NEW h \in Handlers, http' = [http EXCEPT ![t] = h],
         h.now <= clock, InOrder(h),
         UNCHANGED World, until' \in [Symbols -> Nat], mark' \in [Symbols -> Nat],
         sound' \in [Symbols -> BOOLEAN], late' \subseteq Threads
  PROVE  TypeOK'
BY DEF TypeOK, Typed, World

\* So does a thread without a request.
LEMMA FreeInOrder ==
  ASSUME TypeOK
  PROVE  Free \in Handlers /\ Free.now <= clock /\ InOrder(Free)
BY HandlerTyped, QuoteAttemptsAssumption DEF TypeOK, Typed, Free, Handler, Steps, InOrder

\* Pruning keeps the type invariant.
LEMMA QuoteTypePrune ==
  ASSUME TypeOK, NEW t \in Threads, Prune(t)
  PROVE  TypeOK'
<1> DEFINE h == http[t]
<1>0. /\ h \in Handlers /\ h.now <= clock /\ InOrder(h)
      /\ until \in [Symbols -> Nat] /\ mark \in [Symbols -> Nat]
      /\ sound \in [Symbols -> BOOLEAN] /\ late \subseteq Threads
  BY DEF TypeOK, Typed
<1>1. CASE BeginScan(t)
  <2> DEFINE g == [h EXCEPT !.pc = "iterate", !.size = Cardinality(Cooling)]
  <2>1. http' = [http EXCEPT ![t] = g] /\ UNCHANGED <<World, until, mark, sound, late>>
    BY <1>1 DEF BeginScan, NoHistory
  <2>2. g \in Handlers /\ g.now <= clock /\ InOrder(g)
    BY <1>0, CoolingSize DEF Handlers, Steps, InOrder
  <2> HIDE DEF g
  <2> QED BY <1>0, <2>1, <2>2, HandlerStep
<1>2. CASE ScanRaises(t)
  BY <1>0, <1>2, FreeInOrder, HandlerStep DEF ScanRaises, NoHistory
<1>3. ASSUME NEW expired \in SUBSET Symbols, Prunes(t, expired),
             UNCHANGED <<World, mark, sound, late>>, until' \in [Symbols -> Nat]
      PROVE  TypeOK'
  <2> DEFINE g == [h EXCEPT !.read = {}, !.expired = expired,
                            !.pc = IF expired # {} THEN "pop"
                                   ELSE IF h.kind = "one" THEN "gate" ELSE "rows"]
  <2>1. http' = [http EXCEPT ![t] = g]
    BY <1>3 DEF Prunes
  <2>2. g \in Handlers /\ g.now <= clock /\ InOrder(g)
    BY <1>0 DEF Handlers, Steps, InOrder
  <2> HIDE DEF g
  <2> QED BY <1>0, <1>3, <2>1, <2>2, HandlerStep
<1>4. CASE EndScan(t)
  BY <1>0, <1>3, <1>4 DEF EndScan, NoHistory, Handlers
<1>6. ASSUME NEW s \in Symbols, Scan(t, s) PROVE TypeOK'
  <2> DEFINE g == [h EXCEPT !.read = h.read \cup {s},
                            !.expired = IF until[s] <= h.now THEN h.expired \cup {s}
                                        ELSE h.expired]
  <2>1. http' = [http EXCEPT ![t] = g] /\ UNCHANGED <<World, until, mark, sound, late>>
    BY <1>6 DEF Scan, ReadEntry, NoHistory
  <2>2. g \in Handlers /\ g.now <= clock /\ InOrder(g)
    BY <1>0 DEF Handlers, InOrder
  <2> HIDE DEF g
  <2> QED BY <1>0, <2>1, <2>2, HandlerStep
<1>5. ASSUME NEW s \in Symbols, Pop(t, s) PROVE TypeOK'
  <2>1. h.expired \ {s} \in SUBSET Symbols
    BY <1>0 DEF Handlers
  <2>2. until' \in [Symbols -> Nat]
    BY <1>0, <1>5 DEF Pop, NoCooldown
  <2> QED BY <1>3, <1>5, <2>1, <2>2 DEF Pop, NoHistory
<1> QED BY <1>1, <1>2, <1>4, <1>5, <1>6 DEF Prune

\* So does fetching.
LEMMA QuoteTypeFetch ==
  ASSUME TypeOK, NEW t \in Threads, Fetch(t)
  PROVE  TypeOK'
<1> DEFINE h == http[t]
<1>0. /\ h \in Handlers /\ h.now <= clock /\ InOrder(h)
      /\ until \in [Symbols -> Nat] /\ mark \in [Symbols -> Nat]
      /\ sound \in [Symbols -> BOOLEAN] /\ late \subseteq Threads
  BY DEF TypeOK, Typed
<1>1. CASE Rows(t)
  <2> DEFINE g == [h EXCEPT !.pc = "gate", !.todo = {s \in h.todo : ~Fresh(s, h.now)}]
  <2>1. http' = [http EXCEPT ![t] = g] /\ UNCHANGED <<World, until, mark, sound, late>>
    BY <1>1 DEF Rows, NoHistory
  <2>2. g \in Handlers /\ g.now <= clock /\ InOrder(g)
    BY <1>0 DEF Handlers, Steps, InOrder
  <2> HIDE DEF g
  <2> QED BY <1>0, <2>1, <2>2, HandlerStep
<1>2. ASSUME NEW s \in Symbols, Gate(t, s) PROVE TypeOK'
  <2> DEFINE g == [h EXCEPT !.sym = s, !.attempt = 0,
                            !.pc = IF h.now < until[s] THEN "last"
                                   ELSE IF h.kind = "one" THEN "source" ELSE "rest"]
  <2>1. http' = [http EXCEPT ![t] = g] /\ UNCHANGED <<World, until, mark, sound, late>>
    BY <1>2 DEF Gate, NoHistory
  <2>2. g \in Handlers
    BY <1>0 DEF Handlers, Steps
  <2>3. g.now <= clock /\ g.sym \in g.todo /\ g.attempt < Attempts
    BY <1>0, <1>2, QuoteAttemptsAssumption DEF Gate, Handlers
  <2> HIDE DEF g
  <2> QED BY <1>0, <2>1, <2>2, <2>3, HandlerStep DEF InOrder
<1>3. ASSUME NEW failed \in SUBSET Symbols, Done(t, failed), late' \subseteq Threads,
             UNCHANGED <<World, until, mark, sound>>
      PROVE  TypeOK'
  <2> DEFINE g == [h EXCEPT !.pc = "gate", !.todo = h.todo \ {h.sym}, !.sym = NoSymbol,
                            !.attempt = 0, !.failed = h.failed \cup failed]
  <2>1. http' = [http EXCEPT ![t] = g]
    BY <1>3 DEF Done
  <2>2. g \in Handlers
    BY <1>0 DEF Handlers, Steps
  <2>3. g.now <= clock /\ g.pc = "gate" /\ g.attempt < Attempts
    BY <1>0, QuoteAttemptsAssumption DEF Handlers
  <2> HIDE DEF g
  <2> QED BY <1>0, <1>3, <2>1, <2>2, <2>3, HandlerStep DEF InOrder
<1>4. ASSUME NEW pc \in Steps, Go(t, pc), UNCHANGED World, h.sym \in h.todo,
             until' \in [Symbols -> Nat], mark' \in [Symbols -> Nat],
             sound' \in [Symbols -> BOOLEAN], late' \subseteq Threads
      PROVE  TypeOK'
  <2> DEFINE g == [h EXCEPT !.pc = pc]
  <2>1. http' = [http EXCEPT ![t] = g]
    BY <1>4 DEF Go
  <2>2. g \in Handlers /\ g.now <= clock /\ InOrder(g)
    BY <1>0, <1>4 DEF Handlers, InOrder
  <2> HIDE DEF g
  <2> QED BY <1>4, <2>1, <2>2, HandlerStep
<1>5. ASSUME h.pc \in {"source", "rest", "last"} PROVE h.sym \in Symbols /\ h.sym \in h.todo
  BY <1>0, <1>5 DEF InOrder, Handlers
<1>6. ASSUME NEW open \in BOOLEAN, Source(t, open) PROVE TypeOK'
  <2>1. h.sym \in h.todo
    BY <1>5, <1>6 DEF Source, At
  <2>2. CASE Done(t, {})
    BY <1>0, <1>3, <1>6, <2>2 DEF Source
  <2>3. CASE Go(t, "rest")
    BY <1>0, <1>4, <1>6, <2>1, <2>3 DEF Source, Steps
  <2> QED BY <1>6, <2>2, <2>3 DEF Source
<1>7. CASE RestAnswers(t)
  BY <1>0, <1>3, <1>7 DEF RestAnswers
<1>8. CASE Retry(t)
  <2> DEFINE g == [h EXCEPT !.attempt = h.attempt + 1]
  <2>1. http' = [http EXCEPT ![t] = g] /\ UNCHANGED <<World, until, mark, sound, late>>
    BY <1>8 DEF Retry, TryAgain, NoHistory
  <2>2. g \in Handlers /\ g.now <= clock /\ InOrder(g)
    BY <1>0, <1>8, QuoteAttemptsAssumption DEF Retry, TryAgain, Handlers, InOrder
  <2> HIDE DEF g
  <2> QED BY <1>0, <2>1, <2>2, HandlerStep
<1>9. CASE GiveUp(t)
  <2>1. h.sym \in Symbols /\ h.sym \in h.todo /\ h.now + Cooldown \in Nat
    BY <1>0, <1>5, <1>9, TimesAssumption DEF GiveUp, At, Handlers
  <2>2. until' \in [Symbols -> Nat] /\ mark' \in [Symbols -> Nat]
    BY <1>0, <1>9, <2>1 DEF GiveUp, Mark
  <2>3. sound' \in [Symbols -> BOOLEAN] /\ late' \subseteq Threads
    BY <1>0, <1>9 DEF GiveUp, Mark
  <2> QED BY <1>4, <1>9, <2>1, <2>2, <2>3 DEF GiveUp, Steps
<1>10. CASE LastGood(t)
  <2>1. h.sym \in Symbols
    BY <1>5, <1>10 DEF LastGood, At
  <2> QED BY <1>0, <1>3, <1>10, <2>1 DEF LastGood, NoHistory
<1>11. CASE Answer(t)
  BY <1>0, <1>11, FreeInOrder, HandlerStep DEF Answer, NoHistory
<1> QED
  BY <1>1, <1>2, <1>6, <1>7, <1>8, <1>9, <1>10, <1>11 DEF Fetch

\* And every other step.
LEMMA QuoteTypeStep == TypeOK /\ [Next]_vars => TypeOK'
<1> SUFFICES ASSUME TypeOK, [Next]_vars PROVE TypeOK'
  OBVIOUS
<1>1. CASE Tick
  BY <1>1 DEF Tick, NoHistory, TypeOK, Typed, Handlers
<1>2. ASSUME NEW s \in Symbols, NEW ts \in 0..MaxTime, Ingest(s, ts) PROVE TypeOK'
  BY <1>2, TimesAssumption DEF Ingest, NoHistory, TypeOK, Typed
<1>3. ASSUME NEW t \in Threads, NEW kind \in {"one", "batch"}, NEW S \in SUBSET Symbols,
             Enter(t, kind, S)
      PROVE  TypeOK'
  <2> DEFINE g == Handler("prune", kind, clock, S)
  <2>1. http' = [http EXCEPT ![t] = g] /\ UNCHANGED <<World, until, mark, sound, late>>
    BY <1>3 DEF Enter, NoHistory
  <2>2. g \in Handlers
    BY HandlerTyped DEF TypeOK, Typed, Steps
  <2>3. g.now <= clock /\ InOrder(g)
    BY QuoteAttemptsAssumption DEF TypeOK, Typed, Handler, InOrder
  <2>4. /\ until' \in [Symbols -> Nat] /\ mark' \in [Symbols -> Nat]
        /\ sound' \in [Symbols -> BOOLEAN] /\ late' \subseteq Threads
    BY <2>1 DEF TypeOK, Typed
  <2> HIDE DEF g
  <2> QED BY <2>1, <2>2, <2>3, <2>4, HandlerStep
<1>4. ASSUME NEW t \in Threads, Request(t) PROVE TypeOK'
  <2>1. \A s \in Symbols : {s} \in SUBSET Symbols
    OBVIOUS
  <2> QED BY <1>3, <1>4, <2>1 DEF Request
<1>5. CASE UNCHANGED vars
  BY <1>5 DEF vars, TypeOK, Typed
<1> QED
  BY <1>1, <1>2, <1>4, <1>5, QuoteTypePrune, QuoteTypeFetch DEF Next, Serve

\* Types, no request ahead of the clock, and a request that asks REST for a
\* symbol still owes that answer.
THEOREM QuoteTyped == Spec => []TypeOK
BY QuoteTypeInit, QuoteTypeStep, PTL DEF Spec
-----------------------------------------------------------------------------
\* Of the requests, a step of Fetch changes one; until the request ends it keeps
\* its time and its removals, only GiveUp touches a cooldown, and only Gate takes
\* a symbol past the test for one.
LEMMA FetchMoves ==
  ASSUME TypeOK, NEW t \in Threads, Fetch(t)
  PROVE  /\ clock' = clock
         /\ \A u \in Threads \ {t} : http'[u] = http[u]
         /\ \/ http'[t].expired = {}
            \/ http'[t].expired = http[t].expired /\ http'[t].now = http[t].now
         /\ ~GiveUp(t) => UNCHANGED <<until, mark, sound>> /\ late \ {t} \subseteq late'
         /\ \A s \in Symbols : PastGate(t, s)' =>
              \/ PastGate(t, s) /\ (t \in late => t \in late')
              \/ Gate(t, s)
<1> USE DEF TypeOK, Typed, Handlers, World, NoHistory
<1>0. http[t] \in Handlers
  OBVIOUS
<1>1. CASE Rows(t) BY <1>1, SymbolsAssumption DEF Rows, PastGate
<1>2. ASSUME NEW s \in Symbols, Gate(t, s)
      PROVE  /\ UNCHANGED <<clock, until, mark, sound, late>>
             /\ \A u \in Threads \ {t} : http'[u] = http[u]
             /\ http'[t].expired = http[t].expired /\ http'[t].now = http[t].now
             /\ http'[t].sym = s
  BY <1>2 DEF Gate
<1>3. ASSUME \/ \E failed : Done(t, failed)
             \/ Go(t, "last")
             \/ http' = [http EXCEPT ![t] = Free]
      PROVE  /\ \A u \in Threads \ {t} : http'[u] = http[u]
             /\ \/ http'[t].expired = {}
                \/ http'[t].expired = http[t].expired /\ http'[t].now = http[t].now
             /\ \A s \in Symbols : ~PastGate(t, s)'
  BY <1>3 DEF Done, Go, Free, Handler, PastGate
<1>4. ASSUME \/ Go(t, "rest") /\ At(t, "source")
             \/ \E last : TryAgain(t, last)
      PROVE  /\ \A u \in Threads \ {t} : http'[u] = http[u]
             /\ http'[t].expired = http[t].expired /\ http'[t].now = http[t].now
             /\ \A s \in Symbols : PastGate(t, s)' => PastGate(t, s)
  BY <1>4 DEF Go, TryAgain, At, PastGate
<1>5. CASE RestAnswers(t) \/ LastGood(t) \/ Answer(t)
  <2>1. (\E failed : Done(t, failed)) \/ http' = [http EXCEPT ![t] = Free]
    BY <1>5 DEF RestAnswers, LastGood, Answer
  <2>2. UNCHANGED <<clock, until, mark, sound>> /\ late \ {t} \subseteq late'
    BY <1>5 DEF RestAnswers, LastGood, Answer
  <2> QED BY <1>3, <2>1, <2>2
<1>6. ASSUME NEW open \in BOOLEAN, Source(t, open)
      PROVE  /\ UNCHANGED <<clock, until, mark, sound>>
             /\ \/ Done(t, {}) /\ late \ {t} \subseteq late'
                \/ Go(t, "rest") /\ At(t, "source") /\ late' = late
  BY <1>6 DEF Source
<1>7. CASE \E open \in BOOLEAN : Source(t, open)
  BY <1>3, <1>4, <1>6, <1>7
<1>8. CASE Retry(t)
  <2>1. UNCHANGED <<clock, until, mark, sound, late>> /\ \E last : TryAgain(t, last)
    BY <1>8 DEF Retry, TryAgain
  <2> QED BY <1>4, <2>1
<1>9. CASE GiveUp(t)
  BY <1>3, <1>9 DEF GiveUp
<1>10. CASE \E s \in Symbols : Gate(t, s)
  <2>1. PICK s \in Symbols : Gate(t, s)
    BY <1>10
  <2>2. \A x \in Symbols : PastGate(t, x)' => x = s
    BY <1>2, <2>1 DEF PastGate
  <2> QED BY <1>2, <2>1, <2>2
<1> QED BY <1>1, <1>5, <1>7, <1>8, <1>9, <1>10 DEF Fetch

\* A sound cooldown is in the table until it is over; who is about to remove an
\* entry found it over, and who is past the test found it over or is late.
CooldownKept ==
  \A s \in Symbols :
    sound[s] => /\ until[s] = mark[s] \/ (until[s] = NoCooldown /\ mark[s] <= clock)
                /\ \A t \in Threads : s \in http[t].expired => mark[s] <= http[t].now
                /\ \A t \in Threads : PastGate(t, s) => mark[s] <= clock \/ t \in late

\* It is inductive: Mark gives up soundness when a removal is under way.
LEMMA CooldownKeptStep ==
  ASSUME TypeOK, CooldownKept, [Next]_vars
  PROVE  CooldownKept'
<1> USE DEF TypeOK, Typed, Handlers, CooldownKept, NoHistory, World, At
<1>0. ASSUME UNCHANGED <<until, mark, sound>>, clock' \in Nat, clock <= clock',
             \A u \in Threads : \/ http'[u].expired = {}
                                \/ /\ http'[u].expired \subseteq http[u].expired
                                   /\ http'[u].now = http[u].now,
             \A u \in Threads, s \in Symbols :
               PastGate(u, s)' => PastGate(u, s) /\ (u \in late => u \in late')
      PROVE  CooldownKept'
  BY <1>0
<1>1. CASE Tick
  BY <1>0, <1>1 DEF Tick, PastGate
<1>2. ASSUME NEW s \in Symbols, NEW ts \in 0..MaxTime, Ingest(s, ts) PROVE CooldownKept'
  BY <1>0, <1>2 DEF Ingest, PastGate
<1>3. ASSUME NEW t \in Threads, Request(t) PROVE CooldownKept'
  <2>1. PICK kind, S : Enter(t, kind, S)
    BY <1>3 DEF Request
  <2> QED BY <1>0, <2>1 DEF Enter, Handler, PastGate
<1>4. ASSUME NEW t \in Threads, Prune(t) PROVE CooldownKept'
  <2>1. CASE BeginScan(t) BY <1>0, <2>1 DEF BeginScan, PastGate
  <2>2. CASE ScanRaises(t) BY <1>0, <2>2 DEF ScanRaises, Free, Handler, PastGate
  <2>3. ASSUME NEW s \in Symbols, Scan(t, s) PROVE CooldownKept'
    <3>1. /\ UNCHANGED <<until, mark, sound, late, clock>>
          /\ http'[t].pc = "iterate" /\ http'[t].now = http[t].now
          /\ http'[t].expired = IF until[s] <= http[t].now THEN http[t].expired \cup {s}
                                ELSE http[t].expired
          /\ until[s] # NoCooldown
          /\ \A u \in Threads \ {t} : http'[u] = http[u]
      BY <2>3 DEF Scan, ReadEntry, Cooling
    <3>2. ASSUME NEW y \in Symbols, sound[y], y \in http'[t].expired
          PROVE  mark[y] <= http[t].now
      BY <3>1, <3>2
    <3> QED BY <3>1, <3>2 DEF PastGate
  <2>5. CASE EndScan(t)
    <3>1. /\ UNCHANGED <<until, mark, sound, late, clock>>
          /\ http'[t].pc \in {"pop", "gate", "rows"}
          /\ http'[t].expired = http[t].expired /\ http'[t].now = http[t].now
          /\ \A u \in Threads \ {t} : http'[u] = http[u]
      BY <2>5 DEF EndScan, Prunes
    <3> QED BY <1>0, <3>1 DEF PastGate
  <2>4. ASSUME NEW s \in Symbols, Pop(t, s) PROVE CooldownKept'
    <3>1. /\ UNCHANGED <<mark, sound, late, clock>>
          /\ http'[t].pc \in {"pop", "gate", "rows"}
          /\ until' = [until EXCEPT ![s] = NoCooldown]
          /\ http'[t].expired = http[t].expired \ {s} /\ http'[t].now = http[t].now
          /\ \A u \in Threads \ {t} : http'[u] = http[u]
          /\ s \in http[t].expired /\ http[t].now <= clock
      BY <2>4 DEF Pop, Prunes
    <3>2. sound[s] => mark[s] <= clock
      BY <3>1
    <3> QED BY <3>1, <3>2 DEF PastGate
  <2> QED BY <1>4, <2>1, <2>2, <2>3, <2>4, <2>5 DEF Prune
<1>5. ASSUME NEW t \in Threads, Fetch(t) PROVE CooldownKept'
  <2>1. CASE GiveUp(t)
    <3>1. PICK x \in Symbols : x = http[t].sym
      BY <2>1 DEF GiveUp, InOrder
    <3> DEFINE end == http[t].now + Cooldown
    <3>2. /\ until' = [until EXCEPT ![x] = end] /\ mark' = [mark EXCEPT ![x] = end]
          /\ sound' = [sound EXCEPT ![x] = \A u \in Threads : x \notin http[u].expired]
          /\ late' = (late \cup {u \in Threads : PastGate(u, x)}) \ {t}
          /\ clock' = clock
          /\ \A u \in Threads : http'[u].expired = http[u].expired /\ http'[u].now = http[u].now
      BY <2>1, <3>1 DEF GiveUp, Mark, Go
    <3>3. \A u \in Threads, s \in Symbols : PastGate(u, s)' => u # t /\ PastGate(u, s)
      BY <2>1 DEF GiveUp, Go, PastGate
    <3>4. ASSUME NEW u \in Threads, PastGate(u, x)' PROVE u \in late'
      <4>1. u # t /\ PastGate(u, x)
        BY <3>3, <3>4
      <4> QED BY <3>2, <4>1
    <3>5. \A u \in Threads, s \in Symbols : u # t /\ u \in late => u \in late'
      BY <3>2
    <3> QED BY <3>2, <3>3, <3>4, <3>5
  <2>2. ASSUME NEW y \in Symbols, Gate(t, y) PROVE CooldownKept'
    <3>1. /\ UNCHANGED <<until, mark, sound, late, clock>>
          /\ \A u \in Threads \ {t} : http'[u] = http[u]
          /\ http'[t].expired = http[t].expired /\ http'[t].now = http[t].now
          /\ http'[t].sym = y /\ http[t].now <= clock
          /\ PastGate(t, y)' => until[y] <= http[t].now
      BY <2>2 DEF Gate, PastGate
    <3>2. \A s \in Symbols : PastGate(t, s)' => s = y
      BY <3>1 DEF PastGate
    <3>3. PastGate(t, y)' /\ sound[y] => mark[y] <= clock
      BY <3>1
    <3>4. \A u \in Threads \ {t}, s \in Symbols : PastGate(u, s)' => PastGate(u, s)
      BY <3>1 DEF PastGate
    <3> QED BY <3>1, <3>2, <3>3, <3>4
  <2>3. CASE ~GiveUp(t) /\ \A y \in Symbols : ~Gate(t, y)
    <3>1. /\ UNCHANGED <<until, mark, sound, clock>> /\ late \ {t} \subseteq late'
          /\ \A u \in Threads \ {t} : http'[u] = http[u]
          /\ \/ http'[t].expired = {}
             \/ http'[t].expired = http[t].expired /\ http'[t].now = http[t].now
          /\ \A s \in Symbols :
               PastGate(t, s)' => PastGate(t, s) /\ (t \in late => t \in late')
      BY <1>5, <2>3, FetchMoves
    <3>2. \A u \in Threads, s \in Symbols :
            PastGate(u, s)' => PastGate(u, s) /\ (u \in late => u \in late')
      BY <3>1 DEF PastGate
    <3> QED BY <1>0, <3>1, <3>2
  <2> QED BY <2>1, <2>2, <2>3
<1>6. CASE UNCHANGED vars
  BY <1>0, <1>6 DEF vars, PastGate
<1> QED
  BY <1>1, <1>2, <1>3, <1>4, <1>5, <1>6 DEF Next, Serve

\* The cooldown invariant holds in every reachable state.
LEMMA CooldownAlwaysKept == Spec => []CooldownKept
<1>1. Init => CooldownKept
  BY DEF Init, CooldownKept, PastGate, Free, Handler
<1> QED
  BY <1>1, CooldownKeptStep, QuoteTyped, PTL DEF Spec

\* Until a cooldown is over every ask for its symbol, retries included, is by a
\* thread that had passed the test before the cooldown was given.
THEOREM CooldownsHonored == Spec => CooldownHonored
<1> DEFINE Honored == \A t \in Threads, s \in Symbols :
                        Asks(t, s) /\ sound[s] => mark[s] <= clock \/ t \in late
<1>1. TypeOK /\ CooldownKept /\ [Next]_vars => [Honored]_vars
  <2> SUFFICES ASSUME TypeOK, CooldownKept, Next, NEW t \in Threads, NEW s \in Symbols,
                      Asks(t, s), sound[s]
               PROVE  mark[s] <= clock \/ t \in late
    BY DEF vars
  <2> USE DEF TypeOK, Typed, Handlers, Asks, At
  <2>0. http'[t] # http[t] /\ PastGate(t, s)'
    BY DEF PastGate
  <2>1. ASSUME NEW u \in Threads, Request(u) \/ Prune(u) PROVE FALSE
    <3>1. u = t
      BY <2>0, <2>1 DEF Request, Enter, Prune, BeginScan, ScanRaises, Scan, ReadEntry,
         EndScan, Pop, Prunes
    <3>2. CASE Request(t)
      BY <3>2 DEF Request, Enter, Handler
    <3>3. CASE BeginScan(t)
      BY <3>3 DEF BeginScan
    <3>4. CASE ScanRaises(t)
      BY <3>4 DEF ScanRaises, Free, Handler
    <3>5. ASSUME NEW expired, Prunes(t, expired) PROVE http'[t].pc # "rest"
      BY <3>5 DEF Prunes
    <3>6. CASE EndScan(t) \/ \E y \in Symbols : Pop(t, y)
      BY <3>5, <3>6 DEF EndScan, Pop
    <3>7. CASE \E y \in Symbols : Scan(t, y)
      BY <3>7 DEF Scan, ReadEntry
    <3> QED BY <2>1, <3>1, <3>2, <3>3, <3>4, <3>6, <3>7 DEF Prune
  <2>2. ASSUME NEW u \in Threads, Fetch(u) PROVE PastGate(t, s) \/ Gate(t, s)
    <3>1. u = t
      BY <2>0, <2>2, FetchMoves
    <3> QED BY <2>0, <2>2, <3>1, FetchMoves
  <2>3. PastGate(t, s) \/ Gate(t, s)
    BY <2>0, <2>1, <2>2 DEF Next, Tick, Ingest, Serve
  <2>4. CASE PastGate(t, s)
    BY <2>4 DEF CooldownKept
  <2>5. CASE Gate(t, s)
    <3>1. until[s] <= http[t].now /\ http[t].now <= clock
      BY <2>5 DEF Gate
    <3> QED BY <3>1 DEF CooldownKept
  <2> QED BY <2>3, <2>4, <2>5
<1>2. Spec => [][Honored]_vars
  BY <1>1, QuoteTyped, CooldownAlwaysKept, PTL DEF Spec
<1> QED BY <1>2 DEF CooldownHonored
=============================================================================
