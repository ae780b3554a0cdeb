------------------------- MODULE OrderGatewayProofs -------------------------
(* Theorems about OrderGateway, for any number of orders, keys, workers,    *)
(* callers and lives of the process.                                        *)
EXTENDS OrderGateway, OrderQueueProofs
-----------------------------------------------------------------------------
\* A step is a step of the queue, or the end of the process.
LEMMA StepOrCrash ==
  ASSUME GatewayTypeOK, [GatewayNext]_allVars
  PROVE  [Next]_vars \/ \E W \in SUBSET Workers : Crash(W)
<1>1. ASSUME NEW t \in Clients, Place(t) PROVE [Next]_vars
  <2>1. \A o \in Orders : Create(t, o) => Next
    BY DEF Create, Turn, GatewayTypeOK, Next
  <2> QED BY <1>1, <2>1 DEF Place, Ask, Receive, Look, Record
<1> QED BY <1>1 DEF GatewayNext, Poll, Change, Next, allVars

\* After a crash every thread and every table is as at the start.
LEMMA CrashResets ==
  ASSUME TypeOK, NEW W \in SUBSET Workers, Crash(W)
  PROVE  TypeOK' /\ SingleCustody' /\ NothingEarly' /\ \A o \in Orders : ~Known(o)'
<1> USE OrdersAssumption DEF TypeOK, Typed, Crash, Dies
<1>1. /\ placed' \in [Orders -> Nat] /\ lost' \in [Orders -> Nat]
      /\ atBroker' \in [Orders -> Payloads \cup {NoPayload}]
  <2>1. \A o \in Orders : Arrived(o, W) => (CHOOSE w \in W : wjob[w] = o) \in Workers
    BY DEF Arrived
  <2>2. \A o \in Orders :
          placed[o] + 1 \in Nat /\ lost[o] + 1 \in Nat
    OBVIOUS
  <2> QED BY <2>1, <2>2 DEF ArrivesAfterCrash
<1>2. Typed'
  BY <1>1 DEF Statuses, WorkerSteps, NoRequest, Request, NoPass, Pass
<1>3. (\A o : ~InQueue(o)') /\ \A o \in Orders : ~Held(o)' /\ ~Known(o)'
  BY DEF InQueue, Held, Known
<1>4. InHand'
  BY <1>3 DEF InHand, InCustody, NoRequest, Request, NoPass, Pass, Answers, Errors
<1>5. SingleCustody'
  BY <1>3 DEF SingleCustody
<1>6. NothingEarly'
  BY <1>3 DEF NothingEarly, InCustody
<1> QED BY <1>2, <1>3, <1>4, <1>5, <1>6

\* The broker has what a call under way at the crash brought it, its answer lost.
LEMMA CrashPlaces ==
  ASSUME TypeOK, NEW W \in SUBSET Workers, Crash(W), NEW o \in Orders
  PROVE  \/ placed'[o] = placed[o] /\ lost'[o] = lost[o] /\ atBroker'[o] = atBroker[o]
         \/ /\ placed'[o] = placed[o] + 1 /\ lost'[o] = lost[o] + 1
            /\ \E w \in Workers :
                 wpc[w] = "call" /\ wjob[w] = o /\ atBroker'[o] = wreq[w]
<1>1. CASE Arrived(o, W)
  <2>1. PICK w \in W : w = CHOOSE v \in W : wjob[v] = o
    BY <1>1 DEF Arrived
  <2>2. wjob[w] = o
    BY <1>1, <2>1 DEF Arrived
  <2>3. w \in Workers /\ wpc[w] = "call"
    BY DEF Crash, Dies, ArrivesAfterCrash
  <2> QED BY <1>1, <2>1, <2>2, <2>3 DEF Crash, Dies, ArrivesAfterCrash
<1>2. CASE ~Arrived(o, W)
  BY <1>2 DEF Crash, Dies, ArrivesAfterCrash
<1> QED BY <1>1, <1>2

\* Only enqueue brings an order into the table, and only a crash takes one out.
LEMMA KnownStays ==
  ASSUME TypeOK, \/ \E w \in Workers : Work(w) \/ EmptyPoll(w)
                 \/ \E c \in Callers : Call(c)
                 \/ UNCHANGED vars
  PROVE  \A o \in Orders : Known(o)' <=> Known(o)
<1>1. ASSUME NEW w \in Workers, Work(w)
      PROVE  \A o \in Orders : Known(o)' <=> Known(o)
  <2>1. \/ UNCHANGED status
        \/ /\ wpc[w] # "idle"
           /\ \E s \in {"DISPATCHING", "SENT", "NEW", "REJECTED"} :
                status' = [status EXCEPT ![wjob[w]] = s]
    BY <1>1 DEF Work, Pop, SkipTerminal, PassCheck, MarkDispatching, CallAdapter, Dispatch,
       BrokerAccepts, BrokerRefuses, Sent, Retry, GiveBack, Reject, LocalSent,
       LocalReject, At, jobVars
  <2>2. wpc[w] # "idle" => wjob[w] \in Orders /\ Known(wjob[w])
    BY DEF TypeOK, InHand, InCustody, Held
  <2> QED BY <2>1, <2>2 DEF Known, TypeOK, Typed
<1> QED BY <1>1, Outside
-----------------------------------------------------------------------------
\* A step of one thread of create_order.
LEMMA TurnKeeps ==
  ASSUME GatewayTypeOK, NEW t \in Clients, NEW from, NEW h \in Handlers, Turn(t, from, h)
  PROVE  /\ intake' \in [Clients -> Handlers]
         /\ intake[t].pc = from /\ intake'[t] = h
         /\ \A u \in Clients : u # t => intake'[u] = intake[u]
BY DEF GatewayTypeOK, GatewayTyped, Turn

\* What Ask and Look put in hand is well typed.
LEMMA HandlersTyped ==
  ASSUME GatewayTypeOK, NEW t \in Clients
  PROVE  /\ NoHandler \in Handlers
         /\ [intake[t] EXCEPT !.pc = "create"] \in Handlers
         /\ \A o \in Orders : [intake[t] EXCEPT !.pc = "record", !.order = o] \in Handlers
         /\ \A k \in Keys, p \in Payloads, r \in BOOLEAN :
              Handler("lookup", k, p, NoOrder, r) \in Handlers
<1>1. intake[t] \in Handlers
  BY DEF GatewayTypeOK, GatewayTyped
<1>2. [intake[t] EXCEPT !.pc = "create"] \in Handlers
  BY <1>1 DEF Handlers
<1>3. \A o \in Orders : [intake[t] EXCEPT !.pc = "record", !.order = o] \in Handlers
  BY <1>1 DEF Handlers
<1>4. NoHandler \in Handlers
  BY DEF Handlers, NoHandler, Handler
<1>5. \A k \in Keys, p \in Payloads, r \in BOOLEAN :
        Handler("lookup", k, p, NoOrder, r) \in Handlers
  BY DEF Handlers, Handler
<1> QED BY <1>2, <1>3, <1>4, <1>5

\* A thread that makes no order and records none leaves the tables in agreement.
LEMMA TypeTurn ==
  ASSUME GatewayTypeOK, NEW t \in Clients, NEW from, NEW h \in Handlers, Turn(t, from, h),
         from # "record", h.pc # "record", h.order \notin Orders,
         h.pc # "idle" => h.key \in Keys /\ h.body \in Payloads,
         UNCHANGED <<vars, idem, keyOf, bornIn, life, changed, edited>>
  PROVE  GatewayTypeOK'
<1>1. /\ intake' \in [Clients -> Handlers] /\ intake[t].pc = from /\ intake'[t] = h
      /\ \A u \in Clients : u # t => intake'[u] = intake[u]
  BY TurnKeeps
<1>2. TypeOK' /\ \A o \in Orders : Known(o)' <=> Known(o)
  BY TypeStep, KnownStays DEF GatewayTypeOK
<1>3. \A o \in Orders : InIntake(o)' <=> InIntake(o)
  <2>1. intake[t].order \notin Orders
    BY <1>1 DEF GatewayTypeOK
  <2>2. \A o \in Orders : intake'[t].order # o /\ intake[t].order # o
    BY <1>1, <2>1
  <2> QED BY <1>1, <2>2 DEF InIntake
<1>4. GatewayTyped'
  BY <1>1 DEF GatewayTypeOK, GatewayTyped
<1>5. \A o \in Orders :
        Known(o)' => keyOf'[o] \in Keys /\ (idem'[keyOf'[o]] = NoOrder => InIntake(o)')
  BY <1>2, <1>3 DEF GatewayTypeOK
<1>6. \A k \in Keys : idem'[k] # NoOrder => status'[idem'[k]] # "ABSENT" /\ keyOf'[idem'[k]] = k
  BY DEF GatewayTypeOK, Known, vars, jobVars
<1>7. ASSUME NEW u \in Clients
      PROVE  /\ intake'[u].pc # "idle" => intake'[u].key \in Keys /\ intake'[u].body \in Payloads
             /\ intake'[u].pc = "record" <=> intake'[u].order \in Orders
             /\ intake'[u].pc = "record" =>
                  status'[intake'[u].order] # "ABSENT" /\ keyOf'[intake'[u].order] = intake'[u].key
  <2>1. CASE u = t
    BY <1>1, <2>1
  <2>2. CASE u # t
    BY <1>1, <2>2 DEF GatewayTypeOK, Known, vars, jobVars
  <2> QED BY <2>1, <2>2
<1> QED BY <1>2, <1>4, <1>5, <1>6, <1>7 DEF GatewayTypeOK, Known

\* A new order is in the hands of the thread that made it.
LEMMA TypeCreate ==
  ASSUME GatewayTypeOK, NEW t \in Clients, NEW o \in Orders, Create(t, o)
  PROVE  GatewayTypeOK'
<1> USE GatewayAssumption, OrdersAssumption
<1>0. PICK h \in Handlers : h = [intake[t] EXCEPT !.pc = "record", !.order = o]
  BY HandlersTyped
<1>1. /\ intake' \in [Clients -> Handlers] /\ intake[t].pc = "create" /\ intake'[t] = h
      /\ \A u \in Clients : u # t => intake'[u] = intake[u]
  BY <1>0, TurnKeeps DEF Create
<1>2. /\ h.pc = "record" /\ h.order = o /\ h.key = intake[t].key /\ h.body = intake[t].body
      /\ h.key \in Keys /\ h.body \in Payloads
  BY <1>0, <1>1 DEF GatewayTypeOK, GatewayTyped, Handlers
<1>3. /\ Enqueue(o, h.body) /\ ~Known(o) /\ bornIn[o] = 0
      /\ keyOf' = [keyOf EXCEPT ![o] = h.key] /\ bornIn' = [bornIn EXCEPT ![o] = life]
      /\ UNCHANGED <<idem, life, changed, edited>>
  BY <1>2 DEF Create, Enqueue
<1>4. TypeOK'
  BY <1>2, <1>3, TypeEnqueue DEF GatewayTypeOK
<1>5. \A x \in Orders : Known(x)' <=> Known(x) \/ x = o
  BY <1>3 DEF Enqueue, Known, GatewayTypeOK, TypeOK, Typed
<1>6. \A x \in Orders : /\ keyOf'[x] = IF x = o THEN h.key ELSE keyOf[x]
                        /\ bornIn'[x] = IF x = o THEN life ELSE bornIn[x]
  BY <1>3 DEF GatewayTypeOK, GatewayTyped
<1>7. GatewayTyped'
  BY <1>1, <1>2, <1>3 DEF GatewayTypeOK, GatewayTyped
<1>8. \A x \in Orders : Known(x)' <=> bornIn'[x] = life'
  BY <1>3, <1>5, <1>6 DEF GatewayTypeOK
<1>9. InIntake(o)' /\ \A x \in Orders : InIntake(x) => InIntake(x)'
  <2>1. intake[t].order \notin Orders
    BY <1>1 DEF GatewayTypeOK
  <2> QED BY <1>1, <1>2, <2>1 DEF InIntake
<1>10. \A x \in Orders :
         Known(x)' => keyOf'[x] \in Keys /\ (idem'[keyOf'[x]] = NoOrder => InIntake(x)')
  BY <1>2, <1>3, <1>5, <1>6, <1>9 DEF GatewayTypeOK
<1>11. ASSUME NEW k \in Keys, idem'[k] # NoOrder
       PROVE  status'[idem'[k]] # "ABSENT" /\ keyOf'[idem'[k]] = k
  <2>1. idem'[k] = idem[k] /\ idem[k] \in Orders /\ Known(idem[k]) /\ keyOf[idem[k]] = k
    BY <1>3, <1>11 DEF GatewayTypeOK, GatewayTyped
  <2> QED BY <1>3, <1>5, <1>6, <2>1 DEF Known
<1>12. ASSUME NEW u \in Clients
       PROVE  /\ intake'[u].pc # "idle" => intake'[u].key \in Keys /\ intake'[u].body \in Payloads
              /\ intake'[u].pc = "record" <=> intake'[u].order \in Orders
              /\ intake'[u].pc = "record" =>
                   status'[intake'[u].order] # "ABSENT" /\ keyOf'[intake'[u].order] = intake'[u].key
  <2>1. CASE u = t
    BY <1>1, <1>2, <1>5, <1>6, <2>1 DEF Known
  <2>2. CASE u # t
    <3>1. intake[u].pc = "record" => /\ intake[u].order \in Orders /\ Known(intake[u].order)
                                     /\ keyOf[intake[u].order] = intake[u].key
      BY DEF GatewayTypeOK
    <3>2. intake[u].pc = "record" => status'[intake[u].order] # "ABSENT"
                                     /\ keyOf'[intake[u].order] = intake[u].key
      BY <1>3, <1>5, <1>6, <3>1 DEF Known
    <3> QED BY <1>1, <2>2, <3>2 DEF GatewayTypeOK
  <2> QED BY <2>1, <2>2
<1> QED BY <1>4, <1>7, <1>8, <1>10, <1>11, <1>12 DEF GatewayTypeOK, Known

\* Recording the order of a key lets it go, and another order of the key that
\* was recorded before is still recorded by this one.
LEMMA TypeRecord ==
  ASSUME GatewayTypeOK, NEW t \in Clients, Record(t)
  PROVE  GatewayTypeOK'
<1> USE GatewayAssumption, OrdersAssumption
<1>0. PICK o \in Orders, k \in Keys :
        /\ o = intake[t].order /\ k = intake[t].key /\ Known(o) /\ keyOf[o] = k
  BY DEF Record, Turn, GatewayTypeOK
<1>1. /\ intake' \in [Clients -> Handlers] /\ intake'[t] = NoHandler
      /\ \A u \in Clients : u # t => intake'[u] = intake[u]
  BY HandlersTyped, TurnKeeps DEF Record
<1>2. /\ idem' = [idem EXCEPT ![k] = o]
      /\ UNCHANGED <<vars, keyOf, bornIn, life, changed, edited>>
  BY <1>0 DEF Record
<1>3. TypeOK' /\ \A x \in Orders : Known(x)' <=> Known(x)
  BY <1>2, TypeStep, KnownStays DEF GatewayTypeOK
<1>4. \A x \in Keys : idem'[x] = IF x = k THEN o ELSE idem[x]
  BY <1>2 DEF GatewayTypeOK, GatewayTyped
<1>5. GatewayTyped'
  BY <1>1, <1>2 DEF GatewayTypeOK, GatewayTyped
<1>6. \A x \in Orders : x # o /\ InIntake(x) => InIntake(x)'
  BY <1>0, <1>1 DEF InIntake
<1>7. ASSUME NEW x \in Orders, Known(x)'
      PROVE  keyOf'[x] \in Keys /\ (idem'[keyOf'[x]] = NoOrder => InIntake(x)')
  <2>1. keyOf'[x] = keyOf[x] /\ keyOf[x] \in Keys /\ (idem[keyOf[x]] = NoOrder => InIntake(x))
    BY <1>2, <1>3, <1>7 DEF GatewayTypeOK
  <2> QED BY <1>0, <1>4, <1>6, <2>1
<1>8. ASSUME NEW x \in Keys, idem'[x] # NoOrder
      PROVE  status'[idem'[x]] # "ABSENT" /\ keyOf'[idem'[x]] = x
  BY <1>0, <1>2, <1>4, <1>8 DEF GatewayTypeOK, Known, vars, jobVars
<1>9. ASSUME NEW u \in Clients
      PROVE  /\ intake'[u].pc # "idle" => intake'[u].key \in Keys /\ intake'[u].body \in Payloads
             /\ intake'[u].pc = "record" <=> intake'[u].order \in Orders
             /\ intake'[u].pc = "record" =>
                  status'[intake'[u].order] # "ABSENT" /\ keyOf'[intake'[u].order] = intake'[u].key
  <2>1. CASE u = t
    BY <1>1, <2>1 DEF NoHandler, Handler
  <2>2. CASE u # t
    BY <1>1, <1>2, <2>2 DEF GatewayTypeOK, Known, vars, jobVars
  <2> QED BY <2>1, <2>2
<1> QED BY <1>2, <1>3, <1>5, <1>7, <1>8, <1>9 DEF GatewayTypeOK, Known

\* Types and tables are inductive, crashes included.
LEMMA GatewayTypeStep ==
  ASSUME GatewayTypeOK, [GatewayNext]_allVars
  PROVE  GatewayTypeOK'
<1> USE GatewayAssumption, OrdersAssumption
<1>1. CASE \E W \in SUBSET Workers : Crash(W)
  <2>1. TypeOK' /\ \A o \in Orders : ~Known(o)'
    BY <1>1, CrashResets DEF GatewayTypeOK
  <2>2. life' \in 1..MaxLives /\ life' = life + 1 /\ life \in Nat
    BY <1>1 DEF Crash, Dies, GatewayTypeOK, GatewayTyped
  <2>3. \A o \in Orders : bornIn'[o] = bornIn[o] /\ bornIn'[o] # life'
    BY <1>1, <2>2 DEF Crash, Dies, GatewayTypeOK, GatewayTyped
  <2>4. /\ idem' = [k \in Keys |-> NoOrder] /\ intake' = [t \in Clients |-> NoHandler]
        /\ edited' = {} /\ UNCHANGED <<keyOf, bornIn, changed>>
    BY <1>1 DEF Crash, Dies
  <2>5. GatewayTyped'
    BY <2>2, <2>4 DEF GatewayTypeOK, GatewayTyped, Handlers, NoHandler, Handler
  <2> QED BY <2>1, <2>3, <2>4, <2>5 DEF GatewayTypeOK, NoHandler, Handler
<1>2. ASSUME NEW t \in Clients, Place(t) PROVE GatewayTypeOK'
  <2>1. ASSUME NEW k \in Keys, NEW p \in Payloads, Ask(t, k, p) PROVE GatewayTypeOK'
    <3>1. PICK h : h = Handler("lookup", k, p, NoOrder,
                               \E o \in Orders : keyOf[o] = k /\ AnsweredNow(o))
      OBVIOUS
    <3>2. h \in Handlers
      BY <3>1, HandlersTyped
    <3>3. Turn(t, "idle", h) /\ UNCHANGED <<vars, idem, keyOf, bornIn, life, changed, edited>>
      BY <2>1, <3>1 DEF Ask, Receive
    <3>4. h.pc = "lookup" /\ h.order \notin Orders /\ h.key \in Keys /\ h.body \in Payloads
      BY <3>1 DEF Handler
    <3> QED BY <3>2, <3>3, <3>4, TypeTurn
  <2>2. CASE Look(t)
    <3>1. PICK h : /\ h = IF idem[intake[t].key] = NoOrder
                          THEN [intake[t] EXCEPT !.pc = "create"] ELSE NoHandler
                   /\ Turn(t, "lookup", h)
                   /\ UNCHANGED <<vars, idem, keyOf, bornIn, life, changed, edited>>
      BY <2>2 DEF Look
    <3>2. h \in Handlers /\ intake[t].pc = "lookup"
      BY <3>1, HandlersTyped DEF Turn
    <3>3. /\ h.pc # "record" /\ h.order \notin Orders
          /\ h.pc # "idle" => h.key \in Keys /\ h.body \in Payloads
      BY <3>1, <3>2 DEF GatewayTypeOK, GatewayTyped, Handlers, NoHandler, Handler
    <3> QED BY <3>1, <3>2, <3>3, TypeTurn
  <2> QED BY <1>2, <2>1, <2>2, TypeCreate, TypeRecord DEF Place
<1>3. ASSUME UNCHANGED <<intakeVars, life>>, changed' \subseteq Orders, edited' \subseteq Orders,
             TypeOK', \A o \in Orders : Known(o)' <=> Known(o)
      PROVE  GatewayTypeOK'
  <2>1. \A k \in Keys : idem[k] # NoOrder => idem[k] \in Orders
    BY DEF GatewayTypeOK, GatewayTyped
  <2>2. \A o : InIntake(o)' <=> InIntake(o)
    BY <1>3 DEF InIntake, intakeVars
  <2>3. GatewayTyped'
    BY <1>3 DEF GatewayTypeOK, GatewayTyped, intakeVars
  <2> QED BY <1>3, <2>1, <2>2, <2>3 DEF GatewayTypeOK, Known, intakeVars
<1>4. ASSUME NEW w \in Workers, Poll(w) PROVE GatewayTypeOK'
  <2>1. changed' \subseteq Orders /\ edited' \subseteq Orders
    BY <1>4 DEF Poll, GatewayTypeOK, GatewayTyped
  <2> QED BY <1>3, <1>4, <2>1, TypeStep, KnownStays DEF Poll, Next, EmptyPoll, GatewayTypeOK
<1>5. ASSUME NEW c \in Callers, Change(c) PROVE GatewayTypeOK'
  <2>1. changed' \subseteq Orders /\ edited' \subseteq Orders
    BY <1>5 DEF Change, GatewayTypeOK, GatewayTyped, TypeOK, InHand
  <2> QED BY <1>3, <1>5, <2>1, TypeStep, KnownStays DEF Change, Next, GatewayTypeOK
<1>6. CASE UNCHANGED allVars
  <2>1. /\ UNCHANGED <<intakeVars, life, changed, edited>>
        /\ TypeOK' /\ \A o \in Orders : Known(o)' <=> Known(o)
    BY <1>6, TypeStep, KnownStays DEF allVars, gatewayVars, GatewayTypeOK
  <2> QED BY <1>3, <2>1 DEF GatewayTypeOK, GatewayTyped
<1> QED BY <1>1, <1>2, <1>4, <1>5, <1>6 DEF GatewayNext

\* Every variable keeps its type, and in every life of the process, whatever
\* requests overlap, a recorded key points to a job of its own and a job whose key
\* is not recorded is in the hands of the thread that will record it.
THEOREM GatewayTypes == GatewaySpec => []GatewayTypeOK
<1>1. GatewayInit => GatewayTypeOK
  BY TypeInit, GatewayAssumption, OrdersAssumption
  DEF GatewayInit, GatewayTypeOK, GatewayTyped, Init, Known, Handlers, NoHandler, Handler
<1> QED BY <1>1, GatewayTypeStep, PTL DEF GatewaySpec
-----------------------------------------------------------------------------
\* A thread whose request repeats an answered one will find its key recorded.
RepeatsRecorded ==
  \A t \in Clients :
    intake[t].pc # "idle" /\ intake[t].repeats =>
      intake[t].pc = "lookup" /\ idem[intake[t].key] # NoOrder

\* A record is never taken back while the process lives.
LEMMA RepeatsStep ==
  ASSUME GatewayTypeOK, RepeatsRecorded, [GatewayNext]_allVars
  PROVE  RepeatsRecorded'
<1> USE OrdersAssumption
<1>1. ASSUME NEW t \in Clients, NEW from, NEW h \in Handlers, Turn(t, from, h),
             h.pc # "idle" /\ h.repeats => h.pc = "lookup" /\ idem'[h.key] # NoOrder,
             \A k \in Keys : idem[k] # NoOrder => idem'[k] # NoOrder
      PROVE  RepeatsRecorded'
  <2>1. /\ intake'[t] = h /\ \A u \in Clients : u # t => intake'[u] = intake[u]
    BY <1>1, TurnKeeps
  <2>2. \A u \in Clients : intake[u].pc # "idle" => intake[u].key \in Keys
    BY DEF GatewayTypeOK
  <2> QED BY <1>1, <2>1, <2>2 DEF RepeatsRecorded
<1>2. ASSUME NEW t \in Clients, Place(t) PROVE RepeatsRecorded'
  <2>1. ASSUME NEW k \in Keys, NEW p \in Payloads, Ask(t, k, p) PROVE RepeatsRecorded'
    <3>1. PICK h : h = Handler("lookup", k, p, NoOrder,
                               \E o \in Orders : keyOf[o] = k /\ AnsweredNow(o))
      OBVIOUS
    <3>2. h \in Handlers
      BY <3>1, HandlersTyped
    <3>3. Turn(t, "idle", h) /\ idem' = idem
      BY <2>1, <3>1 DEF Ask, Receive
    <3>4. h.repeats => idem[k] # NoOrder
      BY <3>1 DEF Handler, AnsweredNow, GatewayTypeOK
    <3>5. h.pc = "lookup" /\ h.key = k
      BY <3>1 DEF Handler
    <3> QED BY <1>1, <3>2, <3>3, <3>4, <3>5
  <2>2. CASE Look(t)
    <3>1. PICK h : /\ h = IF idem[intake[t].key] = NoOrder
                          THEN [intake[t] EXCEPT !.pc = "create"] ELSE NoHandler
                   /\ Turn(t, "lookup", h) /\ idem' = idem
      BY <2>2 DEF Look
    <3>2. h \in Handlers /\ intake[t].pc = "lookup"
      BY <3>1, HandlersTyped DEF Turn
    <3>3. h.pc = "idle" \/ ~h.repeats
      <4>1. CASE idem[intake[t].key] = NoOrder
        BY <3>1, <3>2, <4>1 DEF RepeatsRecorded, GatewayTypeOK, GatewayTyped, Handlers
      <4>2. CASE idem[intake[t].key] # NoOrder
        BY <3>1, <4>2 DEF NoHandler, Handler
      <4> QED BY <4>1, <4>2
    <3> QED BY <1>1, <3>1, <3>2, <3>3
  <2>3. ASSUME NEW o \in Orders, Create(t, o) PROVE RepeatsRecorded'
    <3>1. PICK h \in Handlers : h = [intake[t] EXCEPT !.pc = "record", !.order = o]
      BY HandlersTyped
    <3>2. Turn(t, "create", h) /\ idem' = idem
      BY <2>3, <3>1 DEF Create
    <3>3. ~h.repeats
      BY <3>1, <3>2 DEF Turn, RepeatsRecorded, GatewayTypeOK, GatewayTyped, Handlers
    <3> QED BY <1>1, <3>2, <3>3
  <2>4. CASE Record(t)
    <3>1. Turn(t, "record", NoHandler) /\ NoHandler \in Handlers /\ NoHandler.pc = "idle"
      BY <2>4, HandlersTyped DEF Record, NoHandler, Handler
    <3>2. intake[t].order \in Orders
      BY <2>4 DEF Record, Turn, GatewayTypeOK
    <3>3. \A k \in Keys : idem[k] # NoOrder => idem'[k] # NoOrder
      BY <2>4, <3>2 DEF Record, GatewayTypeOK, GatewayTyped
    <3> QED BY <1>1, <3>1, <3>3
  <2> QED BY <1>2, <2>1, <2>2, <2>3, <2>4 DEF Place
<1>3. CASE UNCHANGED <<idem, intake>>
  BY <1>3 DEF RepeatsRecorded
<1>4. CASE \E W \in SUBSET Workers : Crash(W)
  BY <1>4 DEF Crash, Dies, RepeatsRecorded, NoHandler, Handler
<1> QED
  BY <1>2, <1>3, <1>4 DEF GatewayNext, Poll, Change, intakeVars, gatewayVars, allVars

\* However requests of one key overlap, and however often they are repeated, a
\* request that began after an order of its key was answered makes none.
THEOREM RepeatsFindOrder == GatewaySpec => []RepeatFindsOrder
<1>1. GatewayInit => RepeatsRecorded
  BY DEF GatewayInit, RepeatsRecorded, NoHandler, Handler
<1>2. RepeatsRecorded => RepeatFindsOrder
  BY DEF RepeatsRecorded, RepeatFindsOrder
<1> QED BY <1>1, <1>2, RepeatsStep, GatewayTypes, PTL DEF GatewaySpec
-----------------------------------------------------------------------------
\* A body the policy passed, or one a modify brought.
Passed(o, p) == p \in Safe \cup {NoPayload} \/ o \in changed

\* Every body on its way to the broker is one of these.
BodiesPassed ==
  /\ \A t \in Clients : intake[t].body \in Safe \cup {NoPayload}
  /\ \A o \in Orders : Passed(o, payload[o]) /\ Passed(o, atBroker[o])
  /\ \A w \in Workers : wpc[w] \in {"call", "apply"} => Passed(wjob[w], wreq[w])

\* No step of a worker makes up a body.
LEMMA BodiesWork ==
  ASSUME TypeOK, BodiesPassed, NEW w \in Workers, Work(w), UNCHANGED <<intake, changed>>
  PROVE  BodiesPassed'
<1> USE DEF TypeOK, Typed, BodiesPassed, Passed
<1>0. wpc[w] # "idle" => wjob[w] \in Orders
  BY DEF InHand
<1>1. CASE Pop(w)
  BY <1>1 DEF Pop, At, jobVars, brokerVars
<1>2. CASE PassCheck(w) \/ MarkDispatching(w)
  BY <1>2 DEF PassCheck, MarkDispatching, At, jobVars, brokerVars
<1>3. CASE CallAdapter(w)
  BY <1>0, <1>3 DEF CallAdapter, Dispatch, At, brokerVars
<1>4. CASE \E ans \in Answers : BrokerAccepts(w, ans)
  <2>1. /\ wpc[w] = "call" /\ wpc' = [wpc EXCEPT ![w] = "apply"]
        /\ atBroker' = [atBroker EXCEPT ![wjob[w]] = wreq[w]]
        /\ UNCHANGED <<payload, wjob, wreq>>
    BY <1>4 DEF BrokerAccepts, At, jobVars
  <2> QED BY <1>0, <2>1
<1>5. CASE \E ans \in Answers : BrokerRefuses(w, ans)
  BY <1>5 DEF BrokerRefuses, At, jobVars, brokerVars
<1>6. CASE \/ SkipTerminal(w) \/ Sent(w) \/ Retry(w) \/ Reject(w)
           \/ LocalSent(w) \/ LocalReject(w)
  <2>1. UNCHANGED <<payload, atBroker>> /\ LetGo(w)
    BY <1>6 DEF SkipTerminal, Sent, Retry, GiveBack, Reject, LocalSent, LocalReject,
       jobVars, brokerVars
  <2> QED BY <2>1 DEF LetGo
<1> QED BY <1>1, <1>2, <1>3, <1>4, <1>5, <1>6 DEF Work

Steps == {"idle", "lookup", "create", "record"}

\* What a thread of create_order has in hand is a body the policy passed.
LEMMA PlaceTurns ==
  ASSUME GatewayTypeOK, BodiesPassed, NEW t \in Clients, Place(t)
  PROVE  \E h \in Handlers, from \in Steps : Turn(t, from, h) /\ h.body \in Safe \cup {NoPayload}
<1>1. intake[t] \in Handlers /\ intake[t].body \in Safe \cup {NoPayload}
  BY DEF GatewayTypeOK, GatewayTyped, BodiesPassed
<1>2. NoHandler \in Handlers /\ NoHandler.body = NoPayload
  BY HandlersTyped DEF NoHandler, Handler
<1>3. ASSUME NEW k \in Keys, NEW p \in Safe, NEW r \in BOOLEAN
      PROVE  /\ Handler("lookup", k, p, NoOrder, r) \in Handlers
             /\ Handler("lookup", k, p, NoOrder, r).body = p
  BY GatewayAssumption, HandlersTyped DEF Handler
<1>4. /\ [intake[t] EXCEPT !.pc = "create"] \in Handlers
      /\ [intake[t] EXCEPT !.pc = "create"].body = intake[t].body
  BY <1>1, HandlersTyped DEF Handlers
<1>5. ASSUME NEW o \in Orders
      PROVE  /\ [intake[t] EXCEPT !.pc = "record", !.order = o] \in Handlers
             /\ [intake[t] EXCEPT !.pc = "record", !.order = o].body = intake[t].body
  BY <1>1, HandlersTyped DEF Handlers
<1>6. ASSUME NEW k \in Keys, NEW p \in Payloads, Ask(t, k, p)
      PROVE  \E h \in Handlers, from \in Steps : Turn(t, from, h) /\ h.body \in Safe \cup {NoPayload}
  <2>1. p \in Safe /\ Turn(t, "idle", Handler("lookup", k, p, NoOrder,
                               \E o \in Orders : keyOf[o] = k /\ AnsweredNow(o)))
    BY <1>6 DEF Ask, Receive
  <2> QED BY <1>3, <2>1 DEF Steps
<1>7. CASE Look(t)
  BY <1>1, <1>2, <1>4, <1>7 DEF Look, Steps
<1>8. CASE \E o \in Orders : Create(t, o)
  BY <1>1, <1>5, <1>8 DEF Create, Steps
<1>9. CASE Record(t)
  BY <1>2, <1>9 DEF Record, Steps
<1> QED BY <1>6, <1>7, <1>8, <1>9 DEF Place

\* Only create_order and modify_order bring bodies in, the first after the policy.
LEMMA BodiesStep ==
  ASSUME GatewayTypeOK, BodiesPassed, [GatewayNext]_allVars
  PROVE  BodiesPassed'
<1>0. TypeOK
  BY DEF GatewayTypeOK
<1> USE DEF BodiesPassed, Passed
<1>1. ASSUME NEW t \in Clients, Place(t) PROVE BodiesPassed'
  <2>1. PICK h \in Handlers, from \in Steps : Turn(t, from, h) /\ h.body \in Safe \cup {NoPayload}
    BY <1>1, PlaceTurns
  <2>2. \A u \in Clients : intake'[u].body \in Safe \cup {NoPayload}
    BY <2>1, TurnKeeps
  <2>3. CASE UNCHANGED vars /\ UNCHANGED changed
    BY <2>2, <2>3 DEF vars, jobVars, brokerVars, workerVars
  <2>4. ASSUME NEW o \in Orders, Create(t, o) PROVE BodiesPassed'
    <3>1. Enqueue(o, intake[t].body) /\ UNCHANGED changed
      BY <2>4 DEF Create
    <3> QED BY <1>0, <2>2, <3>1 DEF Enqueue, brokerVars, workerVars, TypeOK, Typed
  <2> QED BY <1>1, <2>3, <2>4 DEF Place, Ask, Receive, Look, Record
<1>2. ASSUME NEW w \in Workers, Poll(w) PROVE BodiesPassed'
  <2>1. CASE Work(w)
    BY <1>0, <1>2, <2>1, BodiesWork DEF Poll, intakeVars
  <2>2. CASE EmptyPoll(w)
    BY <1>2, <2>2 DEF Poll, EmptyPoll, vars, intakeVars, jobVars, brokerVars, workerVars
  <2> QED BY <1>2, <2>1, <2>2 DEF Poll
<1>3. ASSUME NEW c \in Callers, Change(c) PROVE BodiesPassed'
  <2>1. UNCHANGED <<atBroker, wpc, wjob, wreq>>
    BY <1>3 DEF Change, Call, RouteCancel, RouteModify, MarkExecution, Serve,
       RefuseTerminal, FindOpen, WriteCancel, WriteModify, WriteExecution,
       brokerVars, workerVars
  <2>2. changed \subseteq changed'
    BY <1>3 DEF Change
  <2>3. UNCHANGED payload \/ WriteModify(c)
    BY <1>3 DEF Change, Call, RouteCancel, RouteModify, MarkExecution, Serve,
       RefuseTerminal, FindOpen, WriteCancel, WriteExecution, jobVars
  <2>4. CASE WriteModify(c)
    <3>1. /\ payload' = [payload EXCEPT ![caller[c].job] = caller[c].body]
          /\ caller[c].job \in changed'
      BY <1>3, <2>4 DEF Change, WriteModify, Advance
    <3> QED BY <1>0, <1>3, <2>1, <2>2, <3>1 DEF TypeOK, Typed, Change, intakeVars
  <2>5. intake' = intake
    BY <1>3 DEF Change, intakeVars
  <2> QED BY <2>1, <2>2, <2>3, <2>4, <2>5
<1>4. ASSUME NEW W \in SUBSET Workers, Crash(W) PROVE BodiesPassed'
  <2>1. \A o \in Orders :
          \/ atBroker'[o] = atBroker[o]
          \/ \E w \in Workers : wpc[w] = "call" /\ wjob[w] = o /\ atBroker'[o] = wreq[w]
    BY <1>0, <1>4, CrashPlaces
  <2> QED BY <1>4, <2>1 DEF Crash, Dies, NoHandler, Handler
<1>5. CASE UNCHANGED allVars
  BY <1>5 DEF allVars, vars, gatewayVars, intakeVars, jobVars, brokerVars, workerVars
<1> QED BY <1>1, <1>2, <1>3, <1>4, <1>5 DEF GatewayNext

\* The broker gets a body the policy did not pass only for an order whose body a
\* modify replaced.
THEOREM BypassesExplained == GatewaySpec => []BypassOnlyByModify
<1>1. GatewayInit => BodiesPassed
  BY DEF GatewayInit, Init, BodiesPassed, Passed, NoHandler, Handler
<1>2. BodiesPassed => BypassOnlyByModify
  BY DEF BodiesPassed, Passed, BypassOnlyByModify
<1> QED BY <1>1, <1>2, BodiesStep, GatewayTypes, PTL DEF GatewaySpec
-----------------------------------------------------------------------------
\* Custody and the rest of the queue's invariants hold in every life.
LEMMA LivesStep ==
  ASSUME GatewayTypeOK, SingleCustody, NothingEarly, [GatewayNext]_allVars
  PROVE  SingleCustody' /\ NothingEarly'
<1>1. TypeOK
  BY DEF GatewayTypeOK
<1> QED BY <1>1, StepOrCrash, CrashResets, CustodyStep, EarlyStep

\* The broker has the body in the table, or that one was changed too late.
LastBody(o) == atBroker[o] = payload[o] \/ o \in edited

\* So has every placement under way, and every one that was confirmed.
LastBodies ==
  /\ \A o \in Orders : sent[o] = "broker" => LastBody(o)
  /\ \A w \in Workers :
       /\ wpc[w] = "call" => wreq[w] = payload[wjob[w]] \/ wjob[w] \in edited
       /\ wpc[w] = "apply" /\ wans[w] = "OK" => LastBody(wjob[w])

\* What a worker does to the order it has in hand concerns no other one.
LEMMA LastWork ==
  ASSUME TypeOK, SingleCustody, NothingEarly, LastBodies, NEW w \in Workers, Work(w), Poll(w)
  PROVE  LastBodies'
<1> USE OrdersAssumption DEF TypeOK, Typed, LastBodies, LastBody
<1>0. wpc[w] # "idle" => /\ wjob[w] \in Orders /\ sent[wjob[w]] = "no"
                         /\ \A v \in Workers : wjob[v] = wjob[w] => v = w
  BY DEF InHand, NothingEarly, InCustody, Held, SingleCustody
<1>1. \A v \in Workers : wpc[v] # "idle" => wjob[v] \in Orders
  BY DEF InHand
<1>2. edited' = IF wpc[w] = "dispatch" /\ wpc'[w] = "call" THEN edited \ {wjob[w]} ELSE edited
  BY DEF Poll
<1>3. CASE Pop(w)
  <2>1. /\ wpc[w] = "idle" /\ wpc' = [wpc EXCEPT ![w] = "check"]
        /\ \A v \in Workers : v # w => wjob'[v] = wjob[v]
        /\ UNCHANGED <<sent, payload, atBroker, wreq, wans>>
    BY <1>3 DEF Pop, At, jobVars, brokerVars
  <2> QED BY <1>1, <1>2, <2>1
<1>4. CASE PassCheck(w) \/ MarkDispatching(w)
  <2>1. /\ wpc[w] # "dispatch" /\ \E pc \in {"mark", "dispatch"} : wpc' = [wpc EXCEPT ![w] = pc]
        /\ UNCHANGED <<sent, payload, atBroker, wjob, wreq, wans>>
    BY <1>4 DEF PassCheck, MarkDispatching, At, jobVars, brokerVars
  <2> QED BY <1>1, <1>2, <2>1
<1>5. CASE CallAdapter(w)
  <2>1. /\ wpc[w] = "dispatch" /\ wpc' = [wpc EXCEPT ![w] = "call"]
        /\ wreq' = [wreq EXCEPT ![w] = payload[wjob[w]]]
        /\ UNCHANGED <<sent, payload, atBroker, wjob, wans>>
    BY <1>5 DEF CallAdapter, Dispatch, At, brokerVars
  <2>2. edited' = edited \ {wjob[w]}
    BY <1>2, <2>1
  <2>3. \A o \in Orders : sent'[o] = "broker" => LastBody(o)'
    BY <1>0, <2>1, <2>2
  <2>4. ASSUME NEW v \in Workers
        PROVE  /\ wpc'[v] = "call" => wreq'[v] = payload'[wjob'[v]] \/ wjob'[v] \in edited'
               /\ wpc'[v] = "apply" /\ wans'[v] = "OK" => LastBody(wjob[v])'
    <3>1. CASE v = w
      BY <2>1, <3>1
    <3>2. CASE v # w
      BY <1>0, <1>1, <2>1, <2>2, <3>2
    <3> QED BY <3>1, <3>2
  <2> QED BY <2>1, <2>3, <2>4
<1>6. CASE \E ans \in Answers : BrokerAccepts(w, ans)
  <2>1. /\ wpc[w] = "call" /\ wpc' = [wpc EXCEPT ![w] = "apply"]
        /\ atBroker' = [atBroker EXCEPT ![wjob[w]] = wreq[w]]
        /\ \A v \in Workers : v # w => wans'[v] = wans[v]
        /\ UNCHANGED <<sent, payload, wjob, wreq>>
    BY <1>6 DEF BrokerAccepts, At, jobVars
  <2> QED BY <1>0, <1>1, <1>2, <2>1
<1>7. CASE \E ans \in Answers : BrokerRefuses(w, ans)
  <2>1. /\ wpc[w] = "call" /\ wpc' = [wpc EXCEPT ![w] = "apply"]
        /\ wans'[w] # "OK" /\ \A v \in Workers : v # w => wans'[v] = wans[v]
        /\ UNCHANGED <<sent, payload, atBroker, wjob, wreq>>
    BY <1>7 DEF BrokerRefuses, At, jobVars, brokerVars, Errors
  <2> QED BY <1>1, <1>2, <2>1
<1>8. CASE \/ SkipTerminal(w) \/ Sent(w) \/ Retry(w) \/ Reject(w)
           \/ LocalSent(w) \/ LocalReject(w)
  <2>1. /\ wpc[w] # "idle" /\ wpc' = [wpc EXCEPT ![w] = "idle"]
        /\ \A v \in Workers : v # w =>
             wjob'[v] = wjob[v] /\ wreq'[v] = wreq[v] /\ wans'[v] = wans[v]
        /\ UNCHANGED <<payload, atBroker>>
    <3>1. LetGo(w) /\ UNCHANGED <<payload, atBroker>>
      BY <1>8 DEF SkipTerminal, Sent, Retry, GiveBack, Reject, LocalSent, LocalReject,
         jobVars, brokerVars
    <3>2. wpc[w] # "idle"
      BY <1>8 DEF SkipTerminal, Sent, Retry, GiveBack, Reject, LocalSent, LocalReject
    <3>3. wpc' = [wpc EXCEPT ![w] = "idle"]
      BY <3>1 DEF LetGo
    <3>4. \A v \in Workers : v # w =>
            wjob'[v] = wjob[v] /\ wreq'[v] = wreq[v] /\ wans'[v] = wans[v]
      BY <3>1 DEF LetGo
    <3> QED BY <3>1, <3>2, <3>3, <3>4
  <2>2. \A o \in Orders :
          sent'[o] = "broker" =>
            sent[o] = "broker" \/ (o = wjob[w] /\ wpc[w] = "apply" /\ wans[w] = "OK")
    BY <1>0, <1>8 DEF SkipTerminal, Sent, Retry, GiveBack, Reject, LocalSent, LocalReject, jobVars
  <2>3. edited' = edited
    BY <1>2, <2>1
  <2> QED BY <1>1, <2>1, <2>2, <2>3
<1> QED BY <1>3, <1>4, <1>5, <1>6, <1>7, <1>8 DEF Work

\* A new order is with nobody yet, a modify is noted, and a crash ends it all.
LEMMA LastStep ==
  ASSUME GatewayTypeOK, SingleCustody, NothingEarly, LastBodies, [GatewayNext]_allVars
  PROVE  LastBodies'
<1>0. TypeOK
  BY DEF GatewayTypeOK
<1>1. ASSUME NEW t \in Clients, NEW o \in Orders, Create(t, o) PROVE LastBodies'
  <2>1. /\ ~Known(o) /\ UNCHANGED <<sent, atBroker, wpc, wjob, wreq, wans, edited>>
        /\ \A x \in Orders : x # o => payload'[x] = payload[x]
    BY <1>0, <1>1 DEF Create, Enqueue, brokerVars, workerVars, TypeOK, Typed
  <2>2. sent[o] = "no" /\ \A w \in Workers : wjob[w] # o
    BY <1>0, <2>1 DEF NothingEarly, TypeOK, InHand, InCustody, Held
  <2>3. \A w \in Workers : wpc[w] # "idle" => wjob[w] \in Orders
    BY <1>0 DEF TypeOK, InHand
  <2> QED BY <2>1, <2>2, <2>3 DEF LastBodies, LastBody
<1>2. CASE UNCHANGED <<vars, edited>>
  BY <1>2 DEF vars, jobVars, brokerVars, workerVars, LastBodies, LastBody
<1>3. ASSUME NEW t \in Clients, Place(t) PROVE LastBodies'
  BY <1>1, <1>2, <1>3 DEF Place, Ask, Receive, Look, Record
<1>4. ASSUME NEW w \in Workers, Poll(w) PROVE LastBodies'
  <2>1. CASE Work(w)
    BY <1>0, <1>4, <2>1, LastWork
  <2>2. CASE EmptyPoll(w)
    BY <1>2, <1>4, <2>2 DEF Poll, EmptyPoll
  <2> QED BY <1>4, <2>1, <2>2 DEF Poll
<1>5. ASSUME NEW c \in Callers, Change(c) PROVE LastBodies'
  <2>1. UNCHANGED <<sent, atBroker, wpc, wjob, wreq, wans>>
    BY <1>5 DEF Change, Call, RouteCancel, RouteModify, MarkExecution, Serve,
       RefuseTerminal, FindOpen, WriteCancel, WriteModify, WriteExecution,
       jobVars, brokerVars, workerVars
  <2>2. \A o \in Orders : payload'[o] = payload[o] \/ o \in edited'
    <3>1. UNCHANGED payload \/ WriteModify(c)
      BY <1>5 DEF Change, Call, RouteCancel, RouteModify, MarkExecution, Serve,
         RefuseTerminal, FindOpen, WriteCancel, WriteExecution, jobVars
    <3>2. CASE WriteModify(c)
      <4>1. payload' = [payload EXCEPT ![caller[c].job] = caller[c].body]
            /\ caller[c].job \in edited'
        BY <1>5, <3>2 DEF Change, WriteModify, Advance
      <4> QED BY <1>0, <4>1 DEF TypeOK, Typed
    <3> QED BY <3>1, <3>2
  <2>3. edited \subseteq edited'
    BY <1>5 DEF Change
  <2>4. \A w \in Workers : wpc[w] # "idle" => wjob[w] \in Orders
    BY <1>0 DEF TypeOK, InHand
  <2> QED BY <2>1, <2>2, <2>3, <2>4 DEF LastBodies, LastBody
<1>6. CASE \E W \in SUBSET Workers : Crash(W)
  BY <1>6 DEF Crash, Dies, LastBodies
<1>7. CASE UNCHANGED allVars
  BY <1>2, <1>7 DEF allVars, gatewayVars
<1> QED BY <1>3, <1>4, <1>5, <1>6, <1>7 DEF GatewayNext

\* The broker has the body the table shows for every order it confirmed, unless
\* a modify came after the last placement had read it.
THEOREM LastBodiesPlaced == GatewaySpec => []BrokerHasLastBody
<1>1. GatewayInit => SingleCustody /\ NothingEarly
  BY EarlyInit, OrdersAssumption DEF GatewayInit, Init, SingleCustody, InQueue
<1>2. GatewayInit => LastBodies
  BY DEF GatewayInit, Init, LastBodies
<1>3. LastBodies => BrokerHasLastBody
  BY DEF LastBodies, LastBody, BrokerHasLastBody
<1>4. GatewayTypeOK /\ SingleCustody /\ NothingEarly /\ LastBodies /\ [GatewayNext]_allVars
      => SingleCustody' /\ NothingEarly' /\ LastBodies'
  BY LivesStep, LastStep
<1> QED BY <1>1, <1>2, <1>3, <1>4, GatewayTypes, PTL DEF GatewaySpec
=============================================================================
