-------------------------- MODULE OrderQueueProofs --------------------------
(* Theorems about OrderQueue, for any number of orders, workers, callers    *)
(* and attempts.                                                            *)
EXTENDS OrderQueue, TLAPS
-----------------------------------------------------------------------------
(* What append and popleft do to the queue. *)

\* Appending adds one order to those in the queue.
LEMMA QueueAppended ==
  ASSUME queue \in Seq(Orders), NEW x \in Orders, queue' = Append(queue, x)
  PROVE  /\ queue' \in Seq(Orders)
         /\ Len(queue') = Len(queue) + 1
         /\ \A i \in 1..Len(queue) : queue'[i] = queue[i]
         /\ queue'[Len(queue) + 1] = x
         /\ \A o : InQueue(o)' <=> InQueue(o) \/ o = x
<1>1. /\ queue' \in Seq(Orders)
      /\ Len(queue') = Len(queue) + 1
      /\ \A i \in 1..Len(queue) : queue'[i] = queue[i]
      /\ queue'[Len(queue) + 1] = x
  OBVIOUS
<1>2. ASSUME NEW o PROVE InQueue(o)' <=> InQueue(o) \/ o = x
  <2>1. Len(queue) \in Nat
    OBVIOUS
  <2>2. 1..Len(queue') = (1..Len(queue)) \cup {Len(queue) + 1}
    BY <1>1, <2>1
  <2> QED BY <1>1, <2>2 DEF InQueue
<1> QED BY <1>1, <1>2

\* popleft takes the head out, the rest stays in the queue.
LEMMA QueuePopped ==
  ASSUME queue \in Seq(Orders), queue # <<>>, queue' = Tail(queue)
  PROVE  /\ queue' \in Seq(Orders)
         /\ Head(queue) \in Orders
         /\ Head(queue) = queue[1]
         /\ Len(queue') = Len(queue) - 1
         /\ Len(queue) \in Nat \ {0}
         /\ \A i \in 1..Len(queue') : queue'[i] = queue[i + 1]
         /\ \A o : InQueue(o) <=> InQueue(o)' \/ o = Head(queue)
<1>1. /\ queue' \in Seq(Orders)
      /\ Head(queue) \in Orders
      /\ Head(queue) = queue[1]
      /\ Len(queue') = Len(queue) - 1
      /\ Len(queue) \in Nat \ {0}
      /\ \A i \in 1..Len(queue') : queue'[i] = queue[i + 1]
  OBVIOUS
<1>2. ASSUME NEW o PROVE InQueue(o) <=> InQueue(o)' \/ o = Head(queue)
  <2>1. ASSUME InQueue(o) PROVE InQueue(o)' \/ o = Head(queue)
    <3>1. PICK i \in 1..Len(queue) : queue[i] = o
      BY <2>1 DEF InQueue
    <3>2. CASE i = 1 BY <1>1, <3>1, <3>2
    <3>3. CASE i # 1
      <4>1. i - 1 \in 1..Len(queue') /\ queue'[i - 1] = queue[(i - 1) + 1]
        BY <1>1, <3>3
      <4> QED BY SMTT(30), <3>1, <4>1 DEF InQueue
    <3> QED BY <3>2, <3>3
  <2>2. ASSUME InQueue(o)' \/ o = Head(queue) PROVE InQueue(o)
    <3>1. CASE o = Head(queue) BY <1>1, <3>1 DEF InQueue
    <3>2. CASE InQueue(o)'
      <4>1. PICK i \in 1..Len(queue') : queue'[i] = o
        BY <3>2 DEF InQueue
      <4>2. i + 1 \in 1..Len(queue) /\ queue[i + 1] = o
        BY <1>1, <4>1
      <4> QED BY <4>2 DEF InQueue
    <3> QED BY <2>2, <3>1, <3>2
  <2> QED BY <2>1, <2>2
<1> QED BY <1>1, <1>2

Distinct(q) == \A i, j \in 1..Len(q) : q[i] = q[j] => i = j

\* Appending an order that is not in the queue makes no duplicate.
LEMMA AppendDistinct ==
  ASSUME queue \in Seq(Orders), NEW x \in Orders, queue' = Append(queue, x),
         Distinct(queue), ~InQueue(x)
  PROVE  Distinct(queue)'
<1>1. /\ Len(queue') = Len(queue) + 1 /\ Len(queue) \in Nat
      /\ \A i \in 1..Len(queue) : queue'[i] = queue[i]
      /\ queue'[Len(queue) + 1] = x
  BY QueueAppended
<1>2. ASSUME NEW i \in 1..Len(queue'), NEW j \in 1..Len(queue'), queue'[i] = queue'[j]
      PROVE  i = j
  <2>1. i \in 1..Len(queue) \/ i = Len(queue) + 1
    BY <1>1
  <2>2. j \in 1..Len(queue) \/ j = Len(queue) + 1
    BY <1>1
  <2>3. \A k \in 1..Len(queue) : queue[k] # x
    BY DEF InQueue
  <2> QED BY <1>1, <1>2, <2>1, <2>2, <2>3 DEF Distinct
<1> QED BY <1>2 DEF Distinct

\* In a queue without duplicates the head is not in the tail.
LEMMA TailDistinct ==
  ASSUME queue \in Seq(Orders), queue # <<>>, queue' = Tail(queue), Distinct(queue),
         NEW h, h = Head(queue)
  PROVE  Distinct(queue)' /\ ~InQueue(h)'
<1>1. /\ Head(queue) = queue[1]
      /\ Len(queue') = Len(queue) - 1
      /\ Len(queue) \in Nat \ {0}
      /\ \A i \in 1..Len(queue') : queue'[i] = queue[i + 1]
  BY QueuePopped
<1>2. \A i \in 1..Len(queue') : i \in Int /\ i + 1 # 1 /\ i + 1 \in 1..Len(queue)
  BY <1>1
<1>3. 1 \in 1..Len(queue)
  BY <1>1
<1>4. Distinct(queue)'
  <2>1. ASSUME NEW i \in 1..Len(queue'), NEW j \in 1..Len(queue'), queue'[i] = queue'[j]
        PROVE  i = j
    <3>1. i + 1 = j + 1
      BY <1>1, <1>2, <2>1 DEF Distinct
    <3> QED BY <1>2, <3>1
  <2> QED BY <2>1 DEF Distinct
<1>5. \A i \in 1..Len(queue') : queue'[i] # h
  BY <1>1, <1>2, <1>3 DEF Distinct
<1> QED BY <1>4, <1>5 DEF InQueue

\* What is in the queue depends on the queue alone.
LEMMA QueueKept ==
  ASSUME queue' = queue
  PROVE  \A o : InQueue(o)' <=> InQueue(o)
BY DEF InQueue
-----------------------------------------------------------------------------
\* The type invariant holds initially.
LEMMA TypeInit == Init => TypeOK
BY OrdersAssumption DEF Init, TypeOK, Typed, InHand, Statuses, WorkerSteps,
   Errors, Answers, NoRequest, Request, NoPass, Pass, InCustody, InQueue, Held

\* enqueue keeps the type invariant.
LEMMA TypeEnqueue ==
  ASSUME TypeOK, NEW o \in Orders, NEW p \in Payloads, Enqueue(o, p)
  PROVE  TypeOK'
<1> USE DEF TypeOK, Enqueue, brokerVars, workerVars
<1>1. Typed'
  BY DEF Typed, Statuses
<1>2. \A x : InQueue(x)' <=> InQueue(x) \/ x = o
  BY QueueAppended DEF Typed
<1>3. \A x \in Orders : Known(x) \/ x = o => Known(x)'
  BY DEF Typed, Known
<1>4. InHand'
  BY <1>2, <1>3 DEF InHand, InCustody, Held, Typed
<1> QED BY <1>1, <1>4

\* Every step of process_next keeps the type invariant.
LEMMA TypeWork ==
  ASSUME TypeOK, NEW w \in Workers, Work(w)
  PROVE  TypeOK'
<1> USE DEF TypeOK, brokerVars, jobVars
<1> DEFINE o == wjob[w]
<1>1. CASE Pop(w)
  <2> USE <1>1 DEF Pop, At
  <2>1. Head(queue) \in Orders /\ queue' \in Seq(Orders)
    BY QueuePopped DEF Typed
  <2>2. Typed'
    BY <2>1 DEF Typed, WorkerSteps
  <2>3. \A x : InQueue(x)' \/ x = Head(queue) <=> InQueue(x)
    BY QueuePopped DEF Typed
  <2>4. \A x \in Orders : Known(x)' <=> Known(x)
    BY DEF Known
  <2>5. InHand'
    BY <2>1, <2>3, <2>4 DEF InHand, InCustody, Held, Typed, WorkerSteps
  <2> QED BY <2>2, <2>5
<1>2. CASE SkipTerminal(w)
  BY <1>2, QueueKept, OrdersAssumption DEF SkipTerminal, LetGo, Typed, InHand,
     InCustody, Held, Known, WorkerSteps, Answers, Errors
<1>3. CASE PassCheck(w)
  BY <1>3, QueueKept DEF PassCheck, At, Typed, InHand, InCustody, Held, Known,
     WorkerSteps
<1>4. CASE MarkDispatching(w)
  BY <1>4, QueueKept DEF MarkDispatching, At, Typed, InHand, InCustody, Held,
     Known, WorkerSteps, Statuses
<1>5. CASE CallAdapter(w)
  <2>1. o \in Orders
    BY <1>5 DEF CallAdapter, Dispatch, At, InHand
  <2>2. Typed'
    BY <1>5, <2>1 DEF CallAdapter, Dispatch, At, Typed, WorkerSteps
  <2>3. InHand'
    BY <1>5, QueueKept DEF CallAdapter, Dispatch, At, Typed, InHand, InCustody, Held,
       Known, WorkerSteps
  <2> QED BY <2>2, <2>3
<1>6. ASSUME NEW ans \in Answers, BrokerAccepts(w, ans) PROVE TypeOK'
  <2>1. o \in Orders
    BY <1>6 DEF BrokerAccepts, At, InHand
  <2>2. /\ placed' \in [Orders -> Nat]
        /\ lost' \in [Orders -> Nat]
        /\ atBroker' \in [Orders -> Payloads \cup {NoPayload}]
    BY <1>6, <2>1 DEF BrokerAccepts, Typed
  <2>3. Typed'
    BY <1>6, <2>2 DEF BrokerAccepts, At, Typed, WorkerSteps
  <2>4. InHand'
    BY <1>6, QueueKept DEF BrokerAccepts, At, Typed, InHand, InCustody, Held,
       Known, WorkerSteps
  <2> QED BY <2>3, <2>4
<1>7. ASSUME NEW ans \in Answers, BrokerRefuses(w, ans) PROVE TypeOK'
  BY <1>7, QueueKept DEF BrokerRefuses, At, Typed, InHand, InCustody, Held,
     Known, WorkerSteps, Answers
<1>8. CASE Sent(w)
  <2>1. Typed'
    BY <1>8, OrdersAssumption DEF Sent, LetGo, Typed, WorkerSteps, Statuses, Answers
  <2>2. InHand'
    BY <1>8, QueueKept, OrdersAssumption DEF Sent, LetGo, Typed, InHand,
       InCustody, Held, Known, WorkerSteps, Answers, Errors
  <2> QED BY <2>1, <2>2
<1>9. CASE Retry(w)
  <2> USE <1>9 DEF Retry, GiveBack, LetGo
  <2>1. o \in Orders
    BY DEF InHand
  <2>2. Typed'
    BY <2>1, QueueAppended DEF Typed, WorkerSteps, Statuses
  <2>3. \A x : InQueue(x)' <=> InQueue(x) \/ x = o
    BY <2>1, QueueAppended DEF Typed
  <2>4. \A x \in Orders : Known(x) => Known(x)'
    BY DEF Known, Typed
  <2>5. \A x \in Orders : InCustody(x)' => Known(x)'
    BY <2>1, <2>3, <2>4, OrdersAssumption DEF InHand, InCustody, Held, Typed
  <2>6. InHand'
    BY <2>4, <2>5, OrdersAssumption DEF InHand, Typed, Answers, Errors
  <2> QED BY <2>2, <2>6
<1>10. CASE Reject(w)
  BY <1>10, QueueKept, OrdersAssumption DEF Reject, LetGo, Typed, InHand,
     InCustody, Held, Known, WorkerSteps, Statuses, Terminals, Answers, Errors
<1>11. CASE LocalSent(w)
  BY SMTT(30), <1>11, QueueKept, OrdersAssumption DEF LocalSent, LetGo, Typed, InHand,
     InCustody, Held, Known, WorkerSteps, Statuses, Answers, Errors
<1>12. CASE LocalReject(w)
  BY <1>12, QueueKept, OrdersAssumption DEF LocalReject, LetGo, Typed, InHand,
     InCustody, Held, Known, WorkerSteps, Statuses, Terminals, Answers, Errors
<1> QED
  BY <1>1, <1>2, <1>3, <1>4, <1>5, <1>6, <1>7, <1>8, <1>9, <1>10, <1>11,
     <1>12 DEF Work

\* Every step of an HTTP or execution-feed thread keeps the type invariant.
LEMMA TypeCall ==
  ASSUME TypeOK, NEW c \in Callers, Call(c)
  PROVE  TypeOK'
<1> USE DEF TypeOK, brokerVars, jobVars, workerVars
<1> DEFINE o == caller[c].job
<1>1. ASSUME NEW x \in Orders, NEW k \in Requests,
             NEW b \in Payloads \cup {NoPayload}, Known(x), Serve(c, x, k, b)
      PROVE  TypeOK'
  BY <1>1, QueueKept DEF Serve, Request, Typed, InHand, InCustody, Held, Known
<1>2. CASE \E x \in Orders : RouteCancel(c, x)
  BY <1>1, <1>2 DEF RouteCancel, Admitted, Serve
<1>3. CASE \E x \in Orders, b \in Payloads : RouteModify(c, x, b)
  BY <1>1, <1>3 DEF RouteModify, Admitted, Serve
<1>4. CASE \E x \in Orders, k \in Requests : MarkExecution(c, x, k)
  BY <1>1, <1>4 DEF MarkExecution
<1>5. CASE RefuseTerminal(c)
  BY <1>5, QueueKept DEF RefuseTerminal, Advance, NoRequest, Request, Typed,
     InHand, InCustody, Held, Known
<1>6. CASE FindOpen(c)
  BY <1>6, QueueKept DEF FindOpen, Advance, Request, Typed, InHand, InCustody,
     Held, Known
<1>7. CASE WriteCancel(c)
  BY <1>7, QueueKept DEF WriteCancel, Advance, NoRequest, Request, Typed,
     InHand, InCustody, Held, Known, Statuses
<1>8. CASE WriteModify(c)
  BY <1>8, QueueKept DEF WriteModify, Advance, NoRequest, Request, Typed,
     InHand, InCustody, Held, Known, Statuses
<1>9. CASE WriteExecution(c)
  BY <1>9, QueueKept DEF WriteExecution, Advance, NoRequest, Request, Typed,
     InHand, InCustody, Held, Known, Statuses, Terminals
<1> QED
  BY <1>2, <1>3, <1>4, <1>5, <1>6, <1>7, <1>8, <1>9 DEF Call

\* Every step of a reconciliation pass keeps the type invariant.
LEMMA TypeReconcile ==
  ASSUME TypeOK, Reconcile
  PROVE  TypeOK'
<1> USE DEF TypeOK, Pass, brokerVars, jobVars, workerVars
<1>1. CASE BeginPass
  BY <1>1, QueueKept DEF BeginPass, OnlyRecon, Typed, InHand, InCustody, Held, Known
<1>2. CASE Compare
  BY <1>2, QueueKept DEF Compare, Rescan, OnlyRecon, Typed, InHand, InCustody,
     Held, Known
<1>3. CASE ApplyCorrection
  BY <1>3, QueueKept, BrokerAssumption DEF ApplyCorrection, Rescan, Typed,
     InHand, InCustody, Held, Known, Statuses
<1>4. CASE EndPass
  BY <1>4, QueueKept DEF EndPass, NoPass, OnlyRecon, Typed, InHand, InCustody,
     Held, Known
<1>5. ASSUME NEW o \in Orders, NoAnswer(o) PROVE TypeOK'
  BY <1>5, QueueKept DEF NoAnswer, OnlyRecon, Typed, InHand, InCustody, Held, Known
<1>6. ASSUME NEW o \in Orders, NEW answer \in BrokerStatuses, AskBroker(o, answer)
      PROVE  TypeOK'
  BY <1>6, QueueKept DEF AskBroker, OnlyRecon, Typed, InHand, InCustody, Held, Known
<1> QED
  BY <1>1, <1>2, <1>3, <1>4, <1>5, <1>6 DEF Reconcile

\* So does a step that changes nothing.
LEMMA TypeStutter == TypeOK /\ UNCHANGED vars => TypeOK'
BY QueueKept DEF vars, brokerVars, jobVars, workerVars, TypeOK, Typed, InHand,
   InCustody, Held, Known

\* The type invariant is inductive.
LEMMA TypeStep == TypeOK /\ [Next]_vars => TypeOK'
BY TypeEnqueue, TypeWork, TypeCall, TypeReconcile, TypeStutter
DEF Next, EmptyPoll

\* Every variable keeps its type, and every thread in the middle of an
\* operation has in hand a job of the table.
THEOREM TypeCorrect == Spec => []TypeOK
BY TypeInit, TypeStep, PTL DEF Spec
-----------------------------------------------------------------------------
(* Callers, reconciliation and idle polls leave queue, workers and the      *)
(* history of every order alone, and no job leaves the table.               *)
coreVars == <<queue, attempts, sent, placed, lost, wpc, wjob, wans>>

\* Callers and reconciliation touch nothing of the custody of orders.
LEMMA Outside ==
  ASSUME TypeOK, \/ \E c \in Callers : Call(c)
                 \/ Reconcile
                 \/ \E w \in Workers : EmptyPoll(w)
                 \/ UNCHANGED vars
  PROVE  /\ UNCHANGED coreVars
         /\ \A o \in Orders : Known(o)' <=> Known(o)
<1> USE DEF brokerVars, jobVars, workerVars, coreVars
<1>1. ASSUME NEW c \in Callers, Call(c)
      PROVE  UNCHANGED coreVars /\ \A o \in Orders : Known(o)' <=> Known(o)
  <2>1. UNCHANGED coreVars
    BY <1>1 DEF Call, RouteCancel, RouteModify, MarkExecution, Serve,
       RefuseTerminal, FindOpen, WriteCancel, WriteModify, WriteExecution
  <2>2. \/ UNCHANGED status
        \/ \E s \in {"CANCEL_PENDING", "MODIFY_PENDING", "FILLED", "REJECTED"} :
             status' = [status EXCEPT ![caller[c].job] = s]
    BY <1>1 DEF Call, RouteCancel, RouteModify, MarkExecution, Serve,
       RefuseTerminal, FindOpen, WriteCancel, WriteModify, WriteExecution
  <2>3. caller[c].pc # "idle" => Known(caller[c].job)
    BY DEF TypeOK, InHand
  <2>4. status' = status \/ caller[c].pc # "idle"
    BY <1>1 DEF Call, RouteCancel, RouteModify, MarkExecution, Serve, Advance,
       RefuseTerminal, FindOpen, WriteCancel, WriteModify, WriteExecution
  <2> QED BY <2>1, <2>2, <2>3, <2>4 DEF Known, TypeOK, Typed
<1>2. ASSUME Reconcile
      PROVE  UNCHANGED coreVars /\ \A o \in Orders : Known(o)' <=> Known(o)
  <2>1. UNCHANGED coreVars
    BY <1>2 DEF Reconcile, BeginPass, Compare, ApplyCorrection, EndPass, NoAnswer,
       AskBroker, OnlyRecon
  <2>2. \/ UNCHANGED status
        \/ ApplyCorrection
    BY <1>2 DEF Reconcile, BeginPass, Compare, EndPass, NoAnswer, AskBroker, OnlyRecon
  <2>3. CASE ApplyCorrection
    BY <2>1, <2>3, BrokerAssumption DEF ApplyCorrection, Known, TypeOK, Typed, InHand
  <2> QED BY <2>1, <2>2, <2>3 DEF Known
<1>3. ASSUME UNCHANGED vars
      PROVE  UNCHANGED coreVars /\ \A o \in Orders : Known(o)' <=> Known(o)
  BY <1>3 DEF vars, Known
<1> QED BY <1>1, <1>2, <1>3 DEF EmptyPoll

\* A step of a worker takes the head of the queue, leaves its job where it is,
\* or lets it go, the last with or without appending it to the queue.
LEMMA WorkMoves ==
  ASSUME TypeOK, NEW w \in Workers, Work(w)
  PROVE  \/ /\ queue # <<>> /\ queue' = Tail(queue)
            /\ wpc[w] = "idle"
            /\ wjob' = [wjob EXCEPT ![w] = Head(queue)]
         \/ UNCHANGED <<queue, wjob>>
         \/ /\ wpc[w] # "idle"
            /\ wjob' = [wjob EXCEPT ![w] = NoOrder]
            /\ queue' \in {queue, Append(queue, wjob[w])}
BY DEF Work, Pop, SkipTerminal, PassCheck, MarkDispatching, CallAdapter, Dispatch,
   BrokerAccepts, BrokerRefuses, Sent, Retry, GiveBack, Reject, LocalSent,
   LocalReject, At, LetGo, jobVars, brokerVars, TypeOK, Typed, InHand

\* Custody is inductive: only Pop, Retry and Enqueue move an order.
LEMMA CustodyStep ==
  ASSUME TypeOK, SingleCustody, [Next]_vars
  PROVE  SingleCustody'
<1> USE OrdersAssumption DEF TypeOK, Typed
<1>0. Distinct(queue)
  BY DEF SingleCustody, Distinct
<1>1. ASSUME NEW o \in Orders, NEW p \in Payloads, Enqueue(o, p)
      PROVE  SingleCustody'
  <2>1. ~InCustody(o)
    BY <1>1 DEF Enqueue, InHand
  <2>2. queue' = Append(queue, o) /\ UNCHANGED wjob
    BY <1>1 DEF Enqueue, workerVars
  <2>3. \A x : InQueue(x)' <=> InQueue(x) \/ x = o
    BY <2>2, QueueAppended
  <2>4. Distinct(queue)'
    BY <1>0, <2>1, <2>2, AppendDistinct DEF InCustody
  <2> QED
    BY <2>1, <2>2, <2>3, <2>4 DEF InCustody, Held, SingleCustody, Distinct
<1>2. ASSUME NEW w \in Workers, Work(w) PROVE SingleCustody'
  <2>1. CASE /\ queue # <<>> /\ queue' = Tail(queue)
             /\ wpc[w] = "idle"
             /\ wjob' = [wjob EXCEPT ![w] = Head(queue)]
    <3>1. PICK h : h = Head(queue)
      OBVIOUS
    <3>2. h \in Orders /\ \A x : InQueue(x) <=> InQueue(x)' \/ x = h
      BY <2>1, <3>1, QueuePopped
    <3>3. Distinct(queue)' /\ ~InQueue(h)'
      BY <1>0, <2>1, <3>1, TailDistinct
    <3>4. \A v \in Workers : wjob[v] # h
      BY <3>2 DEF SingleCustody
    <3> QED
      BY <2>1, <3>1, <3>2, <3>3, <3>4 DEF SingleCustody, Distinct
  <2>2. CASE UNCHANGED <<queue, wjob>>
    BY <2>2, QueueKept DEF SingleCustody
  <2>3. CASE /\ wpc[w] # "idle"
             /\ wjob' = [wjob EXCEPT ![w] = NoOrder]
             /\ queue' \in {queue, Append(queue, wjob[w])}
    <3>1. PICK h : h = wjob[w]
      OBVIOUS
    <3>2. h \in Orders /\ ~InQueue(h)
      BY <2>3, <3>1 DEF InHand, SingleCustody
    <3>3. ~InQueue(NoOrder)
      BY DEF InQueue
    <3>4. CASE queue' = queue
      BY <2>3, <3>3, <3>4, QueueKept DEF SingleCustody
    <3>5. CASE queue' = Append(queue, h)
      <4>1. Distinct(queue)'
        BY <1>0, <3>2, <3>5, AppendDistinct
      <4>2. \A x : InQueue(x)' <=> InQueue(x) \/ x = h
        BY <3>2, <3>5, QueueAppended
      <4> QED
        BY <2>3, <3>1, <3>2, <3>3, <4>1, <4>2 DEF SingleCustody, Distinct
    <3> QED BY <2>3, <3>1, <3>4, <3>5
  <2> QED BY <1>2, <2>1, <2>2, <2>3, WorkMoves
<1>3. CASE UNCHANGED <<queue, wjob>>
  BY <1>3, QueueKept DEF SingleCustody
<1> QED
  BY <1>1, <1>2, <1>3, Outside DEF Next, coreVars

\* A job is in one place: once in the queue, or in the hands of one worker.
THEOREM Custody == Spec => []SingleCustody
<1>1. Init => SingleCustody
  BY OrdersAssumption DEF Init, SingleCustody, InQueue
<1> QED
  BY <1>1, CustodyStep, TypeCorrect, PTL DEF Spec
-----------------------------------------------------------------------------
\* The attempt limit is inductive, given that custody is single.
LEMMA AttemptsStep ==
  ASSUME TypeOK, SingleCustody, NothingEarly, AttemptsWithinLimit, [Next]_vars
  PROVE  AttemptsWithinLimit'
<1> USE OrdersAssumption, AttemptsAssumption DEF TypeOK, Typed, AttemptsWithinLimit
<1>1. ASSUME NEW o \in Orders, NEW p \in Payloads, Enqueue(o, p)
      PROVE  AttemptsWithinLimit'
  <2>1. \A x : InQueue(x)' <=> InQueue(x) \/ x = o
    BY <1>1, QueueAppended DEF Enqueue
  <2>2. attempts[o] = 0
    BY <1>1 DEF Enqueue, NothingEarly
  <2> QED BY <1>1, <2>1, <2>2 DEF Enqueue, workerVars
<1>2. ASSUME NEW w \in Workers, Work(w) PROVE AttemptsWithinLimit'
  <2>1. CASE Pop(w)
    <3>1. \A x : InQueue(x) <=> InQueue(x)' \/ x = Head(queue)
      BY <2>1, QueuePopped DEF Pop
    <3> QED BY <2>1, <3>1 DEF Pop, At, jobVars
  <2>2. CASE SkipTerminal(w)
    BY <2>2, QueueKept DEF SkipTerminal, LetGo, jobVars
  <2>3. CASE PassCheck(w)
    BY <2>3, QueueKept DEF PassCheck, At, jobVars
  <2>4. CASE MarkDispatching(w)
    BY <2>4, QueueKept DEF MarkDispatching, At
  <2>5. CASE CallAdapter(w)
    <3>1. PICK o \in Orders : o = wjob[w]
      BY <2>5 DEF CallAdapter, Dispatch, At, InHand
    <3>2. attempts[o] < MaxAttempts /\ ~InQueue(o)'
      BY <2>5, <3>1, QueueKept DEF CallAdapter, Dispatch, At, SingleCustody
    <3>3. attempts' = [attempts EXCEPT ![o] = @ + 1]
      BY <2>5, <3>1 DEF CallAdapter, Dispatch
    <3>4. \A v \in Workers : wjob'[v] = o => v = w
      BY <2>5, <3>1 DEF CallAdapter, Dispatch, SingleCustody
    <3> QED BY <2>5, <3>1, <3>2, <3>3, <3>4, QueueKept DEF CallAdapter, Dispatch, At
  <2>6. CASE \E ans \in Answers : BrokerAccepts(w, ans)
    BY <2>6, QueueKept DEF BrokerAccepts, At, jobVars
  <2>7. CASE \E ans \in Answers : BrokerRefuses(w, ans)
    BY <2>7, QueueKept DEF BrokerRefuses, At, jobVars
  <2>8. CASE Sent(w) BY <2>8, QueueKept DEF Sent, LetGo
  <2>9. CASE Retry(w)
    <3>1. wjob[w] \in Orders
      BY <2>9 DEF Retry, GiveBack, InHand
    <3>2. \A x : InQueue(x)' <=> InQueue(x) \/ x = wjob[w]
      BY <2>9, <3>1, QueueAppended DEF Retry, GiveBack
    <3> QED BY <2>9, <3>1, <3>2 DEF Retry, GiveBack, LetGo, MayRetry
  <2>10. CASE Reject(w) BY <2>10, QueueKept DEF Reject, LetGo
  <2>11. CASE LocalSent(w) BY <2>11, QueueKept DEF LocalSent, LetGo
  <2>12. CASE LocalReject(w) BY <2>12, QueueKept DEF LocalReject, LetGo
  <2> QED
    BY <1>2, <2>1, <2>2, <2>3, <2>4, <2>5, <2>6, <2>7, <2>8, <2>9, <2>10,
       <2>11, <2>12 DEF Work
<1>3. CASE UNCHANGED coreVars
  BY <1>3, QueueKept DEF coreVars
<1> QED
  BY <1>1, <1>2, <1>3, Outside DEF Next

\* So is the absence of a history before enqueue and of a sent order in custody.
LEMMA EarlyStep ==
  ASSUME TypeOK, SingleCustody, NothingEarly, [Next]_vars
  PROVE  NothingEarly'
<1> USE OrdersAssumption DEF TypeOK, Typed, NothingEarly, InCustody, Held
<1>1. ASSUME NEW o \in Orders, NEW p \in Payloads, Enqueue(o, p)
      PROVE  NothingEarly'
  <2>1. \A x : InQueue(x)' <=> InQueue(x) \/ x = o
    BY <1>1, QueueAppended DEF Enqueue
  <2>2. sent[o] = "no" /\ \A x \in Orders : Known(x)' <=> Known(x) \/ x = o
    BY <1>1 DEF Enqueue, Known
  <2> QED BY <1>1, <2>1, <2>2 DEF Enqueue, workerVars, brokerVars
<1>2. ASSUME NEW w \in Workers, Work(w) PROVE NothingEarly'
  <2> DEFINE o == wjob[w]
  <2>0. wpc[w] # "idle" => o \in Orders /\ Known(o)
    BY DEF InHand
  <2>1. CASE Pop(w)
    <3>1. \A x : InQueue(x) <=> InQueue(x)' \/ x = Head(queue)
      BY <2>1, QueuePopped DEF Pop
    <3> QED BY <2>1, <3>1 DEF Pop, At, jobVars, brokerVars, Known
  <2>2. CASE SkipTerminal(w)
    BY <2>2, QueueKept DEF SkipTerminal, LetGo, jobVars, brokerVars, Known
  <2>3. CASE PassCheck(w)
    BY <2>3, QueueKept DEF PassCheck, At, jobVars, brokerVars, Known
  <2>4. CASE MarkDispatching(w)
    BY <2>0, <2>4, QueueKept DEF MarkDispatching, At, brokerVars, Known
  <2>5. CASE CallAdapter(w)
    BY <2>0, <2>5, QueueKept DEF CallAdapter, Dispatch, At, brokerVars, Known
  <2>6. CASE \E ans \in Answers : BrokerAccepts(w, ans)
    BY <2>0, <2>6, QueueKept DEF BrokerAccepts, At, jobVars, Known
  <2>7. CASE \E ans \in Answers : BrokerRefuses(w, ans)
    BY <2>7, QueueKept DEF BrokerRefuses, At, jobVars, brokerVars, Known
  <2>8. CASE Sent(w) \/ LocalSent(w)
    <3>0. PICK x \in Orders : x = o
      BY <2>0, <2>8 DEF Sent, LocalSent
    <3>1. /\ wpc[w] # "idle" /\ UNCHANGED <<queue, attempts, brokerVars>>
          /\ wjob' = [wjob EXCEPT ![w] = NoOrder]
          /\ \E how \in {"broker", "local"} : sent' = [sent EXCEPT ![x] = how]
          /\ status' = [status EXCEPT ![x] = "SENT"]
      BY <2>8, <3>0 DEF Sent, LocalSent, LetGo
    <3>2. ~InQueue(x)' /\ \A v \in Workers : wjob'[v] # x
      BY <3>0, <3>1, QueueKept DEF SingleCustody
    <3>3. \A y : InQueue(y)' <=> InQueue(y)
      BY <3>1, QueueKept
    <3>4. Known(x)
      BY <2>0, <3>0, <3>1
    <3> QED BY <3>1, <3>2, <3>3, <3>4 DEF brokerVars, Known
  <2>9. CASE Retry(w)
    <3>1. \A x : InQueue(x)' <=> InQueue(x) \/ x = o
      BY <2>0, <2>9, QueueAppended DEF Retry, GiveBack
    <3> QED BY <2>0, <2>9, <3>1 DEF Retry, GiveBack, LetGo, brokerVars, Known
  <2>10. CASE Reject(w) \/ LocalReject(w)
    <3>1. /\ wpc[w] # "idle" /\ UNCHANGED <<queue, attempts, sent, brokerVars>>
          /\ wjob' = [wjob EXCEPT ![w] = NoOrder]
          /\ status' = [status EXCEPT ![o] = "REJECTED"]
      BY <2>10 DEF Reject, LocalReject, LetGo
    <3>2. \A x \in Orders : Known(x)' <=> Known(x)
      BY <2>0, <3>1 DEF Known
    <3> QED BY <3>1, <3>2, QueueKept DEF brokerVars
  <2> QED
    BY <1>2, <2>1, <2>2, <2>3, <2>4, <2>5, <2>6, <2>7, <2>8, <2>9, <2>10 DEF Work
<1>3. CASE UNCHANGED coreVars /\ \A x \in Orders : Known(x)' <=> Known(x)
  BY <1>3, QueueKept DEF coreVars
<1> QED
  BY <1>1, <1>2, <1>3, Outside DEF Next

\* Both hold initially.
LEMMA EarlyInit == Init => NothingEarly /\ AttemptsWithinLimit
BY OrdersAssumption, AttemptsAssumption DEF Init, NothingEarly,
   AttemptsWithinLimit, Known, InCustody, InQueue, Held

\* An order not yet accepted has no attempt, and an order
\* that was sent is neither queued nor held: nothing is dispatched after SENT.
THEOREM NoHistory == Spec => []NothingEarly
BY EarlyInit, EarlyStep, TypeCorrect, Custody, PTL DEF Spec

\* place_order is called at most max_attempts times for an order, whichever
\* workers take it, and an order in the queue always has an attempt left.
THEOREM AttemptsLimited == Spec => []AttemptsWithinLimit
BY EarlyInit, AttemptsStep, TypeCorrect, Custody, NoHistory, PTL DEF Spec
-----------------------------------------------------------------------------
\* Of an order in the hands of a worker only that worker's answer counts.
LEMMA ConfirmedByHolder ==
  ASSUME TypeOK, SingleCustody, NothingEarly, NEW w \in Workers, NEW o \in Orders,
         wjob[w] = o
  PROVE  sent[o] = "no" /\ (Confirmed(o) <=> wans[w] = "OK")
BY OrdersAssumption DEF SingleCustody, NothingEarly, InCustody, Held, Confirmed

\* A worker that had no answer and has none afterwards changes nothing of what is
\* confirmed.
LEMMA ConfirmedKept ==
  ASSUME NEW w \in Workers, wans[w] # "OK", wans'[w] # "OK", UNCHANGED sent,
         \A v \in Workers \ {w} : wjob'[v] = wjob[v] /\ wans'[v] = wans[v]
  PROVE  \A x \in Orders : Confirmed(x)' <=> Confirmed(x)
<1> SUFFICES ASSUME NEW x \in Orders PROVE Confirmed(x)' <=> Confirmed(x)
  OBVIOUS
<1>1. \A v \in Workers :
        (wjob'[v] = x /\ wans'[v] = "OK") <=> (wjob[v] = x /\ wans[v] = "OK")
  OBVIOUS
<1> QED BY <1>1 DEF Confirmed

\* The placements of an order stay accounted for, as lost or as confirmed.
LEMMA PlacementsStep ==
  ASSUME TypeOK, SingleCustody, NothingEarly, [Next]_vars,
         TypeOK', SingleCustody', NothingEarly'
  PROVE  \A x \in Orders : Explained(x) => Explained(x)'
<1> USE OrdersAssumption DEF Explained
<1>0. Typed /\ Typed'
  BY DEF TypeOK
<1>1. ASSUME UNCHANGED <<sent, wjob, wans, placed, lost>>
      PROVE  \A x \in Orders : Explained(x) => Explained(x)'
  BY <1>1 DEF Confirmed
<1>2. ASSUME NEW w \in Workers, Work(w) PROVE  \A x \in Orders : Explained(x) => Explained(x)'
  <2>0. PICK o : o = wjob[w]
    OBVIOUS
  <2>1. CASE Pop(w)
    <3>1. wans[w] = "none" /\ wpc[w] = "idle" /\ wjob[w] = NoOrder
      BY <2>1, <1>0 DEF Pop, At, TypeOK, InHand, Typed, WorkerSteps, Answers, Errors
    <3>2. \A x \in Orders : Confirmed(x)' <=> Confirmed(x)
      <4>1. wans' = wans /\ sent' = sent
        BY <2>1 DEF Pop, jobVars
      <4>2. \A v \in Workers \ {w} : wjob'[v] = wjob[v]
        BY <2>1, <1>0 DEF Pop, Typed
      <4> QED BY <3>1, <4>1, <4>2, ConfirmedKept
    <3> QED BY <2>1, <3>2 DEF Pop, brokerVars
  <2>2. CASE SkipTerminal(w)
    <3>1. wans[w] # "OK"
      BY <2>2, <1>0 DEF SkipTerminal, TypeOK, InHand, Answers, Errors
    <3>2. \A x \in Orders : Confirmed(x)' <=> Confirmed(x)
      <4>1. sent' = sent /\ wans'[w] # "OK"
        BY <2>2, <1>0 DEF SkipTerminal, LetGo, jobVars, Typed
      <4>2. \A v \in Workers \ {w} : wjob'[v] = wjob[v] /\ wans'[v] = wans[v]
        BY <2>2, <1>0 DEF SkipTerminal, LetGo, Typed
      <4> QED BY <3>1, <4>1, <4>2, ConfirmedKept
    <3> QED BY <2>2, <3>2 DEF SkipTerminal, brokerVars
  <2>3. CASE PassCheck(w) \/ MarkDispatching(w) \/ CallAdapter(w)
    BY <1>1, <2>3 DEF PassCheck, MarkDispatching, CallAdapter, Dispatch, jobVars, brokerVars
  <2>4. CASE \E ans \in Answers : BrokerAccepts(w, ans)
    <3>1. PICK ans \in Answers : BrokerAccepts(w, ans)
      BY <2>4
    <3>2. o \in Orders /\ wans[w] # "OK"
      BY <2>0, <3>1, <1>0 DEF BrokerAccepts, At, TypeOK, InHand, Answers, Errors
    <3>3. ~Confirmed(o)
      BY <2>0, <3>2, ConfirmedByHolder
    <3>4. /\ wjob' = wjob /\ wans' = [wans EXCEPT ![w] = ans] /\ sent' = sent
          /\ placed' = [placed EXCEPT ![o] = @ + 1]
          /\ lost' = [lost EXCEPT ![o] = IF ans = "OK" THEN @ ELSE @ + 1]
      BY <2>0, <3>1 DEF BrokerAccepts, jobVars
    <3>5. Confirmed(o)' <=> ans = "OK"
      <4>1. wans'[w] = ans /\ wjob'[w] = o
        BY <3>4, <2>0, <1>0 DEF Typed
      <4> QED BY <4>1, <3>2, ConfirmedByHolder, <3>3, <3>4 DEF Confirmed, SingleCustody
    <3>6. \A x \in Orders \ {o} : Confirmed(x)' <=> Confirmed(x)
      BY <2>0, <3>4, <1>0 DEF Confirmed, Typed
    <3>7. Explained(o) => placed[o] = lost[o] + 0
      BY <3>2, <3>3
    <3>8. placed[o] \in Nat /\ lost[o] \in Nat
      BY <3>2, <1>0 DEF Typed
    <3>9. \A x \in Orders \ {o} : placed'[x] = placed[x] /\ lost'[x] = lost[x]
      BY <3>4, <1>0 DEF Typed
    <3>10. placed'[o] = placed[o] + 1 /\ lost'[o] = IF ans = "OK" THEN lost[o] ELSE lost[o] + 1
      BY <3>2, <3>4, <1>0 DEF Typed
    <3>11. Explained(o) => placed'[o] = lost'[o] + (IF Confirmed(o)' THEN 1 ELSE 0)
      BY <3>1, <3>5, <3>7, <3>8, <3>10
    <3> QED BY <3>6, <3>9, <3>11
  <2>5. CASE \E ans \in Answers : BrokerRefuses(w, ans)
    <3>1. PICK ans \in Errors : BrokerRefuses(w, ans)
      BY <2>5 DEF BrokerRefuses
    <3>2. wans[w] # "OK"
      BY <3>1, <1>0 DEF BrokerRefuses, At, TypeOK, InHand, Answers, Errors
    <3>3. \A x \in Orders : Confirmed(x)' <=> Confirmed(x)
      BY <3>1, <3>2, <1>0 DEF BrokerRefuses, jobVars, Confirmed, Typed, Errors
    <3> QED BY <3>1, <3>3 DEF BrokerRefuses, brokerVars
  <2>6. CASE Sent(w)
    <3>1. o \in Orders
      BY <2>0, <2>6 DEF Sent, TypeOK, InHand
    <3>2. Confirmed(o) /\ Confirmed(o)'
      BY <2>0, <2>6, <3>1, <1>0 DEF Sent, Confirmed, Typed
    <3>3. \A x \in Orders \ {o} : Confirmed(x)' <=> Confirmed(x)
      BY SMTT(30), <2>0, <2>6, <1>0 DEF Sent, LetGo, Confirmed, Typed
    <3> QED BY <2>6, <3>2, <3>3 DEF Sent, brokerVars
  <2>7. CASE Retry(w) \/ Reject(w)
    <3>1. /\ wpc[w] = "apply" /\ wans[w] \in Errors /\ UNCHANGED <<sent, placed, lost>>
          /\ wjob' = [wjob EXCEPT ![w] = NoOrder]
          /\ wans' = [wans EXCEPT ![w] = "none"]
      BY <2>7 DEF Retry, GiveBack, Reject, LetGo, brokerVars
    <3>2. \A x \in Orders : Confirmed(x)' <=> Confirmed(x)
      BY SMTT(30), <3>1, <1>0 DEF Confirmed, Typed, Errors
    <3> QED BY <3>1, <3>2
  <2>8. CASE LocalSent(w) \/ LocalReject(w)
    <3>1. /\ wpc[w] = "dispatch" /\ o \in Orders /\ wans[w] = "none"
          /\ UNCHANGED <<placed, lost>>
          /\ wjob' = [wjob EXCEPT ![w] = NoOrder]
          /\ wans' = [wans EXCEPT ![w] = "none"]
      BY <2>0, <2>8, <1>0 DEF LocalSent, LocalReject, LetGo, brokerVars, TypeOK,
         InHand, Typed
    <3>2. sent[o] = "no" /\ (sent' = sent \/ sent' = [sent EXCEPT ![o] = "local"])
      BY <2>0, <2>8, <3>1, ConfirmedByHolder DEF LocalSent, LocalReject
    <3>3. \A x \in Orders : Confirmed(x)' <=> Confirmed(x)
      BY SMTT(30), <3>1, <3>2, <1>0 DEF Confirmed, Typed
    <3> QED BY <3>1, <3>3
  <2> QED
    BY <1>2, <2>1, <2>2, <2>3, <2>4, <2>5, <2>6, <2>7, <2>8 DEF Work
<1> QED
  BY <1>1, <1>2, Outside DEF Next, coreVars, Enqueue, workerVars, brokerVars

\* The broker holds for an order exactly the placements whose
\* answer was lost and the one that was confirmed: no order is sent again
\* after the gateway learned that the broker has it.
THEOREM PlacementsAccounted == Spec => []PlacementsExplained
<1>1. Init => PlacementsExplained
  <2> SUFFICES ASSUME Init, NEW o \in Orders PROVE Explained(o)
    BY DEF PlacementsExplained
  <2>1. placed[o] = 0 /\ lost[o] = 0 /\ sent[o] = "no"
    BY DEF Init
  <2>2. \A w \in Workers : wans[w] = "none"
    BY DEF Init
  <2>3. ~Confirmed(o)
    BY <2>1, <2>2 DEF Confirmed
  <2> QED BY <2>1, <2>3 DEF Explained
<1>2. /\ TypeOK /\ SingleCustody /\ NothingEarly /\ PlacementsExplained
      /\ TypeOK' /\ SingleCustody' /\ NothingEarly' /\ [Next]_vars
      => PlacementsExplained'
  BY PlacementsStep DEF PlacementsExplained
<1> QED
  BY <1>1, <1>2, TypeCorrect, Custody, NoHistory, PTL DEF Spec
-----------------------------------------------------------------------------
\* What a step does to an order that may be left without custody.
LEMMA NotForgottenStep ==
  ASSUME TypeOK, NotForgotten, [Next]_vars
  PROVE  NotForgotten'
<1> USE OrdersAssumption DEF TypeOK, Typed, NotForgotten, InCustody, Held
<1>1. ASSUME NEW o \in Orders, NEW p \in Payloads, Enqueue(o, p)
      PROVE  NotForgotten'
  <2>1. \A x : InQueue(x)' <=> InQueue(x) \/ x = o
    BY <1>1, QueueAppended DEF Enqueue
  <2>2. \A x \in Orders : Known(x)' <=> Known(x) \/ x = o
    BY <1>1 DEF Enqueue, Known
  <2> QED BY <1>1, <2>1, <2>2 DEF Enqueue, workerVars
<1>2. ASSUME NEW w \in Workers, Work(w) PROVE NotForgotten'
  <2> DEFINE o == wjob[w]
  <2>0. wpc[w] # "idle" <=> o \in Orders
    BY DEF InHand
  <2>1. CASE Pop(w)
    <3>1. \A x : InQueue(x) <=> InQueue(x)' \/ x = Head(queue)
      BY <2>1, QueuePopped DEF Pop
    <3>2. wpc[w] = "idle"
      BY <2>1 DEF Pop, At
    <3> QED BY <2>0, <2>1, <3>1, <3>2 DEF Pop, At, jobVars, Known
  <2>2. CASE SkipTerminal(w)
    BY <2>2, QueueKept DEF SkipTerminal, LetGo, jobVars, Known
  <2>3. CASE PassCheck(w)
    BY <2>3, QueueKept DEF PassCheck, At, jobVars, Known
  <2>4. CASE MarkDispatching(w)
    BY <2>0, <2>4, QueueKept DEF MarkDispatching, At, Known
  <2>5. CASE CallAdapter(w)
    BY <2>5, QueueKept DEF CallAdapter, Dispatch, At, Known
  <2>6. CASE \E ans \in Answers : BrokerAccepts(w, ans) \/ BrokerRefuses(w, ans)
    BY <2>6, QueueKept DEF BrokerAccepts, BrokerRefuses, At, jobVars, Known
  <2>7. CASE Sent(w) \/ LocalSent(w)
    <3>1. /\ wpc[w] # "idle" /\ UNCHANGED <<queue, terminal>>
          /\ wjob' = [wjob EXCEPT ![w] = NoOrder]
          /\ status' = [status EXCEPT ![o] = "SENT"]
          /\ \E how \in {"broker", "local"} : sent' = [sent EXCEPT ![o] = how]
      BY <2>7 DEF Sent, LocalSent, LetGo
    <3>2. \A x \in Orders : x # o => (Known(x)' <=> Known(x))
      BY <3>1 DEF Known
    <3>3. sent'[o] # "no" /\ \A x \in Orders : x # o => sent'[x] = sent[x]
      BY <2>0, <3>1
    <3> QED BY <3>1, <3>2, <3>3, QueueKept
  <2>8. CASE Retry(w)
    <3>1. \A x : InQueue(x)' <=> InQueue(x) \/ x = o
      BY <2>0, <2>8, QueueAppended DEF Retry, GiveBack
    <3> QED BY <2>0, <2>8, <3>1 DEF Retry, GiveBack, LetGo, Known
  <2>9. CASE Reject(w) \/ LocalReject(w)
    <3>1. /\ wpc[w] # "idle" /\ UNCHANGED <<queue, sent>>
          /\ wjob' = [wjob EXCEPT ![w] = NoOrder]
          /\ status' = [status EXCEPT ![o] = "REJECTED"]
          /\ terminal' = [terminal EXCEPT ![o] = TRUE]
      BY <2>9 DEF Reject, LocalReject, LetGo
    <3>2. \A x \in Orders : x # o => (Known(x)' <=> Known(x))
      BY <3>1 DEF Known
    <3> QED BY <2>0, <3>1, <3>2, QueueKept
  <2> QED
    BY <1>2, <2>1, <2>2, <2>3, <2>4, <2>5, <2>6, <2>7, <2>8, <2>9 DEF Work
<1>3. CASE /\ UNCHANGED coreVars /\ \A x \in Orders : Known(x)' <=> Known(x)
           /\ \A x \in Orders : terminal[x] => terminal'[x]
  BY <1>3, QueueKept DEF coreVars
<1>4. ASSUME NEW c \in Callers, Call(c)
      PROVE  \A x \in Orders : terminal[x] => terminal'[x]
  <2>1. \/ UNCHANGED terminal
        \/ terminal' = [terminal EXCEPT ![caller[c].job] = TRUE]
    BY <1>4 DEF Call, RouteCancel, RouteModify, MarkExecution, Serve, RefuseTerminal,
       FindOpen, WriteCancel, WriteModify, WriteExecution, jobVars
  <2>2. terminal \in [Orders -> BOOLEAN]
    OBVIOUS
  <2>3. ASSUME NEW j, terminal' = [terminal EXCEPT ![j] = TRUE], NEW x \in Orders, terminal[x]
        PROVE  terminal'[x]
    BY ZenonT(30), <2>2, <2>3
  <2> QED BY ZenonT(30), <2>1, <2>3
<1>5. ASSUME Reconcile
      PROVE  \A x \in Orders : terminal[x] => terminal'[x]
  <2>1. UNCHANGED terminal \/ ApplyCorrection
    BY <1>5 DEF Reconcile, BeginPass, Compare, EndPass, NoAnswer, AskBroker,
       OnlyRecon, jobVars
  <2>2. CASE ApplyCorrection
    BY <2>2 DEF ApplyCorrection
  <2> QED BY <2>1, <2>2
<1> QED
  BY <1>1, <1>2, <1>3, <1>4, <1>5, Outside DEF Next, EmptyPoll, vars, jobVars

\* An accepted order that was neither sent nor closed is in the queue or with a
\* worker, whatever callers and reconciliation write into its job.
THEOREM NothingForgotten == Spec => []NotForgotten
<1>1. Init => NotForgotten
  BY DEF Init, NotForgotten, Known
<1> QED
  BY <1>1, NotForgottenStep, TypeCorrect, PTL DEF Spec
-----------------------------------------------------------------------------
\* A job shown as DISPATCHING is with a worker past the terminal check.
Dispatches(o) == \E w \in Workers : wjob[w] = o /\ wpc[w] \in {"dispatch", "call", "apply"}
DispatchingIsDispatched == \A o \in Orders : status[o] = "DISPATCHING" => Dispatches(o)

\* Only MarkDispatching writes that status, and every exit replaces it.
LEMMA DispatchingStep ==
  ASSUME TypeOK, DispatchingIsDispatched, [Next]_vars
  PROVE  DispatchingIsDispatched'
<1> USE OrdersAssumption, BrokerAssumption
    DEF TypeOK, Typed, DispatchingIsDispatched, Dispatches
<1>1. ASSUME NEW o \in Orders, NEW p \in Payloads, Enqueue(o, p)
      PROVE  DispatchingIsDispatched'
  BY <1>1 DEF Enqueue, workerVars
<1>2. ASSUME NEW w \in Workers, Work(w) PROVE DispatchingIsDispatched'
  <2> DEFINE o == wjob[w]
  <2>0. ASSUME wpc[w] \in {"idle", "check"}, UNCHANGED status,
               \A v \in Workers \ {w} : wjob'[v] = wjob[v] /\ wpc'[v] = wpc[v]
        PROVE  DispatchingIsDispatched'
    <3>1. ASSUME NEW x \in Orders, status'[x] = "DISPATCHING" PROVE Dispatches(x)'
      <4>1. PICK v \in Workers : wjob[v] = x /\ wpc[v] \in {"dispatch", "call", "apply"}
        BY <2>0, <3>1
      <4>2. v # w
        BY <2>0, <4>1
      <4> QED BY <2>0, <4>1, <4>2
    <3> QED BY <3>1
  <2>1. CASE Pop(w)
    <3>1. wpc[w] = "idle" /\ UNCHANGED status
      BY <2>1 DEF Pop, At, jobVars
    <3>2. \A v \in Workers \ {w} : wjob'[v] = wjob[v] /\ wpc'[v] = wpc[v]
      BY <2>1 DEF Pop, At
    <3> QED BY <2>0, <3>1, <3>2
  <2>2. CASE SkipTerminal(w)
    <3>1. wpc[w] = "check" /\ UNCHANGED status
      BY <2>2 DEF SkipTerminal, jobVars
    <3>2. \A v \in Workers \ {w} : wjob'[v] = wjob[v] /\ wpc'[v] = wpc[v]
      BY <2>2 DEF SkipTerminal, LetGo
    <3> QED BY <2>0, <3>1, <3>2
  <2>3. CASE PassCheck(w)
    <3>1. wpc[w] = "check" /\ UNCHANGED status
      BY <2>3 DEF PassCheck, At, jobVars
    <3>2. \A v \in Workers \ {w} : wjob'[v] = wjob[v] /\ wpc'[v] = wpc[v]
      BY <2>3 DEF PassCheck, At
    <3> QED BY <2>0, <3>1, <3>2
  <2>4. CASE MarkDispatching(w)
    BY <2>4 DEF MarkDispatching, At
  <2>5. CASE CallAdapter(w)
    BY <2>5 DEF CallAdapter, Dispatch, At
  <2>6. CASE \E ans \in Answers : BrokerAccepts(w, ans) \/ BrokerRefuses(w, ans)
    <3>1. wpc' = [wpc EXCEPT ![w] = "apply"] /\ UNCHANGED <<status, wjob>>
      BY <2>6 DEF BrokerAccepts, BrokerRefuses, At, jobVars
    <3> QED BY <3>1
  <2>7. CASE \/ Sent(w) \/ LocalSent(w) \/ Retry(w) \/ Reject(w) \/ LocalReject(w)
    <3>1. wpc' = [wpc EXCEPT ![w] = "idle"] /\ wjob' = [wjob EXCEPT ![w] = NoOrder]
      BY <2>7 DEF Sent, LocalSent, Retry, GiveBack, Reject, LocalReject, LetGo
    <3>2. PICK s \in {"SENT", "NEW", "REJECTED"} : status' = [status EXCEPT ![o] = s]
      BY <2>7 DEF Sent, LocalSent, Retry, GiveBack, Reject, LocalReject
    <3>3. \A v \in Workers \ {w} : wjob'[v] = wjob[v] /\ wpc'[v] = wpc[v]
      BY <3>1
    <3>4. \A x \in Orders : status'[x] = "DISPATCHING" => x # o /\ status[x] = "DISPATCHING"
      BY <3>2
    <3>5. ASSUME NEW x \in Orders, status'[x] = "DISPATCHING" PROVE Dispatches(x)'
      <4>1. PICK v \in Workers : wjob[v] = x /\ wpc[v] \in {"dispatch", "call", "apply"}
        BY <3>4, <3>5
      <4>2. v # w
        BY <3>4, <3>5, <4>1
      <4> QED BY <3>3, <4>1, <4>2
    <3> QED BY <3>5
  <2> HIDE DEF TypeOK, Typed, DispatchingIsDispatched, Dispatches
  <2> QED
    BY <1>2, <2>1, <2>2, <2>3, <2>4, <2>5, <2>6, <2>7 DEF Work
<1>3. ASSUME UNCHANGED <<wpc, wjob>>,
             \A x \in Orders : status'[x] = "DISPATCHING" => status[x] = "DISPATCHING"
      PROVE  DispatchingIsDispatched'
  BY <1>3
<1>4. ASSUME NEW c \in Callers, Call(c)
      PROVE  \A x \in Orders : status'[x] = "DISPATCHING" => status[x] = "DISPATCHING"
  <2>1. \/ UNCHANGED status
        \/ \E s \in {"CANCEL_PENDING", "MODIFY_PENDING", caller[c].kind} :
             /\ s # "DISPATCHING"
             /\ status' = [status EXCEPT ![caller[c].job] = s]
    BY <1>4 DEF Call, RouteCancel, RouteModify, MarkExecution, Serve, RefuseTerminal,
       FindOpen, WriteCancel, WriteModify, WriteExecution, jobVars
  <2> QED BY <2>1
<1>5. ASSUME Reconcile
      PROVE  \A x \in Orders : status'[x] = "DISPATCHING" => status[x] = "DISPATCHING"
  <2>1. UNCHANGED status \/ ApplyCorrection
    BY <1>5 DEF Reconcile, BeginPass, Compare, EndPass, NoAnswer, AskBroker,
       OnlyRecon, jobVars
  <2>2. CASE ApplyCorrection
    <3>1. recon.answer # "DISPATCHING" /\ status' = [status EXCEPT ![recon.job] = recon.answer]
      BY <2>2 DEF ApplyCorrection, InHand
    <3> QED BY <3>1
  <2> QED BY <2>1, <2>2
<1> QED
  BY <1>1, <1>2, <1>3, <1>4, <1>5, Outside DEF Next, EmptyPoll, vars, jobVars,
     workerVars, coreVars

\* An order shown as DISPATCHING is in the hands of a worker.
THEOREM DispatchingHeld == Spec => []DispatchingIsHeld
<1>1. Init => DispatchingIsDispatched
  BY DEF Init, DispatchingIsDispatched
<1>2. DispatchingIsDispatched => DispatchingIsHeld
  BY DEF DispatchingIsDispatched, Dispatches, DispatchingIsHeld, Held
<1> QED
  BY <1>1, <1>2, DispatchingStep, TypeCorrect, PTL DEF Spec
-----------------------------------------------------------------------------
(* The gateway as deployed: callers cancel and modify, nothing feeds        *)
(* executions back, and the broker's status provider never answers.         *)
Deployed == Requests \subseteq {"cancel", "modify"} /\ BrokerStatuses = {}

\* Callers and reconciliation then close no order and only write a pending status.
LEMMA DeployedOutside ==
  ASSUME TypeOK, Deployed, \/ \E c \in Callers : Call(c)
                           \/ Reconcile
                           \/ \E w \in Workers : EmptyPoll(w)
                           \/ UNCHANGED vars
  PROVE  /\ UNCHANGED terminal
         /\ \A o \in Orders : status'[o] \in Pending \cup {status[o]}
<1> USE DEF TypeOK, Typed, jobVars
<1>1. ASSUME NEW c \in Callers, Call(c)
      PROVE  /\ UNCHANGED terminal
             /\ \A o \in Orders : status'[o] \in Pending \cup {status[o]}
  <2>1. ~WriteExecution(c)
    BY DEF WriteExecution, Advance, InHand, Deployed
  <2>2. /\ UNCHANGED terminal
        /\ \/ UNCHANGED status
           \/ \E s \in Pending : status' = [status EXCEPT ![caller[c].job] = s]
    BY <1>1, <2>1 DEF Call, RouteCancel, RouteModify, MarkExecution, Serve,
       RefuseTerminal, FindOpen, WriteCancel, WriteModify, Pending
  <2> QED BY <2>2
<1>2. ASSUME Reconcile PROVE UNCHANGED <<terminal, status>>
  <2>1. ~ApplyCorrection
    BY DEF ApplyCorrection, InHand, Deployed
  <2> QED
    BY <1>2, <2>1 DEF Reconcile, BeginPass, Compare, EndPass, NoAnswer, AskBroker,
       OnlyRecon
<1> QED BY <1>1, <1>2 DEF EmptyPoll, vars

\* An order is closed by the worker that holds it, which lets it go; a closed
\* order is out of reach of everyone.
LEMMA ClosedStep ==
  ASSUME TypeOK, Deployed, SingleCustody, NothingEarly, PlacementsExplained,
         ClosedIsReleased, [Next]_vars
  PROVE  ClosedIsReleased'
<1> USE OrdersAssumption DEF TypeOK, Typed, ClosedIsReleased, Released, InCustody, Held
<1>1. ASSUME NEW o \in Orders, NEW p \in Payloads, Enqueue(o, p)
      PROVE  ClosedIsReleased'
  <2>1. \A x : InQueue(x)' <=> InQueue(x) \/ x = o
    BY <1>1, QueueAppended DEF Enqueue
  <2>2. ~terminal[o] /\ \A x \in Orders : Known(x) => Known(x)'
    BY <1>1 DEF Enqueue, Known
  <2> QED BY <1>1, <2>1, <2>2 DEF Enqueue, workerVars, brokerVars
<1>2. ASSUME NEW w \in Workers, Work(w) PROVE ClosedIsReleased'
  <2> DEFINE o == wjob[w]
  <2>0. wpc[w] # "idle" => o \in Orders /\ Known(o) /\ ~terminal[o]
    BY DEF InHand
  <2>1. CASE Pop(w)
    <3>1. \A x : InQueue(x) <=> InQueue(x)' \/ x = Head(queue)
      BY <2>1, QueuePopped DEF Pop
    <3> QED BY <2>1, <3>1 DEF Pop, At, jobVars, brokerVars, Known
  <2>2. CASE SkipTerminal(w)
    BY <2>0, <2>2 DEF SkipTerminal
  <2>3. CASE PassCheck(w)
    BY <2>3, QueueKept DEF PassCheck, At, jobVars, brokerVars, Known
  <2>4. CASE MarkDispatching(w)
    BY <2>0, <2>4, QueueKept DEF MarkDispatching, At, brokerVars, Known
  <2>5. CASE CallAdapter(w)
    BY <2>5, QueueKept DEF CallAdapter, Dispatch, At, brokerVars, Known
  <2>6. CASE \E ans \in Answers : BrokerAccepts(w, ans)
    BY <2>0, <2>6, QueueKept DEF BrokerAccepts, At, jobVars, Known
  <2>7. CASE \E ans \in Answers : BrokerRefuses(w, ans)
    BY <2>7, QueueKept DEF BrokerRefuses, At, jobVars, brokerVars, Known
  <2>8. CASE Sent(w) \/ LocalSent(w)
    <3>1. /\ wpc[w] # "idle" /\ UNCHANGED <<queue, terminal, brokerVars>>
          /\ wjob' = [wjob EXCEPT ![w] = NoOrder]
          /\ \E how \in {"broker", "local"} : sent' = [sent EXCEPT ![o] = how]
          /\ status' = [status EXCEPT ![o] = "SENT"]
      BY <2>8 DEF Sent, LocalSent, LetGo
    <3>2. \A x \in Orders : terminal[x] => sent'[x] = sent[x] /\ (Known(x)' <=> Known(x))
      BY <2>0, <3>1 DEF Known
    <3> QED BY <3>1, <3>2, QueueKept DEF brokerVars
  <2>9. CASE Retry(w)
    <3>1. \A x : InQueue(x)' <=> InQueue(x) \/ x = o
      BY <2>0, <2>9, QueueAppended DEF Retry, GiveBack
    <3> QED BY <2>0, <2>9, <3>1 DEF Retry, GiveBack, LetGo, brokerVars, Known
  <2>10. CASE Reject(w) \/ LocalReject(w)
    <3>1. /\ wpc[w] # "idle" /\ wans[w] # "OK"
          /\ UNCHANGED <<queue, sent, brokerVars>>
          /\ wjob' = [wjob EXCEPT ![w] = NoOrder]
          /\ terminal' = [terminal EXCEPT ![o] = TRUE]
          /\ status' = [status EXCEPT ![o] = "REJECTED"]
      BY <2>10 DEF Reject, LocalReject, LetGo, Errors, InHand, Answers
    <3>2. PICK y \in Orders : y = o
      BY <2>0, <3>1
    <3>3. ~InQueue(y)' /\ \A v \in Workers : wjob'[v] # y
      BY <3>1, <3>2, QueueKept DEF SingleCustody
    <3>4. sent[y] = "no" /\ placed[y] = lost[y]
      <4>1. sent[y] = "no" /\ ~Confirmed(y)
        BY <3>1, <3>2, ConfirmedByHolder
      <4>2. placed[y] = lost[y] + 0 /\ lost[y] \in Nat
        BY <4>1 DEF PlacementsExplained, Explained
      <4> QED BY <4>1, <4>2
    <3>5. Known(y)' /\ \A x \in Orders : Known(x) => Known(x)'
      BY <3>1, <3>2 DEF Known
    <3> QED BY <3>1, <3>2, <3>3, <3>4, <3>5, QueueKept DEF brokerVars
  <2> QED
    BY <1>2, <2>1, <2>2, <2>3, <2>4, <2>5, <2>6, <2>7, <2>8, <2>9, <2>10 DEF Work
<1>3. ASSUME UNCHANGED coreVars, UNCHANGED terminal,
             \A x \in Orders : Known(x)' <=> Known(x)
      PROVE  ClosedIsReleased'
  BY <1>3, QueueKept DEF coreVars
<1> QED
  BY <1>1, <1>2, <1>3, Outside, DeployedOutside DEF Next

\* As deployed, a closed order is in nobody's hands and the broker has no order
\* for it but those whose answer was lost.
THEOREM ClosedReleased ==
  ASSUME Deployed PROVE Spec => []ClosedIsReleased
<1>1. Init => ClosedIsReleased
  BY DEF Init, ClosedIsReleased
<1>2. TypeOK /\ SingleCustody /\ NothingEarly /\ PlacementsExplained
        /\ ClosedIsReleased /\ [Next]_vars => ClosedIsReleased'
  BY ClosedStep
<1> QED
  BY <1>1, <1>2, TypeCorrect, Custody, NoHistory, PlacementsAccounted, PTL DEF Spec

\* An order in custody is open: what a worker writes over its status is about an
\* order that was neither sent nor closed.
LEMMA HeldIsOpen ==
  ASSUME TypeOK, NothingEarly, ClosedIsReleased, NEW w \in Workers, wpc[w] # "idle"
  PROVE  /\ wjob[w] \in Orders
         /\ Known(wjob[w]) /\ sent[wjob[w]] = "no" /\ ~terminal[wjob[w]]
BY DEF TypeOK, InHand, NothingEarly, ClosedIsReleased, Released, InCustody, Held

\* Each write of a status goes with the move, the answer or the closing it tells of.
LEMMA TruthfulStep ==
  ASSUME TypeOK, Deployed, NothingEarly, ClosedIsReleased, StatusTruthful, [Next]_vars
  PROVE  StatusTruthful'
<1> USE OrdersAssumption DEF TypeOK, Typed, StatusTruthful, InCustody, Held, Pending
<1>1. ASSUME NEW o \in Orders, NEW p \in Payloads, Enqueue(o, p)
      PROVE  StatusTruthful'
  <2>1. \A x : InQueue(x)' <=> InQueue(x) \/ x = o
    BY <1>1, QueueAppended DEF Enqueue
  <2>2. ~terminal[o] /\ sent[o] = "no"
    BY <1>1 DEF Enqueue, NothingEarly, ClosedIsReleased, Released
  <2> QED BY <1>1, <2>1, <2>2 DEF Enqueue, workerVars
<1>2. ASSUME NEW w \in Workers, Work(w) PROVE StatusTruthful'
  <2> DEFINE o == wjob[w]
  <2>0. wpc[w] # "idle" => o \in Orders /\ Known(o) /\ sent[o] = "no" /\ ~terminal[o]
    BY HeldIsOpen
  <2>1. CASE Pop(w)
    <3>1. \A x : InQueue(x) <=> InQueue(x)' \/ x = Head(queue)
      BY <2>1, QueuePopped DEF Pop
    <3>2. wjob[w] = NoOrder
      BY <2>1 DEF Pop, At, InHand
    <3> QED BY <2>1, <3>1, <3>2 DEF Pop, jobVars
  <2>2. ~SkipTerminal(w)
    BY <2>0 DEF SkipTerminal
  <2>3. CASE \/ PassCheck(w) \/ CallAdapter(w)
             \/ \E ans \in Answers : BrokerAccepts(w, ans) \/ BrokerRefuses(w, ans)
    <3>1. UNCHANGED <<queue, wjob, status, sent, terminal>>
      BY <2>3 DEF PassCheck, CallAdapter, Dispatch, BrokerAccepts, BrokerRefuses, jobVars
    <3> QED BY <3>1, QueueKept
  <2>4. CASE MarkDispatching(w)
    BY <2>0, <2>4, QueueKept DEF MarkDispatching, At
  <2>5. CASE Sent(w) \/ LocalSent(w)
    <3>1. /\ wpc[w] # "idle" /\ UNCHANGED <<queue, terminal>>
          /\ wjob' = [wjob EXCEPT ![w] = NoOrder]
          /\ \E how \in {"broker", "local"} : sent' = [sent EXCEPT ![o] = how]
          /\ status' = [status EXCEPT ![o] = "SENT"]
      BY <2>5 DEF Sent, LocalSent, LetGo
    <3> QED BY <2>0, <3>1, QueueKept
  <2>6. CASE Retry(w)
    <3>1. \A x : InQueue(x)' <=> InQueue(x) \/ x = o
      BY <2>0, <2>6, QueueAppended DEF Retry, GiveBack
    <3> QED BY <2>0, <2>6, <3>1 DEF Retry, GiveBack, LetGo
  <2>7. CASE Reject(w) \/ LocalReject(w)
    <3>1. /\ wpc[w] # "idle" /\ UNCHANGED <<queue, sent>>
          /\ wjob' = [wjob EXCEPT ![w] = NoOrder]
          /\ terminal' = [terminal EXCEPT ![o] = TRUE]
          /\ status' = [status EXCEPT ![o] = "REJECTED"]
      BY <2>7 DEF Reject, LocalReject, LetGo
    <3> QED BY <2>0, <3>1, QueueKept
  <2> QED BY <1>2, <2>1, <2>2, <2>3, <2>4, <2>5, <2>6, <2>7 DEF Work
<1>3. ASSUME UNCHANGED coreVars, UNCHANGED terminal,
             \A x \in Orders : status'[x] \in Pending \cup {status[x]}
      PROVE  StatusTruthful'
  BY <1>3, QueueKept DEF coreVars
<1> QED
  BY <1>1, <1>2, <1>3, Outside, DeployedOutside DEF Next

\* As deployed, the status of an order never says more of it than is so: an order
\* shown as NEW is in the queue or with a worker, SENT and REJECTED are shown of
\* the orders sent and closed, and of those only a pending change hides it.
THEOREM StatusesTruthful ==
  ASSUME Deployed PROVE Spec => []StatusTruthful
<1>1. Init => StatusTruthful
  BY DEF Init, StatusTruthful, Pending
<1>2. /\ TypeOK /\ NothingEarly /\ ClosedIsReleased /\ StatusTruthful /\ [Next]_vars
      => StatusTruthful'
  BY TruthfulStep
<1> QED
  BY <1>1, <1>2, TypeCorrect, NoHistory, ClosedReleased, PTL DEF Spec
-----------------------------------------------------------------------------
(* The refinement of OrderDelivery: first what it needs besides the          *)
(* invariants above, then the phase of an order and how one step changes it, *)
(* then one step of OrderDelivery for each step of OrderQueue.               *)

\* The broker accepts at most one order per attempt, and an attempt under way
\* has placed nothing yet.
PlacesWithinTries ==
  /\ \A o \in Orders : placed[o] <= attempts[o]
  /\ \A w \in Workers : wpc[w] = "call" => placed[wjob[w]] < attempts[wjob[w]]

\* Only place_order adds a placement, in an attempt that is counted before.
LEMMA PlacesStep ==
  ASSUME TypeOK, SingleCustody, PlacesWithinTries, [Next]_vars
  PROVE  PlacesWithinTries'
<1>0. Typed
  BY DEF TypeOK
<1>1. ASSUME UNCHANGED <<placed, attempts, wjob>>,
             \A w \in Workers : wpc'[w] = "call" => wpc[w] = "call"
      PROVE  PlacesWithinTries'
  BY <1>1 DEF PlacesWithinTries
<1>2. ASSUME NEW w \in Workers, Work(w) PROVE PlacesWithinTries'
  <2>0. wpc[w] # "idle" => wjob[w] \in Orders
    BY DEF TypeOK, InHand
  <2>1. CASE CallAdapter(w)
    <3>1. PICK o \in Orders : o = wjob[w]
      BY <2>0, <2>1 DEF CallAdapter, Dispatch, At
    <3>2. /\ attempts' = [attempts EXCEPT ![o] = @ + 1] /\ UNCHANGED <<placed, wjob>>
          /\ wpc' = [wpc EXCEPT ![w] = "call"]
      BY <2>1, <3>1 DEF CallAdapter, Dispatch, At, brokerVars
    <3>3. attempts[o] \in Nat /\ placed[o] \in Nat /\ placed[o] <= attempts[o]
      BY <1>0 DEF Typed, PlacesWithinTries
    <3>4. attempts'[o] = attempts[o] + 1 /\ \A x \in Orders \ {o} : attempts'[x] = attempts[x]
      BY <1>0, <3>2 DEF Typed
    <3>5. \A v \in Workers : wpc'[v] = "call" => v = w \/ (wpc[v] = "call" /\ wjob[v] # o)
      BY <1>0, <3>1, <3>2, OrdersAssumption DEF Typed, SingleCustody
    <3>6. \A v \in Workers : wpc[v] = "call" => wjob[v] \in Orders
      BY DEF TypeOK, InHand
    <3>7. \A x \in Orders : placed'[x] <= attempts'[x]
      BY <3>2, <3>3, <3>4 DEF PlacesWithinTries
    <3>8. \A v \in Workers : wpc'[v] = "call" => placed'[wjob'[v]] < attempts'[wjob'[v]]
      BY <3>1, <3>2, <3>3, <3>4, <3>5, <3>6 DEF PlacesWithinTries
    <3> QED BY <3>7, <3>8 DEF PlacesWithinTries
  <2>2. ASSUME NEW ans \in Answers, BrokerAccepts(w, ans) PROVE PlacesWithinTries'
    <3>1. PICK o \in Orders : o = wjob[w]
      BY <2>0, <2>2 DEF BrokerAccepts, At
    <3>2. /\ placed' = [placed EXCEPT ![o] = @ + 1] /\ UNCHANGED <<attempts, wjob>>
          /\ wpc[w] = "call" /\ wpc' = [wpc EXCEPT ![w] = "apply"]
      BY <2>2, <3>1 DEF BrokerAccepts, At, jobVars
    <3>3. attempts[o] \in Nat /\ placed[o] \in Nat /\ placed[o] < attempts[o]
      BY <1>0, <3>1, <3>2 DEF Typed, PlacesWithinTries
    <3>4. placed'[o] = placed[o] + 1 /\ \A x \in Orders \ {o} : placed'[x] = placed[x]
      BY <1>0, <3>2 DEF Typed
    <3>5. \A v \in Workers : wpc'[v] = "call" => wpc[v] = "call" /\ wjob[v] # o
      BY <1>0, <3>1, <3>2, OrdersAssumption DEF Typed, SingleCustody
    <3>6. \A v \in Workers : wpc[v] = "call" => wjob[v] \in Orders
      BY DEF TypeOK, InHand
    <3>7. \A x \in Orders : placed'[x] <= attempts'[x]
      BY <3>2, <3>3, <3>4 DEF PlacesWithinTries
    <3>8. \A v \in Workers : wpc'[v] = "call" => placed'[wjob'[v]] < attempts'[wjob'[v]]
      BY <3>2, <3>4, <3>5, <3>6 DEF PlacesWithinTries
    <3> QED BY <3>7, <3>8 DEF PlacesWithinTries
  <2>3. ASSUME NEW ans \in Answers, BrokerRefuses(w, ans) PROVE PlacesWithinTries'
    BY <1>0, <1>1, <2>3 DEF BrokerRefuses, At, jobVars, brokerVars, Typed
  <2>4. CASE PassCheck(w) \/ MarkDispatching(w)
    BY <1>0, <1>1, <2>4 DEF PassCheck, MarkDispatching, At, jobVars, brokerVars, Typed
  <2>5. CASE Pop(w)
    <3>1. /\ UNCHANGED <<placed, attempts>> /\ wpc'[w] # "call"
          /\ \A v \in Workers \ {w} : wpc'[v] = wpc[v] /\ wjob'[v] = wjob[v]
      BY <1>0, <2>5 DEF Pop, At, jobVars, brokerVars, Typed
    <3> QED BY <3>1 DEF PlacesWithinTries
  <2>6. CASE \/ SkipTerminal(w) \/ Sent(w) \/ Retry(w) \/ Reject(w)
             \/ LocalSent(w) \/ LocalReject(w)
    <3>1. LetGo(w) /\ UNCHANGED <<placed, attempts>>
      BY <2>6 DEF SkipTerminal, Sent, Retry, GiveBack, Reject, LocalSent,
         LocalReject, jobVars, brokerVars
    <3>2. /\ wpc'[w] # "call"
          /\ \A v \in Workers \ {w} : wpc'[v] = wpc[v] /\ wjob'[v] = wjob[v]
      BY <1>0, <3>1 DEF LetGo, Typed
    <3> QED BY <3>1, <3>2 DEF PlacesWithinTries
  <2> QED BY <1>2, <2>1, <2>2, <2>3, <2>4, <2>5, <2>6 DEF Work
<1>3. ASSUME NEW o \in Orders, NEW p \in Payloads, Enqueue(o, p) PROVE PlacesWithinTries'
  BY <1>1, <1>3 DEF Enqueue, workerVars, brokerVars
<1>4. CASE UNCHANGED coreVars
  BY <1>1, <1>4 DEF coreVars
<1> QED BY <1>2, <1>3, <1>4, Outside DEF Next

\* No order is placed before the first attempt.
LEMMA PlacesInit == Init => PlacesWithinTries
BY DEF Init, PlacesWithinTries

\* The broker never holds more orders of a job than attempts were made, whoever
\* takes the job and however the answers go.
THEOREM TriesCoverPlaces == Spec => []PlacesWithinTries
<1>1. TypeOK /\ SingleCustody /\ PlacesWithinTries /\ [Next]_vars => PlacesWithinTries'
  BY PlacesStep
<1> QED BY <1>1, PlacesInit, TypeCorrect, Custody, PTL DEF Spec

\* The phase of an order, by its place.
LEMMA PhaseNow ==
  ASSUME NEW o, InCustody(o) => Known(o), ~(InQueue(o) /\ Held(o))
  PROVE  /\ ~Known(o) => Phase(o) = "absent"
         /\ InQueue(o) => Phase(o) = "waiting"
         /\ Held(o) => Phase(o) = "inflight"
         /\ Known(o) /\ ~InQueue(o) /\ ~Held(o) =>
              Phase(o) = IF sent[o] = "broker" THEN "sent" ELSE "closed"
BY DEF Phase, Released, InCustody

\* The same of the next state.
LEMMA PhaseNext ==
  ASSUME NEW o, InCustody(o)' => Known(o)', ~(InQueue(o)' /\ Held(o)')
  PROVE  /\ ~Known(o)' => Phase(o)' = "absent"
         /\ InQueue(o)' => Phase(o)' = "waiting"
         /\ Held(o)' => Phase(o)' = "inflight"
         /\ Known(o)' /\ ~InQueue(o)' /\ ~Held(o)' =>
              Phase(o)' = IF sent'[o] = "broker" THEN "sent" ELSE "closed"
BY DEF Phase, Released, InCustody

\* An order that stays in its place stays in its phase.
LEMMA PhaseKept ==
  ASSUME NEW o, Known(o)' <=> Known(o), InQueue(o)' <=> InQueue(o),
         Held(o)' <=> Held(o), sent'[o] = sent[o]
  PROVE  Phase(o)' = Phase(o)
BY DEF Phase, Released, InCustody

\* When one order changes its phase, that is a move of OrderDelivery.
LEMMA PhaseMove ==
  ASSUME NEW o \in Orders, NEW from, NEW to, Phase(o) = from, Phase(o)' = to,
         \A x \in Orders \ {o} : Phase(x)' = Phase(x)
  PROVE  Delivery!Move(o, from, to)
BY DEF Delivery!Move

\* When none does, the phases are unchanged.
LEMMA PhasesKept ==
  ASSUME \A x \in Orders : Phase(x)' = Phase(x)
  PROVE  [x \in Orders |-> Phase(x)]' = [x \in Orders |-> Phase(x)]
OBVIOUS

\* An order is in one place at a time, before a step and after it.
LEMMA OnePlace ==
  ASSUME TypeOK, SingleCustody, TypeOK', SingleCustody', NEW o \in Orders
  PROVE  /\ InCustody(o) => Known(o)
         /\ ~(InQueue(o) /\ Held(o))
         /\ InCustody(o)' => Known(o)'
         /\ ~(InQueue(o)' /\ Held(o)')
BY DEF TypeOK, InHand, SingleCustody, Held

\* Accept: a new order goes from nowhere to the queue.
LEMMA AcceptRefined ==
  ASSUME TypeOK, SingleCustody, TypeOK', SingleCustody', NEW o \in Orders, NEW p \in Payloads,
         Enqueue(o, p)
  PROVE  Delivery!Accept(o)
<1>1. /\ queue' = Append(queue, o) /\ ~Known(o) /\ status' = [status EXCEPT ![o] = "NEW"]
      /\ UNCHANGED <<wjob, sent, attempts, placed>>
  BY DEF Enqueue, workerVars, brokerVars
<1>2. \A x : InQueue(x)' <=> InQueue(x) \/ x = o
  BY <1>1, QueueAppended DEF TypeOK, Typed
<1>3. Phase(o) = "absent" /\ Phase(o)' = "waiting"
  BY <1>1, <1>2, OnePlace, PhaseNow, PhaseNext
<1>4. ASSUME NEW x \in Orders \ {o} PROVE Phase(x)' = Phase(x)
  <2>1. Known(x)' <=> Known(x)
    BY <1>1 DEF Known, TypeOK, Typed
  <2>2. Held(x)' <=> Held(x)
    BY <1>1 DEF Held
  <2> QED BY <1>1, <1>2, <2>1, <2>2, PhaseKept
<1> QED BY <1>1, <1>3, <1>4, PhaseMove DEF Delivery!Accept

\* A worker that changes what it has in hand changes no other worker's hand,
\* and so who is held changes for the order given up and the order taken only.
LEMMA HandChanged ==
  ASSUME TypeOK, NEW w \in Workers, NEW j, wjob' = [wjob EXCEPT ![w] = j]
  PROVE  wjob'[w] = j /\ \A v \in Workers : v # w => wjob'[v] = wjob[v]
<1>1. wjob \in [Workers -> Orders \cup {NoOrder}]
  BY DEF TypeOK, Typed
<1> QED BY <1>1

LEMMA HeldElsewhere ==
  ASSUME TypeOK, NEW w \in Workers, NEW j, wjob' = [wjob EXCEPT ![w] = j],
         NEW x, x # j, x # wjob[w]
  PROVE  Held(x)' <=> Held(x)
<1>1. wjob'[w] = j /\ \A v \in Workers : v # w => wjob'[v] = wjob[v]
  BY HandChanged
<1> QED BY <1>1, Zenon DEF Held

\* Take: a worker takes the head of the queue in hand.
LEMMA TakeRefined ==
  ASSUME TypeOK, SingleCustody, TypeOK', SingleCustody', NEW w \in Workers, Pop(w)
  PROVE  \E o \in Orders : Delivery!Take(o)
<1>0. PICK o : o = Head(queue)
  OBVIOUS
<1>1. /\ o \in Orders /\ \A x : InQueue(x) <=> InQueue(x)' \/ x = o
  BY <1>0, QueuePopped DEF Pop, TypeOK, Typed
<1>2. /\ wjob[w] = NoOrder /\ wjob' = [wjob EXCEPT ![w] = o]
      /\ UNCHANGED <<status, sent, attempts, placed>>
  BY <1>0 DEF Pop, At, jobVars, brokerVars, TypeOK, Typed, InHand
<1>3. Held(o)'
  BY <1>2 DEF Held, TypeOK, Typed
<1>4. Phase(o) = "waiting" /\ Phase(o)' = "inflight"
  BY <1>1, <1>3, OnePlace, PhaseNow, PhaseNext
<1>5. ASSUME NEW x \in Orders \ {o} PROVE Phase(x)' = Phase(x)
  <2>1. Held(x)' <=> Held(x)
    <3>1. x # o /\ x # wjob[w]
      BY <1>2, OrdersAssumption
    <3> QED BY <1>2, <3>1, HeldElsewhere
  <2>2. Known(x)' <=> Known(x)
    BY <1>2 DEF Known
  <2>3. (InQueue(x)' <=> InQueue(x)) /\ sent'[x] = sent[x]
    BY <1>1, <1>2
  <2> QED BY <2>1, <2>2, <2>3, PhaseKept
<1> QED BY <1>1, <1>2, <1>4, <1>5, PhaseMove DEF Delivery!Take

\* Every step of a worker that lets its order go moves that order alone.
LEMMA LetGoMoves ==
  ASSUME TypeOK, SingleCustody, TypeOK', SingleCustody', NEW w \in Workers, NEW o \in Orders,
         wjob[w] = o, LetGo(w),
         queue' = queue \/ queue' = Append(queue, o),
         \A x \in Orders \ {o} : (Known(x)' <=> Known(x)) /\ sent'[x] = sent[x]
  PROVE  /\ Phase(o) = "inflight" /\ Known(o) /\ ~InQueue(o) /\ ~Held(o)'
         /\ queue' = queue => ~InQueue(o)'
         /\ queue' = Append(queue, o) => InQueue(o)'
         /\ \A x \in Orders \ {o} : Phase(x)' = Phase(x)
<1>1. /\ InCustody(o) /\ Held(o)
      /\ wjob' = [wjob EXCEPT ![w] = NoOrder]
  BY DEF InCustody, Held, LetGo
<1>2. Known(o) /\ ~InQueue(o) /\ Phase(o) = "inflight"
  BY <1>1, OnePlace, PhaseNow
<1>3. ~Held(o)' /\ \A x \in Orders \ {o} : Held(x)' <=> Held(x)
  <2>1. wjob'[w] = NoOrder /\ \A v \in Workers : v # w => wjob'[v] = wjob[v]
    BY <1>1, HandChanged
  <2>2. o # NoOrder
    BY OrdersAssumption
  <2>3. \A v \in Workers : v # w => wjob[v] # o
    BY <2>2 DEF SingleCustody
  <2>4. ~Held(o)'
    BY <2>1, <2>2, <2>3 DEF Held
  <2>5. ASSUME NEW x \in Orders \ {o} PROVE Held(x)' <=> Held(x)
    <3>1. x # NoOrder /\ x # wjob[w]
      BY OrdersAssumption
    <3> QED BY <1>1, <3>1, HeldElsewhere
  <2> QED BY <2>4, <2>5
<1>4. queue' = queue => \A x : InQueue(x)' <=> InQueue(x)
  BY QueueKept
<1>5. queue' = Append(queue, o) => \A x : InQueue(x)' <=> InQueue(x) \/ x = o
  BY QueueAppended DEF TypeOK, Typed
<1>6. \A x \in Orders \ {o} : Phase(x)' = Phase(x)
  BY <1>3, <1>4, <1>5, PhaseKept
<1> QED BY <1>2, <1>3, <1>4, <1>5, <1>6

\* Return: an order with an attempt left goes back to the queue.
LEMMA ReturnRefined ==
  ASSUME TypeOK, SingleCustody, TypeOK', SingleCustody', NEW w \in Workers, Retry(w)
  PROVE  \E o \in Orders : Delivery!Return(o)
<1>0. PICK o \in Orders : o = wjob[w]
  BY DEF Retry, GiveBack, TypeOK, InHand
<1>1. /\ LetGo(w) /\ queue' = Append(queue, o) /\ attempts[o] < MaxAttempts
      /\ status' = [status EXCEPT ![o] = "NEW"] /\ UNCHANGED <<sent, attempts, placed>>
  BY <1>0 DEF Retry, GiveBack, MayRetry, brokerVars
<1>2. \A x \in Orders \ {o} : (Known(x)' <=> Known(x)) /\ sent'[x] = sent[x]
  BY <1>1 DEF Known, TypeOK, Typed
<1>3. /\ Phase(o) = "inflight" /\ InQueue(o)'
      /\ \A x \in Orders \ {o} : Phase(x)' = Phase(x)
  BY <1>0, <1>1, <1>2, LetGoMoves
<1>4. Phase(o)' = "waiting"
  BY <1>3, OnePlace, PhaseNext
<1> QED BY <1>1, <1>3, <1>4, PhaseMove DEF Delivery!Return

\* Confirm: the broker holds the order that is reported as sent.
LEMMA ConfirmRefined ==
  ASSUME TypeOK, SingleCustody, TypeOK', SingleCustody', PlacementsExplained,
         NEW w \in Workers, Sent(w)
  PROVE  \E o \in Orders : Delivery!Confirm(o)
<1>0. PICK o \in Orders : o = wjob[w]
  BY DEF Sent, TypeOK, InHand
<1>1. /\ LetGo(w) /\ queue' = queue /\ wans[w] = "OK"
      /\ status' = [status EXCEPT ![o] = "SENT"] /\ UNCHANGED <<attempts, placed>>
      /\ sent' = [sent EXCEPT ![o] = "broker"]
  BY <1>0 DEF Sent, brokerVars
<1>2. \A x \in Orders \ {o} : (Known(x)' <=> Known(x)) /\ sent'[x] = sent[x]
  BY <1>1 DEF Known, TypeOK, Typed
<1>3. /\ Phase(o) = "inflight" /\ ~Held(o)' /\ ~InQueue(o)'
      /\ \A x \in Orders \ {o} : Phase(x)' = Phase(x)
  BY <1>0, <1>1, <1>2, LetGoMoves
<1>4. Known(o)' /\ sent'[o] = "broker"
  BY <1>1 DEF Known, TypeOK, Typed
<1>5. Phase(o)' = "sent"
  BY <1>3, <1>4, OnePlace, PhaseNext
<1>6. placed[o] > 0
  <2>1. Confirmed(o)
    BY <1>0, <1>1 DEF Confirmed
  <2>2. placed[o] = lost[o] + 1 /\ lost[o] \in Nat
    BY <2>1 DEF PlacementsExplained, Explained, TypeOK, Typed
  <2> QED BY <2>2
<1> QED BY <1>1, <1>3, <1>5, <1>6, PhaseMove DEF Delivery!Confirm

\* Close: the order leaves the queue for good without a confirmation.
LEMMA CloseRefined ==
  ASSUME TypeOK, SingleCustody, TypeOK', SingleCustody', NothingEarly, NEW w \in Workers,
         SkipTerminal(w) \/ Reject(w) \/ LocalSent(w) \/ LocalReject(w)
  PROVE  \E o \in Orders : Delivery!Close(o)
<1>0. PICK o \in Orders : o = wjob[w]
  BY DEF SkipTerminal, Reject, LocalSent, LocalReject, TypeOK, InHand
<1>1. /\ LetGo(w) /\ queue' = queue /\ UNCHANGED <<attempts, placed>>
      /\ status' = status \/ status' = [status EXCEPT ![o] = "SENT"]
           \/ status' = [status EXCEPT ![o] = "REJECTED"]
      /\ sent' = sent \/ sent' = [sent EXCEPT ![o] = "local"]
  BY <1>0 DEF SkipTerminal, Reject, LocalSent, LocalReject, jobVars, brokerVars
<1>2. \A x \in Orders \ {o} : (Known(x)' <=> Known(x)) /\ sent'[x] = sent[x]
  <2>1. \A x \in Orders \ {o} : status'[x] = status[x]
    BY <1>1 DEF TypeOK, Typed
  <2>2. \A x \in Orders \ {o} : sent'[x] = sent[x]
    BY <1>1 DEF TypeOK, Typed
  <2> QED BY <2>1, <2>2 DEF Known
<1>3. /\ Phase(o) = "inflight" /\ Known(o) /\ ~Held(o)' /\ ~InQueue(o)'
      /\ \A x \in Orders \ {o} : Phase(x)' = Phase(x)
  BY <1>0, <1>1, <1>2, LetGoMoves
<1>4. Known(o)'
  <2>1. CASE status' = status
    BY <1>3, <2>1 DEF Known
  <2>2. CASE status' # status
    BY <1>1, <2>2 DEF Known, TypeOK, Typed
  <2> QED BY <2>1, <2>2
<1>5. sent[o] = "no"
  BY <1>0 DEF NothingEarly, InCustody, Held
<1>6. sent'[o] # "broker"
  BY <1>1, <1>5 DEF TypeOK, Typed
<1>7. Phase(o)' = "closed"
  BY <1>3, <1>4, <1>6, OnePlace, PhaseNext
<1> QED BY <1>1, <1>3, <1>7, PhaseMove DEF Delivery!Close

\* Steps that move no order keep all phases.
LEMMA PhasesStay ==
  ASSUME UNCHANGED <<queue, wjob, sent>>, \A x \in Orders : Known(x)' <=> Known(x)
  PROVE  [x \in Orders |-> Phase(x)]' = [x \in Orders |-> Phase(x)]
<1>1. ASSUME NEW x \in Orders PROVE Phase(x)' = Phase(x)
  BY QueueKept, PhaseKept DEF Held
<1> QED BY <1>1, PhasesKept

\* Try: an attempt is counted, and there was one left.
LEMMA TryRefined ==
  ASSUME TypeOK, SingleCustody, TypeOK', SingleCustody', AttemptsWithinLimit,
         NEW w \in Workers, CallAdapter(w)
  PROVE  \E o \in Orders : Delivery!Try(o)
<1>0. PICK o \in Orders : o = wjob[w]
  BY DEF CallAdapter, Dispatch, At, TypeOK, InHand
<1>1. /\ attempts' = [attempts EXCEPT ![o] = @ + 1]
      /\ UNCHANGED <<queue, wjob, sent, status, placed>>
      /\ attempts[o] < MaxAttempts
  BY <1>0 DEF CallAdapter, Dispatch, At, brokerVars, AttemptsWithinLimit
<1>2. [x \in Orders |-> Phase(x)]' = [x \in Orders |-> Phase(x)]
  BY <1>1, PhasesStay DEF Known
<1>3. Phase(o) = "inflight"
  BY <1>0, OnePlace, PhaseNow DEF Held
<1> QED BY <1>1, <1>2, <1>3 DEF Delivery!Try

\* Place: the broker accepts an order of an attempt that has placed none.
LEMMA PlaceRefined ==
  ASSUME TypeOK, SingleCustody, TypeOK', SingleCustody', PlacesWithinTries,
         NEW w \in Workers, NEW ans \in Answers, BrokerAccepts(w, ans)
  PROVE  \E o \in Orders : Delivery!Place(o)
<1>0. PICK o \in Orders : o = wjob[w]
  BY DEF BrokerAccepts, At, TypeOK, InHand
<1>1. /\ placed' = [placed EXCEPT ![o] = @ + 1]
      /\ UNCHANGED <<queue, wjob, sent, status, attempts>>
      /\ placed[o] < attempts[o]
  BY <1>0 DEF BrokerAccepts, At, jobVars, PlacesWithinTries
<1>2. [x \in Orders |-> Phase(x)]' = [x \in Orders |-> Phase(x)]
  BY <1>1, PhasesStay DEF Known
<1>3. Phase(o) = "inflight"
  BY <1>0, OnePlace, PhaseNow DEF Held
<1> QED BY <1>1, <1>2, <1>3 DEF Delivery!Place

\* Each step of the queue, its workers and its callers is a step of
\* OrderDelivery or leaves its variables alone.
LEMMA StepRefined ==
  ASSUME TypeOK, SingleCustody, TypeOK', SingleCustody', NothingEarly,
         AttemptsWithinLimit, PlacementsExplained, PlacesWithinTries, [Next]_vars
  PROVE  [Delivery!Next]_(Delivery!vars)
<1>1. ASSUME UNCHANGED <<queue, wjob, sent, attempts, placed>>,
             \A x \in Orders : Known(x)' <=> Known(x)
      PROVE  UNCHANGED Delivery!vars
  BY <1>1, PhasesStay DEF Delivery!vars
<1>2. ASSUME NEW w \in Workers, Work(w) PROVE Delivery!Next \/ UNCHANGED Delivery!vars
  <2>1. CASE PassCheck(w)
    BY <1>1, <2>1 DEF PassCheck, jobVars, brokerVars, Known
  <2>2. CASE MarkDispatching(w)
    <3>1. \A x \in Orders : Known(x)' <=> Known(x)
      BY <2>2 DEF MarkDispatching, At, TypeOK, Typed, InHand, Known, InCustody, Held
    <3> QED BY <1>1, <2>2, <3>1 DEF MarkDispatching, brokerVars
  <2>3. ASSUME NEW ans \in Answers, BrokerRefuses(w, ans) PROVE UNCHANGED Delivery!vars
    BY <1>1, <2>3 DEF BrokerRefuses, jobVars, brokerVars, Known
  <2> QED
    BY <1>2, <2>1, <2>2, <2>3, TakeRefined, ReturnRefined, ConfirmRefined, CloseRefined,
       TryRefined, PlaceRefined DEF Work, Delivery!Next
<1>3. ASSUME NEW o \in Orders, NEW p \in Payloads, Enqueue(o, p) PROVE Delivery!Next
  BY <1>3, AcceptRefined DEF Delivery!Next
<1>4. CASE UNCHANGED coreVars /\ \A x \in Orders : Known(x)' <=> Known(x)
  BY <1>1, <1>4 DEF coreVars
<1> QED BY <1>2, <1>3, <1>4, Outside DEF Next

\* The initial states of the queue are initial states of OrderDelivery.
LEMMA InitRefined == Init => Delivery!Init
<1> SUFFICES ASSUME Init PROVE Delivery!Init
  OBVIOUS
<1>1. ASSUME NEW x \in Orders PROVE Phase(x) = "absent"
  <2>1. ~Known(x) /\ ~InQueue(x) /\ ~Held(x)
    BY OrdersAssumption DEF Init, Known, InQueue, Held
  <2> QED BY <2>1, PhaseNow DEF InCustody
<1> QED BY <1>1 DEF Init, Delivery!Init

\* The queue with all its threads keeps the contract of OrderDelivery: bounded
\* attempts, at most one placement per attempt, and nothing once the order is
\* sent or closed, whatever callers and reconciliation do meanwhile.
THEOREM QueueDelivers == Spec => ImplementsDelivery
<1>1. /\ TypeOK /\ SingleCustody /\ TypeOK' /\ SingleCustody' /\ NothingEarly
      /\ AttemptsWithinLimit /\ PlacementsExplained /\ PlacesWithinTries /\ [Next]_vars
      => [Delivery!Next]_(Delivery!vars)
  BY StepRefined
<1> QED
  BY <1>1, InitRefined, TypeCorrect, Custody, NoHistory, AttemptsLimited,
     PlacementsAccounted, TriesCoverPlaces, PTL DEF Spec, ImplementsDelivery, Delivery!Spec
=============================================================================
