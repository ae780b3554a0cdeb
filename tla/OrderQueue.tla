----------------------------- MODULE OrderQueue -----------------------------
(***************************************************************************)
(* The order queue of the gateway (app/services/order_queue.py) with every *)
(* thread that touches a job: the workers that run process_next, the HTTP  *)
(* threads that cancel and modify, the callers of mark_execution_result    *)
(* and the reconciliation pass that corrects a job from the broker.        *)
(*                                                                         *)
(* Nothing in this code takes a lock.  CPython (3.10 on) hands the GIL     *)
(* over only at calls and loop ends, so adjacent stores are one step here  *)
(* and a check separated from its write by a call is two.                  *)
(***************************************************************************)
EXTENDS Integers, Sequences

CONSTANTS
  Orders,          \* order ids enqueue may hand out
  NoOrder,         \* "no job in hand"
  Workers,         \* threads that run process_next
  Callers,         \* HTTP and execution-feed threads
  Requests,        \* what callers do: "cancel", "modify", "FILLED", "REJECTED"
  Payloads,        \* order bodies (qty and price)
  NoPayload,
  MaxAttempts,     \* job["max_attempts"]
  BrokerStatuses,  \* answers of broker_status_provider; {} is the default one
  Adapters         \* process_next is called with an adapter, without one, or both

ASSUME OrdersAssumption == NoOrder \notin Orders
ASSUME PayloadsAssumption == NoPayload \notin Payloads
ASSUME AttemptsAssumption == MaxAttempts \in Nat \ {0}
ASSUME RequestsAssumption == Requests \subseteq {"cancel", "modify", "FILLED", "REJECTED"}
ASSUME BrokerAssumption == BrokerStatuses \cap {"ABSENT", "NEW", "DISPATCHING"} = {}
ASSUME AdaptersAssumption == Adapters \subseteq BOOLEAN

VARIABLES
  queue,      \* the deque of order ids
  status,     \* jobs[o]["status"], "ABSENT" while o is not in jobs
  terminal,   \* jobs[o]["terminal"]
  attempts,   \* jobs[o]["attempts"]
  payload,    \* jobs[o]["request"]
  sent,       \* process_next wrote SENT for o: "no", "broker" or "local"
  placed,     \* (broker) orders it accepted for o
  lost,       \* (broker) of these, how many answers never came back
  atBroker,   \* (broker) body of the last order it accepted for o
  wpc, wjob,  \* next step and job of a worker
  wreq, wans, \* arguments of its place_order call, and the answer
  caller,     \* the request each caller is serving
  recon       \* the reconciliation pass

jobVars == <<status, terminal, attempts, payload, sent>>
brokerVars == <<placed, lost, atBroker>>
workerVars == <<wpc, wjob, wreq, wans>>
vars == <<queue, jobVars, brokerVars, workerVars, caller, recon>>
-----------------------------------------------------------------------------
Terminals == {"FILLED", "REJECTED", "CANCELED"}

Statuses ==
  Terminals \cup BrokerStatuses
    \cup {"ABSENT", "NEW", "DISPATCHING", "SENT", "CANCEL_PENDING", "MODIFY_PENDING"}

\* _map_adapter_error on what place_order raises; "OK" is an answer.
Errors == {"RATE_LIMIT", "AUTH", "INVALID_ORDER", "UNKNOWN"}
Answers == Errors \cup {"OK"}

\* _ALLOWED_TRANSITIONS: the same set for cancel and for modify.
Changeable == {"NEW", "DISPATCHING", "SENT", "ACCEPTED", "QUEUED"}

WorkerSteps == {"idle", "check", "mark", "dispatch", "call", "apply"}

Request(pc, job, kind, body) == [pc |-> pc, job |-> job, kind |-> kind, body |-> body]
NoRequest == Request("idle", NoOrder, "none", NoPayload)

Pass(pc, todo, job, answer) == [pc |-> pc, todo |-> todo, job |-> job, answer |-> answer]
NoPass == Pass("idle", {}, NoOrder, "none")

Typed ==
  /\ queue \in Seq(Orders)
  /\ status \in [Orders -> Statuses]
  /\ terminal \in [Orders -> BOOLEAN]
  /\ attempts \in [Orders -> Nat]
  /\ payload \in [Orders -> Payloads \cup {NoPayload}]
  /\ sent \in [Orders -> {"no", "broker", "local"}]
  /\ placed \in [Orders -> Nat]
  /\ lost \in [Orders -> Nat]
  /\ atBroker \in [Orders -> Payloads \cup {NoPayload}]
  /\ wpc \in [Workers -> WorkerSteps]
  /\ wjob \in [Workers -> Orders \cup {NoOrder}]
  /\ wreq \in [Workers -> Payloads \cup {NoPayload}]
  /\ wans \in [Workers -> Answers \cup {"none"}]
  /\ caller \in [Callers -> [pc   : {"idle", "check", "write"},
                             job  : Orders \cup {NoOrder},
                             kind : Requests \cup {"none"},
                             body : Payloads \cup {NoPayload}]]
  /\ recon \in [pc     : {"idle", "scan", "compare", "correct"},
                todo   : SUBSET Orders,
                job    : Orders \cup {NoOrder},
                answer : BrokerStatuses \cup {"none"}]

Init ==
  /\ queue = <<>>
  /\ status = [o \in Orders |-> "ABSENT"]
  /\ terminal = [o \in Orders |-> FALSE]
  /\ attempts = [o \in Orders |-> 0]
  /\ payload = [o \in Orders |-> NoPayload]
  /\ sent = [o \in Orders |-> "no"]
  /\ placed = [o \in Orders |-> 0]
  /\ lost = [o \in Orders |-> 0]
  /\ atBroker = [o \in Orders |-> NoPayload]
  /\ wpc = [w \in Workers |-> "idle"]
  /\ wjob = [w \in Workers |-> NoOrder]
  /\ wreq = [w \in Workers |-> NoPayload]
  /\ wans = [w \in Workers |-> "none"]
  /\ caller = [c \in Callers |-> NoRequest]
  /\ recon = NoPass

Known(o) == status[o] # "ABSENT"
InQueue(o) == \E i \in 1..Len(queue) : queue[i] = o
Held(o) == \E w \in Workers : wjob[w] = o
InCustody(o) == InQueue(o) \/ Held(o)
Released(o) == Known(o) /\ ~InCustody(o)

\* What a thread has in hand is a job it found in the table.
InHand ==
  /\ \A o \in Orders : InCustody(o) => Known(o)
  /\ \A w \in Workers :
       /\ wpc[w] # "idle" <=> wjob[w] \in Orders
       /\ wpc[w] = "apply" <=> wans[w] \in Answers
  /\ \A c \in Callers :
       caller[c].pc # "idle" =>
         caller[c].job \in Orders /\ Known(caller[c].job) /\ caller[c].kind \in Requests
  /\ \A o \in recon.todo : Known(o)
  /\ recon.pc \in {"compare", "correct"} =>
       recon.job \in Orders /\ Known(recon.job) /\ recon.answer \in BrokerStatuses

\* Each variable has its type, and each thread in the middle of an operation
\* has a job of the table and the data its next step needs.
TypeOK == Typed /\ InHand
-----------------------------------------------------------------------------
(* enqueue for a new key; OrderIntake models the idempotency table.        *)
Enqueue(o, p) ==
  /\ ~Known(o)
  /\ status' = [status EXCEPT ![o] = "NEW"]
  /\ payload' = [payload EXCEPT ![o] = p]
  /\ queue' = Append(queue, o)
  /\ UNCHANGED <<terminal, attempts, sent, brokerVars, workerVars, caller, recon>>

(* process_next, one action per hand-over point. *)
At(w, from, to) == wpc[w] = from /\ wpc' = [wpc EXCEPT ![w] = to]

LetGo(w) ==
  /\ wpc' = [wpc EXCEPT ![w] = "idle"]
  /\ wjob' = [wjob EXCEPT ![w] = NoOrder]
  /\ wreq' = [wreq EXCEPT ![w] = NoPayload]
  /\ wans' = [wans EXCEPT ![w] = "none"]

EmptyPoll(w) == wpc[w] = "idle" /\ queue = <<>> /\ UNCHANGED vars

Pop(w) ==
  /\ queue # <<>>
  /\ At(w, "idle", "check")
  /\ wjob' = [wjob EXCEPT ![w] = Head(queue)]
  /\ queue' = Tail(queue)
  /\ UNCHANGED <<jobVars, brokerVars, wreq, wans, caller, recon>>

SkipTerminal(w) ==
  /\ wpc[w] = "check"
  /\ terminal[wjob[w]]
  /\ LetGo(w)
  /\ UNCHANGED <<queue, jobVars, brokerVars, caller, recon>>

PassCheck(w) ==
  /\ At(w, "check", "mark")
  /\ ~terminal[wjob[w]]
  /\ UNCHANGED <<queue, jobVars, brokerVars, wjob, wreq, wans, caller, recon>>

MarkDispatching(w) ==
  /\ At(w, "mark", "dispatch")
  /\ status' = [status EXCEPT ![wjob[w]] = "DISPATCHING"]
  /\ UNCHANGED <<queue, terminal, attempts, payload, sent, brokerVars,
                 wjob, wreq, wans, caller, recon>>

Dispatch(w, body) ==
  /\ TRUE \in Adapters
  /\ At(w, "dispatch", "call")
  /\ attempts' = [attempts EXCEPT ![wjob[w]] = @ + 1]
  /\ wreq' = [wreq EXCEPT ![w] = body]
  /\ UNCHANGED <<queue, status, terminal, payload, sent, brokerVars,
                 wjob, wans, caller, recon>>

\* Broken variant: a retry sends the body of the placement before.
CallAdapterStale(w) ==
  LET o == wjob[w]
  IN  Dispatch(w, IF atBroker[o] = NoPayload THEN payload[o] ELSE atBroker[o])

\* The attempt is counted and the arguments of place_order are read.
CallAdapter(w) == Dispatch(w, payload[wjob[w]])
-----------------------------------------------------------------------------
(* The broker. place_order has a timeout, so it answers or raises; an      *)
(* answer can be lost after the order was accepted, and what place_order   *)
(* raises then is mapped by its text to any error.                         *)
BrokerAccepts(w, ans) ==
  /\ At(w, "call", "apply")
  /\ ans \in Answers
  /\ LET o == wjob[w] IN
       /\ placed' = [placed EXCEPT ![o] = @ + 1]
       /\ lost' = [lost EXCEPT ![o] = IF ans = "OK" THEN @ ELSE @ + 1]
       /\ atBroker' = [atBroker EXCEPT ![o] = wreq[w]]
  /\ wans' = [wans EXCEPT ![w] = ans]
  /\ UNCHANGED <<queue, jobVars, wjob, wreq, caller, recon>>

BrokerRefuses(w, ans) ==
  /\ At(w, "call", "apply")
  /\ ans \in Errors
  /\ wans' = [wans EXCEPT ![w] = ans]
  /\ UNCHANGED <<queue, jobVars, brokerVars, wjob, wreq, caller, recon>>
-----------------------------------------------------------------------------
(* Back in process_next with the answer. *)
IsRetryable(error) == error \in {"RATE_LIMIT", "UNKNOWN"}

\* Broken variant: one attempt too many.
MayRetryOnceMore(o, error) == IsRetryable(error) /\ attempts[o] <= MaxAttempts

MayRetry(o, error) == IsRetryable(error) /\ attempts[o] < MaxAttempts

Sent(w) ==
  /\ wpc[w] = "apply"
  /\ wans[w] = "OK"
  /\ status' = [status EXCEPT ![wjob[w]] = "SENT"]
  /\ sent' = [sent EXCEPT ![wjob[w]] = "broker"]
  /\ LetGo(w)
  /\ UNCHANGED <<queue, terminal, attempts, payload, brokerVars, caller, recon>>

GiveBack(w, newStatus, newQueue) ==
  /\ wpc[w] = "apply"
  /\ wans[w] \in Errors
  /\ MayRetry(wjob[w], wans[w])
  /\ status' = [status EXCEPT ![wjob[w]] = newStatus]
  /\ queue' = newQueue
  /\ LetGo(w)
  /\ UNCHANGED <<terminal, attempts, payload, sent, brokerVars, caller, recon>>

\* Broken variants: the order is not queued again, its status not reset.
RetryForgets(w) == GiveBack(w, "NEW", queue)
RetryUnmarked(w) == GiveBack(w, status[wjob[w]], Append(queue, wjob[w]))

Retry(w) == GiveBack(w, "NEW", Append(queue, wjob[w]))

Reject(w) ==
  /\ wpc[w] = "apply"
  /\ wans[w] \in Errors
  /\ ~MayRetry(wjob[w], wans[w])
  /\ status' = [status EXCEPT ![wjob[w]] = "REJECTED"]
  /\ terminal' = [terminal EXCEPT ![wjob[w]] = TRUE]
  /\ LetGo(w)
  /\ UNCHANGED <<queue, attempts, payload, sent, brokerVars, caller, recon>>

(* process_next without an adapter: the caller says how it went. *)
LocalSent(w) ==
  /\ FALSE \in Adapters
  /\ wpc[w] = "dispatch"
  /\ status' = [status EXCEPT ![wjob[w]] = "SENT"]
  /\ sent' = [sent EXCEPT ![wjob[w]] = "local"]
  /\ LetGo(w)
  /\ UNCHANGED <<queue, terminal, attempts, payload, brokerVars, caller, recon>>

LocalReject(w) ==
  /\ FALSE \in Adapters
  /\ wpc[w] = "dispatch"
  /\ status' = [status EXCEPT ![wjob[w]] = "REJECTED"]
  /\ terminal' = [terminal EXCEPT ![wjob[w]] = TRUE]
  /\ LetGo(w)
  /\ UNCHANGED <<queue, attempts, payload, sent, brokerVars, caller, recon>>
-----------------------------------------------------------------------------
(* The callers. All three services test "terminal" in one step and write   *)
(* in the next one.                                                        *)
Serve(c, o, k, b) ==
  /\ caller[c].pc = "idle"
  /\ k \in Requests
  /\ caller' = [caller EXCEPT ![c] = Request("check", o, k, b)]
  /\ UNCHANGED <<queue, jobVars, brokerVars, workerVars, recon>>

\* cancel_order and modify_order answer 404, 409 or 400 unless this holds.
Admitted(o) == Known(o) /\ ~terminal[o] /\ status[o] \in Changeable

RouteCancel(c, o) == Admitted(o) /\ Serve(c, o, "cancel", NoPayload)

RouteModify(c, o, b) == Admitted(o) /\ Serve(c, o, "modify", b)

MarkExecution(c, o, result) ==
  /\ Known(o)
  /\ result \in {"FILLED", "REJECTED"}
  /\ Serve(c, o, result, NoPayload)

Advance(c, from, request) ==
  /\ caller[c].pc = from
  /\ caller' = [caller EXCEPT ![c] = request]

RefuseTerminal(c) ==
  /\ Advance(c, "check", NoRequest)
  /\ terminal[caller[c].job]
  /\ UNCHANGED <<queue, jobVars, brokerVars, workerVars, recon>>

FindOpen(c) ==
  /\ Advance(c, "check", Request("write", caller[c].job, caller[c].kind, caller[c].body))
  /\ ~terminal[caller[c].job]
  /\ UNCHANGED <<queue, jobVars, brokerVars, workerVars, recon>>

\* Broken variant: the cancel closes the order wherever it is.
WriteCancelCloses(c) ==
  /\ caller[c].kind = "cancel"
  /\ Advance(c, "write", NoRequest)
  /\ status' = [status EXCEPT ![caller[c].job] = "CANCELED"]
  /\ terminal' = [terminal EXCEPT ![caller[c].job] = TRUE]
  /\ UNCHANGED <<queue, attempts, payload, sent, brokerVars, workerVars, recon>>

WriteCancel(c) ==
  /\ caller[c].kind = "cancel"
  /\ Advance(c, "write", NoRequest)
  /\ status' = [status EXCEPT ![caller[c].job] = "CANCEL_PENDING"]
  /\ UNCHANGED <<queue, terminal, attempts, payload, sent, brokerVars, workerVars, recon>>

\* Broken variant: a modified order starts anew, without being queued.
WriteModifyResets(c) ==
  /\ caller[c].kind = "modify"
  /\ Advance(c, "write", NoRequest)
  /\ payload' = [payload EXCEPT ![caller[c].job] = caller[c].body]
  /\ status' = [status EXCEPT ![caller[c].job] = "NEW"]
  /\ UNCHANGED <<queue, terminal, attempts, sent, brokerVars, workerVars, recon>>

\* Broken variant: the modified order is queued again.
WriteModifyRequeues(c) ==
  /\ caller[c].kind = "modify"
  /\ Advance(c, "write", NoRequest)
  /\ payload' = [payload EXCEPT ![caller[c].job] = caller[c].body]
  /\ status' = [status EXCEPT ![caller[c].job] = "MODIFY_PENDING"]
  /\ queue' = Append(queue, caller[c].job)
  /\ UNCHANGED <<terminal, attempts, sent, brokerVars, workerVars, recon>>

WriteModify(c) ==
  /\ caller[c].kind = "modify"
  /\ Advance(c, "write", NoRequest)
  /\ payload' = [payload EXCEPT ![caller[c].job] = caller[c].body]
  /\ status' = [status EXCEPT ![caller[c].job] = "MODIFY_PENDING"]
  /\ UNCHANGED <<queue, terminal, attempts, sent, brokerVars, workerVars, recon>>

WriteExecution(c) ==
  /\ caller[c].kind \in {"FILLED", "REJECTED"}
  /\ Advance(c, "write", NoRequest)
  /\ status' = [status EXCEPT ![caller[c].job] = caller[c].kind]
  /\ terminal' = [terminal EXCEPT ![caller[c].job] = TRUE]
  /\ UNCHANGED <<queue, attempts, payload, sent, brokerVars, workerVars, recon>>
-----------------------------------------------------------------------------
(* reconcile_once. A pass whose provider never answers changes nothing.    *)
OnlyRecon == UNCHANGED <<queue, jobVars, brokerVars, workerVars, caller>>

BeginPass ==
  /\ recon.pc = "idle"
  /\ BrokerStatuses # {}
  /\ recon' = Pass("scan", {o \in Orders : Known(o)}, NoOrder, "none")
  /\ OnlyRecon

AskBroker(o, answer) ==
  /\ recon.pc = "scan"
  /\ o \in recon.todo
  /\ recon' = Pass("compare", recon.todo \ {o}, o, answer)
  /\ OnlyRecon

\* Broken variant: "no answer" is compared and applied like a status.
NoAnswerApplied(o) ==
  /\ recon.pc = "scan"
  /\ o \in recon.todo
  /\ recon' = Pass("compare", recon.todo \ {o}, o, "none")
  /\ OnlyRecon

NoAnswer(o) ==
  /\ recon.pc = "scan"
  /\ o \in recon.todo
  /\ recon' = Pass("scan", recon.todo \ {o}, NoOrder, "none")
  /\ OnlyRecon

Rescan == Pass("scan", recon.todo, NoOrder, "none")

Compare ==
  /\ recon.pc = "compare"
  /\ recon' = IF status[recon.job] = recon.answer
              THEN Rescan
              ELSE Pass("correct", recon.todo, recon.job, recon.answer)
  /\ OnlyRecon

ApplyCorrection ==
  /\ recon.pc = "correct"
  /\ status' = [status EXCEPT ![recon.job] = recon.answer]
  /\ terminal' = [terminal EXCEPT ![recon.job] = @ \/ recon.answer \in Terminals]
  /\ recon' = Rescan
  /\ UNCHANGED <<queue, attempts, payload, sent, brokerVars, workerVars, caller>>

EndPass ==
  /\ recon.pc = "scan"
  /\ recon.todo = {}
  /\ recon' = NoPass
  /\ OnlyRecon
-----------------------------------------------------------------------------
Work(w) ==
  \/ Pop(w) \/ SkipTerminal(w) \/ PassCheck(w) \/ MarkDispatching(w)
  \/ CallAdapter(w)
  \/ \E ans \in Answers : BrokerAccepts(w, ans) \/ BrokerRefuses(w, ans)
  \/ Sent(w) \/ Retry(w) \/ Reject(w) \/ LocalSent(w) \/ LocalReject(w)

Call(c) ==
  \/ \E o \in Orders :
       \/ RouteCancel(c, o)
       \/ \E b \in Payloads : RouteModify(c, o, b)
       \/ \E k \in Requests : MarkExecution(c, o, k)
  \/ RefuseTerminal(c) \/ FindOpen(c)
  \/ WriteCancel(c) \/ WriteModify(c) \/ WriteExecution(c)

Reconcile ==
  \/ BeginPass \/ Compare \/ ApplyCorrection \/ EndPass
  \/ \E o \in Orders :
       NoAnswer(o) \/ \E answer \in BrokerStatuses : AskBroker(o, answer)

Next ==
  \/ \E o \in Orders, p \in Payloads : Enqueue(o, p)
  \/ \E w \in Workers : Work(w) \/ EmptyPoll(w)
  \/ \E c \in Callers : Call(c)
  \/ Reconcile

Spec == Init /\ [][Next]_vars

\* The order worker loops until shutdown, place_order times out after five
\* seconds, and the loop survives every exception: a worker keeps working.
FairSpec == Spec /\ \A w \in Workers : WF_vars(Work(w))
-----------------------------------------------------------------------------
(* Properties. *)

\* A job is in one place: once in the queue (popleft and append in
\* process_next) or in the hands of one worker, never both.  Two workers, a
\* retry and a modify must not make two copies of an order.
SingleCustody ==
  /\ \A i, j \in 1..Len(queue) : queue[i] = queue[j] => i = j
  /\ \A w \in Workers : ~InQueue(wjob[w])
  /\ \A v, w \in Workers : wjob[v] = wjob[w] /\ wjob[v] # NoOrder => v = w

\* place_order is called at most max_attempts times for an order, and an
\* order that waits, or is about to be dispatched, has an attempt left: the
\* test at the end of one process_next bounds what a later one does.
AttemptsWithinLimit ==
  \A o \in Orders :
    /\ attempts[o] <= MaxAttempts
    /\ InQueue(o) => attempts[o] < MaxAttempts
    /\ \A w \in Workers :
         wjob[w] = o /\ wpc[w] \in {"check", "mark", "dispatch"}
           => attempts[o] < MaxAttempts

\* The answer that confirms o has arrived.
Confirmed(o) ==
  sent[o] = "broker" \/ \E w \in Workers : wjob[w] = o /\ wans[w] = "OK"

Explained(o) == placed[o] = lost[o] + (IF Confirmed(o) THEN 1 ELSE 0)

\* process_next places an order a second time only when the answer of an
\* earlier placement was lost: besides the lost ones the broker holds exactly
\* the confirmed one.
PlacementsExplained == \A o \in Orders : Explained(o)

\* With the invariants above this is inductive: an order nobody accepted has
\* no history, and an order that was sent is out of the queue.
NothingEarly ==
  \A o \in Orders :
    /\ ~Known(o) => attempts[o] = 0 /\ sent[o] = "no"
    /\ InCustody(o) => sent[o] = "no"

\* An accepted order that was neither sent nor closed is in the queue or with
\* a worker: no path through process_next drops it.
NotForgotten ==
  \A o \in Orders : Known(o) /\ sent[o] = "no" /\ ~terminal[o] => InCustody(o)

\* An order shown as DISPATCHING is really with a worker: every exit of
\* process_next, and every write of another thread, replaces that status.
DispatchingIsHeld == \A o \in Orders : status[o] = "DISPATCHING" => Held(o)

\* With the threads the gateway deploys (workers and cancel/modify callers)
\* a job becomes terminal only by process_next giving up on it: it is out of
\* the queue, no worker holds it, and the broker has no order for it but those
\* whose answer was lost.
ClosedIsReleased ==
  \A o \in Orders :
    terminal[o] => Released(o) /\ sent[o] = "no" /\ placed[o] = lost[o]

Pending == {"CANCEL_PENDING", "MODIFY_PENDING"}

\* With those threads the status tells where an order is, or that a cancel or
\* modify is pending: process_next, working from a check it made before, and a
\* cancel or modify that comes too late write over each other, but they never
\* make an order that left the queue look alive, nor one sent or rejected that
\* was not.
StatusTruthful ==
  \A o \in Orders :
    /\ status[o] = "NEW" => InCustody(o)
    /\ status[o] = "SENT" <=> sent[o] # "no" /\ status[o] \notin Pending
    /\ status[o] = "REJECTED" <=> terminal[o] /\ status[o] \notin Pending

\* The contract of OrderDelivery, by where each order is.
Phase(o) ==
  CASE ~Known(o) -> "absent"
    [] InQueue(o) -> "waiting"
    [] Held(o) -> "inflight"
    [] Released(o) -> IF sent[o] = "broker" THEN "sent" ELSE "closed"

Delivery == INSTANCE OrderDelivery
              WITH phase <- [o \in Orders |-> Phase(o)],
                   tries <- attempts, placements <- placed

\* Queue and workers keep the promise of OrderDelivery: bounded tries, at most
\* one placement per try, nothing after the order was sent or closed.
ImplementsDelivery == Delivery!Spec

\* Every accepted order leaves the queue for good, sent or closed, however
\* callers and reconciliation interfere with its status.
Settles ==
  \A o \in Orders : Known(o) ~> (Released(o) /\ (sent[o] # "no" \/ terminal[o]))
=============================================================================
