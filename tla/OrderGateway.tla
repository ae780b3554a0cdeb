---------------------------- MODULE OrderGateway ----------------------------
(***************************************************************************)
(* Orders from the client's key to the broker, over several lives of the   *)
(* process: the threads of create_order put bodies the risk policy passed  *)
(* under an Idempotency-Key into the queue of OrderQueue, modify_order may *)
(* replace such a body, and a crash forgets everything but what the broker *)
(* has.  OrderIntake has the policy, the body comparison and the counter.  *)
(***************************************************************************)
EXTENDS OrderQueue, FiniteSets

CONSTANTS
  Clients,   \* threads that serve create_order
  Keys, NoKey,
  Safe,      \* the bodies the risk policy passes (RiskPolicy!OrderError)
  MaxLives   \* bound on the restarts

ASSUME GatewayAssumption ==
  NoKey \notin Keys /\ Safe \subseteq Payloads /\ MaxLives \in Nat \ {0}

VARIABLES
  idem,    \* the order recorded for a key
  intake,  \* the request each thread of create_order serves
  life,    \* which life of the process this is
  keyOf,   \* history: the key an order was created for
  bornIn,  \* history: the life it was created in, 0 for an id not used yet
  changed, \* history: the orders whose body a modify replaced
  edited   \* of these, the ones no placement has read the body of since

intakeVars == <<idem, intake, keyOf, bornIn>>
gatewayVars == <<intakeVars, life, changed, edited>>
allVars == <<vars, gatewayVars>>
-----------------------------------------------------------------------------
\* A request of create_order: the next step, its key and body, the order made
\* for it, and whether it repeats an answered one (history).
Handler(pc, key, body, order, repeats) ==
  [pc |-> pc, key |-> key, body |-> body, order |-> order, repeats |-> repeats]
NoHandler == Handler("idle", NoKey, NoPayload, NoOrder, FALSE)

Handlers ==
  [pc      : {"idle", "lookup", "create", "record"},
   key     : Keys \cup {NoKey},
   body    : Payloads \cup {NoPayload},
   order   : Orders \cup {NoOrder},
   repeats : BOOLEAN]

GatewayTyped ==
  /\ idem \in [Keys -> Orders \cup {NoOrder}]
  /\ intake \in [Clients -> Handlers]
  /\ life \in 1..MaxLives
  /\ keyOf \in [Orders -> Keys \cup {NoKey}]
  /\ bornIn \in [Orders -> 0..life]
  /\ changed \subseteq Orders
  /\ edited \subseteq Orders

GatewayInit ==
  /\ Init
  /\ idem = [k \in Keys |-> NoOrder]
  /\ intake = [t \in Clients |-> NoHandler]
  /\ life = 1
  /\ keyOf = [o \in Orders |-> NoKey]
  /\ bornIn = [o \in Orders |-> 0]
  /\ changed = {}
  /\ edited = {}

\* The request o was created for is still under way.
InIntake(o) == \E t \in Clients : intake[t].order = o

\* The tables agree: the jobs are the orders of this life, a key is recorded
\* for a job of its own, and a job whose key is not recorded at all is in the
\* hands of the thread that will record it.
GatewayTypeOK ==
  /\ TypeOK
  /\ GatewayTyped
  /\ \A o \in Orders : Known(o) <=> bornIn[o] = life
  /\ \A o \in Orders :
       Known(o) => keyOf[o] \in Keys /\ (idem[keyOf[o]] = NoOrder => InIntake(o))
  /\ \A k \in Keys : idem[k] # NoOrder => Known(idem[k]) /\ keyOf[idem[k]] = k
  /\ \A t \in Clients :
       /\ intake[t].pc # "idle" => intake[t].key \in Keys /\ intake[t].body \in Payloads
       /\ intake[t].pc = "record" <=> intake[t].order \in Orders
       /\ intake[t].pc = "record" =>
            Known(intake[t].order) /\ keyOf[intake[t].order] = intake[t].key
-----------------------------------------------------------------------------
(* create_order, one action per hand-over point. *)
Turn(t, from, handler) ==
  /\ intake[t].pc = from
  /\ intake' = [intake EXCEPT ![t] = handler]

\* A request for o was answered in this life of the process.
AnsweredNow(o) == bornIn[o] = life /\ ~InIntake(o)

Receive(t, k, p) ==
  /\ Turn(t, "idle", Handler("lookup", k, p, NoOrder,
                             \E o \in Orders : keyOf[o] = k /\ AnsweredNow(o)))
  /\ UNCHANGED <<vars, idem, keyOf, bornIn, life, changed, edited>>

\* Broken variant: the body is queued before the policy has seen it.
AskUnchecked(t, k, p) == Receive(t, k, p)

\* create_order answers 400 to every other body.
Ask(t, k, p) == p \in Safe /\ Receive(t, k, p)

\* A known key is answered with its order or, for another body, with 409.
Look(t) ==
  /\ Turn(t, "lookup", IF idem[intake[t].key] = NoOrder
                       THEN [intake[t] EXCEPT !.pc = "create"] ELSE NoHandler)
  /\ UNCHANGED <<vars, idem, keyOf, bornIn, life, changed, edited>>

Create(t, o) ==
  /\ Turn(t, "create", [intake[t] EXCEPT !.pc = "record", !.order = o])
  /\ bornIn[o] = 0
  /\ Enqueue(o, intake[t].body)
  /\ keyOf' = [keyOf EXCEPT ![o] = intake[t].key]
  /\ bornIn' = [bornIn EXCEPT ![o] = life]
  /\ UNCHANGED <<idem, life, changed, edited>>

\* Broken variant: the key of the new order is not recorded.
RecordNothing(t) ==
  /\ Turn(t, "record", NoHandler)
  /\ UNCHANGED <<vars, idem, keyOf, bornIn, life, changed, edited>>

Record(t) ==
  /\ Turn(t, "record", NoHandler)
  /\ idem' = [idem EXCEPT ![intake[t].key] = intake[t].order]
  /\ UNCHANGED <<vars, keyOf, bornIn, life, changed, edited>>
-----------------------------------------------------------------------------
(* The workers, cancel_order and modify_order, and the end of the process. *)

\* The arguments of place_order are read when w comes from "dispatch" to "call".
Poll(w) ==
  /\ Work(w) \/ EmptyPoll(w)
  /\ edited' = IF wpc[w] = "dispatch" /\ wpc'[w] = "call"
               THEN edited \ {wjob[w]} ELSE edited
  /\ UNCHANGED <<intakeVars, life, changed>>

Change(c) ==
  /\ Call(c)
  /\ LET new == IF caller[c].kind = "modify" /\ caller[c].pc = "write"
                THEN {caller[c].job} ELSE {}
     IN  changed' = changed \cup new /\ edited' = edited \cup new
  /\ UNCHANGED <<intakeVars, life>>

\* A call under way when the process dies may still reach the broker, and
\* nobody hears its answer.
Arrived(o, W) == \E w \in W : wjob[w] = o
ArrivesAfterCrash(W) ==
  /\ W \subseteq {w \in Workers : wpc[w] = "call"}
  /\ placed' = [o \in Orders |-> IF Arrived(o, W) THEN placed[o] + 1 ELSE placed[o]]
  /\ lost' = [o \in Orders |-> IF Arrived(o, W) THEN lost[o] + 1 ELSE lost[o]]
  /\ atBroker' = [o \in Orders |->
                    IF Arrived(o, W) THEN wreq[CHOOSE w \in W : wjob[w] = o] ELSE atBroker[o]]

\* The queue, the jobs and every thread are gone.
Dies(W) ==
  /\ life < MaxLives
  /\ life' = life + 1
  /\ ArrivesAfterCrash(W)
  /\ queue' = <<>>
  /\ status' = [o \in Orders |-> "ABSENT"]
  /\ terminal' = [o \in Orders |-> FALSE]
  /\ attempts' = [o \in Orders |-> 0]
  /\ payload' = [o \in Orders |-> NoPayload]
  /\ sent' = [o \in Orders |-> "no"]
  /\ wpc' = [w \in Workers |-> "idle"]
  /\ wjob' = [w \in Workers |-> NoOrder]
  /\ wreq' = [w \in Workers |-> NoPayload]
  /\ wans' = [w \in Workers |-> "none"]
  /\ caller' = [c \in Callers |-> NoRequest]
  /\ recon' = NoPass
  /\ intake' = [t \in Clients |-> NoHandler]
  /\ edited' = {}
  /\ UNCHANGED <<keyOf, bornIn, changed>>

\* Broken variant: the idempotency table outlives the jobs it points to.
CrashKeepsTable(W) == Dies(W) /\ UNCHANGED idem

Crash(W) == Dies(W) /\ idem' = [k \in Keys |-> NoOrder]

Place(t) ==
  \/ \E k \in Keys, p \in Payloads : Ask(t, k, p)
  \/ Look(t)
  \/ \E o \in Orders : Create(t, o)
  \/ Record(t)

GatewayNext ==
  \/ \E t \in Clients : Place(t)
  \/ \E w \in Workers : Poll(w)
  \/ \E c \in Callers : Change(c)
  \/ \E W \in SUBSET Workers : Crash(W)

GatewaySpec == GatewayInit /\ [][GatewayNext]_allVars
-----------------------------------------------------------------------------
(* Properties. *)

\* Requests of one key that overlap can make an order each (order_queue.py:36
\* tests the table and line 57 writes it), and the later record hides the
\* earlier one.  A request that begins after any order of its key was answered
\* never makes another: in one life of the process a client that repeats an
\* answered request brings no second order to the queue.
RepeatFindsOrder ==
  \A t \in Clients : intake[t].pc \in {"create", "record"} => ~intake[t].repeats

\* modify_order only replaces the body in the job.  The broker has that body
\* for an order it confirmed, retries and lost answers before it included,
\* unless the modify came after the last placement had read its arguments:
\* that one change never reaches the broker.
BrokerHasLastBody ==
  \A o \in Orders : sent[o] = "broker" => atBroker[o] = payload[o] \/ o \in edited

\* Only a modify brings a body to the broker that the policy did not pass, and
\* only for the order it was asked for: no retry, restart or other order does.
BypassOnlyByModify ==
  \A o \in Orders : atBroker[o] \in Safe \cup {NoPayload} \/ o \in changed
=============================================================================
