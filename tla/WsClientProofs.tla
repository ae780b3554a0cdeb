--------------------------- MODULE WsClientProofs ---------------------------
(* The websocket client for every max_retries and every order of stop(),    *)
(* callbacks and loop.                                                      *)
EXTENDS WsClient, TLAPS

\* A step of any thread keeps the types and ties the connection to the loop.
LEMMA TypeStep == TypeOK /\ [Next]_vars => TypeOK'
<1> SUFFICES ASSUME TypeOK, [Next]_vars PROVE TypeOK'
  OBVIOUS
<1> USE DEF TypeOK, Typed, LoopAt, Report, client
<1>1. ASSUME NEW t \in {"loop", "stop"}, Tell(t) PROVE TypeOK'
  BY <1>1 DEF Tell
<1>2. CASE Begin
  BY <1>2 DEF Begin
<1>3. CASE While
  BY <1>3 DEF While
<1>4. CASE GetKey
  BY <1>4 DEF GetKey
<1>5. CASE CreateApp
  BY <1>5 DEF CreateApp
<1>6. CASE Connect
  BY <1>6 DEF Connect, Moves
<1>7. CASE RunReturns
  BY <1>7 DEF RunReturns
<1>8. CASE Succeed
  BY <1>8 DEF Succeed
<1>9. CASE Again
  BY <1>9 DEF Again
<1>10. CASE Fail
  BY <1>10 DEF Fail
<1>11. CASE Retry
  BY <1>11 DEF Retry
<1>12. CASE Wake
  BY <1>12 DEF Wake
<1>13. CASE Callback
  <2>1. CASE OnOpen
    BY <2>1 DEF OnOpen, Moves
  <2>2. CASE OnMessage
    BY <2>2 DEF OnMessage, Moves
  <2>3. CASE OnError
    BY <2>3 DEF OnError, Moves
  <2>4. CASE OnClose
    BY <2>4 DEF OnClose, Moves
  <2> QED BY <1>13, <2>1, <2>2, <2>3, <2>4 DEF Callback
<1>14. CASE Stop
  BY <1>14 DEF Stop
<1>15. CASE StopCloses
  BY <1>15 DEF StopCloses
<1>16. CASE UNCHANGED vars
  BY <1>16 DEF vars
<1> QED
  BY <1>1, <1>2, <1>3, <1>4, <1>5, <1>6, <1>7, <1>8, <1>9, <1>10, <1>11,
     <1>12, <1>13, <1>14, <1>15, <1>16 DEF Next, LoopStep

\* Every variable keeps its type, and there is a connection exactly while the
\* loop is inside run_forever.
THEOREM ClientTyped == Spec => []TypeOK
<1>1. ASSUME Init PROVE TypeOK
  <2>1. news \in [{"loop", "stop"} -> {"none", "up", "down"}]
    BY <1>1 DEF Init
  <2> QED
    BY <1>1, <2>1 DEF Init, TypeOK, Typed
<1> QED
  BY <1>1, TypeStep, PTL DEF Spec

\* What stop() may close is the connection of the present: connect_and_subscribe
\* unregisters its app on every way out.
THEOREM AppIsCurrent == Spec => []ActiveIsCurrent
<1>1. Init => ActiveIsCurrent
  BY DEF Init, ActiveIsCurrent
<1>2. TypeOK /\ ActiveIsCurrent /\ [Next]_vars => ActiveIsCurrent'
  BY DEF ActiveIsCurrent, TypeOK, Typed, Next, LoopStep, Callback, LoopAt, client, vars,
     Tell, Begin, While, GetKey, CreateApp, Connect, RunReturns, Succeed, Again, Fail,
     Retry, Wake, OnOpen, OnMessage, OnError, OnClose, Moves, Stop, StopCloses
<1> QED
  BY <1>1, <1>2, ClientTyped, PTL DEF Spec

\* A client that nobody stopped is running from its first step on.
RunsUnlessStopped ==
  loop # "new" /\ stopper = "idle" => running

\* The loop gives up only at max_retries or because stop() was called, and it
\* never goes on after its last attempt.
THEOREM EndsWhenTold == Spec => []EndsOnlyWhenTold
<1> DEFINE Inv == EndsOnlyWhenTold /\ RunsUnlessStopped
<1>1. Init => Inv
  BY DEF Init, EndsOnlyWhenTold, RunsUnlessStopped
<1>2. TypeOK /\ Inv /\ [Next]_vars => Inv'
  <2> SUFFICES ASSUME TypeOK, Inv, [Next]_vars PROVE Inv'
    OBVIOUS
  <2> USE MaxRetriesAssumption
      DEF EndsOnlyWhenTold, RunsUnlessStopped, GiveUp, LoopAt, TypeOK, Typed, client
  <2>1. CASE Begin
    BY <2>1 DEF Begin
  <2>2. CASE While \/ GetKey \/ CreateApp \/ Again \/ Wake
    BY <2>2 DEF While, GetKey, CreateApp, Again, Wake
  <2>3. CASE Fail
    BY <2>3 DEF Fail
  <2>4. CASE RunReturns \/ Succeed
    BY <2>4 DEF RunReturns, Succeed
  <2>5. CASE Retry
    BY <2>5 DEF Retry
  <2>6. CASE Callback \/ Connect
    BY <2>6 DEF Callback, OnOpen, OnMessage, OnError, OnClose, Connect, Moves
  <2>7. CASE Stop \/ StopCloses
    BY <2>7 DEF Stop, StopCloses
  <2>8. CASE Tell("loop") \/ Tell("stop") \/ UNCHANGED vars
    BY <2>8 DEF Tell, vars
  <2> QED
    BY <2>1, <2>2, <2>3, <2>4, <2>5, <2>6, <2>7, <2>8 DEF Next, LoopStep
<1> QED
  BY <1>1, <1>2, ClientTyped, PTL DEF Spec

\* While attempts fail live-readiness stays closed, whatever late callbacks and
\* reports of stop() show of the connection: the error outlives them all.
THEOREM FailingBlocks == Spec => []FailingBlocksTrading
<1> DEFINE Inv == reconnects > 0 => lastError
<1>1. Init => Inv
  BY DEF Init
<1>2. TypeOK /\ Inv /\ [Next]_vars => Inv'
  BY DEF TypeOK, Typed, Next, LoopStep, Callback, LoopAt, client, vars, Tell, Begin, While,
     GetKey, CreateApp, Connect, RunReturns, Succeed, Again, Fail, Retry, Wake, OnOpen,
     OnMessage, OnError, OnClose, Moves, Stop, StopCloses
<1>3. Inv => FailingBlocksTrading
  BY DEF FailingBlocksTrading, CanTrade
<1> QED
  BY <1>1, <1>2, <1>3, ClientTyped, PTL DEF Spec
=============================================================================
