------------------------------ MODULE WsClient ------------------------------
(***************************************************************************)
(* The websocket client (app/integrations/kis_ws.py): the thread of        *)
(* run_with_reconnect, in which the callbacks of websocket-client run too, *)
(* the stop() of the shutdown, and what QuoteIngestWorker shows of them in *)
(* the metrics and in live-readiness.                                      *)
(***************************************************************************)
EXTENDS Integers

CONSTANTS
  MaxRetries,   \* max_retries; 0, the default, is "unlimited"
  FailureBound  \* failed attempts of a run: bounds the models

ASSUME MaxRetriesAssumption == MaxRetries \in Nat
ASSUME FailureBoundAssumption == FailureBound \in Nat

VARIABLES
  running,     \* self.running
  active,      \* self._active_ws_app is the app of the loop
  lastError,   \* self.last_error is not None
  reconnects,  \* self.reconnect_count
  loop,        \* next step of run_with_reconnect
  attempt,     \* its attempt
  opened,      \* state["opened"] of connect_and_subscribe
  socket,      \* (websocket-client) the connection of that app
  stopper,     \* next step of stop()
  taken,       \* stop() found an app to close
  news,        \* what _emit_state of each thread is about to report
  shown        \* QuoteIngestWorker.ws_connected

client == <<running, active, lastError, reconnects>>
vars == <<client, loop, attempt, opened, socket, stopper, taken, news, shown>>
-----------------------------------------------------------------------------
Typed ==
  /\ running \in BOOLEAN /\ active \in BOOLEAN /\ lastError \in BOOLEAN
  /\ reconnects \in Nat /\ attempt \in Nat
  /\ loop \in {"new", "while", "key", "app", "run", "done", "again",
               "fail", "retry", "sleep", "ended"}
  /\ opened \in BOOLEAN
  /\ socket \in {"none", "created", "connecting", "open", "closed", "down"}
  /\ stopper \in {"idle", "close", "over"}
  /\ taken \in BOOLEAN
  /\ news \in [{"loop", "stop"} -> {"none", "up", "down"}]
  /\ shown \in BOOLEAN

\* Each variable has its type, and there is a connection exactly while the
\* loop is inside run_forever.
TypeOK ==
  /\ Typed
  /\ loop = "run" <=> socket # "none"

Init ==
  /\ running = FALSE /\ active = FALSE /\ lastError = FALSE
  /\ reconnects = 0 /\ attempt = 0
  /\ loop = "new"
  /\ opened = FALSE
  /\ socket = "none"
  /\ stopper = "idle"
  /\ taken = FALSE
  /\ news = [t \in {"loop", "stop"} |-> "none"]
  /\ shown = FALSE

\* A thread goes on when it has no report to deliver.
LoopAt(pc) == loop = pc /\ news["loop"] = "none"

Report(t, what) == news' = [news EXCEPT ![t] = what]

\* sync_ws_state stores what _emit_state was called with.
Tell(t) ==
  /\ news[t] # "none"
  /\ shown' = (news[t] = "up")
  /\ Report(t, "none")
  /\ UNCHANGED <<client, loop, attempt, opened, socket, stopper, taken>>
-----------------------------------------------------------------------------
(* run_with_reconnect *)
Begin ==
  /\ LoopAt("new")
  /\ running' = TRUE /\ lastError' = FALSE /\ reconnects' = 0
  /\ attempt' = 0
  /\ loop' = "while"
  /\ Report("loop", "down")
  /\ UNCHANGED <<active, opened, socket, stopper, taken, shown>>

While ==
  /\ LoopAt("while")
  /\ loop' = IF running THEN "key" ELSE "ended"
  /\ UNCHANGED <<client, attempt, opened, socket, stopper, taken, news, shown>>

\* ensure_approval_key; the POST may fail.
GetKey ==
  /\ LoopAt("key")
  /\ \/ loop' = "app"
     \/ attempt < FailureBound /\ loop' = "fail"
  /\ UNCHANGED <<client, attempt, opened, socket, stopper, taken, news, shown>>

CreateApp ==
  /\ LoopAt("app")
  /\ loop' = "run"
  /\ active' = TRUE
  /\ opened' = FALSE
  /\ socket' = "created"
  /\ UNCHANGED <<running, lastError, reconnects, attempt, stopper, taken, news, shown>>

\* Broken variant: the app stays registered after its connection has ended.
RunReturnsActive ==
  /\ LoopAt("run")
  /\ socket \in {"closed", "down"}
  /\ \/ running /\ ~opened /\ attempt < FailureBound /\ loop' = "fail"
     \/ (opened \/ ~running) /\ loop' = "done"
  /\ socket' = "none"
  /\ UNCHANGED <<client, attempt, opened, stopper, taken, news, shown>>

\* Broken variant: the connection is left to itself.
RunReturnsUnclosed ==
  /\ LoopAt("run")
  /\ socket \in {"closed", "down"}
  /\ \/ running /\ ~opened /\ attempt < FailureBound /\ loop' = "fail"
     \/ (opened \/ ~running) /\ loop' = "done"
  /\ active' = FALSE
  /\ UNCHANGED <<running, lastError, reconnects, attempt, opened, socket, stopper, taken, news, shown>>

\* run_forever returned; a connection that never opened is an error.
RunReturns ==
  /\ LoopAt("run")
  /\ socket \in {"closed", "down"}
  /\ \/ running /\ ~opened /\ attempt < FailureBound /\ loop' = "fail"
     \/ (opened \/ ~running) /\ loop' = "done"
  /\ active' = FALSE
  /\ socket' = "none"
  /\ UNCHANGED <<running, lastError, reconnects, attempt, opened, stopper, taken, news, shown>>

\* Broken variant: the failures before the success stay counted.
SucceedCounted ==
  /\ LoopAt("done")
  /\ lastError' = FALSE
  /\ loop' = "again"
  /\ Report("loop", "up")
  /\ UNCHANGED <<running, active, reconnects, attempt, opened, socket, stopper, taken, shown>>

Succeed ==
  /\ LoopAt("done")
  /\ lastError' = FALSE /\ reconnects' = 0
  /\ loop' = "again"
  /\ Report("loop", "up")
  /\ UNCHANGED <<running, active, attempt, opened, socket, stopper, taken, shown>>

Again ==
  /\ LoopAt("again")
  /\ loop' = IF running THEN "while" ELSE "ended"
  /\ UNCHANGED <<client, attempt, opened, socket, stopper, taken, news, shown>>

Fail ==
  /\ LoopAt("fail")
  /\ lastError' = TRUE /\ reconnects' = reconnects + 1
  /\ loop' = "retry"
  /\ Report("loop", "down")
  /\ UNCHANGED <<running, active, attempt, opened, socket, stopper, taken, shown>>

GiveUp(tries) == MaxRetries > 0 /\ tries >= MaxRetries

\* Broken variant: a limit of 0 is taken for no retries at all.
RetryLimited ==
  /\ LoopAt("retry")
  /\ attempt' = IF running THEN attempt + 1 ELSE attempt
  /\ loop' = IF running /\ attempt' < MaxRetries THEN "sleep" ELSE "ended"
  /\ UNCHANGED <<client, opened, socket, stopper, taken, news, shown>>

\* The failed attempt is counted unless the client was stopped.
Retry ==
  /\ LoopAt("retry")
  /\ attempt' = IF running THEN attempt + 1 ELSE attempt
  /\ loop' = IF running /\ ~GiveUp(attempt') THEN "sleep" ELSE "ended"
  /\ UNCHANGED <<client, opened, socket, stopper, taken, news, shown>>

Wake ==
  /\ LoopAt("sleep")
  /\ loop' = "while"
  /\ UNCHANGED <<client, attempt, opened, socket, stopper, taken, news, shown>>
-----------------------------------------------------------------------------
(* The connection, and the callbacks it makes in the thread of the loop.   *)
Moves(from, to) ==
  /\ LoopAt("run")
  /\ socket = from
  /\ socket' = to

Connect ==
  /\ Moves("created", "connecting")
  /\ UNCHANGED <<client, loop, attempt, opened, stopper, taken, news, shown>>

OnOpen ==
  /\ Moves("connecting", "open")
  /\ opened' = TRUE
  /\ Report("loop", "up")
  /\ UNCHANGED <<client, loop, attempt, stopper, taken, shown>>

\* A message with a quote: on_ws_message, which shows the client connected.
OnMessage ==
  /\ Moves("open", "open")
  /\ shown' = TRUE
  /\ UNCHANGED <<client, loop, attempt, opened, stopper, taken, news>>

\* A failure of the connection, or an exception of a callback, which leaves
\* the connection open.
OnError ==
  /\ Moves("connecting", "closed") \/ Moves("open", "closed") \/ Moves("open", "open")
  /\ lastError' = TRUE
  /\ Report("loop", "down")
  /\ UNCHANGED <<running, active, reconnects, loop, attempt, opened, stopper, taken, shown>>

\* The other end closes, or stop() did.
OnClose ==
  /\ Moves("connecting", "down") \/ Moves("open", "down") \/ Moves("closed", "down")
  /\ Report("loop", "down")
  /\ UNCHANGED <<client, loop, attempt, opened, stopper, taken, shown>>
-----------------------------------------------------------------------------
(* stop() *)
Stop ==
  /\ stopper = "idle"
  /\ running' = FALSE
  /\ taken' = active
  /\ active' = FALSE
  /\ stopper' = "close"
  /\ UNCHANGED <<lastError, reconnects, loop, attempt, opened, socket, news, shown>>

\* close() ends a connection under way; run_forever, when it starts, forgets
\* a close() that came before it.
StopCloses ==
  /\ stopper = "close"
  /\ socket' = IF taken /\ socket \in {"connecting", "open"} THEN "closed" ELSE socket
  /\ stopper' = "over"
  /\ Report("stop", "down")
  /\ UNCHANGED <<client, loop, attempt, opened, taken, shown>>

LoopStep ==
  \/ Tell("loop") \/ Begin \/ While \/ GetKey \/ CreateApp \/ Connect
  \/ RunReturns \/ Succeed \/ Again \/ Fail \/ Retry \/ Wake

Callback == OnOpen \/ OnMessage \/ OnError \/ OnClose

Next == LoopStep \/ Callback \/ Stop \/ StopCloses \/ Tell("stop")

Spec == Init /\ [][Next]_vars

\* The thread of the loop is scheduled, its POST has a timeout and its sleeps
\* are bounded (backoff_cap_sec), and stop() does not wait.
FairSpec ==
  /\ Spec
  /\ WF_vars(LoopStep) /\ WF_vars(StopCloses) /\ WF_vars(Tell("stop"))
-----------------------------------------------------------------------------
\* Whatever order stop() and the loop take, an app is registered only while
\* its connection is there: what stop() finds to close is the connection of the
\* loop.  (The app it has already taken may be gone by the time it closes it.)
ActiveIsCurrent == active => socket # "none"

\* The loop ends when it is stopped or has used up max_retries, and never
\* sleeps after the last attempt (README.md:63).
EndsOnlyWhenTold ==
  /\ loop = "ended" => stopper # "idle" \/ GiveUp(attempt)
  /\ loop \in {"sleep", "while", "key", "app", "run", "done", "again", "fail"} => ~GiveUp(attempt)

\* live-readiness, when nothing comes between its reads of the two.
CanTrade == shown /\ ~lastError

\* While attempts fail live-readiness stays closed, even when a late message
\* or a report of the other thread shows the client connected.
FailingBlocksTrading == reconnects > 0 => ~CanTrade

\* A failed attempt is followed by another, until the client is stopped.
KeepsTrying == loop = "fail" ~> loop = "key" \/ stopper # "idle"
-----------------------------------------------------------------------------
(* What the documents and docstrings say of the client.                    *)

Silent == \A t \in {"loop", "stop"} : news[t] = "none"

\* README.md:53 "check the websocket connection: ws_connected=true": the flag
\* tells of a connection, and live-readiness opens on it.  Only claimed while
\* nobody stops the gateway and no report is under way.
ReadyMeansConnected == Silent /\ stopper = "idle" /\ CanTrade => socket = "open"
=============================================================================
