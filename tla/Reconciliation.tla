--------------------------- MODULE Reconciliation ---------------------------
(***************************************************************************)
(* The reconciliation service (app/services/reconciliation.py): the loop   *)
(* thread the lifespan starts and stops, callers of trigger(), and the     *)
(* event log a pass writes and the next process loads.  What a correction  *)
(* does to a job is in OrderQueue; here it is counted.  The service has an *)
(* event_log_path; without one a pass stops after the list of events.      *)
(***************************************************************************)
EXTENDS Integers, FiniteSets

CONSTANTS
  Loops,      \* names for the loop threads start() creates
  Triggers,   \* threads that call trigger()
  NoThread,
  Jobs,       \* bound on the jobs a pass goes through
  Limit,      \* events kept in memory, 100 in the code
  MaxApplied, \* bound on the corrections of one life
  MaxTears,   \* bound on the appends cut short
  MaxLives    \* bound on the lives of the process

ASSUME ThreadsAssumption ==
  /\ NoThread \notin Loops \cup Triggers /\ Loops \cap Triggers = {}
  /\ IsFiniteSet(Loops) /\ IsFiniteSet(Triggers)
ASSUME BoundsAssumption ==
  /\ Jobs \in Nat /\ Limit \in Nat /\ MaxApplied \in Nat
  /\ MaxTears \in Nat /\ MaxLives \in Nat

VARIABLES
  up,         \* between the start() and the stop() of the lifespan
  stopped,    \* _stop_event is set
  thread,     \* _thread
  at,         \* what each thread does next
  todo,       \* jobs its pass has left
  fixed,      \* the local "corrected" of its pass
  recent,     \* len(_recent_events)
  persisted,  \* _persisted_count
  corrected,  \* _metrics["corrected"]
  applied,    \* history: corrections applied in this life
  raised,     \* history: some pass of this life ended with an exception
  good, tail, \* (file) complete readable lines, and how it ends
  tears,      \* history: appends cut short, by a crash or by an error
  lives       \* history: which life of the process this is

service == <<up, stopped, thread>>
events == <<recent, persisted>>
counts == <<corrected, applied, raised>>
file == <<good, tail, tears>>
vars == <<service, at, todo, fixed, events, counts, file, lives>>
-----------------------------------------------------------------------------
Runners == Loops \cup Triggers

\* The file ends with a newline, with a whole event that lacks its newline, or
\* with a part of an event.
Tails == {"ended", "whole", "torn"}

\* "wait" is the wait of the loop, and a trigger thread outside of trigger().
Typed ==
  /\ up \in BOOLEAN /\ stopped \in BOOLEAN /\ raised \in BOOLEAN
  /\ thread \in Loops \cup {NoThread}
  /\ at \in [Runners -> {"off", "wait", "scan", "trim", "log", "count"}]
  /\ todo \in [Runners -> 0..Jobs]
  /\ fixed \in [Runners -> Nat]
  /\ recent \in Nat /\ persisted \in Nat
  /\ corrected \in Nat /\ applied \in Nat
  /\ good \in Nat /\ tail \in Tails /\ tears \in Nat /\ lives \in Nat

Least(m, n) == IF m < n THEN m ELSE n

Rest == [r \in Runners |-> IF r \in Loops THEN "off" ELSE "wait"]
Nothing == [r \in Runners |-> 0]

Init ==
  /\ up = FALSE /\ stopped = FALSE /\ thread = NoThread
  /\ at = Rest /\ todo = Nothing /\ fixed = Nothing
  /\ recent = 0 /\ persisted = 0
  /\ corrected = 0 /\ applied = 0 /\ raised = FALSE
  /\ good = 0 /\ tail = "ended" /\ tears = 0
  /\ lives = 1
-----------------------------------------------------------------------------
(* start and stop, called by the lifespan one after the other. *)
Alive == thread # NoThread /\ at[thread] # "off"

NewLoop ==
  \E l \in Loops : at[l] = "off" /\ thread' = l /\ at' = [at EXCEPT ![l] = "wait"]

Idle == UNCHANGED <<todo, fixed, events, counts, file, lives>>

\* Broken variants: start() looks at no thread, or clears the event first.
StartUnchecked == ~up /\ up' = TRUE /\ stopped' = FALSE /\ NewLoop /\ Idle
StartClears ==
  /\ ~up /\ up' = TRUE /\ stopped' = FALSE
  /\ IF Alive THEN UNCHANGED <<thread, at>> ELSE NewLoop
  /\ Idle

Start ==
  /\ ~up
  /\ up' = TRUE
  /\ IF Alive THEN UNCHANGED <<stopped, thread, at>>
              ELSE stopped' = FALSE /\ NewLoop
  /\ Idle

\* join() gives up after a second: the thread may go on.
Stop ==
  /\ up
  /\ up' = FALSE
  /\ stopped' = TRUE
  /\ UNCHANGED <<thread, at>> /\ Idle
-----------------------------------------------------------------------------
(* The loop and the passes. *)
Go(r, from, to) == at[r] = from /\ at' = [at EXCEPT ![r] = to]

LoopEnds(l) == stopped /\ Go(l, "wait", "off") /\ UNCHANGED service /\ Idle

BeginPass(r, n) ==
  /\ r \in Loops => ~stopped
  /\ Go(r, "wait", "scan")
  /\ todo' = [todo EXCEPT ![r] = n]
  /\ UNCHANGED <<service, fixed, events, counts, file, lives>>

\* The broker has no answer for the job, or the status it already has.
Agree(r) ==
  /\ todo[r] > 0
  /\ Go(r, "scan", "scan")
  /\ todo' = [todo EXCEPT ![r] = @ - 1]
  /\ UNCHANGED <<service, fixed, events, counts, file, lives>>

Correct(r) ==
  /\ todo[r] > 0
  /\ applied < MaxApplied
  /\ Go(r, "scan", "trim")
  /\ todo' = [todo EXCEPT ![r] = @ - 1]
  /\ fixed' = [fixed EXCEPT ![r] = @ + 1]
  /\ applied' = applied + 1
  /\ recent' = recent + 1
  /\ UNCHANGED <<service, persisted, corrected, raised, file, lives>>

\* Broken variant: the list of events is never cut.
TrimNothing(r) ==
  Go(r, "trim", "log") /\ UNCHANGED <<service, todo, fixed, events, counts, file, lives>>

Trim(r) ==
  /\ Go(r, "trim", "log")
  /\ recent' = Least(recent, Limit)
  /\ UNCHANGED <<service, todo, fixed, persisted, counts, file, lives>>

\* A line appended to a line without newline makes one line nobody can parse.
Write(r) ==
  /\ Go(r, "log", "count")
  /\ good' = IF tail = "ended" THEN good + 1 ELSE good
  /\ tail' = "ended"
  /\ UNCHANGED <<service, todo, fixed, events, counts, tears, lives>>

Count(r) ==
  /\ Go(r, "count", "scan")
  /\ persisted' = persisted + 1
  /\ UNCHANGED <<service, todo, fixed, recent, counts, file, lives>>

\* Broken variant: the counter is no local of the pass, the next one adds to it.
EndPassKeeps(r) ==
  /\ todo[r] = 0
  /\ Go(r, "scan", "wait")
  /\ corrected' = corrected + fixed[r]
  /\ UNCHANGED <<service, todo, fixed, events, applied, raised, file, lives>>

\* The pass adds its counters and returns, its locals are gone.
EndPass(r) ==
  /\ todo[r] = 0
  /\ Go(r, "scan", "wait")
  /\ corrected' = corrected + fixed[r]
  /\ fixed' = [fixed EXCEPT ![r] = 0]
  /\ UNCHANGED <<service, todo, events, applied, raised, file, lives>>
-----------------------------------------------------------------------------
(* Failures. *)
\* What an append that was cut short leaves at the end of the file.
Tear(left) ==
  /\ tears < MaxTears
  /\ tears' = tears + 1
  /\ tail' = IF tail = "ended" THEN left ELSE "torn"
  /\ UNCHANGED good

\* The exception ends the pass, and the loop catches it.
Abandon(r, to) ==
  /\ at' = [at EXCEPT ![r] = to]
  /\ todo' = [todo EXCEPT ![r] = 0]
  /\ fixed' = [fixed EXCEPT ![r] = 0]
  /\ raised' = TRUE

ProviderRaisesTo(r, to) ==
  /\ at[r] = "scan" /\ todo[r] > 0
  /\ Abandon(r, to)
  /\ UNCHANGED <<service, events, corrected, applied, file, lives>>

\* Broken variant: the loop does not catch it.
ProviderRaisesOut(r) == ProviderRaisesTo(r, IF r \in Loops THEN "off" ELSE "wait")

ProviderRaises(r) == ProviderRaisesTo(r, "wait")

\* The append raises, having written nothing or a part of its line.
WriteFailsWith(r, n) ==
  /\ at[r] = "log"
  /\ Abandon(r, "wait")
  /\ UNCHANGED file \/ Tear("torn") \/ Tear("whole")
  /\ persisted' = persisted + n
  /\ UNCHANGED <<service, recent, corrected, applied, lives>>

\* Broken variant: a line is counted whether or not it was written.
WriteFailsCounted(r) == WriteFailsWith(r, 1)

WriteFails(r) == WriteFailsWith(r, 0)

Readable == IF tail = "whole" THEN good + 1 ELSE good

\* _load_persisted_events of the next process: lines it cannot parse are left out.
Load ==
  /\ persisted' = Readable'
  /\ recent' = Least(Readable', Limit)

Crash ==
  /\ lives < MaxLives
  /\ lives' = lives + 1
  /\ \/ UNCHANGED file
     \/ (\E r \in Runners : at[r] = "log") /\ (Tear("torn") \/ Tear("whole"))
  /\ Load
  /\ up' = FALSE /\ stopped' = FALSE /\ thread' = NoThread
  /\ at' = Rest /\ todo' = Nothing /\ fixed' = Nothing
  /\ corrected' = 0 /\ applied' = 0 /\ raised' = FALSE
-----------------------------------------------------------------------------
Progress(r) ==
  \/ Agree(r) \/ Correct(r) \/ Trim(r) \/ Write(r) \/ Count(r) \/ EndPass(r)
  \/ ProviderRaises(r) \/ WriteFails(r)

Next ==
  \/ Start \/ Stop \/ Crash
  \/ \E l \in Loops : LoopEnds(l)
  \/ \E r \in Runners : Progress(r) \/ \E n \in 0..Jobs : BeginPass(r, n)

Spec == Init /\ [][Next]_vars

\* wait() returns, and the provider and the disk answer or raise.
FairSpec == Spec /\ \A l \in Loops : WF_vars(LoopEnds(l) \/ Progress(l))
-----------------------------------------------------------------------------
(* Properties. *)

\* Types; only the loop _thread names is alive; and the list of events is over
\* its limit only while some thread is about to cut it.
TypeOK ==
  /\ Typed
  /\ \A r \in Runners : r \in Triggers => at[r] # "off"
  /\ recent > Limit => \E r \in Runners : at[r] = "trim"

\* A start() after a stop() whose join gave up never leaves two loops correcting
\* the same jobs.
OneLoop == \A l1, l2 \in Loops : at[l1] # "off" /\ at[l2] # "off" => l1 = l2

\* While the gateway is up and not told to stop, the loop runs, whatever its
\* passes ran into.  (A start() that finds the old loop leaves the event set,
\* and that gateway goes on without reconciliation.)
LoopSurvives == up /\ ~stopped => Alive

\* persisted_count is what a restart would find in the log, but for the lines
\* whose append was cut short, and the ones glued to them.
CountMatchesLog ==
  /\ persisted <= Readable + 2 * tears
  /\ (\A r \in Runners : at[r] # "count") => Readable <= persisted + tears

\* metrics() never reports a correction twice, and misses one only while its
\* pass goes on or after a pass that raised.
CorrectionsCounted ==
  /\ corrected <= applied
  /\ (~raised /\ \A r \in Runners : at[r] = "wait" \/ at[r] = "off") => corrected = applied

\* Once told to stop, the loop ends, even if join() did not wait for it and
\* start() is called again.
StopEnds == stopped ~> \A l \in Loops : at[l] = "off"
=============================================================================
