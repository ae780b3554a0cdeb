------------------------ MODULE ReconciliationProofs ------------------------
(* Theorems about Reconciliation, for any number of loop names, trigger     *)
(* threads, jobs, cut appends and lives of the process.                     *)
EXTENDS Reconciliation, FiniteSetTheorems, TLAPS
-----------------------------------------------------------------------------
\* The smaller of two numbers.
LEMMA LeastIs ==
  ASSUME NEW m \in Nat, NEW n \in Nat
  PROVE  Least(m, n) \in Nat /\ Least(m, n) <= n
BY DEF Least

\* Types are inductive.
LEMMA TypeStep == TypeOK /\ [Next]_vars => TypeOK'
<1> SUFFICES ASSUME TypeOK, [Next]_vars PROVE TypeOK'
  OBVIOUS
<1> USE BoundsAssumption, ThreadsAssumption
    DEF TypeOK, Typed, Runners, Tails, service, events, counts, file
<1>1. CASE Start
  BY <1>1 DEF Start, NewLoop, Idle
<1>2. CASE Stop
  BY <1>2 DEF Stop, Idle
<1>3. CASE Crash
  <2>1. good' = good /\ tail' \in Tails /\ tears' \in {tears, tears + 1}
    BY <1>3 DEF Crash, Tear
  <2>2. PICK n \in Nat : n = Readable'
    BY <2>1 DEF Readable
  <2>3. PICK m \in Nat : m = Least(n, Limit) /\ m <= Limit
    BY <2>2, LeastIs
  <2>4. recent' = m /\ persisted' = n
    BY <1>3, <2>2, <2>3 DEF Crash, Load
  <2>5. ~(recent' > Limit)
    BY <2>3, <2>4
  <2>6. up' \in BOOLEAN /\ stopped' \in BOOLEAN /\ raised' \in BOOLEAN
    BY <1>3, Zenon DEF Crash
  <2>7. at' = Rest /\ todo' = Nothing /\ fixed' = Nothing
    BY <1>3 DEF Crash
  <2>8. /\ at' \in [Runners -> {"off", "wait", "scan", "trim", "log", "count"}]
        /\ todo' \in [Runners -> 0..Jobs] /\ fixed' \in [Runners -> Nat]
    BY <2>7 DEF Rest, Nothing
  <2>9. \A r \in Triggers : r \notin Loops
    OBVIOUS
  <2>10. \A r \in Triggers : at'[r] # "off"
    BY <2>7, <2>9 DEF Rest
  <2>11. /\ thread' \in Loops \cup {NoThread} /\ lives' \in Nat
         /\ corrected' \in Nat /\ applied' \in Nat
    BY <1>3 DEF Crash
  <2>12. good' \in Nat /\ tears' \in Nat
    BY <2>1
  <2>13. recent' \in Nat /\ persisted' \in Nat
    BY <2>3, <2>4
  <2> QED BY <2>1, <2>5, <2>6, <2>8, <2>10, <2>11, <2>12, <2>13, Zenon
<1>4. ASSUME NEW l \in Loops, LoopEnds(l) PROVE TypeOK'
  BY <1>4 DEF LoopEnds, Go, Idle
<1>5. ASSUME NEW r \in Runners, Progress(r) PROVE TypeOK'
  <2>1. CASE Agree(r) BY <2>1 DEF Agree, Go
  <2>2. CASE Correct(r) BY <2>2 DEF Correct, Go
  <2>3. CASE Trim(r)
    <3>1. PICK m \in Nat : m = Least(recent, Limit) /\ m <= Limit
      BY LeastIs
    <3>2. recent' = m /\ ~(recent' > Limit)
      BY <2>3, <3>1 DEF Trim
    <3> QED BY <2>3, <3>1, <3>2 DEF Trim, Go
  <2>4. CASE Write(r) BY <2>4 DEF Write, Go
  <2>5. CASE Count(r) BY <2>5 DEF Count, Go
  <2>6. CASE EndPass(r) BY <2>6 DEF EndPass, Go
  <2>7. CASE ProviderRaises(r)
    BY <2>7 DEF ProviderRaises, ProviderRaisesTo, Abandon
  <2>8. CASE WriteFails(r)
    <3>1. good' \in Nat /\ tail' \in Tails /\ tears' \in Nat
      BY <2>8 DEF WriteFails, WriteFailsWith, Tear
    <3> QED BY <2>8, <3>1 DEF WriteFails, WriteFailsWith, Abandon
  <2> QED
    BY <1>5, <2>1, <2>2, <2>3, <2>4, <2>5, <2>6, <2>7, <2>8 DEF Progress
<1>6. ASSUME NEW r \in Runners, NEW n \in 0..Jobs, BeginPass(r, n) PROVE TypeOK'
  BY <1>6 DEF BeginPass, Go
<1>7. CASE UNCHANGED vars
  BY <1>7 DEF vars
<1> QED BY <1>1, <1>2, <1>3, <1>4, <1>5, <1>6, <1>7 DEF Next

\* Types, and the list of events is over its limit only on the way to its cut.
THEOREM ReconciliationTyped == Spec => []TypeOK
<1>1. Init => TypeOK
  <2> SUFFICES ASSUME Init PROVE TypeOK
    OBVIOUS
  <2>1. recent = 0 /\ ~(recent > Limit)
    BY BoundsAssumption DEF Init
  <2>2. Typed
    <3>1. up \in BOOLEAN /\ stopped \in BOOLEAN /\ raised \in BOOLEAN
      BY Zenon DEF Init
    <3>2. /\ at \in [Runners -> {"off", "wait", "scan", "trim", "log", "count"}]
          /\ todo \in [Runners -> 0..Jobs] /\ fixed \in [Runners -> Nat]
      BY BoundsAssumption DEF Init, Rest, Nothing
    <3>3. /\ thread \in Loops \cup {NoThread} /\ lives \in Nat
          /\ corrected \in Nat /\ applied \in Nat /\ recent \in Nat /\ persisted \in Nat
          /\ good \in Nat /\ tail \in Tails /\ tears \in Nat
      BY DEF Init, Tails
    <3> QED BY <3>1, <3>2, <3>3 DEF Typed
  <2>3. \A r \in Triggers : at[r] # "off"
    BY ThreadsAssumption DEF Init, Runners, Rest
  <2> QED BY <2>1, <2>2, <2>3 DEF TypeOK
<1> QED BY <1>1, TypeStep, PTL DEF Spec
-----------------------------------------------------------------------------
\* The loop that lives is the one stop() can join, and it lives while the event
\* is clear.
ThreadIsLoop ==
  /\ \A l \in Loops : at[l] # "off" => thread = l
  /\ LoopSurvives

\* Only start() makes a loop, and only the event ends one.
LEMMA ThreadStep == TypeOK /\ ThreadIsLoop /\ [Next]_vars => ThreadIsLoop'
<1> SUFFICES ASSUME TypeOK, ThreadIsLoop, [Next]_vars PROVE ThreadIsLoop'
  OBVIOUS
<1> USE ThreadsAssumption DEF TypeOK, Typed, ThreadIsLoop, LoopSurvives, Alive, Runners,
    service
<1>1. CASE Start
  BY <1>1 DEF Start, NewLoop
<1>2. CASE Stop
  BY <1>2 DEF Stop
<1>3. CASE Crash
  BY <1>3 DEF Crash, Rest
<1>4. ASSUME NEW l \in Loops, LoopEnds(l) PROVE ThreadIsLoop'
  BY <1>4 DEF LoopEnds, Go
<1>5. ASSUME NEW r \in Runners, NEW from, NEW to, at[r] = from, at' = [at EXCEPT ![r] = to],
             from # "off", to # "off", UNCHANGED service
      PROVE  ThreadIsLoop'
  BY <1>5
<1>6. ASSUME NEW r \in Runners, Progress(r) PROVE ThreadIsLoop'
  BY <1>5, <1>6 DEF Progress, Agree, Correct, Trim, Write, Count, EndPass, Go,
     ProviderRaises, ProviderRaisesTo, WriteFails, WriteFailsWith, Abandon
<1>7. ASSUME NEW r \in Runners, NEW n \in 0..Jobs, BeginPass(r, n) PROVE ThreadIsLoop'
  BY <1>5, <1>7 DEF BeginPass, Go
<1>8. CASE UNCHANGED vars
  BY <1>8 DEF vars
<1> QED BY <1>1, <1>2, <1>3, <1>4, <1>6, <1>7, <1>8 DEF Next

\* It holds of the service before its first start().
LEMMA ThreadInit == Init => ThreadIsLoop
BY DEF Init, Rest, ThreadIsLoop, LoopSurvives, Runners

\* However starts and stops follow each other, one loop lives at most.
THEOREM OneLoopAlive == Spec => []OneLoop
<1>1. ThreadIsLoop => OneLoop
  BY DEF ThreadIsLoop, OneLoop
<1> QED BY <1>1, ThreadInit, ThreadStep, ReconciliationTyped, PTL DEF Spec

\* No provider and no disk ends the loop of a gateway that is up.
THEOREM LoopGoesOn == Spec => []LoopSurvives
<1>1. ThreadIsLoop => LoopSurvives
  BY DEF ThreadIsLoop
<1> QED BY <1>1, ThreadInit, ThreadStep, ReconciliationTyped, PTL DEF Spec
-----------------------------------------------------------------------------
\* The threads between the append of a line and its count.
Counting == {r \in Runners : at[r] = "count"}

\* Lines the next append may make unreadable, itself included.
Debt == IF tail = "whole" THEN 2 ELSE IF tail = "torn" THEN 1 ELSE 0

\* What the file holds, up to what cut appends cost and will cost.
FileCounted ==
  /\ persisted + Cardinality(Counting) + Debt <= Readable + 2 * tears
  /\ Readable <= persisted + Cardinality(Counting) + tears
  /\ tail # "ended" => tears > 0

\* They are finitely many.
LEMMA CountingFinite == IsFiniteSet(Counting) /\ Cardinality(Counting) \in Nat
<1>1. IsFiniteSet(Counting)
  BY ThreadsAssumption, FS_Union, FS_Subset DEF Counting, Runners
<1> QED BY <1>1, FS_CardinalityType

\* A thread that comes to the count is one more.
LEMMA CountingGains ==
  ASSUME TypeOK, NEW r \in Runners, at[r] # "count", at' = [at EXCEPT ![r] = "count"]
  PROVE  Cardinality(Counting') = Cardinality(Counting) + 1
<1>1. Counting' = Counting \cup {r} /\ r \notin Counting
  BY DEF Counting, TypeOK, Typed
<1> QED BY <1>1, CountingFinite, FS_AddElement

\* A thread that leaves it is one fewer.
LEMMA CountingLoses ==
  ASSUME TypeOK, NEW r \in Runners, at[r] = "count", at' = [at EXCEPT ![r] = "scan"]
  PROVE  Cardinality(Counting') = Cardinality(Counting) - 1
<1>1. Counting' = Counting \ {r} /\ r \in Counting
  BY DEF Counting, TypeOK, Typed
<1> QED BY <1>1, CountingFinite, FS_RemoveElement

\* The other steps leave their number alone.
LEMMA CountingKeeps ==
  ASSUME TypeOK, NEW r \in Runners, NEW to, at[r] # "count", to # "count",
         at' = [at EXCEPT ![r] = to]
  PROVE  Cardinality(Counting') = Cardinality(Counting)
<1>1. Counting' = Counting
  BY DEF Counting, TypeOK, Typed
<1> QED BY <1>1

\* Appends, cut appends, counts and reloads keep file and count together.
LEMMA FileStep == TypeOK /\ FileCounted /\ [Next]_vars => FileCounted'
<1> SUFFICES ASSUME TypeOK, FileCounted, [Next]_vars PROVE FileCounted'
  OBVIOUS
<1> USE DEF FileCounted, Debt, Readable, file, events
<1>0. /\ good \in Nat /\ tears \in Nat /\ persisted \in Nat /\ tail \in Tails
      /\ Cardinality(Counting) \in Nat
  BY CountingFinite DEF TypeOK, Typed
<1>1. ASSUME UNCHANGED <<persisted, file>>, Cardinality(Counting') = Cardinality(Counting)
      PROVE  FileCounted'
  BY <1>1
<1>2. ASSUME NEW r \in Runners, NEW to, at' = [at EXCEPT ![r] = to],
             at[r] # "count", to # "count", UNCHANGED <<persisted, file>>
      PROVE  FileCounted'
  BY <1>1, <1>2, CountingKeeps
<1>3. CASE Start
  <2>1. Counting' = Counting
    BY <1>3 DEF Start, NewLoop, Counting, TypeOK, Typed, Runners
  <2> QED BY <1>1, <1>3, <2>1 DEF Start, Idle
<1>4. CASE Stop \/ UNCHANGED vars
  <2>1. UNCHANGED <<persisted, file, at>>
    BY <1>4 DEF Stop, Idle, vars
  <2>2. Counting' = Counting
    BY <2>1 DEF Counting
  <2> QED BY <1>1, <2>1, <2>2
<1>5. CASE Crash
  <2>1. Counting' = {}
    BY <1>5 DEF Crash, Rest, Counting
  <2>2. Cardinality(Counting') = 0
    BY <2>1, FS_EmptySet
  <2>3. persisted' = Readable'
    BY <1>5 DEF Crash, Load
  <2>4. good' = good /\ tail' \in Tails
    BY <1>0, <1>5 DEF Crash, Tear, Tails
  <2>5. PICK k \in Nat : k = tears'
    BY <1>0, <1>5 DEF Crash, Tear
  <2>6. tail' # "ended" => k > 0
    BY <1>0, <1>5, <2>5 DEF Crash, Tear
  <2>7. PICK n \in Nat : n = Readable'
    BY <1>0, <2>4
  <2>8. PICK d \in {0, 1, 2} : d = Debt' /\ d <= 2 * k
    BY <2>4, <2>6 DEF Tails
  <2> QED BY <2>2, <2>3, <2>5, <2>6, <2>7, <2>8
<1>6. ASSUME NEW l \in Loops, LoopEnds(l) PROVE FileCounted'
  BY <1>2, <1>6 DEF LoopEnds, Go, Idle, Runners
<1>7. ASSUME NEW r \in Runners, Progress(r) PROVE FileCounted'
  <2>1. CASE Agree(r) \/ Correct(r) \/ Trim(r) \/ EndPass(r) \/ ProviderRaises(r)
    BY <1>2, <2>1 DEF Agree, Correct, Trim, EndPass, ProviderRaises, ProviderRaisesTo,
       Abandon, Go
  <2>2. CASE Write(r)
    <3>1. Cardinality(Counting') = Cardinality(Counting) + 1
      BY <2>2, CountingGains DEF Write, Go
    <3>2. /\ persisted' = persisted /\ tears' = tears /\ tail' = "ended"
          /\ good' = IF tail = "ended" THEN good + 1 ELSE good
      BY <2>2 DEF Write
    <3> QED BY <1>0, <3>1, <3>2 DEF Tails
  <2>3. CASE Count(r)
    <3>1. Cardinality(Counting') = Cardinality(Counting) - 1
      BY <2>3, CountingLoses DEF Count, Go
    <3>2. persisted' = persisted + 1 /\ UNCHANGED file
      BY <2>3 DEF Count
    <3> QED BY <1>0, <3>1, <3>2 DEF Tails
  <2>4. CASE WriteFails(r)
    <3>0. persisted' = persisted + 0 /\ at[r] = "log" /\ at' = [at EXCEPT ![r] = "wait"]
      BY <2>4 DEF WriteFails, WriteFailsWith, Abandon
    <3>1. Cardinality(Counting') = Cardinality(Counting) /\ persisted' = persisted
      <4>1. Cardinality(Counting') = Cardinality(Counting)
        BY <3>0, CountingKeeps
      <4>2. persisted' = persisted
        BY <1>0, <3>0
      <4> QED BY <4>1, <4>2
    <3>2. UNCHANGED file \/ Tear("torn") \/ Tear("whole")
      BY <2>4 DEF WriteFails, WriteFailsWith
    <3>3. CASE UNCHANGED file BY <1>1, <3>1, <3>3
    <3>4. CASE Tear("torn") \/ Tear("whole")
      BY <1>0, <3>1, <3>4 DEF Tear, Tails
    <3> QED BY <3>2, <3>3, <3>4
  <2> QED BY <1>7, <2>1, <2>2, <2>3, <2>4 DEF Progress
<1>8. ASSUME NEW r \in Runners, NEW n \in 0..Jobs, BeginPass(r, n) PROVE FileCounted'
  BY <1>2, <1>8 DEF BeginPass, Go
<1> QED BY <1>3, <1>4, <1>5, <1>6, <1>7, <1>8 DEF Next

\* persisted_count is what a restart would find in the log, up to the lines cut
\* appends cost.
THEOREM CountMatches == Spec => []CountMatchesLog
<1>1. Init => FileCounted
  <2> SUFFICES ASSUME Init PROVE FileCounted
    OBVIOUS
  <2>1. Counting = {}
    BY DEF Init, Rest, Counting
  <2>2. Cardinality(Counting) = 0
    BY <2>1, FS_EmptySet
  <2> QED BY <2>2 DEF Init, FileCounted, Debt, Readable
<1>2. TypeOK /\ FileCounted => CountMatchesLog
  <2> SUFFICES ASSUME TypeOK, FileCounted PROVE CountMatchesLog
    OBVIOUS
  <2>1. Cardinality(Counting) \in Nat
    BY CountingFinite
  <2>2. (\A r \in Runners : at[r] # "count") => Cardinality(Counting) = 0
    BY FS_EmptySet DEF Counting
  <2>3. Debt \in Nat /\ Readable \in Nat /\ persisted \in Nat /\ tears \in Nat
    BY DEF Debt, Readable, TypeOK, Typed
  <2> QED BY <2>1, <2>2, <2>3 DEF FileCounted, CountMatchesLog
<1> QED BY <1>1, <1>2, FileStep, ReconciliationTyped, PTL DEF Spec
-----------------------------------------------------------------------------
(* The corrections a pass has applied and metrics() does not report yet, one *)
(* element for each, so that their number needs no sum over the threads.     *)
Unreported == {p \in Runners \X Nat : p[2] \in 1..fixed[p[1]]}

\* What is reported and what is not make up what was applied, but for passes
\* that raised; and a thread between two passes has reported everything.
AllAccounted ==
  /\ IsFiniteSet(Unreported)
  /\ corrected + Cardinality(Unreported) <= applied
  /\ ~raised => corrected + Cardinality(Unreported) = applied
  /\ \A r \in Runners : at[r] \in {"wait", "off"} => fixed[r] = 0

\* The unreported corrections of one thread are as many as it counted.
LEMMA OwnCount ==
  ASSUME NEW r, NEW n \in Nat
  PROVE  /\ IsFiniteSet({r} \X (1..n))
         /\ Cardinality({r} \X (1..n)) = n
<1> DEFINE S == {r} \X (1..n)
           f == [i \in 1..n |-> <<r, i>>]
<1>1. IsFiniteSet(1..n) /\ Cardinality(1..n) = n
  BY FS_Interval
<1>2. f \in [1..n -> S]
  OBVIOUS
<1>3. \A i, j \in 1..n : f[i] = f[j] => i = j
  OBVIOUS
<1>4. \A p \in S : \E i \in 1..n : f[i] = p
  OBVIOUS
<1>5. f \in Bijection(1..n, S)
  BY <1>2, <1>3, <1>4 DEF Bijection, Injection, Surjection, IsInjective
<1>6. ExistsBijection(1..n, S)
  BY <1>5 DEF ExistsBijection
<1> HIDE DEF S, f
<1>7. IsFiniteSet(S) /\ Cardinality(S) = Cardinality(1..n)
  BY <1>1, <1>6, FS_Bijection
<1> QED BY <1>1, <1>7 DEF S

\* A step that applies and reports nothing, and starts or ends no pass with
\* corrections.
LEMMA AccountKept ==
  ASSUME TypeOK, AllAccounted, UNCHANGED <<fixed, corrected, applied, raised>>,
         \A r \in Runners : at'[r] \in {"wait", "off"} => at[r] \in {"wait", "off"}
  PROVE  AllAccounted'
<1>1. Unreported' = Unreported
  BY DEF Unreported
<1> QED BY <1>1 DEF AllAccounted

\* A correction is one more applied and one more not reported.
LEMMA AccountCorrect ==
  ASSUME TypeOK, AllAccounted, NEW r \in Runners, Correct(r)
  PROVE  AllAccounted'
<1>1. /\ fixed' = [fixed EXCEPT ![r] = @ + 1] /\ at' = [at EXCEPT ![r] = "trim"]
      /\ applied' = applied + 1 /\ UNCHANGED <<corrected, raised>>
  BY DEF Correct, Go
<1>2. PICK n \in Nat : n = fixed[r]
  BY DEF TypeOK, Typed
<1>3. fixed'[r] = n + 1 /\ \A x \in Runners \ {r} : fixed'[x] = fixed[x]
  BY <1>1, <1>2 DEF TypeOK, Typed
<1>4. <<r, n + 1>> \notin Unreported
  BY <1>2 DEF Unreported
<1>5. Unreported' = Unreported \cup {<<r, n + 1>>}
  <2>1. ASSUME NEW p \in Runners \X Nat
        PROVE  p[2] \in 1..fixed'[p[1]] <=> p[2] \in 1..fixed[p[1]] \/ p = <<r, n + 1>>
    <3>1. CASE p[1] = r
      <4>1. p[2] \in 1..(n + 1) <=> p[2] \in 1..n \/ p[2] = n + 1
        OBVIOUS
      <4>2. p[2] = n + 1 <=> p = <<r, n + 1>>
        BY <3>1
      <4> QED BY <1>2, <1>3, <3>1, <4>1, <4>2
    <3>2. CASE p[1] # r
      BY <1>3, <3>2
    <3> QED BY <3>1, <3>2
  <2> QED BY <2>1 DEF Unreported
<1>6. /\ IsFiniteSet(Unreported')
      /\ Cardinality(Unreported') = Cardinality(Unreported) + 1
      /\ Cardinality(Unreported) \in Nat
  BY <1>4, <1>5, FS_AddElement, FS_CardinalityType DEF AllAccounted
<1>7. \A x \in Runners : at'[x] \in {"wait", "off"} => fixed'[x] = 0
  BY <1>1, <1>3 DEF AllAccounted, TypeOK, Typed
<1> QED BY <1>1, <1>6, <1>7 DEF AllAccounted, TypeOK, Typed

\* The thread of a pass that is over has nothing unreported any more.
LEMMA AccountOver ==
  ASSUME TypeOK, AllAccounted, NEW r \in Runners, fixed' = [fixed EXCEPT ![r] = 0]
  PROVE  /\ IsFiniteSet(Unreported')
         /\ Cardinality(Unreported') \in Nat /\ Cardinality(Unreported) \in Nat
         /\ Cardinality(Unreported) = Cardinality(Unreported') + fixed[r]
<1> DEFINE Own == {r} \X (1..fixed[r])
<1>1. fixed[r] \in Nat /\ fixed \in [Runners -> Nat]
  BY DEF TypeOK, Typed
<1>2. fixed'[r] = 0 /\ \A x \in Runners \ {r} : fixed'[x] = fixed[x]
  BY <1>1
<1>3. IsFiniteSet(Own) /\ Cardinality(Own) = fixed[r]
  BY <1>1, OwnCount
<1>4. \A p \in Own : p \in Unreported
  BY <1>1 DEF Unreported
<1>5. Unreported' = Unreported \ Own
  <2>1. ASSUME NEW p \in Runners \X Nat
        PROVE  p[2] \in 1..fixed'[p[1]] <=> p[2] \in 1..fixed[p[1]] /\ p \notin Own
    <3>1. CASE p[1] = r
      <4>1. p[2] \in 1..fixed[r] => p \in Own
        BY <3>1
      <4>2. ~(p[2] \in 1..0)
        OBVIOUS
      <4> QED BY <1>2, <3>1, <4>1, <4>2
    <3>2. CASE p[1] # r
      BY <1>2, <3>2
    <3> QED BY <3>1, <3>2
  <2> QED BY <2>1 DEF Unreported
<1>6. Unreported = Unreported' \cup Own /\ Unreported' \cap Own = {}
  BY <1>4, <1>5
<1> HIDE DEF Own
<1>7. IsFiniteSet(Unreported')
  BY <1>5, FS_Difference DEF AllAccounted
<1>8. Cardinality(Unreported' \cup Own)
        = Cardinality(Unreported') + Cardinality(Own) - Cardinality(Unreported' \cap Own)
  BY <1>3, <1>7, FS_Union
<1>9. Cardinality(Unreported' \cap Own) = 0
  BY <1>6, FS_EmptySet
<1>10. Cardinality(Unreported') \in Nat /\ Cardinality(Unreported) \in Nat
  BY <1>7, FS_CardinalityType DEF AllAccounted
<1> QED BY <1>1, <1>3, <1>6, <1>7, <1>8, <1>9, <1>10

\* The end of a pass reports what it has counted.
LEMMA AccountEnd ==
  ASSUME TypeOK, AllAccounted, NEW r \in Runners, EndPass(r)
  PROVE  AllAccounted'
<1>1. /\ fixed' = [fixed EXCEPT ![r] = 0] /\ at' = [at EXCEPT ![r] = "wait"]
      /\ corrected' = corrected + fixed[r] /\ UNCHANGED <<applied, raised>>
  BY DEF EndPass, Go
<1>2. /\ IsFiniteSet(Unreported')
      /\ Cardinality(Unreported') \in Nat /\ Cardinality(Unreported) \in Nat
      /\ Cardinality(Unreported) = Cardinality(Unreported') + fixed[r]
  BY <1>1, AccountOver
<1>3. \A x \in Runners : at'[x] \in {"wait", "off"} => fixed'[x] = 0
  BY <1>1 DEF AllAccounted, TypeOK, Typed
<1>4. corrected \in Nat /\ fixed[r] \in Nat /\ applied \in Nat
  BY DEF TypeOK, Typed
<1>5. corrected' + Cardinality(Unreported') = corrected + Cardinality(Unreported)
  BY <1>1, <1>2, <1>4
<1> QED BY <1>1, <1>2, <1>3, <1>5 DEF AllAccounted

\* A pass that raises loses what it has counted, and is known to have raised.
LEMMA AccountRaise ==
  ASSUME TypeOK, AllAccounted, NEW r \in Runners, Abandon(r, "wait"),
         UNCHANGED <<corrected, applied>>
  PROVE  AllAccounted'
<1>1. /\ fixed' = [fixed EXCEPT ![r] = 0] /\ at' = [at EXCEPT ![r] = "wait"]
      /\ raised'
  BY DEF Abandon
<1>2. /\ IsFiniteSet(Unreported')
      /\ Cardinality(Unreported') \in Nat /\ Cardinality(Unreported) \in Nat
      /\ Cardinality(Unreported) = Cardinality(Unreported') + fixed[r]
  BY <1>1, AccountOver
<1>3. \A x \in Runners : at'[x] \in {"wait", "off"} => fixed'[x] = 0
  BY <1>1 DEF AllAccounted, TypeOK, Typed
<1>4. corrected \in Nat /\ fixed[r] \in Nat /\ applied \in Nat
  BY DEF TypeOK, Typed
<1>5. corrected' + Cardinality(Unreported') <= applied'
  BY <1>2, <1>4 DEF AllAccounted
<1> QED BY <1>1, <1>2, <1>3, <1>5 DEF AllAccounted

\* The account is inductive.
LEMMA AccountStep ==
  ASSUME TypeOK, AllAccounted, [Next]_vars
  PROVE  AllAccounted'
<1> USE ThreadsAssumption DEF Runners, service, events, counts, file
<1>0. at \in [Runners -> {"off", "wait", "scan", "trim", "log", "count"}]
  BY DEF TypeOK, Typed
<1>1. CASE Start
  <2>1. \A r \in Runners : at'[r] \in {"wait", "off"} => at[r] \in {"wait", "off"}
    BY <1>0, <1>1 DEF Start, NewLoop
  <2> QED BY <1>1, <2>1, AccountKept DEF Start, Idle
<1>2. CASE Stop
  BY <1>2, AccountKept DEF Stop, Idle
<1>3. CASE Crash
  <2>1. fixed' = Nothing /\ corrected' = 0 /\ applied' = 0
    BY <1>3 DEF Crash
  <2>2. \A r \in Runners : fixed'[r] = 0
    BY <2>1 DEF Nothing
  <2>3. Unreported' = {}
    BY <2>2 DEF Unreported
  <2> QED BY <2>1, <2>2, <2>3, FS_EmptySet DEF AllAccounted
<1>4. ASSUME NEW l \in Loops, LoopEnds(l) PROVE AllAccounted'
  <2>1. \A r \in Runners : at'[r] \in {"wait", "off"} => at[r] \in {"wait", "off"}
    BY <1>0, <1>4 DEF LoopEnds, Go
  <2> QED BY <1>4, <2>1, AccountKept DEF LoopEnds, Idle
<1>5. ASSUME NEW r \in Runners, Progress(r) PROVE AllAccounted'
  <2>1. CASE Agree(r) \/ Trim(r) \/ Write(r) \/ Count(r)
    <3>1. /\ UNCHANGED <<fixed, corrected, applied, raised>>
          /\ \E to \in {"scan", "log", "count"} : at' = [at EXCEPT ![r] = to]
      BY <2>1 DEF Agree, Trim, Write, Count, Go
    <3>2. \A x \in Runners : at'[x] \in {"wait", "off"} => at[x] \in {"wait", "off"}
      BY <1>0, <3>1
    <3> QED BY <3>1, <3>2, AccountKept
  <2>2. CASE ProviderRaises(r) \/ WriteFails(r)
    BY <2>2, AccountRaise DEF ProviderRaises, ProviderRaisesTo, WriteFails, WriteFailsWith
  <2> QED BY <1>5, <2>1, <2>2, AccountCorrect, AccountEnd DEF Progress
<1>6. ASSUME NEW r \in Runners, NEW n \in 0..Jobs, BeginPass(r, n) PROVE AllAccounted'
  <2>1. \A x \in Runners : at'[x] \in {"wait", "off"} => at[x] \in {"wait", "off"}
    BY <1>0, <1>6 DEF BeginPass, Go
  <2> QED BY <1>6, <2>1, AccountKept DEF BeginPass
<1>7. CASE UNCHANGED vars
  BY <1>7, AccountKept DEF vars
<1> QED BY <1>1, <1>2, <1>3, <1>4, <1>5, <1>6, <1>7 DEF Next

\* metrics() never reports a correction that was not applied, and once every
\* pass is over misses one only if a pass raised.
THEOREM CorrectionsReported == Spec => []CorrectionsCounted
<1>1. Init => AllAccounted
  <2> SUFFICES ASSUME Init PROVE AllAccounted
    OBVIOUS
  <2>1. \A r \in Runners : fixed[r] = 0
    BY DEF Init, Nothing
  <2>2. Unreported = {}
    BY <2>1 DEF Unreported
  <2> QED BY <2>1, <2>2, FS_EmptySet DEF Init, AllAccounted
<1>2. TypeOK /\ AllAccounted /\ [Next]_vars => AllAccounted'
  BY AccountStep
<1>3. TypeOK /\ AllAccounted => CorrectionsCounted
  <2> SUFFICES ASSUME TypeOK, AllAccounted PROVE CorrectionsCounted
    OBVIOUS
  <2>1. corrected \in Nat /\ applied \in Nat /\ Cardinality(Unreported) \in Nat
    BY FS_CardinalityType DEF AllAccounted, TypeOK, Typed
  <2>2. corrected <= applied
    BY <2>1 DEF AllAccounted
  <2>3. ASSUME ~raised, \A r \in Runners : at[r] = "wait" \/ at[r] = "off"
        PROVE  corrected = applied
    <3>1. \A r \in Runners : fixed[r] = 0
      BY <2>3 DEF AllAccounted
    <3>2. Unreported = {}
      BY <3>1 DEF Unreported
    <3> QED BY <2>1, <2>3, <3>2, FS_EmptySet DEF AllAccounted
  <2> QED BY <2>2, <2>3 DEF CorrectionsCounted
<1> QED BY <1>1, <1>2, <1>3, ReconciliationTyped, PTL DEF Spec
=============================================================================
