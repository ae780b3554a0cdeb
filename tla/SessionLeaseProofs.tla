------------------------- MODULE SessionLeaseProofs -------------------------
(* Theorems about SessionLease, for any owners, threads and lifetimes.      *)
EXTENDS SessionLease, TLAPS

\* Every step keeps types and read times.
LEMMA TypeStep == TypeOK /\ [Next]_vars => TypeOK'
<1> SUFFICES ASSUME TypeOK, [Next]_vars PROVE TypeOK'
  OBVIOUS
<1> USE TtlsAssumption DEF TypeOK, Typed, Asked, Call
<1>1. CASE Tick
  BY <1>1 DEF Tick
<1>2. ASSUME NEW t \in Threads, NEW who \in Owners, NEW ttl \in Ttls,
             Ask(t, "acquire", who, ttl)
      PROVE  TypeOK'
  BY <1>2 DEF Ask
<1>3. ASSUME NEW t \in Threads, Ask(t, "status", NoOwner, 0) PROVE TypeOK'
  BY <1>3 DEF Ask
<1>4. ASSUME NEW t \in Threads, Refuse(t) PROVE TypeOK'
  BY <1>4 DEF Refuse, Finish, NoCall
<1>5. ASSUME NEW t \in Threads, Grant(t) PROVE TypeOK'
  BY <1>5 DEF Grant, Finish, NoCall
<1>6. ASSUME NEW t \in Threads, Status(t) PROVE TypeOK'
  BY <1>6 DEF Status, Finish, NoCall
<1>7. ASSUME NEW who \in Owners, Release(who) PROVE TypeOK'
  BY <1>7 DEF Release
<1>8. CASE UNCHANGED vars
  BY <1>8 DEF vars
<1> QED
  BY <1>1, <1>2, <1>3, <1>4, <1>5, <1>6, <1>7, <1>8 DEF Next

\* Every variable keeps its type, and no thread works with a time to come.
THEOREM LeaseTyped == Spec => []TypeOK
<1>1. Init => TypeOK
  BY DEF Init, TypeOK, Typed, Asked, NoCall, Call
<1> QED
  BY <1>1, TypeStep, PTL DEF Spec

\* Owner, state and expiry of the session never disagree.
THEOREM StatesAgree == Spec => []StateAgrees
<1>1. Init => StateAgrees
  BY OwnersAssumption DEF Init, StateAgrees
<1>2. TypeOK /\ StateAgrees /\ [Next]_vars => StateAgrees'
  <2> SUFFICES ASSUME TypeOK, StateAgrees, [Next]_vars PROVE StateAgrees'
    OBVIOUS
  <2> USE DEF StateAgrees
  <2>1. CASE UNCHANGED <<owner, state, expires>>
    BY <2>1
  <2>2. ASSUME NEW t \in Threads, Grant(t) PROVE StateAgrees'
    <3>1. call[t].who \in Owners /\ call[t].now + call[t].ttl \in Nat
      BY <2>2, TtlsAssumption DEF Grant, TypeOK, Typed, Asked
    <3> QED BY <2>2, <3>1, OwnersAssumption DEF Grant
  <2>3. ASSUME NEW t \in Threads, Status(t) PROVE StateAgrees'
    BY <2>3 DEF Status
  <2>4. ASSUME NEW who \in Owners, Release(who) PROVE StateAgrees'
    BY <2>4 DEF Release
  <2> QED
    BY <2>1, <2>2, <2>3, <2>4 DEF Next, Tick, Ask, Refuse, vars
<1> QED
  BY <1>1, <1>2, LeaseTyped, PTL DEF Spec

\* However late a thread gets the lock, it takes a lease from another owner
\* only after that lease has expired.
THEOREM LeasesHonored == Spec => LeaseHonored
<1>1. TypeOK /\ StateAgrees /\ [Next]_vars
        => [owner # NoOwner /\ owner' \notin {NoOwner, owner} => clock >= expires]_vars
  <2> SUFFICES ASSUME TypeOK, StateAgrees, [Next]_vars,
                      owner # NoOwner, owner' \notin {NoOwner, owner}
               PROVE  clock >= expires
    OBVIOUS
  <2>1. PICK t \in Threads : Grant(t)
    BY DEF Next, Tick, Ask, Refuse, Status, Release, vars
  <2>2. Expired(call[t].now)
    BY <2>1 DEF Grant, Busy
  <2> QED BY <2>2 DEF Expired, TypeOK, Typed, Asked
<1> QED
  BY <1>1, LeaseTyped, StatesAgree, PTL DEF Spec, LeaseHonored

\* status ends a session only after its lease has expired, even when the lease
\* was renewed between its look at the clock and the lock.
THEOREM StatusEnds == Spec => StatusEndsNothing
<1> DEFINE Ends == \A t \in Threads :
                     call[t].op = "status" /\ call'[t].op = "none" /\ owner' # owner
                       => clock >= expires
<1>1. TypeOK /\ [Next]_vars => [Ends]_vars
  <2> SUFFICES ASSUME TypeOK, Next, NEW t \in Threads,
                      call[t].op = "status", call'[t].op = "none", owner' # owner
               PROVE  clock >= expires
    BY DEF vars
  <2>1. ~Tick /\ ~\E who \in Owners : Release(who)
    BY DEF Tick, Release
  <2>2. \A u \in Threads : ~Refuse(u)
    BY DEF Refuse
  <2>3. \A u \in Threads, op \in {"acquire", "status"} : \A who, ttl : ~Ask(u, op, who, ttl)
    BY DEF Ask
  <2>4. \A u \in Threads : ~Grant(u)
    BY DEF Grant, Finish, TypeOK, Typed
  <2>5. PICK u \in Threads : Status(u)
    BY <2>1, <2>2, <2>3, <2>4 DEF Next
  <2>6. Expired(call[u].now)
    BY <2>5 DEF Status
  <2> QED BY <2>6 DEF Expired, TypeOK, Typed, Asked
<1>2. Spec => [][Ends]_vars
  BY <1>1, LeaseTyped, PTL DEF Spec
<1> QED BY <1>2 DEF StatusEndsNothing
=============================================================================
