---------------------------- MODULE SessionLease ----------------------------
(***************************************************************************)
(* The session lease (app/services/session_state.py).  acquire and status  *)
(* read the clock before they wait for the lock, so they decide with a     *)
(* time that may be old; what they do under the lock is one step.          *)
(***************************************************************************)
EXTENDS Integers

CONSTANTS
  Owners,     \* names that ask for the session ("gateway" and others)
  NoOwner,
  Threads,    \* HTTP threads
  Ttls,       \* lifetimes asked for, in seconds
  MaxTime     \* last instant of the clock: bounds the runs

ASSUME OwnersAssumption == NoOwner \notin Owners
ASSUME TtlsAssumption == Ttls \subseteq Nat \ {0}

VARIABLES
  clock,    \* int(time.time())
  owner, state,
  expires,  \* lease_expires_at, -1 while there is none
  call      \* what each thread is doing, with the time it has read

vars == <<clock, owner, state, expires, call>>
-----------------------------------------------------------------------------
Call(op, who, ttl, now) == [op |-> op, who |-> who, ttl |-> ttl, now |-> now]
NoCall == Call("none", NoOwner, 0, 0)

Typed ==
  /\ clock \in Nat
  /\ owner \in Owners \cup {NoOwner}
  /\ state \in {"IDLE", "ACTIVE"}
  /\ expires \in Nat \cup {-1}
  /\ call \in [Threads -> [op  : {"none", "acquire", "status"},
                           who : Owners \cup {NoOwner},
                           ttl : Nat,
                           now : Nat]]

\* A thread that asks for the lease has a name, a lifetime, and a time that
\* is not in the future.
Asked ==
  \A t \in Threads :
    /\ call[t].now <= clock
    /\ call[t].op = "acquire" => call[t].who \in Owners /\ call[t].ttl \in Ttls

TypeOK == Typed /\ Asked

Init ==
  /\ clock = 0
  /\ owner = NoOwner
  /\ state = "IDLE"
  /\ expires = -1
  /\ call = [t \in Threads |-> NoCall]

\* Broken variant: a lease expires a second early.
ExpiredEarly(now) == expires # -1 /\ now + 1 >= expires

Expired(now) == expires # -1 /\ now >= expires

Tick ==
  /\ clock < MaxTime
  /\ clock' = clock + 1
  /\ UNCHANGED <<owner, state, expires, call>>

\* Broken variant: the time is rounded up.
AskCeiling(t, op, who, ttl) ==
  /\ call[t].op = "none"
  /\ call' = [call EXCEPT ![t] = Call(op, who, ttl, clock + 1)]
  /\ UNCHANGED <<clock, owner, state, expires>>

\* now = int(time.time()), before the lock.
Ask(t, op, who, ttl) ==
  /\ call[t].op = "none"
  /\ call' = [call EXCEPT ![t] = Call(op, who, ttl, clock)]
  /\ UNCHANGED <<clock, owner, state, expires>>

Finish(t) == call' = [call EXCEPT ![t] = NoCall]

Busy(t) == owner # NoOwner /\ owner # call[t].who /\ ~Expired(call[t].now)

\* acquire under the lock.
Refuse(t) ==
  /\ call[t].op = "acquire"
  /\ Busy(t)
  /\ Finish(t)
  /\ UNCHANGED <<clock, owner, state, expires>>

Grant(t) ==
  /\ call[t].op = "acquire"
  /\ ~Busy(t)
  /\ owner' = call[t].who
  /\ state' = "ACTIVE"
  /\ expires' = call[t].now + call[t].ttl
  /\ Finish(t)
  /\ UNCHANGED clock

\* release: a single step under the lock, refused unless who is the owner.
Release(who) ==
  /\ owner = who
  /\ owner' = NoOwner
  /\ state' = "IDLE"
  /\ expires' = -1
  /\ UNCHANGED <<clock, call>>

\* Broken variant: the owner is dropped, its lease is not.
StatusKeepsExpiry(t) ==
  /\ call[t].op = "status"
  /\ Finish(t)
  /\ IF owner # NoOwner /\ Expired(call[t].now)
     THEN owner' = NoOwner /\ state' = "IDLE" /\ UNCHANGED expires
     ELSE UNCHANGED <<owner, state, expires>>
  /\ UNCHANGED clock

\* status under the lock: an expired lease is cleared.
Status(t) ==
  /\ call[t].op = "status"
  /\ Finish(t)
  /\ IF owner # NoOwner /\ Expired(call[t].now)
     THEN owner' = NoOwner /\ state' = "IDLE" /\ expires' = -1
     ELSE UNCHANGED <<owner, state, expires>>
  /\ UNCHANGED clock

Next ==
  \/ Tick
  \/ \E t \in Threads :
       \/ \E who \in Owners, ttl \in Ttls : Ask(t, "acquire", who, ttl)
       \/ Ask(t, "status", NoOwner, 0)
       \/ Refuse(t) \/ Grant(t) \/ Status(t)
  \/ \E who \in Owners : Release(who)

Spec == Init /\ [][Next]_vars
-----------------------------------------------------------------------------
\* Owner, state and expiry tell the same story, whoever wrote them last.
StateAgrees ==
  /\ owner = NoOwner <=> state = "IDLE"
  /\ owner = NoOwner <=> expires = -1

\* No other owner takes over a lease that has not expired: a time read long
\* before the lock can only make acquire refuse more.
LeaseHonored ==
  [][owner # NoOwner /\ owner' \notin {NoOwner, owner} => clock >= expires]_vars

\* status never ends a session whose lease is still running, even when the
\* lease was renewed after status had read the clock.
StatusEndsNothing ==
  [][\A t \in Threads :
       call[t].op = "status" /\ call'[t].op = "none" /\ owner' # owner
         => clock >= expires]_vars
=============================================================================
