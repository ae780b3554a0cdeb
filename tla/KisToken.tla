------------------------------ MODULE KisToken ------------------------------
(***************************************************************************)
(* The access token of KisRestClient (app/integrations/kis_rest.py), one   *)
(* client for the HTTP threads and the order worker, without a lock.  A    *)
(* token is known by the time KIS issued it.  The code trusts a margin to  *)
(* cover the time that passes around its clock reads; MaxDelay bounds that *)
(* time: from the clock read of a cached token to its request at KIS, from *)
(* the issue of a token to its storing, from there to the new expiry, and  *)
(* from there to the request.                                              *)
(***************************************************************************)
EXTENDS Integers

CONSTANTS
  Threads,
  Ttl,       \* expires_in of a token
  Margin,    \* the 30 seconds by which it is refreshed earlier
  MaxDelay,
  MaxTime    \* bound on the clock

ASSUME TtlAssumption == {Ttl, Margin, MaxDelay, MaxTime} \subseteq Nat

VARIABLES
  clock,
  token,      \* _access_token, NoToken at first
  expiresAt,  \* _token_expires_at
  call        \* call[t]: next step, the last time it knows of, its token

vars == <<clock, token, expiresAt, call>>
-----------------------------------------------------------------------------
NoToken == -1

Call(pc, since, tok) == [pc |-> pc, since |-> since, tok |-> tok]
Idle == Call("idle", 0, NoToken)

\* Steps after which a thread relies on a time it knows.
Timed == {"check", "got", "expire", "use"}

Typed ==
  /\ clock \in Nat
  /\ token \in Nat \cup {NoToken}
  /\ expiresAt \in Nat
  /\ call \in [Threads -> [pc    : Timed \cup {"idle", "post"},
                           since : Nat,
                           tok   : Nat \cup {NoToken}]]

Init ==
  /\ clock = 0
  /\ token = NoToken
  /\ expiresAt = 0
  /\ call = [t \in Threads |-> Idle]

\* Each variable has its type; times known are past ones and no older than
\* MaxDelay; who is past _issue_token or the cache has a token.
TypeOK ==
  /\ Typed
  /\ \A t \in Threads :
       /\ call[t].pc \in Timed => call[t].since <= clock /\ clock <= call[t].since + MaxDelay
       /\ call[t].pc \in {"got", "expire", "use"} => call[t].tok \in Nat
       /\ call[t].pc = "check" => token \in Nat
-----------------------------------------------------------------------------
At(t, pc) == call[t].pc = pc

Go(t, pc, since, tok) == call' = [call EXCEPT ![t] = Call(pc, since, tok)]

\* The assumption on delays: no timed thread is left behind.
Tick ==
  /\ clock < MaxTime
  /\ \A t \in Threads : call[t].pc \in Timed => clock + 1 <= call[t].since + MaxDelay
  /\ clock' = clock + 1
  /\ UNCHANGED <<token, expiresAt, call>>

\* get_access_token: without a token the clock is not read.
Begin(t) ==
  /\ At(t, "idle")
  /\ IF token = NoToken THEN Go(t, "post", 0, NoToken) ELSE Go(t, "check", clock, NoToken)
  /\ UNCHANGED <<clock, token, expiresAt>>

\* The time read is compared; the token is read again to be returned.
Check(t) ==
  /\ At(t, "check")
  /\ IF call[t].since < expiresAt
     THEN Go(t, "use", call[t].since, token)
     ELSE Go(t, "post", 0, NoToken)
  /\ UNCHANGED <<clock, token, expiresAt>>

\* _issue_token: KIS answers with a token of its own, or the call fails.
Issue(t) ==
  /\ At(t, "post")
  /\ Go(t, "got", clock, clock)
  /\ UNCHANGED <<clock, token, expiresAt>>

IssueFails(t) ==
  /\ At(t, "post")
  /\ call' = [call EXCEPT ![t] = Idle]
  /\ UNCHANGED <<clock, token, expiresAt>>

\* issued_at is the clock of this step, not the time of the token.
Store(t) ==
  /\ At(t, "got")
  /\ token' = call[t].tok
  /\ Go(t, "expire", clock, call[t].tok)
  /\ UNCHANGED <<clock, expiresAt>>

Smaller(a, b) == IF a < b THEN a ELSE b
Larger(a, b) == IF a > b THEN a ELSE b

\* Broken variant: no margin.
RefreshAtEnd == Ttl

RefreshTtl == Larger(Ttl - Margin, Smaller(Ttl, 1))

\* Broken variant: the thread that issued a token goes on without one (a
\* missing return).
ExpireForgets(t) ==
  /\ At(t, "expire")
  /\ expiresAt' = call[t].since + RefreshTtl
  /\ Go(t, "use", clock, NoToken)
  /\ UNCHANGED <<clock, token>>

Expire(t) ==
  /\ At(t, "expire")
  /\ expiresAt' = call[t].since + RefreshTtl
  /\ Go(t, "use", clock, call[t].tok)
  /\ UNCHANGED <<clock, token>>

\* The request reaches KIS; whatever the answer, the token stays cached.
Use(t) ==
  /\ At(t, "use")
  /\ call' = [call EXCEPT ![t] = Idle]
  /\ UNCHANGED <<clock, token, expiresAt>>

Ask(t) ==
  \/ Begin(t) \/ Check(t) \/ Issue(t) \/ IssueFails(t)
  \/ Store(t) \/ Expire(t) \/ Use(t)

Next == Tick \/ \E t \in Threads : Ask(t)

Spec == Init /\ [][Next]_vars
-----------------------------------------------------------------------------
\* No request reaches KIS with a token past its life, though two threads may
\* issue tokens at once and leave the older one with the newer one's expiry.
TokenValid == \A t \in Threads : At(t, "use") => clock <= call[t].tok + Ttl
=============================================================================
