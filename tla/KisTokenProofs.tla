---------------------------- MODULE KisTokenProofs ----------------------------
(* Theorems about KisToken, for any number of threads, life of a token,      *)
(* margin and delay.                                                         *)
EXTENDS KisToken, TLAPS
-----------------------------------------------------------------------------
\* The refresh time is a natural number.
LEMMA RefreshNat == RefreshTtl \in Nat
BY TtlAssumption DEF RefreshTtl, Larger, Smaller

\* One step of a thread, and the clock, keep the type invariant.
LEMMA TokenTypeStep == TypeOK /\ [Next]_vars => TypeOK'
<1> SUFFICES ASSUME TypeOK, [Next]_vars PROVE TypeOK'
  OBVIOUS
<1> USE TtlAssumption DEF TypeOK, Typed, Timed, At, Go, Call
<1>1. CASE Tick
  BY <1>1 DEF Tick
<1>2. ASSUME NEW t \in Threads, Begin(t) PROVE TypeOK'
  BY <1>2 DEF Begin, NoToken
<1>3. ASSUME NEW t \in Threads, Check(t) PROVE TypeOK'
  BY <1>3 DEF Check, NoToken
<1>4. ASSUME NEW t \in Threads, Issue(t) PROVE TypeOK'
  BY <1>4 DEF Issue
<1>5. ASSUME NEW t \in Threads, IssueFails(t) \/ Use(t) PROVE TypeOK'
  BY <1>5 DEF IssueFails, Use, Idle, NoToken
<1>6. ASSUME NEW t \in Threads, Store(t) PROVE TypeOK'
  BY <1>6 DEF Store, NoToken
<1>7. ASSUME NEW t \in Threads, Expire(t) PROVE TypeOK'
  <2>1. expiresAt' \in Nat
    BY <1>7, RefreshNat DEF Expire
  <2> QED BY <1>7, <2>1 DEF Expire, NoToken
<1>8. CASE UNCHANGED vars
  BY <1>8 DEF vars
<1> QED
  BY <1>1, <1>2, <1>3, <1>4, <1>5, <1>6, <1>7, <1>8 DEF Next, Ask

\* Types; the times a thread relies on are past and no older than MaxDelay.
THEOREM TokenTyped == Spec => []TypeOK
<1>1. Init => TypeOK
  BY DEF Init, TypeOK, Typed, Idle, Call, Timed, NoToken
<1> QED BY <1>1, TokenTypeStep, PTL DEF Spec
-----------------------------------------------------------------------------
\* The expiry of the cached token, written or about to be written, is at most
\* MaxDelay later than the token's own time allows; so is every use of it.
ExpiryFollowsToken ==
  /\ expiresAt <= clock + RefreshTtl
  /\ token # NoToken => expiresAt <= token + MaxDelay + RefreshTtl
  /\ \A t \in Threads :
       /\ At(t, "got") => call[t].since = call[t].tok
       /\ At(t, "expire") => /\ token # NoToken
                             /\ call[t].since <= token + MaxDelay
                             /\ call[t].since <= call[t].tok + MaxDelay
       /\ At(t, "use") => call[t].since + MaxDelay <= call[t].tok + Ttl

\* The margin covers three delays and is shorter than the life of a token.
MarginSuffices == Margin >= 3 * MaxDelay /\ Ttl > Margin

\* Inductive: a token is stored within MaxDelay of its issue, so every expiry
\* computed before that is early enough for it.
LEMMA ExpiryStep ==
  ASSUME MarginSuffices, TypeOK, ExpiryFollowsToken, [Next]_vars
  PROVE  ExpiryFollowsToken'
<1>0. RefreshTtl = Ttl - Margin
  BY TtlAssumption DEF RefreshTtl, Larger, Smaller, MarginSuffices
<1> USE <1>0, RefreshNat, TtlAssumption
    DEF TypeOK, Typed, Timed, At, Go, Call, ExpiryFollowsToken, MarginSuffices
<1> HIDE DEF RefreshTtl
<1>1. CASE Tick
  BY <1>1 DEF Tick
<1>2. ASSUME NEW t \in Threads, Begin(t) PROVE ExpiryFollowsToken'
  BY <1>2 DEF Begin
<1>3. ASSUME NEW t \in Threads, Check(t) PROVE ExpiryFollowsToken'
  BY <1>3 DEF Check, NoToken
<1>4. ASSUME NEW t \in Threads, Issue(t) PROVE ExpiryFollowsToken'
  BY <1>4 DEF Issue
<1>5. ASSUME NEW t \in Threads, IssueFails(t) \/ Use(t) PROVE ExpiryFollowsToken'
  BY <1>5 DEF IssueFails, Use, Idle
<1>6. ASSUME NEW t \in Threads, Store(t) PROVE ExpiryFollowsToken'
  BY <1>6 DEF Store, NoToken
<1>7. ASSUME NEW t \in Threads, Expire(t) PROVE ExpiryFollowsToken'
  BY <1>7 DEF Expire
<1>8. CASE UNCHANGED vars
  BY <1>8 DEF vars
<1> QED
  BY <1>1, <1>2, <1>3, <1>4, <1>5, <1>6, <1>7, <1>8 DEF Next, Ask

\* A token in use is alive, whoever issued it and in whatever order threads
\* stored tokens and expiries, if the margin covers three delays.
THEOREM TokensValid == ASSUME MarginSuffices PROVE Spec => []TokenValid
<1>1. Init => ExpiryFollowsToken
  BY RefreshNat DEF Init, ExpiryFollowsToken, At, Idle, Call
<1>2. TypeOK /\ ExpiryFollowsToken /\ [Next]_vars => ExpiryFollowsToken'
  BY ExpiryStep
<1>3. TypeOK /\ ExpiryFollowsToken => TokenValid
  BY TtlAssumption DEF TypeOK, Typed, Timed, At, ExpiryFollowsToken, TokenValid
<1> QED BY <1>1, <1>2, <1>3, TokenTyped, PTL DEF Spec
=============================================================================
