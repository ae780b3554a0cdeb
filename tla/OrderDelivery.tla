--------------------------- MODULE OrderDelivery ---------------------------
(***************************************************************************)
(* What the order queue promises the clients of the gateway, without its   *)
(* threads: an accepted order is tried a bounded number of times, each try *)
(* places at most one order at the broker, a confirmed or closed order is  *)
(* never tried again.  OrderQueue implements it (see OrderQueue!Delivery). *)
(***************************************************************************)
EXTENDS Naturals

CONSTANTS Orders, MaxAttempts

VARIABLES
  phase,       \* phase[o]: "absent", "waiting", "inflight", "sent" or "closed"
  tries,       \* tries[o]: attempts to place it so far
  placements   \* placements[o]: orders the broker has accepted for it

vars == <<phase, tries, placements>>

Init ==
  /\ phase = [o \in Orders |-> "absent"]
  /\ tries = [o \in Orders |-> 0]
  /\ placements = [o \in Orders |-> 0]

Move(o, from, to) == phase[o] = from /\ phase' = [phase EXCEPT ![o] = to]

Accept(o) == Move(o, "absent", "waiting") /\ UNCHANGED <<tries, placements>>

Take(o) == Move(o, "waiting", "inflight") /\ UNCHANGED <<tries, placements>>

Try(o) ==
  /\ phase[o] = "inflight"
  /\ tries[o] < MaxAttempts
  /\ tries' = [tries EXCEPT ![o] = @ + 1]
  /\ UNCHANGED <<phase, placements>>

\* A try places at most one order.
Place(o) ==
  /\ phase[o] = "inflight"
  /\ placements[o] < tries[o]
  /\ placements' = [placements EXCEPT ![o] = @ + 1]
  /\ UNCHANGED <<phase, tries>>

\* Only an order with a try left goes back to the queue.
Return(o) ==
  /\ tries[o] < MaxAttempts
  /\ Move(o, "inflight", "waiting")
  /\ UNCHANGED <<tries, placements>>

\* Only an order the broker holds is reported as sent.
Confirm(o) ==
  /\ placements[o] > 0
  /\ Move(o, "inflight", "sent")
  /\ UNCHANGED <<tries, placements>>

Close(o) == Move(o, "inflight", "closed") /\ UNCHANGED <<tries, placements>>

Next ==
  \E o \in Orders :
    \/ Accept(o) \/ Take(o) \/ Try(o) \/ Place(o)
    \/ Return(o) \/ Confirm(o) \/ Close(o)

Spec == Init /\ [][Next]_vars
=============================================================================
