--------------------------- MODULE RiskPolicyCheck ---------------------------
(***************************************************************************)
(* Every request over small prices and quantities, against what the policy *)
(* is for.  The request and what the handler reads are the state; the only *)
(* step lets another order be counted while the handler works.             *)
(***************************************************************************)
EXTENDS RiskPolicy

CONSTANTS
  Qtys, Prices,   \* quantities and prices of the requests
  Holdings        \* positions the provider may report

ASSUME RequestsAssumption ==
  Qtys \subseteq Int /\ Prices \subseteq Int \cup {NoPrice} /\ Holdings \subseteq Nat

VARIABLES req, count, recount, available, window

inputs == <<req, count, recount, available, window>>

Requests ==
  {r \in [side : {"BUY", "SELL", "HOLD"}, qty : Qtys, price : Prices,
          type : {"LIMIT", "MARKET", "STOP"}, typeGiven : BOOLEAN] :
     ~r.typeGiven => r.type = "LIMIT"}

PolicyInit ==
  /\ req \in Requests
  /\ count \in 0..DailyOrderLimit + 1
  /\ recount = count
  /\ available \in {NoProvider, Unavailable} \cup Holdings
  /\ window \in BOOLEAN

\* An order of another client is counted before the second evaluation.
CountOther ==
  /\ recount = count
  /\ recount' = recount + 1
  /\ UNCHANGED <<req, count, available, window>>

PolicyNext == CountOther

PolicySpec == PolicyInit /\ [][PolicyNext]_inputs

Verdict == OrderError(req, count, available, window, recount)

\* An order passes exactly when the desk would let it: trading is live and the
\* window open, the daily limit is not reached, a purchase respects the
\* quantity and notional caps, and a sale is covered by a position the broker
\* confirmed, never by the fallback of create_order.
PassesExactlyWhenSafe ==
  ContractError(req) = "none" =>
    (Verdict = "none"
      <=> /\ LiveEnabled /\ window /\ count < DailyOrderLimit
          /\ req.qty >= 1
          /\ req.price # NoPrice => req.price > 0
          /\ \/ /\ req.side = "BUY"
                /\ req.qty <= MaxOrderQty
                /\ Notional(req) <= BuyNotionalCap
             \/ /\ req.side = "SELL"
                /\ available \in Holdings
                /\ req.qty <= available)
=============================================================================
