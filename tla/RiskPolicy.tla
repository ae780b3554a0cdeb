----------------------------- MODULE RiskPolicy -----------------------------
(***************************************************************************)
(* The decision of POST /v1/orders before the queue sees the order: the    *)
(* contract check, the risk policy and the trading window, as functions of *)
(* the request and of what they read (app/services/risk_policy.py and the  *)
(* helpers of app/api/routes.py).  "none" is acceptance, every other value *)
(* is the reason of a refusal.                                             *)
(***************************************************************************)
EXTENDS Integers

CONSTANTS
  NoPrice,         \* the request carries no price
  NoProvider,      \* the REST client has no get_positions
  Unavailable,     \* get_positions raised
  DefaultPrice, BuyNotionalCap, MaxOrderQty, DailyOrderLimit, LiveEnabled

ASSUME LimitsAssumption ==
  /\ DefaultPrice \in Int /\ BuyNotionalCap \in Int /\ MaxOrderQty \in Int
  /\ DailyOrderLimit \in Nat /\ LiveEnabled \in BOOLEAN
ASSUME AbsentAssumption ==
  /\ NoPrice \notin Int /\ NoProvider \notin Int /\ Unavailable \notin Int

\* A request, typeGiven telling whether the body names an order_type.
\* (type is "LIMIT" when it does not.)
Requested(side, qty, price, type, typeGiven) ==
  [side |-> side, qty |-> qty, price |-> price, type |-> type, typeGiven |-> typeGiven]

\* _validate_order_contract: the first rule that fails.
ContractError(r) ==
  IF r.side \notin {"BUY", "SELL"} THEN "INVALID_SIDE"
  ELSE IF r.type \notin {"LIMIT", "MARKET"} THEN "INVALID_ORDER_TYPE"
  ELSE IF r.type = "LIMIT" /\ r.price = NoPrice /\ r.typeGiven THEN "PRICE_REQUIRED_FOR_LIMIT"
  ELSE IF r.type = "MARKET" /\ r.price # NoPrice THEN "PRICE_NOT_ALLOWED_FOR_MARKET"
  ELSE "none"

Notional(r) == r.qty * (IF r.price = NoPrice THEN DefaultPrice ELSE r.price)

\* evaluate_side_policy
SideError(r, available) ==
  IF r.side = "BUY"
  THEN IF Notional(r) > BuyNotionalCap THEN "NOTIONAL_LIMIT_EXCEEDED" ELSE "none"
  ELSE IF r.side # "SELL" THEN "INVALID_SIDE"
  ELSE IF available = Unavailable THEN "POSITION_PROVIDER_UNAVAILABLE"
  ELSE IF r.qty > available THEN "INSUFFICIENT_POSITION_QTY"
  ELSE "none"

\* Broken variants: the limit is met one order late; a refusal of the side
\* policy is forgotten.
TradeErrorLate(r, count, available) ==
  IF ~LiveEnabled THEN "LIVE_DISABLED"
  ELSE IF count > DailyOrderLimit THEN "DAILY_LIMIT_EXCEEDED"
  ELSE IF SideError(r, available) # "none" THEN SideError(r, available)
  ELSE IF r.side = "BUY" /\ r.qty > MaxOrderQty THEN "MAX_QTY_EXCEEDED"
  ELSE "none"

TradeErrorBlind(r, count, available) ==
  IF ~LiveEnabled THEN "LIVE_DISABLED"
  ELSE IF count >= DailyOrderLimit THEN "DAILY_LIMIT_EXCEEDED"
  ELSE IF r.side = "BUY" /\ r.qty > MaxOrderQty THEN "MAX_QTY_EXCEEDED"
  ELSE "none"

\* evaluate_trade_risk
TradeError(r, count, available) ==
  IF ~LiveEnabled THEN "LIVE_DISABLED"
  ELSE IF count >= DailyOrderLimit THEN "DAILY_LIMIT_EXCEEDED"
  ELSE IF SideError(r, available) # "none" THEN SideError(r, available)
  ELSE IF r.side = "BUY" /\ r.qty > MaxOrderQty THEN "MAX_QTY_EXCEEDED"
  ELSE "none"

\* check_risk: available is what the position provider answers, open whether
\* the clock is within the trading window when the policy has passed.
RiskError(r, count, available, open) ==
  IF r.qty < 1 THEN "INVALID_QTY"
  ELSE IF r.price # NoPrice /\ r.price <= 0 THEN "INVALID_PRICE"
  ELSE IF r.side = "SELL" /\ available = NoProvider THEN "POSITION_PROVIDER_UNAVAILABLE"
  ELSE IF TradeError(r, count, available) # "none" THEN TradeError(r, count, available)
  ELSE IF ~open THEN "OUT_OF_TRADING_WINDOW"
  ELSE "none"

\* Broken variant: the fallback believes the seller.
OrderErrorTrusting(r, count, available, open, recount) ==
  IF r.side = "SELL" /\ RiskError(r, count, available, open) = "POSITION_PROVIDER_UNAVAILABLE"
  THEN TradeError(r, recount, r.qty)
  ELSE RiskError(r, count, available, open)

\* create_order: when positions are unavailable the policy is evaluated again,
\* with the counter read anew and the default provider, which owns nothing.
OrderError(r, count, available, open, recount) ==
  IF r.side = "SELL" /\ RiskError(r, count, available, open) = "POSITION_PROVIDER_UNAVAILABLE"
  THEN TradeError(r, recount, 0)
  ELSE RiskError(r, count, available, open)
=============================================================================
