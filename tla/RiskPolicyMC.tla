---------------------------- MODULE RiskPolicyMC ----------------------------
(* Prices around the bounds of the cfg, with and without a price.           *)
EXTENDS RiskPolicyCheck

SomePrices == {NoPrice, 0, 1, 2, 4}
=============================================================================
