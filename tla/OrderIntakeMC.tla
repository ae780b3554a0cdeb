---------------------------- MODULE OrderIntakeMC ----------------------------
(* Small instances of OrderIntake: two purchases and a sale that pass the   *)
(* policy of the cfg (the sale when the position is there).                 *)
EXTENDS OrderIntake, TLC

BuyOne == Requested("BUY", 1, 1, "LIMIT", TRUE)
BuyTwo == Requested("BUY", 2, 1, "LIMIT", TRUE)
SellOne == Requested("SELL", 1, 1, "LIMIT", TRUE)

BuyBodies == {BuyOne, BuyTwo}
MixedBodies == {BuyOne, SellOne}

SomePositions == {Unavailable, 1}
NoPositions == {NoProvider}
\* Order ids and threads are interchangeable in every property checked.
Symmetry == Permutations(Orders) \cup Permutations(Threads)
=============================================================================
