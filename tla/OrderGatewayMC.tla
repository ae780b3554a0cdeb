--------------------------- MODULE OrderGatewayMC ---------------------------
(* Small instances of OrderGateway.                                         *)
EXTENDS OrderGateway, TLC

\* Orders, keys and the threads of one kind are interchangeable in every
\* property checked.
Symmetry ==
  Permutations(Orders) \cup Permutations(Keys) \cup Permutations(Workers)
    \cup Permutations(Clients)

\* Bound: the modifies of a behaviour are all about one order.
OneOrderChanged == Cardinality(changed) <= 1
=============================================================================
