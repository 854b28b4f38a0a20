--------------------------- MODULE MCPricePoster ---------------------------
(* Small instances of PricePoster for TLC. *)
EXTENDS PricePoster, TLC

\* Salts and rates are only compared: sound for the safety runs.
Symmetry == Permutations(Salt) \union Permutations(Rates)
=============================================================================
