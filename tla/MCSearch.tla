------------------------------ MODULE MCSearch ------------------------------
(* Search for TLC: providers are interchangeable, and so are workers.            *)
EXTENDS Search, TLC

SearchSymmetry == Permutations(Workers) \cup Permutations(Providers)
=============================================================================
