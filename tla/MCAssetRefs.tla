------------------------------ MODULE MCAssetRefs ------------------------------
(* AssetRefs for TLC: checksums, file names and requests are alike. *)
EXTENDS AssetRefs, TLC

Symmetry == Permutations(Sums) \cup Permutations(Files) \cup Permutations(Requests)
===============================================================================
