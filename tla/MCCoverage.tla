----------------------------- MODULE MCCoverage -----------------------------
(* Coverage for TLC: three blocks with three-bit identifiers, chosen so    *)
(* that the edges a -> c and b -> b share a counter.                       *)
EXTENDS Coverage, TLC
MCId == ("a" :> {0, 1}) @@ ("b" :> {1, 2}) @@ ("c" :> {2})
=============================================================================
