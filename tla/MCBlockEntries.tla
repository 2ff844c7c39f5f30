--------------------------- MODULE MCBlockEntries ---------------------------
(* BlockEntries for TLC, on the functions of MCShapes.                     *)
EXTENDS BlockEntries, MCShapes
=============================================================================
