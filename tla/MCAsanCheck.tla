---------------------------- MODULE MCAsanCheck ----------------------------
(* AsanCheck for TLC.                                                      *)
EXTENDS AsanCheck
=============================================================================
