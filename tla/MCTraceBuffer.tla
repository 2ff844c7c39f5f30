--------------------------- MODULE MCTraceBuffer ---------------------------
(* TraceBuffer for TLC; the runs differ in their threads and constructors.  *)
EXTENDS TraceBuffer
=============================================================================
