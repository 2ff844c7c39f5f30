---------------------------- MODULE MCTrampoline ----------------------------
(* The sites of Trampoline for TLC: every set of free registers the choice  *)
(* of scratch registers can tell apart, in functions that use no red zone   *)
(* and in functions that do.                                                *)
EXTENDS Trampoline

CONSTANTS
  MCBases,   \* how functions use their red zone, besides not at all
  MCCodes    \* the passes that instrument such functions in a run

MCGPRegs == {"rax", "rcx", "rdx", "rbx", "rdi", "rsi", "r8", "r9", "r10", "r11"}

\* Signal handlers run where the function keeps nothing in its red zone.
Site(code, free, base, mapped, printing) ==
  [code |-> code, free |-> free, base |-> base, mapped |-> mapped, printing |-> printing,
   signals |-> base = "none"]

\* rep movs itself reads rdi, rsi and rcx: they are never free before it.
AsanSites ==
  {Site("asan", free, base, TRUE, FALSE) :
     free \in SUBSET {"rdi", "rsi", "rcx", "rax", "rflags"}, base \in {"none"} \cup MCBases}
  \cup {Site("rep_movs", free, base, TRUE, FALSE) :
     free \in SUBSET {"rdx", "rbx", "rax", "rflags"}, base \in {"none"} \cup MCBases}
CoverageSites ==
  {Site("coverage", {}, base, mapped, FALSE) :
     base \in {"none"} \cup MCBases, mapped \in BOOLEAN}
\* A function's entry comes before any use of its red zone, and the calling
\* convention leaves no flag live there.
TraceSites ==
  {Site("trace", {"rflags"}, "none", m, p) : m \in BOOLEAN, p \in BOOLEAN}

MCSites == {s \in AsanSites \cup CoverageSites \cup TraceSites :
              s.base = "none" \/ s.code \in MCCodes}

\* The sites of the run are sites for which the passes keep their promises.
ASSUME PromiseAssumption == EntriesNeedNoFlag /\ NoSignalInLeaves /\ RedZonesViaRsp
=============================================================================
