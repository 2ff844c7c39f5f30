-------------------------- MODULE ForkServer_proofs --------------------------
(***************************************************************************)
(* However many runs the fuzzer asks for, however the program ends, loops, *)
(* or enters the set up a second time, and whichever system calls fail:    *)
(* only the process the fuzzer started ever serves requests.               *)
(*                                                                         *)
(* OneServer alone is not inductive.  A child that runs the set up again   *)
(* reaches __afl_forkserver like the server did; it does not get further   *)
(* because it closed the descriptor of the pipe before it ran anything     *)
(* else (ClosedAfterResume).                                               *)
(*                                                                         *)
(* The second invariant is the conversation: what stands in the two pipes  *)
(* and in the server's and the fuzzer's registers always belongs to one    *)
(* and the same run, so neither a result nor a map is ever taken for       *)
(* another run's.                                                          *)
(***************************************************************************)
EXTENDS ForkServer, SequenceTheorems, TLAPS

Places == Ended \cup Serving \cup Hung \cup {"unborn", "run", "setup", "hello", "resume"}

ClosedAfterResume == \A p \in Children : open[p] => pc[p] \in Ended \cup {"resume"}
PidKnown == fz = "status" => fzPid \in Children
SInv == TypeOK /\ OneServer /\ ClosedAfterResume /\ PidKnown
-----------------------------------------------------------------------------
LEMMA ProcsFacts ==
  /\ Server \in Procs /\ Server \notin Children
  /\ \A p \in Procs : p # Server => p \in Children
  /\ Children \subseteq Procs /\ -1 \notin Children
BY RunsAssumption DEF Server, Children, Procs

\* What a step of one process may do to the program counters.
LEMMA GotoKeeps ==
  ASSUME SInv, NEW p \in Procs, NEW l \in Places, Goto(p, l), UNCHANGED open,
         l \in Serving => p = Server,
         open[p] /\ p # Server => l \in Ended \cup {"resume"}
  PROVE  /\ pc' \in [Procs -> Places]
         /\ OneServer' /\ ClosedAfterResume'
<1>1. pc \in [Procs -> Places]
  BY DEF SInv, TypeOK, Places
<1>2. pc' = [pc EXCEPT ![p] = l]
  BY DEF Goto
<1>3. pc' \in [Procs -> Places]
  BY <1>1, <1>2
<1>4. \A q \in Procs : pc'[q] = IF q = p THEN l ELSE pc[q]
  BY <1>1, <1>2
<1>5. OneServer'
  BY <1>4 DEF OneServer, SInv
<1>6. ClosedAfterResume'
  BY <1>4, ProcsFacts DEF ClosedAfterResume, SInv
<1> QED
  BY <1>3, <1>5, <1>6

LEMMA KillKeeps ==
  ASSUME SInv, NEW S, pc' = Killed(S), UNCHANGED open
  PROVE  /\ pc' \in [Procs -> Places]
         /\ OneServer' /\ ClosedAfterResume'
<1>1. pc \in [Procs -> Places]
  BY DEF SInv, TypeOK, Places
<1>2. \A q \in Procs : pc'[q] = pc[q] \/ pc'[q] = "killed"
  BY DEF Killed
<1>3. "killed" \in Ended /\ "killed" \in Places /\ "killed" \notin Serving
  BY DEF Ended, Places, Serving
<1>4. pc' \in [Procs -> Places]
  BY <1>1, <1>3 DEF Killed
<1>5. OneServer'
  BY <1>2, <1>3 DEF OneServer, SInv
<1>6. ClosedAfterResume'
  BY <1>2, <1>3, ProcsFacts DEF ClosedAfterResume, SInv
<1> QED
  BY <1>4, <1>5, <1>6

\* A write to the status pipe, by the server or in the set up of any process.
LEMMA WriteKeeps ==
  ASSUME SInv, NEW p \in Procs, NEW word \in Words, NEW next \in Places,
         NEW otherwise \in Ended \cup {"resume"}, UNCHANGED open,
         Write(p, word, next, otherwise), p = Server \/ pc[p] = "hello"
  PROVE  /\ pc' \in [Procs -> Places] /\ st' \in Seq(Words)
         /\ OneServer' /\ ClosedAfterResume'
<1>1. st \in Seq(Words) /\ st' \in Seq(Words)
  <2>1. st \in Seq(Words)
    BY DEF SInv, TypeOK
  <2>2. st' = st \/ st' = Append(st, word)
    BY DEF Write
  <2> QED
    BY <2>1, <2>2
<1>2. /\ "hello" \notin Ended \cup {"resume"} /\ "killed" \in Ended
      /\ \A l \in Ended \cup {"resume"} : l \in Places /\ l \notin Serving
  BY DEF Ended, Serving, Places
<1>3. open[p] => p = Server
  BY <1>2, ProcsFacts DEF SInv, ClosedAfterResume
<1>4. PICK l \in Places : Goto(p, l) /\ (l \in Serving => p = Server)
  BY <1>2, <1>3 DEF Write
<1> QED
  BY <1>1, <1>3, <1>4, GotoKeeps

LEMMA InitSInv == Init => SInv
<1> SUFFICES ASSUME Init PROVE SInv
  OBVIOUS
<1>1. TypeOK
  <2>1. NoResult \in [pid : Children \cup {0}, status : Ended, timedOut : BOOLEAN]
    BY DEF NoResult, Ended
  <2>2. <<>> \in Seq({"run"}) /\ <<>> \in Seq(Words)
    OBVIOUS
  <2>3. pc \in [Procs -> Places] /\ at \in [Procs -> {"start", "loop", "body", "exit"}]
    BY DEF Init, Places
  <2>4. open \in [Procs -> BOOLEAN] /\ area \in [Procs -> BOOLEAN] /\ failed \in [Procs -> BOOLEAN]
    BY DEF Init
  <2>5. /\ cycles \in CycleCounts /\ shm \in BOOLEAN /\ born \in 0..Runs /\ asked \in 0..Runs
        /\ forkPid \in Children \cup {0, -1} /\ fzPid \in Children \cup {0, -1}
    BY RunsAssumption DEF Init
  <2>6. /\ temp \in Ended /\ bitmap \subseteq Procs /\ faults \subseteq {"fork", "signal"}
        /\ ctl = <<>> /\ st = <<>> /\ timedOut \in BOOLEAN /\ last = NoResult
        /\ fz \in {"none", "hello", "idle", "pid", "status", "stopped", "aborted"}
    BY DEF Init, Ended
  <2> QED
    BY <2>1, <2>2, <2>3, <2>4, <2>5, <2>6 DEF TypeOK, Places
<1>2. OneServer /\ ClosedAfterResume /\ PidKnown
  BY ProcsFacts DEF Init, OneServer, ClosedAfterResume, PidKnown, Serving
<1> QED
  BY <1>1, <1>2 DEF SInv
-----------------------------------------------------------------------------
(* Steps that change one program counter and no descriptor.                *)

LEMMA MaybeLogKeeps == ASSUME NEW p \in Procs PROVE SInv /\ MaybeLog(p) => SInv'
<1> SUFFICES ASSUME SInv, MaybeLog(p) PROVE SInv'
  OBVIOUS
<1>1. PICK l \in {"run", "setup"} : Goto(p, l)
  BY DEF MaybeLog, Return
<1>2. UNCHANGED <<cycles, shm, area, failed, open, server, ctl, st, faults, fuzzer>> /\ pc[p] = "run"
  BY DEF MaybeLog
<1>3. pc' \in [Procs -> Places] /\ OneServer' /\ ClosedAfterResume'
  <2>1. l \in Places /\ l \notin Serving /\ ~(open[p] /\ p # Server)
    BY <1>2, ProcsFacts DEF Places, Serving, SInv, ClosedAfterResume, Ended
  <2> QED
    BY <1>1, <1>2, <2>1, GotoKeeps
<1>4. at' \in [Procs -> {"start", "loop", "body", "exit"}] /\ bitmap' \subseteq Procs
  BY DEF MaybeLog, Return, AfterReturn, SInv, TypeOK
<1> QED
  BY <1>2, <1>3, <1>4 DEF SInv, TypeOK, PidKnown, server, fuzzer, Places

\* A step that leaves the program counters alone goes where it stands.
LEMMA StandsStill == ASSUME SInv, NEW p \in Procs PROVE UNCHANGED pc => Goto(p, pc[p])
BY DEF SInv, TypeOK, Goto

LEMMA SetupKeeps == ASSUME NEW p \in Procs PROVE SInv /\ Setup(p) => SInv'
<1> SUFFICES ASSUME SInv, Setup(p) PROVE SInv'
  OBVIOUS
<1>1. PICK l \in {"hello", "run"} : Goto(p, l)
  BY DEF Setup, Return
<1>2. UNCHANGED <<cycles, shm, area, open, server, ctl, st, bitmap, faults, fuzzer>> /\ pc[p] = "setup"
  BY DEF Setup
<1>3. pc' \in [Procs -> Places] /\ OneServer' /\ ClosedAfterResume'
  <2>1. l \in Places /\ l \notin Serving /\ ~(open[p] /\ p # Server)
    BY <1>2, ProcsFacts DEF Places, Serving, Hung, SInv, ClosedAfterResume, Ended
  <2> QED
    BY <1>1, <1>2, <2>1, GotoKeeps
<1>4. at' \in [Procs -> {"start", "loop", "body", "exit"}] /\ failed' \in [Procs -> BOOLEAN]
  BY DEF Setup, Return, AfterReturn, SInv, TypeOK
<1> QED
  BY <1>2, <1>3, <1>4 DEF SInv, TypeOK, PidKnown, server, fuzzer, program, Places

LEMMA LoopFirstKeeps == ASSUME NEW p \in Procs PROVE SInv /\ LoopFirst(p) => SInv'
<1> SUFFICES ASSUME SInv, LoopFirst(p) PROVE SInv'
  OBVIOUS
<1>1. UNCHANGED <<cycles, shm, area, failed, open, server, ctl, st, faults, fuzzer>> /\ pc[p] = "run"
  BY DEF LoopFirst
<1>2. PICK l \in {"run", "crashed"} : Goto(p, l)
  BY StandsStill, <1>1 DEF LoopFirst
<1>3. pc' \in [Procs -> Places] /\ OneServer' /\ ClosedAfterResume'
  <2>1. l \in Places /\ l \notin Serving /\ ~(open[p] /\ p # Server)
    BY <1>1, ProcsFacts DEF Places, Serving, Hung, SInv, ClosedAfterResume, Ended
  <2> QED
    BY <1>2, <1>1, <2>1, GotoKeeps
<1>4. at' \in [Procs -> {"start", "loop", "body", "exit"}] /\ bitmap' \subseteq Procs
  BY DEF LoopFirst, SInv, TypeOK
<1> QED
  BY <1>1, <1>3, <1>4 DEF SInv, TypeOK, PidKnown, server, fuzzer, program, Places

LEMMA ExitKeeps == ASSUME NEW p \in Procs PROVE SInv /\ Exit(p) => SInv'
<1> SUFFICES ASSUME SInv, Exit(p) PROVE SInv'
  OBVIOUS
<1>1. PICK l \in {"exited"} : Goto(p, l)
  BY DEF Exit
<1>2. UNCHANGED <<program, open, server, ctl, st, bitmap, faults, fuzzer>> /\ pc[p] = "run"
  BY DEF Exit
<1>3. pc' \in [Procs -> Places] /\ OneServer' /\ ClosedAfterResume'
  <2>1. l \in Places /\ l \notin Serving /\ ~(open[p] /\ p # Server)
    BY <1>2, ProcsFacts DEF Places, Serving, Hung, SInv, ClosedAfterResume, Ended
  <2> QED
    BY <1>1, <1>2, <2>1, GotoKeeps
<1> QED
  BY <1>2, <1>3 DEF SInv, TypeOK, PidKnown, server, fuzzer, program, Places

LEMMA MisbehaveKeeps == ASSUME NEW p \in Procs PROVE SInv /\ Misbehave(p) => SInv'
<1> SUFFICES ASSUME SInv, Misbehave(p) PROVE SInv'
  OBVIOUS
<1>1. PICK l \in {"crashed", "looping"} : Goto(p, l)
  BY DEF Misbehave
<1>2. UNCHANGED <<program, open, server, ctl, st, bitmap, faults, fuzzer>> /\ pc[p] = "run"
  BY DEF Misbehave
<1>3. pc' \in [Procs -> Places] /\ OneServer' /\ ClosedAfterResume'
  <2>1. l \in Places /\ l \notin Serving /\ ~(open[p] /\ p # Server)
    BY <1>2, ProcsFacts DEF Places, Serving, Hung, SInv, ClosedAfterResume, Ended
  <2> QED
    BY <1>1, <1>2, <2>1, GotoKeeps
<1> QED
  BY <1>2, <1>3 DEF SInv, TypeOK, PidKnown, server, fuzzer, program, Places

LEMMA FinishKeeps == ASSUME NEW p \in Procs PROVE SInv /\ Finish(p) => SInv'
<1> SUFFICES ASSUME SInv, Finish(p) PROVE SInv'
  OBVIOUS
<1>1. UNCHANGED <<cycles, shm, failed, open, server, ctl, st, bitmap, faults, fuzzer>> /\ pc[p] = "run"
  BY DEF Finish
<1>2. PICK l \in {"run", "stopped"} : Goto(p, l)
  BY StandsStill, <1>1 DEF Finish
<1>3. pc' \in [Procs -> Places] /\ OneServer' /\ ClosedAfterResume'
  <2>1. l \in Places /\ l \notin Serving /\ ~(open[p] /\ p # Server)
    BY <1>1, ProcsFacts DEF Places, Serving, Hung, SInv, ClosedAfterResume, Ended
  <2> QED
    BY <1>2, <1>1, <2>1, GotoKeeps
<1>4. at' \in [Procs -> {"start", "loop", "body", "exit"}] /\ area' \in [Procs -> BOOLEAN]
  BY DEF Finish, SInv, TypeOK
<1> QED
  BY <1>1, <1>3, <1>4 DEF SInv, TypeOK, PidKnown, server, fuzzer, program, Places

-----------------------------------------------------------------------------
(* The server.                                                             *)

LEMMA WordTypes ==
  /\ Hello \in Words
  /\ \A n \in Children \cup {0, -1} : PidWord(n) \in Words
  /\ \A s \in Ended : StatWord(s) \in Words
BY DEF Words, Hello, PidWord, StatWord, Ended

LEMMA ServesAlone == ASSUME SInv, NEW p \in Procs, pc[p] \in Serving PROVE p = Server
BY DEF SInv, OneServer

LEMMA ForkserverKeeps == ASSUME NEW p \in Procs PROVE SInv /\ Forkserver(p) => SInv'
<1> SUFFICES ASSUME SInv, Forkserver(p) PROVE SInv'
  OBVIOUS
<1>1. /\ UNCHANGED <<cycles, shm, at, failed, open, server, ctl, bitmap, faults, fuzzer>>
      /\ pc[p] = "hello" /\ Write(p, Hello, "request", "resume")
  BY DEF Forkserver
<1>2. pc' \in [Procs -> Places] /\ st' \in Seq(Words) /\ OneServer' /\ ClosedAfterResume'
  BY <1>1, WriteKeeps, WordTypes DEF Places, Serving
<1>3. area' \in [Procs -> BOOLEAN]
  BY DEF Forkserver, SInv, TypeOK
<1> QED
  BY <1>1, <1>2, <1>3 DEF SInv, TypeOK, PidKnown, server, fuzzer, Places

LEMMA ForkResumeKeeps == ASSUME NEW p \in Procs PROVE SInv /\ ForkResume(p) => SInv'
<1> SUFFICES ASSUME SInv, ForkResume(p) PROVE SInv'
  OBVIOUS
<1>1. /\ UNCHANGED <<cycles, shm, area, failed, server, ctl, st, faults, fuzzer>>
      /\ pc' = [pc EXCEPT ![p] = "run"] /\ open' = [open EXCEPT ![p] = FALSE]
      /\ bitmap' = bitmap \cup {p} /\ at' = AfterReturn(p)
  BY DEF ForkResume, Return, Goto
<1>2. TypeOK'
  <2>1. "run" \in Places
    BY DEF Places
  <2>2. pc' \in [Procs -> Places] /\ open' \in [Procs -> BOOLEAN]
    BY <1>1, <2>1 DEF SInv, TypeOK, Places
  <2>3. at' \in [Procs -> {"start", "loop", "body", "exit"}] /\ bitmap' \subseteq Procs
    BY <1>1 DEF AfterReturn, SInv, TypeOK
  <2> QED
    BY <1>1, <2>2, <2>3 DEF SInv, TypeOK, server, fuzzer, Places
<1>3. \A q \in Procs : /\ pc'[q] = IF q = p THEN "run" ELSE pc[q]
                       /\ open'[q] = IF q = p THEN FALSE ELSE open[q]
  BY <1>1 DEF SInv, TypeOK
<1>4. OneServer' /\ ClosedAfterResume' /\ PidKnown'
  <2>1. OneServer'
    BY <1>3 DEF SInv, OneServer, Serving
  <2>2. ClosedAfterResume'
    BY <1>3, ProcsFacts DEF SInv, ClosedAfterResume
  <2> QED
    BY <1>1, <2>1, <2>2 DEF SInv, PidKnown, fuzzer
<1> QED
  BY <1>2, <1>4 DEF SInv

LEMMA ReadRequestKeeps == ASSUME NEW p \in Procs PROVE SInv /\ ReadRequest(p) => SInv'
<1> SUFFICES ASSUME SInv, ReadRequest(p) PROVE SInv'
  OBVIOUS
<1>1. UNCHANGED <<cycles, shm, area, failed, open, server, st, bitmap, faults, fuzzer>> /\ pc[p] = "request" /\ p = Server
  BY ServesAlone DEF ReadRequest, Serving
<1>2. PICK l \in {"fork", "run"} : Goto(p, l)
  BY DEF ReadRequest, Die
<1>3. pc' \in [Procs -> Places] /\ OneServer' /\ ClosedAfterResume'
  <2>1. l \in Places
    BY DEF Places, Serving, Ended
  <2> QED
    BY <1>1, <1>2, <2>1, GotoKeeps
<1>4. at' \in [Procs -> {"start", "loop", "body", "exit"}]
  BY DEF ReadRequest, Die, SInv, TypeOK
<1>5. ctl' \in Seq({"run"})
  <2>1. ctl \in Seq({"run"}) /\ (ctl' = ctl \/ (ctl # <<>> /\ ctl' = Tail(ctl)))
    BY DEF ReadRequest, SInv, TypeOK
  <2> QED
    BY <2>1
<1> QED
  BY <1>1, <1>3, <1>4, <1>5 DEF SInv, TypeOK, PidKnown, server, fuzzer, program, Places

LEMMA ForkFailsKeeps == ASSUME NEW p \in Procs PROVE SInv /\ ForkFails(p) => SInv'
<1> SUFFICES ASSUME SInv, ForkFails(p) PROVE SInv'
  OBVIOUS
<1>1. UNCHANGED <<cycles, shm, area, failed, open, born, temp, ctl, st, bitmap, fuzzer>> /\ pc[p] = "fork" /\ p = Server
  BY ServesAlone DEF ForkFails, Serving
<1>2. PICK l \in {"run", "send_pid"} : Goto(p, l)
  BY DEF ForkFails, Die
<1>3. pc' \in [Procs -> Places] /\ OneServer' /\ ClosedAfterResume'
  <2>1. l \in Places
    BY DEF Places, Serving, Ended
  <2> QED
    BY <1>1, <1>2, <2>1, GotoKeeps
<1>4. at' \in [Procs -> {"start", "loop", "body", "exit"}] /\ forkPid' \in Children \cup {0, -1}
  BY DEF ForkFails, Die, SInv, TypeOK
<1>5. faults' \subseteq {"fork", "signal"}
  BY DEF ForkFails, SInv, TypeOK
<1> QED
  BY <1>1, <1>3, <1>4, <1>5 DEF SInv, TypeOK, PidKnown, server, fuzzer, program, Places

LEMMA WaitpidKeeps == ASSUME NEW p \in Procs PROVE SInv /\ Waitpid(p) => SInv'
<1> SUFFICES ASSUME SInv, Waitpid(p) PROVE SInv'
  OBVIOUS
<1>1. UNCHANGED <<program, open, born, forkPid, ctl, st, bitmap, faults, fuzzer>> /\ pc[p] = "wait" /\ p = Server
  BY ServesAlone DEF Waitpid, Serving
<1>2. PICK l \in {"send_status"} : Goto(p, l)
  BY DEF Waitpid, Die
<1>3. pc' \in [Procs -> Places] /\ OneServer' /\ ClosedAfterResume'
  <2>1. l \in Places
    BY DEF Places, Serving, Ended
  <2> QED
    BY <1>1, <1>2, <2>1, GotoKeeps
<1>4. temp' \in Ended
  BY DEF Waitpid
<1> QED
  BY <1>1, <1>3, <1>4 DEF SInv, TypeOK, PidKnown, server, fuzzer, program, Places

LEMMA WaitpidFailsKeeps == ASSUME NEW p \in Procs PROVE SInv /\ WaitpidFails(p) => SInv'
<1> SUFFICES ASSUME SInv, WaitpidFails(p) PROVE SInv'
  OBVIOUS
<1>1. UNCHANGED <<cycles, shm, area, failed, open, server, ctl, st, bitmap, fuzzer>> /\ pc[p] = "wait" /\ p = Server
  BY ServesAlone DEF WaitpidFails, Serving
<1>2. PICK l \in {"run", "send_status"} : Goto(p, l)
  BY DEF WaitpidFails, Die
<1>3. pc' \in [Procs -> Places] /\ OneServer' /\ ClosedAfterResume'
  <2>1. l \in Places
    BY DEF Places, Serving, Ended
  <2> QED
    BY <1>1, <1>2, <2>1, GotoKeeps
<1>4. at' \in [Procs -> {"start", "loop", "body", "exit"}]
  BY DEF WaitpidFails, Die, SInv, TypeOK
<1>5. faults' \subseteq {"fork", "signal"}
  BY DEF WaitpidFails, SInv, TypeOK
<1> QED
  BY <1>1, <1>3, <1>4, <1>5 DEF SInv, TypeOK, PidKnown, server, fuzzer, program, Places

LEMMA SendPidKeeps == ASSUME NEW p \in Procs PROVE SInv /\ SendPid(p) => SInv'
<1> SUFFICES ASSUME SInv, SendPid(p) PROVE SInv'
  OBVIOUS
<1>1. /\ UNCHANGED <<program, open, server, ctl, bitmap, faults, fuzzer>>
      /\ p = Server /\ Write(p, PidWord(forkPid), "wait", "exited")
  BY ServesAlone DEF SendPid, Serving
<1>2. PidWord(forkPid) \in Words
  BY WordTypes DEF SInv, TypeOK
<1>3. pc' \in [Procs -> Places] /\ st' \in Seq(Words) /\ OneServer' /\ ClosedAfterResume'
  BY <1>1, <1>2, WriteKeeps DEF Places, Serving, Ended
<1> QED
  BY <1>1, <1>3 DEF SInv, TypeOK, PidKnown, program, server, fuzzer, Places

LEMMA SendStatusKeeps == ASSUME NEW p \in Procs PROVE SInv /\ SendStatus(p) => SInv'
<1> SUFFICES ASSUME SInv, SendStatus(p) PROVE SInv'
  OBVIOUS
<1>1. /\ UNCHANGED <<program, open, server, ctl, bitmap, faults, fuzzer>>
      /\ p = Server /\ Write(p, StatWord(temp), "request", "exited")
  BY ServesAlone DEF SendStatus, Serving
<1>2. StatWord(temp) \in Words
  BY WordTypes DEF SInv, TypeOK
<1>3. pc' \in [Procs -> Places] /\ st' \in Seq(Words) /\ OneServer' /\ ClosedAfterResume'
  BY <1>1, <1>2, WriteKeeps DEF Places, Serving, Ended
<1> QED
  BY <1>1, <1>3 DEF SInv, TypeOK, PidKnown, program, server, fuzzer, Places

LEMMA ForkKeeps == ASSUME NEW p \in Procs PROVE SInv /\ Fork(p) => SInv'
<1> SUFFICES ASSUME SInv, Fork(p) PROVE SInv'
  OBVIOUS
<1> DEFINE c == born + 1
<1>1. UNCHANGED <<cycles, shm, failed, temp, ctl, st, bitmap, faults, fuzzer>> /\ p = Server
  BY ServesAlone DEF Fork, Serving
<1>2. c \in Children /\ c \in Procs /\ c # p
  BY <1>1, RunsAssumption DEF Fork, SInv, TypeOK, Children, Procs, Server
<1>3. /\ born' = c /\ forkPid' = c
      /\ pc'   = [pc EXCEPT ![c] = "resume", ![p] = "send_pid"]
      /\ at'   = [at EXCEPT ![c] = at[p]]
      /\ area' = [area EXCEPT ![c] = area[p]]
      /\ open' = [open EXCEPT ![c] = open[p]]
  BY DEF Fork
<1>4. TypeOK'
  <2>1. born' \in 0..Runs /\ forkPid' \in Children \cup {0, -1}
    BY <1>2, <1>3 DEF Children
  <2>2. "resume" \in Places /\ "send_pid" \in Places
    BY DEF Places, Serving
  <2>3. pc' \in [Procs -> Places]
    BY <1>2, <1>3, <2>2 DEF SInv, TypeOK, Places
  <2>4. at' \in [Procs -> {"start", "loop", "body", "exit"}]
    BY <1>2, <1>3 DEF SInv, TypeOK
  <2>5. area' \in [Procs -> BOOLEAN] /\ open' \in [Procs -> BOOLEAN]
    BY <1>2, <1>3 DEF SInv, TypeOK
  <2> QED
    BY <1>1, <2>1, <2>3, <2>4, <2>5 DEF SInv, TypeOK, fuzzer, Places
<1>5. \A q \in Procs : /\ pc'[q] = IF q = p THEN "send_pid" ELSE IF q = c THEN "resume" ELSE pc[q]
                       /\ open'[q] = IF q = c THEN open[p] ELSE open[q]
  BY <1>2, <1>3 DEF SInv, TypeOK
<1>6. OneServer' /\ ClosedAfterResume' /\ PidKnown'
  <2>1. OneServer'
    BY <1>1, <1>5 DEF SInv, OneServer, Serving
  <2>2. ClosedAfterResume'
    BY <1>1, <1>5, ProcsFacts DEF SInv, ClosedAfterResume
  <2> QED
    BY <1>1, <2>1, <2>2 DEF SInv, PidKnown, fuzzer
<1> QED
  BY <1>4, <1>6 DEF SInv

-----------------------------------------------------------------------------
(* The fuzzer.                                                             *)

LEMMA ReadWord ==
  ASSUME SInv, st # <<>>
  PROVE  /\ Tail(st) \in Seq(Words)
         /\ Head(st).pid \in Children \cup {0, -1} /\ Head(st).status \in Ended
<1>1. st \in Seq(Words)
  BY DEF SInv, TypeOK
<1>2. Tail(st) \in Seq(Words) /\ Head(st) \in Words
  BY <1>1
<1> QED
  BY <1>2 DEF Words

\* Steps of the fuzzer that touch no process.
LEMMA FuzzerKeeps ==
  ASSUME SInv, UNCHANGED <<program, pc, open, server>>, TypeOK', PidKnown'
  PROVE  SInv'
BY DEF SInv, OneServer, ClosedAfterResume

LEMMA ReadsKeep == SInv /\ Reads => SInv'
<1> SUFFICES ASSUME SInv, Reads PROVE SInv'
  OBVIOUS
<1>1. CASE FzHello
  <2>1. TypeOK' /\ PidKnown'
    BY <1>1, ReadWord DEF FzHello, SInv, TypeOK, PidKnown, program, server
  <2> QED
    BY <1>1, <2>1, FuzzerKeeps DEF FzHello
<1>2. CASE FzPid
  <2>1. TypeOK'
    BY <1>2, ReadWord DEF FzPid, SInv, TypeOK, program, server
  <2>2. PidKnown'
    BY <1>2, ReadWord, RunsAssumption DEF FzPid, PidKnown, Children
  <2> QED
    BY <1>2, <2>1, <2>2, FuzzerKeeps DEF FzPid
<1>3. CASE FzStatus
  <2>1. last' \in [pid : Children \cup {0}, status : Ended, timedOut : BOOLEAN]
    BY <1>3, ReadWord DEF FzStatus, SInv, TypeOK, PidKnown
  <2>2. TypeOK' /\ PidKnown'
    BY <1>3, <2>1, ReadWord DEF FzStatus, SInv, TypeOK, PidKnown, program, server
  <2> QED
    BY <1>3, <2>2, FuzzerKeeps DEF FzStatus
<1>4. CASE FzEndOfFile
  <2>1. TypeOK' /\ PidKnown'
    BY <1>4 DEF FzEndOfFile, SInv, TypeOK, PidKnown, program, server
  <2> QED
    BY <1>4, <2>1, FuzzerKeeps DEF FzEndOfFile
<1> QED
  BY <1>1, <1>2, <1>3, <1>4 DEF Reads

LEMMA RequestKeeps == SInv /\ FzRequest => SInv'
<1> SUFFICES ASSUME SInv, FzRequest PROVE SInv'
  OBVIOUS
<1>1. ctl' \in Seq({"run"}) /\ fz' \in {"pid", "aborted"}
  <2>1. ctl \in Seq({"run"})
    BY DEF SInv, TypeOK
  <2> QED
    BY <2>1 DEF FzRequest
<1>2. asked' \in 0..Runs
  BY RunsAssumption DEF FzRequest, SInv, TypeOK
<1>3. last' \in [pid : Children \cup {0}, status : Ended, timedOut : BOOLEAN]
  BY DEF FzRequest, NoResult, Ended
<1>4. bitmap' \subseteq Procs /\ UNCHANGED <<program, pc, open, server, st, faults, fzPid, timedOut>>
  BY DEF FzRequest
<1>5. TypeOK' /\ PidKnown'
  BY <1>1, <1>2, <1>3, <1>4 DEF SInv, TypeOK, PidKnown, program, server
<1> QED
  BY <1>4, <1>5, FuzzerKeeps

LEMMA KillsKeep == SInv /\ (FzTimeout \/ FzStop) => SInv'
<1> SUFFICES ASSUME SInv, FzTimeout \/ FzStop PROVE SInv'
  OBVIOUS
<1>1. /\ UNCHANGED <<program, open, server, ctl, st, bitmap, faults, asked, fzPid, last>>
      /\ fz' \in {fz, "stopped"} /\ timedOut' \in BOOLEAN
  BY DEF FzTimeout, FzStop, SInv, TypeOK
<1>2. \E S : pc' = Killed(S)
  BY DEF FzTimeout, FzStop
<1>3. pc' \in [Procs -> Places] /\ OneServer' /\ ClosedAfterResume'
  BY <1>1, <1>2, KillKeeps
<1>4. PidKnown'
  BY <1>1 DEF SInv, PidKnown
<1> QED
  BY <1>1, <1>3, <1>4 DEF SInv, TypeOK, program, server, Places
-----------------------------------------------------------------------------
LEMMA StepKeeps == SInv /\ [Next]_vars => SInv'
<1> SUFFICES ASSUME SInv, [Next]_vars PROVE SInv'
  OBVIOUS
<1>1. CASE UNCHANGED vars
  BY <1>1 DEF vars, program, server, fuzzer, SInv, TypeOK, OneServer, ClosedAfterResume, PidKnown
<1>2. ASSUME NEW p \in Procs, Process(p) PROVE SInv'
  BY <1>2, MaybeLogKeeps, SetupKeeps, ForkserverKeeps, ForkResumeKeeps, ReadRequestKeeps,
     ForkKeeps, ForkFailsKeeps, SendPidKeeps, WaitpidKeeps, WaitpidFailsKeeps,
     SendStatusKeeps, LoopFirstKeeps, FinishKeeps, ExitKeeps, MisbehaveKeeps DEF Process
<1> QED
  BY <1>1, <1>2, ReadsKeep, RequestKeeps, KillsKeep DEF Next

\* The fork server and its children stay well typed for any number of runs.
THEOREM ServerTypeCorrect == Spec => []TypeOK
<1>1. SInv => TypeOK
  BY DEF SInv
<1> QED
  BY InitSInv, StepKeeps, <1>1, PTL DEF Spec

\* For any number of runs and any cycle count only the process the fuzzer started
\* is ever in the loop that serves requests (lines 240-309), although a child's
\* exit handlers can run the set up again (lines 487-495).
THEOREM ServesOnce == Spec => []OneServer
<1>1. SInv => OneServer
  BY DEF SInv
<1> QED
  BY InitSInv, StepKeeps, <1>1, PTL DEF Spec
-----------------------------------------------------------------------------
(***************************************************************************)
(* The conversation of the server and the fuzzer.  As long as the fuzzer   *)
(* is there and no signal interrupted a wait, what each of the two does    *)
(* next, what is in the pipes between them, which child lives and who      *)
(* wrote to the map all follow from the state the fuzzer is in.            *)
(***************************************************************************)
Attached == ~Gone /\ "signal" \notin faults

UnbornRest == \A c \in Children : c > born => pc[c] = "unborn"
ServerOpen == fz # "none" => open[Server] /\ pc[Server] # "resume"
\* Only the child that was forked last can live, and only until it was waited for.
OneChild   == \A c \in Children : Alive(c) => /\ c = born /\ forkPid = born
                                             /\ pc[Server] \in {"send_pid", "wait"}
\* The map holds what the last child hit, and has its mark unless it was killed first.
MapOfChild == /\ born \in Children /\ bitmap \subseteq {born}
              /\ pc[born] \notin {"resume", "killed"} => born \in bitmap
\* The server after __afl_die.
Died == pc[Server] \in {"run", "exited"} /\ at[Server] = "exit"

Greeting ==
  /\ born = 0 /\ ctl = <<>> /\ last = NoResult
  /\ \/ st = <<>> /\ pc[Server] \notin Serving
     \/ st = <<Hello>> /\ pc[Server] = "request" /\ area[Server]
AtRest ==
  /\ pc[Server] = "request" /\ st = <<>> /\ ctl = <<>> /\ area[Server]
  /\ last # NoResult => last.pid = born /\ pc[born] = last.status /\ MapOfChild
BeforeFork == /\ st = <<>> /\ bitmap = {}
              /\ \/ pc[Server] = "request" /\ ctl = <<"run">>
                 \/ pc[Server] = "fork" /\ ctl = <<>>
AfterFork ==
  /\ ctl = <<>> /\ forkPid \in {born, -1} /\ (forkPid = born => MapOfChild)
  /\ \/ pc[Server] = "send_pid" /\ st = <<>>
     \/ pc[Server] = "wait" /\ st = <<PidWord(forkPid)>>
     \/ /\ forkPid = born => temp = pc[born]
        /\ \/ pc[Server] = "send_status" /\ st = <<PidWord(forkPid)>>
           \/ pc[Server] = "request" /\ st = <<PidWord(forkPid), StatWord(temp)>>
PidAsked    == area[Server] /\ (BeforeFork \/ AfterFork
                                \/ (Died /\ ctl = <<>> /\ st \in {<<>>, <<PidWord(-1)>>}))
StatusAsked ==
  /\ area[Server] /\ ctl = <<>> /\ forkPid = born /\ fzPid = born /\ MapOfChild
  /\ \/ pc[Server] = "wait" /\ st = <<>>
     \/ /\ temp = pc[born]
        /\ \/ pc[Server] = "send_status" /\ st = <<>>
           \/ pc[Server] = "request" /\ st = <<StatWord(temp)>>

Conversation ==
  Attached => /\ OneChild
              /\ fz = "hello"  => Greeting
              /\ fz = "idle"   => AtRest
              /\ fz = "pid"    => PidAsked
              /\ fz = "status" => StatusAsked

CInv == UnbornRest /\ ServerOpen /\ Conversation

-----------------------------------------------------------------------------
(* What the proof needs of the pipes, and which states exclude each other. *)

LEMMA OneWord ==
  ASSUME NEW S, NEW x \in S
  PROVE  Append(<<>>, x) = <<x>> /\ Tail(<<x>>) = <<>> /\ Head(<<x>>) = x /\ <<x>> # <<>>
<1>1. Append(<<>>, x) = <<x>>
  OBVIOUS
<1>2. Tail(<<x>>) = <<>>
  OBVIOUS
<1>3. Head(<<x>>) = x /\ <<x>> # <<>>
  OBVIOUS
<1> QED
  BY <1>1, <1>2, <1>3

LEMMA TwoWords ==
  ASSUME NEW S, NEW x \in S, NEW y \in S
  PROVE  Append(<<x>>, y) = <<x, y>> /\ Tail(<<x, y>>) = <<y>> /\ Head(<<x, y>>) = x /\ <<x, y>> # <<>>
<1>1. Append(<<x>>, y) = <<x, y>>
  <2>1. <<x>> \in Seq(S) /\ <<x, y>> \in Seq(S) /\ Append(<<x>>, y) \in Seq(S)
    OBVIOUS
  <2>2. Len(Append(<<x>>, y)) = 2 /\ Len(<<x, y>>) = 2
    OBVIOUS
  <2>3. \A i \in 1..2 : Append(<<x>>, y)[i] = <<x, y>>[i]
    OBVIOUS
  <2> QED
    BY <2>1, <2>2, <2>3, SeqEqual
<1>2. Tail(<<x, y>>) = <<y>>
  OBVIOUS
<1>3. Head(<<x, y>>) = x /\ <<x, y>> # <<>>
  OBVIOUS
<1> QED
  BY <1>1, <1>2, <1>3

\* A child lives only while the server is between its fork and its wait.
LEMMA NobodyLives ==
  ASSUME CInv, Attached, pc[Server] \notin {"send_pid", "wait"}
  PROVE  \A c \in Children : ~Alive(c)
BY DEF CInv, Conversation, OneChild

\* Where the two sides are when the server is not serving.
LEMMA NotServing ==
  ASSUME SInv, CInv, Attached, pc[Server] \notin Serving
  PROVE  \/ fz = "hello" /\ Greeting /\ st = <<>>
         \/ fz = "pid" /\ area[Server] /\ Died /\ ctl = <<>> /\ st \in {<<>>, <<PidWord(-1)>>}
<1>1. fz \in {"hello", "idle", "pid", "status"}
  BY DEF SInv, TypeOK, Attached, Gone
<1> QED
  BY <1>1 DEF CInv, Conversation, Greeting, AtRest, PidAsked, BeforeFork, AfterFork, StatusAsked,
              Serving

LEMMA InitCInv == Init => CInv
<1> SUFFICES ASSUME Init PROVE CInv
  OBVIOUS
<1>1. UnbornRest /\ (\A c \in Children : ~Alive(c))
  BY ProcsFacts DEF Init, UnbornRest, Alive
<1>2. ServerOpen
  BY ProcsFacts DEF Init, ServerOpen
<1>3. Greeting
  BY ProcsFacts DEF Init, Greeting, Serving
<1> QED
  BY <1>1, <1>2, <1>3 DEF Init, CInv, Conversation, OneChild
-----------------------------------------------------------------------------
(* A child's step changes neither the pipes nor the server, and of the map *)
(* only its own part.                                                      *)

LEMMA ChildMoves ==
  ASSUME SInv, NEW c \in Children, Process(c)
  PROVE  /\ Alive(c)
         /\ UNCHANGED <<born, forkPid, temp, ctl, st, faults, fuzzer>>
         /\ \A q \in Procs \ {c} : pc'[q] = pc[q] /\ open'[q] = open[q]
         /\ area'[Server] = area[Server] /\ at'[Server] = at[Server]
         /\ c = born /\ MapOfChild => MapOfChild'
<1>0. c \in Procs /\ c # Server /\ Server \in Procs
  BY ProcsFacts
<1>1. pc[c] \notin Serving
  BY <1>0, ServesAlone
<1>2. /\ pc \in [Procs -> Places] /\ at \in [Procs -> {"start", "loop", "body", "exit"}]
      /\ area \in [Procs -> BOOLEAN] /\ open \in [Procs -> BOOLEAN]
  BY DEF SInv, TypeOK, Places
<1>3. \/ MaybeLog(c) \/ Setup(c) \/ Forkserver(c) \/ ForkResume(c)
      \/ LoopFirst(c) \/ Finish(c) \/ Exit(c) \/ Misbehave(c)
  BY <1>1 DEF Process, ReadRequest, Fork, ForkFails, SendPid, Waitpid, WaitpidFails,
              SendStatus, Serving
<1> DEFINE Kept == UNCHANGED <<born, forkPid, temp, ctl, st, faults, fuzzer>>
           Moves(l) == pc' = [pc EXCEPT ![c] = l]
<1>4. /\ pc[c] \in {"run", "setup", "hello", "resume"} /\ Kept
      /\ \E l : Moves(l)
      /\ \/ open' = open
         \/ open' = [open EXCEPT ![c] = FALSE]
  <2>1. CASE Forkserver(c)
    <3>1. ~open[c] /\ pc[c] = "hello"
      BY <2>1 DEF Forkserver, SInv, ClosedAfterResume, Ended
    <3> QED
      BY <2>1, <3>1 DEF Forkserver, Write, Goto, server, fuzzer
  <2>2. CASE MaybeLog(c)
    BY <2>2 DEF MaybeLog, Return, Goto, server, fuzzer
  <2>3. CASE Setup(c)
    BY <2>3 DEF Setup, Return, Goto, server, fuzzer
  <2>4. CASE ForkResume(c)
    BY <2>4 DEF ForkResume, Return, Goto, server, fuzzer
  <2>5. CASE LoopFirst(c)
    BY <2>5, <1>2, <1>0, StandsStill DEF LoopFirst, Goto, server, fuzzer
  <2>6. CASE Finish(c)
    BY <2>6, <1>2, <1>0, StandsStill DEF Finish, Goto, server, fuzzer
  <2>7. CASE Exit(c) \/ Misbehave(c)
    BY <2>7 DEF Exit, Misbehave, Goto, server, fuzzer
  <2> QED
    BY <1>3, <2>1, <2>2, <2>3, <2>4, <2>5, <2>6, <2>7
<1>5. area'[Server] = area[Server] /\ at'[Server] = at[Server]
  <2>1. at' = at \/ at' = AfterReturn(c) \/ \E x : at' = [at EXCEPT ![c] = x]
    BY <1>3 DEF MaybeLog, Setup, Forkserver, ForkResume, LoopFirst, Finish, Exit, Misbehave,
                Return, program
  <2>2. area' = area \/ \E x : area' = [area EXCEPT ![c] = x]
    BY <1>3 DEF MaybeLog, Setup, Forkserver, ForkResume, LoopFirst, Finish, Exit, Misbehave,
                program
  <2> QED
    BY <1>0, <1>2, <2>1, <2>2 DEF AfterReturn
<1>6. ASSUME c = born, MapOfChild PROVE MapOfChild'
  <2>1. born' = c /\ c \in Children
    BY <1>4, <1>6
  <2>2. bitmap' = bitmap \/ bitmap' = bitmap \cup {c} \/ bitmap' = {c}
    BY <1>3 DEF MaybeLog, Setup, Forkserver, ForkResume, LoopFirst, Finish, Exit, Misbehave
  <2>3. bitmap' \subseteq {c} /\ (c \in bitmap => c \in bitmap')
    BY <1>6, <2>2 DEF MapOfChild
  <2>4. c \in bitmap'
    <3>1. CASE ForkResume(c)
      BY <3>1 DEF ForkResume
    <3>2. CASE ~ForkResume(c)
      <4>1. pc[c] \notin {"resume", "killed"}
        BY <1>3, <3>2 DEF MaybeLog, Setup, Forkserver, LoopFirst, Finish, Exit, Misbehave
      <4> QED
        BY <4>1, <1>6, <2>3 DEF MapOfChild
    <3> QED
      BY <3>1, <3>2
  <2> QED
    BY <2>1, <2>3, <2>4 DEF MapOfChild
<1> QED
  BY <1>0, <1>2, <1>4, <1>5, <1>6 DEF Alive, Ended

LEMMA ChildConverses ==
  ASSUME SInv, CInv, NEW c \in Children, Process(c)
  PROVE  CInv'
<1>0. c \in Procs /\ c # Server /\ Server \in Procs /\ Children \subseteq Procs
  BY ProcsFacts
<1>1. /\ Alive(c)
      /\ UNCHANGED <<born, forkPid, temp, ctl, st, faults, fuzzer>>
      /\ \A q \in Procs \ {c} : pc'[q] = pc[q] /\ open'[q] = open[q]
      /\ area'[Server] = area[Server] /\ at'[Server] = at[Server]
      /\ c = born /\ MapOfChild => MapOfChild'
  BY ChildMoves
<1>2. UnbornRest'
  BY <1>0, <1>1 DEF CInv, UnbornRest, Alive
<1>3. ServerOpen'
  BY <1>0, <1>1 DEF CInv, ServerOpen, fuzzer
<1>4. ASSUME Attached PROVE Conversation'
  <2>1. c = born /\ forkPid = born /\ pc[Server] \in {"send_pid", "wait"}
    BY <1>1, <1>4 DEF CInv, Conversation, OneChild
  <2>2. pc'[Server] = pc[Server]
    BY <1>0, <1>1
  <2>3. OneChild'
    BY <1>0, <1>1, <1>4, <2>1, <2>2 DEF CInv, Conversation, OneChild, Alive
  <2>4. /\ fz # "hello" /\ fz # "idle" /\ UNCHANGED <<fz, fzPid, last>>
    BY <1>0, <1>1, <1>4, <2>1 DEF CInv, Conversation, Greeting, AtRest, Serving, Children, fuzzer
  <2>5. fz = "pid" => PidAsked'
    <3> SUFFICES ASSUME fz = "pid" PROVE PidAsked'
      OBVIOUS
    <3>1. area[Server] /\ AfterFork
      BY <1>4, <2>1 DEF CInv, Conversation, PidAsked, BeforeFork, Died
    <3>2. AfterFork'
      BY <1>1, <2>1, <2>2, <3>1 DEF AfterFork
    <3> QED
      BY <1>1, <3>1, <3>2 DEF PidAsked
  <2>6. fz = "status" => StatusAsked'
    <3> SUFFICES ASSUME fz = "status" PROVE StatusAsked'
      OBVIOUS
    <3>1. StatusAsked /\ pc[Server] = "wait" /\ st = <<>>
      BY <1>4, <2>1 DEF CInv, Conversation, StatusAsked
    <3>2. MapOfChild'
      BY <1>1, <2>1, <3>1 DEF StatusAsked
    <3> QED
      BY <1>1, <2>1, <2>2, <2>4, <3>1, <3>2 DEF StatusAsked
  <2> QED
    BY <2>3, <2>4, <2>5, <2>6 DEF Conversation
<1>5. ASSUME ~Attached PROVE Conversation'
  BY <1>1, <1>5 DEF Attached, Gone, Conversation, fuzzer
<1> QED
  BY <1>2, <1>3, <1>4, <1>5 DEF CInv
-----------------------------------------------------------------------------
(* The server's own steps.                                                 *)

\* The server as the program: it sets up, runs, or is on its way out.
LEMMA QuietStep ==
  ASSUME SInv, CInv, NEW l, Goto(Server, l), pc[Server] \notin Serving,
         l \notin Serving \cup {"resume"},
         UNCHANGED <<open, server, ctl, st, faults, fuzzer>>,
         Died /\ area[Server] => /\ l \in {"run", "exited"}
                                 /\ at'[Server] = "exit" /\ area'[Server]
  PROVE  CInv'
<1>1. pc'[Server] = l /\ \A c \in Children : pc'[c] = pc[c]
  BY ProcsFacts DEF Goto, SInv, TypeOK
<1>2. UnbornRest' /\ ServerOpen'
  BY <1>1 DEF CInv, UnbornRest, ServerOpen, server, fuzzer
<1>3. ASSUME Attached PROVE Conversation'
  <2>1. OneChild'
    BY <1>1, <1>3, NobodyLives DEF OneChild, Alive, Serving
  <2>2. CASE fz = "hello" /\ Greeting /\ st = <<>>
    <3>1. Greeting'
      BY <1>1, <2>2 DEF Greeting, server, fuzzer
    <3> QED
      BY <2>1, <2>2, <3>1 DEF Conversation, fuzzer
  <2>3. CASE fz = "pid" /\ area[Server] /\ Died /\ ctl = <<>> /\ st \in {<<>>, <<PidWord(-1)>>}
    <3>1. PidAsked'
      BY <1>1, <2>3 DEF PidAsked, Died
    <3> QED
      BY <2>1, <2>3, <3>1 DEF Conversation, fuzzer
  <2> QED
    BY <1>3, <2>2, <2>3, NotServing
<1>4. ASSUME ~Attached PROVE Conversation'
  BY <1>4 DEF Attached, Gone, Conversation, fuzzer
<1> QED
  BY <1>2, <1>3, <1>4 DEF CInv

LEMMA ServerAsProgram ==
  ASSUME SInv, CInv,
         \/ MaybeLog(Server) \/ Setup(Server) \/ LoopFirst(Server)
         \/ Finish(Server) \/ Exit(Server) \/ Misbehave(Server)
  PROVE  CInv'
<1>0. Server \in Procs
  BY ProcsFacts
<1> DEFINE Quiet == UNCHANGED <<open, server, ctl, st, faults, fuzzer>>
<1>1. CASE MaybeLog(Server)
  <2>1. PICK l \in {"run", "setup"} : Goto(Server, l) /\ (area[Server] => l = "run")
    BY <1>1 DEF MaybeLog, Return
  <2>2. Quiet /\ area' = area /\ pc[Server] = "run" /\ (at' = at \/ at' = AfterReturn(Server))
    BY <1>1 DEF MaybeLog, Return
  <2>3. at[Server] = "exit" => at'[Server] = "exit"
    BY <1>0, <2>2 DEF AfterReturn, SInv, TypeOK
  <2> QED
    BY <2>1, <2>2, <2>3, QuietStep DEF Died, Serving
<1>2. CASE Setup(Server)
  <2>1. PICK l \in {"hello", "run"} : Goto(Server, l)
    BY <1>2 DEF Setup, Return
  <2>2. Quiet /\ pc[Server] = "setup"
    BY <1>2 DEF Setup
  <2> QED
    BY <2>1, <2>2, QuietStep DEF Died, Serving
<1>3. CASE LoopFirst(Server)
  <2>1. PICK l \in {"run", "crashed"} : Goto(Server, l)
    BY <1>0, <1>3, StandsStill DEF LoopFirst
  <2>2. Quiet /\ pc[Server] = "run" /\ at[Server] = "loop"
    BY <1>3 DEF LoopFirst
  <2> QED
    BY <2>1, <2>2, QuietStep DEF Died, Serving
<1>4. CASE Finish(Server)
  <2>1. PICK l \in {"run", "stopped"} : Goto(Server, l)
    BY <1>0, <1>4, StandsStill DEF Finish
  <2>2. Quiet /\ pc[Server] = "run" /\ at[Server] = "body"
    BY <1>4 DEF Finish
  <2> QED
    BY <2>1, <2>2, QuietStep DEF Died, Serving
<1>5. CASE Exit(Server)
  <2>1. Goto(Server, "exited") /\ Quiet /\ area' = area /\ at' = at /\ pc[Server] = "run"
    BY <1>5 DEF Exit, program
  <2> QED
    BY <2>1, QuietStep DEF Died, Serving
<1>6. CASE Misbehave(Server)
  <2>1. PICK l \in {"crashed", "looping"} : Goto(Server, l)
    BY <1>6 DEF Misbehave
  <2>2. Quiet /\ pc[Server] = "run" /\ at[Server] = "body"
    BY <1>6 DEF Misbehave
  <2> QED
    BY <2>1, <2>2, QuietStep DEF Died, Serving
<1> QED
  BY <1>1, <1>2, <1>3, <1>4, <1>5, <1>6

\* A step of the server that forks nothing and takes it to l, when the fuzzer is
\* not attached or what it waits for still holds.
LEMMA ServerStep ==
  ASSUME SInv, CInv, NEW l, Goto(Server, l), UNCHANGED <<open, born, fuzzer>>,
         l = "resume" => fz = "none",
         faults \subseteq faults',
         Attached /\ Attached' =>
           /\ OneChild'
           /\ fz = "hello" => Greeting'
           /\ fz = "idle" => AtRest'
           /\ fz = "pid" => PidAsked'
           /\ fz = "status" => StatusAsked'
  PROVE  CInv'
<1>1. pc'[Server] = l /\ \A c \in Children : pc'[c] = pc[c]
  BY ProcsFacts DEF Goto, SInv, TypeOK
<1>2. UnbornRest' /\ ServerOpen'
  BY <1>1 DEF CInv, UnbornRest, ServerOpen, fuzzer
<1>3. Attached' => Attached
  BY DEF Attached, Gone, fuzzer
<1> QED
  BY <1>2, <1>3 DEF CInv, Conversation, fuzzer

LEMMA ServerForkserver == ASSUME SInv, CInv, Forkserver(Server) PROVE CInv'
<1>0. Server \in Procs
  BY ProcsFacts
<1>1. /\ pc[Server] = "hello" /\ Write(Server, Hello, "request", "resume")
      /\ UNCHANGED <<open, born, fuzzer, faults, ctl>> /\ area'[Server]
  BY <1>0 DEF Forkserver, server, SInv, TypeOK
<1>2. PICK l \in {"resume", "killed", "request"} : Goto(Server, l) /\ (l = "resume" => ~open[Server])
  BY <1>1 DEF Write
<1>3. l = "resume" => fz = "none"
  BY <1>2 DEF CInv, ServerOpen
<1>4. ASSUME Attached PROVE fz = "hello" /\ Greeting' /\ OneChild'
  <2>1. fz = "hello" /\ Greeting /\ st = <<>>
    BY <1>1, <1>4, NotServing DEF Serving, Died
  <2>2. open[Server] /\ ~Gone
    BY <1>4, <2>1 DEF CInv, ServerOpen, Attached
  <2>3. Goto(Server, "request") /\ st' = <<Hello>>
    BY <1>1, <2>1, <2>2, OneWord, WordTypes DEF Write
  <2>4. pc'[Server] = "request" /\ \A c \in Children : pc'[c] = pc[c]
    BY <2>3, ProcsFacts DEF Goto, SInv, TypeOK
  <2>5. Greeting'
    BY <1>1, <2>1, <2>3, <2>4 DEF Greeting, fuzzer
  <2>6. OneChild'
    BY <1>1, <1>4, <2>4, NobodyLives DEF OneChild, Alive
  <2> QED
    BY <2>1, <2>5, <2>6
<1> QED
  BY <1>1, <1>2, <1>3, <1>4, ServerStep

LEMMA ServerReadRequest == ASSUME SInv, CInv, ReadRequest(Server) PROVE CInv'
<1>1. /\ pc[Server] = "request"
      /\ UNCHANGED <<open, born, forkPid, temp, fuzzer, faults, st, area, bitmap>>
  BY DEF ReadRequest, server
<1>2. PICK l \in {"fork", "run"} : Goto(Server, l)
  BY DEF ReadRequest, Die
<1>3. ASSUME Attached PROVE fz = "pid" /\ PidAsked' /\ OneChild'
  <2>1. ctl # <<>> /\ ctl' = Tail(ctl) /\ Goto(Server, "fork")
    BY <1>3 DEF Attached, ReadRequest
  <2>2. fz = "pid" /\ BeforeFork /\ area[Server]
    <3>1. fz \in {"hello", "idle", "pid", "status"}
      BY <1>3 DEF SInv, TypeOK, Attached, Gone
    <3> QED
      BY <1>1, <1>3, <2>1, <3>1
         DEF CInv, Conversation, Greeting, AtRest, PidAsked, AfterFork, StatusAsked, Died
  <2>3. ctl = <<"run">> /\ st = <<>> /\ bitmap = {}
    BY <1>1, <2>2 DEF BeforeFork
  <2>4. ctl' = <<>>
    BY <2>1, <2>3, OneWord
  <2>5. pc'[Server] = "fork" /\ \A c \in Children : pc'[c] = pc[c]
    BY <2>1, ProcsFacts DEF Goto, SInv, TypeOK
  <2>6. PidAsked'
    BY <1>1, <2>2, <2>3, <2>4, <2>5 DEF PidAsked, BeforeFork
  <2>7. OneChild'
    BY <1>1, <1>3, <2>5, NobodyLives DEF OneChild, Alive
  <2> QED
    BY <2>2, <2>6, <2>7
<1> QED
  BY <1>1, <1>2, <1>3, ServerStep

\* Where the conversation is when the server is in its loop, by the place it is at.
LEMMA AtFork ==
  ASSUME SInv, CInv, Attached, pc[Server] = "fork"
  PROVE  fz = "pid" /\ area[Server] /\ ctl = <<>> /\ st = <<>> /\ bitmap = {}
<1>1. fz \in {"hello", "idle", "pid", "status"}
  BY DEF SInv, TypeOK, Attached, Gone
<1> QED
  BY <1>1 DEF CInv, Conversation, Greeting, AtRest, PidAsked, BeforeFork, AfterFork, StatusAsked,
              Died, Serving

LEMMA AtSendPid ==
  ASSUME SInv, CInv, Attached, pc[Server] = "send_pid"
  PROVE  fz = "pid" /\ area[Server] /\ AfterFork /\ st = <<>>
<1>1. fz \in {"hello", "idle", "pid", "status"}
  BY DEF SInv, TypeOK, Attached, Gone
<1> QED
  BY <1>1 DEF CInv, Conversation, Greeting, AtRest, PidAsked, BeforeFork, AfterFork, StatusAsked,
              Died, Serving

LEMMA AtWait ==
  ASSUME SInv, CInv, Attached, pc[Server] = "wait"
  PROVE  \/ fz = "pid" /\ area[Server] /\ AfterFork /\ st = <<PidWord(forkPid)>>
         \/ fz = "status" /\ StatusAsked /\ st = <<>>
<1>1. fz \in {"hello", "idle", "pid", "status"}
  BY DEF SInv, TypeOK, Attached, Gone
<1> QED
  BY <1>1 DEF CInv, Conversation, Greeting, AtRest, PidAsked, BeforeFork, AfterFork, StatusAsked,
              Died, Serving

LEMMA AtSendStatus ==
  ASSUME SInv, CInv, Attached, pc[Server] = "send_status"
  PROVE  \/ /\ fz = "pid" /\ area[Server] /\ AfterFork /\ st = <<PidWord(forkPid)>>
            /\ forkPid = born => temp = pc[born]
         \/ fz = "status" /\ StatusAsked /\ st = <<>> /\ temp = pc[born]
<1>1. fz \in {"hello", "idle", "pid", "status"}
  BY DEF SInv, TypeOK, Attached, Gone
<1> QED
  BY <1>1 DEF CInv, Conversation, Greeting, AtRest, PidAsked, BeforeFork, AfterFork, StatusAsked,
              Died, Serving

LEMMA ServerFork == ASSUME SInv, CInv, Fork(Server) PROVE CInv'
<1> DEFINE c == born + 1
<1>1. /\ UNCHANGED <<ctl, st, bitmap, faults, fuzzer>> /\ pc[Server] = "fork"
      /\ born' = c /\ forkPid' = c
  BY DEF Fork
<1>2. c \in Children /\ c \in Procs /\ c # Server /\ Server \in Procs /\ born \in Nat
  BY RunsAssumption DEF Fork, SInv, TypeOK, Children, Procs, Server
<1>3. /\ \A q \in Procs : pc'[q] = IF q = Server THEN "send_pid" ELSE IF q = c THEN "resume" ELSE pc[q]
      /\ open'[Server] = open[Server] /\ area'[Server] = area[Server]
  BY <1>2 DEF Fork, SInv, TypeOK
<1>4. UnbornRest'
  <2> SUFFICES ASSUME NEW d \in Children, d > c PROVE pc'[d] = "unborn"
    BY <1>1 DEF UnbornRest
  <2>1. d > born /\ d # c /\ d # Server /\ d \in Procs
    BY <1>2, ProcsFacts DEF Children
  <2> QED
    BY <1>3, <2>1 DEF CInv, UnbornRest
<1>5. ServerOpen'
  BY <1>1, <1>2, <1>3 DEF CInv, ServerOpen, fuzzer
<1>6. ASSUME Attached PROVE Conversation'
  <2>1. fz = "pid" /\ area[Server] /\ ctl = <<>> /\ st = <<>> /\ bitmap = {}
    BY <1>1, <1>6, AtFork
  <2>2. OneChild'
    BY <1>1, <1>2, <1>3, <1>6, NobodyLives, ProcsFacts DEF OneChild, Alive
  <2>3. MapOfChild'
    BY <1>1, <1>2, <1>3, <2>1 DEF MapOfChild
  <2>4. PidAsked'
    BY <1>1, <1>2, <1>3, <2>1, <2>3 DEF PidAsked, AfterFork
  <2> QED
    BY <1>1, <2>1, <2>2, <2>4 DEF Conversation, fuzzer
<1>7. ASSUME ~Attached PROVE Conversation'
  BY <1>1, <1>7 DEF Attached, Gone, Conversation, fuzzer
<1> QED
  BY <1>4, <1>5, <1>6, <1>7 DEF CInv

LEMMA ServerForkFails == ASSUME SInv, CInv, ForkFails(Server) PROVE CInv'
<1>1. /\ pc[Server] = "fork" /\ faults' = faults \cup {"fork"}
      /\ UNCHANGED <<open, born, temp, fuzzer, ctl, st, area, bitmap>>
  BY DEF ForkFails
<1>2. PICK l \in {"run", "send_pid"} :
        /\ Goto(Server, l)
        /\ l = "run" => at' = [at EXCEPT ![Server] = "exit"]
        /\ l = "send_pid" => forkPid' = -1
  BY DEF ForkFails, Die
<1>3. /\ pc'[Server] = l /\ \A c \in Children : pc'[c] = pc[c]
      /\ l = "run" => at'[Server] = "exit"
  BY <1>2, ProcsFacts DEF Goto, SInv, TypeOK
<1>4. ASSUME Attached PROVE fz = "pid" /\ PidAsked' /\ OneChild'
  <2>1. fz = "pid" /\ area[Server] /\ ctl = <<>> /\ st = <<>>
    BY <1>1, <1>4, AtFork
  <2>2. PidAsked'
    <3>1. born' # -1
      BY <1>1 DEF SInv, TypeOK
    <3> QED
      BY <1>1, <1>2, <1>3, <2>1, <3>1 DEF PidAsked, AfterFork, Died
  <2>3. OneChild'
    BY <1>1, <1>3, <1>4, NobodyLives DEF OneChild, Alive
  <2> QED
    BY <2>1, <2>2, <2>3
<1> QED
  BY <1>1, <1>2, <1>4, ServerStep

LEMMA ServerSendPid == ASSUME SInv, CInv, SendPid(Server) PROVE CInv'
<1>1. /\ pc[Server] = "send_pid" /\ Write(Server, PidWord(forkPid), "wait", "exited")
      /\ UNCHANGED <<open, born, forkPid, temp, fuzzer, faults, ctl, area, bitmap>>
  BY DEF SendPid, server, program
<1>2. PICK l \in {"exited", "killed", "wait"} : Goto(Server, l)
  BY <1>1 DEF Write
<1>3. ASSUME Attached PROVE fz = "pid" /\ PidAsked' /\ OneChild'
  <2>1. fz = "pid" /\ area[Server] /\ AfterFork /\ st = <<>>
    BY <1>1, <1>3, AtSendPid
  <2>2. open[Server] /\ ~Gone
    BY <1>3, <2>1 DEF CInv, ServerOpen, Attached
  <2>3. PidWord(forkPid) \in Words
    BY WordTypes DEF SInv, TypeOK
  <2>4. Goto(Server, "wait") /\ st' = <<PidWord(forkPid)>>
    BY <1>1, <2>1, <2>2, <2>3, OneWord DEF Write
  <2>5. pc'[Server] = "wait" /\ \A c \in Children : pc'[c] = pc[c]
    BY <2>4, ProcsFacts DEF Goto, SInv, TypeOK
  <2>6. MapOfChild => MapOfChild'
    BY <1>1, <2>5 DEF MapOfChild
  <2>7. PidAsked'
    BY <1>1, <2>1, <2>4, <2>5, <2>6 DEF PidAsked, AfterFork
  <2>8. OneChild'
    BY <1>1, <1>3, <2>5 DEF CInv, Conversation, OneChild, Alive
  <2> QED
    BY <2>1, <2>7, <2>8
<1> QED
  BY <1>1, <1>2, <1>3, ServerStep

LEMMA ServerWaitpid == ASSUME SInv, CInv, Waitpid(Server) PROVE CInv'
<1>1. /\ pc[Server] = "wait" /\ Goto(Server, "send_status")
      /\ UNCHANGED <<open, born, forkPid, fuzzer, faults, ctl, st, area, bitmap>>
  BY DEF Waitpid, program
<1>2. PICK c \in 1..born : /\ c = forkPid \/ (forkPid = -1 /\ "signal" \in faults)
                           /\ pc[c] \in Ended /\ temp' = pc[c]
  BY DEF Waitpid
<1>3. pc'[Server] = "send_status" /\ \A d \in Children : pc'[d] = pc[d]
  BY <1>1, ProcsFacts DEF Goto, SInv, TypeOK
<1>4. ASSUME Attached
      PROVE  /\ OneChild' /\ fz \in {"pid", "status"}
             /\ fz = "pid" => PidAsked'
             /\ fz = "status" => StatusAsked'
  <2>1. c = forkPid /\ c # -1
    BY <1>2, <1>4 DEF Attached
  <2>2. c = born
    <3>1. forkPid \in {born, -1}
      BY <1>1, <1>4, AtWait DEF AfterFork, StatusAsked
    <3> QED
      BY <2>1, <3>1
  <2>3. c \in Children
    BY <1>2, RunsAssumption DEF SInv, TypeOK, Children
  <2>4. OneChild'
    <3>1. \A d \in Children : ~Alive(d)
      BY <1>2, <1>4, <2>2 DEF CInv, Conversation, OneChild, Alive
    <3> QED
      BY <1>3, <3>1 DEF OneChild, Alive
  <2>5. pc'[born] = pc[born] /\ temp' = pc'[born] /\ (MapOfChild => MapOfChild')
    BY <1>1, <1>2, <1>3, <2>2, <2>3 DEF MapOfChild
  <2>6. CASE fz = "pid" /\ area[Server] /\ AfterFork /\ st = <<PidWord(forkPid)>>
    <3>1. PidAsked'
      BY <1>1, <1>3, <2>1, <2>2, <2>5, <2>6 DEF PidAsked, AfterFork
    <3> QED
      BY <2>4, <2>6, <3>1
  <2>7. CASE fz = "status" /\ StatusAsked /\ st = <<>>
    <3>1. StatusAsked'
      BY <1>1, <1>3, <2>5, <2>7 DEF StatusAsked, fuzzer
    <3> QED
      BY <2>4, <2>7, <3>1
  <2> QED
    BY <1>1, <1>4, <2>6, <2>7, AtWait
<1> QED
  BY <1>1, <1>4, ServerStep

LEMMA ServerWaitpidFails == ASSUME SInv, CInv, WaitpidFails(Server) PROVE CInv'
<1>1. /\ pc[Server] = "wait"
      /\ UNCHANGED <<open, born, forkPid, temp, fuzzer, ctl, st, area, bitmap>>
  BY DEF WaitpidFails, server
<1>2. PICK l \in {"run", "send_status"} :
        Goto(Server, l) /\ (l = "run" => at' = [at EXCEPT ![Server] = "exit"])
  BY DEF WaitpidFails, Die
<1>3. /\ pc'[Server] = l /\ \A d \in Children : pc'[d] = pc[d]
      /\ l = "run" => at'[Server] = "exit"
  BY <1>2, ProcsFacts DEF Goto, SInv, TypeOK
<1>4. faults \subseteq faults'
  BY DEF WaitpidFails
<1>5. ASSUME Attached, Attached' PROVE fz = "pid" /\ PidAsked' /\ OneChild'
  <2>1. forkPid = -1 /\ \A d \in Children : ~Alive(d)
    BY <1>5 DEF WaitpidFails, Attached
  <2>2. born # -1
    BY DEF SInv, TypeOK
  <2>3. fz = "pid" /\ area[Server] /\ AfterFork /\ st = <<PidWord(forkPid)>>
    BY <1>1, <1>5, <2>1, <2>2, AtWait DEF StatusAsked
  <2>4. PidAsked'
    BY <1>1, <1>3, <2>1, <2>2, <2>3 DEF PidAsked, AfterFork, Died
  <2>5. OneChild'
    BY <1>3, <2>1 DEF OneChild, Alive
  <2> QED
    BY <2>3, <2>4, <2>5
<1> QED
  BY <1>1, <1>2, <1>4, <1>5, ServerStep

LEMMA ServerSendStatus == ASSUME SInv, CInv, SendStatus(Server) PROVE CInv'
<1>1. /\ pc[Server] = "send_status" /\ Write(Server, StatWord(temp), "request", "exited")
      /\ UNCHANGED <<open, born, forkPid, temp, fuzzer, faults, ctl, area, bitmap>>
  BY DEF SendStatus, server, program
<1>2. PICK l \in {"exited", "killed", "request"} : Goto(Server, l)
  BY <1>1 DEF Write
<1>3. ASSUME Attached
      PROVE  /\ OneChild' /\ fz \in {"pid", "status"}
             /\ fz = "pid" => PidAsked'
             /\ fz = "status" => StatusAsked'
  <2>1. open[Server] /\ ~Gone
    BY <1>3 DEF CInv, ServerOpen, Attached, Gone
  <2>2. PidWord(forkPid) \in Words /\ StatWord(temp) \in Words
    BY WordTypes DEF SInv, TypeOK
  <2>3. Goto(Server, "request") /\ st' = Append(st, StatWord(temp))
    BY <1>1, <2>1 DEF Write
  <2>4. pc'[Server] = "request" /\ \A d \in Children : pc'[d] = pc[d]
    BY <2>3, ProcsFacts DEF Goto, SInv, TypeOK
  <2>5. OneChild'
    BY <1>1, <1>3, <2>4, NobodyLives DEF OneChild, Alive
  <2>6. MapOfChild => MapOfChild' /\ pc'[born] = pc[born]
    BY <1>1, <2>4 DEF MapOfChild
  <2>7. CASE /\ fz = "pid" /\ area[Server] /\ AfterFork /\ st = <<PidWord(forkPid)>>
             /\ forkPid = born => temp = pc[born]
    <3>1. st' = <<PidWord(forkPid), StatWord(temp)>>
      BY <2>2, <2>3, <2>7, TwoWords
    <3>2. /\ ctl = <<>> /\ forkPid \in {born, -1}
          /\ forkPid = born => MapOfChild' /\ temp = pc'[born]
      BY <2>6, <2>7 DEF AfterFork
    <3>3. PidAsked'
      BY <1>1, <2>4, <2>7, <3>1, <3>2 DEF PidAsked, AfterFork
    <3> QED
      BY <2>5, <2>7, <3>3
  <2>8. CASE fz = "status" /\ StatusAsked /\ st = <<>> /\ temp = pc[born]
    <3>1. st' = <<StatWord(temp)>>
      BY <2>2, <2>3, <2>8, OneWord
    <3>2. MapOfChild' /\ temp = pc'[born]
      BY <2>6, <2>8 DEF StatusAsked
    <3>3. StatusAsked'
      BY <1>1, <2>4, <2>8, <3>1, <3>2 DEF StatusAsked, fuzzer
    <3> QED
      BY <2>5, <2>8, <3>3
  <2> QED
    BY <1>1, <1>3, <2>7, <2>8, AtSendStatus
<1> QED
  BY <1>1, <1>2, <1>3, ServerStep

LEMMA ServerConverses == ASSUME SInv, CInv, Process(Server) PROVE CInv'
<1>1. CASE ForkResume(Server)
  <2>1. pc[Server] = "resume"
        /\ UNCHANGED <<born, fuzzer>> /\ pc' = [pc EXCEPT ![Server] = "run"]
    BY <1>1 DEF ForkResume, server, Return, Goto
  <2>2. fz = "none"
    BY <2>1 DEF CInv, ServerOpen
  <2>3. UnbornRest'
    BY <2>1, ProcsFacts DEF CInv, UnbornRest, SInv, TypeOK
  <2> QED
    BY <2>1, <2>2, <2>3 DEF CInv, ServerOpen, Conversation, Attached, Gone, fuzzer
<1> QED
  BY <1>1, ServerAsProgram, ServerForkserver, ServerReadRequest, ServerFork, ServerForkFails,
     ServerSendPid, ServerWaitpid, ServerWaitpidFails, ServerSendStatus DEF Process
-----------------------------------------------------------------------------
(* The fuzzer's own steps.                                                 *)

\* A step of the fuzzer that touches no process.
LEMMA FuzzerStep ==
  ASSUME CInv, UNCHANGED <<program, pc, open, server, faults>>, fz' # "none", fz # "none",
         Attached' => fz' # "hello" /\ (fz' = "idle" => AtRest') /\ (fz' = "pid" => PidAsked')
                                    /\ (fz' = "status" => StatusAsked'),
         ~Gone
  PROVE  CInv'
<1>1. UnbornRest' /\ ServerOpen'
  BY DEF CInv, UnbornRest, ServerOpen, server
<1>2. Attached' => Attached /\ OneChild'
  BY DEF CInv, Conversation, Attached, OneChild, Alive, server
<1> QED
  BY <1>1, <1>2 DEF CInv, Conversation

LEMMA HelloConverses == ASSUME SInv, CInv, FzHello PROVE CInv'
<1>1. /\ fz = "hello" /\ fz' = "idle" /\ st # <<>> /\ st' = Tail(st) /\ ~Gone
      /\ UNCHANGED <<program, pc, open, server, ctl, bitmap, faults, last>>
  BY DEF FzHello, Gone
<1>2. ASSUME Attached PROVE AtRest'
  <2>1. Greeting /\ st = <<Hello>> /\ pc[Server] = "request" /\ area[Server]
    BY <1>1, <1>2 DEF CInv, Conversation, Greeting
  <2>2. st' = <<>>
    BY <1>1, <2>1, OneWord, WordTypes
  <2> QED
    BY <1>1, <2>1, <2>2 DEF AtRest, Greeting, program
<1>3. Attached' => Attached
  BY <1>1 DEF Attached
<1> QED
  BY <1>1, <1>2, <1>3, FuzzerStep

LEMMA RequestConverses == ASSUME SInv, CInv, FzRequest PROVE CInv'
<1>1. /\ fz = "idle" /\ fz' \in {"pid", "aborted"} /\ bitmap' = {} /\ ~Gone
      /\ fz' = "pid" => ctl' = Append(ctl, "run")
      /\ UNCHANGED <<program, pc, open, server, st, faults>>
  BY DEF FzRequest, Gone
<1>2. ASSUME Attached, fz' = "pid" PROVE PidAsked'
  <2>1. AtRest
    BY <1>1, <1>2 DEF CInv, Conversation
  <2>2. ctl' = <<"run">>
    <3>1. ctl = <<>> /\ "run" \in {"run"}
      BY <2>1 DEF AtRest
    <3> QED
      BY <1>1, <1>2, <3>1, OneWord
  <2> QED
    BY <1>1, <2>1, <2>2 DEF AtRest, PidAsked, BeforeFork, program
<1>3. Attached' => Attached
  BY <1>1 DEF Attached
<1> QED
  BY <1>1, <1>2, <1>3, FuzzerStep

LEMMA PidConverses == ASSUME SInv, CInv, FzPid PROVE CInv'
<1>1. /\ fz = "pid" /\ st # <<>> /\ st' = Tail(st) /\ fzPid' = Head(st).pid /\ ~Gone
      /\ fz' = IF Head(st).pid > 0 THEN "status" ELSE "aborted"
      /\ UNCHANGED <<program, pc, open, server, ctl, bitmap, faults, last>>
  BY DEF FzPid, Gone
<1>2. ASSUME Attached, fz' = "status" PROVE StatusAsked'
  <2>1. PidAsked /\ Head(st).pid > 0
    BY <1>1, <1>2 DEF CInv, Conversation
  <2>2. /\ PidWord(forkPid) \in Words /\ PidWord(-1) \in Words /\ StatWord(temp) \in Words
        /\ \A n : PidWord(n).pid = n
    BY WordTypes DEF SInv, TypeOK, PidWord
  <2>3. st # <<PidWord(-1)>>
    <3>1. st = <<PidWord(-1)>> => Head(st) = PidWord(-1)
      BY <2>2, OneWord
    <3> QED
      BY <2>1, <2>2, <3>1
  <2>4. AfterFork /\ area[Server]
    BY <1>1, <2>1, <2>3 DEF PidAsked, BeforeFork
  <2>5. Head(st) = PidWord(forkPid)
    BY <1>1, <2>2, <2>4, OneWord, TwoWords DEF AfterFork
  <2>6. forkPid = born /\ MapOfChild /\ fzPid' = born
    BY <1>1, <2>1, <2>2, <2>4, <2>5 DEF AfterFork
  <2>7. CASE pc[Server] = "wait" /\ st = <<PidWord(forkPid)>>
    <3>1. st' = <<>>
      BY <1>1, <2>2, <2>7, OneWord
    <3> QED
      BY <1>1, <2>4, <2>6, <2>7, <3>1 DEF StatusAsked, AfterFork, MapOfChild, program, server
  <2>8. CASE temp = pc[born] /\ pc[Server] = "send_status" /\ st = <<PidWord(forkPid)>>
    <3>1. st' = <<>>
      BY <1>1, <2>2, <2>8, OneWord
    <3> QED
      BY <1>1, <2>4, <2>6, <2>8, <3>1 DEF StatusAsked, AfterFork, MapOfChild, program, server
  <2>9. CASE temp = pc[born] /\ pc[Server] = "request" /\ st = <<PidWord(forkPid), StatWord(temp)>>
    <3>1. st' = <<StatWord(temp)>>
      BY <1>1, <2>2, <2>9, TwoWords
    <3> QED
      BY <1>1, <2>4, <2>6, <2>9, <3>1 DEF StatusAsked, AfterFork, MapOfChild, program, server
  <2> QED
    BY <1>1, <2>4, <2>6, <2>7, <2>8, <2>9 DEF AfterFork
<1>3. Attached' => Attached
  BY <1>1 DEF Attached
<1> QED
  BY <1>1, <1>2, <1>3, FuzzerStep

LEMMA StatusConverses == ASSUME SInv, CInv, FzStatus PROVE CInv'
<1>1. /\ fz = "status" /\ fz' = "idle" /\ st # <<>> /\ st' = Tail(st) /\ ~Gone
      /\ last'.pid = fzPid /\ last'.status = Head(st).status
      /\ UNCHANGED <<program, pc, open, server, ctl, bitmap, faults>>
  BY DEF FzStatus, Gone
<1>2. ASSUME Attached PROVE AtRest'
  <2>1. StatusAsked /\ st = <<StatWord(temp)>> /\ pc[Server] = "request" /\ temp = pc[born]
    BY <1>1, <1>2 DEF CInv, Conversation, StatusAsked
  <2>2. st' = <<>> /\ Head(st) = StatWord(temp) /\ StatWord(temp).status = temp
    BY <1>1, <2>1, OneWord, WordTypes DEF SInv, TypeOK, StatWord
  <2> QED
    BY <1>1, <2>1, <2>2 DEF AtRest, StatusAsked, MapOfChild, program, server
<1>3. Attached' => Attached
  BY <1>1 DEF Attached
<1> QED
  BY <1>1, <1>2, <1>3, FuzzerStep

LEMMA TimeoutConverses == ASSUME SInv, CInv, FzTimeout PROVE CInv'
<1>1. /\ fz = "status" /\ pc' = Killed({fzPid})
      /\ UNCHANGED <<program, open, server, ctl, st, bitmap, faults, fz, fzPid, last>>
  BY DEF FzTimeout
<1>2. fzPid \in Children
  BY <1>1 DEF SInv, PidKnown
<1>3. /\ pc'[Server] = pc[Server]
      /\ \A c \in Children : pc'[c] = IF c = fzPid /\ Alive(c) THEN "killed" ELSE pc[c]
  BY <1>1, <1>2, ProcsFacts DEF Killed
<1>4. UnbornRest' /\ ServerOpen'
  BY <1>1, <1>3 DEF CInv, UnbornRest, ServerOpen, Alive, server
<1>5. ASSUME Attached PROVE OneChild' /\ StatusAsked'
  <2>1. OneChild'
    BY <1>1, <1>3, <1>5 DEF CInv, Conversation, OneChild, Alive, Ended, server
  <2>2. StatusAsked
    BY <1>1, <1>5 DEF CInv, Conversation
  <2>3. MapOfChild'
    BY <1>1, <1>3, <2>2 DEF StatusAsked, MapOfChild, server
  <2>4. pc[Server] # "wait" => pc'[born] = pc[born]
    <3>1. ASSUME pc[Server] # "wait" PROVE ~Alive(born)
      BY <1>5, <2>2, <3>1, NobodyLives DEF StatusAsked, MapOfChild
    <3>2. born \in Children
      BY <2>2 DEF StatusAsked, MapOfChild
    <3> QED
      BY <1>3, <3>1, <3>2
  <2>5. StatusAsked'
    BY <1>1, <1>3, <2>2, <2>3, <2>4 DEF StatusAsked, program, server
  <2> QED
    BY <2>1, <2>5
<1>6. Attached' => Attached
  BY <1>1 DEF Attached, Gone
<1> QED
  BY <1>1, <1>4, <1>5, <1>6 DEF CInv, Conversation

LEMMA StopConverses == ASSUME SInv, CInv, FzStop \/ FzEndOfFile PROVE CInv'
<1>1. /\ fz' \in {"stopped", "aborted"} /\ fz # "none"
      /\ UNCHANGED <<program, open, server>>
  BY DEF FzStop, FzEndOfFile, Gone
<1>2. \A q \in Procs : pc'[q] = pc[q] \/ (Alive(q) /\ pc'[q] = "killed")
  BY DEF FzStop, FzEndOfFile, Killed
<1>3. UnbornRest' /\ ServerOpen'
  BY <1>1, <1>2, ProcsFacts DEF CInv, UnbornRest, ServerOpen, Alive, server
<1> QED
  BY <1>1, <1>3 DEF CInv, Conversation, Attached, Gone
-----------------------------------------------------------------------------
LEMMA StepConverses == SInv /\ CInv /\ [Next]_vars => CInv'
<1> SUFFICES ASSUME SInv, CInv, [Next]_vars PROVE CInv'
  OBVIOUS
<1>1. CASE UNCHANGED vars
  <2>1. UNCHANGED <<cycles, shm, at, area, failed, pc, open, born, forkPid, temp, ctl, st, bitmap,
                    faults, fz, fzPid, last>>
    BY <1>1 DEF vars, program, server, fuzzer
  <2>2. UnbornRest' /\ ServerOpen' /\ (Attached' => Attached)
    BY <2>1 DEF CInv, UnbornRest, ServerOpen, Attached, Gone
  <2>3. OneChild => OneChild'
    BY <2>1 DEF OneChild, Alive
  <2>4. (Greeting => Greeting') /\ (AtRest => AtRest')
    BY <2>1 DEF Greeting, AtRest, MapOfChild
  <2>5. (PidAsked => PidAsked') /\ (StatusAsked => StatusAsked')
    BY <2>1 DEF PidAsked, BeforeFork, AfterFork, Died, StatusAsked, MapOfChild
  <2> QED
    BY <2>1, <2>2, <2>3, <2>4, <2>5 DEF CInv, Conversation
<1>2. ASSUME NEW p \in Procs, Process(p) PROVE CInv'
  BY <1>2, ProcsFacts, ServerConverses, ChildConverses
<1> QED
  BY <1>1, <1>2, HelloConverses, RequestConverses, PidConverses, StatusConverses,
     TimeoutConverses, StopConverses DEF Next, Reads

LEMMA Talks == Spec => [](SInv /\ CInv)
BY InitSInv, StepKeeps, InitCInv, StepConverses, PTL DEF Spec

\* At rest with a result, and no interrupted wait behind it.
LEMMA ResultFacts ==
  ASSUME SInv, CInv, HasResult, "signal" \notin faults
  PROVE  /\ last.pid = born /\ pc[born] = last.status /\ MapOfChild
         /\ \A c \in Children : ~Alive(c)
<1>1. Attached /\ fz = "idle" /\ last # NoResult
  BY DEF HasResult, Attached, Gone
<1>2. AtRest
  BY <1>1 DEF CInv, Conversation
<1> QED
  BY <1>1, <1>2, NobodyLives DEF AtRest

\* However many runs are asked for, and however the children end, time out or the
\* fork fails: the result the fuzzer holds names the child that was forked last,
\* and its status is how that child ended (lines 261-309).
THEOREM ResultsBelong == Spec => []ResultIsOfRun
<1>1. SInv /\ CInv => ResultIsOfRun
  BY ResultFacts DEF ResultIsOfRun
<1> QED
  BY Talks, <1>1, PTL

\* While the fuzzer looks at a result, the map holds the hits of that run only,
\* no child is left that could still write to it, and a child that exited has
\* left its mark (lines 211-231, 261-309).
THEOREM MapsBelong == Spec => []MapIsOfRun
<1>1. SInv /\ CInv => MapIsOfRun
  BY ResultFacts DEF MapIsOfRun, MapOfChild
<1> QED
  BY Talks, <1>1, PTL

=============================================================================
