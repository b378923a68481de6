----------------------- MODULE CommandExecutor_proofs -----------------------
(***************************************************************************)
(* What an execution of a command leaves behind, and what its result says,  *)
(* for any set of processes and any number of failing calls. The processes  *)
(* act between any two calls of the future, so the argument first collects  *)
(* what they can never undo (Tame), and then follows the future from call   *)
(* to call.                                                                 *)
(***************************************************************************)
EXTENDS CommandExecutor, TLAPS

Supervising ==
  {"called", "poll_cancel", "poll_deadline", "poll_child", "descendants", "term", "grace",
   "probe", "kill", "kill_root", "reap", "settle"}
Stopping == {"descendants", "term", "grace", "probe", "kill", "kill_root", "reap", "settle"}
Failed == {"wait", "inspect", "signal", "kill", "survived"}

\* SIGKILL has reached every member of the group that it may reach.
Killed == \A p \in Group : Running(p) => temper[p] = "foreign"
TwoFailed == failures >= 2

\* The processes and the drains.
Sane ==
  /\ \A p \in Procs : life[p] = "absent" => p \notin member
  /\ \A s \in joined : drain[s] # "reading"
  /\ late => cancelled

\* The future while it supervises.
Underway ==
  /\ at = "called" => ~Spawned
  /\ at \in Supervising => error = "none"
  /\ at \in {"descendants", "settle"} => RootReaped
  /\ at \in {"kill_root", "reap", "settle"} => Killed

\* The future once a call failed.
Abandoned ==
  /\ at \in {"cleanup", "cleanup_reap"} =>
       error \in Failed /\ (failures >= 1 \/ (RootReaped /\ Killed))
  /\ at = "cleanup_reap" => (Running(Root) => temper[Root] = "foreign" \/ TwoFailed)
  /\ at = "observe" => error \in Failed
  /\ at \in {"observe", "drain", "returned"} /\ error \in Failed => RootReaped \/ TwoFailed
  /\ at \in {"cleanup_reap", "observe", "drain", "returned"} /\ error \in Failed =>
       Killed \/ TwoFailed

\* The future once it has nothing left to supervise.
Ending ==
  /\ at \in {"drain", "returned"} /\ Spawned /\ error \notin Failed => RootReaped /\ Group = {}
  /\ at = "returned" /\ Spawned => joined = Streams

\* Why it ended.
Caused ==
  /\ at \in Stopping => cause # "none"
  /\ at \in {"drain", "returned"} /\ error = "none" => cause # "none"
  /\ cause = "cancelled" => cancelled
  /\ cause = "timed_out" => expired /\ ~late

IInv == TypeOK /\ Sane /\ Underway /\ Abandoned /\ Ending /\ Caused

-----------------------------------------------------------------------------
(* What no step undoes *)

\* A process that is reaped stays reaped; a group without members gets none; what
\* is killed, or may not be killed, has only descendants that may not be killed.
Tame ==
  /\ RootReaped => RootReaped'
  /\ Spawned => Spawned'
  /\ Group = {} => Group' = {}
  /\ Killed => Killed'
  /\ \A p \in Procs : life'[p] = "absent" => life[p] = "absent" /\ p \notin member'
  /\ (Running(Root) => temper[Root] = "foreign") => (Running(Root)' => temper'[Root] = "foreign")

\* A step of the processes is tame, and starts no shell.
LEMMA ProcessesTame ==
  ASSUME TypeOK, Sane, Processes
  PROVE  Tame /\ (Spawned' => Spawned)
<1> USE RootAssumption DEF TypeOK, ProcessTypeOK, Sane, Tame, Group, Killed, Running, Spawned, RootReaped
<1>1. PICK p \in Procs :
        \/ \E q \in Procs : Fork(p, q)
        \/ \E s \in Streams : ClosePipe(p, s)
        \/ Leave(p) \/ Harden(p) \/ Exit(p) \/ Dies(p) \/ Reaped(p)
  BY DEF Processes
<1>2. CASE \E q \in Procs : Fork(p, q)
  BY <1>2 DEF Fork
<1>3. CASE \E s \in Streams : ClosePipe(p, s)
  BY <1>3 DEF ClosePipe
<1>4. CASE Leave(p)
  BY <1>4 DEF Leave
<1>5. CASE Harden(p)
  BY <1>5 DEF Harden
<1>6. CASE Exit(p)
  BY <1>6 DEF Exit, Ends
<1>7. CASE Dies(p)
  BY <1>7 DEF Dies, Ends
<1>8. CASE Reaped(p)
  BY <1>8 DEF Reaped
<1> QED
  BY <1>1, <1>2, <1>3, <1>4, <1>5, <1>6, <1>7, <1>8

\* So is a signal, whomever it reaches.
LEMMA SignalTame ==
  ASSUME TypeOK, Sane, NEW signal, NEW targets,
         life' = Struck(signal, targets), UNCHANGED <<member, temper>>
  PROVE  Tame /\ (Spawned' => Spawned)
BY RootAssumption
   DEF TypeOK, ProcessTypeOK, Sane, Tame, Group, Killed, Running, Spawned, RootReaped, Struck

\* And the wait that reaps the shell.
LEMMA ReapTame ==
  ASSUME TypeOK, Sane, ReapRoot, UNCHANGED <<member, temper>>
  PROVE  Tame /\ RootReaped' /\ Spawned /\ Spawned'
BY RootAssumption
   DEF TypeOK, ProcessTypeOK, Sane, Tame, Group, Killed, Running, Spawned, RootReaped, ReapRoot

LEMMA IdleTame ==
  ASSUME TypeOK, Sane, UNCHANGED <<life, member, temper>>
  PROVE  Tame /\ (Spawned' => Spawned)
BY DEF TypeOK, ProcessTypeOK, Sane, Tame, Group, Killed, Running, Spawned, RootReaped
-----------------------------------------------------------------------------
(* Type correctness *)

LEMMA ProcessesTyped == ASSUME TypeOK, Processes PROVE TypeOK'
<1> USE DEF TypeOK, ProcessTypeOK, FutureTypeOK, DrainTypeOK, futureVars, stopVars, drainVars
<1>1. PICK p \in Procs :
        \/ \E q \in Procs : Fork(p, q)
        \/ \E s \in Streams : ClosePipe(p, s)
        \/ Leave(p) \/ Harden(p) \/ Exit(p) \/ Dies(p) \/ Reaped(p)
  BY DEF Processes
<1>2. CASE \E q \in Procs : Fork(p, q)
  BY <1>2 DEF Fork, Running
<1>3. CASE \E s \in Streams : ClosePipe(p, s)
  BY <1>3 DEF ClosePipe, Running
<1>4. CASE Leave(p)
  BY <1>4 DEF Leave
<1>5. CASE Harden(p)
  BY <1>5 DEF Harden
<1>6. CASE Exit(p) \/ Dies(p)
  BY <1>6 DEF Exit, Dies, Ends
<1>7. CASE Reaped(p)
  BY <1>7 DEF Reaped
<1> QED
  BY <1>1, <1>2, <1>3, <1>4, <1>5, <1>6, <1>7

\* A signal and a wait leave each process in a state it can be in.
LEMMA StruckTyped ==
  ASSUME ProcessTypeOK, NEW signal, NEW targets PROVE
    Struck(signal, targets) \in [Procs -> {"absent", "live", "struck", "zombie", "gone"}]
BY DEF ProcessTypeOK, Struck

LEMMA RootTyped ==
  ASSUME ProcessTypeOK, NEW l \in {"live", "gone"} PROVE
    [life EXCEPT ![Root] = l] \in [Procs -> {"absent", "live", "struck", "zombie", "gone"}]
BY RootAssumption DEF ProcessTypeOK

\* What the future does to the processes: it spawns the shell, reaps it or sends a
\* signal to some of the group and the shell.
LEMMA FutureOnProcesses ==
  ASSUME Future
  PROVE  \/ UNCHANGED processVars
         \/ at = "called" /\ Spawn
         \/ ReapRoot /\ UNCHANGED <<member, temper, holds>>
         \/ /\ \E signal \in {"TERM", "KILL"}, targets \in SUBSET (Group \cup {Root}) :
                 life' = Struck(signal, targets)
            /\ UNCHANGED <<member, temper, holds>>
<1>1. ASSUME Terminate \/ Kill
      PROVE  \/ UNCHANGED processVars
             \/ /\ \E signal \in {"TERM", "KILL"} : life' = Struck(signal, Reachable)
                /\ UNCHANGED <<member, temper, holds>>
  BY <1>1 DEF Terminate, Kill, SignalGroup, Faulty, processVars
<1>2. Reachable \subseteq Group
  BY DEF Reachable
<1>3. ASSUME CleanUp
      PROVE  /\ \E targets \in SUBSET (Group \cup {Root}) : life' = Struck("KILL", targets)
             /\ UNCHANGED <<member, temper, holds>>
  BY <1>2, <1>3 DEF CleanUp
<1>4. CASE ~Terminate /\ ~Kill /\ ~CleanUp
  BY <1>4 DEF Future, Start, SpawnFails, PollCancelled, PollDeadline, PollChild,
      FindDescendants, TryReap, TryReapFails, ProbeGroup, KillRoot, Reap, Settle,
      CleanUpReap, Observe, JoinDrain, SealDrains, Return, Faulty, processVars
<1> QED
  BY <1>1, <1>2, <1>3, <1>4

\* Its own variables keep their types, one at a time.
LEMMA FutureOnItself ==
  ASSUME FutureTypeOK, Future
  PROVE  FutureTypeOK' /\ stopVars' = stopVars
<1>1. at' \in Calls /\ elapsed' \in BOOLEAN
  BY DEF FutureTypeOK, Calls, Timed, Goto, Future, Start, Spawn, SpawnFails, PollCancelled, PollDeadline, PollChild,
      FindDescendants, Terminate, TryReap, TryReapFails, ProbeGroup, Kill, KillRoot, Reap,
      Settle, CleanUp, CleanUpReap, Observe, JoinDrain, SealDrains, Return, SignalGroup,
      Faulty, Abandon, futureVars
<1>2. /\ cause' \in {"none", "exited", "timed_out", "cancelled"}
      /\ error' \in Errors
  BY DEF FutureTypeOK, Errors, DeadlineCause, Future, Start, Spawn, SpawnFails, PollCancelled, PollDeadline, PollChild,
      FindDescendants, Terminate, TryReap, TryReapFails, ProbeGroup, Kill, KillRoot, Reap,
      Settle, CleanUp, CleanUpReap, Observe, JoinDrain, SealDrains, Return, SignalGroup,
      Faulty, Abandon, futureVars
<1>3. failures' \in Nat
  BY DEF FutureTypeOK, Future, Start, Spawn, SpawnFails, PollCancelled, PollDeadline, PollChild,
      FindDescendants, Terminate, TryReap, TryReapFails, ProbeGroup, Kill, KillRoot, Reap,
      Settle, CleanUp, CleanUpReap, Observe, JoinDrain, SealDrains, Return, SignalGroup,
      Faulty, Abandon, futureVars
<1>4. stopVars' = stopVars
  BY DEF Future, Start, Spawn, SpawnFails, PollCancelled, PollDeadline, PollChild,
      FindDescendants, Terminate, TryReap, TryReapFails, ProbeGroup, Kill, KillRoot, Reap,
      Settle, CleanUp, CleanUpReap, Observe, JoinDrain, SealDrains, Return, SignalGroup,
      Faulty, Abandon
<1> QED
  BY <1>1, <1>2, <1>3, <1>4 DEF FutureTypeOK, stopVars

\* Only the end of execute touches the drains.
LEMMA FutureOnDrains ==
  ASSUME Future
  PROVE  UNCHANGED drainVars \/ (\E s \in Streams : JoinDrain(s)) \/ SealDrains
BY DEF Future, Start, PollCancelled, PollDeadline, PollChild, FindDescendants, Terminate,
   TryReap, TryReapFails, ProbeGroup, Kill, KillRoot, Reap, Settle, CleanUp, CleanUpReap,
   Observe, Return, SignalGroup, Faulty

LEMMA FutureTyped == ASSUME TypeOK, Future PROVE TypeOK'
<1>1. ProcessTypeOK'
  <2>1. CASE UNCHANGED processVars
    BY <2>1 DEF TypeOK, ProcessTypeOK, processVars
  <2>2. CASE at = "called" /\ Spawn
    BY <2>2, RootTyped, RootAssumption DEF TypeOK, ProcessTypeOK, Spawn
  <2>3. CASE ReapRoot /\ UNCHANGED <<member, temper, holds>>
    BY <2>3, RootTyped DEF TypeOK, ProcessTypeOK, ReapRoot
  <2>4. ASSUME NEW signal, NEW targets, life' = Struck(signal, targets),
               UNCHANGED <<member, temper, holds>>
        PROVE  ProcessTypeOK'
    BY <2>4, StruckTyped DEF TypeOK, ProcessTypeOK
  <2> QED
    BY <2>1, <2>2, <2>3, <2>4, FutureOnProcesses
<1>2. FutureTypeOK'
  BY FutureOnItself DEF TypeOK
<1>3. DrainTypeOK'
  BY FutureOnDrains DEF TypeOK, DrainTypeOK, drainVars, JoinDrain, SealDrains
<1> QED
  BY <1>1, <1>2, <1>3 DEF TypeOK

\* The caller, the timers and the drains.
LEMMA OthersTyped ==
  ASSUME TypeOK, Cancel \/ Expire \/ Elapse \/ (\E s \in Streams : DrainEnds(s)) \/ UNCHANGED vars
  PROVE  TypeOK'
<1>1. ProcessTypeOK'
  BY DEF TypeOK, ProcessTypeOK, Cancel, Expire, Elapse, DrainEnds, vars, processVars
<1>2. FutureTypeOK'
  <2>1. CASE Cancel \/ Expire \/ Elapse \/ UNCHANGED vars
    BY <2>1 DEF TypeOK, FutureTypeOK, Cancel, Expire, Elapse, vars, futureVars, stopVars
  <2>2. ASSUME NEW s \in Streams, DrainEnds(s)
        PROVE  FutureTypeOK'
    <3>1. failures' \in Nat
      BY <2>2 DEF DrainEnds, TypeOK, FutureTypeOK
    <3> QED
      BY <2>2, <3>1 DEF DrainEnds, TypeOK, FutureTypeOK, futureVars, stopVars
  <2> QED
    BY <2>1, <2>2
<1>3. DrainTypeOK'
  <2>1. CASE Cancel \/ Expire \/ Elapse \/ UNCHANGED vars
    BY <2>1 DEF TypeOK, DrainTypeOK, Cancel, Expire, Elapse, vars, drainVars
  <2>2. ASSUME NEW s \in Streams, DrainEnds(s)
        PROVE  DrainTypeOK'
    BY <2>2 DEF DrainEnds, TypeOK, DrainTypeOK
  <2> QED
    BY <2>1, <2>2
<1> QED
  BY <1>1, <1>2, <1>3 DEF TypeOK

LEMMA TypeInitially == Init => TypeOK
<1>1. Init => ProcessTypeOK
  BY DEF Init, ProcessTypeOK
<1>2. Init => FutureTypeOK
  <2>1. Init => at \in Calls /\ error \in Errors
    BY DEF Init, Calls, Errors
  <2>2. Init => failures \in Nat
    BY DEF Init
  <2>3. Init => elapsed \in BOOLEAN /\ cancelled \in BOOLEAN
    BY DEF Init
  <2>4. Init => expired \in BOOLEAN /\ late \in BOOLEAN
    BY DEF Init
  <2>5. Init => cause \in {"none", "exited", "timed_out", "cancelled"}
    BY DEF Init
  <2> QED
    BY <2>1, <2>2, <2>3, <2>4, <2>5 DEF FutureTypeOK
<1>3. Init => DrainTypeOK
  BY DEF Init, DrainTypeOK
<1> QED
  BY <1>1, <1>2, <1>3 DEF TypeOK

\* Every variable keeps the type the code gives it.
THEOREM TypeCorrect == Spec => []TypeOK
<1>1. TypeOK /\ [Next]_vars => TypeOK'
  BY ProcessesTyped, FutureTyped, OthersTyped DEF Next
<1> QED
  BY TypeInitially, <1>1, PTL DEF Spec

-----------------------------------------------------------------------------
(* The invariant *)

LEMMA Initially == Init => IInv
<1>1. Init => Underway /\ Abandoned /\ Ending
  BY RootAssumption DEF Init, Underway, Abandoned, Ending, Supervising, Spawned
<1>2. Init => Sane /\ Caused
  BY DEF Init, Sane, Caused, Stopping
<1> QED
  BY <1>1, <1>2, TypeInitially DEF IInv

\* A tame step that leaves the future, the stops and the drains alone.
LEMMA TameKeeps ==
  ASSUME IInv, Tame, Spawned' => Spawned,
         UNCHANGED <<futureVars, stopVars, drainVars, failures>>
  PROVE  Sane' /\ Underway' /\ Abandoned' /\ Ending' /\ Caused'
<1> USE DEF IInv, Tame, futureVars, stopVars, drainVars
<1>1. Sane'
  BY DEF Sane
<1>2. Underway'
  BY DEF Underway
<1>3. Abandoned'
  BY DEF Abandoned, TwoFailed
<1>4. Ending'
  BY DEF Ending
<1>5. Caused'
  BY DEF Caused
<1> QED
  BY <1>1, <1>2, <1>3, <1>4, <1>5

LEMMA ProcessesKeep == ASSUME IInv, Processes PROVE IInv'
<1>1. UNCHANGED <<futureVars, stopVars, drainVars, failures>>
  BY DEF Processes, Fork, ClosePipe, Leave, Harden, Exit, Dies, Ends, Reaped
<1> QED
  BY <1>1, ProcessesTame, ProcessesTyped, TameKeeps DEF IInv

\* The caller, the timers and the drains.
LEMMA OthersKeep ==
  ASSUME IInv, Cancel \/ Expire \/ Elapse \/ (\E s \in Streams : DrainEnds(s)) \/ UNCHANGED vars
  PROVE  IInv'
<1> USE DEF IInv, processVars, futureVars, stopVars, drainVars
<1>1. Tame /\ (Spawned' => Spawned)
  BY IdleTame DEF Cancel, Expire, Elapse, DrainEnds, vars
<1>2. at' = at /\ error' = error /\ cause' = cause /\ joined' = joined
  BY DEF Cancel, Expire, Elapse, DrainEnds, vars
<1>3. TwoFailed => TwoFailed'
  BY DEF Cancel, Expire, Elapse, DrainEnds, vars, TwoFailed, TypeOK, FutureTypeOK
<1>4. failures >= 1 => failures' >= 1
  BY DEF Cancel, Expire, Elapse, DrainEnds, vars, TypeOK, FutureTypeOK
<1>5. Sane'
  BY <1>1, <1>2 DEF Sane, Tame, Cancel, Expire, Elapse, DrainEnds, vars, TypeOK, DrainTypeOK
<1>6. Underway'
  BY <1>1, <1>2 DEF Underway, Tame
<1>7. Abandoned'
  BY <1>1, <1>2, <1>3, <1>4 DEF Abandoned, Tame
<1>8. Ending'
  BY <1>1, <1>2 DEF Ending, Tame
<1>9. Caused'
  BY <1>2 DEF Caused, Sane, Cancel, Expire, Elapse, DrainEnds, vars
<1> QED
  BY <1>5, <1>6, <1>7, <1>8, <1>9, OthersTyped

\* A call of the future is tame too, and forgets no failure.
LEMMA FutureTame ==
  ASSUME IInv, Future, at # "called"
  PROVE  Tame /\ (Spawned' => Spawned) /\ Sane'
<1>1. Tame /\ (Spawned' => Spawned)
  <2>1. CASE UNCHANGED processVars
    BY <2>1, IdleTame DEF IInv, processVars
  <2>2. CASE ReapRoot /\ UNCHANGED <<member, temper, holds>>
    BY <2>2, ReapTame DEF IInv
  <2>3. ASSUME NEW signal, NEW targets, life' = Struck(signal, targets),
               UNCHANGED <<member, temper, holds>>
        PROVE  Tame /\ (Spawned' => Spawned)
    BY <2>3, SignalTame DEF IInv
  <2> QED
    BY <2>1, <2>2, <2>3, FutureOnProcesses
<1>2. \A p \in Procs : life'[p] = "absent" => p \notin member'
  BY <1>1 DEF Tame
<1>3. \A s \in joined' : drain'[s] # "reading"
  BY FutureOnDrains DEF IInv, Sane, TypeOK, DrainTypeOK, drainVars, JoinDrain, SealDrains
<1>4. late' => cancelled'
  BY FutureOnItself DEF IInv, Sane, TypeOK, stopVars
<1> QED
  BY <1>1, <1>2, <1>3, <1>4 DEF Sane

LEMMA FailuresCount ==
  ASSUME FutureTypeOK, Future
  PROVE  failures \in Nat /\ failures' \in Nat /\ failures <= failures'
<1>1. failures' \in Nat /\ failures <= failures'
  BY DEF FutureTypeOK, Future, Start, Spawn, SpawnFails, PollCancelled, PollDeadline, PollChild,
      FindDescendants, Terminate, TryReap, TryReapFails, ProbeGroup, Kill, KillRoot, Reap,
      Settle, CleanUp, CleanUpReap, Observe, JoinDrain, SealDrains, Return, SignalGroup,
      Faulty, Abandon, futureVars
<1> QED
  BY <1>1 DEF FutureTypeOK

\* Each call leaves what the next one relies on.
LEMMA FutureKeeps ==
  ASSUME IInv, Future, at # "called"
  PROVE  Underway' /\ Abandoned' /\ Ending' /\ Caused'
<1>1. Tame /\ (Spawned' => Spawned)
  BY FutureTame
<1>2. failures \in Nat /\ failures' \in Nat /\ failures <= failures'
  BY FailuresCount DEF IInv, TypeOK
<1>3. cancelled' = cancelled /\ expired' = expired /\ late' = late /\ (late => cancelled)
  BY FutureOnItself DEF IInv, Sane, TypeOK, stopVars
<1> DEFINE Keeps == Underway' /\ Abandoned' /\ Ending' /\ Caused'
<1> USE DEF IInv, Tame, Underway, Abandoned, Ending, Caused, Supervising, Stopping, Failed, TwoFailed, Goto
<1>4. CASE PollCancelled
  BY <1>1, <1>2, <1>3, <1>4 DEF PollCancelled
<1>5. CASE PollDeadline
  BY <1>1, <1>2, <1>3, <1>5 DEF PollDeadline, DeadlineCause
<1>6. CASE PollChild
  <2>1. CASE ReapRoot /\ cause' = "exited" /\ Goto("descendants")
             /\ UNCHANGED <<member, temper, error>>
    BY <1>1, <1>3, <1>6, <2>1, ReapTame DEF PollChild
  <2>2. CASE Goto("poll_cancel") /\ UNCHANGED <<cause, error>>
    BY <1>1, <1>3, <1>6, <2>2 DEF PollChild
  <2>3. CASE Faulty("wait")
    BY <1>1, <1>2, <1>3, <1>6, <2>3 DEF PollChild, Faulty, Abandon
  <2> QED
    BY <1>6, <2>1, <2>2, <2>3 DEF PollChild
<1>7. CASE FindDescendants
  BY <1>1, <1>2, <1>3, <1>7 DEF FindDescendants, Faulty, Abandon
<1>8. CASE Terminate
  BY <1>1, <1>2, <1>3, <1>8 DEF Terminate, SignalGroup, Faulty, Abandon
<1>9. CASE TryReap
  BY <1>1, <1>2, <1>3, <1>9 DEF TryReap
<1>10. CASE TryReapFails
  BY <1>1, <1>2, <1>3, <1>10 DEF TryReapFails, Faulty, Abandon
<1>11. CASE ProbeGroup
  BY <1>1, <1>2, <1>3, <1>11 DEF ProbeGroup, Faulty, Abandon
<1>12. CASE Kill
  <2>1. CASE /\ Group = {} \/ Reachable # {}
             /\ life' = Struck("KILL", Reachable)
             /\ Goto(IF RootReaped THEN "settle" ELSE "kill_root")
             /\ UNCHANGED <<member, temper, cause, error>>
    <3>1. Killed'
      BY <2>1 DEF Killed, Group, Running, Reachable, Struck, TypeOK, ProcessTypeOK
    <3> QED
      BY <1>1, <1>3, <1>12, <2>1, <3>1 DEF Kill
  <2>2. CASE Abandon("kill") /\ UNCHANGED cause
    BY <1>1, <1>2, <1>3, <1>12, <2>2 DEF Kill, Abandon
  <2> QED
    BY <1>12, <2>1, <2>2 DEF Kill, SignalGroup, Faulty
<1>13. CASE KillRoot
  BY <1>1, <1>2, <1>3, <1>13 DEF KillRoot, Faulty, Abandon
<1>14. CASE Reap
  <2>1. CASE ReapRoot /\ Goto("settle") /\ UNCHANGED <<member, temper, cause, error>>
    BY <1>1, <1>3, <1>14, <2>1, ReapTame DEF Reap
  <2>2. CASE Faulty("wait")
    BY <1>1, <1>2, <1>3, <1>14, <2>2 DEF Reap, Faulty, Abandon
  <2> QED
    BY <1>14, <2>1, <2>2 DEF Reap
<1>15. CASE Settle
  BY <1>1, <1>2, <1>3, <1>15 DEF Settle, Faulty, Abandon
<1>16. CASE CleanUp
  <2>1. at' = "cleanup_reap" /\ error' = error /\ cause' = cause /\ error \in Failed
    BY <1>16 DEF CleanUp
  <2>2. Running(Root)' => temper'[Root] = "foreign" \/ TwoFailed'
    <3> USE RootAssumption DEF Running, Struck, TypeOK, ProcessTypeOK, TwoFailed
    <3> QED
      BY <1>2, <1>16 DEF CleanUp, RootReaped
  <2>3. Killed' \/ TwoFailed'
    BY <1>1, <1>2, <1>16 DEF CleanUp, Killed, Group, Running, Reachable, Struck, TypeOK, ProcessTypeOK
  <2>4. failures' >= 1 \/ (RootReaped' /\ Killed')
    BY <1>1, <1>2, <1>16 DEF CleanUp
  <2> QED
    BY <1>1, <1>3, <2>1, <2>2, <2>3, <2>4
<1>17. CASE CleanUpReap
  <2>1. at' = "observe" /\ error' = error /\ cause' = cause /\ error \in Failed
    BY <1>17 DEF CleanUpReap
  <2>2. RootReaped' \/ TwoFailed'
    <3>1. CASE ReapRoot /\ UNCHANGED <<member, temper>>
      BY <3>1, ReapTame
    <3>2. CASE RootReaped
      BY <1>1, <3>2
    <3>3. CASE ~RootReaped /\ failures' = failures + 1
      BY <1>2, <1>17, <3>3 DEF CleanUpReap
    <3> QED
      BY <1>17, <3>1, <3>2, <3>3 DEF CleanUpReap
  <2>3. Killed' \/ TwoFailed'
    BY <1>1, <1>2, <1>17 DEF CleanUpReap
  <2> QED
    BY <1>1, <1>3, <2>1, <2>2, <2>3
<1>18. CASE Observe
  BY <1>1, <1>2, <1>3, <1>18 DEF Observe
<1>19. CASE SealDrains
  BY <1>1, <1>2, <1>3, <1>19 DEF SealDrains, futureVars
<1>20. CASE Return
  <2>1. /\ at' = "returned" /\ cause' = cause /\ joined' = Streams
        /\ error' # "none" => error' \in {error, "stream"} /\ (error' = "stream" => error \in {"none", "stream"})
        /\ error' = "none" => error = "none"
    BY <1>20 DEF Return, drainVars
  <2>2. failures' = failures
    BY <1>20 DEF Return
  <2> QED
    BY <1>1, <1>2, <1>3, <1>20, <2>1, <2>2 DEF Return
<1>21. ASSUME NEW s \in Streams, JoinDrain(s) PROVE Keeps
  BY <1>1, <1>2, <1>3, <1>21 DEF JoinDrain, futureVars
<1> QED
  BY <1>4, <1>5, <1>6, <1>7, <1>8, <1>9, <1>10, <1>11, <1>12, <1>13, <1>14, <1>15, <1>16, <1>17, <1>18, <1>19, <1>20, <1>21 DEF Future, Start

\* A command that is cancelled before it starts, or cannot be spawned, leaves no shell.
LEMMA StartKeeps == ASSUME IInv, Start PROVE IInv'
<1> USE RootAssumption DEF IInv, Start, Goto, stopVars, drainVars
<1>1. TypeOK'
  BY FutureTyped DEF Future
<1>2. CASE Spawn
  <2>1. Sane'
    BY <1>2 DEF Spawn, Sane, TypeOK, ProcessTypeOK
  <2>2. Underway' /\ Abandoned' /\ Ending'
    BY <1>2 DEF Spawn, Underway, Abandoned, Ending, Supervising
  <2>3. Caused'
    BY <1>2 DEF Spawn, Caused, Stopping
  <2> QED
    BY <1>1, <2>1, <2>2, <2>3
<1>3. CASE ~Spawn
  <2>1. UNCHANGED <<processVars, drainVars, cancelled, expired, late>>
    BY <1>3 DEF SpawnFails
  <2>2. at' = "returned" /\ error' \in {"none", "spawn"} /\ ~Spawned /\ ~Spawned'
    BY <1>3, <2>1 DEF SpawnFails, Underway, Supervising, Spawned, processVars
  <2>3. error' = "none" => cause' = "cancelled" /\ cancelled
    BY <1>3 DEF SpawnFails
  <2>4. cause' \in {cause, "cancelled"} /\ (cause' # cause => cancelled)
    BY <1>3 DEF SpawnFails
  <2>5. Sane'
    BY <2>1 DEF Sane, processVars
  <2>6. Underway' /\ Abandoned' /\ Ending'
    BY <2>2 DEF Underway, Abandoned, Ending, Supervising, Failed
  <2>7. Caused'
    BY <2>1, <2>2, <2>3, <2>4 DEF Caused, Stopping
  <2> QED
    BY <1>1, <2>5, <2>6, <2>7
<1> QED
  BY <1>2, <1>3

\* What an execution relies on between two calls holds throughout.
THEOREM Inductive == Spec => []IInv
<1>1. IInv /\ [Next]_vars => IInv'
  <2> SUFFICES ASSUME IInv, [Next]_vars
               PROVE  IInv'
    OBVIOUS
  <2>1. CASE Processes
    BY <2>1, ProcessesKeep
  <2>2. CASE Cancel \/ Expire \/ Elapse \/ (\E s \in Streams : DrainEnds(s)) \/ UNCHANGED vars
    BY <2>2, OthersKeep
  <2>3. CASE Start
    BY <2>3, StartKeeps
  <2>4. CASE Future /\ at # "called"
    BY <2>4, FutureTame, FutureKeeps, FutureTyped DEF IInv
  <2>5. Future /\ at = "called" => Start
    BY DEF Future, PollCancelled, PollDeadline, PollChild, FindDescendants, Terminate, TryReap,
       TryReapFails, ProbeGroup, Kill, KillRoot, Reap, Settle, CleanUp, CleanUpReap, Observe,
       JoinDrain, SealDrains, Return
  <2> QED
    BY <2>1, <2>2, <2>3, <2>4, <2>5 DEF Next
<1> QED
  BY Initially, <1>1, PTL DEF Spec

\* CMD-5, CMD-6: whatever failed and whatever the processes do, an execution that
\* returns has joined its drains, reaped its shell and killed what is left of the
\* group, unless two calls failed or credentials forbade it.
THEOREM NothingIsLeft == Spec => []NothingLeft
<1>1. IInv => NothingLeft
  <2> SUFFICES ASSUME IInv, Returned
               PROVE  /\ joined = Streams /\ \A s \in Streams : drain[s] # "reading"
                      /\ RootReaped \/ failures >= 2
                      /\ \A p \in Group : Running(p) => temper[p] = "foreign" \/ failures >= 2
                      /\ error = "none" => RootReaped /\ Group = {}
    BY DEF NothingLeft
  <2> USE DEF IInv, Returned
  <2>1. joined = Streams /\ \A s \in Streams : drain[s] # "reading"
    BY DEF Ending, Sane
  <2>2. CASE error \in Failed
    BY <2>1, <2>2 DEF Abandoned, Killed, TwoFailed, Failed
  <2>3. CASE error \notin Failed
    BY <2>1, <2>3 DEF Ending
  <2> QED
    BY <2>2, <2>3
<1> QED
  BY <1>1, Inductive, PTL

\* CMD-5: a result tells why the command ended, and a timeout it reports was not
\* preceded by a cancellation.
THEOREM CausesHold == Spec => []CauseHolds
<1>1. IInv => CauseHolds
  BY DEF IInv, Caused, CauseHolds
<1> QED
  BY <1>1, Inductive, PTL

\* The unbounded wait of the cleanup is for a shell that is struck or dead, but for
\* one the executor may not signal.
THEOREM WaitsForTheDying ==
  Spec => [](at = "cleanup_reap" /\ Running(Root) => OutOfReach)
<1>1. IInv => (at = "cleanup_reap" /\ Running(Root) => OutOfReach)
  BY DEF IInv, Abandoned, OutOfReach, TwoFailed
<1> QED
  BY <1>1, Inductive, PTL
=============================================================================
