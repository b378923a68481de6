-------------------------- MODULE CommandExecutor --------------------------
(***************************************************************************)
(* One foreground command of plexmaton-command (executor.rs): the future    *)
(* that spawns /bin/sh in a process group, waits for its exit, its deadline *)
(* or a cancellation, stops the group by SIGTERM and then SIGKILL, reaps    *)
(* the shell, joins the two drains and returns. Beside it run the drains    *)
(* (capture.rs) and the processes of the command, which fork, leave the     *)
(* group, ignore SIGTERM, take credentials the executor may not signal and  *)
(* close the pipes as they like. A step is what the future does between two *)
(* system calls whose answer another actor could change.                    *)
(***************************************************************************)
EXTENDS Naturals

CONSTANTS
  Procs,      \* identities for the processes of the command
  Root,       \* the shell, the only child of the executor
  MaxFailures \* bound: system calls that fail for no reason the model has

ASSUME RootAssumption == Root \in Procs
ASSUME MaxFailuresAssumption == MaxFailures \in Nat

Streams == {"stdout", "stderr"}

VARIABLES
  \* the processes, as the operating system keeps them
  life,      \* of each: not started, alive, struck by a signal, a zombie, gone
  member,    \* those in the process group of the command, alive or not
  temper,    \* what a signal does to each
  holds,     \* the pipes each has open
  \* the future
  at,        \* the call it is about to make or waits for
  cause,     \* why it stopped waiting: ExitCause without the code
  error,     \* the failure of supervision that will be returned
  elapsed,   \* whether the deadline of the present wait has passed
  \* its caller and its deadline
  cancelled, \* the cancellation token
  expired,   \* whether timeout_ms have passed
  late,      \* whether they passed only after the cancellation
  \* the drains
  drain,     \* of each stream: reading, or how its task ended
  sealed,    \* drain_seal
  joined,    \* streams whose handle was awaited
  failures   \* system calls that failed

processVars == <<life, member, temper, holds>>
futureVars == <<at, cause, error, elapsed>>
stopVars == <<cancelled, expired, late>>
drainVars == <<drain, sealed, joined>>
vars == <<processVars, futureVars, stopVars, drainVars, failures>>

Init ==
  /\ life = [p \in Procs |-> "absent"] /\ member = {}
  /\ temper = [p \in Procs |-> "mild"] /\ holds = [p \in Procs |-> {}]
  /\ at = "called" /\ cause = "none" /\ error = "none" /\ elapsed = FALSE
  /\ cancelled = FALSE /\ expired = FALSE /\ late = FALSE
  /\ drain = [s \in Streams |-> "reading"] /\ sealed = FALSE /\ joined = {}
  /\ failures = 0

-----------------------------------------------------------------------------
(* The processes *)

\* The members that still exist: a zombie stays in its group until it is reaped.
Group == {p \in member : life[p] \notin {"absent", "gone"}}
Reachable == {p \in Group : temper[p] # "foreign"}
Running(p) == life[p] = "live"

Fork(p, q) ==
  /\ Running(p) /\ life[q] = "absent" /\ q # Root
  /\ life' = [life EXCEPT ![q] = "live"]
  /\ member' = IF p \in member THEN member \cup {q} ELSE member
  /\ temper' = [temper EXCEPT ![q] = temper[p]]
  /\ holds' = [holds EXCEPT ![q] = holds[p]]
  /\ UNCHANGED <<futureVars, stopVars, drainVars, failures>>

\* setsid, or setpgid to another group of the session.
Leave(p) ==
  /\ Running(p) /\ p \in member
  /\ member' = member \ {p}
  /\ UNCHANGED <<life, temper, holds, futureVars, stopVars, drainVars, failures>>

\* The program installs a handler for SIGTERM, or becomes one with other
\* credentials; the executor regains no permission it lost.
Harden(p) ==
  /\ Running(p)
  /\ \E t \in {"stubborn", "foreign"} :
       /\ temper[p] = "foreign" => t = "foreign"
       /\ temper' = [temper EXCEPT ![p] = t]
  /\ UNCHANGED <<life, member, holds, futureVars, stopVars, drainVars, failures>>

ClosePipe(p, s) ==
  /\ Running(p) /\ s \in holds[p]
  /\ holds' = [holds EXCEPT ![p] = @ \ {s}]
  /\ UNCHANGED <<life, member, temper, futureVars, stopVars, drainVars, failures>>

Ends(p) ==
  /\ life' = [life EXCEPT ![p] = "zombie"]
  /\ holds' = [holds EXCEPT ![p] = {}]
  /\ UNCHANGED <<member, temper, futureVars, stopVars, drainVars, failures>>

Exit(p) == Running(p) /\ Ends(p)
Dies(p) == life[p] = "struck" /\ Ends(p)

\* Its parent, or init, reaps a descendant.
Reaped(p) ==
  /\ p # Root /\ life[p] = "zombie"
  /\ life' = [life EXCEPT ![p] = "gone"]
  /\ UNCHANGED <<member, temper, holds, futureVars, stopVars, drainVars, failures>>

\* What a signal does to the processes it reaches.
Struck(signal, targets) ==
  [p \in Procs |->
     IF p \in targets /\ Running(p) /\ (signal = "TERM" => temper[p] = "mild")
     THEN "struck" ELSE life[p]]

-----------------------------------------------------------------------------
(* The caller, and time *)

Cancel ==
  /\ ~cancelled /\ at # "returned"
  /\ cancelled' = TRUE
  /\ UNCHANGED <<processVars, futureVars, expired, late, drainVars, failures>>

Selecting == at \in {"poll_cancel", "poll_deadline", "poll_child"}

Expire ==
  /\ Selecting /\ ~expired
  /\ expired' = TRUE /\ late' = cancelled
  /\ UNCHANGED <<processVars, futureVars, cancelled, drainVars, failures>>

\* The waits with a deadline of their own: termination_grace, the two
\* GROUP_SETTLE_DEADLINE and DRAIN_GRACE.
Timed == {"grace", "probe", "settle", "observe", "drain"}

Elapse ==
  /\ at \in Timed /\ ~elapsed
  /\ elapsed' = TRUE
  /\ UNCHANGED <<processVars, at, cause, error, stopVars, drainVars, failures>>

-----------------------------------------------------------------------------
(* The future *)

Goto(next) == at' = next /\ elapsed' = FALSE

AbandonUncleaned(e) == error' = e /\ Goto("drain") /\ failures' = failures + 1

\* A call failed, and with it the supervision: execute goes on to clean up.
Abandon(e) ==
  /\ error' = e /\ Goto("cleanup")
  /\ failures' = failures + 1

\* A call may fail though the process it is about gives no reason.
Faulty(e) ==
  /\ failures < MaxFailures /\ Abandon(e)
  /\ UNCHANGED <<processVars, cause, stopVars, drainVars>>

\* The call of wait or try_wait that finds the shell dead.
ReapRoot == life[Root] = "zombie" /\ life' = [life EXCEPT ![Root] = "gone"]
RootReaped == life[Root] = "gone"

Spawn ==
  /\ life' = [life EXCEPT ![Root] = "live"] /\ member' = {Root}
  /\ holds' = [holds EXCEPT ![Root] = Streams]
  /\ Goto("poll_cancel") /\ UNCHANGED <<temper, cause, error, failures>>

SpawnFails ==
  /\ failures < MaxFailures
  /\ error' = "spawn" /\ failures' = failures + 1 /\ Goto("returned")
  /\ UNCHANGED <<processVars, cause>>

\* execute, up to the first poll of the select. A command cancelled before it
\* starts is never spawned.
Start ==
  /\ at = "called"
  /\ \/ /\ cancelled /\ cause' = "cancelled" /\ Goto("returned")
        /\ UNCHANGED <<processVars, error, failures>>
     \/ ~cancelled /\ (Spawn \/ SpawnFails)
  /\ UNCHANGED <<stopVars, drainVars>>

\* wait_for_trigger polls its branches in this order, each at its own moment.
PollCancelled ==
  /\ at = "poll_cancel"
  /\ IF cancelled THEN cause' = "cancelled" /\ Goto("term")
                  ELSE Goto("poll_deadline") /\ UNCHANGED cause
  /\ UNCHANGED <<processVars, error, stopVars, drainVars, failures>>

DeadlineAlone == "timed_out"
DeadlineCause == IF cancelled THEN "cancelled" ELSE "timed_out"

PollDeadline ==
  /\ at = "poll_deadline"
  /\ IF expired THEN cause' = DeadlineCause /\ Goto("term")
                ELSE Goto("poll_child") /\ UNCHANGED cause
  /\ UNCHANGED <<processVars, error, stopVars, drainVars, failures>>

PollChild ==
  /\ at = "poll_child"
  /\ \/ /\ ReapRoot /\ cause' = "exited" /\ Goto("descendants")
        /\ UNCHANGED <<member, temper, holds, error, stopVars, drainVars, failures>>
     \/ /\ life[Root] # "zombie" /\ Goto("poll_cancel")
        /\ UNCHANGED <<processVars, cause, error, stopVars, drainVars, failures>>
     \/ Faulty("wait")

\* terminate_remaining_descendants.
FindDescendants ==
  /\ at = "descendants"
  /\ \/ /\ Goto(IF Group = {} THEN "drain" ELSE "term")
        /\ UNCHANGED <<processVars, cause, error, stopVars, drainVars, failures>>
     \/ Faulty("inspect")

\* A signal to a group without members is no error; one that may reach none of
\* them is refused (EPERM).
SignalGroup(signal, e, next) ==
  \/ /\ Group = {} \/ Reachable # {}
     /\ life' = Struck(signal, Reachable) /\ Goto(next)
     /\ UNCHANGED <<member, temper, holds, cause, error, stopVars, drainVars, failures>>
  \/ /\ Group # {} /\ Reachable = {} /\ Abandon(e)
     /\ UNCHANGED <<processVars, cause, stopVars, drainVars>>
  \/ Faulty(e)

Terminate == at = "term" /\ SignalGroup("TERM", "signal", "grace")

\* The loop of terminate_and_reap. That of terminate_group is the same with the
\* shell reaped already.
TryReap ==
  /\ at = "grace" /\ at' = "probe"
  /\ \/ ReapRoot /\ UNCHANGED <<member, temper, holds>>
     \/ life[Root] # "zombie" /\ UNCHANGED processVars
  /\ UNCHANGED <<cause, error, elapsed, stopVars, drainVars, failures>>

TryReapFails == at = "grace" /\ ~RootReaped /\ Faulty("wait")

ProbeGroup ==
  /\ at = "probe"
  /\ \/ /\ RootReaped /\ Group = {} /\ Goto("drain")
        /\ UNCHANGED <<processVars, cause, error, stopVars, drainVars, failures>>
     \/ /\ ~(RootReaped /\ Group = {})
        /\ at' = IF elapsed THEN "kill" ELSE "grace"
        /\ elapsed' = FALSE
        /\ UNCHANGED <<processVars, cause, error, stopVars, drainVars, failures>>
     \/ RootReaped /\ Faulty("inspect")

KillGroupOnly ==
  at = "kill" /\ SignalGroup("KILL", "kill", IF RootReaped THEN "settle" ELSE "reap")

Kill == at = "kill" /\ SignalGroup("KILL", "kill", IF RootReaped THEN "settle" ELSE "kill_root")

\* start_kill, for a shell that may have left its group.
KillRoot ==
  /\ at = "kill_root"
  /\ \/ /\ temper[Root] # "foreign"
        /\ life' = Struck("KILL", {Root}) /\ Goto("reap")
        /\ UNCHANGED <<member, temper, holds, cause, error, stopVars, drainVars, failures>>
     \/ /\ temper[Root] = "foreign" /\ Abandon("wait")
        /\ UNCHANGED <<processVars, cause, stopVars, drainVars>>
     \/ Faulty("wait")

\* The wait after start_kill has no deadline.
Reap ==
  /\ at = "reap"
  /\ \/ /\ ReapRoot /\ Goto("settle")
        /\ UNCHANGED <<member, temper, holds, cause, error, stopVars, drainVars, failures>>
     \/ Faulty("wait")

\* await_group_disappearance.
Settle ==
  /\ at = "settle"
  /\ \/ /\ Group = {} /\ Goto("drain")
        /\ UNCHANGED <<processVars, cause, error, stopVars, drainVars, failures>>
     \/ /\ Group # {} /\ elapsed /\ error' = "survived" /\ Goto("cleanup")
        /\ UNCHANGED <<processVars, cause, stopVars, drainVars, failures>>
     \/ Faulty("inspect")

\* best_effort_cleanup: both kills are tried, whatever the first one answers, and
\* the error that led here is kept.
CleanUp ==
  /\ at = "cleanup"
  /\ \E lost \in {"none", "group", "root", "both"} :
       LET count == CASE lost = "none" -> 0 [] lost = "both" -> 2 [] OTHER -> 1
           killed == (IF lost \in {"group", "both"} THEN {} ELSE Reachable)
                       \cup (IF lost \in {"root", "both"} \/ temper[Root] = "foreign"
                             THEN {} ELSE {Root})
       IN  /\ count = 0 \/ failures + count <= MaxFailures
           /\ failures' = failures + count
           /\ life' = Struck("KILL", killed)
  /\ Goto("cleanup_reap")
  /\ UNCHANGED <<member, temper, holds, cause, error, stopVars, drainVars>>

\* This wait has no deadline either, and the kill before it may have failed.
CleanUpReap ==
  /\ at = "cleanup_reap" /\ Goto("observe")
  /\ \/ ReapRoot /\ UNCHANGED <<member, temper, holds, failures>>
     \/ RootReaped /\ UNCHANGED <<processVars, failures>>
     \/ /\ failures < MaxFailures /\ failures' = failures + 1
        /\ UNCHANGED processVars
  /\ UNCHANGED <<cause, error, stopVars, drainVars>>

\* best_effort_observe_group_disappearance.
Observe ==
  /\ at = "observe" /\ (Group = {} \/ elapsed)
  /\ Goto("drain")
  /\ UNCHANGED <<processVars, cause, error, stopVars, drainVars, failures>>

-----------------------------------------------------------------------------
(* The drains *)

Spawned == life[Root] # "absent"
EndOfFile(s) == \A p \in Procs : s \notin holds[p]

\* A drain looks at the seal before it reads.
DrainEnds(s) ==
  /\ Spawned /\ drain[s] = "reading"
  /\ \/ sealed /\ drain' = [drain EXCEPT ![s] = "partial"] /\ UNCHANGED failures
     \/ /\ ~sealed /\ EndOfFile(s)
        /\ drain' = [drain EXCEPT ![s] = "complete"] /\ UNCHANGED failures
     \/ /\ ~sealed /\ failures < MaxFailures
        /\ drain' = [drain EXCEPT ![s] = "failed"] /\ failures' = failures + 1
  /\ UNCHANGED <<processVars, futureVars, stopVars, sealed, joined>>

\* join_drains.
JoinDrain(s) ==
  /\ at = "drain" /\ s \notin joined /\ drain[s] # "reading"
  /\ joined' = joined \cup {s}
  /\ UNCHANGED <<processVars, futureVars, stopVars, drain, sealed, failures>>

\* The deadline is looked at when neither handle is ready.
SealDrains ==
  /\ at = "drain" /\ elapsed /\ ~sealed /\ joined # Streams
  /\ \A s \in Streams \ joined : drain[s] = "reading"
  /\ sealed' = TRUE
  /\ UNCHANGED <<processVars, futureVars, stopVars, drain, joined, failures>>

\* The failure of the supervision comes before that of a drain.
Return ==
  /\ at = "drain" /\ joined = Streams /\ Goto("returned")
  /\ error' = IF error = "none" /\ \E s \in Streams : drain[s] = "failed"
              THEN "stream" ELSE error
  /\ UNCHANGED <<processVars, cause, stopVars, drainVars, failures>>

-----------------------------------------------------------------------------
(* The specification *)

Processes ==
  \E p \in Procs :
    \/ \E q \in Procs : Fork(p, q)
    \/ \E s \in Streams : ClosePipe(p, s)
    \/ Leave(p) \/ Harden(p) \/ Exit(p) \/ Dies(p) \/ Reaped(p)

Future ==
  \/ Start \/ PollCancelled \/ PollDeadline \/ PollChild \/ FindDescendants
  \/ Terminate \/ TryReap \/ TryReapFails \/ ProbeGroup
  \/ Kill \/ KillRoot \/ Reap \/ Settle
  \/ CleanUp \/ CleanUpReap \/ Observe
  \/ \E s \in Streams : JoinDrain(s)
  \/ SealDrains \/ Return

Next ==
  \/ Processes \/ Cancel \/ Expire \/ Elapse \/ Future
  \/ \E s \in Streams : DrainEnds(s)

\* The caller drives the future to its end (CMD-6), the runtime polls its timers
\* and drains, and a process struck by a signal it does not survive dies.
Fairness ==
  /\ WF_vars(Future) /\ WF_vars(Expire) /\ WF_vars(Elapse)
  /\ \A s \in Streams : WF_vars(DrainEnds(s))
  /\ \A p \in Procs : WF_vars(Dies(p))

Spec == Init /\ [][Next]_vars
FairSpec == Spec /\ Fairness

-----------------------------------------------------------------------------
(* Properties *)

Errors == {"none", "spawn", "wait", "inspect", "signal", "kill", "survived", "stream"}
Calls ==
  {"called", "poll_cancel", "poll_deadline", "poll_child", "descendants", "term", "kill",
   "kill_root", "reap", "cleanup", "cleanup_reap", "returned"} \cup Timed

ProcessTypeOK ==
  /\ life \in [Procs -> {"absent", "live", "struck", "zombie", "gone"}]
  /\ member \subseteq Procs
  /\ temper \in [Procs -> {"mild", "stubborn", "foreign"}]
  /\ holds \in [Procs -> SUBSET Streams]

FutureTypeOK ==
  /\ at \in Calls /\ cause \in {"none", "exited", "timed_out", "cancelled"}
  /\ error \in Errors /\ elapsed \in BOOLEAN
  /\ cancelled \in BOOLEAN /\ expired \in BOOLEAN /\ late \in BOOLEAN
  /\ failures \in Nat

DrainTypeOK ==
  /\ drain \in [Streams -> {"reading", "complete", "partial", "failed"}]
  /\ sealed \in BOOLEAN /\ joined \subseteq Streams

TypeOK == ProcessTypeOK /\ FutureTypeOK /\ DrainTypeOK

Returned == at = "returned" /\ Spawned

\* What an execution leaves behind (CMD-5, CMD-6): no drain; no shell that is not
\* reaped and no member of its group that was not killed, unless two calls failed
\* or credentials forbade the kill; and after a result nothing of the group.
NothingLeft ==
  Returned =>
    /\ joined = Streams /\ \A s \in Streams : drain[s] # "reading"
    /\ RootReaped \/ failures >= 2
    /\ \A p \in Group : Running(p) => temper[p] = "foreign" \/ failures >= 2
    /\ error = "none" => RootReaped /\ Group = {}

\* A result says why the command ended (CMD-5): cancellation wins over a deadline
\* that passed only after it, however the two race with the polls of the select.
CauseHolds ==
  at = "returned" /\ error = "none" =>
    /\ cause # "none"
    /\ cause = "cancelled" => cancelled
    /\ cause = "timed_out" => expired /\ ~late

\* The shell that execute waits for, without a deadline, after no signal reached it.
OutOfReach ==
  /\ at = "cleanup_reap" /\ Running(Root)
  /\ temper[Root] = "foreign" \/ failures >= 2

\* Every execution returns, whatever the processes do, forks, ignored signals, open
\* pipes and escapes from the group included (CMD-3, CMD-5); only a shell that the
\* executor may not signal keeps it waiting.
Returns == at = "called" ~> (at = "returned" \/ OutOfReach)
=============================================================================
