-------------------------- MODULE OwnedScheduling --------------------------
(***************************************************************************)
(* The scheduling owner of plexmaton-runtime (OwnedCollaboration), the      *)
(* runners of the delegated children and the worker of the collaboration    *)
(* writer. Every operation of the owner is a future that its caller may     *)
(* drop where it awaits: what the operation has begun stays in a pending_   *)
(* field, and whichever call comes next goes on with it. An owner action    *)
(* below is the code between two awaits, and Focus is the order in which    *)
(* next_activity, next_update and begin_shutdown resume what is retained.   *)
(* While the owner waits for the answer of one operation it takes no update *)
(* from any runner. The runtime inside a runner is reduced to whose turn it *)
(* runs (LiveRuntime has the rest), the ledger to the mail a child has not  *)
(* read and to who controls the child (CollaborationLedger has the rest).   *)
(***************************************************************************)
EXTENDS Naturals, Sequences, FiniteSets

CONSTANTS
  Workers,     \* the delegated children, each with a registered runner
  Mailed,      \* bound: children Main sends mail
  Addressed,   \* bound: children the user gives input, once he controls them
  MaxMail,     \* bound: items Main sends, over all children
  MaxStops,    \* bound: Stops the user asks for
  MaxInputs,   \* bound: inputs the user gives children he controls
  MaxHandoffs, \* bound: Handoffs the tool asks for
  MaxDrops,    \* bound: futures dropped in a preflight, or of a repeated Handoff
  Failing,     \* children whose runtime may fail
  Races        \* rare outcomes the instance lets happen, see RareOutcomes

RareOutcomes == {"blocked_child_asked"}

ASSUME BoundsAssumption ==
  /\ MaxMail \in Nat /\ MaxStops \in Nat /\ MaxInputs \in Nat
  /\ MaxHandoffs \in Nat /\ MaxDrops \in Nat
ASSUME ChildrenAssumption ==
  Mailed \subseteq Workers /\ Addressed \subseteq Workers /\ Failing \subseteq Workers
ASSUME RacesAssumption == Races \subseteq RareOutcomes
ASSUME NoneAssumption == "none" \notin Workers

VARIABLES
  left,        \* calls the instance may still make, of each kind
  ingress,     \* pending_ingress: the tool command being carried out
  admission,   \* the writer's pending_admission
  wakes,       \* wakes: where the retained wake of each child is, and its hint
  schedule,    \* pending_schedule
  stop,        \* pending_stop
  input,       \* pending_user_input
  detached,    \* detached_user_input, 0 for none
  handoff,     \* pending_handoff
  closed,      \* handoff_closed
  slots,       \* the runner slots: finished, joined, shutdown_requested
  closing,     \* how far the shutdown of the owner is
  lane,        \* the command lane of the collaboration writer
  run,         \* the runners: lanes, child task and runtime
  ledger,      \* per child: who controls it, items sent and read, last admission
  permit,      \* children whose authority to execute is reserved or in use
  quiet,       \* children stopped and not woken since (history)
  owed,        \* children with unread mail whose wake was accepted (history)
  reports      \* how often the outcome of each input was told (history)

vars == <<left, ingress, admission, wakes, schedule, stop, input, detached, handoff, closed,
          slots, closing, lane, run, ledger, permit, quiet, owed, reports>>

None == [worker |-> "none"]
Some(x) == x # None

Hints == 0..MaxMail
Inputs == 1..MaxInputs
Updates == [kind: {"event", "finished", "failed"}] \cup [kind: {"wake"}, hint: Hints]
Runners ==
  [normal: {"none", "reserved", "wake", "start"}, hint: Hints,
   control: {"none", "stop", "shutdown"}, typed: BOOLEAN,
   reply: {"none", "waiting", "ok", "failed"}, task: {"loop", "closing", "gone"},
   out: Seq(Updates), turn: {"idle", "main", "user"}, news: BOOLEAN]

Budgets == [mail: 0..MaxMail, stop: 0..MaxStops, input: 0..MaxInputs,
            handoff: 0..MaxHandoffs, drop: 0..MaxDrops]
Commands == [worker: Workers, kind: {"mail", "handoff"}, hint: Hints]
Admissions == [worker: Workers, reply: {"waiting", "ok", "refused"}]
Wakes == [at: {"none", "waiting", "queued", "ready", "deferred"}, hint: Hints]
Schedules == [worker: Workers, hint: Hints,
              at: {"writer", "prepared", "refused", "sent", "started", "failed"}]
Stops == [worker: Workers, sent: BOOLEAN, input: 0..MaxInputs]
UserInputs == [worker: Workers, id: Inputs, told: BOOLEAN]
Handoffs == [worker: Workers, tool: BOOLEAN,
             at: {"preflight", "asked", "answered", "settle", "stop", "append"}]
Slots == [at: {"live", "finished", "joined"}, asked: BOOLEAN]
Lanes == [worker: Workers, cmd: {"mail", "handoff", "schedule", "preflight"}]
Accounts == [user: BOOLEAN, sent: Hints, read: Hints, last: Hints, started: Hints]

TypeOK ==
  /\ left \in Budgets
  /\ ingress \in {None} \cup Commands /\ admission \in {None} \cup Admissions
  /\ wakes \in [Workers -> Wakes] /\ schedule \in {None} \cup Schedules
  /\ stop \in {None} \cup Stops /\ input \in {None} \cup UserInputs
  /\ detached \in 0..MaxInputs /\ handoff \in {None} \cup Handoffs
  /\ closed \subseteq Workers /\ slots \in [Workers -> Slots]
  /\ closing \in {"open", "settling", "closing", "finished"}
  /\ lane \in {None} \cup Lanes
  /\ run \in [Workers -> Runners] /\ \A w \in Workers : Len(run[w].out) <= 4
  /\ ledger \in [Workers -> Accounts]
  /\ permit \subseteq Workers /\ quiet \subseteq Workers /\ owed \subseteq Workers
  /\ reports \in [Inputs -> 0..2]

NoWake == [at |-> "none", hint |-> 0]
Event == [kind |-> "event"]

Init ==
  /\ left = [mail |-> MaxMail, stop |-> MaxStops, input |-> MaxInputs,
             handoff |-> MaxHandoffs, drop |-> MaxDrops]
  /\ ingress = None /\ admission = None
  /\ wakes = [w \in Workers |-> NoWake]
  /\ schedule = None /\ stop = None /\ input = None /\ detached = 0 /\ handoff = None
  /\ closed = {}
  /\ slots = [w \in Workers |-> [at |-> "live", asked |-> FALSE]]
  /\ closing = "open" /\ lane = None
  /\ run = [w \in Workers |->
             [normal |-> "none", hint |-> 0, control |-> "none", typed |-> FALSE,
              reply |-> "none", task |-> "loop", out |-> <<>>, turn |-> "idle",
              news |-> FALSE]]
  /\ ledger = [w \in Workers |->
                [user |-> FALSE, sent |-> 0, read |-> 0, last |-> 0, started |-> 0]]
  /\ permit = {} /\ quiet = {} /\ owed = {}
  /\ reports = [i \in Inputs |-> 0]

(***************************************************************************)
(* The child task (run_owned_child). Its select is biased: control, then    *)
(* user input, then updates of the runtime, and the normal lane last and    *)
(* only without active work. It holds at most one update the channel has no *)
(* room for, and meanwhile takes nothing from the normal lane.              *)
(***************************************************************************)

HasRoom(w) == Len(run[w].out) <= 1

\* drain_normal, then the turn given up: what is left of the runner, of the
\* pending schedule and of the authority to execute.
Interrupted(w) ==
  [run[w] EXCEPT !.turn = "idle",
                 !.normal = IF @ \in {"start", "wake"} THEN "none" ELSE @]
Unanswered(w) ==
  schedule' = IF run[w].normal = "start" THEN [schedule EXCEPT !.at = "failed"] ELSE schedule
\* Mutant: the lane is drained, and the turn that is given up keeps its authority.
ReleasedQueued(w) == permit' = IF run[w].normal = "start" THEN permit \ {w} ELSE permit

Released(w) ==
  permit' = IF run[w].turn = "main" \/ run[w].normal = "start" THEN permit \ {w} ELSE permit

OwnerKept == UNCHANGED <<left, ingress, admission, wakes, stop, detached, handoff, closed,
                         slots, closing, lane, quiet, owed, reports>>

TakeStop(w) ==
  /\ run[w].task = "loop" /\ run[w].control = "stop"
  /\ run' = [run EXCEPT ![w] = [Interrupted(w) EXCEPT !.control = "none", !.reply = "ok",
                                  !.news = @ \/ run[w].turn # "idle"]]
  /\ Unanswered(w) /\ Released(w)
  /\ UNCHANGED <<input, ledger>> /\ OwnerKept

\* close_owned_child up to its updates: both lanes are drained, the runtime is
\* shut down, and the events it still holds go out before the terminal update.
Close(w, more, terminal) ==
  /\ run' = [run EXCEPT ![w] =
       [Interrupted(w) EXCEPT
          !.task = "closing", !.typed = FALSE, !.news = FALSE,
          !.control = IF @ = "shutdown" THEN "none" ELSE @,
          !.out = @ \o (IF more THEN <<Event>> ELSE <<>>)
                    \o <<[kind |-> terminal]>>]]
  /\ input' = IF run[w].typed THEN [input EXCEPT !.told = TRUE] ELSE input
  /\ Unanswered(w) /\ Released(w)
  /\ UNCHANGED ledger /\ OwnerKept

TakeShutdown(w) ==
  /\ run[w].task = "loop" /\ run[w].control = "shutdown"
  /\ Close(w, run[w].news \/ run[w].turn # "idle", "finished")

\* The runtime may refuse the input.
TakeInput(w) ==
  /\ run[w].task = "loop" /\ run[w].control = "none" /\ run[w].typed
  /\ \/ run' = [run EXCEPT ![w].typed = FALSE, ![w].turn = "user", ![w].news = TRUE]
     \/ run' = [run EXCEPT ![w].typed = FALSE]
  /\ input' = [input EXCEPT !.told = TRUE]
  /\ UNCHANGED <<schedule, permit, ledger>> /\ OwnerKept

\* The runtime is polled while no update is retained and all its events are out.
Works(w) == run[w].task = "loop" /\ run[w].turn # "idle" /\ ~run[w].news /\ HasRoom(w)

TurnGoesOn(w) ==
  /\ Works(w)
  /\ run' = [run EXCEPT ![w].news = TRUE]
  /\ UNCHANGED <<input, schedule, permit, ledger>> /\ OwnerKept

TurnEnds(w) ==
  /\ Works(w)
  /\ run' = [run EXCEPT ![w].turn = "idle", ![w].news = TRUE]
  /\ permit' = IF run[w].turn = "main" THEN permit \ {w} ELSE permit
  /\ UNCHANGED <<input, schedule, ledger>> /\ OwnerKept

GiveEvent(w) ==
  /\ run[w].task = "loop" /\ run[w].control = "none" /\ ~run[w].typed
  /\ run[w].news /\ HasRoom(w)
  /\ run' = [run EXCEPT ![w].news = FALSE, ![w].out = Append(@, Event)]
  /\ UNCHANGED <<input, schedule, permit, ledger>> /\ OwnerKept

\* next_update of the runtime returns an error: its journal failed. What its own
\* shutdown still has to report may be nothing.
RuntimeFails(w) ==
  /\ w \in Failing /\ Works(w) /\ run[w].control = "none" /\ ~run[w].typed
  /\ \E more \in BOOLEAN :
       /\ \/ "blocked_child_asked" \in Races
          \/ run[w].out = <<>> /\ ~more
          \/ w \notin {stop.worker, handoff.worker}
               /\ ~(ingress.worker = w /\ ingress.kind = "handoff")
       /\ Close(w, more, "failed")

Idle(w) ==
  /\ run[w].task = "loop" /\ run[w].control = "none" /\ ~run[w].typed
  /\ run[w].turn = "idle" /\ ~run[w].news /\ HasRoom(w)

\* start_delegated_turn refuses a boundary that is not the session's last one. A
\* turn that starts has more than one event to give.
TakeStart(w) ==
  /\ Idle(w) /\ run[w].normal = "start"
  /\ LET fresh == run[w].hint # ledger[w].started IN
     /\ run' = [run EXCEPT ![w].normal = "none",
                           ![w].turn = IF fresh THEN "main" ELSE "idle",
                           ![w].out = IF fresh THEN Append(@, Event) ELSE @,
                           ![w].news = fresh]
     /\ schedule' = [schedule EXCEPT !.at = IF fresh THEN "started" ELSE "failed"]
     /\ permit' = IF fresh THEN permit ELSE permit \ {w}
     /\ ledger' = [ledger EXCEPT ![w].started = run[w].hint]
  /\ UNCHANGED input /\ OwnerKept

TakeWake(w) ==
  /\ Idle(w) /\ run[w].normal = "wake"
  /\ run' = [run EXCEPT ![w].normal = "none",
                        ![w].out = Append(@, [kind |-> "wake", hint |-> run[w].hint])]
  /\ UNCHANGED <<input, schedule, permit, ledger>> /\ OwnerKept

\* Mutant: the Stop the task never took is not answered.
TaskEndsSilently(w) ==
  /\ run[w].task = "closing" /\ HasRoom(w)
  /\ run' = [run EXCEPT ![w] =
       [Interrupted(w) EXCEPT !.task = "gone", !.control = "none", !.typed = FALSE]]
  /\ input' = IF run[w].typed THEN [input EXCEPT !.told = TRUE] ELSE input
  /\ Unanswered(w) /\ Released(w)
  /\ UNCHANGED ledger /\ OwnerKept

\* The last update is in the channel: the task answers a Shutdown and returns,
\* and a command it never took loses its reply.
TaskEnds(w) ==
  /\ run[w].task = "closing" /\ HasRoom(w)
  /\ run' = [run EXCEPT ![w] =
       [Interrupted(w) EXCEPT !.task = "gone", !.control = "none", !.typed = FALSE,
                              !.reply = IF run[w].control = "stop" THEN "failed" ELSE @]]
  /\ input' = IF run[w].typed THEN [input EXCEPT !.told = TRUE] ELSE input
  /\ Unanswered(w) /\ Released(w)
  /\ UNCHANGED ledger /\ OwnerKept

\* What the task does as soon as it is scheduled.
ChildServes(w) ==
  \/ TakeStop(w) \/ TakeShutdown(w) \/ TakeInput(w) \/ GiveEvent(w)
  \/ TakeStart(w) \/ TakeWake(w) \/ TaskEnds(w)

(***************************************************************************)
(* The worker of the collaboration writer carries out the command in its    *)
(* lane: admit, schedule_inner and the preflight of a Handoff.              *)
(***************************************************************************)

Answered(reply) == admission' = [admission EXCEPT !.reply = reply]

WriteMail(w) ==
  /\ ledger' = [ledger EXCEPT ![w].sent = @ + 1]
  /\ Answered("ok")
  /\ UNCHANGED <<schedule, handoff, permit, owed>>

\* begin_release refuses a child whose authority is not quiescent; the repeated
\* attempt finds its record.
WriteHandoff(w) ==
  /\ LET refused == ~ledger[w].user /\ w \in permit IN
     /\ Answered(IF refused THEN "refused" ELSE "ok")
     /\ ledger' = IF refused THEN ledger ELSE [ledger EXCEPT ![w].user = TRUE]
  /\ UNCHANGED <<schedule, handoff, permit, owed>>

Reserved(w, refused) == permit' = IF refused THEN permit ELSE permit \cup {w}

\* The authority is reserved before the turn is admitted, and given back when
\* the turn is refused. The same request finds its record.
WriteSchedule(w) ==
  LET recorded == ledger[w].last = schedule.hint
      refused  == ledger[w].user \/ w \in permit
                    \/ (~recorded /\ ledger[w].sent = ledger[w].read) IN
  /\ schedule' = [schedule EXCEPT !.at = IF refused THEN "refused" ELSE "prepared"]
  /\ Reserved(w, refused)
  /\ IF refused \/ recorded
       THEN UNCHANGED <<ledger, owed>>
       ELSE /\ ledger' = [ledger EXCEPT ![w].read = ledger[w].sent, ![w].last = schedule.hint]
            /\ owed' = owed \ {w}
  /\ UNCHANGED <<admission, handoff>>

\* The answer finds no receiver when the future that asked has been dropped.
ReadPreflight(w) ==
  /\ handoff' = IF Some(handoff) /\ handoff.at = "asked"
                  THEN [handoff EXCEPT !.at = "answered"] ELSE handoff
  /\ UNCHANGED <<admission, schedule, ledger, permit, owed>>

WriterStep ==
  /\ Some(lane) /\ lane' = None
  /\ \/ lane.cmd = "mail" /\ WriteMail(lane.worker)
     \/ lane.cmd = "handoff" /\ WriteHandoff(lane.worker)
     \/ lane.cmd = "schedule" /\ WriteSchedule(lane.worker)
     \/ lane.cmd = "preflight" /\ ReadPreflight(lane.worker)
  /\ UNCHANGED <<left, ingress, wakes, stop, input, detached, closed, slots, closing, run,
                 quiet, reports>>

(***************************************************************************)
(* What the owner goes on with: the first of these that is due. A Handoff   *)
(* whose child was joined is settled before next_update, and begin_shutdown *)
(* has an order of its own.                                                 *)
(***************************************************************************)

Finished == {w \in Workers : slots[w].at = "finished"}
Ready == {w \in Workers : wakes[w].at = "ready" /\ run[w].normal = "none"}
Queueable == {w \in Workers : wakes[w].at = "waiting" /\ run[w].normal = "none"}
ColdHandoff == Some(handoff) /\ slots[handoff.worker].at = "joined"
OtherStop == Some(stop) /\ Some(input) /\ stop.worker # input.worker

DueInUpdates ==
  IF Some(ingress) THEN "ingress"
  ELSE IF ColdHandoff THEN "handoff"
  ELSE IF Finished # {} THEN "join"
  ELSE IF detached # 0 THEN "detached"
  ELSE IF OtherStop THEN "stop"
  ELSE IF Some(input) THEN "input"
  ELSE IF Some(handoff) THEN "handoff"
  ELSE IF Some(stop) THEN "stop"
  ELSE IF Some(schedule) THEN "schedule"
  ELSE IF Ready # {} THEN "wake"
  ELSE IF Queueable # {} THEN "queue" ELSE "updates"
DueInShutdown ==
  IF Some(ingress) THEN "ingress"
  ELSE IF Some(handoff) THEN "handoff"
  ELSE IF Some(stop) THEN "stop"
  ELSE IF detached # 0 THEN "detached"
  ELSE IF Some(schedule) THEN "schedule"
  ELSE IF Some(input) THEN "input" ELSE "close"
Focus ==
  IF closing = "settling" THEN DueInShutdown
  ELSE IF closing = "finished" THEN "nothing" ELSE DueInUpdates

\* A Handoff joins the Stop of its own child, or the schedule of any child, and
\* a Stop joins the schedule and the input of its child.
ServesHandoff ==
  Some(handoff) /\ (Focus = "handoff" \/ (Focus = "ingress" /\ handoff.tool))
JoinsStop ==
  ServesHandoff /\ handoff.at = "settle" /\ Some(stop) /\ stop.worker = handoff.worker
ServesStop == Focus = "stop" \/ JoinsStop
JoinsSchedule == ServesHandoff /\ handoff.at = "settle" /\ stop = None /\ Some(schedule)
StopJoinsSchedule ==
  ServesStop /\ ~stop.sent /\ Some(schedule) /\ schedule.worker = stop.worker
ServesSchedule == Focus = "schedule" \/ JoinsSchedule \/ StopJoinsSchedule
StopJoinsInput ==
  /\ ServesStop /\ ~stop.sent /\ ~StopJoinsSchedule
  /\ Some(input) /\ input.worker = stop.worker
ServesInput == Focus = "input" \/ StopJoinsInput

\* The result of a Handoff goes to the tool that asked for it, and a failed one
\* stays pending until it fails once more without a tool.
HandoffFails ==
  IF handoff.tool THEN ingress' = None /\ handoff' = [handoff EXCEPT !.tool = FALSE]
                  ELSE handoff' = None /\ UNCHANGED ingress
HandoffGone ==
  handoff' = None /\ ingress' = IF handoff.tool THEN None ELSE ingress

Without(w) == [wakes EXCEPT ![w] = NoWake]

(***************************************************************************)
(* Schedules. drive_ready_wake reserves the normal lane of the child, sends *)
(* the request to the writer and then the execution to the child.           *)
(***************************************************************************)

\* The refusals of schedule_inner. A busy owner keeps the wake for later.
WakeRefused(w) ==
  /\ Focus = "wake" /\ w \in Ready
  /\ closing = "closing" \/ w \in closed \/ run[w].task = "gone"
  /\ wakes' = Without(w) /\ owed' = owed \ {w}
  /\ UNCHANGED <<left, ingress, admission, schedule, stop, input, detached, handoff, closed,
                 slots, closing, lane, run, ledger, permit, quiet, reports>>

WakeDeferred(w) ==
  /\ Focus = "wake" /\ w \in Ready
  /\ closing = "open" /\ w \notin closed /\ run[w].task # "gone" /\ Some(lane)
  /\ wakes' = [wakes EXCEPT ![w].at = "deferred"]
  /\ UNCHANGED <<left, ingress, admission, schedule, stop, input, detached, handoff, closed,
                 slots, closing, lane, run, ledger, permit, quiet, owed, reports>>

BeginSchedule(w) ==
  /\ Focus = "wake" /\ w \in Ready
  /\ closing = "open" /\ w \notin closed /\ run[w].task # "gone" /\ lane = None
  /\ run' = [run EXCEPT ![w].normal = "reserved"]
  /\ lane' = [worker |-> w, cmd |-> "schedule"]
  /\ schedule' = [worker |-> w, hint |-> wakes[w].hint, at |-> "writer"]
  /\ UNCHANGED <<left, ingress, admission, wakes, stop, input, detached, handoff, closed,
                 slots, closing, ledger, permit, quiet, owed, reports>>

\* wait_writable: the lane has room again.
WakesResume ==
  /\ Focus = "updates" /\ lane = None
  /\ \E w \in Workers : wakes[w].at = "deferred"
  /\ wakes' = [w \in Workers |->
                IF wakes[w].at = "deferred" THEN [wakes[w] EXCEPT !.at = "ready"] ELSE wakes[w]]
  /\ UNCHANGED <<left, ingress, admission, schedule, stop, input, detached, handoff, closed,
                 slots, closing, lane, run, ledger, permit, quiet, owed, reports>>

SendStart ==
  /\ ServesSchedule /\ schedule.at = "prepared"
  /\ schedule' = [schedule EXCEPT !.at = "sent"]
  /\ run' = [run EXCEPT ![schedule.worker].normal = "start",
                        ![schedule.worker].hint = schedule.hint]
  /\ UNCHANGED <<left, ingress, admission, wakes, stop, input, detached, handoff, closed,
                 slots, closing, lane, ledger, permit, quiet, owed, reports>>

\* The wake the schedule was made from is used up, whatever came of it, when
\* next_update is what finishes the schedule.
ScheduleUsesWake ==
  LET w == schedule.worker
      used == /\ Focus = "schedule" /\ closing # "settling"
              /\ wakes[w].at \in {"ready", "deferred"} /\ wakes[w].hint = schedule.hint IN
  /\ wakes' = IF used THEN Without(w) ELSE wakes
  /\ owed' = IF used /\ schedule.at # "started" THEN owed \ {w} ELSE owed

FinishSchedule ==
  /\ ServesSchedule /\ schedule.at \in {"refused", "started", "failed"}
  /\ schedule' = None
  /\ run' = IF schedule.at = "refused"
              THEN [run EXCEPT ![schedule.worker].normal = "none"] ELSE run
  /\ ScheduleUsesWake
  /\ LET failed == schedule.at # "started" IN
     /\ stop' = IF StopJoinsSchedule /\ failed THEN None ELSE stop
     /\ IF (JoinsSchedule \/ (JoinsStop /\ StopJoinsSchedule)) /\ failed THEN HandoffFails
        ELSE /\ handoff' = IF JoinsSchedule THEN [handoff EXCEPT !.at = "stop"] ELSE handoff
             /\ UNCHANGED ingress
  /\ UNCHANGED <<left, admission, input, detached, closed, slots, closing, lane, ledger,
                 permit, quiet, reports>>

(***************************************************************************)
(* Stops and the inputs of the user.                                        *)
(***************************************************************************)

\* runner.begin_stop: a Stop already sent is waited for again.
CanSendStop(w) ==
  run[w].reply # "none" \/ (run[w].control = "none" /\ run[w].task # "gone")
StopSent(w) ==
  IF run[w].reply # "none" THEN run
  ELSE [run EXCEPT ![w].control = "stop", ![w].reply = "waiting"]

\* Outside the rare outcomes nothing is asked of a closing child whose last updates
\* the channel has no room for.
Reachable(w) == run[w].task # "closing" \/ HasRoom(w) \/ "blocked_child_asked" \in Races

\* Mutant: the wake of a stopped child stays.
BeginStopKeepingWake(w) ==
  /\ closing = "open" /\ left.stop > 0 /\ stop = None /\ Reachable(w)
  /\ left' = [left EXCEPT !.stop = @ - 1]
  /\ LET joins == \/ Some(schedule) /\ schedule.worker = w
                  \/ Some(input) /\ input.worker = w
         accepted == slots[w].at = "live" /\ (joins \/ CanSendStop(w)) IN
     /\ stop' = IF accepted THEN [worker |-> w, sent |-> ~joins, input |-> 0] ELSE None
     /\ run' = IF accepted /\ ~joins THEN StopSent(w) ELSE run
  /\ UNCHANGED <<ingress, admission, wakes, schedule, input, detached, handoff, closed, slots,
                 closing, lane, ledger, permit, quiet, owed, reports>>

\* begin_stop: the wake goes before anything else is decided.
BeginStop(w) ==
  /\ closing = "open" /\ left.stop > 0 /\ stop = None /\ Reachable(w)
  /\ left' = [left EXCEPT !.stop = @ - 1]
  /\ wakes' = Without(w) /\ owed' = owed \ {w}
  /\ LET joins == \/ Some(schedule) /\ schedule.worker = w
                  \/ Some(input) /\ input.worker = w
         accepted == slots[w].at = "live" /\ (joins \/ CanSendStop(w)) IN
     /\ stop' = IF accepted THEN [worker |-> w, sent |-> ~joins, input |-> 0] ELSE None
     /\ run' = IF accepted /\ ~joins THEN StopSent(w) ELSE run
  /\ UNCHANGED <<ingress, admission, schedule, input, detached, handoff, closed, slots,
                 closing, lane, ledger, permit, quiet, reports>>

\* A Stop whose answer a Handoff of the child has taken is sent once more.
SendStop ==
  /\ ServesStop /\ ~StopJoinsSchedule /\ ~StopJoinsInput
  /\ IF stop.sent THEN run[stop.worker].reply = "none" ELSE slots[stop.worker].at = "live"
  /\ CanSendStop(stop.worker)
  /\ stop' = [stop EXCEPT !.sent = TRUE]
  /\ run' = StopSent(stop.worker)
  /\ UNCHANGED <<left, ingress, admission, wakes, schedule, input, detached, handoff, closed,
                 slots, closing, lane, ledger, permit, quiet, owed, reports>>

Told(i) == IF i = 0 THEN reports ELSE [reports EXCEPT ![i] = @ + 1]

\* Mutant: the answer goes with the Stop.
StopFailsForgetting ==
  /\ stop' = None /\ UNCHANGED detached
  /\ IF JoinsStop THEN HandoffFails ELSE UNCHANGED <<ingress, handoff>>

\* The answer to an input the Stop had joined is kept when the Stop fails.
StopFails ==
  /\ stop' = None
  /\ detached' = IF stop.input # 0 THEN stop.input ELSE detached
  /\ IF JoinsStop THEN HandoffFails ELSE UNCHANGED <<ingress, handoff>>

StopUnsent ==
  /\ ServesStop /\ ~StopJoinsSchedule /\ ~StopJoinsInput
  /\ (~stop.sent /\ slots[stop.worker].at # "live") \/ ~CanSendStop(stop.worker)
  /\ StopFails
  /\ UNCHANGED <<left, admission, wakes, schedule, input, closed, slots, closing, lane, run,
                 ledger, permit, quiet, owed, reports>>

FinishStop ==
  /\ ServesStop /\ stop.sent /\ run[stop.worker].reply \in {"ok", "failed"}
  /\ run' = [run EXCEPT ![stop.worker].reply = "none"]
  /\ \/ /\ run[stop.worker].reply = "failed" /\ StopFails
        /\ UNCHANGED <<quiet, reports>>
     \/ /\ run[stop.worker].reply = "ok" /\ stop' = None
        /\ quiet' = quiet \cup {stop.worker} /\ reports' = Told(stop.input)
        /\ handoff' = IF JoinsStop THEN [handoff EXCEPT !.at = "append"] ELSE handoff
        /\ UNCHANGED <<detached, ingress>>
  /\ UNCHANGED <<left, admission, wakes, schedule, input, closed, slots, closing, lane, ledger,
                 permit, owed>>

\* begin_user_input: refused while another operation is pending.
GiveInput(w) ==
  /\ closing = "open" /\ left.input > 0 /\ Reachable(w)
  /\ input = None /\ stop = None /\ handoff = None /\ detached = 0
  /\ w \in Addressed /\ ledger[w].user /\ slots[w].at = "live" /\ run[w].task # "gone" /\ ~run[w].typed
  /\ left' = [left EXCEPT !.input = @ - 1]
  /\ run' = [run EXCEPT ![w].typed = TRUE]
  /\ input' = [worker |-> w, id |-> MaxInputs - left'.input, told |-> FALSE]
  /\ UNCHANGED <<ingress, admission, wakes, schedule, stop, detached, handoff, closed, slots,
                 closing, lane, ledger, permit, quiet, owed, reports>>

FinishInput ==
  /\ ServesInput /\ input.told
  /\ input' = None
  /\ IF StopJoinsInput THEN stop' = [stop EXCEPT !.input = input.id] /\ UNCHANGED reports
                       ELSE reports' = Told(input.id) /\ UNCHANGED stop
  /\ UNCHANGED <<left, ingress, admission, wakes, schedule, detached, handoff, closed, slots,
                 closing, lane, run, ledger, permit, quiet, owed>>

TellDetached ==
  /\ Focus = "detached"
  /\ reports' = Told(detached) /\ detached' = 0
  /\ UNCHANGED <<left, ingress, admission, wakes, schedule, stop, input, handoff, closed,
                 slots, closing, lane, run, ledger, permit, quiet, owed>>

(***************************************************************************)
(* Tool commands (advance_pending_ingress): mail from Main with the wake of *)
(* its recipient, and the Handoff of a child.                               *)
(***************************************************************************)

\* The hint names the runner that is live when the command is prepared.
Receive(kind, w) ==
  /\ closing = "open" /\ ingress = None
  /\ left[kind] > 0 /\ left' = [left EXCEPT ![kind] = @ - 1]
  /\ IF kind = "mail" THEN w \in Mailed ELSE Reachable(w)
  /\ ingress' = [worker |-> w, kind |-> kind,
                 hint |-> IF kind = "mail" /\ slots[w].at = "live"
                            THEN MaxMail - left'.mail ELSE 0]
  /\ UNCHANGED <<admission, wakes, schedule, stop, input, detached, handoff, closed, slots,
                 closing, lane, run, ledger, permit, quiet, owed, reports>>

\* admit: a pending Handoff refuses any other admission.
AdmitMail ==
  /\ Focus = "ingress" /\ ingress.kind = "mail"
  /\ \/ /\ Some(handoff) /\ ingress' = None
        /\ UNCHANGED <<lane, admission>>
     \/ /\ handoff = None /\ admission = None /\ lane = None
        /\ lane' = [worker |-> ingress.worker, cmd |-> "mail"]
        /\ admission' = [worker |-> ingress.worker, reply |-> "waiting"]
        /\ UNCHANGED ingress
  /\ UNCHANGED <<left, wakes, schedule, stop, input, detached, handoff, closed, slots,
                 closing, run, ledger, permit, quiet, owed, reports>>

\* wake: one retained wake per child, a later hint coalesces with it.
WakeAdmitted(w) ==
  /\ ingress.hint # 0 /\ slots[w].at = "live" /\ stop.worker # w /\ w \notin closed
  /\ wakes[w].at # "none" \/ run[w].task # "gone"
NewWake(w) ==
  [at |-> IF run[w].normal = "none" THEN "queued" ELSE "waiting", hint |-> ingress.hint]

FinishMail ==
  /\ Focus = "ingress" /\ ingress.kind = "mail" /\ handoff = None /\ Some(admission)
  /\ admission.reply = "ok" /\ admission' = None /\ ingress' = None
  /\ LET w == ingress.worker
         new == WakeAdmitted(w) /\ wakes[w].at = "none" IN
     /\ wakes' = IF ~WakeAdmitted(w) THEN wakes
                 ELSE [wakes EXCEPT ![w] = IF new THEN NewWake(w)
                                   ELSE [wakes[w] EXCEPT !.at = IF @ = "deferred" THEN "ready"
                                                                ELSE @]]
     /\ run' = IF new /\ run[w].normal = "none"
                 THEN [run EXCEPT ![w].normal = "wake", ![w].hint = ingress.hint] ELSE run
     /\ quiet' = IF WakeAdmitted(w) THEN quiet \ {w} ELSE quiet
     /\ owed' = IF WakeAdmitted(w) /\ ledger[w].sent > ledger[w].read
                  THEN owed \cup {w} ELSE owed
  /\ UNCHANGED <<left, schedule, stop, input, detached, handoff, closed, slots, closing, lane,
                 ledger, permit, reports>>

(***************************************************************************)
(* A Handoff: preflight, the work it settles, the Stop it sends, and the    *)
(* append. Every stage is gone on with by whoever comes next.               *)
(***************************************************************************)

NewHandoff(w, tool) == [worker |-> w, tool |-> tool, at |-> "preflight"]

\* Only a child Main controls can be named by the tool.
BeginHandoff ==
  /\ Focus = "ingress" /\ ingress.kind = "handoff" /\ ~(Some(handoff) /\ handoff.tool)
  /\ IF Some(handoff) \/ ledger[ingress.worker].user
       THEN ingress' = None /\ UNCHANGED handoff
       ELSE handoff' = NewHandoff(ingress.worker, TRUE) /\ UNCHANGED ingress
  /\ UNCHANGED <<left, admission, wakes, schedule, stop, input, detached, closed, slots,
                 closing, lane, run, ledger, permit, quiet, owed, reports>>

\* The exact attempt of a Handoff that is durable, repeated by a direct caller
\* who drops the future at once.
RepeatHandoff(w) ==
  /\ closing = "open" /\ left.drop > 0 /\ handoff = None /\ admission = None
  /\ ledger[w].user /\ Reachable(w)
  /\ left' = [left EXCEPT !.drop = @ - 1]
  /\ handoff' = NewHandoff(w, FALSE)
  /\ UNCHANGED <<ingress, admission, wakes, schedule, stop, input, detached, closed, slots,
                 closing, lane, run, ledger, permit, quiet, owed, reports>>

\* A busy lane ends the Handoff here; one without a runner waits for room.
AskPreflight ==
  /\ ServesHandoff /\ handoff.at = "preflight"
  /\ \/ /\ lane = None /\ lane' = [worker |-> handoff.worker, cmd |-> "preflight"]
        /\ handoff' = [handoff EXCEPT !.at = "asked"]
        /\ UNCHANGED ingress
     \/ /\ Some(lane) /\ (handoff.tool \/ ~ColdHandoff) /\ HandoffGone
        /\ UNCHANGED lane
  /\ UNCHANGED <<left, admission, wakes, schedule, stop, input, detached, closed, slots,
                 closing, run, ledger, permit, quiet, owed, reports>>

DropFuture ==
  /\ closing = "open" /\ left.drop > 0
  /\ Some(handoff) /\ handoff.at \in {"asked", "answered"}
  /\ left' = [left EXCEPT !.drop = @ - 1]
  /\ handoff' = [handoff EXCEPT !.at = "preflight"]
  /\ UNCHANGED <<ingress, admission, wakes, schedule, stop, input, detached, closed, slots,
                 closing, lane, run, ledger, permit, quiet, owed, reports>>

\* Mutant: a durable Handoff settles the child as a new one does.
CloseAdmissionAlike ==
  /\ ServesHandoff /\ handoff.at = "answered"
  /\ closed' = closed \cup {handoff.worker}
  /\ wakes' = Without(handoff.worker) /\ owed' = owed \ {handoff.worker}
  /\ handoff' = [handoff EXCEPT !.at = "settle"]
  /\ UNCHANGED <<left, ingress, admission, schedule, stop, input, detached, slots, closing,
                 lane, run, ledger, permit, quiet, reports>>

\* Normal admission is closed and the wake goes. A durable Handoff has nothing
\* to settle: the child's work is the user's.
CloseAdmission ==
  /\ ServesHandoff /\ handoff.at = "answered"
  /\ closed' = closed \cup {handoff.worker}
  /\ wakes' = Without(handoff.worker) /\ owed' = owed \ {handoff.worker}
  /\ handoff' = [handoff EXCEPT !.at = IF ledger[handoff.worker].user THEN "append"
                                       ELSE "settle"]
  /\ UNCHANGED <<left, ingress, admission, schedule, stop, input, detached, slots, closing,
                 lane, run, ledger, permit, quiet, reports>>

HandoffMeetsStop ==
  /\ ServesHandoff /\ handoff.at = "settle" /\ Some(stop) /\ stop.worker # handoff.worker
  /\ HandoffFails
  /\ UNCHANGED <<left, admission, wakes, schedule, stop, input, detached, closed, slots,
                 closing, lane, run, ledger, permit, quiet, owed, reports>>

\* Mutant: only a Stop is settled, not a schedule on its way.
NothingToSettleButStop ==
  /\ ServesHandoff /\ handoff.at = "settle" /\ stop = None
  /\ handoff' = [handoff EXCEPT !.at = "stop"]
  /\ UNCHANGED <<left, ingress, admission, wakes, schedule, stop, input, detached, closed,
                 slots, closing, lane, run, ledger, permit, quiet, owed, reports>>

NothingToSettle ==
  /\ ServesHandoff /\ handoff.at = "settle" /\ stop = None /\ schedule = None
  /\ handoff' = [handoff EXCEPT !.at = "stop"]
  /\ UNCHANGED <<left, ingress, admission, wakes, schedule, stop, input, detached, closed,
                 slots, closing, lane, run, ledger, permit, quiet, owed, reports>>

HandoffStops ==
  /\ ServesHandoff /\ handoff.at = "stop"
  /\ LET w == handoff.worker
         live == slots[w].at = "live"
         refused == live /\ ~CanSendStop(w) IN
     /\ live => run[w].reply = "none"
     /\ IF refused THEN HandoffFails
        ELSE /\ handoff' = IF live THEN handoff ELSE [handoff EXCEPT !.at = "append"]
             /\ UNCHANGED ingress
     /\ run' = IF live /\ ~refused THEN StopSent(w) ELSE run
  /\ UNCHANGED <<left, admission, wakes, schedule, stop, input, detached, closed, slots,
                 closing, lane, ledger, permit, quiet, owed, reports>>

HandoffStopped ==
  /\ ServesHandoff /\ handoff.at = "stop" /\ slots[handoff.worker].at = "live"
  /\ LET w == handoff.worker IN
     /\ run[w].reply \in {"ok", "failed"} /\ run' = [run EXCEPT ![w].reply = "none"]
     /\ IF run[w].reply = "failed" THEN HandoffFails /\ UNCHANGED quiet
        ELSE /\ handoff' = [handoff EXCEPT !.at = "append"]
             /\ quiet' = quiet \cup {w} /\ UNCHANGED ingress
  /\ UNCHANGED <<left, admission, wakes, schedule, stop, input, detached, closed, slots,
                 closing, lane, ledger, permit, owed, reports>>

\* Only this owner fills the lane, and the preflight has emptied it.
AppendHandoff ==
  /\ ServesHandoff /\ handoff.at = "append" /\ admission = None /\ lane = None
  /\ lane' = [worker |-> handoff.worker, cmd |-> "handoff"]
  /\ admission' = [worker |-> handoff.worker, reply |-> "waiting"]
  /\ UNCHANGED <<left, ingress, wakes, schedule, stop, input, detached, handoff, closed, slots,
                 closing, run, ledger, permit, quiet, owed, reports>>

FinishHandoff ==
  /\ ServesHandoff /\ handoff.at = "append" /\ Some(admission)
  /\ admission.reply # "waiting" /\ admission' = None
  /\ IF admission.reply = "ok" THEN HandoffGone ELSE HandoffFails
  /\ UNCHANGED <<left, wakes, schedule, stop, input, detached, closed, slots, closing, lane,
                 run, ledger, permit, quiet, owed, reports>>

(***************************************************************************)
(* Updates of the runners, and the shutdown of the owner.                   *)
(***************************************************************************)

QueueWake(w) ==
  /\ Focus = "queue" /\ w \in Queueable
  /\ IF run[w].task = "gone"
       THEN wakes' = Without(w) /\ owed' = owed \ {w} /\ UNCHANGED run
       ELSE /\ wakes' = [wakes EXCEPT ![w].at = "queued"]
            /\ run' = [run EXCEPT ![w].normal = "wake", ![w].hint = wakes[w].hint]
            /\ UNCHANGED owed
  /\ UNCHANGED <<left, ingress, admission, schedule, stop, input, detached, handoff, closed,
                 slots, closing, lane, ledger, permit, quiet, reports>>

\* Any update lets the deferred wakes try again.
Resumed == [w \in Workers |-> IF wakes[w].at = "deferred" THEN [wakes[w] EXCEPT !.at = "ready"]
                              ELSE wakes[w]]
AcceptsSnapshot(w, hint) == wakes[w].at # "none" /\ wakes[w].hint = hint

Consume(w) ==
  /\ Focus = "updates" /\ slots[w].at = "live" /\ run[w].out # <<>>
  /\ run' = [run EXCEPT ![w].out = Tail(@)]
  /\ LET update == Head(run[w].out)
         last == update.kind \in {"finished", "failed"} IN
     /\ slots' = IF last THEN [slots EXCEPT ![w].at = "finished"] ELSE slots
     /\ owed' = IF last THEN owed \ {w} ELSE owed
     /\ wakes' = IF last THEN [Resumed EXCEPT ![w] = NoWake]
                 ELSE IF update.kind = "wake" /\ AcceptsSnapshot(w, update.hint)
                 THEN [Resumed EXCEPT ![w].at = "ready"] ELSE Resumed
  /\ UNCHANGED <<left, ingress, admission, schedule, stop, input, detached, handoff, closed,
                 closing, lane, ledger, permit, quiet, reports>>

Join(w) ==
  /\ Focus = "join" /\ w \in Finished /\ run[w].task = "gone"
  /\ slots' = [slots EXCEPT ![w].at = "joined"]
  /\ UNCHANGED <<left, ingress, admission, wakes, schedule, stop, input, detached, handoff,
                 closed, closing, lane, run, ledger, permit, quiet, owed, reports>>

BeginShutdown ==
  /\ closing = "open" /\ closing' = "settling"
  /\ wakes' = [w \in Workers |-> NoWake] /\ owed' = {}
  /\ UNCHANGED <<left, ingress, admission, schedule, stop, input, detached, handoff, closed,
                 slots, lane, run, ledger, permit, quiet, reports>>

\* A runner whose control lane is taken or gone is not asked a second time.
CloseRunners ==
  /\ Focus = "close" /\ closing' = "closing"
  /\ LET asked == {w \in Workers : /\ slots[w].at = "live" /\ run[w].control = "none"
                                   /\ run[w].task # "gone"} IN
     /\ run' = [w \in Workers |->
                 IF w \in asked THEN [run[w] EXCEPT !.control = "shutdown"] ELSE run[w]]
     /\ slots' = [w \in Workers |->
                   IF w \in asked THEN [slots[w] EXCEPT !.asked = TRUE] ELSE slots[w]]
  /\ UNCHANGED <<left, ingress, admission, wakes, schedule, stop, input, detached, handoff,
                 closed, lane, ledger, permit, quiet, owed, reports>>

FinishShutdown ==
  /\ closing = "closing" /\ Focus = "updates"
  /\ \A w \in Workers : slots[w].at = "joined" /\ wakes[w].at = "none"
  /\ closing' = "finished"
  /\ UNCHANGED <<left, ingress, admission, wakes, schedule, stop, input, detached, handoff,
                 closed, slots, lane, run, ledger, permit, quiet, owed, reports>>

Ended == closing = "finished" /\ UNCHANGED vars

(***************************************************************************)

OwnerStep ==
  \/ WakesResume \/ SendStart \/ FinishSchedule
  \/ SendStop \/ StopUnsent \/ FinishStop \/ FinishInput \/ TellDetached
  \/ AdmitMail \/ FinishMail \/ BeginHandoff \/ AskPreflight \/ CloseAdmission
  \/ HandoffMeetsStop \/ NothingToSettle \/ HandoffStops \/ HandoffStopped
  \/ AppendHandoff \/ FinishHandoff \/ CloseRunners \/ FinishShutdown
  \/ \E w \in Workers :
       \/ WakeRefused(w) \/ WakeDeferred(w) \/ BeginSchedule(w)
       \/ QueueWake(w) \/ Consume(w) \/ Join(w)

Call ==
  \/ BeginShutdown \/ DropFuture
  \/ \E w \in Workers :
       \/ BeginStop(w) \/ GiveInput(w) \/ RepeatHandoff(w)
       \/ \E kind \in {"mail", "handoff"} : Receive(kind, w)

Next ==
  \/ WriterStep \/ OwnerStep \/ Call \/ Ended
  \/ \E w \in Workers :
       ChildServes(w) \/ TurnGoesOn(w) \/ TurnEnds(w) \/ RuntimeFails(w)

\* The writer and the child tasks are scheduled, and the application goes on
\* awaiting the owner. Nothing makes a turn end, a call arrive or a runtime fail.
Fairness ==
  /\ WF_vars(WriterStep) /\ WF_vars(OwnerStep)
  /\ \A w \in Workers : WF_vars(ChildServes(w))

Spec == Init /\ [][Next]_vars /\ Fairness

(***************************************************************************)
(* Properties.                                                              *)
(***************************************************************************)

\* A Handoff reaches the ledger only when nothing Main started is left in the
\* child: no execution reserved, queued or running. So begin_release never has
\* to refuse it, and no turn of Main runs in a child the user controls (SCH-4:
\* settles queued and active work and only then appends).
HandoffQuiescent ==
  \A w \in Workers :
    (lane.worker = w /\ lane.cmd = "handoff") \/ ledger[w].user =>
      w \notin permit /\ run[w].normal # "start" /\ run[w].turn # "main"

\* Once the Stop of a child has been answered, no turn of Main is queued or runs
\* in it until mail wakes it again: a wake in the lane, a snapshot on its way and
\* a schedule at the writer cannot restart it (SCH-4: late activity cannot
\* restart it).
StopHolds ==
  \A w \in quiet : run[w].normal # "start" /\ run[w].turn # "main"

\* The authority to execute in a child is reserved exactly while one party holds
\* it: the answer of the writer the owner has yet to pass on, the command in the
\* lane of the child, or the turn it runs. Refusals, Stops, failures and closing
\* give it back (SCH-3: owns authority exactly once). The rest of the state keeps its type.
AuthorityHeld ==
  /\ TypeOK
  /\ \A w \in Workers :
       LET prepared == schedule.worker = w /\ schedule.at = "prepared"
           queued   == run[w].normal = "start"
           running  == run[w].turn = "main" IN
       /\ w \in permit <=> prepared \/ queued \/ running
       /\ ~(prepared /\ queued) /\ ~(prepared /\ running) /\ ~(queued /\ running)

\* The outcome of an accepted input is told once, or waits in exactly one place:
\* with the input, with the Stop that joined it, or detached from a Stop that
\* failed. No Stop, failure or shutdown loses it or tells it twice (SCH-2:
\* shutdown retains its exact settlement and draft).
InputsReported ==
  \A i \in Inputs :
    Cardinality({p \in {<<"input", Some(input) /\ input.id = i>>,
                        <<"stop", Some(stop) /\ stop.input = i>>,
                        <<"detached", detached = i>>} : p[2]}) + reports[i]
      = IF i <= MaxInputs - left.input THEN 1 ELSE 0

\* A child the user controls is stopped only by a Stop someone asked for: an
\* exact Handoff that is repeated returns without touching it (SCH-4: without
\* stopping User-owned work).
UserWorkSpared ==
  [][\A w \in Workers :
       ledger[w].user /\ run[w].control # "stop" /\ run'[w].control = "stop"
         => stop'.worker = w /\ stop'.sent]_vars

\* Once begun, the shutdown of the owner joins every runner (SCH-4: resumes what
\* is retained, joins every runner and then the writer).
ShutdownJoins == closing = "settling" ~> closing = "finished"

\* Whatever the owner has accepted comes to an end, with no caller to wait for it
\* and no turn that ends by itself: once the calls are over, no Stop, Handoff,
\* input, schedule, tool command or shutdown is left half done. They join each
\* other without waiting in a circle, although the owner takes no update of a
\* runner meanwhile (SCH-2: control retains reserved progress; SCH-4).
Settled ==
  /\ ingress = None /\ handoff = None /\ stop = None /\ input = None /\ schedule = None
  /\ closing \in {"open", "finished"}
Settles == <>[]Settled

\* A child with mail it has not read, whose wake was accepted and not refused or
\* discarded since, still has a wake (SCH-5: busy and cancelled work retains the
\* exact obligation).
ObligationKept == \A w \in owed : wakes[w].at # "none"
====
