----------------------- MODULE OwnedScheduling_proofs -----------------------
(***************************************************************************)
(* What the scheduling owner guarantees for any children, any number of     *)
(* calls and every way to drop their futures: the authority to execute is   *)
(* held once, a Handoff and a Stop leave nothing of Main behind, and the    *)
(* outcome of an input is told once. Each follows from where the pieces of  *)
(* one operation are while it is under way: at the owner, in the lane of    *)
(* the writer, in the lane of the child, or in its answer.                  *)
(***************************************************************************)
EXTENDS OwnedScheduling, FiniteSetTheorems, TLAPS

\* The schedule the owner retains is the one of child w.
ScheduleOf(w) == schedule # None /\ schedule.worker = w
HandoffOf(w) == handoff # None /\ handoff.worker = w

-----------------------------------------------------------------------------
(* The inductive invariant.                                                 *)

\* No update of the channel is a last one.
OnTheWay(out) == \A i \in DOMAIN out : out[i].kind \in {"event", "wake"}

\* The channel of a child has room for the two updates of closing, and only a
\* child that left its loop has given a last update.
ChannelBounded ==
  \A w \in Workers :
    /\ run[w].task = "loop" => Len(run[w].out) <= 2
    /\ run[w].task = "loop" => OnTheWay(run[w].out)
    /\ run[w].task # "loop" => run[w].turn = "idle"
    /\ slots[w].at # "live" => run[w].task # "loop"

\* A schedule is in the lane of the writer, or has its place in the lane of its child.
ScheduleInLanes ==
  /\ lane # None /\ lane.cmd = "schedule" => ScheduleOf(lane.worker) /\ schedule.at = "writer"
  /\ schedule # None /\ schedule.at = "writer" =>
       lane = [worker |-> schedule.worker, cmd |-> "schedule"]
  /\ \A w \in Workers :
       /\ run[w].normal = "reserved" <=>
            ScheduleOf(w) /\ schedule.at \in {"writer", "prepared", "refused"}
       /\ run[w].normal = "start" <=> ScheduleOf(w) /\ schedule.at = "sent"

\* AuthorityHeld without the type.
AuthorityOnce ==
  \A w \in Workers :
    LET prepared == ScheduleOf(w) /\ schedule.at = "prepared"
        queued   == run[w].normal = "start"
        running  == run[w].turn = "main" IN
    /\ w \in permit <=> prepared \/ queued \/ running
    /\ ~(prepared /\ queued) /\ ~(prepared /\ running) /\ ~(queued /\ running)

\* An admission at the writer is of the mail or the Handoff that waits for it.
AdmissionOwned ==
  /\ admission # None =>
       \/ /\ ingress # None /\ ingress.kind = "mail" /\ handoff = None
          /\ admission.worker = ingress.worker
       \/ HandoffOf(admission.worker) /\ handoff.at = "append"
  /\ lane # None /\ lane.cmd = "mail" =>
       /\ admission = [worker |-> lane.worker, reply |-> "waiting"]
       /\ ingress # None /\ ingress.kind = "mail" /\ handoff = None
  /\ lane # None /\ lane.cmd = "handoff" =>
       /\ admission = [worker |-> lane.worker, reply |-> "waiting"]
       /\ HandoffOf(lane.worker) /\ handoff.at = "append"

\* Mail that is accepted and not yet in the ledger was counted when it was sent.
Unwritten ==
  /\ ingress # None /\ ingress.kind = "mail"
  /\ ~(handoff = None /\ admission # None /\ admission.reply # "waiting")
MailCounted ==
  \A w \in Workers : ledger[w].sent + left.mail + (IF Unwritten THEN 1 ELSE 0) <= MaxMail

\* The input in the lane of a child is the one the owner waits for, and the user
\* controls the child.
TypedOwned ==
  \A w \in Workers :
    run[w].typed => input # None /\ input.worker = w /\ ~input.told /\ ledger[w].user

\* At most one input waits to be told.
Waits(i) ==
  \/ input # None /\ input.id = i
  \/ stop # None /\ stop.input = i
  \/ detached = i
InputInOnePlace ==
  /\ stop # None /\ stop.input # 0 => input = None
  /\ detached # 0 => input = None /\ (stop # None => stop.input = 0)
  /\ stop # None /\ stop.input # 0 /\ ~stop.sent => ~ScheduleOf(stop.worker)
  /\ \A i \in Inputs :
       /\ Waits(i) => i <= MaxInputs - left.input
       /\ reports[i] = IF i > MaxInputs - left.input \/ Waits(i) THEN 0 ELSE 1

\* A Stop is answered for the Stop or the Handoff that asked for it, and while it is,
\* no turn of Main can be on its way to the child.
StopAnswered ==
  /\ \A w \in Workers :
       /\ run[w].reply # "none" =>
            /\ slots[w].at = "live"
            /\ \/ stop # None /\ stop.worker = w /\ stop.sent
               \/ HandoffOf(w) /\ handoff.at = "stop"
       /\ run[w].reply = "ok" => run[w].turn # "main"
       /\ run[w].control = "stop" => run[w].reply = "waiting"
  /\ stop # None =>
       /\ wakes[stop.worker].at = "none"
       /\ stop.sent => slots[stop.worker].at = "live" /\ ~ScheduleOf(stop.worker)

\* Nothing of Main is in the child, or on its way to it.
Quiescent(w) ==
  /\ w \notin permit /\ run[w].turn # "main" /\ run[w].normal # "start"
  /\ ScheduleOf(w) => schedule.at \notin {"prepared", "sent"}
  /\ ScheduleOf(w) /\ schedule.at = "writer" => ledger[w].user

HandoffSettles ==
  /\ \A w \in Workers : w \in closed => wakes[w].at = "none"
  /\ \A w \in Workers : ledger[w].user => Quiescent(w)
  /\ handoff # None =>
       /\ handoff.at \in {"settle", "stop", "append"} => handoff.worker \in closed
       /\ handoff.at \in {"settle", "stop"} => ~ledger[handoff.worker].user
       /\ handoff.at = "stop" => ~ScheduleOf(handoff.worker)
       /\ handoff.at = "append" => Quiescent(handoff.worker)

\* A child that was stopped has no wake, and no schedule that could still start it.
QuietKept ==
  \A w \in Workers : w \in quiet =>
    /\ run[w].normal # "start" /\ run[w].turn # "main"
    /\ wakes[w].at = "none"
    /\ ScheduleOf(w) => schedule.at \notin {"writer", "prepared", "sent"}

IInv ==
  /\ TypeOK /\ ChannelBounded /\ ScheduleInLanes /\ AuthorityOnce /\ AdmissionOwned
  /\ MailCounted /\ TypedOwned /\ InputInOnePlace /\ StopAnswered /\ HandoffSettles /\ QuietKept

-----------------------------------------------------------------------------
(* What the owner goes on with                                              *)

LEMMA FocusFacts ==
  /\ Focus \in {"updates", "wake", "queue", "close"} =>
       /\ ingress = None /\ handoff = None /\ stop = None /\ input = None /\ schedule = None
       /\ detached = 0
  /\ Focus = "updates" => Finished = {}
  /\ Focus = "join" => Finished # {} /\ ingress = None
  /\ Focus = "detached" => detached # 0
  /\ Focus = "ingress" => ingress # None
  /\ Focus = "handoff" => handoff # None
  /\ Focus = "stop" => stop # None
  /\ Focus = "schedule" => schedule # None
  /\ Focus = "input" => input # None
  /\ Focus = "close" => closing = "settling"
BY DEF Focus, DueInUpdates, DueInShutdown, Some, ColdHandoff, OtherStop

LEMMA ServesFacts ==
  /\ ServesHandoff => handoff # None
  /\ ServesStop => stop # None
  /\ ServesSchedule => schedule # None
  /\ ServesInput => input # None
BY FocusFacts
   DEF ServesHandoff, ServesStop, JoinsStop, ServesSchedule, JoinsSchedule, StopJoinsSchedule,
       ServesInput, StopJoinsInput, Some

-----------------------------------------------------------------------------
(* What the types say of what is pending, and of the runners                *)

LEMMA Subjects ==
  ASSUME TypeOK
  PROVE  /\ ingress # None => ingress \in Commands /\ ingress.worker \in Workers
         /\ admission # None => admission \in Admissions /\ admission.worker \in Workers
         /\ schedule # None => schedule \in Schedules /\ schedule.worker \in Workers
         /\ stop # None => stop \in Stops /\ stop.worker \in Workers
         /\ input # None => input \in UserInputs /\ input.worker \in Workers
         /\ handoff # None => handoff \in Handoffs /\ handoff.worker \in Workers
         /\ lane # None => lane \in Lanes /\ lane.worker \in Workers
<1>1. (ingress # None => ingress \in Commands) /\ (admission # None => admission \in Admissions)
      /\ (schedule # None => schedule \in Schedules) /\ (stop # None => stop \in Stops)
      /\ (input # None => input \in UserInputs) /\ (handoff # None => handoff \in Handoffs)
      /\ (lane # None => lane \in Lanes)
  BY DEF TypeOK
<1> QED
  BY <1>1 DEF Commands, Admissions, Schedules, Stops, UserInputs, Handoffs, Lanes

LEMMA InterruptedFacts ==
  ASSUME run \in [Workers -> Runners], NEW w \in Workers
  PROVE  /\ Interrupted(w) \in Runners /\ Interrupted(w).turn = "idle"
         /\ Interrupted(w).normal = IF run[w].normal \in {"start", "wake"} THEN "none"
                                    ELSE run[w].normal
         /\ Interrupted(w).control = run[w].control /\ Interrupted(w).typed = run[w].typed
         /\ Interrupted(w).reply = run[w].reply /\ Interrupted(w).task = run[w].task
         /\ Interrupted(w).out = run[w].out /\ Interrupted(w).news = run[w].news
         /\ Interrupted(w).hint = run[w].hint
<1>1. run[w] \in Runners
  OBVIOUS
<1> QED BY <1>1 DEF Runners, Interrupted

\* A start that is not taken leaves the schedule failed.
LEMMA UnansweredFacts ==
  ASSUME TypeOK, ScheduleInLanes, NEW w \in Workers, Unanswered(w)
  PROVE  /\ schedule' \in {None} \cup Schedules
         /\ (schedule' = None) <=> (schedule = None)
         /\ schedule'.worker = schedule.worker
         /\ run[w].normal = "start" => ScheduleOf(w) /\ schedule'.at = "failed"
         /\ run[w].normal # "start" => schedule' = schedule
<1>1. CASE run[w].normal = "start"
  <2>1. schedule # None /\ schedule \in Schedules /\ ScheduleOf(w)
    BY <1>1, Subjects DEF ScheduleInLanes, ScheduleOf
  <2>2. schedule' = [schedule EXCEPT !.at = "failed"]
    BY <1>1 DEF Unanswered
  <2>3. schedule' \in Schedules /\ schedule'.worker = schedule.worker /\ schedule'.at = "failed"
    BY <2>1, <2>2 DEF Schedules
  <2>4. schedule' # None
    BY <2>1, <2>3, NoneAssumption DEF Schedules, None
  <2> QED BY <1>1, <2>1, <2>3, <2>4
<1>2. CASE run[w].normal # "start"
  BY <1>2 DEF Unanswered, TypeOK
<1> QED BY <1>1, <1>2

\* The owner is told of the input its child gives up.
LEMMA GivenUpFacts ==
  ASSUME TypeOK, TypedOwned, NEW w \in Workers,
         input' = IF run[w].typed THEN [input EXCEPT !.told = TRUE] ELSE input
  PROVE  /\ input' \in {None} \cup UserInputs
         /\ (input' = None) <=> (input = None)
         /\ input'.worker = input.worker /\ input'.id = input.id
         /\ run[w].typed => input # None /\ input.worker = w
         /\ ~run[w].typed => input' = input
<1>1. CASE run[w].typed
  <2>1. input # None /\ input.worker = w /\ input \in UserInputs
    BY <1>1, Subjects DEF TypedOwned
  <2>2. input' \in UserInputs /\ input'.worker = input.worker /\ input'.id = input.id
    BY <1>1, <2>1 DEF UserInputs
  <2>3. input' # None
    BY <2>1, <2>2, NoneAssumption DEF UserInputs, None
  <2> QED BY <1>1, <2>1, <2>2, <2>3
<1>2. CASE ~run[w].typed
  BY <1>2 DEF TypeOK
<1> QED BY <1>1, <1>2

LEMMA Appended ==
  ASSUME NEW out \in Seq(Updates), NEW update \in Updates
  PROVE  /\ Append(out, update) \in Seq(Updates) /\ Len(Append(out, update)) = Len(out) + 1
         /\ update.kind \in {"event", "wake"} /\ OnTheWay(out) => OnTheWay(Append(out, update))
BY DEF OnTheWay

LEMMA EventsTyped ==
  /\ Event \in Updates /\ Event.kind = "event"
  /\ [kind |-> "finished"] \in Updates /\ [kind |-> "failed"] \in Updates
  /\ \A hint \in Hints : /\ [kind |-> "wake", hint |-> hint] \in Updates
                         /\ [kind |-> "wake", hint |-> hint].kind = "wake"
BY DEF Event, Updates

\* Mail stays counted while none is sent or written.
LEMMA StillCounted ==
  ASSUME TypeOK, MailCounted, Unwritten' => Unwritten, left'.mail = left.mail,
         \A v \in Workers : ledger'[v].sent = ledger[v].sent
  PROVE  MailCounted'
<1> SUFFICES ASSUME NEW v \in Workers
             PROVE  ledger[v].sent + left.mail + (IF Unwritten' THEN 1 ELSE 0) <= MaxMail
  BY DEF MailCounted
<1>1. ledger[v].sent + left.mail + (IF Unwritten THEN 1 ELSE 0) <= MaxMail
  BY DEF MailCounted
<1>2. ledger[v].sent \in Nat /\ left.mail \in Nat
  BY DEF TypeOK, Accounts, Budgets, Hints
<1>3. CASE Unwritten
  <2>1. ledger[v].sent + left.mail + 1 <= MaxMail
    BY <1>1, <1>3
  <2> QED BY <1>2, <2>1, BoundsAssumption
<1>4. CASE ~Unwritten
  <2>1. ledger[v].sent + left.mail + 0 <= MaxMail
    BY <1>1, <1>4
  <2> QED BY <1>4, <2>1
<1> QED BY <1>3, <1>4

\* What a record that is pending becomes when the operation goes on.
LEMMA HandoffAt ==
  ASSUME TypeOK, handoff # None,
         NEW a \in {"preflight", "asked", "answered", "settle", "stop", "append"},
         handoff' = [handoff EXCEPT !.at = a]
  PROVE  /\ handoff' \in Handoffs /\ handoff' # None /\ handoff'.worker = handoff.worker
         /\ handoff'.at = a
<1>1. handoff \in Handoffs
  BY Subjects
<1>2. handoff' \in Handoffs /\ handoff'.worker = handoff.worker /\ handoff'.at = a
  BY <1>1 DEF Handoffs
<1> QED BY <1>2 DEF Handoffs, None

LEMMA HandoffFailsFacts ==
  ASSUME TypeOK, handoff # None, HandoffFails
  PROVE  /\ ingress' = ingress \/ ingress' = None
         /\ \/ handoff' = None
            \/ /\ handoff' \in Handoffs /\ handoff' # None
               /\ handoff'.worker = handoff.worker /\ handoff'.at = handoff.at
<1>1. handoff \in Handoffs
  BY Subjects
<1>2. CASE handoff.tool
  <2>1. handoff' = [handoff EXCEPT !.tool = FALSE] /\ ingress' = None
    BY <1>2 DEF HandoffFails
  <2>2. /\ handoff' \in Handoffs /\ handoff'.worker = handoff.worker
        /\ handoff'.at = handoff.at
    BY <1>1, <2>1 DEF Handoffs
  <2> QED BY <2>1, <2>2 DEF Handoffs, None
<1>3. CASE ~handoff.tool
  BY <1>3 DEF HandoffFails
<1> QED BY <1>2, <1>3

LEMMA WithoutFacts ==
  ASSUME TypeOK, NEW w \in Workers
  PROVE  /\ Without(w) \in [Workers -> Wakes] /\ Without(w)[w].at = "none"
         /\ \A v \in Workers : v # w => Without(w)[v] = wakes[v]
<1>1. wakes \in [Workers -> Wakes]
  BY DEF TypeOK
<1>2. NoWake \in Wakes /\ NoWake.at = "none"
  BY BoundsAssumption DEF NoWake, Wakes, Hints
<1> HIDE DEF NoWake
<1> QED BY <1>1, <1>2 DEF Without

LEMMA StopSentFacts ==
  ASSUME TypeOK, NEW w \in Workers
  PROVE  /\ StopSent(w) \in [Workers -> Runners]
         /\ \A v \in Workers : v # w => StopSent(w)[v] = run[v]
         /\ StopSent(w)[w].control = IF run[w].reply # "none" THEN run[w].control ELSE "stop"
         /\ StopSent(w)[w].reply = IF run[w].reply # "none" THEN run[w].reply ELSE "waiting"
         /\ StopSent(w)[w].normal = run[w].normal /\ StopSent(w)[w].typed = run[w].typed
         /\ StopSent(w)[w].task = run[w].task /\ StopSent(w)[w].out = run[w].out
         /\ StopSent(w)[w].turn = run[w].turn
<1>1. run \in [Workers -> Runners] /\ run[w] \in Runners
  BY DEF TypeOK
<1>2. CASE run[w].reply # "none"
  BY <1>1, <1>2 DEF StopSent
<1>3. CASE run[w].reply = "none"
  <2> DEFINE next == [run[w] EXCEPT !.control = "stop", !.reply = "waiting"]
  <2>1. StopSent(w) = [run EXCEPT ![w] = next]
    BY <1>3 DEF StopSent
  <2>2. next \in Runners
    BY <1>1 DEF Runners
  <2>3. /\ next.control = "stop" /\ next.reply = "waiting" /\ next.normal = run[w].normal
        /\ next.typed = run[w].typed /\ next.task = run[w].task /\ next.out = run[w].out
        /\ next.turn = run[w].turn
    BY <1>1 DEF Runners
  <2> HIDE DEF next
  <2> QED BY <1>1, <1>3, <2>1, <2>2, <2>3
<1> QED BY <1>2, <1>3

LEMMA InputsPositive == Inputs \subseteq Nat /\ 0 \notin Inputs
BY BoundsAssumption DEF Inputs

-----------------------------------------------------------------------------
(* Each action keeps the invariant, and stops no child behind the user's back *)

\* What UserWorkSpared says of a step.
Spares ==
  \A w \in Workers :
    ledger[w].user /\ run[w].control # "stop" /\ run'[w].control = "stop"
      => stop'.worker = w /\ stop'.sent

LEMMA TakeStopKeeps ==
  ASSUME IInv, NEW w \in Workers, TakeStop(w)
  PROVE  IInv' /\ Spares
<1> USE NoneAssumption DEF IInv
<1>1. UNCHANGED <<left, ingress, admission, wakes, stop, input, detached, handoff,
                                closed, slots, closing, lane, ledger, quiet, owed, reports>>
  BY DEF TakeStop, OwnerKept
<1>2. run[w].task = "loop" /\ run[w].control = "stop"
  BY DEF TakeStop
<1>3. /\ run' \in [Workers -> Runners] /\ \A v \in Workers : v # w => run'[v] = run[v]
      /\ run'[w].normal = (IF run[w].normal \in {"start", "wake"} THEN "none" ELSE run[w].normal)
      /\ run'[w].control = "none" /\ run'[w].typed = run[w].typed
      /\ run'[w].reply = "ok" /\ run'[w].task = run[w].task /\ run'[w].out = run[w].out
      /\ run'[w].turn = "idle"
  <2> DEFINE next == [Interrupted(w) EXCEPT !.control = "none", !.reply = "ok",
                                                               !.news = @ \/ run[w].turn # "idle"]
  <2>1. run' = [run EXCEPT ![w] = next]
    BY DEF TakeStop
  <2>2. run \in [Workers -> Runners] /\ run[w] \in Runners
    BY DEF TypeOK
  <2>5. Interrupted(w) \in Runners
    BY <2>2, InterruptedFacts
  <2>3. next \in Runners
    BY <2>5 DEF Runners
  <2>4. /\ next.normal = (IF run[w].normal \in {"start", "wake"} THEN "none" ELSE run[w].normal)
        /\ next.control = "none" /\ next.typed = run[w].typed
        /\ next.reply = "ok" /\ next.task = run[w].task /\ next.out = run[w].out
        /\ next.turn = "idle"
    BY <2>2, InterruptedFacts DEF Runners
  <2> HIDE DEF next
  <2> QED BY <2>1, <2>2, <2>3, <2>4
<1>4. /\ schedule' \in {None} \cup Schedules
      /\ (schedule' = None) <=> (schedule = None)
      /\ schedule'.worker = schedule.worker
      /\ run[w].normal = "start" => ScheduleOf(w) /\ schedule'.at = "failed"
      /\ run[w].normal # "start" => schedule' = schedule
  BY UnansweredFacts DEF TakeStop
<1>5. permit' = IF run[w].turn = "main" \/ run[w].normal = "start" THEN permit \ {w} ELSE permit
  BY DEF TakeStop, Released
<1>6. TypeOK'
  <2>1. \A v \in Workers : Len(run'[v].out) <= 4
    BY <1>1, <1>2, <1>3, <1>4, <1>5 DEF TypeOK
  <2> QED BY <1>1, <1>2, <1>3, <1>4, <1>5, <2>1 DEF TypeOK
<1>7. ChannelBounded'
  BY <1>1, <1>2, <1>3, <1>4, <1>5, Subjects DEF ChannelBounded
<1>8. ScheduleInLanes'
  BY <1>1, <1>2, <1>3, <1>4, <1>5, Subjects DEF ScheduleInLanes, ScheduleOf
<1>9. AuthorityOnce'
  BY <1>1, <1>2, <1>3, <1>4, <1>5, Subjects DEF AuthorityOnce, ScheduleOf
<1>10. TypedOwned'
  BY <1>1, <1>2, <1>3, <1>4, <1>5, Subjects DEF TypedOwned
<1>11. InputInOnePlace'
  BY <1>1, <1>2, <1>3, <1>4, <1>5, Subjects DEF InputInOnePlace, Waits, ScheduleOf
<1>12. StopAnswered'
  BY <1>1, <1>2, <1>3, <1>4, <1>5, Subjects DEF StopAnswered, ScheduleOf, HandoffOf
<1>13. HandoffSettles'
  BY <1>1, <1>2, <1>3, <1>4, <1>5, Subjects DEF HandoffSettles, Quiescent, ScheduleOf
<1>14. QuietKept'
  BY <1>1, <1>2, <1>3, <1>4, <1>5, Subjects DEF QuietKept, ScheduleOf
<1>15. AdmissionOwned' /\ MailCounted'
  BY <1>1, <1>2, <1>3, <1>4, <1>5 DEF AdmissionOwned, HandoffOf, MailCounted, Unwritten
<1>16. Spares
  BY <1>1, <1>2, <1>3, <1>4, <1>5 DEF Spares
<1> QED BY <1>6, <1>7, <1>8, <1>9, <1>10, <1>11, <1>12, <1>13, <1>14, <1>15, <1>16

LEMMA CloseKeeps ==
  ASSUME IInv, NEW w \in Workers, NEW more \in BOOLEAN,
         NEW terminal \in {"finished", "failed"}, run[w].task = "loop",
         run[w].control # "stop", Close(w, more, terminal)
  PROVE  IInv' /\ Spares
<1> USE NoneAssumption DEF IInv
<1>1. UNCHANGED <<left, ingress, admission, wakes, stop, detached, handoff,
                                closed, slots, closing, lane, ledger, quiet, owed, reports>>
  BY DEF Close, OwnerKept
<1>2. /\ run' \in [Workers -> Runners] /\ \A v \in Workers : v # w => run'[v] = run[v]
      /\ run'[w].normal = (IF run[w].normal \in {"start", "wake"} THEN "none" ELSE run[w].normal)
      /\ run'[w].control = (IF run[w].control = "shutdown" THEN "none" ELSE run[w].control)
      /\ run'[w].typed = FALSE /\ run'[w].reply = run[w].reply
      /\ run'[w].task = "closing" /\ run'[w].turn = "idle" /\ Len(run'[w].out) <= 4
  <2> DEFINE events == IF more THEN <<Event>> ELSE <<>>
  <2> DEFINE out == run[w].out \o events \o <<[kind |-> terminal]>>
  <2> DEFINE next == [Interrupted(w) EXCEPT
                              !.task = "closing", !.typed = FALSE, !.news = FALSE,
                              !.control = IF @ = "shutdown" THEN "none" ELSE @, !.out = out]
  <2>1. run' = [run EXCEPT ![w] = next]
    BY InterruptedFacts DEF Close, TypeOK
  <2>2. run \in [Workers -> Runners] /\ run[w] \in Runners
        /\ run[w].out \in Seq(Updates) /\ Len(run[w].out) <= 2
    BY DEF TypeOK, Runners, ChannelBounded
  <2>6. events \in Seq(Updates) /\ Len(events) <= 1 /\ [kind |-> terminal] \in Updates
    BY EventsTyped
  <2> HIDE DEF events
  <2>7. out \in Seq(Updates) /\ Len(out) <= 4
    BY <2>2, <2>6
  <2> HIDE DEF out
  <2>5. Interrupted(w) \in Runners
    BY <2>2, InterruptedFacts
  <2>3. next \in Runners
    BY <2>5, <2>7 DEF Runners
  <2>4. /\ next.normal = (IF run[w].normal \in {"start", "wake"} THEN "none" ELSE run[w].normal)
        /\ next.control = (IF run[w].control = "shutdown" THEN "none" ELSE run[w].control)
        /\ next.typed = FALSE /\ next.reply = run[w].reply
        /\ next.task = "closing" /\ next.turn = "idle" /\ Len(next.out) <= 4
    BY <2>2, <2>7, InterruptedFacts DEF Runners
  <2> HIDE DEF next
  <2> QED BY <2>1, <2>2, <2>3, <2>4
<1>3. /\ schedule' \in {None} \cup Schedules
      /\ (schedule' = None) <=> (schedule = None)
      /\ schedule'.worker = schedule.worker
      /\ run[w].normal = "start" => ScheduleOf(w) /\ schedule'.at = "failed"
      /\ run[w].normal # "start" => schedule' = schedule
  BY UnansweredFacts DEF Close
<1>4. permit' = IF run[w].turn = "main" \/ run[w].normal = "start" THEN permit \ {w} ELSE permit
  BY DEF Close, Released
<1>5. /\ input' \in {None} \cup UserInputs
      /\ (input' = None) <=> (input = None)
      /\ input'.worker = input.worker /\ input'.id = input.id
      /\ run[w].typed => input # None /\ input.worker = w
      /\ ~run[w].typed => input' = input
  BY GivenUpFacts DEF Close
<1>6. TypeOK'
  <2>1. \A v \in Workers : Len(run'[v].out) <= 4
    BY <1>1, <1>2, <1>3, <1>4, <1>5 DEF TypeOK
  <2> QED BY <1>1, <1>2, <1>3, <1>4, <1>5, <2>1 DEF TypeOK
<1>7. ChannelBounded'
  BY <1>1, <1>2, <1>3, <1>4, <1>5, Subjects DEF ChannelBounded
<1>8. ScheduleInLanes'
  BY <1>1, <1>2, <1>3, <1>4, <1>5, Subjects DEF ScheduleInLanes, ScheduleOf
<1>9. AuthorityOnce'
  BY <1>1, <1>2, <1>3, <1>4, <1>5, Subjects DEF AuthorityOnce, ScheduleOf
<1>10. TypedOwned'
  BY <1>1, <1>2, <1>3, <1>4, <1>5, Subjects DEF TypedOwned
<1>11. InputInOnePlace'
  BY <1>1, <1>2, <1>3, <1>4, <1>5, Subjects DEF InputInOnePlace, Waits, ScheduleOf
<1>12. StopAnswered'
  BY <1>1, <1>2, <1>3, <1>4, <1>5, Subjects DEF StopAnswered, ScheduleOf, HandoffOf
<1>13. HandoffSettles'
  BY <1>1, <1>2, <1>3, <1>4, <1>5, Subjects DEF HandoffSettles, Quiescent, ScheduleOf
<1>14. QuietKept'
  BY <1>1, <1>2, <1>3, <1>4, <1>5, Subjects DEF QuietKept, ScheduleOf
<1>15. AdmissionOwned' /\ MailCounted'
  BY <1>1, <1>2, <1>3, <1>4, <1>5 DEF AdmissionOwned, HandoffOf, MailCounted, Unwritten
<1>16. Spares
  BY <1>1, <1>2, <1>3, <1>4, <1>5 DEF Spares
<1> QED BY <1>6, <1>7, <1>8, <1>9, <1>10, <1>11, <1>12, <1>13, <1>14, <1>15, <1>16

LEMMA TakeShutdownKeeps ==
  ASSUME IInv, NEW w \in Workers, TakeShutdown(w)
  PROVE  IInv' /\ Spares
BY CloseKeeps DEF TakeShutdown

LEMMA RuntimeFailsKeeps ==
  ASSUME IInv, NEW w \in Workers, RuntimeFails(w)
  PROVE  IInv' /\ Spares
BY CloseKeeps DEF RuntimeFails, Works

LEMMA TakeInputKeeps ==
  ASSUME IInv, NEW w \in Workers, TakeInput(w)
  PROVE  IInv' /\ Spares
<1> USE NoneAssumption DEF IInv
<1>1. UNCHANGED <<left, ingress, admission, wakes, schedule, stop, detached,
                                handoff, closed, slots, closing, lane, ledger, permit, quiet,
                                owed, reports>>
  BY DEF TakeInput, OwnerKept
<1>2. run[w].task = "loop" /\ run[w].control = "none" /\ run[w].typed /\ run[w].turn # "main"
  BY DEF TakeInput, TypedOwned, HandoffSettles, Quiescent
<1>3. /\ run' \in [Workers -> Runners] /\ \A v \in Workers : v # w => run'[v] = run[v]
      /\ run'[w].normal = run[w].normal /\ run'[w].control = run[w].control
      /\ run'[w].typed = FALSE /\ run'[w].reply = run[w].reply
      /\ run'[w].task = run[w].task /\ run'[w].out = run[w].out
      /\ run'[w].turn \in {run[w].turn, "user"}
  <2>1. run \in [Workers -> Runners] /\ run[w] \in Runners
    BY DEF TypeOK
  <2>2. CASE run' = [run EXCEPT ![w] = [run[w] EXCEPT !.typed = FALSE, !.turn = "user", !.news = TRUE]]
    <3> DEFINE next == [run[w] EXCEPT !.typed = FALSE, !.turn = "user", !.news = TRUE]
    <3>1. next \in Runners
      BY <2>1 DEF Runners
    <3>2. /\ next.normal = run[w].normal /\ next.control = run[w].control /\ next.typed = FALSE
          /\ next.reply = run[w].reply /\ next.task = run[w].task /\ next.out = run[w].out
          /\ next.turn \in {run[w].turn, "user"}
      BY <2>1 DEF Runners
    <3>3. run' = [run EXCEPT ![w] = next]
      BY <2>2
    <3> HIDE DEF next
    <3> QED BY <2>1, <3>1, <3>2, <3>3
  <2>3. CASE run' = [run EXCEPT ![w] = [run[w] EXCEPT !.typed = FALSE]]
    <3> DEFINE next == [run[w] EXCEPT !.typed = FALSE]
    <3>1. next \in Runners
      BY <2>1 DEF Runners
    <3>2. /\ next.normal = run[w].normal /\ next.control = run[w].control /\ next.typed = FALSE
          /\ next.reply = run[w].reply /\ next.task = run[w].task /\ next.out = run[w].out
          /\ next.turn \in {run[w].turn, "user"}
      BY <2>1 DEF Runners
    <3>3. run' = [run EXCEPT ![w] = next]
      BY <2>3
    <3> HIDE DEF next
    <3> QED BY <2>1, <3>1, <3>2, <3>3
  <2> QED BY <2>2, <2>3 DEF TakeInput
<1>4. /\ input # None /\ input' # None /\ input' \in UserInputs
      /\ input.worker = w /\ input'.worker = w /\ input'.id = input.id
  <2>1. input # None /\ input.worker = w /\ input \in UserInputs
    BY Subjects DEF TypedOwned, TakeInput
  <2>2. input' = [input EXCEPT !.told = TRUE]
    BY DEF TakeInput
  <2>3. input' \in UserInputs /\ input'.worker = w /\ input'.id = input.id
    BY <2>1, <2>2 DEF UserInputs
  <2> QED BY <2>1, <2>3 DEF None
<1>5. TypeOK'
  <2>1. \A v \in Workers : Len(run'[v].out) <= 4
    BY <1>1, <1>2, <1>3, <1>4 DEF TypeOK
  <2> QED BY <1>1, <1>2, <1>3, <1>4, <2>1 DEF TypeOK
<1>6. ChannelBounded'
  BY <1>1, <1>2, <1>3, <1>4, Subjects DEF ChannelBounded
<1>7. ScheduleInLanes'
  BY <1>1, <1>2, <1>3, <1>4, Subjects DEF ScheduleInLanes, ScheduleOf
<1>8. AuthorityOnce'
  BY <1>1, <1>2, <1>3, <1>4, Subjects DEF AuthorityOnce, ScheduleOf
<1>9. TypedOwned'
  BY <1>1, <1>2, <1>3, <1>4, Subjects DEF TypedOwned
<1>10. InputInOnePlace'
  BY <1>1, <1>2, <1>3, <1>4, Subjects DEF InputInOnePlace, Waits, ScheduleOf
<1>11. StopAnswered'
  BY <1>1, <1>2, <1>3, <1>4, Subjects DEF StopAnswered, ScheduleOf, HandoffOf
<1>12. HandoffSettles'
  BY <1>1, <1>2, <1>3, <1>4, Subjects DEF HandoffSettles, Quiescent, ScheduleOf
<1>13. QuietKept'
  BY <1>1, <1>2, <1>3, <1>4, Subjects DEF QuietKept, ScheduleOf
<1>14. AdmissionOwned' /\ MailCounted'
  BY <1>1, <1>2, <1>3, <1>4 DEF AdmissionOwned, HandoffOf, MailCounted, Unwritten
<1>15. Spares
  BY <1>1, <1>2, <1>3, <1>4 DEF Spares
<1> QED BY <1>5, <1>6, <1>7, <1>8, <1>9, <1>10, <1>11, <1>12, <1>13, <1>14, <1>15

LEMMA TurnGoesOnKeeps ==
  ASSUME IInv, NEW w \in Workers, TurnGoesOn(w)
  PROVE  IInv' /\ Spares
<1> USE NoneAssumption DEF IInv
<1>1. UNCHANGED <<left, ingress, admission, wakes, schedule, stop, input,
                                detached, handoff, closed, slots, closing, lane, ledger, permit,
                                quiet, owed, reports>>
  BY DEF TurnGoesOn, OwnerKept
<1>2. /\ run' \in [Workers -> Runners] /\ \A v \in Workers : v # w => run'[v] = run[v]
      /\ run'[w].normal = run[w].normal /\ run'[w].control = run[w].control
      /\ run'[w].typed = run[w].typed /\ run'[w].reply = run[w].reply
      /\ run'[w].task = run[w].task /\ run'[w].out = run[w].out
      /\ run'[w].turn = run[w].turn
  <2>1. run' = [run EXCEPT ![w] = [run[w] EXCEPT !.news = TRUE]]
    BY DEF TurnGoesOn
  <2>2. run \in [Workers -> Runners] /\ run[w] \in Runners
    BY DEF TypeOK
  <2> QED BY <2>1, <2>2 DEF Runners
<1>3. TypeOK'
  <2>1. \A v \in Workers : Len(run'[v].out) <= 4
    BY <1>1, <1>2 DEF TypeOK
  <2> QED BY <1>1, <1>2, <2>1 DEF TypeOK
<1>4. ChannelBounded'
  BY <1>1, <1>2, Subjects DEF ChannelBounded
<1>5. ScheduleInLanes'
  BY <1>1, <1>2, Subjects DEF ScheduleInLanes, ScheduleOf
<1>6. AuthorityOnce'
  BY <1>1, <1>2, Subjects DEF AuthorityOnce, ScheduleOf
<1>7. TypedOwned'
  BY <1>1, <1>2, Subjects DEF TypedOwned
<1>8. StopAnswered'
  BY <1>1, <1>2, Subjects DEF StopAnswered, ScheduleOf, HandoffOf
<1>9. HandoffSettles'
  BY <1>1, <1>2, Subjects DEF HandoffSettles, Quiescent, ScheduleOf
<1>10. QuietKept'
  BY <1>1, <1>2, Subjects DEF QuietKept, ScheduleOf
<1>11. AdmissionOwned' /\ MailCounted' /\ InputInOnePlace'
  BY <1>1, <1>2 DEF AdmissionOwned, HandoffOf, MailCounted, Unwritten, InputInOnePlace,
       Waits, ScheduleOf
<1>12. Spares
  BY <1>1, <1>2 DEF Spares
<1> QED BY <1>3, <1>4, <1>5, <1>6, <1>7, <1>8, <1>9, <1>10, <1>11, <1>12

LEMMA TurnEndsKeeps ==
  ASSUME IInv, NEW w \in Workers, TurnEnds(w)
  PROVE  IInv' /\ Spares
<1> USE NoneAssumption DEF IInv
<1>1. UNCHANGED <<left, ingress, admission, wakes, schedule, stop, input,
                                detached, handoff, closed, slots, closing, lane, ledger, quiet,
                                owed, reports>>
  BY DEF TurnEnds, OwnerKept
<1>2. /\ run' \in [Workers -> Runners] /\ \A v \in Workers : v # w => run'[v] = run[v]
      /\ run'[w].normal = run[w].normal /\ run'[w].control = run[w].control
      /\ run'[w].typed = run[w].typed /\ run'[w].reply = run[w].reply
      /\ run'[w].task = run[w].task /\ run'[w].out = run[w].out /\ run'[w].turn = "idle"
  <2>1. run' = [run EXCEPT ![w] = [run[w] EXCEPT !.turn = "idle", !.news = TRUE]]
    BY DEF TurnEnds
  <2>2. run \in [Workers -> Runners] /\ run[w] \in Runners
    BY DEF TypeOK
  <2> QED BY <2>1, <2>2 DEF Runners
<1>3. permit' = IF run[w].turn = "main" THEN permit \ {w} ELSE permit
  BY DEF TurnEnds
<1>4. TypeOK'
  <2>1. \A v \in Workers : Len(run'[v].out) <= 4
    BY <1>1, <1>2, <1>3 DEF TypeOK
  <2> QED BY <1>1, <1>2, <1>3, <2>1 DEF TypeOK
<1>5. ChannelBounded'
  BY <1>1, <1>2, <1>3, Subjects DEF ChannelBounded
<1>6. ScheduleInLanes'
  BY <1>1, <1>2, <1>3, Subjects DEF ScheduleInLanes, ScheduleOf
<1>7. AuthorityOnce'
  BY <1>1, <1>2, <1>3, Subjects DEF AuthorityOnce, ScheduleOf
<1>8. TypedOwned'
  BY <1>1, <1>2, <1>3, Subjects DEF TypedOwned
<1>9. StopAnswered'
  BY <1>1, <1>2, <1>3, Subjects DEF StopAnswered, ScheduleOf, HandoffOf
<1>10. HandoffSettles'
  BY <1>1, <1>2, <1>3, Subjects DEF HandoffSettles, Quiescent, ScheduleOf
<1>11. QuietKept'
  BY <1>1, <1>2, <1>3, Subjects DEF QuietKept, ScheduleOf
<1>12. AdmissionOwned' /\ MailCounted' /\ InputInOnePlace'
  BY <1>1, <1>2, <1>3 DEF AdmissionOwned, HandoffOf, MailCounted, Unwritten,
       InputInOnePlace, Waits, ScheduleOf
<1>13. Spares
  BY <1>1, <1>2, <1>3 DEF Spares
<1> QED BY <1>4, <1>5, <1>6, <1>7, <1>8, <1>9, <1>10, <1>11, <1>12, <1>13

LEMMA GiveEventKeeps ==
  ASSUME IInv, NEW w \in Workers, GiveEvent(w)
  PROVE  IInv' /\ Spares
<1> USE NoneAssumption DEF IInv
<1>1. UNCHANGED <<left, ingress, admission, wakes, schedule, stop, input,
                                detached, handoff, closed, slots, closing, lane, ledger, permit,
                                quiet, owed, reports>>
  BY DEF GiveEvent, OwnerKept
<1>2. run[w].task = "loop"
  BY DEF GiveEvent
<1>3. /\ run' \in [Workers -> Runners] /\ \A v \in Workers : v # w => run'[v] = run[v]
      /\ run'[w].normal = run[w].normal /\ run'[w].control = run[w].control
      /\ run'[w].typed = run[w].typed /\ run'[w].reply = run[w].reply
      /\ run'[w].task = run[w].task /\ run'[w].turn = run[w].turn
      /\ Len(run'[w].out) <= 2 /\ OnTheWay(run'[w].out)
  <2>1. run' = [run EXCEPT ![w] = [run[w] EXCEPT !.news = FALSE, !.out = Append(run[w].out, Event)]]
    BY DEF GiveEvent
  <2>2. run \in [Workers -> Runners] /\ run[w] \in Runners
        /\ run[w].out \in Seq(Updates) /\ Len(run[w].out) <= 1
        /\ OnTheWay(run[w].out)
    BY DEF TypeOK, Runners, ChannelBounded, GiveEvent, HasRoom
  <2>3. /\ Append(run[w].out, Event) \in Seq(Updates) /\ Len(Append(run[w].out, Event)) <= 2
        /\ OnTheWay(Append(run[w].out, Event))
    BY <2>2, Appended, EventsTyped
  <2> QED BY <2>1, <2>2, <2>3 DEF Runners
<1>4. TypeOK'
  <2>1. \A v \in Workers : Len(run'[v].out) <= 4
    BY <1>1, <1>2, <1>3 DEF TypeOK
  <2> QED BY <1>1, <1>2, <1>3, <2>1 DEF TypeOK
<1>5. ChannelBounded'
  BY <1>1, <1>2, <1>3, Subjects DEF ChannelBounded
<1>6. ScheduleInLanes'
  BY <1>1, <1>2, <1>3, Subjects DEF ScheduleInLanes, ScheduleOf
<1>7. AuthorityOnce'
  BY <1>1, <1>2, <1>3, Subjects DEF AuthorityOnce, ScheduleOf
<1>8. TypedOwned'
  BY <1>1, <1>2, <1>3, Subjects DEF TypedOwned
<1>9. StopAnswered'
  BY <1>1, <1>2, <1>3, Subjects DEF StopAnswered, ScheduleOf, HandoffOf
<1>10. HandoffSettles'
  BY <1>1, <1>2, <1>3, Subjects DEF HandoffSettles, Quiescent, ScheduleOf
<1>11. QuietKept'
  BY <1>1, <1>2, <1>3, Subjects DEF QuietKept, ScheduleOf
<1>12. AdmissionOwned' /\ MailCounted' /\ InputInOnePlace'
  BY <1>1, <1>2, <1>3 DEF AdmissionOwned, HandoffOf, MailCounted, Unwritten,
       InputInOnePlace, Waits, ScheduleOf
<1>13. Spares
  BY <1>1, <1>2, <1>3 DEF Spares
<1> QED BY <1>4, <1>5, <1>6, <1>7, <1>8, <1>9, <1>10, <1>11, <1>12, <1>13

LEMMA TakeWakeKeeps ==
  ASSUME IInv, NEW w \in Workers, TakeWake(w)
  PROVE  IInv' /\ Spares
<1> USE NoneAssumption DEF IInv
<1>1. UNCHANGED <<left, ingress, admission, wakes, schedule, stop, input,
                                detached, handoff, closed, slots, closing, lane, ledger, permit,
                                quiet, owed, reports>>
  BY DEF TakeWake, OwnerKept
<1>2. run[w].task = "loop" /\ run[w].normal = "wake"
  BY DEF TakeWake, Idle
<1>3. /\ run' \in [Workers -> Runners] /\ \A v \in Workers : v # w => run'[v] = run[v]
      /\ run'[w].normal = "none" /\ run'[w].control = run[w].control
      /\ run'[w].typed = run[w].typed /\ run'[w].reply = run[w].reply
      /\ run'[w].task = run[w].task /\ run'[w].turn = run[w].turn
      /\ Len(run'[w].out) <= 2 /\ OnTheWay(run'[w].out)
  <2> DEFINE update == [kind |-> "wake", hint |-> run[w].hint]
  <2>1. run' = [run EXCEPT ![w] = [run[w] EXCEPT !.normal = "none",
                                                 !.out = Append(run[w].out, update)]]
    BY DEF TakeWake
  <2>2. run \in [Workers -> Runners] /\ run[w] \in Runners
        /\ run[w].out \in Seq(Updates) /\ Len(run[w].out) <= 1
        /\ OnTheWay(run[w].out)
    BY DEF TypeOK, Runners, ChannelBounded, TakeWake, Idle, HasRoom
  <2>4. update \in Updates /\ update.kind = "wake"
    BY <2>2, EventsTyped DEF Runners
  <2> HIDE DEF update
  <2>3. /\ Append(run[w].out, update) \in Seq(Updates) /\ Len(Append(run[w].out, update)) <= 2
        /\ OnTheWay(Append(run[w].out, update))
    BY <2>2, <2>4, Appended
  <2> QED BY <2>1, <2>2, <2>3 DEF Runners
<1>4. TypeOK'
  <2>1. \A v \in Workers : Len(run'[v].out) <= 4
    BY <1>1, <1>2, <1>3 DEF TypeOK
  <2> QED BY <1>1, <1>2, <1>3, <2>1 DEF TypeOK
<1>5. ChannelBounded'
  BY <1>1, <1>2, <1>3, Subjects DEF ChannelBounded
<1>6. ScheduleInLanes'
  BY <1>1, <1>2, <1>3, Subjects DEF ScheduleInLanes, ScheduleOf
<1>7. AuthorityOnce'
  BY <1>1, <1>2, <1>3, Subjects DEF AuthorityOnce, ScheduleOf
<1>8. TypedOwned'
  BY <1>1, <1>2, <1>3, Subjects DEF TypedOwned
<1>9. StopAnswered'
  BY <1>1, <1>2, <1>3, Subjects DEF StopAnswered, ScheduleOf, HandoffOf
<1>10. HandoffSettles'
  BY <1>1, <1>2, <1>3, Subjects DEF HandoffSettles, Quiescent, ScheduleOf
<1>11. QuietKept'
  BY <1>1, <1>2, <1>3, Subjects DEF QuietKept, ScheduleOf
<1>12. AdmissionOwned' /\ MailCounted' /\ InputInOnePlace'
  BY <1>1, <1>2, <1>3 DEF AdmissionOwned, HandoffOf, MailCounted, Unwritten,
       InputInOnePlace, Waits, ScheduleOf
<1>13. Spares
  BY <1>1, <1>2, <1>3 DEF Spares
<1> QED BY <1>4, <1>5, <1>6, <1>7, <1>8, <1>9, <1>10, <1>11, <1>12, <1>13

LEMMA TaskEndsKeeps ==
  ASSUME IInv, NEW w \in Workers, TaskEnds(w)
  PROVE  IInv' /\ Spares
<1> USE NoneAssumption DEF IInv
<1>1. UNCHANGED <<left, ingress, admission, wakes, stop, detached, handoff,
                                closed, slots, closing, lane, ledger, quiet, owed, reports>>
  BY DEF TaskEnds, OwnerKept
<1>2. run[w].task = "closing" /\ Len(run[w].out) <= 1
  BY DEF TaskEnds, HasRoom
<1>3. /\ run' \in [Workers -> Runners] /\ \A v \in Workers : v # w => run'[v] = run[v]
      /\ run'[w].normal = (IF run[w].normal \in {"start", "wake"} THEN "none" ELSE run[w].normal)
      /\ run'[w].control = "none" /\ run'[w].typed = FALSE
      /\ run'[w].reply = (IF run[w].control = "stop" THEN "failed" ELSE run[w].reply)
      /\ run'[w].task = "gone" /\ run'[w].out = run[w].out /\ run'[w].turn = "idle"
  <2> DEFINE next == [Interrupted(w) EXCEPT !.task = "gone", !.control = "none",
                              !.typed = FALSE, !.reply = IF run[w].control = "stop" THEN "failed" ELSE @]
  <2>1. run' = [run EXCEPT ![w] = next]
    BY DEF TaskEnds
  <2>2. run \in [Workers -> Runners] /\ run[w] \in Runners
    BY DEF TypeOK
  <2>5. Interrupted(w) \in Runners
    BY <2>2, InterruptedFacts
  <2>3. next \in Runners
    BY <2>5 DEF Runners
  <2>4. /\ next.normal = (IF run[w].normal \in {"start", "wake"} THEN "none" ELSE run[w].normal)
        /\ next.control = "none" /\ next.typed = FALSE
        /\ next.reply = (IF run[w].control = "stop" THEN "failed" ELSE run[w].reply)
        /\ next.task = "gone" /\ next.out = run[w].out /\ next.turn = "idle"
    BY <2>2, InterruptedFacts DEF Runners
  <2> HIDE DEF next
  <2> QED BY <2>1, <2>2, <2>3, <2>4
<1>4. /\ schedule' \in {None} \cup Schedules
      /\ (schedule' = None) <=> (schedule = None)
      /\ schedule'.worker = schedule.worker
      /\ run[w].normal = "start" => ScheduleOf(w) /\ schedule'.at = "failed"
      /\ run[w].normal # "start" => schedule' = schedule
  BY UnansweredFacts DEF TaskEnds
<1>5. permit' = IF run[w].turn = "main" \/ run[w].normal = "start" THEN permit \ {w} ELSE permit
  BY DEF TaskEnds, Released
<1>6. /\ input' \in {None} \cup UserInputs
      /\ (input' = None) <=> (input = None)
      /\ input'.worker = input.worker /\ input'.id = input.id
      /\ run[w].typed => input # None /\ input.worker = w
      /\ ~run[w].typed => input' = input
  BY GivenUpFacts DEF TaskEnds
<1>7. TypeOK'
  <2>1. \A v \in Workers : Len(run'[v].out) <= 4
    BY <1>1, <1>2, <1>3, <1>4, <1>5, <1>6 DEF TypeOK
  <2> QED BY <1>1, <1>2, <1>3, <1>4, <1>5, <1>6, <2>1 DEF TypeOK
<1>8. ChannelBounded'
  BY <1>1, <1>2, <1>3, <1>4, <1>5, <1>6, Subjects DEF ChannelBounded
<1>9. ScheduleInLanes'
  BY <1>1, <1>2, <1>3, <1>4, <1>5, <1>6, Subjects DEF ScheduleInLanes, ScheduleOf
<1>10. AuthorityOnce'
  BY <1>1, <1>2, <1>3, <1>4, <1>5, <1>6, Subjects DEF AuthorityOnce, ScheduleOf
<1>11. TypedOwned'
  BY <1>1, <1>2, <1>3, <1>4, <1>5, <1>6, Subjects DEF TypedOwned
<1>12. InputInOnePlace'
  BY <1>1, <1>2, <1>3, <1>4, <1>5, <1>6, Subjects DEF InputInOnePlace, Waits,
       ScheduleOf
<1>13. StopAnswered'
  BY <1>1, <1>2, <1>3, <1>4, <1>5, <1>6, Subjects DEF StopAnswered, ScheduleOf,
       HandoffOf
<1>14. HandoffSettles'
  BY <1>1, <1>2, <1>3, <1>4, <1>5, <1>6, Subjects DEF HandoffSettles, Quiescent,
       ScheduleOf
<1>15. QuietKept'
  BY <1>1, <1>2, <1>3, <1>4, <1>5, <1>6, Subjects DEF QuietKept, ScheduleOf
<1>16. AdmissionOwned' /\ MailCounted'
  BY <1>1, <1>2, <1>3, <1>4, <1>5, <1>6 DEF AdmissionOwned, HandoffOf, MailCounted,
       Unwritten
<1>17. Spares
  BY <1>1, <1>2, <1>3, <1>4, <1>5, <1>6 DEF Spares
<1> QED BY <1>7, <1>8, <1>9, <1>10, <1>11, <1>12, <1>13, <1>14, <1>15, <1>16, <1>17

LEMMA TakeStartKeeps ==
  ASSUME IInv, NEW w \in Workers, TakeStart(w)
  PROVE  IInv' /\ Spares
<1> USE NoneAssumption DEF IInv
<1> DEFINE fresh == run[w].hint # ledger[w].started
<1>1. UNCHANGED <<left, ingress, admission, wakes, stop, input, detached, handoff,
                                closed, slots, closing, lane, quiet, owed, reports>>
  BY DEF TakeStart, OwnerKept
<1>2. /\ run[w].task = "loop" /\ run[w].normal = "start" /\ run[w].turn = "idle"
      /\ ScheduleOf(w) /\ schedule \in Schedules /\ schedule.at = "sent"
  BY Subjects DEF TakeStart, Idle, ScheduleInLanes, ScheduleOf
<1>3. /\ run' \in [Workers -> Runners] /\ \A v \in Workers : v # w => run'[v] = run[v]
      /\ run'[w].normal = "none" /\ run'[w].control = run[w].control
      /\ run'[w].typed = run[w].typed /\ run'[w].reply = run[w].reply
      /\ run'[w].task = run[w].task /\ run'[w].turn = (IF fresh THEN "main" ELSE "idle")
      /\ Len(run'[w].out) <= 2 /\ OnTheWay(run'[w].out)
  <2> DEFINE out == IF fresh THEN Append(run[w].out, Event) ELSE run[w].out
  <2> DEFINE next == [run[w] EXCEPT !.normal = "none", !.out = out, !.news = fresh,
                                     !.turn = IF fresh THEN "main" ELSE "idle"]
  <2>1. run' = [run EXCEPT ![w] = next]
    BY DEF TakeStart
  <2>2. run \in [Workers -> Runners] /\ run[w] \in Runners
        /\ run[w].out \in Seq(Updates) /\ Len(run[w].out) <= 1
        /\ OnTheWay(run[w].out)
    BY DEF TypeOK, Runners, ChannelBounded, TakeStart, Idle, HasRoom
  <2>7. out \in Seq(Updates) /\ Len(out) <= 2 /\ OnTheWay(out) /\ fresh \in BOOLEAN
    BY <2>2, Appended, EventsTyped
  <2> HIDE DEF out, fresh
  <2>3. next \in Runners
    BY <2>2, <2>7 DEF Runners
  <2>4. /\ next.normal = "none" /\ next.control = run[w].control
        /\ next.typed = run[w].typed /\ next.reply = run[w].reply
        /\ next.task = run[w].task /\ next.turn = (IF fresh THEN "main" ELSE "idle")
        /\ Len(next.out) <= 2 /\ OnTheWay(next.out)
    BY <2>2, <2>7 DEF Runners
  <2> HIDE DEF next
  <2> QED BY <2>1, <2>2, <2>3, <2>4
<1>4. /\ schedule' \in Schedules /\ schedule' # None /\ schedule'.worker = w
      /\ schedule'.at \in {"started", "failed"}
  <2>1. schedule' = [schedule EXCEPT !.at = IF fresh THEN "started" ELSE "failed"]
    BY DEF TakeStart
  <2>2. schedule' \in Schedules /\ schedule'.worker = w /\ schedule'.at \in {"started", "failed"}
    BY <1>2, <2>1 DEF Schedules, ScheduleOf
  <2> QED BY <2>2 DEF None
<1>5. permit' = IF fresh THEN permit ELSE permit \ {w}
  BY DEF TakeStart
<1>6. /\ ledger' \in [Workers -> Accounts]
      /\ \A v \in Workers : ledger'[v].user = ledger[v].user /\ ledger'[v].sent = ledger[v].sent
  <2>1. ledger' = [ledger EXCEPT ![w] = [ledger[w] EXCEPT !.started = run[w].hint]]
    BY DEF TakeStart
  <2>2. ledger \in [Workers -> Accounts] /\ run[w].hint \in Hints
    BY DEF TypeOK, Runners
  <2> QED BY <2>1, <2>2 DEF Accounts
<1>7. TypeOK'
  <2>1. \A v \in Workers : Len(run'[v].out) <= 4
    BY <1>1, <1>2, <1>3, <1>4, <1>5, <1>6 DEF TypeOK
  <2> QED BY <1>1, <1>2, <1>3, <1>4, <1>5, <1>6, <2>1 DEF TypeOK
<1>8. ChannelBounded'
  BY <1>1, <1>2, <1>3, <1>4, <1>5, <1>6, Subjects DEF ChannelBounded
<1>9. ScheduleInLanes'
  BY <1>1, <1>2, <1>3, <1>4, <1>5, <1>6, Subjects DEF ScheduleInLanes, ScheduleOf
<1>10. AuthorityOnce'
  BY <1>1, <1>2, <1>3, <1>4, <1>5, <1>6, Subjects DEF AuthorityOnce, ScheduleOf
<1>11. MailCounted'
  <2>1. Unwritten' => Unwritten
    BY <1>1, <1>2, <1>3, <1>4, <1>5, <1>6 DEF Unwritten, HandoffOf, AdmissionOwned
  <2>2. left'.mail = left.mail /\ \A v \in Workers : ledger'[v].sent = ledger[v].sent
    BY <1>1, <1>2, <1>3, <1>4, <1>5, <1>6
  <2> QED BY <2>1, <2>2, StillCounted
<1>12. TypedOwned'
  BY <1>1, <1>2, <1>3, <1>4, <1>5, <1>6, Subjects DEF TypedOwned
<1>13. InputInOnePlace'
  BY <1>1, <1>2, <1>3, <1>4, <1>5, <1>6, Subjects DEF InputInOnePlace, Waits,
       ScheduleOf
<1>14. StopAnswered'
  BY <1>1, <1>2, <1>3, <1>4, <1>5, <1>6, Subjects DEF StopAnswered, ScheduleOf,
       HandoffOf, HandoffSettles
<1>15. HandoffSettles'
  BY <1>1, <1>2, <1>3, <1>4, <1>5, <1>6, Subjects DEF HandoffSettles, Quiescent,
       ScheduleOf
<1>16. QuietKept'
  BY <1>1, <1>2, <1>3, <1>4, <1>5, <1>6, Subjects DEF QuietKept, ScheduleOf
<1>17. AdmissionOwned'
  BY <1>1, <1>2, <1>3, <1>4, <1>5, <1>6 DEF AdmissionOwned, HandoffOf
<1>18. Spares
  BY <1>1, <1>2, <1>3, <1>4, <1>5, <1>6 DEF Spares
<1> QED BY <1>7, <1>8, <1>9, <1>10, <1>11, <1>12, <1>13, <1>14, <1>15, <1>16, <1>17, <1>18

LEMMA WriteMailKeeps ==
  ASSUME IInv, WriterStep, lane.cmd = "mail", WriteMail(lane.worker)
  PROVE  IInv' /\ Spares
<1> USE NoneAssumption DEF IInv
<1>1. UNCHANGED <<left, ingress, wakes, schedule, stop, input, detached, handoff,
                                closed, slots, closing, run, permit, quiet, owed, reports>>
  BY DEF WriterStep, WriteMail
<1>2. /\ lane # None /\ lane.worker \in Workers /\ lane' = None
      /\ admission = [worker |-> lane.worker, reply |-> "waiting"]
      /\ ingress # None /\ ingress.kind = "mail" /\ handoff = None
      /\ ingress.worker = lane.worker
  <2>1. /\ lane # None /\ lane.worker \in Workers /\ lane' = None
        /\ admission = [worker |-> lane.worker, reply |-> "waiting"]
        /\ ingress # None /\ ingress.kind = "mail" /\ handoff = None
    BY Subjects DEF WriterStep, AdmissionOwned, Some
  <2>2. admission # None /\ admission.worker = lane.worker
    BY <2>1 DEF None
  <2> QED BY <2>1, <2>2 DEF AdmissionOwned, HandoffOf
<1>3. /\ admission' = [worker |-> lane.worker, reply |-> "ok"]
      /\ admission' \in Admissions /\ admission' # None
      /\ admission'.worker = lane.worker /\ admission'.reply = "ok"
  <2>1. admission' = [admission EXCEPT !.reply = "ok"]
    BY DEF WriteMail, Answered
  <2>2. admission' = [worker |-> lane.worker, reply |-> "ok"]
    BY <1>2, <2>1
  <2> QED BY <1>2, <2>2 DEF Admissions, None
<1>4. /\ ledger' \in [Workers -> Accounts]
      /\ \A v \in Workers :
           /\ ledger'[v].user = ledger[v].user
           /\ ledger'[v].sent = IF v = lane.worker THEN ledger[v].sent + 1 ELSE ledger[v].sent
  <2>1. ledger' = [ledger EXCEPT ![lane.worker] = [ledger[lane.worker] EXCEPT !.sent = @ + 1]]
    BY DEF WriteMail
  <2>2. ledger \in [Workers -> Accounts] /\ ledger[lane.worker].sent + 1 \in Hints
    <3>1. /\ ledger \in [Workers -> Accounts] /\ ledger[lane.worker].sent \in Hints
          /\ left.mail \in 0..MaxMail
      BY <1>2 DEF TypeOK, Accounts, Budgets
    <3>2. ledger[lane.worker].sent + left.mail + 1 <= MaxMail
      BY <1>2 DEF MailCounted, Unwritten
    <3> QED BY <3>1, <3>2, BoundsAssumption DEF Hints
  <2> QED BY <1>2, <2>1, <2>2 DEF Accounts
<1>5. TypeOK'
  BY <1>1, <1>2, <1>3, <1>4 DEF TypeOK
<1>6. ScheduleInLanes'
  BY <1>1, <1>2, <1>3, <1>4, Subjects DEF ScheduleInLanes, ScheduleOf
<1>7. AdmissionOwned'
  BY <1>1, <1>2, <1>3, <1>4, Subjects DEF AdmissionOwned, HandoffOf
<1>8. MailCounted'
  <2>1. ~Unwritten'
    BY <1>1, <1>2, <1>3 DEF Unwritten
  <2> SUFFICES ASSUME NEW v \in Workers
               PROVE  ledger'[v].sent + left'.mail + 0 <= MaxMail
    BY <2>1 DEF MailCounted
  <2>2. ledger[v].sent + left.mail + 1 <= MaxMail
    BY <1>2 DEF MailCounted, Unwritten
  <2>3. ledger[v].sent \in Nat /\ left.mail \in Nat
    BY DEF TypeOK, Accounts, Budgets, Hints
  <2> QED BY <1>1, <1>4, <2>2, <2>3, BoundsAssumption
<1>9. TypedOwned'
  BY <1>1, <1>2, <1>3, <1>4, Subjects DEF TypedOwned
<1>10. HandoffSettles'
  BY <1>1, <1>2, <1>3, <1>4, Subjects DEF HandoffSettles, Quiescent, ScheduleOf
<1>11. ChannelBounded' /\ AuthorityOnce' /\ InputInOnePlace' /\ StopAnswered' /\ QuietKept'
  BY <1>1, <1>2, <1>3, <1>4 DEF ChannelBounded, AuthorityOnce, ScheduleOf,
       InputInOnePlace, Waits, StopAnswered, HandoffOf, QuietKept
<1>12. Spares
  BY <1>1, <1>2, <1>3, <1>4 DEF Spares
<1> QED BY <1>5, <1>6, <1>7, <1>8, <1>9, <1>10, <1>11, <1>12

LEMMA WriteHandoffKeeps ==
  ASSUME IInv, WriterStep, lane.cmd = "handoff", WriteHandoff(lane.worker)
  PROVE  IInv' /\ Spares
<1> USE NoneAssumption DEF IInv
<1>1. UNCHANGED <<left, ingress, wakes, schedule, stop, input, detached, handoff,
                                closed, slots, closing, run, permit, quiet, owed, reports>>
  BY DEF WriterStep, WriteHandoff
<1>2. /\ lane # None /\ lane.worker \in Workers /\ lane' = None
      /\ admission = [worker |-> lane.worker, reply |-> "waiting"]
      /\ HandoffOf(lane.worker) /\ handoff.at = "append" /\ Quiescent(lane.worker)
  BY Subjects DEF WriterStep, AdmissionOwned, HandoffOf, HandoffSettles, Some
<1>3. /\ admission' \in Admissions /\ admission' # None
      /\ admission'.worker = lane.worker /\ admission'.reply = "ok"
  <2>1. admission' = [admission EXCEPT !.reply = "ok"]
    BY <1>2 DEF WriteHandoff, Answered, Quiescent
  <2>2. admission' = [worker |-> lane.worker, reply |-> "ok"]
    BY <1>2, <2>1
  <2> QED BY <1>2, <2>2 DEF Admissions, None
<1>4. /\ ledger' \in [Workers -> Accounts]
      /\ \A v \in Workers :
           /\ ledger'[v].user = (v = lane.worker \/ ledger[v].user)
           /\ ledger'[v].sent = ledger[v].sent
  <2>1. ledger' = [ledger EXCEPT ![lane.worker] = [ledger[lane.worker] EXCEPT !.user = TRUE]]
    BY <1>2 DEF WriteHandoff, Quiescent
  <2>2. ledger \in [Workers -> Accounts] /\ \A v \in Workers : ledger[v].user \in BOOLEAN
    BY DEF TypeOK, Accounts
  <2> QED BY <1>2, <2>1, <2>2 DEF Accounts
<1>5. TypeOK'
  BY <1>1, <1>2, <1>3, <1>4 DEF TypeOK
<1>6. ScheduleInLanes'
  BY <1>1, <1>2, <1>3, <1>4, Subjects DEF ScheduleInLanes, ScheduleOf
<1>7. AdmissionOwned'
  BY <1>1, <1>2, <1>3, <1>4, Subjects DEF AdmissionOwned, HandoffOf
<1>8. MailCounted'
  <2>1. Unwritten' => Unwritten
    BY <1>1, <1>2, <1>3, <1>4 DEF Unwritten, HandoffOf, AdmissionOwned
  <2>2. left'.mail = left.mail /\ \A v \in Workers : ledger'[v].sent = ledger[v].sent
    BY <1>1, <1>2, <1>3, <1>4
  <2> QED BY <2>1, <2>2, StillCounted
<1>9. TypedOwned'
  BY <1>1, <1>2, <1>3, <1>4, Subjects DEF TypedOwned
<1>10. HandoffSettles'
  BY <1>1, <1>2, <1>3, <1>4, Subjects DEF HandoffSettles, Quiescent, ScheduleOf
<1>11. ChannelBounded' /\ AuthorityOnce' /\ InputInOnePlace' /\ StopAnswered' /\ QuietKept'
  BY <1>1, <1>2, <1>3, <1>4 DEF ChannelBounded, AuthorityOnce, ScheduleOf,
       InputInOnePlace, Waits, StopAnswered, HandoffOf, QuietKept
<1>12. Spares
  BY <1>1, <1>2, <1>3, <1>4 DEF Spares
<1> QED BY <1>5, <1>6, <1>7, <1>8, <1>9, <1>10, <1>11, <1>12

LEMMA WriteScheduleKeeps ==
  ASSUME IInv, WriterStep, lane.cmd = "schedule", WriteSchedule(lane.worker)
  PROVE  IInv' /\ Spares
<1> USE NoneAssumption DEF IInv
<1> DEFINE recorded == ledger[lane.worker].last = schedule.hint
           refused == \/ ledger[lane.worker].user \/ lane.worker \in permit
                      \/ ~recorded /\ ledger[lane.worker].sent = ledger[lane.worker].read
<1>1. UNCHANGED <<left, ingress, admission, wakes, stop, input, detached, handoff,
                                closed, slots, closing, run, quiet, reports>>
  BY DEF WriterStep, WriteSchedule
<1>2. /\ lane # None /\ lane.worker \in Workers /\ lane' = None
      /\ ScheduleOf(lane.worker) /\ schedule.at = "writer" /\ schedule \in Schedules
      /\ run[lane.worker].normal = "reserved"
  BY Subjects DEF WriterStep, ScheduleInLanes, ScheduleOf, Some
<1>3. /\ schedule' \in Schedules /\ schedule' # None /\ schedule'.worker = lane.worker
      /\ schedule'.at = IF refused THEN "refused" ELSE "prepared"
      /\ ~refused => ~ledger[lane.worker].user /\ lane.worker \notin permit
  <2>1. schedule' = [schedule EXCEPT !.at = IF refused THEN "refused" ELSE "prepared"]
    BY DEF WriteSchedule
  <2> HIDE DEF refused
  <2>2. /\ schedule' \in Schedules /\ schedule'.worker = lane.worker
        /\ schedule'.at = IF refused THEN "refused" ELSE "prepared"
    BY <1>2, <2>1 DEF Schedules, ScheduleOf
  <2>3. schedule' # None
    BY <2>2 DEF None, Schedules
  <2>4. ~refused => ~ledger[lane.worker].user /\ lane.worker \notin permit
    BY DEF refused
  <2> QED BY <2>2, <2>3, <2>4
<1>4. permit' = (IF refused THEN permit ELSE permit \cup {lane.worker}) /\ owed' \subseteq Workers
  BY DEF WriteSchedule, Reserved, TypeOK
<1>5. /\ ledger' \in [Workers -> Accounts]
      /\ \A v \in Workers : ledger'[v].user = ledger[v].user /\ ledger'[v].sent = ledger[v].sent
  <2>1. \/ ledger' = ledger
        \/ ledger' = [ledger EXCEPT ![lane.worker] = [ledger[lane.worker] EXCEPT
                        !.read = ledger[lane.worker].sent, !.last = schedule.hint]]
    BY DEF WriteSchedule
  <2>2. ledger \in [Workers -> Accounts] /\ schedule.hint \in Hints
    BY <1>2 DEF TypeOK, Schedules
  <2>3. CASE ledger' = ledger
    BY <2>2, <2>3
  <2>4. CASE ledger' = [ledger EXCEPT ![lane.worker] = [ledger[lane.worker] EXCEPT
                          !.read = ledger[lane.worker].sent, !.last = schedule.hint]]
    BY <1>2, <2>2, <2>4 DEF Accounts
  <2> QED BY <2>1, <2>3, <2>4
<1>6. TypeOK'
  BY <1>1, <1>2, <1>3, <1>4, <1>5 DEF TypeOK
<1>7. ScheduleInLanes'
  BY <1>1, <1>2, <1>3, <1>4, <1>5, Subjects DEF ScheduleInLanes, ScheduleOf
<1>8. AuthorityOnce'
  BY <1>1, <1>2, <1>3, <1>4, <1>5, Subjects DEF AuthorityOnce, ScheduleOf
<1>9. AdmissionOwned'
  BY <1>1, <1>2, <1>3, <1>4, <1>5, Subjects DEF AdmissionOwned, HandoffOf
<1>10. MailCounted'
  <2>1. Unwritten' => Unwritten
    BY <1>1, <1>2, <1>3, <1>4, <1>5 DEF Unwritten, HandoffOf, AdmissionOwned
  <2>2. left'.mail = left.mail /\ \A v \in Workers : ledger'[v].sent = ledger[v].sent
    BY <1>1, <1>2, <1>3, <1>4, <1>5
  <2> QED BY <2>1, <2>2, StillCounted
<1>11. TypedOwned'
  BY <1>1, <1>2, <1>3, <1>4, <1>5, Subjects DEF TypedOwned
<1>12. InputInOnePlace'
  BY <1>1, <1>2, <1>3, <1>4, <1>5, Subjects DEF InputInOnePlace, Waits, ScheduleOf
<1>13. StopAnswered'
  BY <1>1, <1>2, <1>3, <1>4, <1>5, Subjects DEF StopAnswered, ScheduleOf, HandoffOf
<1>14. HandoffSettles'
  BY <1>1, <1>2, <1>3, <1>4, <1>5, Subjects DEF HandoffSettles, Quiescent, ScheduleOf
<1>15. QuietKept'
  BY <1>1, <1>2, <1>3, <1>4, <1>5, Subjects DEF QuietKept, ScheduleOf
<1>16. ChannelBounded'
  BY <1>1, <1>2, <1>3, <1>4, <1>5 DEF ChannelBounded
<1>17. Spares
  BY <1>1, <1>2, <1>3, <1>4, <1>5 DEF Spares
<1> QED BY <1>6, <1>7, <1>8, <1>9, <1>10, <1>11, <1>12, <1>13, <1>14, <1>15, <1>16, <1>17

LEMMA ReadPreflightKeeps ==
  ASSUME IInv, WriterStep, lane.cmd = "preflight", ReadPreflight(lane.worker)
  PROVE  IInv' /\ Spares
<1> USE NoneAssumption DEF IInv
<1>1. UNCHANGED <<left, ingress, admission, wakes, schedule, stop, input,
                                detached, closed, slots, closing, run, ledger, permit, quiet,
                                owed, reports>>
  BY DEF WriterStep, ReadPreflight
<1>2. lane # None /\ lane' = None /\ lane.cmd = "preflight"
  BY DEF WriterStep, Some
<1>3. \/ handoff' = handoff
      \/ /\ handoff # None /\ handoff' # None /\ handoff' \in Handoffs /\ handoff'.worker = handoff.worker
         /\ handoff.at = "asked" /\ handoff'.at = "answered"
  <2>1. CASE handoff # None /\ handoff.at = "asked"
    <3>1. handoff' = [handoff EXCEPT !.at = "answered"] /\ handoff \in Handoffs
      BY <2>1, Subjects DEF ReadPreflight, Some
    <3>2. handoff' \in Handoffs /\ handoff'.worker = handoff.worker /\ handoff'.at = "answered"
      BY <3>1 DEF Handoffs
    <3>3. handoff' # None
      BY <3>2 DEF Handoffs, None
    <3> QED BY <2>1, <3>2, <3>3
  <2>2. CASE ~(handoff # None /\ handoff.at = "asked")
    BY <2>2 DEF ReadPreflight, Some
  <2> QED BY <2>1, <2>2
<1>4. TypeOK'
  BY <1>1, <1>2, <1>3 DEF TypeOK
<1>5. ScheduleInLanes'
  BY <1>1, <1>2, <1>3, Subjects DEF ScheduleInLanes, ScheduleOf
<1>6. AdmissionOwned'
  BY <1>1, <1>2, <1>3, Subjects DEF AdmissionOwned, HandoffOf
<1>7. MailCounted'
  <2>1. Unwritten' => Unwritten
    BY <1>1, <1>2, <1>3 DEF Unwritten, HandoffOf, AdmissionOwned
  <2>2. left'.mail = left.mail /\ \A v \in Workers : ledger'[v].sent = ledger[v].sent
    BY <1>1, <1>2, <1>3
  <2> QED BY <2>1, <2>2, StillCounted
<1>8. StopAnswered'
  BY <1>1, <1>2, <1>3, Subjects DEF StopAnswered, ScheduleOf, HandoffOf
<1>9. HandoffSettles'
  BY <1>1, <1>2, <1>3, Subjects DEF HandoffSettles, Quiescent, ScheduleOf
<1>10. ChannelBounded' /\ AuthorityOnce' /\ TypedOwned' /\ InputInOnePlace' /\ QuietKept'
  BY <1>1, <1>2, <1>3 DEF ChannelBounded, AuthorityOnce, ScheduleOf, TypedOwned,
       InputInOnePlace, Waits, QuietKept
<1>11. Spares
  BY <1>1, <1>2, <1>3 DEF Spares
<1> QED BY <1>4, <1>5, <1>6, <1>7, <1>8, <1>9, <1>10, <1>11

LEMMA WakeRefusedKeeps ==
  ASSUME IInv, NEW w \in Workers, WakeRefused(w)
  PROVE  IInv' /\ Spares
<1> USE NoneAssumption DEF IInv
<1>1. UNCHANGED <<left, ingress, admission, schedule, stop, input, detached,
                                handoff, closed, slots, closing, lane, run, ledger, permit,
                                quiet, reports>>
  BY DEF WakeRefused
<1>2. /\ wakes' \in [Workers -> Wakes]
      /\ \A v \in Workers : wakes[v].at = "none" => wakes'[v].at = "none"
      /\ owed' \subseteq Workers
  BY WithoutFacts DEF WakeRefused, TypeOK
<1>3. TypeOK'
  BY <1>1, <1>2 DEF TypeOK
<1>4. StopAnswered'
  BY <1>1, <1>2, Subjects DEF StopAnswered, ScheduleOf, HandoffOf
<1>5. HandoffSettles'
  BY <1>1, <1>2, Subjects DEF HandoffSettles, Quiescent, ScheduleOf
<1>6. QuietKept'
  BY <1>1, <1>2, Subjects DEF QuietKept, ScheduleOf
<1>7. ChannelBounded' /\ ScheduleInLanes' /\ AuthorityOnce' /\ AdmissionOwned' /\
      MailCounted' /\ TypedOwned' /\ InputInOnePlace'
  BY <1>1, <1>2 DEF ChannelBounded, ScheduleInLanes, ScheduleOf, AuthorityOnce,
       AdmissionOwned, HandoffOf, MailCounted, Unwritten, TypedOwned, InputInOnePlace, Waits
<1>8. Spares
  BY <1>1, <1>2 DEF Spares
<1> QED BY <1>3, <1>4, <1>5, <1>6, <1>7, <1>8

LEMMA WakeDeferredKeeps ==
  ASSUME IInv, NEW w \in Workers, WakeDeferred(w)
  PROVE  IInv' /\ Spares
<1> USE NoneAssumption DEF IInv
<1>1. UNCHANGED <<left, ingress, admission, schedule, stop, input, detached,
                                handoff, closed, slots, closing, lane, run, ledger, permit,
                                quiet, owed, reports>>
  BY DEF WakeDeferred
<1>2. /\ wakes' \in [Workers -> Wakes]
      /\ \A v \in Workers : wakes[v].at = "none" => wakes'[v].at = "none"
  <2>1. wakes' = [wakes EXCEPT ![w] = [wakes[w] EXCEPT !.at = "deferred"]]
    BY DEF WakeDeferred
  <2>2. wakes \in [Workers -> Wakes] /\ wakes[w].at # "none"
    BY DEF TypeOK, WakeDeferred, Ready
  <2> QED BY <2>1, <2>2 DEF Wakes
<1>3. TypeOK'
  BY <1>1, <1>2 DEF TypeOK
<1>4. StopAnswered'
  BY <1>1, <1>2, Subjects DEF StopAnswered, ScheduleOf, HandoffOf
<1>5. HandoffSettles'
  BY <1>1, <1>2, Subjects DEF HandoffSettles, Quiescent, ScheduleOf
<1>6. QuietKept'
  BY <1>1, <1>2, Subjects DEF QuietKept, ScheduleOf
<1>7. ChannelBounded' /\ ScheduleInLanes' /\ AuthorityOnce' /\ AdmissionOwned' /\
      MailCounted' /\ TypedOwned' /\ InputInOnePlace'
  BY <1>1, <1>2 DEF ChannelBounded, ScheduleInLanes, ScheduleOf, AuthorityOnce,
       AdmissionOwned, HandoffOf, MailCounted, Unwritten, TypedOwned, InputInOnePlace, Waits
<1>8. Spares
  BY <1>1, <1>2 DEF Spares
<1> QED BY <1>3, <1>4, <1>5, <1>6, <1>7, <1>8

LEMMA BeginScheduleKeeps ==
  ASSUME IInv, NEW w \in Workers, BeginSchedule(w)
  PROVE  IInv' /\ Spares
<1> USE NoneAssumption DEF IInv
<1>1. UNCHANGED <<left, ingress, admission, wakes, stop, input, detached, handoff,
                                closed, slots, closing, ledger, permit, quiet, owed, reports>>
  BY DEF BeginSchedule
<1>2. /\ ingress = None /\ handoff = None /\ stop = None /\ input = None /\ schedule = None
      /\ detached = 0
      /\ run[w].normal = "none" /\ wakes[w].at = "ready" /\ lane = None
  BY FocusFacts DEF BeginSchedule, Ready
<1>3. /\ run' \in [Workers -> Runners] /\ \A v \in Workers : v # w => run'[v] = run[v]
      /\ run'[w].normal = "reserved" /\ run'[w].control = run[w].control
      /\ run'[w].typed = run[w].typed /\ run'[w].reply = run[w].reply
      /\ run'[w].task = run[w].task /\ run'[w].out = run[w].out
      /\ run'[w].turn = run[w].turn
  <2> DEFINE next == [run[w] EXCEPT !.normal = "reserved"]
  <2>1. run' = [run EXCEPT ![w] = next]
    BY DEF BeginSchedule
  <2>2. run \in [Workers -> Runners] /\ run[w] \in Runners
    BY DEF TypeOK
  <2>3. next \in Runners
    BY <2>2 DEF Runners
  <2>4. /\ next.normal = "reserved" /\ next.control = run[w].control
        /\ next.typed = run[w].typed /\ next.reply = run[w].reply
        /\ next.task = run[w].task /\ next.out = run[w].out
        /\ next.turn = run[w].turn
    BY <2>2 DEF Runners
  <2> HIDE DEF next
  <2> QED BY <2>1, <2>2, <2>3, <2>4
<1>4. /\ schedule' = [worker |-> w, hint |-> wakes[w].hint, at |-> "writer"]
      /\ schedule' \in Schedules /\ schedule' # None
      /\ schedule'.worker = w /\ schedule'.at = "writer"
  <2>1. schedule' = [worker |-> w, hint |-> wakes[w].hint, at |-> "writer"]
    BY DEF BeginSchedule
  <2>2. wakes[w].hint \in Hints
    BY DEF TypeOK, Wakes
  <2> QED BY <2>1, <2>2 DEF Schedules, None
<1>5. /\ lane' = [worker |-> w, cmd |-> "schedule"] /\ lane' \in Lanes /\ lane' # None
      /\ lane'.worker = w /\ lane'.cmd = "schedule"
  <2>1. lane' = [worker |-> w, cmd |-> "schedule"]
    BY DEF BeginSchedule
  <2> QED BY <2>1 DEF Lanes, None
<1>6. TypeOK'
  <2>1. \A v \in Workers : Len(run'[v].out) <= 4
    BY <1>1, <1>2, <1>3, <1>4, <1>5 DEF TypeOK
  <2> QED BY <1>1, <1>2, <1>3, <1>4, <1>5, <2>1 DEF TypeOK
<1>7. ChannelBounded'
  BY <1>1, <1>2, <1>3, <1>4, <1>5, Subjects DEF ChannelBounded
<1>8. ScheduleInLanes'
  BY <1>1, <1>2, <1>3, <1>4, <1>5, Subjects DEF ScheduleInLanes, ScheduleOf
<1>9. AuthorityOnce'
  BY <1>1, <1>2, <1>3, <1>4, <1>5, Subjects DEF AuthorityOnce, ScheduleOf
<1>10. AdmissionOwned'
  BY <1>1, <1>2, <1>3, <1>4, <1>5, Subjects DEF AdmissionOwned, HandoffOf
<1>11. TypedOwned'
  BY <1>1, <1>2, <1>3, <1>4, <1>5, Subjects DEF TypedOwned
<1>12. InputInOnePlace'
  BY <1>1, <1>2, <1>3, <1>4, <1>5, Subjects DEF InputInOnePlace, Waits, ScheduleOf
<1>13. StopAnswered'
  BY <1>1, <1>2, <1>3, <1>4, <1>5, Subjects DEF StopAnswered, ScheduleOf, HandoffOf
<1>14. HandoffSettles'
  BY <1>1, <1>2, <1>3, <1>4, <1>5, Subjects DEF HandoffSettles, Quiescent, ScheduleOf
<1>15. QuietKept'
  BY <1>1, <1>2, <1>3, <1>4, <1>5, Subjects DEF QuietKept, ScheduleOf
<1>16. MailCounted'
  BY <1>1, <1>2, <1>3, <1>4, <1>5 DEF MailCounted, Unwritten
<1>17. Spares
  BY <1>1, <1>2, <1>3, <1>4, <1>5 DEF Spares
<1> QED BY <1>6, <1>7, <1>8, <1>9, <1>10, <1>11, <1>12, <1>13, <1>14, <1>15, <1>16, <1>17

LEMMA WakesResumeKeeps ==
  ASSUME IInv, WakesResume
  PROVE  IInv' /\ Spares
<1> USE NoneAssumption DEF IInv
<1>1. UNCHANGED <<left, ingress, admission, schedule, stop, input, detached,
                                handoff, closed, slots, closing, lane, run, ledger, permit,
                                quiet, owed, reports>>
  BY DEF WakesResume
<1>2. /\ wakes' \in [Workers -> Wakes]
      /\ \A v \in Workers : wakes[v].at = "none" => wakes'[v].at = "none"
  <2>1. wakes' = [v \in Workers |-> IF wakes[v].at = "deferred"
                                    THEN [wakes[v] EXCEPT !.at = "ready"] ELSE wakes[v]]
    BY DEF WakesResume
  <2>2. wakes \in [Workers -> Wakes]
    BY DEF TypeOK
  <2> QED BY <2>1, <2>2 DEF Wakes
<1>3. TypeOK'
  BY <1>1, <1>2 DEF TypeOK
<1>4. StopAnswered'
  BY <1>1, <1>2, Subjects DEF StopAnswered, ScheduleOf, HandoffOf
<1>5. HandoffSettles'
  BY <1>1, <1>2, Subjects DEF HandoffSettles, Quiescent, ScheduleOf
<1>6. QuietKept'
  BY <1>1, <1>2, Subjects DEF QuietKept, ScheduleOf
<1>7. ChannelBounded' /\ ScheduleInLanes' /\ AuthorityOnce' /\ AdmissionOwned' /\
      MailCounted' /\ TypedOwned' /\ InputInOnePlace'
  BY <1>1, <1>2 DEF ChannelBounded, ScheduleInLanes, ScheduleOf, AuthorityOnce,
       AdmissionOwned, HandoffOf, MailCounted, Unwritten, TypedOwned, InputInOnePlace, Waits
<1>8. Spares
  BY <1>1, <1>2 DEF Spares
<1> QED BY <1>3, <1>4, <1>5, <1>6, <1>7, <1>8

LEMMA SendStartKeeps ==
  ASSUME IInv, SendStart
  PROVE  IInv' /\ Spares
<1> USE NoneAssumption DEF IInv
<1>1. UNCHANGED <<left, ingress, admission, wakes, stop, input, detached, handoff,
                                closed, slots, closing, lane, ledger, permit, quiet, owed,
                                reports>>
  BY DEF SendStart
<1>2. /\ schedule # None /\ schedule \in Schedules /\ schedule.worker \in Workers
      /\ schedule.at = "prepared" /\ run[schedule.worker].normal = "reserved"
  BY ServesFacts, Subjects DEF SendStart, ScheduleInLanes, ScheduleOf
<1>3. /\ run' \in [Workers -> Runners] /\ \A v \in Workers : v # schedule.worker => run'[v] = run[v]
      /\ run'[schedule.worker].normal = "start"
      /\ run'[schedule.worker].control = run[schedule.worker].control
      /\ run'[schedule.worker].typed = run[schedule.worker].typed
      /\ run'[schedule.worker].reply = run[schedule.worker].reply
      /\ run'[schedule.worker].task = run[schedule.worker].task
      /\ run'[schedule.worker].out = run[schedule.worker].out
      /\ run'[schedule.worker].turn = run[schedule.worker].turn
  <2> DEFINE next == [run[schedule.worker] EXCEPT !.normal = "start", !.hint = schedule.hint]
  <2>1. run' = [run EXCEPT ![schedule.worker] = next]
    BY DEF SendStart
  <2>2. run \in [Workers -> Runners] /\ run[schedule.worker] \in Runners
        /\ schedule.worker \in Workers /\ schedule.hint \in Hints
    BY <1>2 DEF TypeOK, Schedules
  <2>3. next \in Runners
    BY <2>2 DEF Runners
  <2>4. /\ next.normal = "start"
        /\ next.control = run[schedule.worker].control
        /\ next.typed = run[schedule.worker].typed
        /\ next.reply = run[schedule.worker].reply
        /\ next.task = run[schedule.worker].task
        /\ next.out = run[schedule.worker].out
        /\ next.turn = run[schedule.worker].turn
    BY <2>2 DEF Runners
  <2> HIDE DEF next
  <2> QED BY <2>1, <2>2, <2>3, <2>4
<1>4. /\ schedule' \in Schedules /\ schedule' # None /\ schedule'.worker = schedule.worker
      /\ schedule'.at = "sent"
  <2>1. schedule' = [schedule EXCEPT !.at = "sent"]
    BY DEF SendStart
  <2>2. schedule' \in Schedules /\ schedule'.worker = schedule.worker /\ schedule'.at = "sent"
    BY <1>2, <2>1 DEF Schedules
  <2> QED BY <2>2 DEF Schedules, None
<1>5. TypeOK'
  <2>1. \A v \in Workers : Len(run'[v].out) <= 4
    BY <1>1, <1>2, <1>3, <1>4 DEF TypeOK
  <2> QED BY <1>1, <1>2, <1>3, <1>4, <2>1 DEF TypeOK
<1>6. ChannelBounded'
  BY <1>1, <1>2, <1>3, <1>4, Subjects DEF ChannelBounded
<1>7. ScheduleInLanes'
  BY <1>1, <1>2, <1>3, <1>4, Subjects DEF ScheduleInLanes, ScheduleOf
<1>8. AuthorityOnce'
  BY <1>1, <1>2, <1>3, <1>4, Subjects DEF AuthorityOnce, ScheduleOf
<1>9. TypedOwned'
  BY <1>1, <1>2, <1>3, <1>4, Subjects DEF TypedOwned
<1>10. InputInOnePlace'
  BY <1>1, <1>2, <1>3, <1>4, Subjects DEF InputInOnePlace, Waits, ScheduleOf
<1>11. StopAnswered'
  BY <1>1, <1>2, <1>3, <1>4, Subjects DEF StopAnswered, ScheduleOf, HandoffOf
<1>12. HandoffSettles'
  BY <1>1, <1>2, <1>3, <1>4, Subjects DEF HandoffSettles, Quiescent, ScheduleOf
<1>13. QuietKept'
  BY <1>1, <1>2, <1>3, <1>4, Subjects DEF QuietKept, ScheduleOf
<1>14. AdmissionOwned' /\ MailCounted'
  BY <1>1, <1>2, <1>3, <1>4 DEF AdmissionOwned, HandoffOf, MailCounted, Unwritten
<1>15. Spares
  BY <1>1, <1>2, <1>3, <1>4 DEF Spares
<1> QED BY <1>5, <1>6, <1>7, <1>8, <1>9, <1>10, <1>11, <1>12, <1>13, <1>14, <1>15

LEMMA FinishScheduleKeeps ==
  ASSUME IInv, FinishSchedule
  PROVE  IInv' /\ Spares
<1> USE NoneAssumption DEF IInv
<1>1. UNCHANGED <<left, admission, input, detached, closed, slots, closing, lane,
                                ledger, permit, quiet, reports>>
  BY DEF FinishSchedule
<1>2. /\ schedule # None /\ schedule \in Schedules /\ schedule.worker \in Workers
      /\ schedule.at \in {"refused", "started", "failed"} /\ schedule' = None
  BY ServesFacts, Subjects DEF FinishSchedule
<1>3. /\ run' \in [Workers -> Runners] /\ \A v \in Workers : v # schedule.worker => run'[v] = run[v]
      /\ run'[schedule.worker].normal = (IF schedule.at = "refused" THEN "none" ELSE run[schedule.worker].normal)
      /\ run'[schedule.worker].control = run[schedule.worker].control
      /\ run'[schedule.worker].typed = run[schedule.worker].typed
      /\ run'[schedule.worker].reply = run[schedule.worker].reply
      /\ run'[schedule.worker].task = run[schedule.worker].task
      /\ run'[schedule.worker].out = run[schedule.worker].out
      /\ run'[schedule.worker].turn = run[schedule.worker].turn
  <2>1. CASE schedule.at = "refused"
    <3> DEFINE next == [run[schedule.worker] EXCEPT !.normal = "none"]
    <3>1. run' = [run EXCEPT ![schedule.worker] = next]
      BY <2>1 DEF FinishSchedule
    <3>2. run \in [Workers -> Runners] /\ schedule.worker \in Workers
         /\ run[schedule.worker] \in Runners
      BY <1>2 DEF TypeOK
    <3>3. next \in Runners
      BY <3>2 DEF Runners
    <3>4. /\ next.normal = "none" /\ next.control = run[schedule.worker].control
          /\ next.typed = run[schedule.worker].typed /\ next.reply = run[schedule.worker].reply
          /\ next.task = run[schedule.worker].task /\ next.out = run[schedule.worker].out
          /\ next.turn = run[schedule.worker].turn
      BY <3>2 DEF Runners
    <3> HIDE DEF next
    <3> QED BY <2>1, <3>1, <3>2, <3>3, <3>4
  <2>2. CASE schedule.at # "refused"
    BY <2>2 DEF FinishSchedule, TypeOK
  <2> QED BY <2>1, <2>2
<1>4. /\ wakes' \in [Workers -> Wakes]
      /\ \A v \in Workers : wakes[v].at = "none" => wakes'[v].at = "none"
      /\ owed' \subseteq Workers
  <2>1. (wakes' = wakes \/ wakes' = Without(schedule.worker)) /\ owed' \subseteq owed
    BY DEF FinishSchedule, ScheduleUsesWake
  <2> QED BY <1>2, <2>1, WithoutFacts DEF TypeOK
<1>5. \/ stop' = stop
      \/ stop' = None /\ stop # None /\ ~stop.sent /\ stop.worker = schedule.worker
  BY ServesFacts DEF FinishSchedule, StopJoinsSchedule
<1>6. \/ ingress' = ingress /\ handoff' = handoff
      \/ /\ handoff # None /\ handoff.at = "settle" /\ (ingress' = ingress \/ ingress' = None)
         /\ \/ handoff' = None
            \/ /\ handoff' \in Handoffs /\ handoff' # None /\ handoff'.worker = handoff.worker
               /\ handoff'.at \in {"settle", "stop"}
  <2>1. CASE ingress' = ingress /\ handoff' = handoff
    BY <2>1
  <2>2. CASE JoinsSchedule /\ ingress' = ingress /\ handoff' = [handoff EXCEPT !.at = "stop"]
    BY <2>2, HandoffAt, ServesFacts DEF JoinsSchedule
  <2>3. CASE (JoinsSchedule \/ JoinsStop) /\ HandoffFails
    BY <2>3, HandoffFailsFacts, ServesFacts DEF JoinsSchedule, JoinsStop
  <2> QED BY <2>1, <2>2, <2>3 DEF FinishSchedule
<1>7. TypeOK'
  <2>1. \A v \in Workers : Len(run'[v].out) <= 4
    BY <1>1, <1>2, <1>3, <1>4, <1>5, <1>6 DEF TypeOK
  <2> QED BY <1>1, <1>2, <1>3, <1>4, <1>5, <1>6, <2>1 DEF TypeOK
<1>8. ChannelBounded'
  BY <1>1, <1>2, <1>3, <1>4, <1>5, <1>6, Subjects DEF ChannelBounded
<1>9. ScheduleInLanes'
  BY <1>1, <1>2, <1>3, <1>4, <1>5, <1>6, Subjects DEF ScheduleInLanes, ScheduleOf
<1>10. AuthorityOnce'
  BY <1>1, <1>2, <1>3, <1>4, <1>5, <1>6, Subjects DEF AuthorityOnce, ScheduleOf,
       ScheduleInLanes
<1>11. AdmissionOwned'
  BY <1>1, <1>2, <1>3, <1>4, <1>5, <1>6, Subjects DEF AdmissionOwned, HandoffOf
<1>12. MailCounted'
  <2>1. Unwritten' => Unwritten
    BY <1>1, <1>2, <1>3, <1>4, <1>5, <1>6 DEF Unwritten, HandoffOf, AdmissionOwned
  <2>2. left'.mail = left.mail /\ \A v \in Workers : ledger'[v].sent = ledger[v].sent
    BY <1>1, <1>2, <1>3, <1>4, <1>5, <1>6
  <2> QED BY <2>1, <2>2, StillCounted
<1>13. TypedOwned'
  BY <1>1, <1>2, <1>3, <1>4, <1>5, <1>6, Subjects DEF TypedOwned
<1>14. InputInOnePlace'
  BY <1>1, <1>2, <1>3, <1>4, <1>5, <1>6, Subjects DEF InputInOnePlace, Waits,
       ScheduleOf, Inputs
<1>15. StopAnswered'
  BY <1>1, <1>2, <1>3, <1>4, <1>5, <1>6, Subjects DEF StopAnswered, ScheduleOf,
       HandoffOf
<1>16. HandoffSettles'
  BY <1>1, <1>2, <1>3, <1>4, <1>5, <1>6, Subjects DEF HandoffSettles, Quiescent,
       ScheduleOf
<1>17. QuietKept'
  BY <1>1, <1>2, <1>3, <1>4, <1>5, <1>6, Subjects DEF QuietKept, ScheduleOf
<1>18. Spares
  BY <1>1, <1>2, <1>3, <1>4, <1>5, <1>6 DEF Spares
<1> QED BY <1>7, <1>8, <1>9, <1>10, <1>11, <1>12, <1>13, <1>14, <1>15, <1>16, <1>17, <1>18

LEMMA BeginStopKeeps ==
  ASSUME IInv, NEW w \in Workers, BeginStop(w)
  PROVE  IInv' /\ Spares
<1> USE NoneAssumption DEF IInv
<1>1. UNCHANGED <<ingress, admission, schedule, input, detached, handoff, closed,
                                slots, closing, lane, ledger, permit, quiet, reports>>
  BY DEF BeginStop
<1>2. stop = None
  BY DEF BeginStop
<1>3. left' \in Budgets /\ left'.mail = left.mail /\ left'.input = left.input
  <2>1. left' = [left EXCEPT !.stop = left.stop - 1] /\ left.stop > 0 /\ left \in Budgets
    BY DEF BeginStop, TypeOK
  <2>2. left.stop - 1 \in 0..MaxStops
    BY <2>1, BoundsAssumption DEF Budgets
  <2> QED BY <2>1, <2>2 DEF Budgets
<1>4. /\ wakes' \in [Workers -> Wakes]
      /\ \A v \in Workers : wakes[v].at = "none" => wakes'[v].at = "none"
      /\ wakes'[w].at = "none" /\ owed' \subseteq Workers
  BY WithoutFacts DEF BeginStop, TypeOK
<1>5. \/ stop' = None /\ run' = run
      \/ /\ stop' \in Stops /\ stop' # None /\ stop'.worker = w /\ stop'.input = 0 /\ slots[w].at = "live"
         /\ ~stop'.sent => run' = run
         /\ stop'.sent => run' = StopSent(w) /\ ~ScheduleOf(w)
  <2> DEFINE joins == (Some(schedule) /\ schedule.worker = w) \/ (Some(input) /\ input.worker = w)
             accepted == slots[w].at = "live" /\ (joins \/ CanSendStop(w))
  <2>1. CASE ~accepted
    BY <2>1 DEF BeginStop
  <2>2. CASE accepted
    <3>1. /\ stop' = [worker |-> w, sent |-> ~joins, input |-> 0] /\ slots[w].at = "live"
          /\ run' = IF joins THEN run ELSE StopSent(w)
      BY <2>2 DEF BeginStop
    <3>2. joins \in BOOLEAN /\ (~joins => ~ScheduleOf(w))
      BY DEF ScheduleOf, Some
    <3> HIDE DEF joins
    <3>3. stop' \in Stops /\ stop'.worker = w /\ stop'.input = 0 /\ stop'.sent = ~joins
      BY <3>1, <3>2, BoundsAssumption DEF Stops
    <3>4. stop' # None
      BY <3>1 DEF None
    <3> QED BY <3>1, <3>2, <3>3, <3>4
  <2> QED BY <2>1, <2>2
<1>6. /\ run' \in [Workers -> Runners] /\ \A v \in Workers : v # w => run'[v] = run[v]
      /\ run'[w].normal = run[w].normal /\ run'[w].typed = run[w].typed
      /\ run'[w].task = run[w].task /\ run'[w].out = run[w].out
      /\ run'[w].turn = run[w].turn
      /\ \/ run'[w].control = run[w].control /\ run'[w].reply = run[w].reply
         \/ run[w].reply = "none" /\ run'[w].control = "stop" /\ run'[w].reply = "waiting"
  <2>1. CASE run' = run
    BY <2>1 DEF TypeOK
  <2>2. CASE run' = StopSent(w)
    BY <2>2, StopSentFacts
  <2> QED BY <1>5, <2>1, <2>2
<1>7. TypeOK'
  <2>1. \A v \in Workers : Len(run'[v].out) <= 4
    BY <1>1, <1>2, <1>3, <1>4, <1>5, <1>6 DEF TypeOK
  <2> QED BY <1>1, <1>2, <1>3, <1>4, <1>5, <1>6, <2>1 DEF TypeOK
<1>8. ChannelBounded'
  BY <1>1, <1>2, <1>3, <1>4, <1>5, <1>6, Subjects DEF ChannelBounded
<1>9. ScheduleInLanes'
  BY <1>1, <1>2, <1>3, <1>4, <1>5, <1>6, Subjects DEF ScheduleInLanes, ScheduleOf
<1>10. AuthorityOnce'
  BY <1>1, <1>2, <1>3, <1>4, <1>5, <1>6, Subjects DEF AuthorityOnce, ScheduleOf
<1>11. MailCounted'
  <2>1. Unwritten' => Unwritten
    BY <1>1, <1>2, <1>3, <1>4, <1>5, <1>6 DEF Unwritten, HandoffOf, AdmissionOwned
  <2>2. left'.mail = left.mail /\ \A v \in Workers : ledger'[v].sent = ledger[v].sent
    BY <1>1, <1>2, <1>3, <1>4, <1>5, <1>6
  <2> QED BY <2>1, <2>2, StillCounted
<1>12. TypedOwned'
  BY <1>1, <1>2, <1>3, <1>4, <1>5, <1>6, Subjects DEF TypedOwned
<1>13. InputInOnePlace'
  BY <1>1, <1>2, <1>3, <1>4, <1>5, <1>6, Subjects DEF InputInOnePlace, Waits,
       ScheduleOf, Inputs
<1>14. StopAnswered'
  BY <1>1, <1>2, <1>3, <1>4, <1>5, <1>6, Subjects DEF StopAnswered, ScheduleOf,
       HandoffOf
<1>15. HandoffSettles'
  BY <1>1, <1>2, <1>3, <1>4, <1>5, <1>6, Subjects DEF HandoffSettles, Quiescent,
       ScheduleOf
<1>16. QuietKept'
  BY <1>1, <1>2, <1>3, <1>4, <1>5, <1>6, Subjects DEF QuietKept, ScheduleOf
<1>17. AdmissionOwned'
  BY <1>1, <1>2, <1>3, <1>4, <1>5, <1>6 DEF AdmissionOwned, HandoffOf
<1>18. Spares
  BY <1>1, <1>2, <1>3, <1>4, <1>5, <1>6 DEF Spares
<1> QED BY <1>7, <1>8, <1>9, <1>10, <1>11, <1>12, <1>13, <1>14, <1>15, <1>16, <1>17, <1>18

LEMMA SendStopKeeps ==
  ASSUME IInv, SendStop
  PROVE  IInv' /\ Spares
<1> USE NoneAssumption DEF IInv
<1>1. UNCHANGED <<left, ingress, admission, wakes, schedule, input, detached,
                                handoff, closed, slots, closing, lane, ledger, permit, quiet,
                                owed, reports>>
  BY DEF SendStop
<1>2. /\ stop # None /\ stop \in Stops /\ stop.worker \in Workers
      /\ slots[stop.worker].at = "live" /\ ~ScheduleOf(stop.worker)
  <2>1. stop # None /\ stop \in Stops /\ stop.worker \in Workers
    BY ServesFacts, Subjects DEF SendStop
  <2>2. CASE stop.sent
    BY <2>1, <2>2 DEF StopAnswered
  <2>3. CASE ~stop.sent
    BY <2>1, <2>3 DEF SendStop, StopJoinsSchedule, ScheduleOf, Some
  <2> QED BY <2>1, <2>2, <2>3
<1>3. /\ stop' \in Stops /\ stop' # None /\ stop'.worker = stop.worker /\ stop'.sent
      /\ stop'.input = stop.input
  <2>1. stop' = [stop EXCEPT !.sent = TRUE]
    BY DEF SendStop
  <2>2. stop' \in Stops /\ stop'.worker = stop.worker /\ stop'.sent /\ stop'.input = stop.input
    BY <1>2, <2>1 DEF Stops
  <2> QED BY <2>2 DEF Stops, None
<1>4. /\ run' \in [Workers -> Runners] /\ \A v \in Workers : v # stop.worker => run'[v] = run[v]
      /\ run'[stop.worker].normal = run[stop.worker].normal
      /\ run'[stop.worker].typed = run[stop.worker].typed
      /\ run'[stop.worker].task = run[stop.worker].task
      /\ run'[stop.worker].out = run[stop.worker].out
      /\ run'[stop.worker].turn = run[stop.worker].turn
      /\ \/ run'[stop.worker].control = run[stop.worker].control /\ run'[stop.worker].reply = run[stop.worker].reply
         \/ run[stop.worker].reply = "none" /\ run'[stop.worker].control = "stop" /\ run'[stop.worker].reply = "waiting"
  BY <1>2, StopSentFacts DEF SendStop
<1>5. TypeOK'
  <2>1. \A v \in Workers : Len(run'[v].out) <= 4
    BY <1>1, <1>2, <1>3, <1>4 DEF TypeOK
  <2> QED BY <1>1, <1>2, <1>3, <1>4, <2>1 DEF TypeOK
<1>6. ChannelBounded'
  BY <1>1, <1>2, <1>3, <1>4, Subjects DEF ChannelBounded
<1>7. ScheduleInLanes'
  BY <1>1, <1>2, <1>3, <1>4, Subjects DEF ScheduleInLanes, ScheduleOf
<1>8. AuthorityOnce'
  BY <1>1, <1>2, <1>3, <1>4, Subjects DEF AuthorityOnce, ScheduleOf
<1>9. TypedOwned'
  BY <1>1, <1>2, <1>3, <1>4, Subjects DEF TypedOwned
<1>10. InputInOnePlace'
  BY <1>1, <1>2, <1>3, <1>4, Subjects DEF InputInOnePlace, Waits, ScheduleOf, Inputs
<1>11. StopAnswered'
  BY <1>1, <1>2, <1>3, <1>4, Subjects DEF StopAnswered, ScheduleOf, HandoffOf
<1>12. HandoffSettles'
  BY <1>1, <1>2, <1>3, <1>4, Subjects DEF HandoffSettles, Quiescent, ScheduleOf
<1>13. QuietKept'
  BY <1>1, <1>2, <1>3, <1>4, Subjects DEF QuietKept, ScheduleOf
<1>14. AdmissionOwned' /\ MailCounted'
  BY <1>1, <1>2, <1>3, <1>4 DEF AdmissionOwned, HandoffOf, MailCounted, Unwritten
<1>15. Spares
  BY <1>1, <1>2, <1>3, <1>4 DEF Spares
<1> QED BY <1>5, <1>6, <1>7, <1>8, <1>9, <1>10, <1>11, <1>12, <1>13, <1>14, <1>15

LEMMA StopUnsentKeeps ==
  ASSUME IInv, StopUnsent
  PROVE  IInv' /\ Spares
<1> USE NoneAssumption DEF IInv
<1>1. UNCHANGED <<left, admission, wakes, schedule, input, closed, slots, closing,
                                lane, run, ledger, permit, quiet, owed, reports>>
  BY DEF StopUnsent
<1>2. /\ stop # None /\ stop \in Stops /\ stop.worker \in Workers /\ stop' = None
      /\ detached' = IF stop.input # 0 THEN stop.input ELSE detached
      /\ slots[stop.worker].at = "live" => run[stop.worker].reply = "none"
  BY ServesFacts, Subjects DEF StopUnsent, StopFails, CanSendStop
<1>3. \/ ingress' = ingress /\ handoff' = handoff
      \/ /\ handoff # None /\ handoff.at = "settle" /\ (ingress' = ingress \/ ingress' = None)
         /\ \/ handoff' = None
            \/ /\ handoff' \in Handoffs /\ handoff' # None /\ handoff'.worker = handoff.worker
               /\ handoff'.at = "settle"
  <2>1. CASE JoinsStop /\ HandoffFails
    BY <2>1, HandoffFailsFacts, ServesFacts DEF JoinsStop
  <2>2. CASE ingress' = ingress /\ handoff' = handoff
    BY <2>2
  <2> QED BY <2>1, <2>2 DEF StopUnsent, StopFails
<1>4. detached' \in 0..MaxInputs
  BY <1>2 DEF TypeOK, Stops
<1>5. TypeOK'
  BY <1>1, <1>2, <1>3, <1>4 DEF TypeOK
<1>6. AdmissionOwned'
  BY <1>1, <1>2, <1>3, <1>4, Subjects DEF AdmissionOwned, HandoffOf
<1>7. MailCounted'
  <2>1. Unwritten' => Unwritten
    BY <1>1, <1>2, <1>3, <1>4 DEF Unwritten, HandoffOf, AdmissionOwned
  <2>2. left'.mail = left.mail /\ \A v \in Workers : ledger'[v].sent = ledger[v].sent
    BY <1>1, <1>2, <1>3, <1>4
  <2> QED BY <2>1, <2>2, StillCounted
<1>8. InputInOnePlace'
  BY <1>1, <1>2, <1>3, <1>4, Subjects DEF InputInOnePlace, Waits, ScheduleOf, Inputs
<1>9. StopAnswered'
  BY <1>1, <1>2, <1>3, <1>4, Subjects DEF StopAnswered, ScheduleOf, HandoffOf
<1>10. HandoffSettles'
  BY <1>1, <1>2, <1>3, <1>4, Subjects DEF HandoffSettles, Quiescent, ScheduleOf
<1>11. ChannelBounded' /\ ScheduleInLanes' /\ AuthorityOnce' /\ TypedOwned' /\ QuietKept'
  BY <1>1, <1>2, <1>3, <1>4 DEF ChannelBounded, ScheduleInLanes, ScheduleOf,
       AuthorityOnce, TypedOwned, QuietKept
<1>12. Spares
  BY <1>1, <1>2, <1>3, <1>4 DEF Spares
<1> QED BY <1>5, <1>6, <1>7, <1>8, <1>9, <1>10, <1>11, <1>12

LEMMA FinishStopKeeps ==
  ASSUME IInv, FinishStop
  PROVE  IInv' /\ Spares
<1> USE NoneAssumption DEF IInv
<1>1. UNCHANGED <<left, admission, wakes, schedule, input, closed, slots, closing,
                                lane, ledger, permit, owed>>
  BY DEF FinishStop
<1>2. /\ stop # None /\ stop \in Stops /\ stop.worker \in Workers /\ stop' = None /\ stop.sent
      /\ stop.input \in 0..MaxInputs /\ run[stop.worker].reply \in {"ok", "failed"}
      /\ wakes[stop.worker].at = "none" /\ ~ScheduleOf(stop.worker)
  BY ServesFacts, Subjects DEF FinishStop, StopFails, StopAnswered, Stops
<1>3. /\ run' \in [Workers -> Runners] /\ \A v \in Workers : v # stop.worker => run'[v] = run[v]
      /\ run'[stop.worker].normal = run[stop.worker].normal
      /\ run'[stop.worker].control = run[stop.worker].control
      /\ run'[stop.worker].typed = run[stop.worker].typed
      /\ run'[stop.worker].reply = "none"
      /\ run'[stop.worker].task = run[stop.worker].task
      /\ run'[stop.worker].out = run[stop.worker].out
      /\ run'[stop.worker].turn = run[stop.worker].turn
  <2> DEFINE next == [run[stop.worker] EXCEPT !.reply = "none"]
  <2>1. run' = [run EXCEPT ![stop.worker] = next]
    BY DEF FinishStop
  <2>2. run \in [Workers -> Runners] /\ run[stop.worker] \in Runners /\ stop.worker \in Workers
    BY <1>2 DEF TypeOK
  <2>3. next \in Runners
    BY <2>2 DEF Runners
  <2>4. /\ next.normal = run[stop.worker].normal
        /\ next.control = run[stop.worker].control
        /\ next.typed = run[stop.worker].typed
        /\ next.reply = "none"
        /\ next.task = run[stop.worker].task
        /\ next.out = run[stop.worker].out
        /\ next.turn = run[stop.worker].turn
    BY <2>2 DEF Runners
  <2> HIDE DEF next
  <2> QED BY <2>1, <2>2, <2>3, <2>4
<1>4. \/ /\ quiet' = quiet /\ reports' = reports
         /\ detached' = IF stop.input # 0 THEN stop.input ELSE detached
      \/ /\ detached' = detached /\ run[stop.worker].reply = "ok"
         /\ quiet' = quiet \cup {stop.worker}
         /\ reports' = IF stop.input = 0 THEN reports
                       ELSE [reports EXCEPT ![stop.input] = reports[stop.input] + 1]
  BY DEF FinishStop, StopFails, Told
<1>5. \/ ingress' = ingress /\ handoff' = handoff
      \/ /\ handoff # None /\ handoff.at = "settle" /\ (ingress' = ingress \/ ingress' = None)
         /\ \/ handoff' = None
            \/ /\ handoff' \in Handoffs /\ handoff' # None /\ handoff'.worker = handoff.worker
               /\ \/ handoff'.at = "settle"
                  \/ /\ handoff'.at = "append" /\ handoff.worker = stop.worker
                     /\ run[stop.worker].reply = "ok"
  <2>1. CASE JoinsStop /\ HandoffFails
    BY <2>1, HandoffFailsFacts, ServesFacts DEF JoinsStop
  <2>2. CASE ingress' = ingress /\ handoff' = handoff
    BY <2>2
  <2>3. CASE /\ JoinsStop /\ handoff' = [handoff EXCEPT !.at = "append"] /\ ingress' = ingress
             /\ run[stop.worker].reply = "ok"
    BY <2>3, HandoffAt, ServesFacts DEF JoinsStop
  <2> QED BY <2>1, <2>2, <2>3 DEF FinishStop, StopFails
<1>6. /\ detached' \in 0..MaxInputs /\ quiet' \subseteq Workers
      /\ reports' \in [Inputs -> 0..2]
  <2>1. reports \in [Inputs -> 0..2] /\ detached \in 0..MaxInputs /\ quiet \subseteq Workers
    BY DEF TypeOK
  <2>2. stop.input # 0 => stop.input \in Inputs /\ reports[stop.input] + 1 \in 0..2
    BY <1>2, BoundsAssumption DEF InputInOnePlace, Waits, Inputs
  <2> QED BY <1>2, <1>4, <2>1, <2>2
<1>7. /\ run[stop.worker].reply = "ok" => run[stop.worker].turn # "main"
      /\ run[stop.worker].normal # "start" /\ (run[stop.worker].turn # "main" => stop.worker \notin permit)
  BY <1>2 DEF StopAnswered, ScheduleInLanes, AuthorityOnce, ScheduleOf
<1>8. TypeOK'
  <2>1. \A v \in Workers : Len(run'[v].out) <= 4
    BY <1>1, <1>2, <1>3, <1>4, <1>5, <1>6, <1>7 DEF TypeOK
  <2> QED BY <1>1, <1>2, <1>3, <1>4, <1>5, <1>6, <1>7, <2>1 DEF TypeOK
<1>9. ChannelBounded'
  BY <1>1, <1>2, <1>3, <1>4, <1>5, <1>6, <1>7, Subjects DEF ChannelBounded
<1>10. ScheduleInLanes'
  BY <1>1, <1>2, <1>3, <1>4, <1>5, <1>6, <1>7, Subjects DEF ScheduleInLanes, ScheduleOf
<1>11. AuthorityOnce'
  BY <1>1, <1>2, <1>3, <1>4, <1>5, <1>6, <1>7, Subjects DEF AuthorityOnce, ScheduleOf
<1>12. AdmissionOwned'
  BY <1>1, <1>2, <1>3, <1>4, <1>5, <1>6, <1>7, Subjects DEF AdmissionOwned, HandoffOf
<1>13. MailCounted'
  <2>1. Unwritten' => Unwritten
    BY <1>1, <1>2, <1>3, <1>4, <1>5, <1>6, <1>7 DEF Unwritten, HandoffOf, AdmissionOwned
  <2>2. left'.mail = left.mail /\ \A v \in Workers : ledger'[v].sent = ledger[v].sent
    BY <1>1, <1>2, <1>3, <1>4, <1>5, <1>6, <1>7
  <2> QED BY <2>1, <2>2, StillCounted
<1>14. TypedOwned'
  BY <1>1, <1>2, <1>3, <1>4, <1>5, <1>6, <1>7, Subjects DEF TypedOwned
<1>15. InputInOnePlace'
  <2> DEFINE n == MaxInputs - left.input
  <2>1. stop.input # 0 => input = None /\ detached = 0
    BY <1>2 DEF InputInOnePlace
  <2>2. ASSUME NEW i \in Inputs
        PROVE  /\ Waits(i)' => Waits(i)
               /\ reports'[i] = IF i > n \/ Waits(i)' THEN 0 ELSE 1
    <3>1. i # 0 /\ reports \in [Inputs -> 0..2]
      BY InputsPositive DEF TypeOK
    <3>2. (Waits(i) => i <= n) /\ reports[i] = IF i > n \/ Waits(i) THEN 0 ELSE 1
      BY DEF InputInOnePlace
    <3>3. CASE reports' = reports /\ detached' = IF stop.input # 0 THEN stop.input ELSE detached
      <4>1. Waits(i)' <=> Waits(i)
        BY <1>1, <1>2, <2>1, <3>1, <3>3 DEF Waits
      <4> QED BY <3>2, <3>3, <4>1
    <3>4. CASE detached' = detached /\ stop.input = i /\ reports' = [reports EXCEPT ![i] = reports[i] + 1]
      <4>1. ~Waits(i)' /\ Waits(i)
        BY <1>1, <1>2, <2>1, <3>1, <3>4 DEF Waits
      <4>2. i <= n /\ reports[i] = 0 /\ ~(i > n)
        <5>1. i \in Nat /\ n \in Int
          BY InputsPositive, BoundsAssumption DEF TypeOK, Budgets
        <5> HIDE DEF n
        <5> QED BY <3>2, <4>1, <5>1
      <4>3. reports'[i] = 1
        BY <3>1, <3>4, <4>2
      <4> QED BY <4>1, <4>2, <4>3
    <3>5. CASE /\ detached' = detached /\ stop.input # i
               /\ reports' = IF stop.input = 0 THEN reports
                             ELSE [reports EXCEPT ![stop.input] = reports[stop.input] + 1]
      <4>1. Waits(i)' <=> Waits(i)
        BY <1>1, <1>2, <3>5 DEF Waits
      <4>2. reports'[i] = reports[i]
        BY <3>1, <3>5
      <4> QED BY <3>2, <4>1, <4>2
    <3> QED BY <1>4, <3>1, <3>3, <3>4, <3>5
  <2>3. detached' # 0 => input' = None /\ (stop' # None => stop'.input = 0)
    BY <1>1, <1>2, <1>4, <2>1 DEF InputInOnePlace
  <2>4. left' = left /\ stop' = None
    BY <1>1, <1>2
  <2> HIDE DEF n
  <2>5. \A i \in Inputs : /\ Waits(i)' => i <= n
                          /\ reports'[i] = IF i > n \/ Waits(i)' THEN 0 ELSE 1
    BY <2>2 DEF InputInOnePlace, n
  <2> QED BY <2>3, <2>4, <2>5 DEF InputInOnePlace, n
<1>16. StopAnswered'
  BY <1>1, <1>2, <1>3, <1>4, <1>5, <1>6, <1>7, Subjects DEF StopAnswered, ScheduleOf,
       HandoffOf
<1>17. HandoffSettles'
  BY <1>1, <1>2, <1>3, <1>4, <1>5, <1>6, <1>7, Subjects DEF HandoffSettles, Quiescent,
       ScheduleOf, StopAnswered
<1>18. QuietKept'
  BY <1>1, <1>2, <1>3, <1>4, <1>5, <1>6, <1>7, Subjects DEF QuietKept, ScheduleOf
<1>19. Spares
  BY <1>1, <1>2, <1>3, <1>4, <1>5, <1>6, <1>7 DEF Spares
<1> QED BY <1>8, <1>9, <1>10, <1>11, <1>12, <1>13, <1>14, <1>15, <1>16, <1>17, <1>18, <1>19

LEMMA GiveInputKeeps ==
  ASSUME IInv, NEW w \in Workers, GiveInput(w)
  PROVE  IInv' /\ Spares
<1> USE NoneAssumption DEF IInv
<1>1. UNCHANGED <<ingress, admission, wakes, schedule, stop, detached, handoff,
                                closed, slots, closing, lane, ledger, permit, quiet, owed,
                                reports>>
  BY DEF GiveInput
<1>2. /\ input = None /\ stop = None /\ handoff = None /\ detached = 0
      /\ ledger[w].user /\ slots[w].at = "live" /\ run[w].task # "gone"
  BY DEF GiveInput
<1>3. /\ left' \in Budgets /\ left'.mail = left.mail /\ left'.input = left.input - 1
      /\ left.input \in 1..MaxInputs
  <2>1. left' = [left EXCEPT !.input = left.input - 1] /\ left.input > 0 /\ left \in Budgets
    BY DEF GiveInput, TypeOK
  <2>2. left.input - 1 \in 0..MaxInputs /\ left.input \in 1..MaxInputs
    BY <2>1, BoundsAssumption DEF Budgets
  <2> QED BY <2>1, <2>2 DEF Budgets
<1>4. /\ run' \in [Workers -> Runners] /\ \A v \in Workers : v # w => run'[v] = run[v]
      /\ run'[w].normal = run[w].normal /\ run'[w].control = run[w].control
      /\ run'[w].typed = TRUE /\ run'[w].reply = run[w].reply
      /\ run'[w].task = run[w].task /\ run'[w].out = run[w].out
      /\ run'[w].turn = run[w].turn
  <2> DEFINE next == [run[w] EXCEPT !.typed = TRUE]
  <2>1. run' = [run EXCEPT ![w] = next]
    BY DEF GiveInput
  <2>2. run \in [Workers -> Runners] /\ run[w] \in Runners
    BY DEF TypeOK
  <2>3. next \in Runners
    BY <2>2 DEF Runners
  <2>4. /\ next.normal = run[w].normal /\ next.control = run[w].control
        /\ next.typed = TRUE /\ next.reply = run[w].reply
        /\ next.task = run[w].task /\ next.out = run[w].out
        /\ next.turn = run[w].turn
    BY <2>2 DEF Runners
  <2> HIDE DEF next
  <2> QED BY <2>1, <2>2, <2>3, <2>4
<1>5. /\ input' \in UserInputs /\ input' # None /\ input'.worker = w /\ ~input'.told
      /\ input'.id = MaxInputs - left'.input
  <2>1. input' = [worker |-> w, id |-> MaxInputs - left'.input, told |-> FALSE]
    BY DEF GiveInput
  <2>2. MaxInputs - left'.input \in Inputs
    BY <1>3, BoundsAssumption DEF Inputs
  <2> QED BY <2>1, <2>2 DEF UserInputs, None
<1>6. TypeOK'
  <2>1. \A v \in Workers : Len(run'[v].out) <= 4
    BY <1>1, <1>2, <1>3, <1>4, <1>5 DEF TypeOK
  <2> QED BY <1>1, <1>2, <1>3, <1>4, <1>5, <2>1 DEF TypeOK
<1>7. ChannelBounded'
  BY <1>1, <1>2, <1>3, <1>4, <1>5, Subjects DEF ChannelBounded
<1>8. ScheduleInLanes'
  BY <1>1, <1>2, <1>3, <1>4, <1>5, Subjects DEF ScheduleInLanes, ScheduleOf
<1>9. AuthorityOnce'
  BY <1>1, <1>2, <1>3, <1>4, <1>5, Subjects DEF AuthorityOnce, ScheduleOf
<1>10. MailCounted'
  <2>1. Unwritten' => Unwritten
    BY <1>1, <1>2, <1>3, <1>4, <1>5 DEF Unwritten, HandoffOf, AdmissionOwned
  <2>2. left'.mail = left.mail /\ \A v \in Workers : ledger'[v].sent = ledger[v].sent
    BY <1>1, <1>2, <1>3, <1>4, <1>5
  <2> QED BY <2>1, <2>2, StillCounted
<1>11. TypedOwned'
  BY <1>1, <1>2, <1>3, <1>4, <1>5, Subjects DEF TypedOwned
<1>12. InputInOnePlace'
  <2>1. ASSUME NEW i \in Inputs
        PROVE  /\ Waits(i)' => i <= MaxInputs - left'.input
               /\ reports'[i] = IF i > MaxInputs - left'.input \/ Waits(i)' THEN 0 ELSE 1
    <3>1. i \in Nat /\ i # 0 /\ left.input \in Nat /\ left'.input = left.input - 1 /\ MaxInputs \in Nat
      BY <1>3, InputsPositive, BoundsAssumption
    <3>2. reports[i] = IF i > MaxInputs - left.input THEN 0 ELSE 1
      BY <1>2, <3>1 DEF InputInOnePlace, Waits
    <3>3. Waits(i)' <=> i = MaxInputs - left'.input
      BY <1>1, <1>2, <1>5, <3>1 DEF Waits
    <3>4. reports'[i] = reports[i]
      BY <1>1
    <3> QED BY <3>1, <3>2, <3>3, <3>4
  <2> QED BY <1>1, <1>2, <2>1 DEF InputInOnePlace
<1>13. StopAnswered'
  BY <1>1, <1>2, <1>3, <1>4, <1>5, Subjects DEF StopAnswered, ScheduleOf, HandoffOf
<1>14. HandoffSettles'
  BY <1>1, <1>2, <1>3, <1>4, <1>5, Subjects DEF HandoffSettles, Quiescent, ScheduleOf
<1>15. QuietKept'
  BY <1>1, <1>2, <1>3, <1>4, <1>5, Subjects DEF QuietKept, ScheduleOf
<1>16. AdmissionOwned'
  BY <1>1, <1>2, <1>3, <1>4, <1>5 DEF AdmissionOwned, HandoffOf
<1>17. Spares
  BY <1>1, <1>2, <1>3, <1>4, <1>5 DEF Spares
<1> QED BY <1>6, <1>7, <1>8, <1>9, <1>10, <1>11, <1>12, <1>13, <1>14, <1>15, <1>16, <1>17

LEMMA FinishInputKeeps ==
  ASSUME IInv, FinishInput
  PROVE  IInv' /\ Spares
<1> USE NoneAssumption DEF IInv
<1>1. UNCHANGED <<left, ingress, admission, wakes, schedule, detached, handoff,
                                closed, slots, closing, lane, run, ledger, permit, quiet, owed>>
  BY DEF FinishInput
<1>2. /\ input # None /\ input.told /\ input.id \in Inputs /\ input' = None
      /\ reports \in [Inputs -> 0..2] /\ reports[input.id] = 0 /\ detached = 0
      /\ stop # None => stop.input = 0
  <2>1. input # None /\ input.told /\ input.id \in Inputs /\ input' = None
    BY ServesFacts, Subjects DEF FinishInput, UserInputs
  <2> QED BY <2>1 DEF TypeOK, InputInOnePlace, Waits
<1>3. \/ /\ stop' = stop
         /\ reports' = [reports EXCEPT ![input.id] = reports[input.id] + 1]
      \/ /\ reports' = reports /\ stop # None /\ ~stop.sent /\ ~ScheduleOf(stop.worker)
         /\ stop' \in Stops /\ stop' # None /\ stop'.worker = stop.worker /\ ~stop'.sent
         /\ stop'.input = input.id
  <2>1. CASE StopJoinsInput
    <3>1. /\ stop # None /\ stop \in Stops /\ ~stop.sent /\ ~ScheduleOf(stop.worker)
          /\ stop' = [stop EXCEPT !.input = input.id] /\ reports' = reports
      BY <2>1, ServesFacts, Subjects DEF FinishInput, StopJoinsInput, StopJoinsSchedule, ScheduleOf, Some
    <3>2. input.id \in 0..MaxInputs
      BY <1>2, BoundsAssumption DEF Inputs
    <3>3. stop' \in Stops /\ stop'.worker = stop.worker /\ ~stop'.sent /\ stop'.input = input.id
      BY <3>1, <3>2 DEF Stops
    <3>4. stop' # None
      BY <3>3 DEF Stops, None
    <3> QED BY <3>1, <3>3, <3>4
  <2>2. CASE ~StopJoinsInput
    BY <1>2, <2>2, InputsPositive DEF FinishInput, Told
  <2> QED BY <2>1, <2>2
<1>4. reports' \in [Inputs -> 0..2]
  BY <1>2, <1>3
<1>5. TypeOK'
  BY <1>1, <1>2, <1>3, <1>4 DEF TypeOK
<1>6. TypedOwned'
  BY <1>1, <1>2, <1>3, <1>4, Subjects DEF TypedOwned
<1>7. InputInOnePlace'
  <2>1. ASSUME NEW i \in Inputs
        PROVE  /\ Waits(i)' => i <= MaxInputs - left.input
               /\ reports'[i] = IF i > MaxInputs - left.input \/ Waits(i)' THEN 0 ELSE 1
    <3>1. i # 0 /\ (Waits(i) => i <= MaxInputs - left.input)
          /\ reports[i] = IF i > MaxInputs - left.input \/ Waits(i) THEN 0 ELSE 1
      BY InputsPositive DEF InputInOnePlace
    <3>2. CASE i # input.id
      <4>1. (Waits(i)' <=> Waits(i)) /\ reports'[i] = reports[i]
        BY <1>1, <1>2, <1>3, <3>1, <3>2 DEF Waits
      <4> QED BY <3>1, <4>1
    <3>3. CASE i = input.id /\ reports' = reports
      <4>1. Waits(i)' /\ Waits(i)
        BY <1>1, <1>2, <1>3, <3>1, <3>3 DEF Waits
      <4> QED BY <3>1, <3>3, <4>1
    <3>4. CASE i = input.id /\ stop' = stop /\ reports' = [reports EXCEPT ![input.id] = reports[input.id] + 1]
      <4>1. ~Waits(i)' /\ Waits(i) /\ reports'[i] = 1
        BY <1>1, <1>2, <3>1, <3>4 DEF Waits
      <4>2. i \in Nat /\ MaxInputs - left.input \in Int
        BY InputsPositive, BoundsAssumption DEF TypeOK, Budgets
      <4>3. ~(i > MaxInputs - left.input)
        BY <3>1, <4>1, <4>2
      <4> QED BY <4>1, <4>3
    <3> QED BY <1>3, <3>2, <3>3, <3>4
  <2> QED BY <1>1, <1>2, <1>3, <2>1 DEF InputInOnePlace, ScheduleOf
<1>8. StopAnswered'
  BY <1>1, <1>2, <1>3, <1>4, Subjects DEF StopAnswered, ScheduleOf, HandoffOf
<1>9. ChannelBounded' /\ ScheduleInLanes' /\ AuthorityOnce' /\ AdmissionOwned' /\
      MailCounted' /\ HandoffSettles' /\ QuietKept'
  BY <1>1, <1>2, <1>3, <1>4 DEF ChannelBounded, ScheduleInLanes, ScheduleOf,
       AuthorityOnce, AdmissionOwned, HandoffOf, MailCounted, Unwritten, HandoffSettles,
       Quiescent, QuietKept
<1>10. Spares
  BY <1>1, <1>2, <1>3, <1>4 DEF Spares
<1> QED BY <1>5, <1>6, <1>7, <1>8, <1>9, <1>10

LEMMA TellDetachedKeeps ==
  ASSUME IInv, TellDetached
  PROVE  IInv' /\ Spares
<1> USE NoneAssumption DEF IInv
<1>1. UNCHANGED <<left, ingress, admission, wakes, schedule, stop, input, handoff,
                                closed, slots, closing, lane, run, ledger, permit, quiet, owed>>
  BY DEF TellDetached
<1>2. /\ detached \in Inputs /\ detached' = 0 /\ input = None /\ (stop # None => stop.input = 0)
      /\ reports \in [Inputs -> 0..2] /\ reports[detached] = 0
      /\ reports' = [reports EXCEPT ![detached] = reports[detached] + 1]
  <2>1. detached # 0 /\ detached' = 0 /\ detached \in Inputs
    BY FocusFacts, BoundsAssumption DEF TellDetached, TypeOK, Inputs
  <2> QED BY <2>1 DEF TellDetached, Told, TypeOK, InputInOnePlace, Waits
<1>3. reports' \in [Inputs -> 0..2] /\ detached' \in 0..MaxInputs
  BY <1>2, BoundsAssumption
<1>4. TypeOK'
  BY <1>1, <1>2, <1>3 DEF TypeOK
<1>5. InputInOnePlace'
  <2>1. ASSUME NEW i \in Inputs
        PROVE  /\ Waits(i)' => i <= MaxInputs - left.input
               /\ reports'[i] = IF i > MaxInputs - left.input \/ Waits(i)' THEN 0 ELSE 1
    <3>1. i # 0 /\ (Waits(i) => i <= MaxInputs - left.input)
          /\ reports[i] = IF i > MaxInputs - left.input \/ Waits(i) THEN 0 ELSE 1
      BY InputsPositive DEF InputInOnePlace
    <3>2. CASE i # detached
      <4>1. (Waits(i)' <=> Waits(i)) /\ reports'[i] = reports[i]
        BY <1>1, <1>2, <3>1, <3>2 DEF Waits
      <4> QED BY <3>1, <4>1
    <3>3. CASE i = detached
      <4>1. ~Waits(i)' /\ Waits(i) /\ reports'[i] = 1
        BY <1>1, <1>2, <3>1, <3>3 DEF Waits
      <4>2. i \in Nat /\ MaxInputs - left.input \in Int
        BY InputsPositive, BoundsAssumption DEF TypeOK, Budgets
      <4>3. ~(i > MaxInputs - left.input)
        BY <3>1, <4>1, <4>2
      <4> QED BY <4>1, <4>3
    <3> QED BY <3>2, <3>3
  <2> QED BY <1>1, <1>2, <2>1 DEF InputInOnePlace, ScheduleOf
<1>6. ChannelBounded' /\ ScheduleInLanes' /\ AuthorityOnce' /\ AdmissionOwned' /\
      MailCounted' /\ TypedOwned' /\ StopAnswered' /\ HandoffSettles' /\ QuietKept'
  BY <1>1, <1>2, <1>3 DEF ChannelBounded, ScheduleInLanes, ScheduleOf, AuthorityOnce,
       AdmissionOwned, HandoffOf, MailCounted, Unwritten, TypedOwned, StopAnswered,
       HandoffSettles, Quiescent, QuietKept
<1>7. Spares
  BY <1>1, <1>2, <1>3 DEF Spares
<1> QED BY <1>4, <1>5, <1>6, <1>7

LEMMA ReceiveKeeps ==
  ASSUME IInv, NEW w \in Workers, NEW kind \in {"mail", "handoff"}, Receive(kind, w)
  PROVE  IInv' /\ Spares
<1> USE NoneAssumption DEF IInv
<1>1. UNCHANGED <<admission, wakes, schedule, stop, input, detached, handoff,
                                closed, slots, closing, lane, run, ledger, permit, quiet, owed,
                                reports>>
  BY DEF Receive
<1>2. /\ ingress = None /\ left \in Budgets /\ left' \in Budgets /\ left'.input = left.input
      /\ left'.mail = IF kind = "mail" THEN left.mail - 1 ELSE left.mail
      /\ kind = "mail" => left.mail > 0
  <2>1. ingress = None /\ left \in Budgets /\ left[kind] > 0 /\ left' = [left EXCEPT ![kind] = left[kind] - 1]
    BY DEF Receive, TypeOK
  <2>2. CASE kind = "mail"
    <3>1. left' = [left EXCEPT !.mail = left.mail - 1] /\ left.mail > 0
      BY <2>1, <2>2
    <3>2. left.mail - 1 \in 0..MaxMail
      BY <2>1, <3>1, BoundsAssumption DEF Budgets
    <3> QED BY <2>1, <2>2, <3>1, <3>2 DEF Budgets
  <2>3. CASE kind = "handoff"
    <3>1. left' = [left EXCEPT !.handoff = left.handoff - 1] /\ left.handoff > 0
      BY <2>1, <2>3
    <3>2. left.handoff - 1 \in 0..MaxHandoffs
      BY <2>1, <3>1, BoundsAssumption DEF Budgets
    <3> QED BY <2>1, <2>3, <3>1, <3>2 DEF Budgets
  <2> QED BY <2>2, <2>3
<1>3. /\ ingress' \in Commands /\ ingress' # None /\ ingress'.kind = kind
  <2> DEFINE h == IF kind = "mail" /\ slots[w].at = "live" THEN MaxMail - left'.mail ELSE 0
  <2>1. ingress' = [worker |-> w, kind |-> kind, hint |-> h]
    BY DEF Receive
  <2>2. h \in Hints
    BY <1>2, BoundsAssumption DEF Budgets, Hints
  <2> HIDE DEF h
  <2> QED BY <2>1, <2>2 DEF Commands, None
<1>4. TypeOK'
  BY <1>1, <1>2, <1>3 DEF TypeOK
<1>5. AdmissionOwned'
  BY <1>1, <1>2, <1>3, Subjects DEF AdmissionOwned, HandoffOf
<1>6. MailCounted'
  <2>1. ~Unwritten
    BY <1>2 DEF Unwritten
  <2> SUFFICES ASSUME NEW v \in Workers
               PROVE  ledger[v].sent + left'.mail + (IF Unwritten' THEN 1 ELSE 0) <= MaxMail
    BY <1>1 DEF MailCounted
  <2>2. ledger[v].sent + left.mail + 0 <= MaxMail
    BY <2>1 DEF MailCounted
  <2>3. ledger[v].sent \in Nat /\ left.mail \in Nat
    BY <1>2 DEF TypeOK, Accounts, Budgets, Hints
  <2>4. CASE kind = "mail"
    BY <1>2, <2>2, <2>3, <2>4, BoundsAssumption
  <2>5. CASE kind # "mail"
    <3>1. ~Unwritten'
      BY <1>3, <2>5 DEF Unwritten
    <3> QED BY <1>2, <2>2, <2>5, <3>1
  <2> QED BY <2>4, <2>5
<1>7. InputInOnePlace'
  BY <1>1, <1>2, <1>3, Subjects DEF InputInOnePlace, Waits, ScheduleOf
<1>8. ChannelBounded' /\ ScheduleInLanes' /\ AuthorityOnce' /\ TypedOwned' /\
      StopAnswered' /\ HandoffSettles' /\ QuietKept'
  BY <1>1, <1>2, <1>3 DEF ChannelBounded, ScheduleInLanes, ScheduleOf, AuthorityOnce,
       TypedOwned, StopAnswered, HandoffOf, HandoffSettles, Quiescent, QuietKept
<1>9. Spares
  BY <1>1, <1>2, <1>3 DEF Spares
<1> QED BY <1>4, <1>5, <1>6, <1>7, <1>8, <1>9

LEMMA AdmitMailKeeps ==
  ASSUME IInv, AdmitMail
  PROVE  IInv' /\ Spares
<1> USE NoneAssumption DEF IInv
<1>1. UNCHANGED <<left, wakes, schedule, stop, input, detached, handoff, closed,
                                slots, closing, run, ledger, permit, quiet, owed, reports>>
  BY DEF AdmitMail
<1>2. /\ ingress # None /\ ingress \in Commands /\ ingress.worker \in Workers
      /\ ingress.kind = "mail"
  BY FocusFacts, Subjects DEF AdmitMail
<1>3. \/ handoff # None /\ ingress' = None /\ lane' = lane /\ admission' = admission
      \/ /\ handoff = None /\ admission = None /\ lane = None /\ ingress' = ingress
         /\ lane' = [worker |-> ingress.worker, cmd |-> "mail"] /\ lane' \in Lanes /\ lane' # None
         /\ lane'.worker = ingress.worker /\ lane'.cmd = "mail"
         /\ admission' = [worker |-> ingress.worker, reply |-> "waiting"]
         /\ admission' \in Admissions /\ admission' # None
         /\ admission'.worker = ingress.worker /\ admission'.reply = "waiting"
  <2>1. CASE handoff # None /\ ingress' = None /\ lane' = lane /\ admission' = admission
    BY <2>1
  <2>2. CASE /\ handoff = None /\ admission = None /\ lane = None /\ ingress' = ingress
             /\ lane' = [worker |-> ingress.worker, cmd |-> "mail"]
             /\ admission' = [worker |-> ingress.worker, reply |-> "waiting"]
    BY <1>2, <2>2 DEF Lanes, Admissions, None
  <2> QED BY <2>1, <2>2 DEF AdmitMail, Some
<1>4. TypeOK'
  BY <1>1, <1>2, <1>3 DEF TypeOK
<1>5. ScheduleInLanes'
  BY <1>1, <1>2, <1>3, Subjects DEF ScheduleInLanes, ScheduleOf, None
<1>6. AdmissionOwned'
  BY <1>1, <1>2, <1>3, Subjects DEF AdmissionOwned, HandoffOf
<1>7. MailCounted'
  <2>1. Unwritten' => Unwritten
    BY <1>1, <1>2, <1>3 DEF Unwritten, HandoffOf, AdmissionOwned
  <2>2. left'.mail = left.mail /\ \A v \in Workers : ledger'[v].sent = ledger[v].sent
    BY <1>1, <1>2, <1>3
  <2> QED BY <2>1, <2>2, StillCounted
<1>8. ChannelBounded' /\ AuthorityOnce' /\ TypedOwned' /\ InputInOnePlace' /\
      StopAnswered' /\ HandoffSettles' /\ QuietKept'
  BY <1>1, <1>2, <1>3 DEF ChannelBounded, AuthorityOnce, ScheduleOf, TypedOwned,
       InputInOnePlace, Waits, StopAnswered, HandoffOf, HandoffSettles, Quiescent, QuietKept
<1>9. Spares
  BY <1>1, <1>2, <1>3 DEF Spares
<1> QED BY <1>4, <1>5, <1>6, <1>7, <1>8, <1>9

LEMMA FinishMailKeeps ==
  ASSUME IInv, FinishMail
  PROVE  IInv' /\ Spares
<1> USE NoneAssumption DEF IInv
<1>1. UNCHANGED <<left, schedule, stop, input, detached, handoff, closed, slots,
                                closing, lane, ledger, permit, reports>>
  BY DEF FinishMail
<1>2. /\ ingress # None /\ ingress \in Commands /\ ingress.worker \in Workers
      /\ handoff = None /\ admission # None /\ admission' = None /\ ingress' = None
      /\ lane # None => lane.cmd \notin {"mail", "handoff"}
  <2>1. /\ ingress # None /\ ingress \in Commands /\ ingress.worker \in Workers
        /\ handoff = None /\ admission # None /\ admission' = None /\ ingress' = None
        /\ admission.reply = "ok"
    BY FocusFacts, Subjects DEF FinishMail, Some
  <2> QED BY <2>1 DEF AdmissionOwned
<1>3. /\ wakes' \in [Workers -> Wakes]
      /\ \A v \in Workers : v # ingress.worker => wakes'[v] = wakes[v]
      /\ ~WakeAdmitted(ingress.worker) => wakes' = wakes /\ quiet' = quiet
      /\ WakeAdmitted(ingress.worker) => quiet' = quiet \ {ingress.worker}
      /\ owed' \subseteq Workers
  <2> DEFINE w == ingress.worker
             new == WakeAdmitted(w) /\ wakes[w].at = "none"
             next == IF new THEN NewWake(w)
                     ELSE [wakes[w] EXCEPT !.at = IF @ = "deferred" THEN "ready" ELSE @]
  <2>1. wakes \in [Workers -> Wakes] /\ wakes[w] \in Wakes /\ quiet \subseteq Workers /\ owed \subseteq Workers
    BY <1>2 DEF TypeOK
  <2>2. NewWake(w) \in Wakes
    BY <1>2 DEF NewWake, Commands, Wakes
  <2>3. next \in Wakes
    BY <2>1, <2>2 DEF Wakes
  <2>4. ~WakeAdmitted(w) => wakes' = wakes /\ quiet' = quiet
    BY DEF FinishMail
  <2>5. WakeAdmitted(w) => wakes' = [wakes EXCEPT ![w] = next]
    <3>1. CASE new
      BY <3>1 DEF FinishMail
    <3>2. CASE WakeAdmitted(w) /\ wakes[w].at # "none"
      BY <3>2 DEF FinishMail
    <3> QED BY <3>1, <3>2
  <2>6. WakeAdmitted(w) => quiet' = quiet \ {w}
    BY DEF FinishMail
  <2>8. owed' = IF WakeAdmitted(w) /\ ledger[w].sent > ledger[w].read THEN owed \cup {w} ELSE owed
    BY DEF FinishMail
  <2>7. owed' = owed \/ owed' = owed \cup {w}
    BY <2>8
  <2> HIDE DEF next
  <2> QED BY <1>2, <2>1, <2>3, <2>4, <2>5, <2>6, <2>7
<1>4. /\ run' \in [Workers -> Runners] /\ \A v \in Workers : v # ingress.worker => run'[v] = run[v]
      /\ run'[ingress.worker].control = run[ingress.worker].control
      /\ run'[ingress.worker].typed = run[ingress.worker].typed
      /\ run'[ingress.worker].reply = run[ingress.worker].reply
      /\ run'[ingress.worker].task = run[ingress.worker].task
      /\ run'[ingress.worker].out = run[ingress.worker].out
      /\ run'[ingress.worker].turn = run[ingress.worker].turn
      /\ \/ run'[ingress.worker].normal = run[ingress.worker].normal
         \/ run[ingress.worker].normal = "none" /\ run'[ingress.worker].normal = "wake"
  <2> DEFINE w == ingress.worker
             next == [run[w] EXCEPT !.normal = "wake", !.hint = ingress.hint]
  <2>1. run \in [Workers -> Runners] /\ run[w] \in Runners /\ ingress.hint \in Hints
    BY <1>2 DEF TypeOK, Commands
  <2>2. CASE run' = run
    BY <2>1, <2>2
  <2>3. CASE run[w].normal = "none" /\ run' = [run EXCEPT ![w] = next]
    <3>1. next \in Runners
      BY <2>1 DEF Runners
    <3>2. /\ next.control = run[w].control /\ next.typed = run[w].typed /\ next.reply = run[w].reply
          /\ next.task = run[w].task /\ next.out = run[w].out /\ next.turn = run[w].turn
          /\ next.normal = "wake"
      BY <2>1 DEF Runners
    <3> HIDE DEF next
    <3> QED BY <1>2, <2>1, <2>3, <3>1, <3>2
  <2> QED BY <2>2, <2>3 DEF FinishMail
<1>5. WakeAdmitted(ingress.worker) => ingress.worker \notin closed /\ stop.worker # ingress.worker
  BY DEF WakeAdmitted
<1>6. TypeOK'
  <2>1. \A v \in Workers : Len(run'[v].out) <= 4
    BY <1>1, <1>2, <1>3, <1>4, <1>5 DEF TypeOK
  <2> QED BY <1>1, <1>2, <1>3, <1>4, <1>5, <2>1 DEF TypeOK
<1>7. ChannelBounded'
  BY <1>1, <1>2, <1>3, <1>4, <1>5, Subjects DEF ChannelBounded
<1>8. ScheduleInLanes'
  BY <1>1, <1>2, <1>3, <1>4, <1>5, Subjects DEF ScheduleInLanes, ScheduleOf
<1>9. AuthorityOnce'
  BY <1>1, <1>2, <1>3, <1>4, <1>5, Subjects DEF AuthorityOnce, ScheduleOf
<1>10. AdmissionOwned'
  BY <1>1, <1>2, <1>3, <1>4, <1>5, Subjects DEF AdmissionOwned, HandoffOf
<1>11. MailCounted'
  <2>1. Unwritten' => Unwritten
    BY <1>1, <1>2, <1>3, <1>4, <1>5 DEF Unwritten, HandoffOf, AdmissionOwned
  <2>2. left'.mail = left.mail /\ \A v \in Workers : ledger'[v].sent = ledger[v].sent
    BY <1>1, <1>2, <1>3, <1>4, <1>5
  <2> QED BY <2>1, <2>2, StillCounted
<1>12. TypedOwned'
  BY <1>1, <1>2, <1>3, <1>4, <1>5, Subjects DEF TypedOwned
<1>13. StopAnswered'
  BY <1>1, <1>2, <1>3, <1>4, <1>5, Subjects DEF StopAnswered, ScheduleOf, HandoffOf
<1>14. HandoffSettles'
  BY <1>1, <1>2, <1>3, <1>4, <1>5, Subjects DEF HandoffSettles, Quiescent, ScheduleOf
<1>15. QuietKept'
  BY <1>1, <1>2, <1>3, <1>4, <1>5, Subjects DEF QuietKept, ScheduleOf
<1>16. InputInOnePlace'
  BY <1>1, <1>2, <1>3, <1>4, <1>5 DEF InputInOnePlace, Waits, ScheduleOf
<1>17. Spares
  BY <1>1, <1>2, <1>3, <1>4, <1>5 DEF Spares
<1> QED BY <1>6, <1>7, <1>8, <1>9, <1>10, <1>11, <1>12, <1>13, <1>14, <1>15, <1>16, <1>17

LEMMA BeginHandoffKeeps ==
  ASSUME IInv, BeginHandoff
  PROVE  IInv' /\ Spares
<1> USE NoneAssumption DEF IInv
<1>1. UNCHANGED <<left, admission, wakes, schedule, stop, input, detached, closed,
                                slots, closing, lane, run, ledger, permit, quiet, owed, reports>>
  BY DEF BeginHandoff
<1>2. /\ ingress # None /\ ingress \in Commands /\ ingress.worker \in Workers
      /\ ingress.kind = "handoff"
  BY FocusFacts, Subjects DEF BeginHandoff
<1>3. \/ ingress' = None /\ handoff' = handoff
      \/ /\ handoff = None /\ admission = None /\ ingress' = ingress
         /\ handoff' \in Handoffs /\ handoff' # None /\ handoff'.worker = ingress.worker
         /\ handoff'.at = "preflight"
  <2>1. CASE handoff # None \/ ledger[ingress.worker].user
    BY <2>1 DEF BeginHandoff, Some
  <2>2. CASE handoff = None /\ ~ledger[ingress.worker].user
    <3>1. /\ handoff' = [worker |-> ingress.worker, tool |-> TRUE, at |-> "preflight"]
          /\ ingress' = ingress
      BY <2>2 DEF BeginHandoff, NewHandoff, Some
    <3>2. handoff' \in Handoffs /\ handoff' # None
      BY <1>2, <3>1 DEF Handoffs, None
    <3>3. admission = None
      BY <1>2, <2>2 DEF AdmissionOwned, HandoffOf
    <3> QED BY <2>2, <3>1, <3>2, <3>3
  <2> QED BY <2>1, <2>2
<1>4. TypeOK'
  BY <1>1, <1>2, <1>3 DEF TypeOK
<1>5. AdmissionOwned'
  BY <1>1, <1>2, <1>3, Subjects DEF AdmissionOwned, HandoffOf
<1>6. MailCounted'
  <2>1. Unwritten' => Unwritten
    BY <1>1, <1>2, <1>3 DEF Unwritten, HandoffOf, AdmissionOwned
  <2>2. left'.mail = left.mail /\ \A v \in Workers : ledger'[v].sent = ledger[v].sent
    BY <1>1, <1>2, <1>3
  <2> QED BY <2>1, <2>2, StillCounted
<1>7. StopAnswered'
  BY <1>1, <1>2, <1>3, Subjects DEF StopAnswered, ScheduleOf, HandoffOf
<1>8. HandoffSettles'
  BY <1>1, <1>2, <1>3, Subjects DEF HandoffSettles, Quiescent, ScheduleOf
<1>9. ChannelBounded' /\ ScheduleInLanes' /\ AuthorityOnce' /\ TypedOwned' /\
      InputInOnePlace' /\ QuietKept'
  BY <1>1, <1>2, <1>3 DEF ChannelBounded, ScheduleInLanes, ScheduleOf, AuthorityOnce,
       TypedOwned, InputInOnePlace, Waits, QuietKept
<1>10. Spares
  BY <1>1, <1>2, <1>3 DEF Spares
<1> QED BY <1>4, <1>5, <1>6, <1>7, <1>8, <1>9, <1>10

LEMMA RepeatHandoffKeeps ==
  ASSUME IInv, NEW w \in Workers, RepeatHandoff(w)
  PROVE  IInv' /\ Spares
<1> USE NoneAssumption DEF IInv
<1>1. UNCHANGED <<ingress, admission, wakes, schedule, stop, input, detached,
                                closed, slots, closing, lane, run, ledger, permit, quiet, owed,
                                reports>>
  BY DEF RepeatHandoff
<1>2. /\ handoff = None /\ admission = None
      /\ left' \in Budgets /\ left'.mail = left.mail /\ left'.input = left.input
  <2>1. /\ handoff = None /\ admission = None /\ left.drop > 0 /\ left \in Budgets
        /\ left' = [left EXCEPT !.drop = left.drop - 1]
    BY DEF RepeatHandoff, TypeOK
  <2>2. left.drop - 1 \in 0..MaxDrops
    BY <2>1, BoundsAssumption DEF Budgets
  <2> QED BY <2>1, <2>2 DEF Budgets
<1>3. /\ handoff' \in Handoffs /\ handoff' # None /\ handoff'.worker = w
      /\ handoff'.at = "preflight"
  <2>1. handoff' = [worker |-> w, tool |-> FALSE, at |-> "preflight"]
    BY DEF RepeatHandoff, NewHandoff
  <2> QED BY <2>1 DEF Handoffs, None
<1>4. TypeOK'
  BY <1>1, <1>2, <1>3 DEF TypeOK
<1>5. AdmissionOwned'
  BY <1>1, <1>2, <1>3, Subjects DEF AdmissionOwned, HandoffOf, None
<1>6. MailCounted'
  <2>1. Unwritten' => Unwritten
    BY <1>1, <1>2, <1>3 DEF Unwritten, HandoffOf, AdmissionOwned
  <2>2. left'.mail = left.mail /\ \A v \in Workers : ledger'[v].sent = ledger[v].sent
    BY <1>1, <1>2, <1>3
  <2> QED BY <2>1, <2>2, StillCounted
<1>7. InputInOnePlace'
  BY <1>1, <1>2, <1>3, Subjects DEF InputInOnePlace, Waits, ScheduleOf
<1>8. StopAnswered'
  BY <1>1, <1>2, <1>3, Subjects DEF StopAnswered, ScheduleOf, HandoffOf
<1>9. HandoffSettles'
  BY <1>1, <1>2, <1>3, Subjects DEF HandoffSettles, Quiescent, ScheduleOf
<1>10. ChannelBounded' /\ ScheduleInLanes' /\ AuthorityOnce' /\ TypedOwned' /\ QuietKept'
  BY <1>1, <1>2, <1>3 DEF ChannelBounded, ScheduleInLanes, ScheduleOf, AuthorityOnce,
       TypedOwned, QuietKept
<1>11. Spares
  BY <1>1, <1>2, <1>3 DEF Spares
<1> QED BY <1>4, <1>5, <1>6, <1>7, <1>8, <1>9, <1>10, <1>11

LEMMA AskPreflightKeeps ==
  ASSUME IInv, AskPreflight
  PROVE  IInv' /\ Spares
<1> USE NoneAssumption DEF IInv
<1>1. UNCHANGED <<left, admission, wakes, schedule, stop, input, detached, closed,
                                slots, closing, run, ledger, permit, quiet, owed, reports>>
  BY DEF AskPreflight
<1>2. /\ handoff # None /\ handoff \in Handoffs /\ handoff.worker \in Workers /\ handoff.at = "preflight"
  BY ServesFacts, Subjects DEF AskPreflight
<1>3. \/ /\ lane = None /\ lane' = [worker |-> handoff.worker, cmd |-> "preflight"]
         /\ lane' \in Lanes /\ lane' # None /\ lane'.cmd = "preflight" /\ ingress' = ingress
         /\ handoff' \in Handoffs /\ handoff' # None /\ handoff'.worker = handoff.worker
         /\ handoff'.at = "asked"
      \/ /\ handoff' = None /\ (ingress' = ingress \/ ingress' = None) /\ lane' = lane
  <2>1. CASE /\ lane = None /\ lane' = [worker |-> handoff.worker, cmd |-> "preflight"]
             /\ handoff' = [handoff EXCEPT !.at = "asked"] /\ ingress' = ingress
    <3>1. lane' \in Lanes /\ lane' # None /\ lane'.cmd = "preflight"
      BY <1>2, <2>1 DEF Lanes, None
    <3> QED BY <1>2, <2>1, <3>1, HandoffAt
  <2>2. CASE HandoffGone /\ lane' = lane
    BY <2>2 DEF HandoffGone
  <2> QED BY <2>1, <2>2 DEF AskPreflight
<1>4. TypeOK'
  BY <1>1, <1>2, <1>3 DEF TypeOK
<1>5. ScheduleInLanes'
  BY <1>1, <1>2, <1>3, Subjects DEF ScheduleInLanes, ScheduleOf, None
<1>6. AdmissionOwned'
  BY <1>1, <1>2, <1>3, Subjects DEF AdmissionOwned, HandoffOf
<1>7. MailCounted'
  <2>1. Unwritten' => Unwritten
    BY <1>1, <1>2, <1>3 DEF Unwritten, HandoffOf, AdmissionOwned
  <2>2. left'.mail = left.mail /\ \A v \in Workers : ledger'[v].sent = ledger[v].sent
    BY <1>1, <1>2, <1>3
  <2> QED BY <2>1, <2>2, StillCounted
<1>8. StopAnswered'
  BY <1>1, <1>2, <1>3, Subjects DEF StopAnswered, ScheduleOf, HandoffOf
<1>9. HandoffSettles'
  BY <1>1, <1>2, <1>3, Subjects DEF HandoffSettles, Quiescent, ScheduleOf
<1>10. ChannelBounded' /\ AuthorityOnce' /\ TypedOwned' /\ InputInOnePlace' /\ QuietKept'
  BY <1>1, <1>2, <1>3 DEF ChannelBounded, AuthorityOnce, ScheduleOf, TypedOwned,
       InputInOnePlace, Waits, QuietKept
<1>11. Spares
  BY <1>1, <1>2, <1>3 DEF Spares
<1> QED BY <1>4, <1>5, <1>6, <1>7, <1>8, <1>9, <1>10, <1>11

LEMMA DropFutureKeeps ==
  ASSUME IInv, DropFuture
  PROVE  IInv' /\ Spares
<1> USE NoneAssumption DEF IInv
<1>1. UNCHANGED <<ingress, admission, wakes, schedule, stop, input, detached,
                                closed, slots, closing, lane, run, ledger, permit, quiet, owed,
                                reports>>
  BY DEF DropFuture
<1>2. /\ handoff # None /\ handoff.at \in {"asked", "answered"}
      /\ left' \in Budgets /\ left'.mail = left.mail /\ left'.input = left.input
  <2>1. /\ handoff # None /\ handoff.at \in {"asked", "answered"} /\ left.drop > 0 /\ left \in Budgets
        /\ left' = [left EXCEPT !.drop = left.drop - 1]
    BY DEF DropFuture, TypeOK, Some
  <2>2. left.drop - 1 \in 0..MaxDrops
    BY <2>1, BoundsAssumption DEF Budgets
  <2> QED BY <2>1, <2>2 DEF Budgets
<1>3. /\ handoff' \in Handoffs /\ handoff' # None /\ handoff'.worker = handoff.worker
      /\ handoff'.at = "preflight"
  BY <1>2, HandoffAt DEF DropFuture
<1>4. TypeOK'
  BY <1>1, <1>2, <1>3 DEF TypeOK
<1>5. AdmissionOwned'
  BY <1>1, <1>2, <1>3, Subjects DEF AdmissionOwned, HandoffOf
<1>6. MailCounted'
  <2>1. Unwritten' => Unwritten
    BY <1>1, <1>2, <1>3 DEF Unwritten, HandoffOf, AdmissionOwned
  <2>2. left'.mail = left.mail /\ \A v \in Workers : ledger'[v].sent = ledger[v].sent
    BY <1>1, <1>2, <1>3
  <2> QED BY <2>1, <2>2, StillCounted
<1>7. InputInOnePlace'
  BY <1>1, <1>2, <1>3, Subjects DEF InputInOnePlace, Waits, ScheduleOf
<1>8. StopAnswered'
  BY <1>1, <1>2, <1>3, Subjects DEF StopAnswered, ScheduleOf, HandoffOf
<1>9. HandoffSettles'
  BY <1>1, <1>2, <1>3, Subjects DEF HandoffSettles, Quiescent, ScheduleOf
<1>10. ChannelBounded' /\ ScheduleInLanes' /\ AuthorityOnce' /\ TypedOwned' /\ QuietKept'
  BY <1>1, <1>2, <1>3 DEF ChannelBounded, ScheduleInLanes, ScheduleOf, AuthorityOnce,
       TypedOwned, QuietKept
<1>11. Spares
  BY <1>1, <1>2, <1>3 DEF Spares
<1> QED BY <1>4, <1>5, <1>6, <1>7, <1>8, <1>9, <1>10, <1>11

LEMMA CloseAdmissionKeeps ==
  ASSUME IInv, CloseAdmission
  PROVE  IInv' /\ Spares
<1> USE NoneAssumption DEF IInv
<1>1. UNCHANGED <<left, ingress, admission, schedule, stop, input, detached,
                                slots, closing, lane, run, ledger, permit, quiet, reports>>
  BY DEF CloseAdmission
<1>2. /\ handoff # None /\ handoff \in Handoffs /\ handoff.worker \in Workers /\ handoff.at = "answered"
  BY ServesFacts, Subjects DEF CloseAdmission
<1>3. /\ wakes' \in [Workers -> Wakes]
      /\ \A v \in Workers : wakes[v].at = "none" => wakes'[v].at = "none"
      /\ wakes'[handoff.worker].at = "none" /\ closed' = closed \cup {handoff.worker}
      /\ closed' \subseteq Workers /\ owed' \subseteq Workers
  BY <1>2, WithoutFacts DEF CloseAdmission, TypeOK
<1>4. /\ handoff' \in Handoffs /\ handoff' # None /\ handoff'.worker = handoff.worker
      /\ handoff'.at = IF ledger[handoff.worker].user THEN "append" ELSE "settle"
  <2>1. CASE ledger[handoff.worker].user
    BY <1>2, <2>1, HandoffAt DEF CloseAdmission
  <2>2. CASE ~ledger[handoff.worker].user
    BY <1>2, <2>2, HandoffAt DEF CloseAdmission
  <2> QED BY <2>1, <2>2
<1>5. TypeOK'
  BY <1>1, <1>2, <1>3, <1>4 DEF TypeOK
<1>6. AdmissionOwned'
  BY <1>1, <1>2, <1>3, <1>4, Subjects DEF AdmissionOwned, HandoffOf
<1>7. MailCounted'
  <2>1. Unwritten' => Unwritten
    BY <1>1, <1>2, <1>3, <1>4 DEF Unwritten, HandoffOf, AdmissionOwned
  <2>2. left'.mail = left.mail /\ \A v \in Workers : ledger'[v].sent = ledger[v].sent
    BY <1>1, <1>2, <1>3, <1>4
  <2> QED BY <2>1, <2>2, StillCounted
<1>8. StopAnswered'
  BY <1>1, <1>2, <1>3, <1>4, Subjects DEF StopAnswered, ScheduleOf, HandoffOf
<1>9. HandoffSettles'
  BY <1>1, <1>2, <1>3, <1>4, Subjects DEF HandoffSettles, Quiescent, ScheduleOf
<1>10. QuietKept'
  BY <1>1, <1>2, <1>3, <1>4, Subjects DEF QuietKept, ScheduleOf
<1>11. ChannelBounded' /\ ScheduleInLanes' /\ AuthorityOnce' /\ TypedOwned' /\
      InputInOnePlace'
  BY <1>1, <1>2, <1>3, <1>4 DEF ChannelBounded, ScheduleInLanes, ScheduleOf,
       AuthorityOnce, TypedOwned, InputInOnePlace, Waits
<1>12. Spares
  BY <1>1, <1>2, <1>3, <1>4 DEF Spares
<1> QED BY <1>5, <1>6, <1>7, <1>8, <1>9, <1>10, <1>11, <1>12

LEMMA HandoffMeetsStopKeeps ==
  ASSUME IInv, HandoffMeetsStop
  PROVE  IInv' /\ Spares
<1> USE NoneAssumption DEF IInv
<1>1. UNCHANGED <<left, admission, wakes, schedule, stop, input, detached, closed,
                                slots, closing, lane, run, ledger, permit, quiet, owed, reports>>
  BY DEF HandoffMeetsStop
<1>2. /\ handoff # None /\ handoff \in Handoffs /\ handoff.worker \in Workers /\ handoff.at = "settle"
  BY ServesFacts, Subjects DEF HandoffMeetsStop
<1>3. /\ ingress' = ingress \/ ingress' = None
      /\ \/ handoff' = None
         \/ /\ handoff' \in Handoffs /\ handoff' # None
            /\ handoff'.worker = handoff.worker /\ handoff'.at = handoff.at
  BY <1>2, HandoffFailsFacts DEF HandoffMeetsStop
<1>4. TypeOK'
  BY <1>1, <1>2, <1>3 DEF TypeOK
<1>5. AdmissionOwned'
  BY <1>1, <1>2, <1>3, Subjects DEF AdmissionOwned, HandoffOf
<1>6. MailCounted'
  <2>1. Unwritten' => Unwritten
    BY <1>1, <1>2, <1>3 DEF Unwritten, HandoffOf, AdmissionOwned
  <2>2. left'.mail = left.mail /\ \A v \in Workers : ledger'[v].sent = ledger[v].sent
    BY <1>1, <1>2, <1>3
  <2> QED BY <2>1, <2>2, StillCounted
<1>7. StopAnswered'
  BY <1>1, <1>2, <1>3, Subjects DEF StopAnswered, ScheduleOf, HandoffOf
<1>8. HandoffSettles'
  BY <1>1, <1>2, <1>3, Subjects DEF HandoffSettles, Quiescent, ScheduleOf
<1>9. ChannelBounded' /\ ScheduleInLanes' /\ AuthorityOnce' /\ TypedOwned' /\
      InputInOnePlace' /\ QuietKept'
  BY <1>1, <1>2, <1>3 DEF ChannelBounded, ScheduleInLanes, ScheduleOf, AuthorityOnce,
       TypedOwned, InputInOnePlace, Waits, QuietKept
<1>10. Spares
  BY <1>1, <1>2, <1>3 DEF Spares
<1> QED BY <1>4, <1>5, <1>6, <1>7, <1>8, <1>9, <1>10

LEMMA NothingToSettleKeeps ==
  ASSUME IInv, NothingToSettle
  PROVE  IInv' /\ Spares
<1> USE NoneAssumption DEF IInv
<1>1. UNCHANGED <<left, ingress, admission, wakes, schedule, stop, input,
                                detached, closed, slots, closing, lane, run, ledger, permit,
                                quiet, owed, reports>>
  BY DEF NothingToSettle
<1>2. /\ handoff # None /\ handoff \in Handoffs /\ handoff.worker \in Workers /\ handoff.at = "settle" /\ schedule = None
  BY ServesFacts, Subjects DEF NothingToSettle
<1>3. /\ handoff' \in Handoffs /\ handoff' # None /\ handoff'.worker = handoff.worker
      /\ handoff'.at = "stop"
  BY <1>2, HandoffAt DEF NothingToSettle
<1>4. TypeOK'
  BY <1>1, <1>2, <1>3 DEF TypeOK
<1>5. AdmissionOwned'
  BY <1>1, <1>2, <1>3, Subjects DEF AdmissionOwned, HandoffOf
<1>6. MailCounted'
  <2>1. Unwritten' => Unwritten
    BY <1>1, <1>2, <1>3 DEF Unwritten, HandoffOf, AdmissionOwned
  <2>2. left'.mail = left.mail /\ \A v \in Workers : ledger'[v].sent = ledger[v].sent
    BY <1>1, <1>2, <1>3
  <2> QED BY <2>1, <2>2, StillCounted
<1>7. StopAnswered'
  BY <1>1, <1>2, <1>3, Subjects DEF StopAnswered, ScheduleOf, HandoffOf
<1>8. HandoffSettles'
  BY <1>1, <1>2, <1>3, Subjects DEF HandoffSettles, Quiescent, ScheduleOf
<1>9. ChannelBounded' /\ ScheduleInLanes' /\ AuthorityOnce' /\ TypedOwned' /\
      InputInOnePlace' /\ QuietKept'
  BY <1>1, <1>2, <1>3 DEF ChannelBounded, ScheduleInLanes, ScheduleOf, AuthorityOnce,
       TypedOwned, InputInOnePlace, Waits, QuietKept
<1>10. Spares
  BY <1>1, <1>2, <1>3 DEF Spares
<1> QED BY <1>4, <1>5, <1>6, <1>7, <1>8, <1>9, <1>10

LEMMA HandoffStopsKeeps ==
  ASSUME IInv, HandoffStops
  PROVE  IInv' /\ Spares
<1> USE NoneAssumption DEF IInv
<1>1. UNCHANGED <<left, admission, wakes, schedule, stop, input, detached, closed,
                                slots, closing, lane, ledger, permit, quiet, owed, reports>>
  BY DEF HandoffStops
<1>2. /\ handoff # None /\ handoff \in Handoffs /\ handoff.worker \in Workers /\ handoff.at = "stop"
  BY ServesFacts, Subjects DEF HandoffStops
<1>3. \/ /\ run' = run /\ (ingress' = ingress \/ ingress' = None)
         /\ run[handoff.worker].reply = "none" \/ slots[handoff.worker].at # "live"
         /\ \/ handoff' = None
            \/ /\ handoff' \in Handoffs /\ handoff' # None
               /\ handoff'.worker = handoff.worker /\ handoff'.at = "stop"
      \/ /\ run' = run /\ ingress' = ingress /\ slots[handoff.worker].at # "live"
         /\ handoff' \in Handoffs /\ handoff' # None
         /\ handoff'.worker = handoff.worker /\ handoff'.at = "append"
      \/ /\ run' = StopSent(handoff.worker) /\ ingress' = ingress /\ handoff' = handoff
         /\ slots[handoff.worker].at = "live"
  <2> DEFINE w == handoff.worker
             live == slots[w].at = "live"
  <2>1. CASE live /\ ~CanSendStop(w)
    <3>1. run' = run /\ HandoffFails /\ run[w].reply = "none"
      BY <2>1 DEF HandoffStops
    <3> QED BY <1>2, <3>1, HandoffFailsFacts
  <2>2. CASE ~live
    <3>1. run' = run /\ ingress' = ingress /\ handoff' = [handoff EXCEPT !.at = "append"]
      BY <2>2 DEF HandoffStops
    <3> QED BY <1>2, <2>2, <3>1, HandoffAt
  <2>3. CASE live /\ CanSendStop(w)
    BY <2>3 DEF HandoffStops
  <2> QED BY <2>1, <2>2, <2>3
<1>4. /\ run' \in [Workers -> Runners] /\ \A v \in Workers : v # handoff.worker => run'[v] = run[v]
      /\ run'[handoff.worker].normal = run[handoff.worker].normal
      /\ run'[handoff.worker].typed = run[handoff.worker].typed
      /\ run'[handoff.worker].task = run[handoff.worker].task
      /\ run'[handoff.worker].out = run[handoff.worker].out
      /\ run'[handoff.worker].turn = run[handoff.worker].turn
      /\ \/ run'[handoff.worker].control = run[handoff.worker].control /\ run'[handoff.worker].reply = run[handoff.worker].reply
         \/ run[handoff.worker].reply = "none" /\ run'[handoff.worker].control = "stop" /\ run'[handoff.worker].reply = "waiting"
  <2>1. CASE run' = run
    BY <2>1 DEF TypeOK
  <2>2. CASE run' = StopSent(handoff.worker)
    BY <1>2, <2>2, StopSentFacts
  <2> QED BY <1>3, <2>1, <2>2
<1>5. slots[handoff.worker].at # "live" => Quiescent(handoff.worker)
  BY <1>2 DEF HandoffSettles, ChannelBounded, ScheduleInLanes, AuthorityOnce, Quiescent, ScheduleOf
<1>6. TypeOK'
  <2>1. \A v \in Workers : Len(run'[v].out) <= 4
    BY <1>1, <1>2, <1>3, <1>4, <1>5 DEF TypeOK
  <2> QED BY <1>1, <1>2, <1>3, <1>4, <1>5, <2>1 DEF TypeOK
<1>7. ChannelBounded'
  BY <1>1, <1>2, <1>3, <1>4, <1>5, Subjects DEF ChannelBounded
<1>8. ScheduleInLanes'
  BY <1>1, <1>2, <1>3, <1>4, <1>5, Subjects DEF ScheduleInLanes, ScheduleOf
<1>9. AuthorityOnce'
  BY <1>1, <1>2, <1>3, <1>4, <1>5, Subjects DEF AuthorityOnce, ScheduleOf
<1>10. AdmissionOwned'
  BY <1>1, <1>2, <1>3, <1>4, <1>5, Subjects DEF AdmissionOwned, HandoffOf
<1>11. MailCounted'
  <2>1. Unwritten' => Unwritten
    BY <1>1, <1>2, <1>3, <1>4, <1>5 DEF Unwritten, HandoffOf, AdmissionOwned
  <2>2. left'.mail = left.mail /\ \A v \in Workers : ledger'[v].sent = ledger[v].sent
    BY <1>1, <1>2, <1>3, <1>4, <1>5
  <2> QED BY <2>1, <2>2, StillCounted
<1>12. TypedOwned'
  BY <1>1, <1>2, <1>3, <1>4, <1>5, Subjects DEF TypedOwned
<1>13. StopAnswered'
  BY <1>1, <1>2, <1>3, <1>4, <1>5, Subjects DEF StopAnswered, ScheduleOf, HandoffOf
<1>14. HandoffSettles'
  BY <1>1, <1>2, <1>3, <1>4, <1>5, Subjects DEF HandoffSettles, Quiescent, ScheduleOf
<1>15. QuietKept'
  BY <1>1, <1>2, <1>3, <1>4, <1>5, Subjects DEF QuietKept, ScheduleOf
<1>16. InputInOnePlace'
  BY <1>1, <1>2, <1>3, <1>4, <1>5 DEF InputInOnePlace, Waits, ScheduleOf
<1>17. Spares
  BY <1>1, <1>2, <1>3, <1>4, <1>5 DEF Spares, HandoffSettles
<1> QED BY <1>6, <1>7, <1>8, <1>9, <1>10, <1>11, <1>12, <1>13, <1>14, <1>15, <1>16, <1>17

LEMMA HandoffStoppedKeeps ==
  ASSUME IInv, HandoffStopped
  PROVE  IInv' /\ Spares
<1> USE NoneAssumption DEF IInv
<1>1. UNCHANGED <<left, admission, wakes, schedule, stop, input, detached, closed,
                                slots, closing, lane, ledger, permit, owed, reports>>
  BY DEF HandoffStopped
<1>2. /\ handoff # None /\ handoff \in Handoffs /\ handoff.worker \in Workers /\ handoff.at = "stop"
      /\ run[handoff.worker].reply \in {"ok", "failed"}
  BY ServesFacts, Subjects DEF HandoffStopped
<1>3. /\ run' \in [Workers -> Runners] /\ \A v \in Workers : v # handoff.worker => run'[v] = run[v]
      /\ run'[handoff.worker].normal = run[handoff.worker].normal
      /\ run'[handoff.worker].control = run[handoff.worker].control
      /\ run'[handoff.worker].typed = run[handoff.worker].typed
      /\ run'[handoff.worker].reply = "none"
      /\ run'[handoff.worker].task = run[handoff.worker].task
      /\ run'[handoff.worker].out = run[handoff.worker].out
      /\ run'[handoff.worker].turn = run[handoff.worker].turn
  <2> DEFINE next == [run[handoff.worker] EXCEPT !.reply = "none"]
  <2>1. run' = [run EXCEPT ![handoff.worker] = next]
    BY DEF HandoffStopped
  <2>2. run \in [Workers -> Runners] /\ run[handoff.worker] \in Runners /\ handoff.worker \in Workers
    BY <1>2 DEF TypeOK
  <2>3. next \in Runners
    BY <2>2 DEF Runners
  <2>4. /\ next.normal = run[handoff.worker].normal
        /\ next.control = run[handoff.worker].control
        /\ next.typed = run[handoff.worker].typed
        /\ next.reply = "none"
        /\ next.task = run[handoff.worker].task
        /\ next.out = run[handoff.worker].out
        /\ next.turn = run[handoff.worker].turn
    BY <2>2 DEF Runners
  <2> HIDE DEF next
  <2> QED BY <2>1, <2>2, <2>3, <2>4
<1>4. \/ /\ quiet' = quiet /\ (ingress' = ingress \/ ingress' = None)
         /\ \/ handoff' = None
            \/ /\ handoff' \in Handoffs /\ handoff' # None
               /\ handoff'.worker = handoff.worker /\ handoff'.at = "stop"
      \/ /\ quiet' = quiet \cup {handoff.worker} /\ ingress' = ingress
         /\ run[handoff.worker].reply = "ok"
         /\ handoff' \in Handoffs /\ handoff' # None
         /\ handoff'.worker = handoff.worker /\ handoff'.at = "append"
  <2>1. CASE run[handoff.worker].reply = "failed"
    <3>1. HandoffFails /\ quiet' = quiet
      BY <2>1 DEF HandoffStopped
    <3> QED BY <1>2, <3>1, HandoffFailsFacts
  <2>2. CASE run[handoff.worker].reply = "ok"
    <3>1. /\ handoff' = [handoff EXCEPT !.at = "append"] /\ ingress' = ingress
          /\ quiet' = quiet \cup {handoff.worker}
      BY <2>2 DEF HandoffStopped
    <3> QED BY <1>2, <2>2, <3>1, HandoffAt
  <2> QED BY <2>1, <2>2 DEF HandoffStopped
<1>5. /\ run[handoff.worker].reply = "ok" => Quiescent(handoff.worker)
      /\ wakes[handoff.worker].at = "none" /\ ~ScheduleOf(handoff.worker)
  BY <1>2 DEF HandoffSettles, StopAnswered, ScheduleInLanes, AuthorityOnce, Quiescent, ScheduleOf
<1>6. TypeOK'
  <2>1. \A v \in Workers : Len(run'[v].out) <= 4
    BY <1>1, <1>2, <1>3, <1>4, <1>5 DEF TypeOK
  <2> QED BY <1>1, <1>2, <1>3, <1>4, <1>5, <2>1 DEF TypeOK
<1>7. ChannelBounded'
  BY <1>1, <1>2, <1>3, <1>4, <1>5, Subjects DEF ChannelBounded
<1>8. ScheduleInLanes'
  BY <1>1, <1>2, <1>3, <1>4, <1>5, Subjects DEF ScheduleInLanes, ScheduleOf
<1>9. AuthorityOnce'
  BY <1>1, <1>2, <1>3, <1>4, <1>5, Subjects DEF AuthorityOnce, ScheduleOf
<1>10. AdmissionOwned'
  BY <1>1, <1>2, <1>3, <1>4, <1>5, Subjects DEF AdmissionOwned, HandoffOf
<1>11. MailCounted'
  <2>1. Unwritten' => Unwritten
    BY <1>1, <1>2, <1>3, <1>4, <1>5 DEF Unwritten, HandoffOf, AdmissionOwned
  <2>2. left'.mail = left.mail /\ \A v \in Workers : ledger'[v].sent = ledger[v].sent
    BY <1>1, <1>2, <1>3, <1>4, <1>5
  <2> QED BY <2>1, <2>2, StillCounted
<1>12. TypedOwned'
  BY <1>1, <1>2, <1>3, <1>4, <1>5, Subjects DEF TypedOwned
<1>13. StopAnswered'
  BY <1>1, <1>2, <1>3, <1>4, <1>5, Subjects DEF StopAnswered, ScheduleOf, HandoffOf
<1>14. HandoffSettles'
  BY <1>1, <1>2, <1>3, <1>4, <1>5, Subjects DEF HandoffSettles, Quiescent, ScheduleOf
<1>15. QuietKept'
  BY <1>1, <1>2, <1>3, <1>4, <1>5, Subjects DEF QuietKept, ScheduleOf, Quiescent
<1>16. InputInOnePlace'
  BY <1>1, <1>2, <1>3, <1>4, <1>5 DEF InputInOnePlace, Waits, ScheduleOf
<1>17. Spares
  BY <1>1, <1>2, <1>3, <1>4, <1>5 DEF Spares
<1> QED BY <1>6, <1>7, <1>8, <1>9, <1>10, <1>11, <1>12, <1>13, <1>14, <1>15, <1>16, <1>17

LEMMA AppendHandoffKeeps ==
  ASSUME IInv, AppendHandoff
  PROVE  IInv' /\ Spares
<1> USE NoneAssumption DEF IInv
<1>1. UNCHANGED <<left, ingress, wakes, schedule, stop, input, detached, handoff,
                                closed, slots, closing, run, ledger, permit, quiet, owed,
                                reports>>
  BY DEF AppendHandoff
<1>2. /\ handoff # None /\ handoff \in Handoffs /\ handoff.worker \in Workers /\ handoff.at = "append"
      /\ admission = None /\ lane = None
  BY ServesFacts, Subjects DEF AppendHandoff
<1>3. /\ lane' = [worker |-> handoff.worker, cmd |-> "handoff"] /\ lane' \in Lanes /\ lane' # None
      /\ lane'.worker = handoff.worker /\ lane'.cmd = "handoff"
      /\ admission' = [worker |-> handoff.worker, reply |-> "waiting"]
      /\ admission' \in Admissions /\ admission' # None
      /\ admission'.worker = handoff.worker /\ admission'.reply = "waiting"
  <2>1. /\ lane' = [worker |-> handoff.worker, cmd |-> "handoff"]
        /\ admission' = [worker |-> handoff.worker, reply |-> "waiting"]
    BY DEF AppendHandoff
  <2> QED BY <1>2, <2>1 DEF Lanes, Admissions, None
<1>4. TypeOK'
  BY <1>1, <1>2, <1>3 DEF TypeOK
<1>5. ScheduleInLanes'
  BY <1>1, <1>2, <1>3, Subjects DEF ScheduleInLanes, ScheduleOf, None
<1>6. AdmissionOwned'
  BY <1>1, <1>2, <1>3, Subjects DEF AdmissionOwned, HandoffOf
<1>7. MailCounted'
  <2>1. Unwritten' => Unwritten
    BY <1>1, <1>2, <1>3 DEF Unwritten, HandoffOf, AdmissionOwned
  <2>2. left'.mail = left.mail /\ \A v \in Workers : ledger'[v].sent = ledger[v].sent
    BY <1>1, <1>2, <1>3
  <2> QED BY <2>1, <2>2, StillCounted
<1>8. ChannelBounded' /\ AuthorityOnce' /\ TypedOwned' /\ InputInOnePlace' /\
      StopAnswered' /\ HandoffSettles' /\ QuietKept'
  BY <1>1, <1>2, <1>3 DEF ChannelBounded, AuthorityOnce, ScheduleOf, TypedOwned,
       InputInOnePlace, Waits, StopAnswered, HandoffOf, HandoffSettles, Quiescent, QuietKept
<1>9. Spares
  BY <1>1, <1>2, <1>3 DEF Spares
<1> QED BY <1>4, <1>5, <1>6, <1>7, <1>8, <1>9

LEMMA FinishHandoffKeeps ==
  ASSUME IInv, FinishHandoff
  PROVE  IInv' /\ Spares
<1> USE NoneAssumption DEF IInv
<1>1. UNCHANGED <<left, wakes, schedule, stop, input, detached, closed, slots,
                                closing, lane, run, ledger, permit, quiet, owed, reports>>
  BY DEF FinishHandoff
<1>2. /\ handoff # None /\ handoff \in Handoffs /\ handoff.worker \in Workers
      /\ handoff.at = "append" /\ admission # None /\ admission' = None
      /\ lane # None => lane.cmd \notin {"mail", "handoff"}
  <2>1. /\ handoff # None /\ handoff \in Handoffs /\ handoff.worker \in Workers
        /\ handoff.at = "append" /\ admission # None /\ admission' = None
        /\ admission.reply # "waiting"
    BY ServesFacts, Subjects DEF FinishHandoff, Some
  <2> QED BY <2>1 DEF AdmissionOwned
<1>3. /\ ingress' = ingress \/ ingress' = None
      /\ \/ handoff' = None
         \/ /\ handoff' \in Handoffs /\ handoff' # None
            /\ handoff'.worker = handoff.worker /\ handoff'.at = handoff.at
  <2>1. CASE HandoffFails
    BY <1>2, <2>1, HandoffFailsFacts
  <2>2. CASE HandoffGone
    BY <2>2 DEF HandoffGone
  <2> QED BY <2>1, <2>2 DEF FinishHandoff
<1>4. TypeOK'
  BY <1>1, <1>2, <1>3 DEF TypeOK
<1>5. AdmissionOwned'
  BY <1>1, <1>2, <1>3, Subjects DEF AdmissionOwned, HandoffOf
<1>6. MailCounted'
  <2>1. Unwritten' => Unwritten
    BY <1>1, <1>2, <1>3 DEF Unwritten, HandoffOf, AdmissionOwned
  <2>2. left'.mail = left.mail /\ \A v \in Workers : ledger'[v].sent = ledger[v].sent
    BY <1>1, <1>2, <1>3
  <2> QED BY <2>1, <2>2, StillCounted
<1>7. StopAnswered'
  BY <1>1, <1>2, <1>3, Subjects DEF StopAnswered, ScheduleOf, HandoffOf
<1>8. HandoffSettles'
  BY <1>1, <1>2, <1>3, Subjects DEF HandoffSettles, Quiescent, ScheduleOf
<1>9. ChannelBounded' /\ ScheduleInLanes' /\ AuthorityOnce' /\ TypedOwned' /\
      InputInOnePlace' /\ QuietKept'
  BY <1>1, <1>2, <1>3 DEF ChannelBounded, ScheduleInLanes, ScheduleOf, AuthorityOnce,
       TypedOwned, InputInOnePlace, Waits, QuietKept
<1>10. Spares
  BY <1>1, <1>2, <1>3 DEF Spares
<1> QED BY <1>4, <1>5, <1>6, <1>7, <1>8, <1>9, <1>10

LEMMA QueueWakeKeeps ==
  ASSUME IInv, NEW w \in Workers, QueueWake(w)
  PROVE  IInv' /\ Spares
<1> USE NoneAssumption DEF IInv
<1>1. UNCHANGED <<left, ingress, admission, schedule, stop, input, detached,
                                handoff, closed, slots, closing, lane, ledger, permit, quiet,
                                reports>>
  BY DEF QueueWake
<1>2. run[w].normal = "none" /\ wakes[w].at = "waiting"
  BY DEF QueueWake, Queueable
<1>3. /\ wakes' \in [Workers -> Wakes]
      /\ \A v \in Workers : wakes[v].at = "none" => wakes'[v].at = "none"
      /\ owed' \subseteq Workers
  <2>1. \/ wakes' = Without(w)
        \/ wakes' = [wakes EXCEPT ![w] = [wakes[w] EXCEPT !.at = "queued"]]
    BY DEF QueueWake
  <2>2. wakes \in [Workers -> Wakes] /\ wakes[w] \in Wakes
    BY DEF TypeOK
  <2>3. [wakes[w] EXCEPT !.at = "queued"] \in Wakes
    BY <2>2 DEF Wakes
  <2>4. owed' \subseteq Workers
    BY DEF QueueWake, TypeOK
  <2>5. CASE wakes' = Without(w)
    BY <2>4, <2>5, WithoutFacts
  <2>6. CASE wakes' = [wakes EXCEPT ![w] = [wakes[w] EXCEPT !.at = "queued"]]
    BY <1>2, <2>2, <2>3, <2>4, <2>6
  <2> QED BY <2>1, <2>5, <2>6
<1>4. /\ run' \in [Workers -> Runners] /\ \A v \in Workers : v # w => run'[v] = run[v]
      /\ run'[w].control = run[w].control /\ run'[w].typed = run[w].typed
      /\ run'[w].reply = run[w].reply /\ run'[w].task = run[w].task
      /\ run'[w].out = run[w].out /\ run'[w].turn = run[w].turn
      /\ run'[w].normal \in {"none", "wake"}
  <2> DEFINE next == [run[w] EXCEPT !.normal = "wake", !.hint = wakes[w].hint]
  <2>1. run \in [Workers -> Runners] /\ run[w] \in Runners /\ wakes[w].hint \in Hints
    BY DEF TypeOK, Wakes
  <2>2. CASE run' = run
    BY <1>2, <2>1, <2>2
  <2>3. CASE run' = [run EXCEPT ![w] = next]
    <3>1. next \in Runners
      BY <2>1 DEF Runners
    <3>2. /\ next.control = run[w].control /\ next.typed = run[w].typed /\ next.reply = run[w].reply
          /\ next.task = run[w].task /\ next.out = run[w].out /\ next.turn = run[w].turn
          /\ next.normal = "wake"
      BY <2>1 DEF Runners
    <3> HIDE DEF next
    <3> QED BY <2>1, <2>3, <3>1, <3>2
  <2> QED BY <2>2, <2>3 DEF QueueWake
<1>5. TypeOK'
  <2>1. \A v \in Workers : Len(run'[v].out) <= 4
    BY <1>1, <1>2, <1>3, <1>4 DEF TypeOK
  <2> QED BY <1>1, <1>2, <1>3, <1>4, <2>1 DEF TypeOK
<1>6. ChannelBounded'
  BY <1>1, <1>2, <1>3, <1>4, Subjects DEF ChannelBounded
<1>7. ScheduleInLanes'
  BY <1>1, <1>2, <1>3, <1>4, Subjects DEF ScheduleInLanes, ScheduleOf
<1>8. AuthorityOnce'
  BY <1>1, <1>2, <1>3, <1>4, Subjects DEF AuthorityOnce, ScheduleOf
<1>9. TypedOwned'
  BY <1>1, <1>2, <1>3, <1>4, Subjects DEF TypedOwned
<1>10. StopAnswered'
  BY <1>1, <1>2, <1>3, <1>4, Subjects DEF StopAnswered, ScheduleOf, HandoffOf
<1>11. HandoffSettles'
  BY <1>1, <1>2, <1>3, <1>4, Subjects DEF HandoffSettles, Quiescent, ScheduleOf
<1>12. QuietKept'
  BY <1>1, <1>2, <1>3, <1>4, Subjects DEF QuietKept, ScheduleOf
<1>13. AdmissionOwned' /\ MailCounted' /\ InputInOnePlace'
  BY <1>1, <1>2, <1>3, <1>4 DEF AdmissionOwned, HandoffOf, MailCounted, Unwritten,
       InputInOnePlace, Waits, ScheduleOf
<1>14. Spares
  BY <1>1, <1>2, <1>3, <1>4 DEF Spares
<1> QED BY <1>5, <1>6, <1>7, <1>8, <1>9, <1>10, <1>11, <1>12, <1>13, <1>14

LEMMA ConsumeKeeps ==
  ASSUME IInv, NEW w \in Workers, Consume(w)
  PROVE  IInv' /\ Spares
<1> USE NoneAssumption DEF IInv
<1>1. UNCHANGED <<left, ingress, admission, schedule, stop, input, detached,
                                handoff, closed, closing, lane, ledger, permit, quiet, reports>>
  BY DEF Consume
<1>2. /\ ingress = None /\ handoff = None /\ stop = None /\ input = None /\ schedule = None
      /\ detached = 0
  BY FocusFacts DEF Consume
<1>3. /\ run[w].out \in Seq(Updates) /\ run[w].out # <<>> /\ Len(run[w].out) <= 4
      /\ Len(Tail(run[w].out)) = Len(run[w].out) - 1 /\ Tail(run[w].out) \in Seq(Updates)
      /\ run[w].task = "loop" => /\ Len(Tail(run[w].out)) <= 2 /\ OnTheWay(Tail(run[w].out))
                                 /\ Head(run[w].out).kind \in {"event", "wake"}
  <2>1. run[w].out \in Seq(Updates) /\ run[w].out # <<>> /\ Len(run[w].out) <= 4
    BY DEF Consume, TypeOK, Runners
  <2>2. Len(Tail(run[w].out)) = Len(run[w].out) - 1 /\ Tail(run[w].out) \in Seq(Updates)
    BY <2>1
  <2>3. run[w].task = "loop" => Len(run[w].out) <= 2 /\ OnTheWay(run[w].out)
    BY DEF ChannelBounded
  <2>4. OnTheWay(run[w].out) => /\ OnTheWay(Tail(run[w].out))
                                /\ Head(run[w].out).kind \in {"event", "wake"}
    BY <2>1 DEF OnTheWay
  <2> QED BY <2>1, <2>2, <2>3, <2>4
<1>4. /\ run' \in [Workers -> Runners] /\ \A v \in Workers : v # w => run'[v] = run[v]
      /\ run'[w].normal = run[w].normal /\ run'[w].control = run[w].control
      /\ run'[w].typed = run[w].typed /\ run'[w].reply = run[w].reply
      /\ run'[w].task = run[w].task /\ run'[w].turn = run[w].turn
      /\ Len(run'[w].out) <= 4
      /\ run[w].task = "loop" => Len(run'[w].out) <= 2 /\ OnTheWay(run'[w].out)
  <2> DEFINE next == [run[w] EXCEPT !.out = Tail(run[w].out)]
  <2>1. run' = [run EXCEPT ![w] = next]
    BY DEF Consume
  <2>2. run \in [Workers -> Runners] /\ run[w] \in Runners
    BY DEF TypeOK
  <2>3. next \in Runners
    BY <1>3, <2>2 DEF Runners
  <2>5. Len(next.out) <= 4 /\ (run[w].task = "loop" => Len(next.out) <= 2 /\ OnTheWay(next.out))
    BY <1>3, <2>2 DEF Runners
  <2>4. /\ next.normal = run[w].normal /\ next.control = run[w].control
        /\ next.typed = run[w].typed /\ next.reply = run[w].reply
        /\ next.task = run[w].task /\ next.turn = run[w].turn
    BY <2>2 DEF Runners
  <2> HIDE DEF next
  <2> QED BY <2>1, <2>2, <2>3, <2>4, <2>5
<1>5. /\ slots' \in [Workers -> Slots] /\ \A v \in Workers : v # w => slots'[v] = slots[v]
      /\ run[w].task = "loop" => slots' = slots
  <2>1. \/ slots' = slots
        \/ /\ slots' = [slots EXCEPT ![w] = [slots[w] EXCEPT !.at = "finished"]]
           /\ Head(run[w].out).kind \in {"finished", "failed"}
    BY DEF Consume
  <2>2. slots \in [Workers -> Slots] /\ slots[w] \in Slots
    BY DEF TypeOK
  <2>3. [slots[w] EXCEPT !.at = "finished"] \in Slots
    BY <2>2 DEF Slots
  <2> QED BY <1>3, <2>1, <2>2, <2>3
<1>6. /\ wakes' \in [Workers -> Wakes]
      /\ \A v \in Workers : wakes[v].at = "none" => wakes'[v].at = "none"
      /\ owed' \subseteq Workers
  <2>1. Resumed \in [Workers -> Wakes] /\ \A v \in Workers : wakes[v].at = "none" => Resumed[v].at = "none"
    <3>1. \A v \in Workers : wakes[v] \in Wakes
      BY DEF TypeOK
    <3>2. ASSUME NEW v \in Workers
          PROVE  /\ Resumed[v] \in Wakes
                 /\ wakes[v].at = "none" => Resumed[v].at = "none"
      <4>1. Resumed[v] = IF wakes[v].at = "deferred" THEN [wakes[v] EXCEPT !.at = "ready"]
                         ELSE wakes[v]
        BY DEF Resumed
      <4>2. wakes[v] \in Wakes
        BY <3>1
      <4> QED BY <4>1, <4>2 DEF Wakes
    <3>3. Resumed = [v \in Workers |-> Resumed[v]]
      BY DEF Resumed
    <3> QED BY <3>2, <3>3
  <2>2. \/ wakes' = Resumed
        \/ wakes' = [Resumed EXCEPT ![w] = NoWake]
        \/ /\ wakes[w].at # "none"
           /\ wakes' = [Resumed EXCEPT ![w] = [Resumed[w] EXCEPT !.at = "ready"]]
    BY DEF Consume, AcceptsSnapshot
  <2>3. NoWake \in Wakes /\ NoWake.at = "none"
    BY BoundsAssumption DEF NoWake, Wakes, Hints
  <2>4. [Resumed[w] EXCEPT !.at = "ready"] \in Wakes
    BY <2>1 DEF Wakes
  <2>5. owed' \subseteq Workers
    BY DEF Consume, TypeOK
  <2> HIDE DEF NoWake, Resumed
  <2>6. CASE wakes' = Resumed
    BY <2>1, <2>5, <2>6
  <2>7. CASE wakes' = [Resumed EXCEPT ![w] = NoWake]
    BY <2>1, <2>3, <2>5, <2>7
  <2>8. CASE /\ wakes[w].at # "none"
             /\ wakes' = [Resumed EXCEPT ![w] = [Resumed[w] EXCEPT !.at = "ready"]]
    BY <2>1, <2>4, <2>5, <2>8
  <2> QED BY <2>2, <2>6, <2>7, <2>8
<1>7. TypeOK'
  <2>1. \A v \in Workers : Len(run'[v].out) <= 4
    BY <1>1, <1>2, <1>3, <1>4, <1>5, <1>6 DEF TypeOK
  <2> QED BY <1>1, <1>2, <1>3, <1>4, <1>5, <1>6, <2>1 DEF TypeOK
<1>8. ChannelBounded'
  BY <1>1, <1>2, <1>3, <1>4, <1>5, <1>6, Subjects DEF ChannelBounded
<1>9. ScheduleInLanes'
  BY <1>1, <1>2, <1>3, <1>4, <1>5, <1>6, Subjects DEF ScheduleInLanes, ScheduleOf
<1>10. AuthorityOnce'
  BY <1>1, <1>2, <1>3, <1>4, <1>5, <1>6, Subjects DEF AuthorityOnce, ScheduleOf
<1>11. TypedOwned'
  BY <1>1, <1>2, <1>3, <1>4, <1>5, <1>6, Subjects DEF TypedOwned
<1>12. StopAnswered'
  BY <1>1, <1>2, <1>3, <1>4, <1>5, <1>6, Subjects DEF StopAnswered, ScheduleOf,
       HandoffOf
<1>13. HandoffSettles'
  BY <1>1, <1>2, <1>3, <1>4, <1>5, <1>6, Subjects DEF HandoffSettles, Quiescent,
       ScheduleOf
<1>14. QuietKept'
  BY <1>1, <1>2, <1>3, <1>4, <1>5, <1>6, Subjects DEF QuietKept, ScheduleOf
<1>15. AdmissionOwned' /\ MailCounted' /\ InputInOnePlace'
  BY <1>1, <1>2, <1>3, <1>4, <1>5, <1>6 DEF AdmissionOwned, HandoffOf, MailCounted,
       Unwritten, InputInOnePlace, Waits, ScheduleOf
<1>16. Spares
  BY <1>1, <1>2, <1>3, <1>4, <1>5, <1>6 DEF Spares
<1> QED BY <1>7, <1>8, <1>9, <1>10, <1>11, <1>12, <1>13, <1>14, <1>15, <1>16

LEMMA JoinKeeps ==
  ASSUME IInv, NEW w \in Workers, Join(w)
  PROVE  IInv' /\ Spares
<1> USE NoneAssumption DEF IInv
<1>1. UNCHANGED <<left, ingress, admission, wakes, schedule, stop, input,
                                detached, handoff, closed, closing, lane, run, ledger, permit,
                                quiet, owed, reports>>
  BY DEF Join
<1>2. slots[w].at = "finished"
  BY DEF Join, Finished
<1>3. /\ slots' \in [Workers -> Slots] /\ \A v \in Workers : v # w => slots'[v] = slots[v]
      /\ slots'[w].at = "joined"
  <2>1. slots' = [slots EXCEPT ![w] = [slots[w] EXCEPT !.at = "joined"]]
    BY DEF Join
  <2>2. slots \in [Workers -> Slots]
    BY DEF TypeOK
  <2> QED BY <2>1, <2>2 DEF Slots
<1>4. TypeOK'
  BY <1>1, <1>2, <1>3 DEF TypeOK
<1>5. ChannelBounded'
  BY <1>1, <1>2, <1>3, Subjects DEF ChannelBounded
<1>6. StopAnswered'
  BY <1>1, <1>2, <1>3, Subjects DEF StopAnswered, ScheduleOf, HandoffOf
<1>7. ScheduleInLanes' /\ AuthorityOnce' /\ AdmissionOwned' /\ MailCounted' /\ TypedOwned'
      /\ InputInOnePlace' /\ HandoffSettles' /\ QuietKept'
  BY <1>1, <1>2, <1>3 DEF ScheduleInLanes, ScheduleOf, AuthorityOnce, AdmissionOwned,
       HandoffOf, MailCounted, Unwritten, TypedOwned, InputInOnePlace, Waits,
       HandoffSettles, Quiescent, QuietKept
<1>8. Spares
  BY <1>1, <1>2, <1>3 DEF Spares
<1> QED BY <1>4, <1>5, <1>6, <1>7, <1>8

LEMMA BeginShutdownKeeps ==
  ASSUME IInv, BeginShutdown
  PROVE  IInv' /\ Spares
<1> USE NoneAssumption DEF IInv
<1>1. UNCHANGED <<left, ingress, admission, schedule, stop, input, detached,
                                handoff, closed, slots, lane, run, ledger, permit, quiet,
                                reports>>
  BY DEF BeginShutdown
<1>2. /\ wakes' \in [Workers -> Wakes]
      /\ \A v \in Workers : wakes[v].at = "none" => wakes'[v].at = "none"
      /\ owed' \subseteq Workers /\ closing' = "settling"
  <2>1. NoWake \in Wakes /\ NoWake.at = "none"
    BY BoundsAssumption DEF NoWake, Wakes, Hints
  <2> HIDE DEF NoWake
  <2> QED BY <2>1 DEF BeginShutdown
<1>3. TypeOK'
  BY <1>1, <1>2 DEF TypeOK
<1>4. StopAnswered'
  BY <1>1, <1>2, Subjects DEF StopAnswered, ScheduleOf, HandoffOf
<1>5. HandoffSettles'
  BY <1>1, <1>2, Subjects DEF HandoffSettles, Quiescent, ScheduleOf
<1>6. QuietKept'
  BY <1>1, <1>2, Subjects DEF QuietKept, ScheduleOf
<1>7. ChannelBounded' /\ ScheduleInLanes' /\ AuthorityOnce' /\ AdmissionOwned' /\
      MailCounted' /\ TypedOwned' /\ InputInOnePlace'
  BY <1>1, <1>2 DEF ChannelBounded, ScheduleInLanes, ScheduleOf, AuthorityOnce,
       AdmissionOwned, HandoffOf, MailCounted, Unwritten, TypedOwned, InputInOnePlace, Waits
<1>8. Spares
  BY <1>1, <1>2 DEF Spares
<1> QED BY <1>3, <1>4, <1>5, <1>6, <1>7, <1>8

LEMMA CloseRunnersKeeps ==
  ASSUME IInv, CloseRunners
  PROVE  IInv' /\ Spares
<1> USE NoneAssumption DEF IInv
<1>1. UNCHANGED <<left, ingress, admission, wakes, schedule, stop, input,
                                detached, handoff, closed, lane, ledger, permit, quiet, owed,
                                reports>>
  BY DEF CloseRunners
<1>2. /\ ingress = None /\ handoff = None /\ stop = None /\ input = None /\ schedule = None
      /\ detached = 0
      /\ closing' = "closing"
  BY FocusFacts DEF CloseRunners
<1>3. /\ run' \in [Workers -> Runners] /\ slots' \in [Workers -> Slots]
      /\ \A v \in Workers :
           /\ run'[v].normal = run[v].normal /\ run'[v].typed = run[v].typed
           /\ run'[v].reply = run[v].reply /\ run'[v].task = run[v].task
           /\ run'[v].out = run[v].out /\ run'[v].turn = run[v].turn
           /\ run'[v].control \in {run[v].control, "shutdown"} /\ slots'[v].at = slots[v].at
  <2> DEFINE asked == {v \in Workers : /\ slots[v].at = "live" /\ run[v].control = "none"
                                       /\ run[v].task # "gone"}
  <2>1. /\ run' = [v \in Workers |-> IF v \in asked THEN [run[v] EXCEPT !.control = "shutdown"] ELSE run[v]]
        /\ slots' = [v \in Workers |-> IF v \in asked THEN [slots[v] EXCEPT !.asked = TRUE] ELSE slots[v]]
    BY DEF CloseRunners
  <2>2. \A v \in Workers : run[v] \in Runners /\ slots[v] \in Slots
    BY DEF TypeOK
  <2> HIDE DEF asked
  <2>3. ASSUME NEW v \in Workers
        PROVE  /\ run'[v] \in Runners /\ slots'[v] \in Slots
               /\ run'[v].normal = run[v].normal /\ run'[v].typed = run[v].typed
               /\ run'[v].reply = run[v].reply /\ run'[v].task = run[v].task
               /\ run'[v].out = run[v].out /\ run'[v].turn = run[v].turn
               /\ run'[v].control \in {run[v].control, "shutdown"} /\ slots'[v].at = slots[v].at
    <3>1. run[v] \in Runners /\ slots[v] \in Slots
      BY <2>2
    <3>2. CASE v \in asked
      <4>1. run'[v] = [run[v] EXCEPT !.control = "shutdown"]
        BY <2>1, <3>2
      <4>2. slots'[v] = [slots[v] EXCEPT !.asked = TRUE]
        BY <2>1, <3>2
      <4>3. slots'[v] \in Slots /\ slots'[v].at = slots[v].at
        BY <3>1, <4>2 DEF Slots
      <4>4. run'[v] \in Runners
        BY <3>1, <4>1 DEF Runners
      <4>5. /\ run'[v].normal = run[v].normal /\ run'[v].typed = run[v].typed
            /\ run'[v].reply = run[v].reply /\ run'[v].task = run[v].task
            /\ run'[v].out = run[v].out /\ run'[v].turn = run[v].turn
            /\ run'[v].control = "shutdown"
        BY <3>1, <4>1 DEF Runners
      <4> QED BY <4>3, <4>4, <4>5
    <3>3. CASE v \notin asked
      BY <2>1, <2>2, <3>3
    <3> QED BY <3>2, <3>3
  <2> QED BY <2>1, <2>3
<1>4. TypeOK'
  <2>1. \A v \in Workers : Len(run'[v].out) <= 4
    BY <1>1, <1>2, <1>3 DEF TypeOK
  <2> QED BY <1>1, <1>2, <1>3, <2>1 DEF TypeOK
<1>5. ChannelBounded'
  BY <1>1, <1>2, <1>3, Subjects DEF ChannelBounded
<1>6. ScheduleInLanes'
  BY <1>1, <1>2, <1>3, Subjects DEF ScheduleInLanes, ScheduleOf
<1>7. AuthorityOnce'
  BY <1>1, <1>2, <1>3, Subjects DEF AuthorityOnce, ScheduleOf
<1>8. TypedOwned'
  BY <1>1, <1>2, <1>3, Subjects DEF TypedOwned
<1>9. StopAnswered'
  BY <1>1, <1>2, <1>3, Subjects DEF StopAnswered, ScheduleOf, HandoffOf
<1>10. HandoffSettles'
  BY <1>1, <1>2, <1>3, Subjects DEF HandoffSettles, Quiescent, ScheduleOf
<1>11. QuietKept'
  BY <1>1, <1>2, <1>3, Subjects DEF QuietKept, ScheduleOf
<1>12. AdmissionOwned' /\ MailCounted' /\ InputInOnePlace'
  BY <1>1, <1>2, <1>3 DEF AdmissionOwned, HandoffOf, MailCounted, Unwritten,
       InputInOnePlace, Waits, ScheduleOf
<1>13. Spares
  BY <1>1, <1>2, <1>3 DEF Spares
<1> QED BY <1>4, <1>5, <1>6, <1>7, <1>8, <1>9, <1>10, <1>11, <1>12, <1>13

LEMMA FinishShutdownKeeps ==
  ASSUME IInv, FinishShutdown
  PROVE  IInv' /\ Spares
<1> USE NoneAssumption DEF IInv
<1>1. UNCHANGED <<left, ingress, admission, wakes, schedule, stop, input,
                                detached, handoff, closed, slots, lane, run, ledger, permit,
                                quiet, owed, reports>>
  BY DEF FinishShutdown
<1>2. closing' = "finished"
  BY DEF FinishShutdown
<1>3. TypeOK'
  BY <1>1, <1>2 DEF TypeOK
<1>4. ChannelBounded' /\ ScheduleInLanes' /\ AuthorityOnce' /\ AdmissionOwned' /\
      MailCounted' /\ TypedOwned' /\ InputInOnePlace' /\ StopAnswered' /\ HandoffSettles'
      /\ QuietKept'
  BY <1>1, <1>2 DEF ChannelBounded, ScheduleInLanes, ScheduleOf, AuthorityOnce,
       AdmissionOwned, HandoffOf, MailCounted, Unwritten, TypedOwned, InputInOnePlace,
       Waits, StopAnswered, HandoffSettles, Quiescent, QuietKept
<1>5. Spares
  BY <1>1, <1>2 DEF Spares
<1> QED BY <1>3, <1>4, <1>5

-----------------------------------------------------------------------------
(* The steps together                                                       *)

LEMMA WriterStepKeeps ==
  ASSUME IInv, WriterStep
  PROVE  IInv' /\ Spares
BY WriteMailKeeps, WriteHandoffKeeps, WriteScheduleKeeps, ReadPreflightKeeps DEF WriterStep

LEMMA OwnerStepKeeps ==
  ASSUME IInv, OwnerStep
  PROVE  IInv' /\ Spares
<1>1. CASE WakesResume \/ SendStart \/ FinishSchedule
  BY <1>1, WakesResumeKeeps, SendStartKeeps, FinishScheduleKeeps
<1>2. CASE SendStop \/ StopUnsent \/ FinishStop \/ FinishInput \/ TellDetached
  BY <1>2, SendStopKeeps, StopUnsentKeeps, FinishStopKeeps, FinishInputKeeps, TellDetachedKeeps
<1>3. CASE AdmitMail \/ FinishMail \/ BeginHandoff \/ AskPreflight \/ CloseAdmission
  BY <1>3, AdmitMailKeeps, FinishMailKeeps, BeginHandoffKeeps, AskPreflightKeeps,
     CloseAdmissionKeeps
<1>4. CASE HandoffMeetsStop \/ NothingToSettle \/ HandoffStops \/ HandoffStopped
  BY <1>4, HandoffMeetsStopKeeps, NothingToSettleKeeps, HandoffStopsKeeps, HandoffStoppedKeeps
<1>5. CASE AppendHandoff \/ FinishHandoff \/ CloseRunners \/ FinishShutdown
  BY <1>5, AppendHandoffKeeps, FinishHandoffKeeps, CloseRunnersKeeps, FinishShutdownKeeps
<1>6. ASSUME NEW w \in Workers,
             \/ WakeRefused(w) \/ WakeDeferred(w) \/ BeginSchedule(w)
             \/ QueueWake(w) \/ Consume(w) \/ Join(w)
      PROVE  IInv' /\ Spares
  BY <1>6, WakeRefusedKeeps, WakeDeferredKeeps, BeginScheduleKeeps, QueueWakeKeeps,
     ConsumeKeeps, JoinKeeps
<1> QED BY <1>1, <1>2, <1>3, <1>4, <1>5, <1>6 DEF OwnerStep

LEMMA CallKeeps ==
  ASSUME IInv, Call
  PROVE  IInv' /\ Spares
BY BeginShutdownKeeps, DropFutureKeeps, BeginStopKeeps, GiveInputKeeps, RepeatHandoffKeeps,
   ReceiveKeeps DEF Call

LEMMA ChildKeeps ==
  ASSUME IInv, NEW w \in Workers,
         ChildServes(w) \/ TurnGoesOn(w) \/ TurnEnds(w) \/ RuntimeFails(w)
  PROVE  IInv' /\ Spares
BY TakeStopKeeps, TakeShutdownKeeps, TakeInputKeeps, GiveEventKeeps, TakeStartKeeps,
   TakeWakeKeeps, TaskEndsKeeps, TurnGoesOnKeeps, TurnEndsKeeps, RuntimeFailsKeeps
   DEF ChildServes

LEMMA StutterKeeps ==
  ASSUME IInv, UNCHANGED vars
  PROVE  IInv' /\ Spares
<1> USE DEF vars
<1>1. TypeOK'
  BY DEF IInv, TypeOK
<1>2. ChannelBounded' /\ ScheduleInLanes' /\ AuthorityOnce' /\ TypedOwned' /\ QuietKept'
  BY DEF IInv, ChannelBounded, ScheduleInLanes, AuthorityOnce, TypedOwned, QuietKept, ScheduleOf
<1>3. AdmissionOwned' /\ MailCounted' /\ InputInOnePlace'
  BY DEF IInv, AdmissionOwned, HandoffOf, MailCounted, Unwritten, InputInOnePlace, Waits,
         ScheduleOf
<1>4. StopAnswered' /\ HandoffSettles'
  BY DEF IInv, StopAnswered, HandoffSettles, Quiescent, HandoffOf, ScheduleOf
<1>5. Spares
  BY DEF Spares
<1> QED BY <1>1, <1>2, <1>3, <1>4, <1>5 DEF IInv

LEMMA StepKeeps ==
  ASSUME IInv, [Next]_vars
  PROVE  IInv' /\ Spares
<1>1. CASE UNCHANGED vars
  BY <1>1, StutterKeeps
<1>2. CASE Next
  BY <1>2, WriterStepKeeps, OwnerStepKeeps, CallKeeps, ChildKeeps, StutterKeeps DEF Next, Ended
<1> QED BY <1>1, <1>2

LEMMA InitKeeps ==
  ASSUME Init
  PROVE  IInv
<1> USE NoneAssumption, BoundsAssumption
<1>1. \A w \in Workers :
        /\ run[w].normal = "none" /\ run[w].control = "none" /\ ~run[w].typed
        /\ run[w].reply = "none" /\ run[w].task = "loop" /\ run[w].turn = "idle"
        /\ run[w].out = <<>> /\ wakes[w].at = "none" /\ slots[w].at = "live"
        /\ ~ledger[w].user /\ ledger[w].sent = 0
  BY DEF Init, NoWake
<1>2. /\ ingress = None /\ admission = None /\ schedule = None /\ stop = None /\ input = None
      /\ detached = 0 /\ handoff = None /\ closed = {} /\ lane = None
      /\ permit = {} /\ quiet = {} /\ reports = [i \in Inputs |-> 0]
      /\ left.mail = MaxMail /\ left.input = MaxInputs
  BY DEF Init
<1>3. TypeOK
  <2>1. left \in Budgets
    BY DEF Init, Budgets
  <2>2. wakes \in [Workers -> Wakes] /\ slots \in [Workers -> Slots] /\ ledger \in [Workers -> Accounts]
    BY DEF Init, NoWake, Wakes, Slots, Accounts, Hints
  <2>3. run \in [Workers -> Runners]
    <3>1. <<>> \in Seq(Updates) /\ 0 \in Hints
      BY DEF Hints
    <3> QED BY <3>1 DEF Init, Runners
  <2>4. \A w \in Workers : Len(run[w].out) <= 4
    BY <1>1
  <2>5. reports \in [Inputs -> 0..2] /\ owed \subseteq Workers /\ detached \in 0..MaxInputs
        /\ closing \in {"open", "settling", "closing", "finished"}
    BY DEF Init
  <2> QED BY <1>2, <2>1, <2>2, <2>3, <2>4, <2>5 DEF TypeOK
<1>4. ChannelBounded /\ ScheduleInLanes /\ AuthorityOnce /\ TypedOwned /\ QuietKept
  BY <1>1, <1>2 DEF ChannelBounded, OnTheWay, ScheduleInLanes, ScheduleOf, AuthorityOnce,
                    TypedOwned, QuietKept
<1>5. AdmissionOwned /\ StopAnswered /\ HandoffSettles
  BY <1>1, <1>2 DEF AdmissionOwned, StopAnswered, HandoffSettles, HandoffOf, ScheduleOf, Quiescent
<1>6. MailCounted
  <2>1. ~Unwritten
    BY <1>2 DEF Unwritten
  <2> SUFFICES ASSUME NEW w \in Workers
               PROVE  ledger[w].sent + left.mail + 0 <= MaxMail
    BY <2>1 DEF MailCounted
  <2> QED BY <1>1, <1>2
<1>7. InputInOnePlace
  <2>1. ASSUME NEW i \in Inputs
        PROVE  ~Waits(i) /\ i > MaxInputs - left.input /\ reports[i] = 0
    <3>1. i \in Nat /\ i # 0
      BY InputsPositive
    <3>2. MaxInputs - left.input = 0
      BY <1>2
    <3> QED BY <1>2, <3>1, <3>2 DEF Waits
  <2> QED BY <1>2, <2>1 DEF InputInOnePlace
<1> QED BY <1>3, <1>4, <1>5, <1>6, <1>7 DEF IInv

-----------------------------------------------------------------------------
(* What the owner guarantees                                                *)

\* Whatever the children, the calls and the futures dropped, the pieces of every operation
\* of OwnedCollaboration are where the invariant says: no step of the owner, the writer or
\* a child takes one away from the others.
THEOREM OwnedInvariant == Spec => []IInv
<1>1. Init => IInv
  BY InitKeeps
<1>2. IInv /\ [Next]_vars => IInv'
  BY StepKeeps
<1> QED BY <1>1, <1>2, PTL DEF Spec

\* The authority to execute in a child is reserved exactly while one party holds it, for
\* any number of children and calls: schedule_inner reserves it, and each way a schedule or
\* a turn of Main ends gives it back once.
THEOREM AuthorityIsHeld == Spec => []AuthorityHeld
<1>1. IInv => AuthorityHeld
  <2> SUFFICES ASSUME IInv PROVE AuthorityHeld
    OBVIOUS
  <2>1. \A w \in Workers : ScheduleOf(w) <=> schedule.worker = w
    BY NoneAssumption DEF ScheduleOf, None
  <2> QED BY <2>1 DEF IInv, AuthorityOnce, AuthorityHeld
<1> QED BY <1>1, OwnedInvariant, PTL

\* A Handoff is appended, and a child is the user's, only while nothing Main started is
\* reserved, queued or running in the child.
THEOREM HandoffsAreQuiescent == Spec => []HandoffQuiescent
<1>1. IInv => HandoffQuiescent
  <2> SUFFICES ASSUME IInv, NEW w \in Workers,
                      (lane.worker = w /\ lane.cmd = "handoff") \/ ledger[w].user
               PROVE  w \notin permit /\ run[w].normal # "start" /\ run[w].turn # "main"
    BY DEF HandoffQuiescent
  <2>1. CASE ledger[w].user
    BY <2>1 DEF IInv, HandoffSettles, Quiescent
  <2>2. CASE lane.worker = w /\ lane.cmd = "handoff"
    <3>1. lane # None
      BY <2>2, NoneAssumption DEF None
    <3> QED BY <2>2, <3>1 DEF IInv, AdmissionOwned, HandoffOf, HandoffSettles, Quiescent
  <2> QED BY <2>1, <2>2
<1> QED BY <1>1, OwnedInvariant, PTL

\* A stopped child stays quiet until mail wakes it: no wake, snapshot or schedule that was
\* under way when begin_stop took the wake can start it again.
THEOREM StopsHold == Spec => []StopHolds
<1>1. IInv => StopHolds
  BY DEF IInv, TypeOK, QuietKept, StopHolds
<1> QED BY <1>1, OwnedInvariant, PTL

\* Of three places that exclude each other, the one that is taken counts once.
LEMMA OneOfThree ==
  ASSUME NEW a \in BOOLEAN, NEW b \in BOOLEAN, NEW c \in BOOLEAN,
         ~(a /\ b), ~(a /\ c), ~(b /\ c)
  PROVE  Cardinality({p \in {<<"input", a>>, <<"stop", b>>, <<"detached", c>>} : p[2]})
           = IF a \/ b \/ c THEN 1 ELSE 0
<1> DEFINE x == <<"input", a>>
           y == <<"stop", b>>
           z == <<"detached", c>>
           S == {p \in {x, y, z} : p[2]}
<1>1. x[2] = a /\ y[2] = b /\ z[2] = c
  OBVIOUS
<1>2. (x[2] <=> a) /\ (y[2] <=> b) /\ (z[2] <=> c)
  BY <1>1, Zenon
<1> SUFFICES Cardinality(S) = IF a \/ b \/ c THEN 1 ELSE 0
  OBVIOUS
<1> HIDE DEF x, y, z
<1>3. CASE a
  <2>1. S = {x}
    BY <1>2, <1>3, Zenon
  <2> QED BY <1>3, <2>1, FS_Singleton
<1>4. CASE b
  <2>1. S = {y}
    BY <1>2, <1>4, Zenon
  <2> QED BY <1>4, <2>1, FS_Singleton
<1>5. CASE c
  <2>1. S = {z}
    BY <1>2, <1>5, Zenon
  <2> QED BY <1>5, <2>1, FS_Singleton
<1>6. CASE ~a /\ ~b /\ ~c
  <2>1. S = {}
    BY <1>2, <1>6, Zenon
  <2> QED BY <1>6, <2>1, FS_EmptySet
<1> QED BY <1>3, <1>4, <1>5, <1>6

\* The outcome of an input is told once or waits in one place, through every Stop that
\* joins the input, fails or is answered, and through the shutdown.
THEOREM InputsAreReported == Spec => []InputsReported
<1>1. IInv => InputsReported
  <2> SUFFICES ASSUME IInv, NEW i \in Inputs
               PROVE  Cardinality({p \in {<<"input", Some(input) /\ input.id = i>>,
                                          <<"stop", Some(stop) /\ stop.input = i>>,
                                          <<"detached", detached = i>>} : p[2]}) + reports[i]
                        = IF i <= MaxInputs - left.input THEN 1 ELSE 0
    BY DEF InputsReported
  <2> DEFINE a == Some(input) /\ input.id = i
             b == Some(stop) /\ stop.input = i
             c == detached = i
             n == MaxInputs - left.input
  <2>1. i # 0 /\ i \in Nat /\ n \in Int
    BY InputsPositive, BoundsAssumption DEF IInv, TypeOK, Budgets
  <2>2. ~(a /\ b) /\ ~(a /\ c) /\ ~(b /\ c)
    BY <2>1 DEF IInv, InputInOnePlace, Some
  <2>3. /\ Waits(i) <=> a \/ b \/ c
        /\ Waits(i) => i <= n
        /\ reports[i] = IF i > n \/ Waits(i) THEN 0 ELSE 1
    BY DEF IInv, InputInOnePlace, Waits, Some
  <2>4. a \in BOOLEAN /\ b \in BOOLEAN /\ c \in BOOLEAN
    OBVIOUS
  <2> HIDE DEF a, b, c, n
  <2>5. Cardinality({p \in {<<"input", a>>, <<"stop", b>>, <<"detached", c>>} : p[2]})
          = IF a \/ b \/ c THEN 1 ELSE 0
    BY <2>2, <2>4, OneOfThree
  <2>6. Cardinality({p \in {<<"input", a>>, <<"stop", b>>, <<"detached", c>>} : p[2]})
          + reports[i] = IF i <= n THEN 1 ELSE 0
    BY <2>1, <2>3, <2>5
  <2> QED BY <2>6 DEF a, b, c, n
<1> QED BY <1>1, OwnedInvariant, PTL

\* No step stops a child the user controls unless someone asked for that Stop: a Handoff
\* that reaches its Stop is of a child Main controls.
THEOREM UserWorkIsSpared == Spec => UserWorkSpared
<1>1. IInv /\ [Next]_vars =>
        [\A w \in Workers :
           ledger[w].user /\ run[w].control # "stop" /\ run'[w].control = "stop"
             => stop'.worker = w /\ stop'.sent]_vars
  BY StepKeeps DEF Spares
<1> QED BY <1>1, OwnedInvariant, PTL DEF Spec, UserWorkSpared
=============================================================================
