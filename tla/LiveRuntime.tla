---------------------------- MODULE LiveRuntime ----------------------------
(***************************************************************************)
(* The live runtime of plexmaton-runtime: the owner of one agent, of its    *)
(* journal writer and of every outside operation the agent asks for. One    *)
(* call of the owner runs at a time (every entry point takes &mut self),    *)
(* but the future of a call may be dropped wherever it awaits; what it had  *)
(* begun stays in the fields below, and the next call goes on from them.    *)
(* A driver action is the code between two awaits. The agent is reduced to  *)
(* what the runtime can tell apart: where its turn is, which calls of the   *)
(* batch are settled and which inputs wait (TurnMachine has the rest).      *)
(***************************************************************************)
EXTENDS Integers, Sequences, FiniteSets

CONSTANTS
  Calls,          \* calls a step may ask for
  MaxTexts,       \* bound: texts the user submits
  SkillTexts,     \* those of them that name a skill
  Capacity,       \* PENDING_INPUT_CAPACITY
  MaxSteps,       \* step budget of a turn
  MaxSummaries,   \* MAX_SUMMARY_ATTEMPTS_PER_TURN
  Faulty,         \* whether a write of the journal may fail
  Races           \* rare outcomes the instance lets happen, see RareOutcomes

RareOutcomes == {"late_overflow", "failing_fails"}

ASSUME BoundsAssumption ==
  /\ MaxTexts \in Nat /\ Capacity \in Nat \ {0}
  /\ MaxSteps \in Nat \ {0} /\ MaxSummaries \in Nat
  /\ Faulty \in BOOLEAN
ASSUME TextsAssumption == SkillTexts \subseteq 1..MaxTexts
ASSUME RacesAssumption == Races \subseteq RareOutcomes

VARIABLES
  phase,       \* Agent.turn: idle, streaming or working
  step,        \* step_id of the last model step: <<turn, index>>
  slot,        \* what the agent waits for on each call
  queue,       \* Agent.input, the texts waiting for the next turn
  disk,        \* what the session file says, see the facts below
  journal,     \* journal_failed, and whether the failed write's outcome is known
  commit,      \* pending_commit and what the writer thread made of it
  after,       \* after_commit
  pending,     \* pending_inputs
  preparing,   \* preparing_input, 0 for none, and whether it was cancelled
  starting,    \* pending_model_start
  deferred,    \* deferred_model_call
  failing,     \* deferred_compaction_failure
  active,      \* active
  compaction,  \* compaction
  spent,       \* compaction_budget
  tools,       \* tools: the phase of each retained call
  shutdown,    \* shutdown_state
  call,        \* the entry point whose future is being polled
  error,       \* the error that future is returning
  ended,       \* how shutdown returned (history)
  unanswered,  \* calls refused while the queue was full, requests whose future panicked (history)
  returned,    \* texts handed back to the user, in order (history)
  nextText     \* the next text the user submits

agentVars == <<phase, step, slot, queue>>
ownerVars == <<starting, deferred, failing, active, compaction, spent>>
inputVars == <<pending, preparing>>
userVars  == <<returned, nextText>>
exitVars  == <<shutdown, ended, unanswered>>
vars == <<phase, step, slot, queue, disk, journal, commit, after, pending, preparing,
          starting, deferred, failing, active, compaction, spent, tools, shutdown,
          call, error, ended, unanswered, returned, nextText>>

Texts == 1..MaxTexts
NoStep == <<0, 0>>
FirstStep(t) == <<t, 1>>

(***************************************************************************)
(* Facts of the session file. A commit adds some and takes some back: the   *)
(* end of a turn closes it and its calls, a terminal closes an attempt.     *)
(***************************************************************************)
Said(t) == <<"text", t>>
Opened(n) == <<"open", n>>
Audited(c) == <<"call", c>>
Attempt(kind, s) == <<"attempt", kind, s>>

Nothing == [adds |-> {}, clears |-> {}, effect |-> "none", calls |-> {}, back |-> <<>>]

Adds(facts) == [Nothing EXCEPT !.adds = facts]
Clears(facts) == [Nothing EXCEPT !.clears = facts]

NoCommit == [written |-> "none", reaction |-> Nothing, rejected |-> <<>>, then |-> "none"]
NoStart == [step |-> NoStep, cancelled |-> FALSE]
NoModel == [step |-> NoStep, settlement |-> "none", outcome |-> "none", delivered |-> FALSE]
NoCompaction == [phase |-> "none", continuation |-> "none", trigger |-> "none", step |-> NoStep,
                 complete |-> FALSE, source |-> <<"idle", NoStep>>, requested |-> FALSE]
NoPreparation == [text |-> 0, cancelled |-> FALSE]

Text(t, skill) == [kind |-> "text", text |-> t, skill |-> skill]
Interrupted == [kind |-> "interrupt"]
Finished(c) == [kind |-> "finished", call |-> c]

Stops == {"Interrupt", "Shutdown"}

\* What may wait in the queue of pending inputs.
TextInputs == [kind : {"text"}, text : Texts, skill : BOOLEAN]
SkillInputs == {e \in TextInputs : e.skill}
ResultInputs == [kind : {"finished"}, call : Calls]
Inputs == TextInputs \cup ResultInputs \cup {Interrupted}

\* The entries that are among some, in their order.
Kept(entries, some) ==
  LET kept[n \in 0..Len(entries)] ==
        IF n = 0 THEN <<>>
        ELSE IF entries[n] \in some THEN Append(kept[n - 1], entries[n]) ELSE kept[n - 1]
  IN kept[Len(entries)]

TextsOf(entries) ==
  LET texts == Kept(entries, TextInputs) IN [i \in DOMAIN texts |-> texts[i].text]
Controls(entries) == Kept(entries, Inputs \ TextInputs)

InterruptPending == \E i \in DOMAIN pending : pending[i].kind = "interrupt"
ToolsBusy == \E c \in Calls : tools[c] # "none"
RequestedCompactionActive == compaction.requested

HasActiveWork ==
  \/ pending # <<>> \/ preparing # NoPreparation \/ commit # NoCommit \/ after # "none"
  \/ starting # NoStart \/ deferred # NoStep \/ failing # NoStep \/ active # NoModel
  \/ compaction # NoCompaction \/ ToolsBusy

Init ==
  /\ phase = "idle" /\ step = NoStep /\ slot = [c \in Calls |-> "none"] /\ queue = <<>>
  /\ disk = {} /\ journal = "open" /\ commit = NoCommit /\ after = "none"
  /\ pending = <<>> /\ preparing = NoPreparation
  /\ starting = NoStart /\ deferred = NoStep /\ failing = NoStep /\ active = NoModel
  /\ compaction = NoCompaction /\ spent = [turn |-> 0, summaries |-> 0, recovered |-> FALSE]
  /\ tools = [c \in Calls |-> "none"]
  /\ shutdown = "open" /\ call = "none" /\ error = "none" /\ ended = "no" /\ unanswered = {}
  /\ returned = <<>> /\ nextText = 1

-----------------------------------------------------------------------------
(***************************************************************************)
(* The pipeline: begin_transition hands the records of a reaction to the    *)
(* writer and keeps the rest until they are acknowledged.                   *)
(***************************************************************************)
\* Mutant: the effects of a reaction do not wait for its records.
BeginEarly(r, rejected, then) ==
  commit' = [written |-> "ok", reaction |-> r, rejected |-> rejected, then |-> then]

\* begin_transition for a reaction with records. The journal is open wherever it is called, and
\* no commit is outstanding (TypeOK and NeverConfused).
Begin(r, rejected, then) ==
  commit' = [written |-> "no", reaction |-> r, rejected |-> rejected, then |-> then]

\* The worker thread appends the records and answers; nobody needs to wait for it.
WriterAppends(outcome) ==
  /\ commit.written = "no"
  /\ outcome # "ok" => /\ Faulty
                       /\ commit.then = "CompleteCompactionFailure" => "failing_fails" \in Races
  /\ commit' = [commit EXCEPT !.written = outcome]
  /\ LET appended == (disk \ commit.reaction.clears) \cup commit.reaction.adds
     IN disk' \in CASE outcome = "ok"      -> {appended}
                    [] outcome = "refused" -> {disk}
                    [] outcome = "unknown" -> {disk, appended}
  /\ UNCHANGED <<agentVars, ownerVars, inputVars, userVars, exitVars, journal, after, tools,
                 call, error>>

-----------------------------------------------------------------------------
(***************************************************************************)
(* The agent's handlers, up to the reaction. Each leaves the commit to Begin.*)
(***************************************************************************)
OpenTurn(t, base, rejected) ==
  /\ phase' = "streaming" /\ step' = FirstStep(step[1] + 1)
  /\ slot' = [c \in Calls |-> "none"]
  /\ Begin([base EXCEPT !.adds = @ \cup {Said(t), Opened(step[1] + 1)}, !.effect = "call"],
           rejected, "none")

CloseTurn == {Opened(step[1])} \cup {Audited(c) : c \in Calls}

\* Mutant: the queue is emptied and not returned.
AbortTurnDropping(then, keepsTexts) ==
  /\ phase' = "idle" /\ slot' = [c \in Calls |-> "none"] /\ queue' = <<>>
  /\ UNCHANGED step
  /\ Begin(Clears(CloseTurn), <<>>, then)

\* abort_turn: the queue comes back with the turn's end; keepsTexts is FALSE where the caller
\* hands no rejected inputs to begin_transition.
AbortTurn(then, keepsTexts) ==
  /\ phase' = "idle" /\ slot' = [c \in Calls |-> "none"] /\ queue' = <<>>
  /\ UNCHANGED step
  /\ Begin([Clears(CloseTurn) EXCEPT !.back = queue], IF keepsTexts THEN queue ELSE <<>>, then)

\* Mutant: the next queued turn is left to the next submission.
FinishTurnIdle ==
  /\ phase' = "idle" /\ slot' = [c \in Calls |-> "none"]
  /\ Begin(Clears(CloseTurn), <<>>, "none")
  /\ UNCHANGED <<step, queue>>

\* finish_turn: opens the next queued turn, whose text is released to the reaction.
FinishTurn ==
  IF queue = <<>>
  THEN /\ phase' = "idle" /\ slot' = [c \in Calls |-> "none"]
       /\ Begin(Clears(CloseTurn), <<>>, "none")
       /\ UNCHANGED <<step, queue>>
  ELSE /\ OpenTurn(Head(queue), Clears(CloseTurn), <<Head(queue)>>)
       /\ queue' = Tail(queue)

\* The batch is answered: the next request, or the end of the turn on the step budget.
NextStep ==
  IF step[2] >= MaxSteps
  THEN FinishTurn
  ELSE /\ phase' = "streaming" /\ step' = <<step[1], step[2] + 1>>
       /\ slot' = [c \in Calls |-> "none"]
       /\ Begin([Clears({Audited(c) : c \in Calls}) EXCEPT !.effect = "call"], <<>>, "none")
       /\ UNCHANGED queue

\* Mutant: the call that got its result is itself counted as open.
CallSettledNever(c) ==
  /\ slot' = [slot EXCEPT ![c] = "finished"]
  /\ Begin(Nothing, <<>>, "none")
  /\ UNCHANGED <<phase, step, queue>>

\* A call of the batch got its result; the last one continues the turn.
CallSettled(c) ==
  IF \A other \in Calls \ {c} : slot[other] \in {"none", "finished"}
  THEN NextStep
  ELSE /\ slot' = [slot EXCEPT ![c] = "finished"]
       /\ Begin(Nothing, <<>>, "none")
       /\ UNCHANGED <<phase, step, queue>>

Streams(s) == phase = "streaming" /\ step = s

\* What the agent does with the completion of a step it still waits for.
CompletedStep(outcome) ==
  \/ /\ outcome = "stopped"
     /\ FinishTurn
  \/ /\ outcome = "calls"
     /\ \E asked \in (SUBSET Calls) \ {{}} :
          /\ phase' = "working"
          /\ slot' = [c \in Calls |-> IF c \in asked THEN "admission" ELSE "none"]
          /\ Begin([Nothing EXCEPT !.effect = "admit", !.calls = asked], <<>>, "none")
          /\ UNCHANGED <<step, queue>>
  \/ /\ outcome \in {"failed", "overflow", "abnormal"}
     /\ AbortTurn("none", TRUE)

-----------------------------------------------------------------------------
(***************************************************************************)
(* Starting a model step or a summary. Each of these leaves either a commit *)
(* or an error, and says nothing of `active`, which its caller settles.     *)
(***************************************************************************)
\* authorize_model: the attempt is recorded before the request is dispatched. A request that finds
\* the completion before it still committing is held; held is the one held so far.
Authorize(s, held) ==
  LET waits == active.delivered /\ held = NoStep
      fault == IF shutdown # "open" THEN "shutting_down"
               ELSE IF active # NoModel /\ waits THEN "none"
               ELSE IF active # NoModel \/ starting # NoStart \/ ToolsBusy THEN "confused"
               ELSE "none"
  IN IF fault = "none" /\ active = NoModel
     THEN /\ starting' = [step |-> s, cancelled |-> FALSE]
          /\ Begin(Adds({Attempt("model", s)}), <<>>, "StartModel")
          /\ deferred' = held
          /\ UNCHANGED error
     ELSE /\ error' = IF fault = "none" THEN error ELSE fault
          /\ deferred' = IF fault = "none" THEN s ELSE held
          /\ commit' = NoCommit
          /\ UNCHANGED starting

\* TurnCompactionBudget.select: both counters are those of the named turn.
SpentIn(turn) ==
  IF spent.turn = turn THEN spent ELSE [turn |-> turn, summaries |-> 0, recovered |-> FALSE]

\* start_compaction_attempt
StartAttempt(s, continuation, trigger) ==
  /\ compaction' = [phase |-> "authorizing", continuation |-> continuation, trigger |-> trigger,
                    step |-> s, complete |-> FALSE, source |-> <<phase, step>>,
                    requested |-> continuation = "requested"]
  /\ Begin(Adds({Attempt("summary", s)}), <<>>, "StartCompaction")

HasSummaryAttempt(budget) == budget.summaries < MaxSummaries

\* begin_compaction; base is what after_commit is left at unless the failure takes it.
BeginCompaction(s, trigger, base, budget, held) ==
  \E planned \in BOOLEAN :
    IF planned /\ HasSummaryAttempt(budget)
    THEN /\ spent' = [budget EXCEPT !.summaries = @ + 1]
         /\ StartAttempt(s, "model", trigger)
         /\ after' = base /\ deferred' = held
         /\ UNCHANGED <<starting, failing, error>>
    ELSE /\ spent' = budget
         /\ UNCHANGED compaction
         /\ IF trigger = "soft"
            THEN /\ Authorize(s, held)
                 /\ after' = base
                 /\ UNCHANGED failing
            ELSE /\ failing' = s /\ after' = "FailCompaction"
                 /\ commit' = NoCommit /\ deferred' = held
                 /\ UNCHANGED <<starting, error>>

\* route_model_call: a call that has to wait for a settling completion is held; otherwise the
\* context budget decides. Soft pressure counts only at the first step of a turn.
RouteModelCall(s, held) ==
  /\ IF active = NoModel /\ compaction # NoCompaction
     THEN /\ error' = "confused" /\ commit' = NoCommit /\ deferred' = held
          /\ UNCHANGED <<starting, failing, compaction, spent, after>>
     ELSE \E pressure \in {"fits", "soft", "hard"} :
            IF active # NoModel \/ pressure = "fits" \/ (pressure = "soft" /\ s[2] # 1)
            THEN /\ Authorize(s, held)
                 /\ UNCHANGED <<failing, compaction, spent, after>>
            ELSE BeginCompaction(s, pressure, after, SpentIn(s[1]), held)
  /\ UNCHANGED active

-----------------------------------------------------------------------------
(***************************************************************************)
(* What the polled future does next: finish_transition first ends the       *)
(* commit, then the step after it, then the deferred request.               *)
(***************************************************************************)
Driving == call # "none" /\ error = "none"
Uncommitted == commit = NoCommit /\ journal = "open"
After(kind) == Driving /\ Uncommitted /\ after = kind

\* Mutant: an interrupt that waits does not hold a tool back.
PermittedUntilShutdown == shutdown = "open"

Permitted == shutdown = "open" /\ ~InterruptPending

\* start_authorized_tool: dispatched, unless control input cancels it or the permissions changed,
\* which the call is told through the queue of pending inputs, when that has room.
StartAuthorizedTool(c) ==
  /\ commit' = NoCommit
  /\ IF ~Permitted
     THEN UNCHANGED <<tools, pending, error, unanswered>>
     ELSE \/ /\ tools' = [tools EXCEPT ![c] = "execution"]
             /\ error' = IF tools[c] = "none" THEN error ELSE "confused"
             /\ UNCHANGED <<pending, unanswered>>
          \/ /\ Len(pending) < Capacity
             /\ pending' = Append(pending, Finished(c))
             /\ UNCHANGED <<tools, error, unanswered>>
          \/ /\ Len(pending) >= Capacity
             /\ error' = "queue_full"
             /\ unanswered' = unanswered \cup {c}
             /\ UNCHANGED <<tools, pending>>

\* apply_ready_reaction of an acknowledged commit.
ApplyReaction ==
  LET reaction == commit.reaction IN
  /\ returned' = returned \o reaction.back
  /\ \/ /\ reaction.effect = "none"
        /\ commit' = NoCommit
        /\ after' = IF commit.then = "none" THEN after ELSE commit.then
        /\ UNCHANGED <<ownerVars, tools, pending, error, unanswered>>
     \/ /\ reaction.effect = "call"
        /\ RouteModelCall(step, deferred)
        /\ UNCHANGED <<tools, pending, unanswered>>
     \/ /\ reaction.effect = "admit"
        /\ commit' = NoCommit
        /\ tools' = [c \in Calls |-> IF c \in reaction.calls THEN "admission" ELSE tools[c]]
        /\ error' = IF \E c \in reaction.calls : tools[c] # "none" THEN "confused" ELSE error
        /\ UNCHANGED <<ownerVars, after, pending, unanswered>>
     \/ /\ reaction.effect = "run"
        /\ \E c \in reaction.calls : StartAuthorizedTool(c)
        /\ UNCHANGED <<ownerVars, after>>
  /\ UNCHANGED journal

\* finish_pending_transition
FinishCommit ==
  /\ call # "none" /\ commit.written \notin {"none", "no"}
  /\ \/ /\ commit.written = "ok"
        /\ ApplyReaction
     \/ /\ commit.written # "ok"
        /\ journal' = commit.written
        /\ returned' = returned \o commit.rejected
        /\ error' = IF commit.rejected = <<>> THEN "journal" ELSE error
        /\ commit' = NoCommit
        /\ UNCHANGED <<ownerVars, after, tools, pending, unanswered>>
  /\ UNCHANGED <<agentVars, disk, preparing, shutdown, call, ended, nextText>>

\* start_authorized_model
StartModel ==
  /\ After("StartModel")
  /\ after' = "none"
  /\ IF starting.cancelled
     THEN /\ Begin(Clears({Attempt("model", starting.step)}), <<>>, "none")
          /\ starting' = NoStart
          /\ UNCHANGED <<active, error>>
     ELSE IF starting = NoStart \/ shutdown # "open" \/ active # NoModel \/ ToolsBusy
     THEN error' = "confused" /\ UNCHANGED <<starting, active, commit>>
     ELSE /\ active' = [step |-> starting.step, settlement |-> "running", outcome |-> "none",
                        delivered |-> FALSE]
          /\ starting' = NoStart
          /\ UNCHANGED <<commit, error>>
  /\ UNCHANGED <<agentVars, inputVars, userVars, exitVars, disk, journal, deferred, failing,
                 compaction, spent, tools, call>>

\* start_authorized_compaction
StartCompaction ==
  /\ After("StartCompaction")
  /\ after' = "none"
  /\ IF compaction.phase # "authorizing"
     THEN error' = "confused" /\ UNCHANGED <<compaction, commit>>
     ELSE IF compaction.continuation = "cancelled"
     THEN /\ compaction' = [compaction EXCEPT !.phase = "finishing"]
          /\ Begin(Clears({Attempt("summary", compaction.step)}), <<>>, "FinishCompaction")
          /\ UNCHANGED error
     ELSE /\ compaction' = [compaction EXCEPT !.phase = "running"]
          /\ UNCHANGED <<commit, error>>
  /\ UNCHANGED <<agentVars, inputVars, userVars, exitVars, disk, journal, starting, deferred,
                 failing, active, spent, tools, call>>

\* Mutant: the terminal of the attempt is not recorded.
RetainResultUnaudited(outcome, then) ==
  /\ active' = [active EXCEPT !.settlement = "ended", !.outcome = outcome]
  /\ after' = then
  /\ UNCHANGED <<commit, unanswered>>

\* The provider future is over and its terminal is staged; a future that panicked has none.
RetainResult(outcome, then) ==
  /\ active' = [active EXCEPT !.settlement = "ended", !.outcome = outcome]
  /\ unanswered' = IF outcome = "abnormal" THEN unanswered \cup {active.step} ELSE unanswered
  /\ IF outcome = "abnormal"
     THEN after' = then /\ UNCHANGED commit
     ELSE /\ Begin(Clears({Attempt("model", active.step)}), <<>>,
                   IF then = "SettleModel" THEN then ELSE "none")
          /\ UNCHANGED after

Settling == \E kind \in {"SettleModel"} \cup Stops : After(kind)

\* settle_model_completion, a request the provider refused for its context and that showed
\* nothing: one compaction per turn, for the step the agent still waits for.
RecoversContext ==
  /\ active.outcome = "overflow" /\ ~active.delivered /\ shutdown = "open"
  /\ ~SpentIn(active.step[1]).recovered

RecoverContext ==
  LET budget == [SpentIn(active.step[1]) EXCEPT !.recovered = TRUE] IN
  /\ Settling /\ active.settlement = "ended" /\ RecoversContext
  /\ IF Streams(active.step)
     THEN /\ active' = NoModel
          /\ BeginCompaction(active.step, "context", "none", budget, deferred)
     ELSE /\ error' = IF after \in Stops THEN "refused" ELSE "confused"
          /\ spent' = budget
          /\ UNCHANGED <<active, starting, deferred, failing, compaction, commit, after>>
  /\ UNCHANGED <<agentVars, inputVars, userVars, exitVars, disk, journal, tools, call>>

\* settle_model_completion: the completion is handed to the agent, which ignores it when its turn
\* is gone; a cancelled one is not handed over.
DeliverCompletion ==
  /\ Settling /\ active.settlement = "ended" /\ ~RecoversContext /\ ~active.delivered
  /\ active' = [active EXCEPT !.delivered = TRUE]
  /\ IF active.outcome # "cancelled" /\ Streams(active.step)
     THEN CompletedStep(active.outcome)
     ELSE UNCHANGED <<agentVars, commit>>
  /\ UNCHANGED <<inputVars, userVars, exitVars, disk, journal, after, starting, deferred,
                 failing, compaction, spent, tools, call, error>>

ReleaseModel ==
  /\ call # "none" /\ commit = NoCommit /\ error = "none"
  /\ after \in {"SettleModel"} \cup Stops
  /\ active.settlement = "ended" /\ active.delivered
  /\ active' = NoModel
  /\ error' = IF after \in Stops /\ active.outcome = "abnormal" THEN "provider" ELSE "none"
  /\ after' = IF after = "SettleModel" THEN "none" ELSE after
  /\ UNCHANGED <<agentVars, inputVars, userVars, exitVars, disk, journal, commit, starting,
                 deferred, failing, compaction, spent, tools, call>>

\* finish_transition, the request that waited for the completion to be released.
RouteDeferred ==
  /\ After("none") /\ deferred # NoStep
  /\ RouteModelCall(deferred, NoStep)
  /\ UNCHANGED <<agentVars, inputVars, userVars, exitVars, disk, journal, tools, call>>

-----------------------------------------------------------------------------
(***************************************************************************)
(* Interrupt and shutdown: join the provider, then the summarizer, then the *)
(* tools. The future may be dropped while it waits for one of them.         *)
(***************************************************************************)
Stopping == \E kind \in Stops : After(kind)
ModelRunning == active.settlement = "running"
CompactionRunning == compaction.phase = "running"

\* cancel_active up to the audit; the response may win against the cancellation.
JoinModel(outcome) ==
  /\ Stopping /\ ModelRunning
  /\ outcome = "overflow" => after = "Shutdown" \/ "late_overflow" \in Races
  /\ RetainResult(outcome, after)
  /\ UNCHANGED <<agentVars, inputVars, userVars, shutdown, ended, disk, journal, starting, deferred,
                 failing, compaction, spent, tools, call, error>>

\* finish_compaction_attempt of the agent and the transition behind it.
CompactionOver(complete, continuation) ==
  /\ compaction' = [compaction EXCEPT !.phase = "finishing", !.complete = complete,
                                     !.continuation = continuation]
  /\ Begin(Clears({Attempt("summary", compaction.step)}), <<>>, "FinishCompaction")

\* cancel_compaction: its commit takes after_commit over from the stop.
JoinCompaction(complete) ==
  /\ Stopping /\ active = NoModel /\ CompactionRunning
  /\ CompactionOver(complete, "cancelled")
  /\ UNCHANGED <<agentVars, inputVars, userVars, exitVars, disk, journal, after, starting,
                 deferred, failing, active, spent, tools, call, error>>

\* The rest of the handler: the tools are joined and their results dropped.
FinishStop ==
  /\ after \in Stops /\ call # "none" /\ Uncommitted
  /\ active = NoModel \/ error = "refused"
  /\ ~CompactionRunning
  /\ tools' = [c \in Calls |-> "none"]
  /\ after' = "none"
  /\ UNCHANGED <<agentVars, inputVars, userVars, exitVars, ownerVars, disk, journal, commit,
                 call, error>>

-----------------------------------------------------------------------------
(***************************************************************************)
(* Compaction between its commits.                                          *)
(***************************************************************************)
\* finish_compaction_attempt of the runtime. A checkpoint is refused when the head it summarizes
\* has moved; a soft trigger goes on without it, a hard one fails the step.
FinishCompaction ==
  /\ After("FinishCompaction")
  /\ IF compaction.phase # "finishing"
     THEN error' = "confused" /\ UNCHANGED <<agentVars, ownerVars, commit, after>>
     ELSE IF compaction.continuation = "cancelled"
     THEN /\ compaction' = NoCompaction /\ after' = "none"
          /\ UNCHANGED <<agentVars, starting, deferred, failing, active, spent, commit, error>>
     ELSE IF compaction.complete
     THEN /\ IF compaction.source = <<phase, step>>
             THEN /\ compaction' = [compaction EXCEPT !.phase = "publishing"]
                  /\ Begin(Nothing, <<>>, "PublishCompaction")
                  /\ UNCHANGED error
             ELSE error' = "confused" /\ UNCHANGED <<compaction, commit>>
          /\ after' = "none"
          /\ UNCHANGED <<agentVars, starting, deferred, failing, active, spent>>
     ELSE IF compaction.requested
     THEN /\ compaction' = NoCompaction /\ after' = "none"
          /\ UNCHANGED <<agentVars, starting, deferred, failing, active, spent, commit, error>>
     ELSE IF compaction.trigger = "soft"
     THEN /\ compaction' = NoCompaction /\ after' = "none"
          /\ Authorize(compaction.step, deferred)
          /\ UNCHANGED <<agentVars, failing, active, spent>>
     ELSE /\ compaction' = [compaction EXCEPT !.phase = "failing"] /\ after' = "none"
          /\ IF Streams(compaction.step)
             THEN AbortTurn("CompleteCompactionFailure", FALSE)
             ELSE UNCHANGED <<agentVars, commit>>
          /\ UNCHANGED <<starting, deferred, failing, active, spent, error>>
  /\ UNCHANGED <<inputVars, userVars, exitVars, disk, journal, tools, call>>

\* publish_compaction: the step is rebuilt on the checkpoint and started.
PublishCompaction ==
  /\ After("PublishCompaction")
  /\ after' = "none"
  /\ compaction' = NoCompaction
  /\ IF compaction.continuation # "model"
     THEN UNCHANGED <<starting, deferred, commit, error>>
     ELSE IF Streams(compaction.step)
     THEN Authorize(compaction.step, deferred)
     ELSE error' = "confused" /\ UNCHANGED <<starting, deferred, commit>>
  /\ UNCHANGED <<agentVars, inputVars, userVars, exitVars, disk, journal, failing, active, spent,
                 tools, call>>

\* fail_deferred_compaction: no summary could be had at all.
FailCompaction ==
  /\ After("FailCompaction")
  /\ after' = "none" /\ failing' = NoStep
  /\ IF Streams(failing)
     THEN AbortTurn("CompleteCompactionFailure", FALSE)
     ELSE UNCHANGED <<agentVars, commit>>
  /\ UNCHANGED <<inputVars, userVars, exitVars, disk, journal, starting, deferred, active,
                 compaction, spent, tools, call, error>>

CompleteCompactionFailure ==
  /\ After("CompleteCompactionFailure")
  /\ after' = "none"
  /\ IF compaction.phase \in {"none", "failing"}
     THEN compaction' = NoCompaction /\ UNCHANGED error
     ELSE error' = "confused" /\ UNCHANGED compaction
  /\ UNCHANGED <<agentVars, inputVars, userVars, exitVars, disk, journal, commit, starting,
                 deferred, failing, active, spent, tools, call>>

-----------------------------------------------------------------------------
(***************************************************************************)
(* finish_pending_inputs and what each entry point does around it.          *)
(***************************************************************************)
Settled == Driving /\ commit = NoCommit /\ after = "none" /\ deferred = NoStep

\* Mutant: input does not wait for a requested compaction.
BlockedByRead == preparing # NoPreparation

\* Input waits for a skill file that is being read, and, but for an interrupt, for a compaction
\* the user asked for.
Blocked ==
  \/ preparing # NoPreparation
  \/ RequestedCompactionActive /\ pending # <<>> /\ Head(pending).kind # "interrupt"

CanTake == journal = "open" /\ pending # <<>> /\ ~Blocked

\* prepare_skill_input: the named skill is read first, or its text comes back.
PrepareSkillInput(entry) ==
  /\ \/ preparing' = [text |-> entry.text, cancelled |-> FALSE] /\ UNCHANGED returned
     \/ returned' = Append(returned, entry.text) /\ UNCHANGED preparing
  /\ UNCHANGED <<agentVars, commit, after>>

\* The agent's handler of one pending input.
HandleInput(entry) ==
  /\ \/ /\ entry.kind = "text" /\ phase = "idle"
        /\ OpenTurn(entry.text, Nothing, <<entry.text>>)
        /\ UNCHANGED <<queue, after>>
     \/ /\ entry.kind = "text" /\ phase # "idle"
        /\ queue' = Append(queue, entry.text)
        /\ UNCHANGED <<phase, step, slot, commit, after>>
     \/ /\ entry.kind = "interrupt" /\ phase # "idle"
        /\ AbortTurn("Interrupt", TRUE)
        /\ UNCHANGED after
     \/ /\ entry.kind = "interrupt" /\ phase = "idle"
        /\ after' = "Interrupt"
        /\ UNCHANGED <<agentVars, commit>>
     \/ /\ entry.kind = "finished"
        /\ IF slot[entry.call] = "running"
           THEN CallSettled(entry.call)
           ELSE UNCHANGED <<agentVars, commit>>
        /\ UNCHANGED after
  /\ UNCHANGED <<preparing, returned>>

TakeInput ==
  /\ Settled /\ CanTake
  /\ pending' = Tail(pending)
  /\ LET entry == Head(pending) IN
     IF entry.kind = "text" /\ entry.skill
     THEN PrepareSkillInput(entry)
     ELSE HandleInput(entry)
  /\ UNCHANGED <<ownerVars, exitVars, disk, journal, tools, call, error, nextText>>

\* cancel_skill_inputs: the text being prepared and every waiting text that names a skill.
SkillTextsPending == TextsOf(Kept(pending, SkillInputs))
OthersPending == Kept(pending, Inputs \ SkillInputs)
PreparedText == IF preparing = NoPreparation THEN <<>> ELSE <<preparing.text>>

\* finish_failed_owners: everything begun is joined and dropped.
FinishFailedOwners ==
  /\ preparing' = NoPreparation
  /\ starting' = NoStart /\ deferred' = NoStep /\ failing' = NoStep /\ after' = "none"
  /\ active' = NoModel /\ compaction' = NoCompaction
  /\ tools' = [c \in Calls |-> "none"]
  /\ UNCHANGED <<agentVars, spent, disk, journal, unanswered, nextText>>

\* The future returns its error. Shutdown and a failed journal end everything; otherwise the
\* runtime keeps what it has.
ReturnError ==
  /\ call # "none" /\ error # "none"
  /\ after \notin Stops \/ journal # "open"
  /\ IF call = "shutdown" \/ journal # "open"
     THEN /\ returned' = returned \o PreparedText \o SkillTextsPending
          /\ pending' = OthersPending
          /\ FinishFailedOwners
          /\ shutdown' = IF call = "shutdown" THEN "settling" ELSE shutdown
          /\ ended' = IF call = "shutdown" THEN "failed" ELSE ended
     ELSE UNCHANGED <<agentVars, ownerVars, inputVars, userVars, exitVars, disk, journal,
                      after, tools>>
  /\ call' = "none" /\ error' = "none"
  /\ UNCHANGED commit

\* The journal failed but the inputs of the failed commit were handed back: the waiting ones follow,
\* unless a skill is being read, whose text comes back now and the others with the next call.
ReturnFailed ==
  /\ Settled /\ journal # "open"
  /\ IF preparing = NoPreparation
     THEN pending' = <<>> /\ returned' = returned \o TextsOf(pending)
     ELSE /\ pending' = OthersPending
          /\ returned' = returned \o PreparedText \o SkillTextsPending
  /\ FinishFailedOwners
  /\ shutdown' = IF call = "shutdown" THEN "settling" ELSE shutdown
  /\ ended' = IF call = "shutdown" THEN "failed" ELSE ended
  /\ call' = "none"
  /\ UNCHANGED <<commit, error>>

\* Nothing is left to do before the next answer: a call other than shutdown returns.
Quiet == Settled /\ journal = "open" /\ ~CanTake

Return ==
  /\ Quiet /\ call # "shutdown"
  /\ call' = "none"
  /\ UNCHANGED <<agentVars, ownerVars, inputVars, userVars, exitVars, disk, journal, commit,
                 after, tools, error>>

\* begin_requested_compaction: only for an idle runtime whose history can be planned.
BeginRequestedCompaction ==
  /\ Quiet /\ call = "compact"
  /\ shutdown = "open" /\ phase = "idle" /\ ~HasActiveWork
  /\ StartAttempt(<<step[1], 0>>, "requested", "none")
  /\ call' = "submit"
  /\ UNCHANGED <<agentVars, inputVars, userVars, exitVars, disk, journal, after, starting,
                 deferred, failing, active, spent, tools, error>>

\* Mutant: shutdown joins its work and leaves the turn open.
SettleShutdownQuietly ==
  /\ Quiet /\ call = "shutdown" /\ shutdown = "requested"
  /\ shutdown' = "settling" /\ after' = "Shutdown"
  /\ UNCHANGED <<agentVars, commit, ownerVars, inputVars, userVars, disk, journal, tools, call,
                 error, ended, unanswered>>

\* shutdown, after the inputs: the agent ends its turn, and the rest follows its commit.
SettleShutdown ==
  /\ Quiet /\ call = "shutdown" /\ shutdown = "requested"
  /\ shutdown' = "settling"
  /\ IF phase # "idle"
     THEN AbortTurn("Shutdown", TRUE) /\ UNCHANGED after
     ELSE after' = "Shutdown" /\ UNCHANGED <<agentVars, commit>>
  /\ UNCHANGED <<ownerVars, inputVars, userVars, disk, journal, tools, call, error, ended,
                 unanswered>>

FinishShutdown ==
  /\ Quiet /\ call = "shutdown" /\ shutdown = "settling"
  /\ call' = "none" /\ ended' = "clean"
  /\ UNCHANGED <<agentVars, ownerVars, inputVars, userVars, disk, journal, commit, after, tools,
                 error, shutdown, unanswered>>

-----------------------------------------------------------------------------
(***************************************************************************)
(* Entry points. The composition root awaits one at a time and calls        *)
(* nothing but shutdown once it has asked for it.                           *)
(***************************************************************************)
Submit ==
  /\ call = "none" /\ shutdown = "open" /\ nextText \in Texts
  /\ nextText' = nextText + 1
  /\ IF Len(pending) < Capacity
     THEN /\ pending' = Append(pending, Text(nextText, nextText \in SkillTexts))
          /\ call' = "submit"
          /\ UNCHANGED returned
     ELSE returned' = Append(returned, nextText) /\ UNCHANGED <<pending, call>>
  /\ UNCHANGED <<agentVars, ownerVars, exitVars, disk, journal, commit, after, preparing, tools,
                 error>>

\* cancel_pending_model_before_dispatch
CancelStarts ==
  starting' = IF starting = NoStart THEN starting ELSE [starting EXCEPT !.cancelled = TRUE]

CancelContinuation ==
  compaction' = IF compaction = NoCompaction THEN compaction
                ELSE [compaction EXCEPT !.continuation = "cancelled"]

Interrupting == Append(Kept(pending, ResultInputs), Interrupted)

\* An interrupt is never refused for room: it replaces an older one and returns waiting texts.
SubmitInterrupt ==
  /\ call = "none" /\ shutdown = "open"
  /\ preparing' = IF preparing = NoPreparation THEN preparing
                  ELSE [preparing EXCEPT !.cancelled = TRUE]
  /\ returned' = returned \o TextsOf(pending)
  /\ pending' = Interrupting
  /\ CancelContinuation /\ CancelStarts
  /\ call' = "submit"
  /\ UNCHANGED <<agentVars, exitVars, disk, journal, commit, after, deferred, failing, active,
                 spent, tools, error, nextText>>

NextUpdate ==
  /\ call = "none" /\ shutdown = "open"
  /\ call' = "update"
  /\ UNCHANGED <<agentVars, ownerVars, inputVars, userVars, exitVars, disk, journal, commit,
                 after, tools, error>>

RequestCompaction ==
  /\ call = "none" /\ shutdown = "open"
  /\ call' = "compact"
  /\ UNCHANGED <<agentVars, ownerVars, inputVars, userVars, exitVars, disk, journal, commit,
                 after, tools, error>>

\* Mutant: a shutdown that was dropped cannot be called again.
ShutdownCallableOnce == call = "none" /\ shutdown = "open"

\* Calling shutdown again resumes what a dropped call left.
ShutdownCallable == call = "none" /\ ended = "no"

Shutdown ==
  /\ ShutdownCallable
  /\ shutdown' = IF shutdown = "open" THEN "requested" ELSE shutdown
  /\ preparing' = NoPreparation
  /\ LET held == IF RequestedCompactionActive THEN TextsOf(OthersPending) ELSE <<>>
     IN returned' = returned \o PreparedText \o SkillTextsPending \o held
  /\ pending' = IF RequestedCompactionActive THEN Controls(pending) ELSE OthersPending
  /\ CancelContinuation /\ CancelStarts
  /\ call' = "shutdown"
  /\ UNCHANGED <<agentVars, disk, journal, commit, after, deferred, failing, active, spent, tools,
                 error, ended, unanswered, nextText>>

\* The future is dropped where it awaits: on a commit, or on what a stop joins.
Drop ==
  /\ call # "none"
  /\ \/ commit # NoCommit
     \/ after \in Stops /\ (ModelRunning \/ CompactionRunning \/ ToolsBusy)
  /\ call' = "none" /\ error' = "none"
  /\ UNCHANGED <<agentVars, ownerVars, inputVars, userVars, exitVars, disk, journal, commit,
                 after, tools>>

-----------------------------------------------------------------------------
(***************************************************************************)
(* What next_update waits for (wait_for_work). Text that streams in is      *)
(* recorded like any reaction and starts nothing; it is left out.           *)
(***************************************************************************)
Waiting == Quiet /\ call = "update"

SkillLoaded(found) ==
  /\ Waiting /\ preparing # NoPreparation
  /\ preparing' = NoPreparation
  /\ IF found /\ ~preparing.cancelled
     THEN pending' = <<Text(preparing.text, FALSE)>> \o pending /\ UNCHANGED returned
     ELSE returned' = Append(returned, preparing.text) /\ UNCHANGED pending
  /\ UNCHANGED <<agentVars, ownerVars, exitVars, disk, journal, commit, after, tools, call,
                 error, nextText>>

\* The deadline or a refused replacement makes a summary incomplete.
CompactionEnds(complete) ==
  /\ Waiting /\ CompactionRunning
  /\ CompactionOver(complete, compaction.continuation)
  /\ UNCHANGED <<agentVars, inputVars, userVars, exitVars, disk, journal, after, starting,
                 deferred, failing, active, spent, tools, call, error>>

ModelEnds(outcome) ==
  /\ Waiting /\ ModelRunning
  /\ RetainResult(outcome, "SettleModel")
  /\ UNCHANGED <<agentVars, inputVars, userVars, shutdown, ended, disk, journal, starting, deferred,
                 failing, compaction, spent, tools, call, error>>

\* apply_tool_resolution: an admitted call runs, a refused or an executed one has its result.
ToolResolves(c, admitted) ==
  /\ Waiting /\ tools[c] # "none"
  /\ tools' = [tools EXCEPT ![c] = "none"]
  /\ IF tools[c] = "admission" /\ slot[c] = "admission" /\ admitted
     THEN /\ slot' = [slot EXCEPT ![c] = "running"]
          /\ Begin([Adds({Audited(c)}) EXCEPT !.effect = "run", !.calls = {c}], <<>>, "none")
          /\ UNCHANGED <<phase, step, queue>>
     ELSE IF slot[c] \in {"admission", "running"}
     THEN CallSettled(c)
     ELSE UNCHANGED <<agentVars, commit>>
  /\ UNCHANGED <<inputVars, userVars, exitVars, ownerVars, disk, journal, after, call, error>>

-----------------------------------------------------------------------------
Drives ==
  \/ FinishCommit \/ StartModel \/ StartCompaction \/ RecoverContext \/ DeliverCompletion
  \/ ReleaseModel \/ RouteDeferred \/ FinishStop \/ FinishCompaction \/ PublishCompaction
  \/ FailCompaction \/ CompleteCompactionFailure \/ TakeInput
  \/ SettleShutdown \/ FinishShutdown \/ ReturnError \/ ReturnFailed

Joins ==
  \/ \E outcome \in {"stopped", "failed", "overflow", "abnormal", "cancelled"} : JoinModel(outcome)
  \/ \E complete \in BOOLEAN : JoinCompaction(complete)

Answers ==
  \/ \E complete \in BOOLEAN : CompactionEnds(complete)
  \/ \E outcome \in {"stopped", "calls", "failed", "overflow", "abnormal"} : ModelEnds(outcome)
  \/ \E c \in Calls, admitted \in BOOLEAN : ToolResolves(c, admitted)

Arrivals == Answers \/ \E found \in BOOLEAN : SkillLoaded(found)

Writes == \E outcome \in {"ok", "refused", "unknown"} : WriterAppends(outcome)

Entries ==
  \/ Submit \/ SubmitInterrupt \/ NextUpdate \/ RequestCompaction \/ Shutdown
  \/ Drop \/ Return \/ BeginRequestedCompaction

Next == Drives \/ Joins \/ Arrivals \/ Writes \/ Entries

Spec == Init /\ [][Next]_vars

\* The writer thread runs. The composition root polls the future it holds and keeps asking for the
\* next update between user inputs; its select! picks among ready branches at random, so a future
\* dropped again and again still gets its turn. A summary has a deadline and a tool's worker answers;
\* that a provider ends its stream is assumed (only connecting to it has a timeout in the code).
Fairness ==
  /\ WF_vars(Writes)
  /\ SF_vars(Drives \/ Joins \/ (call # "update" /\ Return))
  /\ SF_vars(NextUpdate)
  /\ SF_vars(Shutdown /\ shutdown # "open")
  /\ SF_vars(\E found \in BOOLEAN : SkillLoaded(found))
  /\ SF_vars(Answers)

FairSpec == Spec /\ Fairness

-----------------------------------------------------------------------------
(***************************************************************************)
(* Properties.                                                              *)
(***************************************************************************)
Steps == {NoStep} \cup ((0..MaxTexts) \X (0..MaxSteps))

\* The type invariant. Only an interrupt and a text whose skill was read exceed the capacity of
\* the pending queue, and nothing is handed to the writer once the journal failed.
TypeOK ==
  /\ phase \in {"idle", "streaming", "working"} /\ step \in Steps
  /\ slot \in [Calls -> {"none", "admission", "running", "finished"}]
  /\ queue \in Seq(Texts) /\ returned \in Seq(Texts)
  /\ journal \in {"open", "refused", "unknown"}
  /\ commit.written \in {"none", "no", "ok", "refused", "unknown"}
  /\ commit # NoCommit => journal = "open"
  /\ pending \in Seq(Inputs) /\ Len(pending) <= Capacity + 2
  /\ preparing.text \in 0..MaxTexts
  /\ starting.step \in Steps /\ deferred \in Steps /\ failing \in Steps /\ active.step \in Steps
  /\ tools \in [Calls -> {"none", "admission", "execution"}]
  /\ shutdown \in {"open", "requested", "settling"}
  /\ call \in {"none", "submit", "update", "compact", "shutdown"}
  /\ ended \in {"no", "clean", "failed"} /\ unanswered \subseteq Calls \cup Steps
  /\ nextText \in 1..(MaxTexts + 1)

\* The errors that runtime.rs, model.rs and compaction.rs keep for states that must not arise, a
\* second request, a request beside tools, a start nobody authorized, a checkpoint of a head that
\* moved, do not arise, however calls are dropped and resumed; the state keeps its type, and with
\* it the bound of the pending queue.
NeverConfused == TypeOK /\ error # "confused"

\* JRN-7: a request, a summary or a tool of the open batch is under way only if the session file has
\* its authorization already.
StartsDurable ==
  /\ active.settlement = "running" => Attempt("model", active.step) \in disk
  /\ CompactionRunning => Attempt("summary", compaction.step) \in disk
  /\ \A c \in Calls : tools[c] = "execution" /\ slot[c] = "running" => Audited(c) \in disk

\* While the runtime is open, something it owns will continue the turn: the step the agent waits
\* for is being recorded, started, run, summarized or failed, and so is each call of the batch, which
\* has a call that is not answered yet. An
\* accepted interrupt may drop such an owner, since it ends the turn. A call whose refusal found the
\* queue full has none, which is why it is excepted (permissions.rs returns an error then).
StepOwned ==
  \/ commit # NoCommit \/ starting # NoStart \/ active # NoModel \/ deferred # NoStep
  \/ failing # NoStep \/ compaction.continuation = "model"

CallOwned(c) ==
  \/ slot[c] = "admission" /\ tools[c] = "admission"
  \/ slot[c] = "running" /\ tools[c] = "execution"
  \/ commit.reaction.calls # {} /\ c \in commit.reaction.calls
  \/ \E i \in DOMAIN pending : pending[i] = Finished(c)

Unsettled(c) == slot[c] \in {"admission", "running"}

TurnOwned ==
  (shutdown = "open" /\ journal = "open" /\ ~InterruptPending /\ error = "none") =>
    /\ phase = "streaming" => StepOwned
    /\ phase = "working" =>
         /\ \E c \in Calls : Unsettled(c)
         /\ \A c \in Calls \ unanswered : Unsettled(c) => CallOwned(c)

\* An attempt the file has open is owned by whatever will record its terminal (TIM-2), unless the
\* provider future panicked, which leaves none; and a future that is over is being settled, its
\* audit, its delivery or its release, so that the next request is not refused because of it.
AttemptOwned(kind, s) ==
  \/ commit.written # "none"
  \/ kind = "model" /\ s \in {starting.step, active.step}
  \/ kind = "summary" /\ s = compaction.step /\ compaction # NoCompaction

AttemptsOwned ==
  /\ (journal = "open" /\ ended = "no") =>
       \A s \in Steps, kind \in {"model", "summary"} :
         Attempt(kind, s) \in disk => AttemptOwned(kind, s) \/ s \in unanswered
  /\ (active.settlement = "ended" /\ call = "none") =>
       commit # NoCommit \/ after = "SettleModel" \/ after \in Stops

\* A text the user submitted is in one place: waiting, being prepared, with the agent, in the commit
\* that opens its turn, in the file, or back with the user. Only a write of unknown outcome may
\* both be in the file and have returned its texts.
InCommit(t) ==
  \/ Said(t) \in commit.reaction.adds \ disk
  \/ \E i \in DOMAIN commit.reaction.back : commit.reaction.back[i] = t

Occurrences(t, seq) == Cardinality({i \in DOMAIN seq : seq[i] = t})

Places(t) ==
  Occurrences(t, TextsOf(pending)) + Occurrences(t, queue) + Occurrences(t, returned)
  + Cardinality({x \in {"preparing"} : preparing.text = t})
  + Cardinality({x \in {"commit"} : InCommit(t)})
  + Cardinality({Said(t)} \cap disk)

NothingLost ==
  \A t \in 1..(nextText - 1) :
    Places(t) = 1 \/ (journal = "unknown" /\ Said(t) \in disk /\ Places(t) = 2)
                  \/ (commit.written = "unknown" /\ Places(t) = 1)

\* LIVE-3: a shutdown that returns without an error has ended the turn, in the file too, and owns
\* nothing.
CleanShutdown ==
  ended = "clean" =>
    /\ phase = "idle" /\ queue = <<>> /\ TextsOf(pending) = <<>>
    /\ active = NoModel /\ compaction = NoCompaction /\ starting = NoStart /\ ~ToolsBusy
    /\ \A n \in Texts : Opened(n) \notin disk
    /\ \A s \in Steps \ unanswered, kind \in {"model", "summary"} : Attempt(kind, s) \notin disk

\* PER-9, LIVE-3: no tool starts once an interrupt is accepted or shutdown is requested, a start that
\* was recorded before is not dispatched then, and shutdown dispatches no model step.
StopHolds ==
  [][/\ (shutdown # "open" \/ InterruptPending) =>
          \A c \in Calls : tools'[c] = "execution" => tools[c] = "execution"
     /\ (shutdown # "open" \/ starting.cancelled) => (active' = NoModel \/ active # NoModel)]_vars

\* An accepted text does not wait forever: its turn is opened or it comes back to the user, also when
\* the journal fails meanwhile (LIVE-1, LOOP-6). One that waits with the agent when the journal or the
\* shutdown fails stays there.
TextSettled(t) ==
  \/ Said(t) \in disk \/ Occurrences(t, returned) > 0 \/ unanswered # {}
  \/ (journal # "open" \/ ended = "failed") /\ Occurrences(t, queue) > 0

TextsSettle == []<>(\A t \in 1..(nextText - 1) : TextSettled(t))

\* LIVE-3: a requested shutdown returns, whatever is under way and however often it is dropped.
ShutdownEnds == []<>(shutdown = "open" \/ ended # "no")

\* LIVE-3: shutdown settles the agent's turn, whatever it found under way.
ShutdownSettles == (ended # "no" /\ journal = "open") => phase = "idle"
=============================================================================
