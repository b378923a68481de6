----------------------------- MODULE TurnMachine -----------------------------
(***************************************************************************)
(* The turn machine of one agent: `Agent` of plexmaton-agent/src/turn.     *)
(*                                                                         *)
(* The agent is a pure state machine.  Every input is handled by one call  *)
(* of `handle_at`, which changes the agent and returns a Reaction: the     *)
(* journal records it appended, the effects the runtime has to start, and  *)
(* the inputs it hands back.  Each action below is one handler with every  *)
(* call it makes, up to the end of `handle_at`.                            *)
(*                                                                         *)
(* The workers behind the effects (provider transport, catalog admission,  *)
(* permission owner, tool execution) are external: an effect makes its     *)
(* answer outstanding, and the answer arrives once, in any order, also     *)
(* after the turn that asked for it is gone.                               *)
(***************************************************************************)
EXTENDS SessionJournal, FiniteSets

CONSTANTS
    Policies,       \* permission views the coding session can publish
    MaxSteps,       \* TurnBudget.max_steps
    MaxQueued,      \* MAX_QUEUED_INPUTS
    MaxTurns,       \* bound: turns opened
    MaxInputs,      \* bound: inputs queued
    MaxRevision     \* bound: permission revisions

\* How a permission view decides a call.  "ask" is the fallback question, which
\* an offer to remember can answer; "ask_always" is an explicit ask, which none can.
Rules == {"allow", "ask", "ask_always", "forbidden", "unavailable"}

Boundaries == {"next_step", "next_turn"}
Phases     == {"idle", "streaming", "working"}
SlotStates == {"none", "admission", "waiting", "preparing", "running", "finished"}
Authorities == {"none", "policy", "once", "remembered"}

ASSUME PoliciesAssumption == Policies \subseteq [Calls -> Rules] /\ Policies # {}
ASSUME BoundsAssumption ==
    /\ MaxSteps \in Nat \ {0}
    /\ MaxQueued \in Nat
    /\ MaxTurns \in Nat \ {0}
    /\ MaxInputs \in Nat
    /\ MaxRevision \in Nat \ {0}

VARIABLES
    phase,          \* Turn: Idle, Streaming or Working
    turn,           \* identity of the last opened turn
    step,           \* index of the open step, 0 when idle
    calls,          \* calls of the open step, in model order
    slot,           \* CallState of each call of the batch
    offer,          \* per parked call: policy revision its remember offer names, or 0
    queue,          \* InputQueue.pending
    nextOrder,      \* InputQueue.next_order
    delivered,      \* orders of queued inputs a turn took
    returned,       \* orders of queued inputs handed back undelivered
    policy,         \* ApprovalPolicy's snapshot, as refreshed before each input
    revision,       \* its PermissionRevision
    calling,        \* model steps whose request is outstanding
    admitting,      \* calls whose admission is outstanding
    preparing,      \* per call: revision of its outstanding permission request, or 0
    granted,        \* outstanding permission requests the owner has granted
    running,        \* calls whose execution is outstanding
    authority,      \* the authorization each RunTool effect carried
    ran,            \* calls whose execution an earlier process started (history)
    saved,          \* journal before the last reaction
    records         \* records of the last reaction

turnVars   == <<phase, turn, step, calls>>
batchVars  == <<slot, offer>>
inputVars  == <<queue, nextOrder, delivered, returned>>
outerVars  == <<policy, revision, ran>>   \* no reaction of the agent changes these
toolVars   == <<admitting, preparing, granted, running, authority>>
vars == <<turnVars, batchVars, inputVars, outerVars, calling, toolVars, saved, records>>

-----------------------------------------------------------------------------
(* The record.                                                             *)

\* The agent's in-memory journal.
Journal == Replay(saved, records)

Commit(rs) == saved' = Journal /\ records' = rs

CallSet == {calls[i] : i \in DOMAIN calls}

\* Mutant: only the open step is searched for the identity.
ReusedInStep(c) == c \in CallSet

\* contains_tool_call on the selected path, or contains_call of the open step.
Reused(c) == Journal.tool[c].status # "absent" \/ c \in CallSet

-----------------------------------------------------------------------------
(* The input queue.                                                        *)

Waiting(b) == {e \in queue : e.boundary = b}
Orders(S)  == {e.order : e \in S}
Oldest(S)  == CHOOSE e \in S : \A f \in S : e.order <= f.order
Newest(S)  == CHOOSE e \in S : \A f \in S : f.order <= e.order

\* A full queue gives the input straight back and changes nothing.
Enqueue(b) ==
  /\ nextOrder < MaxInputs
  /\ IF Cardinality(queue) >= MaxQueued
     THEN UNCHANGED inputVars
     ELSE /\ queue' = queue \cup {[order |-> nextOrder, boundary |-> b]}
          /\ nextOrder' = nextOrder + 1
          /\ UNCHANGED <<delivered, returned>>

-----------------------------------------------------------------------------
(* Permission policy.                                                      *)

Decide(c) == IF policy[c] \in {"ask", "ask_always"} THEN "require_approval" ELSE policy[c]

\* remember_offer: revision the current offer for this call names, or 0 for none.
CurrentOffer(c) == IF policy[c] \in {"ask", "allow"} THEN revision ELSE 0

-----------------------------------------------------------------------------
(* Opening and ending turns and steps.                                     *)

\* `asked` are the model requests still outstanding when the handler ends.
OpenStep(t, n, asked) ==
  /\ phase' = "streaming"
  /\ turn' = t
  /\ step' = n
  /\ calls' = <<>>
  /\ slot' = [c \in Calls |-> "none"]
  /\ offer' = [c \in Calls |-> 0]
  /\ calling' = asked \cup {<<t, n>>}

\* No turn is open and t was the last one.
GoIdleAt(t) ==
  /\ phase' = "idle"
  /\ turn' = t
  /\ step' = 0
  /\ calls' = <<>>
  /\ slot' = [c \in Calls |-> "none"]
  /\ offer' = [c \in Calls |-> 0]

GoIdle(asked) == GoIdleAt(turn) /\ calling' = asked

\* finish_turn: steering comes back, the turn ends, and the oldest input that
\* waited for the next turn opens it.
FinishTurn(before, outcome, asked) ==
  LET ended == Append(before, TurnFinished(turn, outcome))
      next  == Waiting("next_turn")
  IN  /\ returned' = returned \cup Orders(Waiting("next_step"))
      /\ nextOrder' = nextOrder
      /\ \/ /\ next = {}
            /\ GoIdle(asked)
            /\ Commit(ended)
            /\ queue' = {}
            /\ delivered' = delivered
         \/ /\ next # {}
            /\ OpenStep(turn + 1, 1, asked)
            /\ Commit(Append(ended, TurnStarted(turn + 1)))
            /\ queue' = next \ {Oldest(next)}
            /\ delivered' = delivered \cup {Oldest(next).order}

BudgetSpent == step >= MaxSteps

\* next_step: the budget ends the turn; otherwise steering is claimed in
\* arrival order right before the next request is assembled.
NextStep(before) ==
  \/ /\ BudgetSpent
     /\ FinishTurn(before, "step_budget_reached", calling)
  \/ /\ ~BudgetSpent
     /\ LET steering == Waiting("next_step")
            accepted == [i \in 1..Cardinality(steering) |-> SteeringAccepted(turn)]
        IN  /\ OpenStep(turn, step + 1, calling)
            /\ Commit(before \o accepted \o <<TurnStatusChanged(turn, "running")>>)
            /\ queue' = queue \ steering
            /\ delivered' = delivered \cup Orders(steering)
            /\ UNCHANGED <<nextOrder, returned>>

\* Mutant: the last answer does not continue the batch.
AnsweredStuck(c, recs) ==
  /\ slot' = [slot EXCEPT ![c] = "finished"]
  /\ offer' = [offer EXCEPT ![c] = 0]
  /\ Commit(recs)
  /\ UNCHANGED <<turnVars, inputVars, calling>>

\* One call of the batch got its outcome; the batch continues if that settled it.
Answered(c, recs) ==
  LET after == [slot EXCEPT ![c] = "finished"]
  IN  \/ /\ \A d \in CallSet : after[d] = "finished"
         /\ NextStep(recs)
      \/ /\ \E d \in CallSet : after[d] # "finished"
         /\ slot' = after
         /\ offer' = [offer EXCEPT ![c] = 0]
         /\ Commit(recs)
         /\ UNCHANGED <<turnVars, inputVars, calling>>

\* Mutant: an abandoned question stays open.
PaidOffSilently(c) ==
  IF slot[c] = "finished" THEN <<>> ELSE <<ToolCallChanged(c, "cancelled")>>

\* abandon: what each call that has no outcome is paid with, in model order.
PaidOff(c) ==
  IF slot[c] = "finished" THEN <<>>
  ELSE (IF slot[c] \in {"waiting", "preparing"} THEN <<AttentionResolved(c)>> ELSE <<>>)
         \o <<ToolCallChanged(c, "cancelled")>>

Abandoned ==
  IF phase = "working" THEN InOrder([i \in DOMAIN calls |-> PaidOff(calls[i])]) ELSE <<>>

\* abort_step keeps what the step showed and drops the calls it never dispatched.
Retained(spoke) ==
  IF phase = "streaming" /\ spoke THEN <<AssistantOutput(turn, step, <<>>)>> ELSE <<>>

\* Mutants: the inputs that waited for a turn are dropped; a stopped turn rolls
\* into the next one as a completed turn does.
AbortTurnDropping(outcome, spoke, asked) ==
  /\ GoIdle(asked)
  /\ Commit(Abandoned \o Retained(spoke) \o <<TurnFinished(turn, outcome)>>)
  /\ queue' = {}
  /\ returned' = returned \cup Orders(Waiting("next_step"))
  /\ UNCHANGED <<nextOrder, delivered>>

\* abort_turn.  A stopped turn starts no work: every queued input is handed back.
AbortTurn(outcome, spoke, asked) ==
  /\ GoIdle(asked)
  /\ Commit(Abandoned \o Retained(spoke) \o <<TurnFinished(turn, outcome)>>)
  /\ queue' = {}
  /\ returned' = returned \cup Orders(queue)
  /\ UNCHANGED <<nextOrder, delivered>>

-----------------------------------------------------------------------------
(* User input.                                                             *)

\* submit_input while idle: the turn opens at once.
SubmitIdle ==
  /\ phase = "idle"
  /\ turn < MaxTurns
  /\ OpenStep(turn + 1, 1, calling)
  /\ Commit(<<TurnStarted(turn + 1)>>)
  /\ UNCHANGED <<inputVars, outerVars, toolVars>>

\* submit_input while running: the input waits for the next turn.
SubmitRunning ==
  /\ phase # "idle"
  /\ turn + Cardinality(Waiting("next_turn")) < MaxTurns
  /\ Enqueue("next_turn")
  /\ Commit(<<>>)
  /\ UNCHANGED <<turnVars, batchVars, outerVars, calling, toolVars>>

\* steer_input.  Without a running turn the text is returned and nothing changes.
Steer ==
  /\ phase # "idle"
  /\ Enqueue("next_step")
  /\ Commit(<<>>)
  /\ UNCHANGED <<turnVars, batchVars, outerVars, calling, toolVars>>

\* withdraw_last_queued: by arrival order, whatever it was waiting for.
Withdraw ==
  /\ queue # {}
  /\ queue' = queue \ {Newest(queue)}
  /\ returned' = returned \cup {Newest(queue).order}
  /\ Commit(<<>>)
  /\ UNCHANGED <<turnVars, batchVars, nextOrder, delivered, outerVars, calling, toolVars>>

\* start_collaboration_turn, at the boundary collaboration_boundary requires.
StartCollaborationTurn ==
  /\ phase = "idle"
  /\ queue = {}
  /\ turn < MaxTurns
  /\ OpenStep(turn + 1, 1, calling)
  /\ Commit(<<CollaborationTurnStarted(turn + 1)>>)
  /\ UNCHANGED <<inputVars, outerVars, toolVars>>

-----------------------------------------------------------------------------
(* Model input.  Only the exact active step is heard.                      *)

AcceptsAny(s) == phase = "streaming"      \* mutant: any step's input is heard
Accepts(s) == phase = "streaming" /\ s = <<turn, step>>

\* A call whose identity was used before fails the turn; any other is collected.
ModelCalls(s, c) ==
  /\ s \in calling
  /\ Accepts(s)
  /\ \/ /\ Reused(c)
        /\ \E spoke \in BOOLEAN : AbortTurn("failed", spoke, calling)
        /\ UNCHANGED <<outerVars, toolVars>>
     \/ /\ ~Reused(c)
        /\ calls' = Append(calls, c)
        /\ Commit(<<>>)
        /\ UNCHANGED <<phase, turn, step, batchVars, inputVars, outerVars, calling, toolVars>>

\* Mutant: only the first call of the batch is sent to admission.
DispatchFirst(output) ==
  /\ phase' = "working"
  /\ slot' = [c \in Calls |-> IF c \in CallSet THEN "admission" ELSE "none"]
  /\ admitting' = admitting \cup {Head(calls)}
  /\ Commit(<<output>> \o [i \in DOMAIN calls |-> ToolCallRequested(calls[i])]
              \o <<TurnStatusChanged(turn, "waiting")>>)
  /\ UNCHANGED <<turn, step, calls, offer, inputVars, preparing, granted, running, authority>>

\* dispatch: the batch opens, each call is requested and sent to admission.
Dispatch(output) ==
  /\ phase' = "working"
  /\ slot' = [c \in Calls |-> IF c \in CallSet THEN "admission" ELSE "none"]
  /\ admitting' = admitting \cup CallSet
  /\ Commit(<<output>> \o [i \in DOMAIN calls |-> ToolCallRequested(calls[i])]
              \o <<TurnStatusChanged(turn, "waiting")>>)
  /\ UNCHANGED <<turn, step, calls, offer, inputVars, preparing, granted, running, authority>>

\* stop: the step closes with what it collected, and the turn ends or works.
ModelStops(s) ==
  /\ s \in calling
  /\ Accepts(s)
  /\ \/ /\ calls # <<>>
        /\ calling' = calling \ {s}
        /\ Dispatch(AssistantOutput(turn, step, calls))
     \/ /\ calls = <<>>
        /\ \E spoke \in BOOLEAN : FinishTurn(Retained(spoke), "completed", calling \ {s})
        /\ UNCHANGED toolVars
  /\ UNCHANGED outerVars

\* Input::Failed, and every stream event that cannot be assembled.
ModelFails(s) ==
  /\ s \in calling
  /\ Accepts(s)
  /\ \E spoke \in BOOLEAN : AbortTurn("failed", spoke, calling \ {s})
  /\ UNCHANGED <<outerVars, toolVars>>

\* The request's terminal arrives for a step that is no longer active.
LateModelInput(s) ==
  /\ s \in calling
  /\ ~Accepts(s)
  /\ calling' = calling \ {s}
  /\ Commit(<<>>)
  /\ UNCHANGED <<turnVars, batchVars, inputVars, outerVars, toolVars>>
-----------------------------------------------------------------------------
(* Tool admission and execution.                                           *)

\* RunTool: the effect's authorization is fixed when it is emitted.
Run(c, auth) ==
  /\ running' = running \cup {c}
  /\ authority' = [authority EXCEPT ![c] = auth]

\* admission_resolved for the call that awaits it.  The audit precedes the decision.
AdmissionResolved(c) ==
  /\ c \in admitting
  /\ slot[c] = "admission"
  /\ admitting' = admitting \ {c}
  /\ \/ /\ Decide(c) = "allow"
        /\ slot' = [slot EXCEPT ![c] = "running"]
        /\ Commit(<<ToolPermissionDecided(c), ToolCallChanged(c, "running")>>)
        /\ Run(c, "policy")
        /\ UNCHANGED <<turnVars, offer, inputVars, calling>>
     \/ /\ Decide(c) = "require_approval"
        /\ slot' = [slot EXCEPT ![c] = "waiting"]
        /\ offer' = [offer EXCEPT ![c] = CurrentOffer(c)]
        /\ Commit(<<ToolPermissionDecided(c), ToolCallChanged(c, "awaiting_approval"),
                    AttentionRequested(c)>>)
        /\ UNCHANGED <<turnVars, inputVars, calling, running, authority>>
     \/ /\ Decide(c) \in {"forbidden", "unavailable"}
        /\ Answered(c, <<ToolPermissionDecided(c), ToolCallChanged(c, "failed")>>)
        /\ UNCHANGED <<running, authority>>
     \/ \* the catalog refused the call
        /\ Answered(c, <<ToolCallChanged(c, "failed")>>)
        /\ UNCHANGED <<running, authority>>
  /\ UNCHANGED <<outerVars, preparing, granted>>

\* An admission for a call no batch awaits is a warning.
LateAdmission(c) ==
  /\ c \in admitting
  /\ slot[c] # "admission"
  /\ admitting' = admitting \ {c}
  /\ Commit(<<>>)
  /\ UNCHANGED <<turnVars, batchVars, inputVars, outerVars, calling,
                 preparing, granted, running, authority>>

\* tool_finished.  PermissionRefused and failures of the worker end as "failed".
ToolFinished(c) ==
  /\ c \in running
  /\ slot[c] = "running"
  /\ running' = running \ {c}
  /\ \E status \in {"succeeded", "failed", "cancelled"} :
        Answered(c, <<ToolCallChanged(c, status)>>)
  /\ UNCHANGED <<outerVars, admitting, preparing, granted, authority>>

LateToolResult(c) ==
  /\ c \in running
  /\ slot[c] # "running"
  /\ running' = running \ {c}
  /\ Commit(<<>>)
  /\ UNCHANGED <<turnVars, batchVars, inputVars, outerVars, calling,
                 admitting, preparing, granted, authority>>

-----------------------------------------------------------------------------
(* Approval of a parked call.                                              *)

\* finish_approval for a decision that lets the call run.
Approved(c) ==
  <<ToolPermissionDecided(c), AttentionResolved(c), ToolCallChanged(c, "running")>>

\* Mutant: a refused call is left in preparation.
RefuseStuck(c) ==
  /\ slot' = slot
  /\ offer' = [offer EXCEPT ![c] = CurrentOffer(c)]
  /\ Commit(<<>>)

\* refuse_permission: the call stays parked and its offer is the current one.
Refuse(c) ==
  /\ slot' = [slot EXCEPT ![c] = "waiting"]
  /\ offer' = [offer EXCEPT ![c] = CurrentOffer(c)]
  /\ Commit(<<>>)

Deny(c) ==
  /\ slot[c] = "waiting"
  /\ Answered(c, <<ToolPermissionDecided(c), AttentionResolved(c), ToolCallChanged(c, "denied")>>)
  /\ UNCHANGED <<outerVars, toolVars>>

\* A rule that appeared since the question was asked outranks the answer.
AllowOnce(c) ==
  /\ slot[c] = "waiting"
  /\ \/ /\ Decide(c) \in {"forbidden", "unavailable"}
        /\ Refuse(c)
        /\ UNCHANGED <<running, authority>>
     \/ /\ Decide(c) \notin {"forbidden", "unavailable"}
        /\ slot' = [slot EXCEPT ![c] = "running"]
        /\ offer' = [offer EXCEPT ![c] = 0]
        /\ Commit(Approved(c))
        /\ Run(c, "once")
  /\ UNCHANGED <<turnVars, inputVars, outerVars, calling, admitting, preparing, granted>>

\* The decision echoes the offer the user saw; only the current one is prepared.
OfferStands(c, seen) == seen = offer[c] /\ seen = revision /\ CurrentOffer(c) # 0

AllowAndRemember(c, seen) ==
  /\ slot[c] = "waiting"
  /\ \/ /\ OfferStands(c, seen)
        /\ slot' = [slot EXCEPT ![c] = "preparing"]
        /\ preparing' = [preparing EXCEPT ![c] = seen]
        /\ offer' = offer
        /\ Commit(<<>>)
     \/ /\ ~OfferStands(c, seen)
        /\ Refuse(c)
        /\ preparing' = preparing
  /\ UNCHANGED <<turnVars, inputVars, outerVars, calling, admitting, granted, running, authority>>

\* Parked calls the current policy allows without asking, in model order.
ReleasableUnasked(c) == slot[c] = "waiting"      \* mutant: the policy is not asked
Releasable(c) == slot[c] = "waiting" /\ Decide(c) = "allow"
ReleaseRecords ==
  InOrder([i \in DOMAIN calls |-> IF Releasable(calls[i]) THEN Approved(calls[i]) ELSE <<>>])

\* release_allowed_approvals, together with the call in `first`, already
\* authorized as `auth`.
Release(first, auth) ==
  /\ slot' = [c \in Calls |-> IF c \in first \/ Releasable(c) THEN "running" ELSE slot[c]]
  /\ offer' = [c \in Calls |-> IF c \in first \/ Releasable(c) THEN 0 ELSE offer[c]]
  /\ running' = running \cup first \cup {c \in Calls : Releasable(c)}
  /\ authority' = [c \in Calls |-> IF c \in first THEN auth
                                   ELSE IF Releasable(c) THEN "policy" ELSE authority[c]]

\* permission_prepared.  The owner's answer is prepared when it granted the request.
PermissionPrepared(c) ==
  /\ preparing[c] # 0
  /\ slot[c] = "preparing"
  /\ preparing' = [preparing EXCEPT ![c] = 0]
  /\ granted' = granted \ {c}
  /\ \/ /\ c \in granted
        /\ Decide(c) = "allow"
        /\ Release({c}, "remembered")
        /\ Commit(Approved(c) \o ReleaseRecords)
     \/ /\ c \notin granted \/ Decide(c) # "allow"
        /\ Refuse(c)
        /\ UNCHANGED <<running, authority>>
  /\ UNCHANGED <<turnVars, inputVars, outerVars, calling, admitting>>

\* Cancellation finished the call while the owner was still preparing.
LatePermission(c) ==
  /\ preparing[c] # 0
  /\ slot[c] # "preparing"
  /\ preparing' = [preparing EXCEPT ![c] = 0]
  /\ granted' = granted \ {c}
  /\ Commit(<<>>)
  /\ UNCHANGED <<turnVars, batchVars, inputVars, outerVars, calling,
                 admitting, running, authority>>

\* Input::PermissionsChanged.
PermissionsChanged ==
  /\ \E c \in Calls : Releasable(c)
  /\ Release({}, "none")
  /\ Commit(ReleaseRecords)
  /\ UNCHANGED <<turnVars, inputVars, outerVars, calling, admitting, preparing, granted>>

-----------------------------------------------------------------------------
(* The coding session's permission owner.                                  *)

\* A control, a project store or a configuration replaced the view.
PolicyChanges ==
  /\ revision < MaxRevision
  /\ policy' \in Policies \ {policy}
  /\ revision' = revision + 1
  /\ UNCHANGED <<turnVars, batchVars, inputVars, calling, toolVars, ran, saved, records>>

\* SessionPermissions::remember: only at the revision the user saw.  The grant
\* may match other calls that were asked about.
GrantRemembered(c) ==
  /\ preparing[c] = revision
  /\ c \notin granted
  /\ policy[c] \in {"ask", "allow"}
  /\ revision < MaxRevision
  /\ policy' \in {p \in Policies :
                  /\ p[c] = "allow"
                  /\ \A d \in Calls : p[d] = policy[d] \/ (policy[d] = "ask" /\ p[d] = "allow")}
  /\ revision' = revision + 1
  /\ granted' = granted \cup {c}
  /\ UNCHANGED <<turnVars, batchVars, inputVars, calling, admitting, preparing,
                 running, authority, ran, saved, records>>

-----------------------------------------------------------------------------
(* Input::Interrupted and Input::ShuttingDown.                             *)

Stop(outcome) ==
  /\ phase # "idle"
  /\ \E spoke \in BOOLEAN : AbortTurn(outcome, spoke, calling)
  /\ UNCHANGED <<outerVars, toolVars>>

-----------------------------------------------------------------------------
Init ==
  /\ phase = "idle"
  /\ turn = 0
  /\ step = 0
  /\ calls = <<>>
  /\ slot = [c \in Calls |-> "none"]
  /\ offer = [c \in Calls |-> 0]
  /\ queue = {}
  /\ nextOrder = 0
  /\ delivered = {}
  /\ returned = {}
  /\ policy \in Policies
  /\ revision = 1
  /\ ran = {}
  /\ calling = {}
  /\ admitting = {}
  /\ preparing = [c \in Calls |-> 0]
  /\ granted = {}
  /\ running = {}
  /\ authority = [c \in Calls |-> "none"]
  /\ saved = EmptyJournal
  /\ records = <<>>

UserInput == SubmitIdle \/ SubmitRunning \/ Steer \/ Withdraw \/ StartCollaborationTurn
UserDecision(c) ==
  \/ Deny(c)
  \/ AllowOnce(c)
  \/ \E seen \in 1..revision : AllowAndRemember(c, seen)
ModelInput(s) ==
  \/ \E c \in Calls : ModelCalls(s, c)
  \/ ModelStops(s)
  \/ ModelFails(s)
  \/ LateModelInput(s)
ToolInput(c) ==
  \/ AdmissionResolved(c)
  \/ LateAdmission(c)
  \/ ToolFinished(c)
  \/ LateToolResult(c)
  \/ PermissionPrepared(c)
  \/ LatePermission(c)

Next ==
  \/ UserInput
  \/ \E s \in calling : ModelInput(s)
  \/ \E c \in Calls : UserDecision(c) \/ ToolInput(c) \/ GrantRemembered(c)
  \/ PermissionsChanged
  \/ PolicyChanges
  \/ \E outcome \in {"interrupted", "shutdown"} : Stop(outcome)

Spec == Init /\ [][Next]_vars

-----------------------------------------------------------------------------
(* Properties.                                                             *)

TurnTypeOK ==
  /\ phase \in Phases
  /\ turn \in Nat
  /\ step \in 0..MaxSteps
  /\ calls \in Seq(Calls)
  /\ slot \in [Calls -> SlotStates]
  /\ offer \in [Calls -> Nat]
  /\ calling \subseteq Nat \X Nat

InputsTypeOK ==
  /\ nextOrder \in Nat
  /\ queue \subseteq [order : 0..(nextOrder - 1), boundary : Boundaries]
  /\ delivered \subseteq 0..(nextOrder - 1)
  /\ returned \subseteq 0..(nextOrder - 1)

PolicyTypeOK == policy \in Policies /\ revision \in Nat \ {0} /\ ran \subseteq Calls

ToolsTypeOK ==
  /\ admitting \subseteq Calls
  /\ preparing \in [Calls -> Nat]
  /\ granted \subseteq Calls
  /\ running \subseteq Calls
  /\ authority \in [Calls -> Authorities]

\* The type of the agent's state and of the outstanding effects.  The journal
\* is left to JournalSound and JournalAgrees, which say far more about it.
TypeOK == TurnTypeOK /\ InputsTypeOK /\ PolicyTypeOK /\ ToolsTypeOK

\* No reaction appends a record that the journal's validator or its projector
\* refuses: the `unreachable!` of record.rs are unreachable.  In particular a
\* batch is settled before any later input, output or turn end is recorded, a
\* call identity is recorded once, and each call's statuses follow the lifecycle.
JournalSound == Journal.sound

\* The batch in memory and the journal tell the same story: each call's slot
\* agrees with its recorded status and open attention; outside the batch every
\* recorded call has its outcome and no attention stays open (LOOP-2, APV-6).
SlotAgrees(c) ==
  LET tool == Journal.tool[c]
  IN  /\ slot[c] = "none" =>
           tool.status \in Terminal \cup {"absent"} /\ ~tool.attention
      /\ slot[c] = "admission" =>
           tool.status = "queued" /\ tool.permission = "absent" /\ ~tool.attention
      /\ slot[c] \in {"waiting", "preparing"} =>
           tool.status = "awaiting_approval" /\ tool.attention
      /\ slot[c] = "running" =>
           tool.status = "running" /\ tool.permission # "absent" /\ ~tool.attention
      /\ slot[c] = "finished" => tool.status \in Terminal /\ ~tool.attention

JournalAgrees ==
  /\ \A c \in Calls : SlotAgrees(c)
  /\ Journal.open = IF phase = "idle" THEN 0 ELSE turn
  /\ Journal.agent = CASE phase = "idle" -> "idle"
                      [] phase = "streaming" -> "running"
                      [] phase = "working" -> "waiting"

\* Every queued input is waiting, was taken by a turn or was handed back, never
\* two of these and never lost (LOOP-6); an idle agent holds none.
InputsConserved ==
  /\ Orders(queue) \cup delivered \cup returned = 0..(nextOrder - 1)
  /\ Orders(queue) \cap delivered = {}
  /\ Orders(queue) \cap returned = {}
  /\ delivered \cap returned = {}
  /\ \A e, f \in queue : e.order = f.order => e = f
  /\ phase = "idle" => queue = {}

\* An input is taken before every later one with the same boundary, and steering
\* is taken by the turn it steered (LOOP-6).
TakesInOrder ==
  \A e \in queue : e.order \in delivered' \ delivered =>
     /\ \A f \in Waiting(e.boundary) : f.order < e.order => f.order \in delivered'
     /\ e.boundary = "next_step" => turn' = turn /\ step' = step + 1
     /\ e.boundary = "next_turn" => turn' = turn + 1 /\ step' = 1

TakenInOrder == [][TakesInOrder]_vars

\* The active step is the one whose model request is outstanding; a step that
\* stopped or was stopped is never active again, and the budget bounds its index.
StepOwned ==
  /\ phase = "streaming" => <<turn, step>> \in calling /\ step \in 1..MaxSteps
  /\ phase # "streaming" => <<turn, step>> \notin calling
  /\ \A s \in calling : s[1] <= turn

\* Each unfinished call of the batch has exactly the one worker its slot waits
\* for, so an answer never meets another phase of the same call and no call is
\* left waiting for nobody (ToolAlreadyActive, UnexpectedToolCompletion).
WorkerOwned ==
  /\ \A c \in Calls :
       /\ slot[c] # "none" <=> phase = "working" /\ c \in CallSet
       /\ slot[c] = "admission" => c \in admitting
       /\ slot[c] = "preparing" => preparing[c] # 0 /\ preparing[c] = offer[c]
       /\ slot[c] = "running" => c \in running
       /\ slot[c] \in {"admission", "waiting"} => preparing[c] = 0
       /\ c \in granted => preparing[c] # 0
  /\ admitting \cap running = {}
  /\ \A c \in admitting \cup running : preparing[c] = 0
  /\ phase = "working" => \E c \in CallSet : slot[c] # "finished"

\* A tool starts only on a decision of the current policy, or on one of the user
\* that the current policy does not overrule (PER-5).
Authorizes(auth, c) ==
  \/ auth = "policy" /\ Decide(c) = "allow"
  \/ auth = "once" /\ Decide(c) \notin {"forbidden", "unavailable"}
  \/ auth = "remembered" /\ Decide(c) = "allow" /\ c \in granted

StartsAuthorized == \A c \in running' \ running : Authorizes(authority'[c], c)

RunsAuthorized == [][StartsAuthorized]_vars

\* A reaction that opens a model step starts no tool work, which the runtime
\* would refuse (ModelStartedWithToolWork).
StartsAlone ==
  calling' \ calling # {} =>
     /\ admitting' \subseteq admitting
     /\ running' \subseteq running
     /\ \A c \in Calls : preparing'[c] # 0 => preparing[c] # 0

ModelStartsAlone == [][StartsAlone]_vars

\* Every worker answers; a provider ends its stream, which only the connection
\* timeout bounds in the code; the user who is asked again and again decides in the end.
Fairness ==
  /\ \A c \in Calls : WF_vars(ToolInput(c))
  /\ \A c \in Calls : SF_vars(Deny(c) \/ AllowOnce(c))
  /\ WF_vars(\E s \in calling : ModelStops(s) \/ ModelFails(s))

FairSpec == Spec /\ Fairness

\* Every queued input is eventually taken or handed back, whatever tools the
\* model asks for: the step budget and the batch cannot hold it forever (LOOP-6).
InputsSettle ==
  \A o \in 0..(MaxInputs - 1) : (o \in Orders(queue)) ~> (o \in delivered \cup returned)

\* A call parked or sent to a worker is answered and the batch moves on: a
\* question, once asked, is the only thing a batch can wait for, and not forever.
BatchEnds == phase = "working" ~> phase # "working"
=============================================================================
