---------------------------- MODULE SessionJournal ----------------------------
(***************************************************************************)
(* One agent's session journal: the facts a conversation is made of, what  *)
(* the journal accepts, and what replaying an accepted journal shows.      *)
(*                                                                         *)
(* The program appends a record to its in-memory journal and treats a      *)
(* refusal as unreachable (record.rs, commit and finish_turn): it panics.  *)
(* It also treats a journal that no longer projects as unreachable         *)
(* (record.rs, request; recovery.rs, interrupted_turn).  So a journal is   *)
(* summarised here by the view its validator and its projector have of it, *)
(* with a flag `sound` that falls as soon as either one would refuse.      *)
(*                                                                         *)
(* Identities of entries, transcript items and heads, text, presentation   *)
(* and timing are abstracted; warnings and errors are visible records that *)
(* touch none of the state below and are left out.                         *)
(***************************************************************************)
EXTENDS Naturals, Sequences

Seqs == INSTANCE SequencesExt

CONSTANT Calls          \* tool call identities the model can use

ToolStatus == {"absent", "queued", "awaiting_approval", "running",
               "succeeded", "failed", "denied", "cancelled"}
Terminal   == {"succeeded", "failed", "denied", "cancelled"}
AgentStatus == {"idle", "running", "waiting"}

-----------------------------------------------------------------------------
(* Records: the entries and facts the turn machine appends.                *)

TurnStarted(t)               == [kind |-> "turn_started", turn |-> t]
CollaborationTurnStarted(t)  == [kind |-> "collaboration_turn_started", turn |-> t]
SteeringAccepted(t)          == [kind |-> "steering_accepted", turn |-> t]
TurnStatusChanged(t, s)      == [kind |-> "turn_status_changed", turn |-> t, status |-> s]
AssistantOutput(t, n, seq)   == [kind |-> "assistant_output", turn |-> t, step |-> n, calls |-> seq]
ToolCallRequested(c)         == [kind |-> "tool_call_requested", call |-> c]
ToolPermissionDecided(c)     == [kind |-> "tool_permission_decided", call |-> c]
ToolCallChanged(c, s)        == [kind |-> "tool_call_changed", call |-> c, status |-> s]
AttentionRequested(c)        == [kind |-> "attention_requested", call |-> c]
AttentionResolved(c)         == [kind |-> "attention_resolved", call |-> c]
TurnFinished(t, o)           == [kind |-> "turn_finished", turn |-> t, outcome |-> o]
TurnInterruptedByRecovery    == [kind |-> "turn_interrupted_by_recovery"]

-----------------------------------------------------------------------------
(* The view.                                                               *)
(*   turns    turns started so far; their identities are 1..turns          *)
(*   open     the open turn on the selected head, 0 when there is none     *)
(*   step     index of the last assistant output of the open turn          *)
(*   agent    status the last projected status event carries               *)
(*   pending  calls of the assistant output whose batch is not yet closed  *)
(*   tool     per call: lifecycle status, whether it was requested, the    *)
(*            status at which its last permission audit was recorded, and  *)
(*            whether an attention request for it is open                  *)
(*   markers  recovery markers since the last input                        *)

Unknown == [status |-> "absent", requested |-> FALSE,
            permission |-> "absent", attention |-> FALSE]

EmptyJournal == [turns |-> 0, open |-> 0, step |-> 0, agent |-> "idle", pending |-> <<>>,
                 tool |-> [c \in Calls |-> Unknown], markers |-> 0, sound |-> TRUE]

\* No pending call lacks an outcome: finish_batch(false) would accept.
BatchSettled(j) == \A i \in DOMAIN j.pending : j.tool[j.pending[i]].status \in Terminal

\* pending_source: the call belongs to the batch that is still open.
InPendingBatch(j, c) == \E i \in DOMAIN j.pending : j.pending[i] = c

CanTransition(from, to) ==
  \/ from = "queued" /\ to \in {"awaiting_approval", "running", "failed", "cancelled"}
  \/ from = "awaiting_approval" /\ to \in {"running", "denied", "cancelled"}
  \/ from = "running" /\ to \in {"succeeded", "failed", "cancelled"}

-----------------------------------------------------------------------------
(* What the journal's validator requires of a record.                      *)

TurnIsOpen(j, t) == t \in 1..j.turns /\ j.open = t

Valid(j, r) ==
  CASE r.kind \in {"turn_started", "collaboration_turn_started"} ->
         r.turn \notin 1..j.turns /\ j.open = 0
    [] r.kind \in {"steering_accepted", "turn_status_changed"} ->
         TurnIsOpen(j, r.turn)
    [] r.kind = "assistant_output" ->
         TurnIsOpen(j, r.turn) /\ r.step = j.step + 1
    [] r.kind = "turn_finished" ->
         TurnIsOpen(j, r.turn)
    [] OTHER -> TRUE

(* What the projector requires of the same record.                         *)

Projectable(j, r) ==
  CASE r.kind \in {"turn_started", "collaboration_turn_started",
                   "steering_accepted", "turn_finished"} ->
         BatchSettled(j)
    [] r.kind = "assistant_output" ->
         /\ BatchSettled(j)
         /\ \A i \in DOMAIN r.calls : j.tool[r.calls[i]].status = "absent"
         /\ \A i, k \in DOMAIN r.calls : r.calls[i] = r.calls[k] => i = k
    [] r.kind = "tool_call_requested" ->
         InPendingBatch(j, r.call) /\ ~j.tool[r.call].requested
    [] r.kind = "tool_permission_decided" ->
         /\ InPendingBatch(j, r.call) /\ j.tool[r.call].requested
         /\ j.tool[r.call].status \in {"queued", "awaiting_approval"}
         /\ j.tool[r.call].permission # j.tool[r.call].status
    [] r.kind = "tool_call_changed" ->
         /\ InPendingBatch(j, r.call) /\ j.tool[r.call].requested
         /\ CanTransition(j.tool[r.call].status, r.status)
    [] OTHER -> TRUE

-----------------------------------------------------------------------------
(* What an accepted record changes.                                        *)

StartTurn(j, t) ==
  [j EXCEPT !.turns = t, !.open = t, !.step = 0, !.agent = "running",
            !.pending = <<>>, !.markers = 0]

Fact(j, r) ==
  CASE r.kind \in {"turn_started", "collaboration_turn_started"} ->
         StartTurn(j, r.turn)
    [] r.kind = "steering_accepted" ->
         [j EXCEPT !.pending = <<>>, !.markers = 0]
    [] r.kind = "turn_status_changed" ->
         [j EXCEPT !.agent = r.status]
    [] r.kind = "assistant_output" ->
         [j EXCEPT !.step = r.step, !.pending = r.calls,
                   !.tool = [c \in Calls |->
                               IF \E i \in DOMAIN r.calls : r.calls[i] = c
                               THEN [Unknown EXCEPT !.status = "queued"]
                               ELSE j.tool[c]]]
    [] r.kind = "tool_call_requested" ->
         [j EXCEPT !.tool[r.call].requested = TRUE]
    [] r.kind = "tool_permission_decided" ->
         [j EXCEPT !.tool[r.call].permission = j.tool[r.call].status]
    [] r.kind = "tool_call_changed" ->
         [j EXCEPT !.tool[r.call].status = r.status]
    [] r.kind = "attention_requested" ->
         [j EXCEPT !.tool[r.call].attention = TRUE]
    [] r.kind = "attention_resolved" ->
         [j EXCEPT !.tool[r.call].attention = FALSE]
    [] r.kind = "turn_finished" ->
         [j EXCEPT !.open = 0, !.agent = "idle", !.pending = <<>>]
    [] r.kind = "turn_interrupted_by_recovery" ->
         [j EXCEPT !.markers = j.markers + 1]

Apply(j, r) ==
  IF Valid(j, r) /\ Projectable(j, r) THEN Fact(j, r) ELSE [j EXCEPT !.sound = FALSE]

\* The view after a reaction's records were appended in order.
Replay(j, rs) ==
  LET after[n \in 0..Len(rs)] == IF n = 0 THEN j ELSE Apply(after[n - 1], rs[n])
  IN  after[Len(rs)]

\* The records that each of several facts needs, one after the other.
InOrder(parts) == Seqs!FlattenSeq(parts)

-----------------------------------------------------------------------------
(* What recovery after a process death reads from the loaded journal, and  *)
(* the records it appends.                                                 *)

IncompleteBatch(j) == ~BatchSettled(j)

Interrupted(j) == j.open # 0 \/ j.agent # "idle" \/ IncompleteBatch(j)

\* An interruption is marked once, however often its recovery is interrupted too.
NeedsMarker(j) == j.markers = 0

\* Mutant: recovery looks only at the calls the journal shows as requested.
CancelledRequests(j, c) ==
  IF j.tool[c].status \in Terminal \/ ~j.tool[c].requested THEN <<>>
  ELSE (IF j.tool[c].attention THEN <<AttentionResolved(c)>> ELSE <<>>)
         \o <<ToolCallChanged(c, "cancelled")>>

\* A call that has an outcome needs nothing.  Any other is requested if it never was,
\* its attention is resolved if open, and it is cancelled.
Cancelled(j, c) ==
  IF j.tool[c].status \in Terminal THEN <<>>
  ELSE (IF j.tool[c].requested THEN <<>> ELSE <<ToolCallRequested(c)>>)
         \o (IF j.tool[c].attention THEN <<AttentionResolved(c)>> ELSE <<>>)
         \o <<ToolCallChanged(c, "cancelled")>>

\* Mutant: recovery settles the tools and leaves the turn open.
RecoveryWithoutTerminal(j) ==
  IF ~Interrupted(j) THEN <<>>
  ELSE InOrder([i \in DOMAIN j.pending |-> Cancelled(j, j.pending[i])])

RecoveryRecords(j) ==
  IF ~Interrupted(j) THEN <<>>
  ELSE (IF NeedsMarker(j) THEN <<TurnInterruptedByRecovery>> ELSE <<>>)
         \o InOrder([i \in DOMAIN j.pending |-> Cancelled(j, j.pending[i])])
         \o (IF j.open # 0 THEN <<TurnFinished(j.open, "process_died")>> ELSE <<>>)
=============================================================================
