-------------------------- MODULE TurnMachine_proofs --------------------------
(***************************************************************************)
(* What TLAPS proves of the turn machine, for every set of calls, every    *)
(* set of permission views and every bound: its types, what each call goes *)
(* through, and that the machine and its journal agree, so that no record  *)
(* is ever refused.                                                        *)
(*                                                                         *)
(* The last argument names what the journal shows in each phase of a turn  *)
(* (Idle, Streaming, Working below), proves of each reaction's records     *)
(* that they lead from one such view to another, and then of each handler  *)
(* that it appends those records in that phase.  The same is then proved   *)
(* of the processes that follow a death, which may cut a reaction off      *)
(* after any of its records: no call runs twice, and recovery settles all. *)
(***************************************************************************)
EXTENDS TurnRecovery, LeastNatural, TLAPS

-----------------------------------------------------------------------------
(* The oldest and the newest entry of a queue.                             *)

\* Oldest picks an entry of the set, and none arrived before it.
LEMMA OldestIsFirst ==
  ASSUME NEW S, S # {}, \A e \in S : e.order \in Nat
  PROVE  /\ Oldest(S) \in S
         /\ \A e \in S : Oldest(S).order <= e.order
<1>1. Orders(S) \in SUBSET Nat /\ Orders(S) # {}
  BY DEF Orders
<1>2. PICK m \in Orders(S) : \A n \in Orders(S) : m <= n
  BY <1>1, LeastElement
<1>3. \E e \in S : \A f \in S : e.order <= f.order
  BY <1>2 DEF Orders
<1> QED BY <1>3 DEF Oldest

\* Newest picks an entry of the set.
LEMMA NewestIsMember ==
  ASSUME NEW b \in Nat, NEW S, S # {}, \A e \in S : e.order \in 0..b
  PROVE  Newest(S) \in S
<1>1. Orders(S) \in SUBSET (0..b) /\ Orders(S) # {}
  BY DEF Orders
<1>2. PICK m \in Orders(S) : \A n \in Orders(S) : n <= m
  BY <1>1, GreatestElement
<1>3. \E e \in S : \A f \in S : f.order <= e.order
  BY <1>2 DEF Orders
<1> QED BY <1>3 DEF Newest
-----------------------------------------------------------------------------
(* What the operators that end and open turns leave behind.                *)

\* A step begins with an empty batch.
LEMMA EmptyBatch ==
  /\ [c \in Calls |-> "none"] \in [Calls -> SlotStates]
  /\ [c \in Calls |-> 0] \in [Calls -> Nat]
  /\ <<>> \in Seq(Calls)
BY DEF SlotStates

\* Opening a step leaves a typed turn (open_step).
LEMMA OpenStepTypes ==
  ASSUME NEW t \in Nat, NEW n \in 1..MaxSteps, NEW asked \in SUBSET (Nat \X Nat),
         OpenStep(t, n, asked)
  PROVE  TurnTypeOK'
<1>1. n \in 0..MaxSteps /\ n \in Nat
  BY BoundsAssumption
<1>2. calling' \subseteq Nat \X Nat
  BY <1>1 DEF OpenStep
<1> QED BY <1>1, <1>2, EmptyBatch DEF OpenStep, TurnTypeOK, Phases

\* Ending a turn with nothing queued leaves a typed turn.
LEMMA GoIdleTypes ==
  ASSUME TurnTypeOK, NEW asked \in SUBSET (Nat \X Nat), GoIdle(asked)
  PROVE  TurnTypeOK'
<1>1. /\ phase' = "idle" /\ turn' = turn /\ step' = 0 /\ calls' = <<>> /\ calling' = asked
      /\ slot' = [c \in Calls |-> "none"] /\ offer' = [c \in Calls |-> 0]
  BY DEF GoIdle, GoIdleAt
<1>2. phase' \in Phases /\ turn' \in Nat /\ step' \in 0..MaxSteps
  BY <1>1, BoundsAssumption DEF TurnTypeOK, Phases
<1>3. calls' \in Seq(Calls) /\ calling' \subseteq Nat \X Nat
  BY <1>1, EmptyBatch
<1>4. slot' \in [Calls -> SlotStates] /\ offer' \in [Calls -> Nat]
  BY <1>1, EmptyBatch
<1> QED BY <1>2, <1>3, <1>4 DEF TurnTypeOK

\* Finishing a turn takes the oldest input for a new turn, or goes idle (finish_turn).
LEMMA FinishTurnTypes ==
  ASSUME TypeOK, NEW asked \in SUBSET (Nat \X Nat), NEW before, NEW outcome,
         FinishTurn(before, outcome, asked)
  PROVE  TurnTypeOK' /\ InputsTypeOK'
<1> DEFINE next == Waiting("next_turn")
           old  == Oldest(next)
<1>1. next \subseteq queue /\ Waiting("next_step") \subseteq queue
  BY DEF Waiting
<1>2. returned' \subseteq 0..(nextOrder' - 1)
  <2>1. returned' = returned \cup Orders(Waiting("next_step")) /\ nextOrder' = nextOrder
    BY DEF FinishTurn
  <2>2. \A i \in queue : i.order \in 0..(nextOrder - 1)
    BY DEF TypeOK, InputsTypeOK
  <2>3. Orders(Waiting("next_step")) \subseteq 0..(nextOrder - 1)
    BY <1>1, <2>2 DEF Orders
  <2> QED BY <2>1, <2>3 DEF TypeOK, InputsTypeOK
<1>3. CASE next = {}
  <2>1. GoIdle(asked) /\ queue' = {} /\ delivered' = delivered /\ nextOrder' = nextOrder
    BY <1>3 DEF FinishTurn
  <2>2. TurnTypeOK'
    BY <2>1, GoIdleTypes DEF TypeOK
  <2> QED BY <1>2, <2>1, <2>2 DEF TypeOK, InputsTypeOK
<1>4. CASE next # {}
  <2>1. /\ OpenStep(turn + 1, 1, asked)
        /\ queue' = next \ {old}
        /\ delivered' = delivered \cup {old.order}
        /\ nextOrder' = nextOrder
    BY <1>4 DEF FinishTurn
  <2>2. turn + 1 \in Nat /\ 1 \in 1..MaxSteps
    BY BoundsAssumption DEF TypeOK, TurnTypeOK
  <2>3. TurnTypeOK'
    BY <2>1, <2>2, OpenStepTypes
  <2>4. \A e \in next : e.order \in Nat
    BY <1>1 DEF TypeOK, InputsTypeOK
  <2>5. old \in queue
    <3> HIDE DEF next
    <3>1. old \in next
      BY <1>4, <2>4, OldestIsFirst
    <3> QED BY <1>1, <3>1
  <2> HIDE DEF old
  <2>6. InputsTypeOK'
    BY <1>1, <1>2, <2>1, <2>5 DEF TypeOK, InputsTypeOK
  <2> QED BY <2>3, <2>6
<1> QED BY <1>3, <1>4

\* A settled batch leads to the next step or, at the budget, ends the turn (next_step).
LEMMA NextStepTypes ==
  ASSUME TypeOK, NEW before, NextStep(before)
  PROVE  TurnTypeOK' /\ InputsTypeOK'
<1>1. CASE BudgetSpent /\ FinishTurn(before, "step_budget_reached", calling)
  BY <1>1, FinishTurnTypes DEF TypeOK, TurnTypeOK
<1>2. CASE ~BudgetSpent /\ OpenStep(turn, step + 1, calling)
             /\ queue' = queue \ Waiting("next_step")
             /\ delivered' = delivered \cup Orders(Waiting("next_step"))
             /\ UNCHANGED <<nextOrder, returned>>
  <2>1. step + 1 \in 1..MaxSteps
    BY <1>2, BoundsAssumption DEF TypeOK, TurnTypeOK, BudgetSpent
  <2>2. TurnTypeOK'
    BY <1>2, <2>1, OpenStepTypes DEF TypeOK, TurnTypeOK
  <2>3. InputsTypeOK'
    BY <1>2 DEF TypeOK, InputsTypeOK, Orders, Waiting
  <2> QED BY <2>2, <2>3
<1> QED BY <1>1, <1>2 DEF NextStep

\* An answer to a call closes its slot and may end the batch (settle_batch).
LEMMA AnsweredTypes ==
  ASSUME TypeOK, NEW c \in Calls, NEW recs, Answered(c, recs)
  PROVE  TurnTypeOK' /\ InputsTypeOK'
<1>1. CASE NextStep(recs)
  BY <1>1, NextStepTypes
<1>2. CASE /\ slot' = [slot EXCEPT ![c] = "finished"]
           /\ offer' = [offer EXCEPT ![c] = 0]
           /\ UNCHANGED <<turnVars, inputVars, calling>>
  BY <1>2 DEF TypeOK, TurnTypeOK, InputsTypeOK, turnVars, inputVars, SlotStates
<1> QED BY <1>1, <1>2 DEF Answered

\* Stopping a turn hands the queue back (abort_turn).
LEMMA AbortTurnTypes ==
  ASSUME TypeOK, NEW asked \in SUBSET (Nat \X Nat), NEW outcome, NEW spoke,
         AbortTurn(outcome, spoke, asked)
  PROVE  TurnTypeOK' /\ InputsTypeOK'
<1>1. TurnTypeOK'
  BY GoIdleTypes DEF AbortTurn, TypeOK
<1>2. InputsTypeOK'
  BY DEF AbortTurn, TypeOK, InputsTypeOK, Orders
<1> QED BY <1>1, <1>2

\* An input is queued with the next number, or refused (InputQueue::queue).
LEMMA EnqueueTypes ==
  ASSUME InputsTypeOK, NEW b \in Boundaries, Enqueue(b)
  PROVE  InputsTypeOK'
<1>1. CASE UNCHANGED inputVars
  BY <1>1 DEF InputsTypeOK, inputVars
<1>2. CASE /\ queue' = queue \cup {[order |-> nextOrder, boundary |-> b]}
           /\ nextOrder' = nextOrder + 1
           /\ UNCHANGED <<delivered, returned>>
  <2>1. 0..(nextOrder - 1) \subseteq 0..(nextOrder' - 1) /\ nextOrder \in 0..(nextOrder' - 1)
    BY <1>2 DEF InputsTypeOK
  <2>2. queue' \subseteq [order : 0..(nextOrder' - 1), boundary : Boundaries]
    BY <1>2, <2>1 DEF InputsTypeOK
  <2> QED BY <1>2, <2>1, <2>2 DEF InputsTypeOK
<1> QED BY <1>1, <1>2 DEF Enqueue

\* Releasing held calls starts workers (release_allowed_approvals).
LEMMA ReleaseTypes ==
  ASSUME TypeOK, NEW first \in SUBSET Calls, NEW auth \in Authorities, Release(first, auth)
  PROVE  /\ slot' \in [Calls -> SlotStates] /\ offer' \in [Calls -> Nat]
         /\ running' \subseteq Calls /\ authority' \in [Calls -> Authorities]
BY DEF Release, TypeOK, TurnTypeOK, ToolsTypeOK, SlotStates, Authorities

\* Refusing a held call keeps the slots typed (refuse_permission).
LEMMA RefuseTypes ==
  ASSUME TypeOK, NEW c \in Calls, Refuse(c)
  PROVE  slot' \in [Calls -> SlotStates] /\ offer' \in [Calls -> Nat]
<1>1. CurrentOffer(c) \in Nat
  BY DEF CurrentOffer, TypeOK, PolicyTypeOK
<1> QED BY <1>1 DEF Refuse, TypeOK, TurnTypeOK, SlotStates

-----------------------------------------------------------------------------
(* Type correctness.                                                       *)

\* The machine starts typed.
LEMMA TypeInit == Init => TypeOK
BY EmptyBatch, BoundsAssumption
   DEF Init, TypeOK, TurnTypeOK, InputsTypeOK, PolicyTypeOK, ToolsTypeOK, Phases, Authorities

\* User inputs keep the types.
LEMMA TypeUserInput == TypeOK /\ UserInput => TypeOK'
<1> SUFFICES ASSUME TypeOK, UserInput PROVE TypeOK'
  OBVIOUS
<1> USE DEF TypeOK
<1>1. CASE SubmitIdle
  <2>1. OpenStep(turn + 1, 1, calling) /\ turn + 1 \in Nat /\ 1 \in 1..MaxSteps
    BY <1>1, BoundsAssumption DEF SubmitIdle, TurnTypeOK
  <2>2. TurnTypeOK'
    BY <2>1, OpenStepTypes DEF TurnTypeOK
  <2> QED BY <1>1, <2>2 DEF SubmitIdle, InputsTypeOK, PolicyTypeOK, ToolsTypeOK,
                            inputVars, outerVars, toolVars
<1>2. CASE SubmitRunning
  <2>1. InputsTypeOK'
    BY <1>2, EnqueueTypes DEF SubmitRunning, Boundaries
  <2> QED BY <1>2, <2>1 DEF SubmitRunning, TurnTypeOK, PolicyTypeOK, ToolsTypeOK,
                            turnVars, batchVars, outerVars, toolVars
<1>3. CASE Steer
  <2>1. InputsTypeOK'
    BY <1>3, EnqueueTypes DEF Steer, Boundaries
  <2> QED BY <1>3, <2>1 DEF Steer, TurnTypeOK, PolicyTypeOK, ToolsTypeOK,
                            turnVars, batchVars, outerVars, toolVars
<1>4. CASE Withdraw
  <2>1. nextOrder - 1 \in Nat /\ \A e \in queue : e.order \in 0..(nextOrder - 1)
    BY <1>4 DEF Withdraw, InputsTypeOK
  <2>2. Newest(queue) \in queue
    BY <1>4, <2>1, NewestIsMember DEF Withdraw
  <2>3. InputsTypeOK'
    BY <1>4, <2>2 DEF Withdraw, InputsTypeOK
  <2> QED BY <1>4, <2>3 DEF Withdraw, TurnTypeOK, PolicyTypeOK, ToolsTypeOK,
                            turnVars, batchVars, outerVars, toolVars
<1>5. CASE StartCollaborationTurn
  <2>1. OpenStep(turn + 1, 1, calling) /\ turn + 1 \in Nat /\ 1 \in 1..MaxSteps
    BY <1>5, BoundsAssumption DEF StartCollaborationTurn, TurnTypeOK
  <2>2. TurnTypeOK'
    BY <2>1, OpenStepTypes DEF TurnTypeOK
  <2> QED BY <1>5, <2>2 DEF StartCollaborationTurn, InputsTypeOK, PolicyTypeOK, ToolsTypeOK,
                            inputVars, outerVars, toolVars
<1> QED BY <1>1, <1>2, <1>3, <1>4, <1>5 DEF UserInput

\* Model events keep the types.
LEMMA TypeModelInput == TypeOK /\ (\E s \in calling : ModelInput(s)) => TypeOK'
<1> SUFFICES ASSUME TypeOK, NEW s \in calling, ModelInput(s) PROVE TypeOK'
  OBVIOUS
<1> USE DEF TypeOK
<1>0. calling \in SUBSET (Nat \X Nat) /\ calling \ {s} \in SUBSET (Nat \X Nat)
  BY DEF TurnTypeOK
<1>1. ASSUME NEW c \in Calls, ModelCalls(s, c) PROVE TypeOK'
  <2>1. CASE \E spoke \in BOOLEAN : AbortTurn("failed", spoke, calling)
    <3>1. TurnTypeOK' /\ InputsTypeOK'
      BY <1>0, <2>1, AbortTurnTypes
    <3>2. UNCHANGED <<outerVars, toolVars>>
      BY <1>1, <2>1 DEF ModelCalls, AbortTurn, GoIdle, GoIdleAt
    <3> QED BY <3>1, <3>2 DEF PolicyTypeOK, ToolsTypeOK, outerVars, toolVars
  <2>2. CASE /\ calls' = Append(calls, c)
             /\ UNCHANGED <<phase, turn, step, batchVars, inputVars, outerVars,
                            calling, toolVars>>
    <3>1. calls' \in Seq(Calls)
      BY <2>2 DEF TurnTypeOK
    <3> QED BY <2>2, <3>1 DEF TurnTypeOK, InputsTypeOK, PolicyTypeOK, ToolsTypeOK,
                              batchVars, inputVars, outerVars, toolVars
  <2> QED BY <1>1, <2>1, <2>2 DEF ModelCalls
<1>2. CASE ModelStops(s)
  <2>1. CASE calls # <<>> /\ calling' = calling \ {s} /\ Dispatch(AssistantOutput(turn, step, calls))
    <3>1. CallSet \subseteq Calls
      BY DEF CallSet, TurnTypeOK
    <3>2. TurnTypeOK'
      BY <1>0, <2>1 DEF Dispatch, TurnTypeOK, Phases, SlotStates
    <3> QED BY <1>2, <2>1, <3>1, <3>2
            DEF ModelStops, Dispatch, InputsTypeOK, PolicyTypeOK, ToolsTypeOK, inputVars, outerVars
  <2>2. CASE /\ \E spoke \in BOOLEAN : FinishTurn(Retained(spoke), "completed", calling \ {s})
             /\ UNCHANGED toolVars
    <3>1. TurnTypeOK' /\ InputsTypeOK'
      BY <1>0, <2>2, FinishTurnTypes
    <3> QED BY <1>2, <2>2, <3>1 DEF ModelStops, PolicyTypeOK, ToolsTypeOK, outerVars, toolVars
  <2> QED BY <1>2, <2>1, <2>2 DEF ModelStops
<1>3. CASE ModelFails(s)
  <2>1. TurnTypeOK' /\ InputsTypeOK'
    BY <1>0, <1>3, AbortTurnTypes DEF ModelFails
  <2> QED BY <1>3, <2>1 DEF ModelFails, PolicyTypeOK, ToolsTypeOK, outerVars, toolVars
<1>4. CASE LateModelInput(s)
  <2>1. TurnTypeOK'
    BY <1>0, <1>4 DEF LateModelInput, TurnTypeOK, turnVars, batchVars
  <2> QED BY <1>4, <2>1 DEF LateModelInput, InputsTypeOK, PolicyTypeOK, ToolsTypeOK,
                            inputVars, outerVars, toolVars
<1> QED BY <1>1, <1>2, <1>3, <1>4 DEF ModelInput

\* Worker events keep the types.
LEMMA TypeToolInput == TypeOK /\ (\E c \in Calls : ToolInput(c)) => TypeOK'
<1> SUFFICES ASSUME TypeOK, NEW c \in Calls, ToolInput(c) PROVE TypeOK'
  OBVIOUS
<1> USE DEF TypeOK
<1>1. CASE AdmissionResolved(c)
  <2>1. UNCHANGED outerVars /\ UNCHANGED <<preparing, granted>> /\ admitting' \subseteq Calls
    BY <1>1 DEF AdmissionResolved, ToolsTypeOK
  <2>2. CASE /\ slot' = [slot EXCEPT ![c] = "running"]
             /\ Run(c, "policy")
             /\ UNCHANGED <<turnVars, offer, inputVars, calling>>
    <3>1. TurnTypeOK' /\ InputsTypeOK'
      BY <2>2 DEF TurnTypeOK, InputsTypeOK, turnVars, inputVars, SlotStates
    <3> QED BY <2>1, <2>2, <3>1 DEF Run, PolicyTypeOK, ToolsTypeOK, outerVars, Authorities
  <2>3. CASE /\ slot' = [slot EXCEPT ![c] = "waiting"]
             /\ offer' = [offer EXCEPT ![c] = CurrentOffer(c)]
             /\ UNCHANGED <<turnVars, inputVars, calling, running, authority>>
    <3>1. CurrentOffer(c) \in Nat
      BY DEF CurrentOffer, PolicyTypeOK
    <3>2. TurnTypeOK' /\ InputsTypeOK'
      BY <2>3, <3>1 DEF TurnTypeOK, InputsTypeOK, turnVars, inputVars, SlotStates
    <3> QED BY <2>1, <2>3, <3>2 DEF PolicyTypeOK, ToolsTypeOK, outerVars
  <2>4. CASE (\E recs : Answered(c, recs)) /\ UNCHANGED <<running, authority>>
    <3>1. TurnTypeOK' /\ InputsTypeOK'
      BY <2>4, AnsweredTypes
    <3> QED BY <2>1, <2>4, <3>1 DEF PolicyTypeOK, ToolsTypeOK, outerVars
  <2> QED BY <1>1, <2>2, <2>3, <2>4 DEF AdmissionResolved
<1>2. CASE LateAdmission(c)
  BY <1>2 DEF LateAdmission, TurnTypeOK, InputsTypeOK, PolicyTypeOK, ToolsTypeOK,
              turnVars, batchVars, inputVars, outerVars
<1>3. CASE ToolFinished(c)
  <2>1. TurnTypeOK' /\ InputsTypeOK'
    BY <1>3, AnsweredTypes DEF ToolFinished
  <2> QED BY <1>3, <2>1 DEF ToolFinished, PolicyTypeOK, ToolsTypeOK, outerVars
<1>4. CASE LateToolResult(c)
  BY <1>4 DEF LateToolResult, TurnTypeOK, InputsTypeOK, PolicyTypeOK, ToolsTypeOK,
              turnVars, batchVars, inputVars, outerVars
<1>5. CASE PermissionPrepared(c)
  <2>1. /\ preparing' = [preparing EXCEPT ![c] = 0] /\ granted' = granted \ {c}
        /\ UNCHANGED <<turnVars, inputVars, outerVars, calling, admitting>>
    BY <1>5 DEF PermissionPrepared
  <2>2. CASE Release({c}, "remembered")
    <3>1. {c} \in SUBSET Calls /\ "remembered" \in Authorities
      BY DEF Authorities
    <3>2. /\ slot' \in [Calls -> SlotStates] /\ offer' \in [Calls -> Nat]
          /\ running' \subseteq Calls /\ authority' \in [Calls -> Authorities]
      BY <2>2, <3>1, ReleaseTypes
    <3> QED BY <2>1, <3>2 DEF TurnTypeOK, InputsTypeOK, PolicyTypeOK, ToolsTypeOK,
                              turnVars, inputVars, outerVars
  <2>3. CASE Refuse(c) /\ UNCHANGED <<running, authority>>
    <3>1. slot' \in [Calls -> SlotStates] /\ offer' \in [Calls -> Nat]
      BY <2>3, RefuseTypes
    <3> QED BY <2>1, <2>3, <3>1 DEF TurnTypeOK, InputsTypeOK, PolicyTypeOK, ToolsTypeOK,
                                    turnVars, inputVars, outerVars
  <2> QED BY <1>5, <2>2, <2>3 DEF PermissionPrepared
<1>6. CASE LatePermission(c)
  BY <1>6 DEF LatePermission, TurnTypeOK, InputsTypeOK, PolicyTypeOK, ToolsTypeOK,
              turnVars, batchVars, inputVars, outerVars
<1> QED BY <1>1, <1>2, <1>3, <1>4, <1>5, <1>6 DEF ToolInput

\* Decisions keep the types.
LEMMA TypeUserDecision == TypeOK /\ (\E c \in Calls : UserDecision(c)) => TypeOK'
<1> SUFFICES ASSUME TypeOK, NEW c \in Calls, UserDecision(c) PROVE TypeOK'
  OBVIOUS
<1> USE DEF TypeOK
<1>1. CASE Deny(c)
  <2>1. TurnTypeOK' /\ InputsTypeOK'
    BY <1>1, AnsweredTypes DEF Deny
  <2> QED BY <1>1, <2>1 DEF Deny, PolicyTypeOK, ToolsTypeOK, outerVars, toolVars
<1>2. CASE AllowOnce(c)
  <2>1. UNCHANGED <<turnVars, inputVars, outerVars, calling, admitting, preparing, granted>>
    BY <1>2 DEF AllowOnce
  <2>2. CASE Refuse(c) /\ UNCHANGED <<running, authority>>
    <3>1. slot' \in [Calls -> SlotStates] /\ offer' \in [Calls -> Nat]
      BY <2>2, RefuseTypes
    <3> QED BY <2>1, <2>2, <3>1 DEF TurnTypeOK, InputsTypeOK, PolicyTypeOK, ToolsTypeOK,
                                    turnVars, inputVars, outerVars
  <2>3. CASE /\ slot' = [slot EXCEPT ![c] = "running"]
             /\ offer' = [offer EXCEPT ![c] = 0]
             /\ Run(c, "once")
    <3>1. TurnTypeOK' /\ InputsTypeOK'
      BY <2>1, <2>3 DEF TurnTypeOK, InputsTypeOK, turnVars, inputVars, SlotStates
    <3> QED BY <2>1, <2>3, <3>1 DEF Run, PolicyTypeOK, ToolsTypeOK, outerVars, Authorities
  <2> QED BY <1>2, <2>2, <2>3 DEF AllowOnce
<1>3. ASSUME NEW seen \in 1..revision, AllowAndRemember(c, seen) PROVE TypeOK'
  <2>1. UNCHANGED <<turnVars, inputVars, outerVars, calling, admitting, granted, running, authority>>
    BY <1>3 DEF AllowAndRemember
  <2>2. CASE /\ slot' = [slot EXCEPT ![c] = "preparing"]
             /\ preparing' = [preparing EXCEPT ![c] = seen]
             /\ offer' = offer
    <3>1. seen \in Nat
      BY DEF PolicyTypeOK
    <3> QED BY <2>1, <2>2, <3>1 DEF TurnTypeOK, InputsTypeOK, PolicyTypeOK, ToolsTypeOK,
                                    turnVars, inputVars, outerVars, SlotStates
  <2>3. CASE Refuse(c) /\ preparing' = preparing
    <3>1. slot' \in [Calls -> SlotStates] /\ offer' \in [Calls -> Nat]
      BY <2>3, RefuseTypes
    <3> QED BY <2>1, <2>3, <3>1 DEF TurnTypeOK, InputsTypeOK, PolicyTypeOK, ToolsTypeOK,
                                    turnVars, inputVars, outerVars
  <2> QED BY <1>3, <2>2, <2>3 DEF AllowAndRemember
<1> QED BY <1>1, <1>2, <1>3 DEF UserDecision

\* Changes of the permission rules keep the types.
LEMMA TypeOwner ==
  TypeOK /\ ((\E c \in Calls : GrantRemembered(c)) \/ PolicyChanges \/ PermissionsChanged) => TypeOK'
<1> SUFFICES ASSUME TypeOK,
                    (\E c \in Calls : GrantRemembered(c)) \/ PolicyChanges \/ PermissionsChanged
             PROVE  TypeOK'
  OBVIOUS
<1> USE DEF TypeOK
<1>1. ASSUME NEW c \in Calls, GrantRemembered(c) PROVE TypeOK'
  <2>1. policy' \in Policies /\ revision' \in Nat \ {0} /\ granted' \subseteq Calls
    BY <1>1 DEF GrantRemembered, PolicyTypeOK, ToolsTypeOK
  <2> QED BY <1>1, <2>1 DEF GrantRemembered, TurnTypeOK, InputsTypeOK, PolicyTypeOK, ToolsTypeOK,
                            turnVars, batchVars, inputVars
<1>2. CASE PolicyChanges
  BY <1>2 DEF PolicyChanges, TurnTypeOK, InputsTypeOK, PolicyTypeOK, ToolsTypeOK,
              turnVars, batchVars, inputVars, toolVars
<1>3. CASE PermissionsChanged
  <2>1. {} \in SUBSET Calls /\ "none" \in Authorities
    BY DEF Authorities
  <2>2. /\ slot' \in [Calls -> SlotStates] /\ offer' \in [Calls -> Nat]
        /\ running' \subseteq Calls /\ authority' \in [Calls -> Authorities]
    BY <1>3, <2>1, ReleaseTypes DEF PermissionsChanged
  <2> QED BY <1>3, <2>2 DEF PermissionsChanged, TurnTypeOK, InputsTypeOK, PolicyTypeOK,
                            ToolsTypeOK, turnVars, inputVars, outerVars
<1> QED BY <1>1, <1>2, <1>3

\* Interrupting and shutting down keep the types.
LEMMA TypeStop ==
  TypeOK /\ (\E outcome \in {"interrupted", "shutdown"} : Stop(outcome)) => TypeOK'
<1> SUFFICES ASSUME TypeOK, NEW outcome \in {"interrupted", "shutdown"}, Stop(outcome)
             PROVE  TypeOK'
  OBVIOUS
<1>1. TurnTypeOK' /\ InputsTypeOK'
  BY AbortTurnTypes DEF Stop, TypeOK, TurnTypeOK
<1> QED BY <1>1 DEF Stop, TypeOK, PolicyTypeOK, ToolsTypeOK, outerVars, toolVars

\* So does every step of the machine.
LEMMA TypeNext == TypeOK /\ [Next]_vars => TypeOK'
<1>1. TypeOK /\ UNCHANGED vars => TypeOK'
  BY DEF TypeOK, TurnTypeOK, InputsTypeOK, PolicyTypeOK, ToolsTypeOK,
         vars, turnVars, batchVars, inputVars, outerVars, toolVars
<1> QED BY <1>1, TypeUserInput, TypeModelInput, TypeToolInput, TypeUserDecision,
           TypeOwner, TypeStop DEF Next

\* The type invariant holds for every set of calls, every set of views and every
\* bound: among others no turn takes a step beyond its budget (TurnBudget).
THEOREM TypeCorrect == Spec => []TypeOK
BY TypeInit, TypeNext, PTL DEF Spec
-----------------------------------------------------------------------------
(* The active model step.                                                  *)

\* StepOwned is inductive once requests are known to name a step that exists: an
\* idle agent has step 0, which then names no request.
StepInv == StepOwned /\ \A s \in calling : s[2] # 0

\* Opening a step at or after the current turn keeps one owner per model request.
LEMMA OpenStepOwns ==
  ASSUME TypeOK, StepInv, NEW t \in Nat, t >= turn, NEW n \in 1..MaxSteps,
         NEW asked \in SUBSET calling, OpenStep(t, n, asked)
  PROVE  StepInv'
<1>1. /\ calling' = asked \cup {<<t, n>>} /\ turn' = t /\ step' = n /\ phase' = "streaming"
  BY DEF OpenStep
<1>2. \A s \in calling : s[1] \in Nat /\ s[1] <= turn
  BY DEF TypeOK, TurnTypeOK, StepInv, StepOwned
<1>3. \A s \in calling' : s[1] <= turn' /\ s[2] # 0
  BY <1>1, <1>2 DEF StepInv, TypeOK, TurnTypeOK
<1> QED BY <1>1, <1>3 DEF StepInv, StepOwned

\* Going idle leaves no step to own a request.
LEMMA GoIdleOwns ==
  ASSUME StepInv, NEW asked \in SUBSET calling, GoIdle(asked)
  PROVE  StepInv'
BY DEF GoIdle, GoIdleAt, StepInv, StepOwned

\* Finishing a turn keeps the steps owned, whether it rolls over or not.
LEMMA FinishTurnOwns ==
  ASSUME TypeOK, StepInv, NEW asked \in SUBSET calling, NEW before, NEW outcome,
         FinishTurn(before, outcome, asked)
  PROVE  StepInv'
<1>1. CASE GoIdle(asked)
  BY <1>1, GoIdleOwns
<1>2. CASE OpenStep(turn + 1, 1, asked)
  <2>1. turn + 1 \in Nat /\ turn + 1 >= turn /\ 1 \in 1..MaxSteps
    BY BoundsAssumption DEF TypeOK, TurnTypeOK
  <2> QED BY <1>2, <2>1, OpenStepOwns
<1> QED BY <1>1, <1>2 DEF FinishTurn

\* The last answer of a batch keeps the steps owned.
LEMMA AnsweredOwns ==
  ASSUME TypeOK, StepInv, NEW c, NEW recs, Answered(c, recs)
  PROVE  StepInv'
<1>1. CASE FinishTurn(recs, "step_budget_reached", calling)
  BY <1>1, FinishTurnOwns
<1>2. CASE ~BudgetSpent /\ OpenStep(turn, step + 1, calling)
  <2>1. step + 1 \in 1..MaxSteps /\ turn \in Nat /\ turn >= turn
    BY <1>2, BoundsAssumption DEF TypeOK, TurnTypeOK, BudgetSpent
  <2> QED BY <1>2, <2>1, OpenStepOwns
<1>3. CASE UNCHANGED <<turnVars, calling>>
  BY <1>3 DEF StepInv, StepOwned, turnVars
<1> QED BY <1>1, <1>2, <1>3 DEF Answered, NextStep

\* Every step of the machine keeps the steps owned.
LEMMA StepNext == TypeOK /\ StepInv /\ [Next]_vars => StepInv'
<1> SUFFICES ASSUME TypeOK, StepInv, [Next]_vars PROVE StepInv'
  OBVIOUS
<1>0. calling \in SUBSET calling /\ \A s : calling \ {s} \in SUBSET calling
  OBVIOUS
<1>1. CASE UserInput
  <2>1. CASE SubmitIdle \/ StartCollaborationTurn
    <3>1. OpenStep(turn + 1, 1, calling)
      BY <2>1 DEF SubmitIdle, StartCollaborationTurn
    <3>2. turn + 1 \in Nat /\ turn + 1 >= turn /\ 1 \in 1..MaxSteps
      BY BoundsAssumption DEF TypeOK, TurnTypeOK
    <3> QED BY <1>0, <3>1, <3>2, OpenStepOwns
  <2>2. CASE SubmitRunning \/ Steer \/ Withdraw
    BY <2>2 DEF SubmitRunning, Steer, Withdraw, StepInv, StepOwned, turnVars
  <2> QED BY <1>1, <2>1, <2>2 DEF UserInput
<1>2. ASSUME NEW s \in calling, ModelInput(s) PROVE StepInv'
  <2>1. ASSUME NEW c \in Calls, ModelCalls(s, c) PROVE StepInv'
    <3>1. CASE GoIdle(calling)
      BY <1>0, <3>1, GoIdleOwns
    <3>2. CASE UNCHANGED <<phase, turn, step, calling>>
      BY <3>2 DEF StepInv, StepOwned
    <3> QED BY <2>1, <3>1, <3>2 DEF ModelCalls, AbortTurn
  <2>2. CASE ModelStops(s)
    <3>1. CASE calling' = calling \ {s} /\ Dispatch(AssistantOutput(turn, step, calls))
      <4>1. s = <<turn, step>> /\ phase' = "working" /\ UNCHANGED <<turn, step>>
        BY <2>2, <3>1 DEF ModelStops, Accepts, Dispatch
      <4> QED BY <3>1, <4>1 DEF StepInv, StepOwned
    <3>2. CASE \E spoke \in BOOLEAN : FinishTurn(Retained(spoke), "completed", calling \ {s})
      BY <1>0, <3>2, FinishTurnOwns
    <3> QED BY <2>2, <3>1, <3>2 DEF ModelStops
  <2>3. CASE ModelFails(s)
    BY <1>0, <2>3, GoIdleOwns DEF ModelFails, AbortTurn
  <2>4. CASE LateModelInput(s)
    BY <2>4 DEF LateModelInput, Accepts, StepInv, StepOwned, turnVars
  <2> QED BY <1>2, <2>1, <2>2, <2>3, <2>4 DEF ModelInput
<1>3. ASSUME NEW c \in Calls, UserDecision(c) \/ ToolInput(c) \/ GrantRemembered(c) PROVE StepInv'
  <2>1. CASE UNCHANGED <<turnVars, calling>>
    BY <2>1 DEF StepInv, StepOwned, turnVars
  <2>2. CASE \E recs : Answered(c, recs)
    BY <2>2, AnsweredOwns
  <2>3. UserDecision(c) => UNCHANGED <<turnVars, calling>> \/ \E recs : Answered(c, recs)
    BY DEF UserDecision, Deny, AllowOnce, AllowAndRemember
  <2>4. ToolInput(c) => UNCHANGED <<turnVars, calling>> \/ \E recs : Answered(c, recs)
    BY DEF ToolInput, AdmissionResolved, LateAdmission, ToolFinished, LateToolResult,
           PermissionPrepared, LatePermission
  <2>5. GrantRemembered(c) => UNCHANGED <<turnVars, calling>>
    BY DEF GrantRemembered
  <2> QED BY <1>3, <2>1, <2>2, <2>3, <2>4, <2>5
<1>4. CASE PermissionsChanged \/ PolicyChanges \/ UNCHANGED vars
  BY <1>4 DEF PermissionsChanged, PolicyChanges, StepInv, StepOwned, turnVars, vars
<1>5. ASSUME NEW outcome, Stop(outcome) PROVE StepInv'
  BY <1>0, <1>5, GoIdleOwns DEF Stop, AbortTurn
<1> QED BY <1>1, <1>2, <1>3, <1>4, <1>5 DEF Next

LEMMA StepInit == Init => StepInv
BY DEF Init, StepInv, StepOwned

\* The active step is always the one whose request is outstanding, and a request
\* that ended or was given up never becomes active again (model_input.rs,
\* accepts_model_input): no late answer is taken for a newer step.
THEOREM StepOwnership == Spec => []StepOwned
<1>1. StepInv => StepOwned
  BY DEF StepInv
<1> QED BY <1>1, StepInit, StepNext, TypeCorrect, PTL DEF Spec
-----------------------------------------------------------------------------
(* The queued inputs.                                                      *)

\* No two entries arrived at once, so an order names its entry.
LEMMA OrderNamesEntry ==
  ASSUME InputsConserved, NEW e \in queue, NEW S \in SUBSET queue, e.order \in Orders(S)
  PROVE  e \in S
BY DEF InputsConserved, Orders

\* Steering that is waiting and input that waits for a turn are all there is.
LEMMA QueueSplits ==
  ASSUME InputsTypeOK
  PROVE  queue = Waiting("next_step") \cup Waiting("next_turn")
BY DEF InputsTypeOK, Waiting, Boundaries

\* The input a new turn takes is the oldest of those that wait for one.
LEMMA OldestWaits ==
  ASSUME InputsTypeOK, Waiting("next_turn") # {}
  PROVE  /\ Oldest(Waiting("next_turn")) \in Waiting("next_turn")
         /\ \A f \in Waiting("next_turn") : Oldest(Waiting("next_turn")).order <= f.order
<1>1. \A e \in Waiting("next_turn") : e.order \in Nat
  BY DEF Waiting, InputsTypeOK
<1> HIDE DEF Waiting
<1> QED BY <1>1, OldestIsFirst

\* Moving entries from the queue to the taken or the returned ones loses none.
LEMMA MovedConserves ==
  ASSUME InputsConserved, NEW T \in SUBSET queue, NEW R \in SUBSET queue, T \cap R = {},
         queue' = queue \ (T \cup R),
         delivered' = delivered \cup Orders(T),
         returned' = returned \cup Orders(R),
         nextOrder' = nextOrder,
         phase' = "idle" => queue' = {}
  PROVE  InputsConserved'
<1>1. Orders(queue)' \cup Orders(T) \cup Orders(R) = Orders(queue)
  BY DEF Orders
<1>2. /\ Orders(queue)' \cap Orders(T) = {}
      /\ Orders(queue)' \cap Orders(R) = {}
      /\ Orders(T) \cap Orders(R) = {}
  BY DEF Orders, InputsConserved
<1>3. \A e, f \in queue' : e.order = f.order => e = f
  BY DEF InputsConserved
<1> QED BY <1>1, <1>2, <1>3 DEF InputsConserved

\* Finishing a turn takes the oldest input and hands back undelivered steering.
LEMMA FinishTurnConserves ==
  ASSUME TypeOK, InputsConserved, NEW asked, NEW before, NEW outcome,
         FinishTurn(before, outcome, asked)
  PROVE  InputsConserved' /\ TakesInOrder
<1> DEFINE next  == Waiting("next_turn")
           old   == Oldest(next)
           steer == Waiting("next_step")
<1>1. queue = steer \cup next /\ steer \cap next = {} /\ steer \subseteq queue /\ next \subseteq queue
  BY QueueSplits DEF TypeOK, Waiting
<1>2. returned' = returned \cup Orders(steer) /\ nextOrder' = nextOrder
  BY DEF FinishTurn
<1>3. CASE next = {}
  <2>1. queue' = {} /\ delivered' = delivered
    BY <1>3 DEF FinishTurn
  <2>2. queue' = queue \ ({} \cup steer) /\ delivered' = delivered \cup Orders({})
    BY <1>1, <1>3, <2>1 DEF Orders
  <2>3. InputsConserved'
    <3> HIDE DEF next, steer
    <3> QED BY <1>1, <1>2, <2>1, <2>2, MovedConserves
  <2> QED BY <2>1, <2>3 DEF TakesInOrder
<1>4. CASE next # {}
  <2>1. /\ queue' = next \ {old} /\ delivered' = delivered \cup {old.order}
        /\ phase' = "streaming" /\ turn' = turn + 1 /\ step' = 1
    BY <1>4 DEF FinishTurn, OpenStep
  <2>2. old \in next /\ \A f \in next : old.order <= f.order
    BY <1>4, OldestWaits DEF TypeOK
  <2>3. Orders({old}) = {old.order}
    BY DEF Orders
  <2> HIDE DEF old, next, steer
  <2>4. InputsConserved'
    <3>1. queue' = queue \ ({old} \cup steer)
      BY <1>1, <2>1, <2>2
    <3> QED BY <1>1, <1>2, <2>1, <2>2, <2>3, <3>1, MovedConserves
  <2>5. TakesInOrder
    <3> SUFFICES ASSUME NEW e \in queue, e.order \in delivered' \ delivered
                 PROVE  /\ \A f \in Waiting(e.boundary) : f.order < e.order => f.order \in delivered'
                        /\ e.boundary = "next_step" => turn' = turn /\ step' = step + 1
                        /\ e.boundary = "next_turn" => turn' = turn + 1 /\ step' = 1
      BY DEF TakesInOrder
    <3>1. e.order = old.order
      BY <2>1
    <3>2. e = old
      BY <1>1, <2>2, <2>3, <3>1, OrderNamesEntry
    <3>3. e.boundary = "next_turn"
      BY <2>2, <3>2 DEF next, Waiting
    <3>4. \A f \in next : f.order \in Nat /\ old.order \in Nat
      BY <1>1, <2>2 DEF TypeOK, InputsTypeOK
    <3>5. \A f \in Waiting(e.boundary) : ~ (f.order < e.order)
      BY <2>2, <3>2, <3>3, <3>4 DEF next
    <3> QED BY <2>1, <3>3, <3>5
  <2> QED BY <2>4, <2>5
<1> QED BY <1>3, <1>4

\* The last answer of a batch delivers the steering that waited for it.
LEMMA AnsweredConserves ==
  ASSUME TypeOK, InputsConserved, NEW c, NEW recs, Answered(c, recs)
  PROVE  InputsConserved' /\ TakesInOrder
<1> DEFINE steer == Waiting("next_step")
<1>1. CASE FinishTurn(recs, "step_budget_reached", calling)
  BY <1>1, FinishTurnConserves
<1>2. CASE /\ OpenStep(turn, step + 1, calling)
           /\ queue' = queue \ steer
           /\ delivered' = delivered \cup Orders(steer)
           /\ UNCHANGED <<nextOrder, returned>>
  <2>1. phase' = "streaming" /\ turn' = turn /\ step' = step + 1
    BY <1>2 DEF OpenStep
  <2>2. steer \in SUBSET queue /\ \A e \in steer : e.boundary = "next_step"
    BY DEF Waiting
  <2>3. InputsConserved'
    <3>1. queue' = queue \ (steer \cup {}) /\ returned' = returned \cup Orders({})
      BY <1>2 DEF Orders
    <3> HIDE DEF steer
    <3> QED BY <1>2, <2>1, <2>2, <3>1, MovedConserves
  <2>4. TakesInOrder
    <3> SUFFICES ASSUME NEW e \in queue, e.order \in delivered' \ delivered
                 PROVE  /\ \A f \in Waiting(e.boundary) : f.order < e.order => f.order \in delivered'
                        /\ e.boundary = "next_step" => turn' = turn /\ step' = step + 1
                        /\ e.boundary = "next_turn" => turn' = turn + 1 /\ step' = 1
      BY DEF TakesInOrder
    <3>1. e \in steer
      <4> HIDE DEF steer
      <4> QED BY <1>2, <2>2, OrderNamesEntry
    <3>2. \A f \in steer : f.order \in delivered'
      BY <1>2 DEF Orders
    <3> QED BY <2>1, <2>2, <3>1, <3>2
  <2> QED BY <2>3, <2>4
<1>3. CASE UNCHANGED <<turnVars, inputVars>>
  BY <1>3 DEF InputsConserved, TakesInOrder, Orders, turnVars, inputVars
<1> QED BY <1>1, <1>2, <1>3 DEF Answered, NextStep

\* Stopping a turn hands everything back.
LEMMA AbortTurnConserves ==
  ASSUME TypeOK, InputsConserved, NEW outcome, NEW spoke, NEW asked,
         AbortTurn(outcome, spoke, asked)
  PROVE  InputsConserved' /\ TakesInOrder
<1>1. /\ queue' = queue \ ({} \cup queue) /\ delivered' = delivered \cup Orders({})
      /\ returned' = returned \cup Orders(queue) /\ nextOrder' = nextOrder
      /\ queue' = {} /\ delivered' = delivered
  BY DEF AbortTurn, Orders
<1>2. InputsConserved'
  BY <1>1, MovedConserves
<1> QED BY <1>1, <1>2 DEF TakesInOrder

\* Queueing adds the newest input while a turn is open.
LEMMA EnqueueConserves ==
  ASSUME TypeOK, InputsConserved, NEW b \in Boundaries, Enqueue(b), phase' # "idle"
  PROVE  InputsConserved' /\ TakesInOrder
<1>1. CASE UNCHANGED inputVars
  BY <1>1 DEF InputsConserved, TakesInOrder, Orders, inputVars
<1>2. CASE /\ queue' = queue \cup {[order |-> nextOrder, boundary |-> b]}
           /\ nextOrder' = nextOrder + 1
           /\ UNCHANGED <<delivered, returned>>
  <2>1. Orders(queue)' = Orders(queue) \cup {nextOrder}
    <3> DEFINE new == [order |-> nextOrder, boundary |-> b]
    <3>1. queue' = queue \cup {new} /\ new.order = nextOrder
      BY <1>2
    <3> HIDE DEF new
    <3> QED BY <3>1 DEF Orders
  <2>2. nextOrder \in Nat /\ 0..(nextOrder' - 1) = 0..(nextOrder - 1) \cup {nextOrder}
    BY <1>2 DEF TypeOK, InputsTypeOK
  <2>3. nextOrder \notin Orders(queue) /\ nextOrder \notin delivered /\ nextOrder \notin returned
    BY <2>2 DEF TypeOK, InputsTypeOK, Orders
  <2>4. \A e, f \in queue' : e.order = f.order => e = f
    <3>1. \A e \in queue : e.order # nextOrder
      BY <2>3 DEF Orders
    <3> QED BY <1>2, <3>1 DEF InputsConserved
  <2>5. delivered' = delivered /\ returned' = returned
    BY <1>2
  <2>6. Orders(queue)' \cup delivered' \cup returned' = 0..(nextOrder' - 1)
    BY <2>1, <2>2, <2>5 DEF InputsConserved
  <2>7. /\ Orders(queue)' \cap delivered' = {}
        /\ Orders(queue)' \cap returned' = {}
        /\ delivered' \cap returned' = {}
    BY <2>1, <2>3, <2>5 DEF InputsConserved
  <2>8. InputsConserved'
    BY <2>4, <2>6, <2>7 DEF InputsConserved
  <2> QED BY <2>5, <2>8 DEF TakesInOrder
<1> QED BY <1>1, <1>2 DEF Enqueue

\* The user takes back the newest input (withdraw_last).
LEMMA WithdrawConserves ==
  ASSUME TypeOK, InputsConserved, Withdraw
  PROVE  InputsConserved' /\ TakesInOrder
<1> DEFINE last == Newest(queue)
<1>1. nextOrder - 1 \in Nat /\ \A e \in queue : e.order \in 0..(nextOrder - 1)
  BY DEF Withdraw, TypeOK, InputsTypeOK
<1>2. last \in queue
  BY <1>1, NewestIsMember DEF Withdraw
<1>3. /\ queue' = queue \ {last} /\ returned' = returned \cup {last.order}
      /\ UNCHANGED <<phase, nextOrder, delivered>>
  BY DEF Withdraw, turnVars
<1> HIDE DEF last
<1>4. queue' = queue \ ({} \cup {last}) /\ delivered' = delivered \cup Orders({})
      /\ returned' = returned \cup Orders({last}) /\ nextOrder' = nextOrder
  BY <1>3 DEF Orders
<1>5. phase' = "idle" => queue' = {}
  BY <1>3 DEF InputsConserved
<1>6. InputsConserved'
  BY <1>2, <1>4, <1>5, MovedConserves
<1> QED BY <1>3, <1>6 DEF TakesInOrder

\* Every step of the machine accounts for the inputs and takes them in order.
LEMMA InputsNext == TypeOK /\ InputsConserved /\ [Next]_vars => InputsConserved' /\ TakesInOrder
<1> SUFFICES ASSUME TypeOK, InputsConserved, [Next]_vars PROVE InputsConserved' /\ TakesInOrder
  OBVIOUS
<1>0. ASSUME UNCHANGED <<phase, inputVars>> PROVE InputsConserved' /\ TakesInOrder
  BY <1>0 DEF InputsConserved, TakesInOrder, Orders, inputVars
<1>1. CASE UserInput
  <2>1. CASE SubmitIdle \/ StartCollaborationTurn
    <3>1. UNCHANGED inputVars /\ phase = "idle" /\ phase' = "streaming"
      BY <2>1 DEF SubmitIdle, StartCollaborationTurn, OpenStep
    <3> QED BY <3>1 DEF InputsConserved, TakesInOrder, Orders, inputVars
  <2>2. CASE SubmitRunning \/ Steer
    <3>1. phase' # "idle" /\ \E b \in Boundaries : Enqueue(b)
      BY <2>2 DEF SubmitRunning, Steer, turnVars, Boundaries
    <3> QED BY <3>1, EnqueueConserves
  <2>3. CASE Withdraw
    BY <2>3, WithdrawConserves
  <2> QED BY <1>1, <2>1, <2>2, <2>3 DEF UserInput
<1>2. ASSUME NEW s \in calling, ModelInput(s) PROVE InputsConserved' /\ TakesInOrder
  <2>1. CASE \E outcome, spoke, asked : AbortTurn(outcome, spoke, asked)
    BY <2>1, AbortTurnConserves
  <2>2. CASE \E before, outcome, asked : FinishTurn(before, outcome, asked)
    BY <2>2, FinishTurnConserves
  <2>3. CASE \E c \in Calls : ModelCalls(s, c)
    <3>1. \A c \in Calls : ModelCalls(s, c) =>
             UNCHANGED <<phase, inputVars>> \/ \E outcome, spoke, asked : AbortTurn(outcome, spoke, asked)
      BY DEF ModelCalls
    <3> QED BY <1>0, <2>1, <2>3, <3>1
  <2>4. CASE ModelStops(s)
    <3>1. CASE Dispatch(AssistantOutput(turn, step, calls))
      <4>1. UNCHANGED inputVars /\ phase = "streaming" /\ phase' = "working"
        BY <2>4, <3>1 DEF ModelStops, Accepts, Dispatch
      <4> QED BY <4>1 DEF InputsConserved, TakesInOrder, Orders, inputVars
    <3> QED BY <2>2, <2>4, <3>1 DEF ModelStops
  <2>5. CASE ModelFails(s)
    BY <2>1, <2>5 DEF ModelFails
  <2>6. CASE LateModelInput(s)
    BY <1>0, <2>6 DEF LateModelInput, turnVars
  <2> QED BY <1>2, <2>3, <2>4, <2>5, <2>6 DEF ModelInput
<1>3. ASSUME NEW c \in Calls, UserDecision(c) \/ ToolInput(c) \/ GrantRemembered(c)
      PROVE  InputsConserved' /\ TakesInOrder
  <2>1. CASE \E recs : Answered(c, recs)
    BY <2>1, AnsweredConserves
  <2>2. UserDecision(c) => UNCHANGED <<phase, inputVars>> \/ \E recs : Answered(c, recs)
    BY DEF UserDecision, Deny, AllowOnce, AllowAndRemember, turnVars
  <2>3. ToolInput(c) => UNCHANGED <<phase, inputVars>> \/ \E recs : Answered(c, recs)
    BY DEF ToolInput, AdmissionResolved, LateAdmission, ToolFinished, LateToolResult,
           PermissionPrepared, LatePermission, turnVars
  <2>4. GrantRemembered(c) => UNCHANGED <<phase, inputVars>>
    BY DEF GrantRemembered, turnVars
  <2> QED BY <1>0, <1>3, <2>1, <2>2, <2>3, <2>4
<1>4. CASE PermissionsChanged \/ PolicyChanges \/ UNCHANGED vars
  BY <1>0, <1>4 DEF PermissionsChanged, PolicyChanges, turnVars, vars
<1>5. ASSUME NEW outcome, Stop(outcome) PROVE InputsConserved' /\ TakesInOrder
  BY <1>5, AbortTurnConserves DEF Stop
<1> QED BY <1>1, <1>2, <1>3, <1>4, <1>5 DEF Next

\* There is nothing to account for at the start.
LEMMA InputsInit == Init => InputsConserved
BY DEF Init, InputsConserved, Orders

\* Whatever ends a turn (completion, the step budget, a failure, an interrupt or a
\* shutdown), every queued input is waiting, taken or handed back, exactly once.
THEOREM InputsAreConserved == Spec => []InputsConserved
BY InputsInit, InputsNext, TypeCorrect, PTL DEF Spec

\* Inputs are taken in arrival order at the boundary they waited for, and steering
\* never outlives the turn it steered.
THEOREM InputsTakenInOrder == Spec => TakenInOrder
<1>1. TypeOK /\ InputsConserved /\ [Next]_vars => [TakesInOrder]_vars
  BY InputsNext
<1> QED BY <1>1, InputsAreConserved, TypeCorrect, PTL DEF Spec, TakenInOrder

-----------------------------------------------------------------------------
(* Model steps and tool work.                                              *)

\* A reaction that opens a model step dispatches no tool work with it, so the
\* runtime never refuses a reaction (transition.rs, ModelStartedWithToolWork).
THEOREM ModelStepsStartAlone == Spec => ModelStartsAlone
<1>1. ASSUME TypeOK, [Next]_vars PROVE StartsAlone
  <2>1. CASE UNCHANGED calling
    BY <2>1 DEF StartsAlone
  <2>2. CASE calling' \subseteq calling
    BY <2>2 DEF StartsAlone
  <2>3. CASE UNCHANGED toolVars
    BY <2>3 DEF StartsAlone, toolVars
  <2>4. UserInput => UNCHANGED toolVars
    BY DEF UserInput, SubmitIdle, SubmitRunning, Steer, Withdraw, StartCollaborationTurn
  <2>5. ASSUME NEW s \in calling, ModelInput(s) PROVE StartsAlone
    <3>1. ModelInput(s) => UNCHANGED toolVars \/ calling' = calling \ {s}
      BY DEF ModelInput, ModelCalls, ModelStops, ModelFails, LateModelInput
    <3> QED BY <2>2, <2>3, <2>5, <3>1
  <2>6. ASSUME NEW c \in Calls, UserDecision(c) PROVE StartsAlone
    <3>1. UserDecision(c) => UNCHANGED toolVars \/ UNCHANGED calling
      BY DEF UserDecision, Deny, AllowOnce, AllowAndRemember
    <3> QED BY <2>1, <2>3, <2>6, <3>1
  <2>7. ASSUME NEW c \in Calls, ToolInput(c) PROVE StartsAlone
    <3>1. CASE UNCHANGED <<running, preparing>> /\ admitting' = admitting \ {c}
      BY <3>1 DEF StartsAlone
    <3>2. CASE UNCHANGED <<admitting, preparing>> /\ running' = running \ {c}
      BY <3>2 DEF StartsAlone
    <3>3. AdmissionResolved(c) =>
             UNCHANGED calling \/ (UNCHANGED <<running, preparing>> /\ admitting' = admitting \ {c})
      BY DEF AdmissionResolved
    <3>4. ToolFinished(c) => UNCHANGED <<admitting, preparing>> /\ running' = running \ {c}
      BY DEF ToolFinished
    <3>5. LateAdmission(c) \/ LateToolResult(c) \/ PermissionPrepared(c) \/ LatePermission(c)
            => UNCHANGED calling
      BY DEF LateAdmission, LateToolResult, PermissionPrepared, LatePermission
    <3> QED BY <2>1, <2>7, <3>1, <3>2, <3>3, <3>4, <3>5 DEF ToolInput
  <2>8. (\E c \in Calls : GrantRemembered(c)) \/ PermissionsChanged \/ PolicyChanges \/ UNCHANGED vars
          => UNCHANGED calling
    BY DEF GrantRemembered, PermissionsChanged, PolicyChanges, vars
  <2>9. \A outcome : Stop(outcome) => UNCHANGED toolVars
    BY DEF Stop
  <2> QED BY <1>1, <2>1, <2>3, <2>4, <2>5, <2>6, <2>7, <2>8, <2>9 DEF Next
<1>2. TypeOK /\ [Next]_vars => [StartsAlone]_vars
  BY <1>1
<1> QED BY <1>2, TypeCorrect, PTL DEF Spec, ModelStartsAlone
-----------------------------------------------------------------------------
(* Tool authorization.                                                     *)

\* A release starts only what was decided or what the policy now allows.
LEMMA ReleaseAuthorizes ==
  ASSUME TypeOK, NEW first \in SUBSET Calls, NEW auth, Release(first, auth),
         \A c \in first : Authorizes(auth, c)
  PROVE  StartsAuthorized
<1> SUFFICES ASSUME NEW c \in running' \ running PROVE Authorizes(authority'[c], c)
  BY DEF StartsAuthorized
<1>1. c \in first \/ (c \in Calls /\ Releasable(c))
  BY DEF Release
<1>2. CASE c \in first
  BY <1>2 DEF Release
<1>3. CASE c \notin first
  BY <1>1, <1>3 DEF Release, Releasable, Authorizes
<1> QED BY <1>2, <1>3

\* Starting one call with its authority starts nothing else.
LEMMA RunAuthorizes ==
  ASSUME TypeOK, NEW c \in Calls, NEW auth, Run(c, auth), Authorizes(auth, c)
  PROVE  StartsAuthorized
<1>1. authority'[c] = auth /\ running' \ running \subseteq {c}
  BY DEF Run, TypeOK, ToolsTypeOK
<1> QED BY <1>1 DEF StartsAuthorized

\* Each way a step can start a tool, and the authority it starts it with.
LEMMA StartsNext ==
  ASSUME TypeOK, [Next]_vars
  PROVE  StartsAuthorized
<1>1. CASE running' \subseteq running
  BY <1>1 DEF StartsAuthorized
<1>2. UserInput \/ (\E s \in calling : ModelInput(s)) => UNCHANGED running
  BY DEF UserInput, SubmitIdle, SubmitRunning, Steer, Withdraw, StartCollaborationTurn,
         ModelInput, ModelCalls, ModelStops, ModelFails, LateModelInput, Dispatch, toolVars
<1>3. ASSUME NEW c \in Calls, UserDecision(c) PROVE StartsAuthorized
  <2>1. CASE AllowOnce(c) /\ Decide(c) \notin {"forbidden", "unavailable"} /\ Run(c, "once")
    BY <2>1, RunAuthorizes DEF Authorizes
  <2>2. UserDecision(c) => \/ UNCHANGED running
                           \/ AllowOnce(c) /\ Decide(c) \notin {"forbidden", "unavailable"}
                                           /\ Run(c, "once")
    BY DEF UserDecision, Deny, AllowOnce, AllowAndRemember, toolVars
  <2> QED BY <1>1, <1>3, <2>1, <2>2
<1>4. ASSUME NEW c \in Calls, AdmissionResolved(c) PROVE StartsAuthorized
  <2>1. CASE Decide(c) = "allow" /\ Run(c, "policy")
    BY <2>1, RunAuthorizes DEF Authorizes
  <2>2. UNCHANGED running \/ (Decide(c) = "allow" /\ Run(c, "policy"))
    BY <1>4 DEF AdmissionResolved
  <2> QED BY <1>1, <2>1, <2>2
<1>5. ASSUME NEW c \in Calls, PermissionPrepared(c) PROVE StartsAuthorized
  <2>1. CASE c \in granted /\ Decide(c) = "allow" /\ Release({c}, "remembered")
    BY <2>1, ReleaseAuthorizes DEF Authorizes
  <2> QED BY <1>1, <1>5, <2>1 DEF PermissionPrepared
<1>6. ASSUME NEW c \in Calls, ToolInput(c) PROVE StartsAuthorized
  <2>1. LateAdmission(c) \/ ToolFinished(c) \/ LateToolResult(c) \/ LatePermission(c)
          => running' \subseteq running
    BY DEF LateAdmission, ToolFinished, LateToolResult, LatePermission
  <2> QED BY <1>1, <1>4, <1>5, <1>6, <2>1 DEF ToolInput
<1>7. CASE PermissionsChanged
  BY <1>7, ReleaseAuthorizes DEF PermissionsChanged
<1>8. (\E c \in Calls : GrantRemembered(c)) \/ PolicyChanges \/ UNCHANGED vars
        => UNCHANGED running
  BY DEF GrantRemembered, PolicyChanges, toolVars, vars
<1>9. \A outcome : Stop(outcome) => UNCHANGED running
  BY DEF Stop, toolVars
<1> QED BY <1>1, <1>2, <1>3, <1>6, <1>7, <1>8, <1>9 DEF Next

\* Every tool the agent starts is started under an authorization that the policy
\* in force at that very input supports: an allowing rule, an approval no newer
\* rule overrules, or a remembered grant the owner committed (permission.rs).
THEOREM ToolsStartAuthorized == Spec => RunsAuthorized
<1>1. TypeOK /\ [Next]_vars => [StartsAuthorized]_vars
  BY StartsNext
<1> QED BY <1>1, TypeCorrect, PTL DEF Spec, RunsAuthorized

-----------------------------------------------------------------------------
(* How the view of a journal changes record by record, and what replaying a *)
(* sequence of records comes to.                                            *)

Tools == [status : ToolStatus, requested : BOOLEAN, permission : ToolStatus,
          attention : BOOLEAN]

Journals ==
  [turns : Nat, open : Nat, step : Nat, agent : AgentStatus, pending : Seq(Calls),
   tool : [Calls -> Tools], markers : Nat, sound : BOOLEAN]

Outcomes == {"completed", "failed", "interrupted", "shutdown", "step_budget_reached",
             "process_died"}

Records ==
  [kind : {"turn_started", "collaboration_turn_started", "steering_accepted"}, turn : Nat]
  \cup [kind : {"turn_status_changed"}, turn : Nat, status : AgentStatus]
  \cup [kind : {"assistant_output"}, turn : Nat, step : Nat, calls : Seq(Calls)]
  \cup [kind : {"tool_call_requested", "tool_permission_decided", "attention_requested",
                "attention_resolved"}, call : Calls]
  \cup [kind : {"tool_call_changed"}, call : Calls, status : ToolStatus]
  \cup [kind : {"turn_finished"}, turn : Nat, outcome : Outcomes]
  \cup [kind : {"turn_interrupted_by_recovery"}]

\* A view with one part changed is a view.
LEMMA Updated ==
  ASSUME NEW j \in Journals
  PROVE  /\ \A n \in Nat : /\ [j EXCEPT !.turns = n] \in Journals
                          /\ [j EXCEPT !.open = n] \in Journals
                          /\ [j EXCEPT !.step = n] \in Journals
                          /\ [j EXCEPT !.markers = n] \in Journals
         /\ \A s \in AgentStatus : [j EXCEPT !.agent = s] \in Journals
         /\ \A p \in Seq(Calls) : [j EXCEPT !.pending = p] \in Journals
         /\ \A t \in [Calls -> Tools] : [j EXCEPT !.tool = t] \in Journals
         /\ [j EXCEPT !.sound = FALSE] \in Journals
<1>1. \A n \in Nat : [j EXCEPT !.turns = n] \in Journals /\ [j EXCEPT !.open = n] \in Journals
  BY DEF Journals
<1>2. \A n \in Nat : [j EXCEPT !.step = n] \in Journals /\ [j EXCEPT !.markers = n] \in Journals
  BY DEF Journals
<1>3. \A s \in AgentStatus : [j EXCEPT !.agent = s] \in Journals
  BY DEF Journals
<1>4. \A p \in Seq(Calls) : [j EXCEPT !.pending = p] \in Journals
  BY DEF Journals
<1>5. \A t \in [Calls -> Tools] : [j EXCEPT !.tool = t] \in Journals
  BY DEF Journals
<1>6. [j EXCEPT !.sound = FALSE] \in Journals
  BY DEF Journals
<1> QED BY <1>1, <1>2, <1>3, <1>4, <1>5, <1>6

LEMMA ToolUpdated ==
  ASSUME NEW j \in Journals, NEW c \in Calls, NEW u \in Tools
  PROVE  [j EXCEPT !.tool[c] = u] \in Journals
BY DEF Journals

LEMMA Empty == <<>> \in Seq(Calls)
OBVIOUS

\* A view in which a turn starts, or ends, is a view.
LEMMA StartTyped ==
  ASSUME NEW j \in Journals, NEW t \in Nat
  PROVE  StartTurn(j, t) \in Journals
<1> DEFINE j1 == [j EXCEPT !.turns = t]
           j2 == [j1 EXCEPT !.open = t]
           j3 == [j2 EXCEPT !.step = 0]
           j4 == [j3 EXCEPT !.agent = "running"]
           j5 == [j4 EXCEPT !.pending = <<>>]
           j6 == [j5 EXCEPT !.markers = 0]
<1>1. j2 \in Journals
  <2>1. j1 \in Journals
    BY Updated
  <2> HIDE DEF j1
  <2> QED BY <2>1, Updated
<1>2. j4 \in Journals
  <2> HIDE DEF j2
  <2>1. j3 \in Journals
    BY <1>1, Updated
  <2> HIDE DEF j3
  <2> QED BY <2>1, Updated DEF AgentStatus
<1>3. j6 \in Journals
  <2> HIDE DEF j4
  <2>1. j5 \in Journals
    BY <1>2, Empty, Updated
  <2> HIDE DEF j5
  <2> QED BY <2>1, Updated
<1>4. StartTurn(j, t) = j6
  BY DEF StartTurn, Journals
<1> QED BY <1>3, <1>4

LEMMA FinishTyped ==
  ASSUME NEW j \in Journals
  PROVE  [j EXCEPT !.open = 0, !.agent = "idle", !.pending = <<>>] \in Journals
<1> DEFINE j1 == [j EXCEPT !.open = 0]
           j2 == [j1 EXCEPT !.agent = "idle"]
           j3 == [j2 EXCEPT !.pending = <<>>]
<1>1. j1 \in Journals
  BY Updated
<1>2. j2 \in Journals
  <2> HIDE DEF j1
  <2> QED BY <1>1, Updated DEF AgentStatus
<1>3. j3 \in Journals
  <2> HIDE DEF j2
  <2> QED BY <1>2, Empty, Updated
<1>4. [j EXCEPT !.open = 0, !.agent = "idle", !.pending = <<>>] = j3
  BY DEF Journals
<1> QED BY <1>3, <1>4

\* The view after an output: its calls are queued.
Queued(j, cs) ==
  [c \in Calls |-> IF \E i \in DOMAIN cs : cs[i] = c
                  THEN [Unknown EXCEPT !.status = "queued"] ELSE j.tool[c]]

LEMMA OutputTyped ==
  ASSUME NEW j \in Journals, NEW n \in Nat, NEW cs \in Seq(Calls)
  PROVE  [j EXCEPT !.step = n, !.pending = cs, !.tool = Queued(j, cs)] \in Journals
<1> DEFINE j1 == [j EXCEPT !.step = n]
           j2 == [j1 EXCEPT !.pending = cs]
           j3 == [j2 EXCEPT !.tool = Queued(j, cs)]
<1>1. j2 \in Journals
  <2>1. j1 \in Journals
    BY Updated
  <2> HIDE DEF j1
  <2> QED BY <2>1, Updated
<1>2. Queued(j, cs) \in [Calls -> Tools]
  BY DEF Queued, Journals, Unknown, Tools, ToolStatus
<1>3. j3 \in Journals
  <2> HIDE DEF j2
  <2> QED BY <1>1, <1>2, Updated
<1>4. [j EXCEPT !.step = n, !.pending = cs, !.tool = Queued(j, cs)] = j3
  BY DEF Journals
<1> QED BY <1>3, <1>4

\* Every record leads from a view to a view.
LEMMA ApplyTyped ==
  ASSUME NEW j \in Journals, NEW r \in Records
  PROVE  Apply(j, r) \in Journals
<1>1. Fact(j, r) \in Journals
  <2>1. CASE r \in [kind : {"turn_started", "collaboration_turn_started"}, turn : Nat]
    BY <2>1, StartTyped DEF Fact
  <2>2. CASE r \in [kind : {"steering_accepted"}, turn : Nat]
    <3> DEFINE k == [j EXCEPT !.pending = <<>>]
    <3>1. k \in Journals
      BY Empty, Updated
    <3>2. [k EXCEPT !.markers = 0] \in Journals
      <4> HIDE DEF k
      <4> QED BY <3>1, Updated
    <3>3. Fact(j, r) = [k EXCEPT !.markers = 0]
      BY <2>2 DEF Fact, Journals
    <3> QED BY <3>2, <3>3
  <2>3. CASE r \in [kind : {"turn_status_changed"}, turn : Nat, status : AgentStatus]
    BY <2>3, Updated DEF Fact
  <2>4. CASE r \in [kind : {"assistant_output"}, turn : Nat, step : Nat, calls : Seq(Calls)]
    BY <2>4, OutputTyped DEF Fact, Queued
  <2>5. CASE r \in [kind : {"tool_call_requested", "tool_permission_decided",
                           "attention_requested", "attention_resolved"}, call : Calls]
    <3> DEFINE t == j.tool[r.call]
    <3> DEFINE u == CASE r.kind = "tool_call_requested" -> [t EXCEPT !.requested = TRUE]
                      [] r.kind = "tool_permission_decided" -> [t EXCEPT !.permission = t.status]
                      [] r.kind = "attention_requested" -> [t EXCEPT !.attention = TRUE]
                      [] r.kind = "attention_resolved" -> [t EXCEPT !.attention = FALSE]
    <3>1. Fact(j, r) = [j EXCEPT !.tool[r.call] = u]
      BY <2>5 DEF Fact
    <3>4. t \in Tools
      BY <2>5 DEF Journals
    <3>2. u \in Tools
      <4> HIDE DEF t
      <4> QED BY <2>5, <3>4 DEF Tools
    <3> HIDE DEF u
    <3>3. r.call \in Calls
      BY <2>5
    <3> QED BY <3>1, <3>2, <3>3, ToolUpdated
  <2>6. CASE r \in [kind : {"tool_call_changed"}, call : Calls, status : ToolStatus]
    <3> DEFINE u == [j.tool[r.call] EXCEPT !.status = r.status]
    <3>1. Fact(j, r) = [j EXCEPT !.tool[r.call] = u]
      BY <2>6 DEF Fact
    <3>2. u \in Tools
      BY <2>6 DEF Journals, Tools
    <3> HIDE DEF u
    <3>3. r.call \in Calls
      BY <2>6
    <3> QED BY <3>1, <3>2, <3>3, ToolUpdated
  <2>7. CASE r \in [kind : {"turn_finished"}, turn : Nat, outcome : Outcomes]
    BY <2>7, FinishTyped DEF Fact
  <2>8. CASE r \in [kind : {"turn_interrupted_by_recovery"}]
    <3>1. j.markers + 1 \in Nat
      BY DEF Journals
    <3> QED BY <2>8, <3>1, Updated DEF Fact
  <2> QED
    BY <2>1, <2>2, <2>3, <2>4, <2>5, <2>6, <2>7, <2>8 DEF Records
<1> QED BY <1>1, Updated DEF Apply

LEMMA EmptyTyped == EmptyJournal \in Journals
BY DEF EmptyJournal, Journals, Unknown, Tools, ToolStatus, AgentStatus

\* The views after each of the records.
LEMMA ReplayChain ==
  ASSUME NEW j \in Journals, NEW rs \in Seq(Records)
  PROVE  \E after \in [0..Len(rs) -> Journals] :
           /\ after[0] = j
           /\ \A n \in 1..Len(rs) : after[n] = Apply(after[n - 1], rs[n])
           /\ Replay(j, rs) = after[Len(rs)]
<1> DEFINE next == [p \in Nat \X Journals |->
                      IF p[1] \in 1..Len(rs) THEN Apply(p[2], rs[p[1]]) ELSE p[2]]
<1> DEFINE Def(g) == [n \in 0..Len(rs) |-> IF n = 0 THEN j ELSE Apply(g[n - 1], rs[n])]
<1> DEFINE a == CHOOSE g : g = Def(g)
<1>1. next \in [Nat \X Journals -> Journals]
  BY ApplyTyped
<1>2. PICK f : Follows(j, next, Journals, f)
  <2> HIDE DEF next
  <2> QED BY <1>1, PrimitiveRecursion
<1>3. ASSUME NEW n \in 1..Len(rs) PROVE f[n] = Apply(f[n - 1], rs[n])
  <2>1. n - 1 \in Nat /\ n = (n - 1) + 1
    OBVIOUS
  <2>2. f[n] = next[<<n, f[n - 1]>>]
    <3> HIDE DEF next
    <3> QED BY <1>2, <2>1 DEF Follows
  <2>3. f[n - 1] \in Journals
    BY <1>2, <2>1 DEF Follows
  <2> QED BY <2>1, <2>2, <2>3
<1> DEFINE h == [n \in 0..Len(rs) |-> f[n]]
<1>4. h = Def(h)
  <2>1. ASSUME NEW n \in 0..Len(rs)
        PROVE  h[n] = IF n = 0 THEN j ELSE Apply(h[n - 1], rs[n])
    BY <1>2, <1>3 DEF Follows
  <2> QED BY <2>1
<1>5. a = Def(a)
  <2> HIDE DEF h, Def
  <2> QED BY <1>4
<1>6. Replay(j, rs) = a[Len(rs)]
  BY DEF Replay
<1>7. /\ a \in [0..Len(rs) -> Journals]
      /\ a[0] = j
      /\ \A n \in 1..Len(rs) : a[n] = Apply(a[n - 1], rs[n])
  <2> HIDE DEF a
  <2>1. Len(rs) \in Nat
    OBVIOUS
  <2>2. a[0] = j /\ \A n \in 1..Len(rs) : a[n] = Apply(a[n - 1], rs[n])
    BY <1>5, <2>1
  <2> DEFINE T == {n \in Nat : n <= Len(rs) => a[n] \in Journals}
  <2>3. ASSUME NEW n \in T PROVE n + 1 \in T
    <3>1. CASE n + 1 <= Len(rs)
      <4>1. a[n] \in Journals /\ a[n + 1] = Apply(a[n], rs[n + 1]) /\ rs[n + 1] \in Records
        BY <2>2, <3>1
      <4> QED BY <4>1, ApplyTyped
    <3> QED BY <3>1
  <2>4. T = Nat
    <3>1. T \in SUBSET Nat /\ 0 \in T
      BY <2>2
    <3> HIDE DEF T
    <3> QED BY <2>3, <3>1, AllNaturals
  <2>5. a \in [0..Len(rs) -> Journals]
    <3>1. \A n \in 0..Len(rs) : Def(a)[n] \in Journals
      <4> HIDE DEF Def
      <4> QED BY <1>5, <2>1, <2>4
    <3> QED BY <1>5, <3>1
  <2> QED BY <2>2, <2>5
<1> HIDE DEF a
<1> QED BY <1>6, <1>7

LEMMA ReplayTyped ==
  ASSUME NEW j \in Journals, NEW rs \in Seq(Records)
  PROVE  Replay(j, rs) \in Journals
BY ReplayChain

-----------------------------------------------------------------------------
(* A stricter replay.  Neither the validator nor the projector looks at it, but *)
(* the machine numbers its turns from 1, lets a question stay open only while   *)
(* its call awaits approval, and marks an interruption once.  A view cut off    *)
(* between two records can be recovered only because of that, so what a         *)
(* reaction records is replayed below with these requirements added: a          *)
(* reaction that meets them to its end met them after each of its records.      *)

Regular(j, r) ==
  /\ r.kind \in {"turn_started", "collaboration_turn_started"} => r.turn # 0
  /\ r.kind = "tool_call_changed" => ~j.tool[r.call].attention
  /\ r.kind = "attention_requested" => j.tool[r.call].status = "awaiting_approval"
  /\ r.kind = "turn_interrupted_by_recovery" => j.markers = 0

Enter(j, r) == IF Regular(j, r) THEN Apply(j, r) ELSE [j EXCEPT !.sound = FALSE]

Retell(j, rs) ==
  LET after[n \in 0..Len(rs)] == IF n = 0 THEN j ELSE Enter(after[n - 1], rs[n])
  IN  after[Len(rs)]

\* A record that meets every requirement changes the view by its fact.
LEMMA Entered ==
  ASSUME NEW j, NEW r, Regular(j, r), Valid(j, r), Projectable(j, r)
  PROVE  Enter(j, r) = Fact(j, r)
BY DEF Enter, Apply

LEMMA EnterTyped ==
  ASSUME NEW j \in Journals, NEW r \in Records
  PROVE  Enter(j, r) \in Journals
BY ApplyTyped, Updated DEF Enter

LEMMA RetellChain ==
  ASSUME NEW j \in Journals, NEW rs \in Seq(Records)
  PROVE  \E after \in [0..Len(rs) -> Journals] :
           /\ after[0] = j
           /\ \A n \in 1..Len(rs) : after[n] = Enter(after[n - 1], rs[n])
           /\ Retell(j, rs) = after[Len(rs)]
<1> DEFINE next == [p \in Nat \X Journals |->
                      IF p[1] \in 1..Len(rs) THEN Enter(p[2], rs[p[1]]) ELSE p[2]]
<1> DEFINE Def(g) == [n \in 0..Len(rs) |-> IF n = 0 THEN j ELSE Enter(g[n - 1], rs[n])]
<1> DEFINE a == CHOOSE g : g = Def(g)
<1>1. next \in [Nat \X Journals -> Journals]
  BY EnterTyped
<1>2. PICK f : Follows(j, next, Journals, f)
  <2> HIDE DEF next
  <2> QED BY <1>1, PrimitiveRecursion
<1>3. ASSUME NEW n \in 1..Len(rs) PROVE f[n] = Enter(f[n - 1], rs[n])
  <2>1. n - 1 \in Nat /\ n = (n - 1) + 1
    OBVIOUS
  <2>2. f[n] = next[<<n, f[n - 1]>>]
    <3> HIDE DEF next
    <3> QED BY <1>2, <2>1 DEF Follows
  <2>3. f[n - 1] \in Journals
    BY <1>2, <2>1 DEF Follows
  <2> QED BY <2>1, <2>2, <2>3
<1> DEFINE h == [n \in 0..Len(rs) |-> f[n]]
<1>4. h = Def(h)
  <2>1. ASSUME NEW n \in 0..Len(rs)
        PROVE  h[n] = IF n = 0 THEN j ELSE Enter(h[n - 1], rs[n])
    BY <1>2, <1>3 DEF Follows
  <2> QED BY <2>1
<1>5. a = Def(a)
  <2> HIDE DEF h, Def
  <2> QED BY <1>4
<1>6. Retell(j, rs) = a[Len(rs)]
  BY DEF Retell
<1>7. /\ a \in [0..Len(rs) -> Journals]
      /\ a[0] = j
      /\ \A n \in 1..Len(rs) : a[n] = Enter(a[n - 1], rs[n])
  <2> HIDE DEF a
  <2>1. Len(rs) \in Nat
    OBVIOUS
  <2>2. a[0] = j /\ \A n \in 1..Len(rs) : a[n] = Enter(a[n - 1], rs[n])
    BY <1>5, <2>1
  <2> DEFINE T == {n \in Nat : n <= Len(rs) => a[n] \in Journals}
  <2>3. ASSUME NEW n \in T PROVE n + 1 \in T
    <3>1. CASE n + 1 <= Len(rs)
      <4>1. a[n] \in Journals /\ a[n + 1] = Enter(a[n], rs[n + 1]) /\ rs[n + 1] \in Records
        BY <2>2, <3>1
      <4> QED BY <4>1, EnterTyped
    <3> QED BY <3>1
  <2>4. T = Nat
    <3>1. T \in SUBSET Nat /\ 0 \in T
      BY <2>2
    <3> HIDE DEF T
    <3> QED BY <2>3, <3>1, AllNaturals
  <2>5. a \in [0..Len(rs) -> Journals]
    <3>1. \A n \in 0..Len(rs) : Def(a)[n] \in Journals
      <4> HIDE DEF Def
      <4> QED BY <1>5, <2>1, <2>4
    <3> QED BY <1>5, <3>1
  <2> QED BY <2>2, <2>5
<1> HIDE DEF a
<1> QED BY <1>6, <1>7

LEMMA RetellTyped ==
  ASSUME NEW j \in Journals, NEW rs \in Seq(Records)
  PROVE  Retell(j, rs) \in Journals
<1>1. PICK after \in [0..Len(rs) -> Journals] : Retell(j, rs) = after[Len(rs)]
  BY RetellChain
<1> HIDE DEF Retell
<1>2. Len(rs) \in 0..Len(rs)
  OBVIOUS
<1> QED BY <1>1, <1>2

\* Nothing recorded changes nothing.
LEMMA RetellNone ==
  ASSUME NEW j \in Journals
  PROVE  Retell(j, <<>>) = j
<1>1. ASSUME NEW rs \in Seq(Records), Len(rs) = 0
      PROVE  Retell(j, rs) = j
  <2>1. PICK a \in [0..Len(rs) -> Journals] :
           /\ a[0] = j
           /\ \A n \in 1..Len(rs) : a[n] = Enter(a[n - 1], rs[n])
           /\ Retell(j, rs) = a[Len(rs)]
    BY RetellChain
  <2> QED BY <1>1, <2>1
<1>2. <<>> \in Seq(Records) /\ Len(<<>>) = 0
  OBVIOUS
<1> QED BY <1>1, <1>2

LEMMA RetellOne ==
  ASSUME NEW j \in Journals, NEW r \in Records
  PROVE  Retell(j, <<r>>) = Enter(j, r)
<1> DEFINE rs == <<r>>
<1>1. rs \in Seq(Records) /\ Len(rs) = 1 /\ rs[1] = r
  OBVIOUS
<1> HIDE DEF rs
<1>2. PICK a : /\ a[0] = j /\ \A n \in 1..Len(rs) : a[n] = Enter(a[n - 1], rs[n])
               /\ Retell(j, rs) = a[Len(rs)]
  BY <1>1, RetellChain
<1>3. a[1] = Enter(a[1 - 1], r)
  BY <1>1, <1>2
<1>4. Retell(j, rs) = Enter(j, r)
  BY <1>1, <1>2, <1>3
<1> QED BY <1>4 DEF rs

\* Records replayed after others start from the view these left.
LEMMA RetellConcat ==
  ASSUME NEW j \in Journals, NEW rs \in Seq(Records), NEW ss \in Seq(Records)
  PROVE  Retell(j, rs \o ss) = Retell(Retell(j, rs), ss)
<1> DEFINE all == rs \o ss   k == Retell(j, rs)
<1>1. /\ all \in Seq(Records) /\ Len(all) = Len(rs) + Len(ss)
      /\ Len(rs) \in Nat /\ Len(ss) \in Nat
      /\ \A n \in 1..Len(rs) : all[n] = rs[n]
      /\ \A n \in 1..Len(ss) : all[Len(rs) + n] = ss[n]
  OBVIOUS
<1>2. PICK b : /\ b[0] = j /\ \A n \in 1..Len(rs) : b[n] = Enter(b[n - 1], rs[n])
               /\ k = b[Len(rs)]
  BY RetellChain
<1>3. PICK c : /\ c[0] = k /\ \A n \in 1..Len(ss) : c[n] = Enter(c[n - 1], ss[n])
               /\ Retell(k, ss) = c[Len(ss)]
  <2>1. k \in Journals
    BY RetellTyped
  <2> HIDE DEF k
  <2> QED BY <2>1, RetellChain
<1> HIDE DEF all, k
<1>4. PICK a : /\ a[0] = j /\ \A n \in 1..Len(all) : a[n] = Enter(a[n - 1], all[n])
               /\ Retell(j, all) = a[Len(all)]
  <2>1. all \in Seq(Records)
    BY <1>1
  <2>2. \E a \in [0..Len(all) -> Journals] :
          /\ a[0] = j /\ \A n \in 1..Len(all) : a[n] = Enter(a[n - 1], all[n])
          /\ Retell(j, all) = a[Len(all)]
    BY <2>1, RetellChain, Zenon
  <2> QED BY <2>2
<1>5. \A n \in 0..Len(rs) : a[n] = b[n]
  <2> DEFINE T == {n \in Nat : n <= Len(rs) => a[n] = b[n]}
  <2>1. T \in SUBSET Nat /\ 0 \in T
    BY <1>2, <1>4
  <2>2. ASSUME NEW n \in T PROVE n + 1 \in T
    <3>1. CASE n + 1 <= Len(rs)
      <4>1. n + 1 \in 1..Len(rs) /\ n + 1 \in 1..Len(all) /\ (n + 1) - 1 = n
        BY <1>1, <3>1
      <4>2. a[n + 1] = Enter(a[n], all[n + 1]) /\ b[n + 1] = Enter(b[n], rs[n + 1])
        BY <1>2, <1>4, <4>1
      <4> QED BY <1>1, <3>1, <4>1, <4>2
    <3> QED BY <3>1
  <2> HIDE DEF T
  <2>3. T = Nat
    BY <2>1, <2>2, AllNaturals
  <2> QED BY <1>1, <2>3 DEF T
<1>6. \A n \in 0..Len(ss) : a[Len(rs) + n] = c[n]
  <2> DEFINE T == {n \in Nat : n <= Len(ss) => a[Len(rs) + n] = c[n]}
  <2>1. T \in SUBSET Nat /\ 0 \in T
    BY <1>1, <1>2, <1>3, <1>5
  <2>2. ASSUME NEW n \in T PROVE n + 1 \in T
    <3>1. CASE n + 1 <= Len(ss)
      <4> DEFINE i == Len(rs) + n
      <4>1. /\ n + 1 \in 1..Len(ss) /\ (n + 1) - 1 = n
            /\ i + 1 \in 1..Len(all) /\ (i + 1) - 1 = i /\ Len(rs) + (n + 1) = i + 1
        BY <1>1, <3>1
      <4>2. a[i + 1] = Enter(a[i], all[i + 1]) /\ c[n + 1] = Enter(c[n], ss[n + 1])
        <5> HIDE DEF i
        <5> QED BY <1>3, <1>4, <4>1
      <4>3. all[i + 1] = ss[n + 1] /\ a[i] = c[n]
        BY <1>1, <3>1, <4>1
      <4>4. a[i + 1] = c[n + 1]
        BY <4>2, <4>3
      <4> HIDE DEF i
      <4> QED BY <4>1, <4>4
    <3> QED BY <3>1
  <2> HIDE DEF T
  <2>3. T = Nat
    BY <2>1, <2>2, AllNaturals
  <2> QED BY <1>1, <2>3 DEF T
<1>7. Retell(j, all) = Retell(k, ss)
  BY <1>1, <1>3, <1>4, <1>6
<1> QED BY <1>7 DEF all, k

LEMMA RetellAppend ==
  ASSUME NEW j \in Journals, NEW rs \in Seq(Records), NEW r \in Records
  PROVE  /\ Append(rs, r) \in Seq(Records)
         /\ Retell(j, Append(rs, r)) = Enter(Retell(j, rs), r)
<1> DEFINE one == <<r>>
<1>1. one \in Seq(Records) /\ Append(rs, r) = rs \o one /\ Append(rs, r) \in Seq(Records)
  OBVIOUS
<1>2. Retell(j, rs) \in Journals
  BY RetellTyped
<1>3. Retell(Retell(j, rs), one) = Enter(Retell(j, rs), r)
  BY <1>2, RetellOne
<1> HIDE DEF one
<1>4. Retell(j, rs \o one) = Retell(Retell(j, rs), one)
  BY <1>1, RetellConcat
<1> QED BY <1>1, <1>3, <1>4

\* The growing concatenation that FlattenSeq ends with.
LEMMA FlattenChain ==
  ASSUME NEW S, NEW seqs \in Seq(Seq(S))
  PROVE  \E flat \in [0..Len(seqs) -> Seq(S)] :
           /\ flat[0] = <<>>
           /\ \A n \in 1..Len(seqs) : flat[n] = flat[n - 1] \o seqs[n]
           /\ Seqs!FlattenSeq(seqs) = flat[Len(seqs)]
<1> DEFINE next == [p \in Nat \X Seq(S) |->
                      IF p[1] \in 1..Len(seqs) THEN p[2] \o seqs[p[1]] ELSE p[2]]
<1> DEFINE Def(g) == [i \in 1..Len(seqs) |-> IF i = 1 THEN seqs[i] ELSE g[i - 1] \o seqs[i]]
<1> DEFINE a == CHOOSE g : g = Def(g)
<1> DEFINE none == <<>>
<1>1. next \in [Nat \X Seq(S) -> Seq(S)] /\ none \in Seq(S) /\ Len(seqs) \in Nat
  OBVIOUS
<1>0. \A s \in Seq(S) : none \o s = s
  OBVIOUS
<1> HIDE DEF none
<1>2. PICK f : Follows(none, next, Seq(S), f)
  <2> HIDE DEF next
  <2> QED BY <1>1, PrimitiveRecursion
<1>3. \A n \in 1..Len(seqs) : f[n] = f[n - 1] \o seqs[n]
  <2> SUFFICES ASSUME NEW n \in 1..Len(seqs) PROVE f[n] = f[n - 1] \o seqs[n]
    OBVIOUS
  <2>1. n - 1 \in Nat /\ n = (n - 1) + 1
    OBVIOUS
  <2>2. f[n] = next[<<n, f[n - 1]>>]
    <3> HIDE DEF next
    <3> QED BY <1>2, <2>1 DEF Follows
  <2>3. f[n - 1] \in Seq(S)
    BY <1>2, <2>1 DEF Follows
  <2>4. \A m \in Nat, s \in Seq(S) :
           m \in 1..Len(seqs) => next[<<m, s>>] = s \o seqs[m]
    BY <1>1
  <2> HIDE DEF next
  <2>5. n \in Nat
    OBVIOUS
  <2>6. next[<<n, f[n - 1]>>] = f[n - 1] \o seqs[n]
    BY <2>3, <2>4, <2>5
  <2> QED BY <2>2, <2>6
<1> HIDE DEF next
<1>4. f \in [Nat -> Seq(S)] /\ f[0] = none
  BY <1>2 DEF Follows
<1>5. \A n \in 1..Len(seqs) : seqs[n] \in Seq(S)
  OBVIOUS
<1>6. f[1] = seqs[1] \/ Len(seqs) = 0
  <2>1. CASE Len(seqs) # 0
    <3>1. 1 \in 1..Len(seqs) /\ 1 - 1 = 0
      BY <1>1, <2>1
    <3>2. f[1] = f[0] \o seqs[1]
      BY <1>3, <3>1
    <3> QED BY <1>0, <1>4, <1>5, <3>1, <3>2
  <2> QED BY <2>1
<1> DEFINE h == [n \in 1..Len(seqs) |-> f[n]]
<1>7. a = Def(a)
  <2>1. h = Def(h)
    <3>1. ASSUME NEW i \in 1..Len(seqs)
          PROVE  h[i] = IF i = 1 THEN seqs[i] ELSE h[i - 1] \o seqs[i]
      <4>1. CASE i = 1
        <5>1. f[i] = seqs[i] /\ h[i] = f[i]
          BY <1>6, <4>1
        <5> HIDE DEF h
        <5> QED BY <4>1, <5>1
      <4>2. CASE i # 1
        <5>1. i - 1 \in 1..Len(seqs)
          BY <1>1, <4>2
        <5>2. h[i - 1] = f[i - 1] /\ h[i] = f[i]
          BY <5>1
        <5>3. f[i] = f[i - 1] \o seqs[i]
          BY <1>3
        <5> HIDE DEF h
        <5> QED BY <4>2, <5>2, <5>3
      <4> QED BY <4>1, <4>2
    <3> QED BY <3>1
  <2> HIDE DEF h, Def
  <2> QED BY <2>1
<1>8. \A n \in 1..Len(seqs) : a[n] = IF n = 1 THEN seqs[n] ELSE a[n - 1] \o seqs[n]
  <2>1. Def(a) = [n \in 1..Len(seqs) |-> IF n = 1 THEN seqs[n] ELSE a[n - 1] \o seqs[n]]
    OBVIOUS
  <2> HIDE DEF a, Def
  <2> QED BY <1>7, <2>1
<1>9. \A n \in 1..Len(seqs) : a[n] = f[n]
  <2> HIDE DEF a, Def, h
  <2> DEFINE T == {n \in Nat : n \in 1..Len(seqs) => a[n] = f[n]}
  <2>1. ASSUME NEW n \in T PROVE n + 1 \in T
    <3> DEFINE m == n + 1
    <3>0. n \in Nat /\ m \in Nat /\ m - 1 = n
      OBVIOUS
    <3>1. ASSUME m \in 1..Len(seqs) PROVE a[m] = f[m]
      <4>1. a[m] = IF m = 1 THEN seqs[m] ELSE a[m - 1] \o seqs[m]
        <5> HIDE DEF m
        <5> QED BY <1>8, <3>1
      <4>2. f[m] = f[m - 1] \o seqs[m]
        <5> HIDE DEF m
        <5> QED BY <1>3, <3>1
      <4>3. CASE n = 0
        <5>1. m = 1
          BY <4>3
        <5> HIDE DEF m
        <5>2. 1 \in 1..Len(seqs)
          BY <3>1, <5>1
        <5> QED BY <1>6, <4>1, <5>1, <5>2
      <4>4. CASE n # 0
        <5>1. m # 1 /\ n \in 1..Len(seqs)
          BY <1>1, <3>1, <4>4
        <5>2. a[n] = f[n]
          BY <5>1
        <5> HIDE DEF m, T
        <5> QED BY <3>0, <4>1, <4>2, <5>1, <5>2
      <4> QED BY <4>3, <4>4
    <3> QED BY <3>0, <3>1
  <2>2. T \in SUBSET Nat /\ 0 \in T
    OBVIOUS
  <2> HIDE DEF T
  <2>3. T = Nat
    BY <2>1, <2>2, AllNaturals
  <2> QED BY <2>3 DEF T
<1>10. Seqs!FlattenSeq(seqs) = f[Len(seqs)]
  <2>1. CASE Len(seqs) = 0
    <3>1. seqs = none
      BY <2>1 DEF none
    <3>2. Seqs!FlattenSeq(seqs) = seqs
      BY <2>1 DEF Seqs!FlattenSeq
    <3> QED BY <1>4, <2>1, <3>1, <3>2
  <2>2. CASE Len(seqs) # 0
    <3>1. Seqs!FlattenSeq(seqs) = a[Len(seqs)]
      BY <2>2 DEF Seqs!FlattenSeq
    <3> HIDE DEF a
    <3>2. Len(seqs) \in 1..Len(seqs)
      BY <1>1, <2>2
    <3> QED BY <1>9, <3>1, <3>2
  <2> QED BY <2>1, <2>2
<1> DEFINE flat == [n \in 0..Len(seqs) |-> f[n]]
<1> HIDE DEF a, h, Def
<1>11. flat \in [0..Len(seqs) -> Seq(S)] /\ flat[0] = none
  BY <1>1, <1>4
<1>12. \A n \in 1..Len(seqs) : flat[n] = flat[n - 1] \o seqs[n]
  <2> SUFFICES ASSUME NEW n \in 1..Len(seqs) PROVE flat[n] = flat[n - 1] \o seqs[n]
    OBVIOUS
  <2>1. n \in 0..Len(seqs) /\ n - 1 \in 0..Len(seqs)
    BY <1>1
  <2>2. flat[n] = f[n] /\ flat[n - 1] = f[n - 1]
    BY <2>1
  <2> QED BY <1>3, <2>2
<1>13. Seqs!FlattenSeq(seqs) = flat[Len(seqs)]
  BY <1>1, <1>10
<1> HIDE DEF flat
<1>14. flat[0] = <<>>
  BY <1>11 DEF none
<1> QED BY <1>11, <1>12, <1>13, <1>14

\* What holds at first and is kept by every step holds at the end.
LEMMA Kept ==
  ASSUME NEW N \in Nat, NEW v, NEW W, v[0] \in W[0],
         \A n \in 1..N : v[n - 1] \in W[n - 1] => v[n] \in W[n]
  PROVE  v[N] \in W[N]
<1> DEFINE T == {n \in Nat : n <= N => v[n] \in W[n]}
<1>1. ASSUME NEW n \in T PROVE n + 1 \in T
  <2> DEFINE m == n + 1
  <2>1. n \in Nat /\ m \in Nat /\ m - 1 = n
    OBVIOUS
  <2>2. ASSUME m <= N PROVE v[m] \in W[m]
    <3>1. m \in 1..N /\ v[n] \in W[n]
      BY <2>2
    <3> HIDE DEF m, T
    <3> QED BY <2>1, <3>1
  <2> QED BY <2>1, <2>2
<1>2. T \in SUBSET Nat /\ 0 \in T
  OBVIOUS
<1> HIDE DEF T
<1>3. T = Nat
  BY <1>1, <1>2, AllNaturals
<1> QED BY <1>3 DEF T

\* Replaying a concatenation passes through the view after each of its parts.
LEMMA RetellFlat ==
  ASSUME NEW j \in Journals, NEW seqs \in Seq(Seq(Records))
  PROVE  /\ InOrder(seqs) \in Seq(Records)
         /\ \E v \in [0..Len(seqs) -> Journals] :
              /\ v[0] = j
              /\ \A n \in 1..Len(seqs) : v[n] = Retell(v[n - 1], seqs[n])
              /\ Retell(j, InOrder(seqs)) = v[Len(seqs)]
<1>1. PICK flat \in [0..Len(seqs) -> Seq(Records)] :
         /\ flat[0] = <<>>
         /\ \A n \in 1..Len(seqs) : flat[n] = flat[n - 1] \o seqs[n]
         /\ InOrder(seqs) = flat[Len(seqs)]
  BY FlattenChain DEF InOrder
<1> DEFINE v == [n \in 0..Len(seqs) |-> Retell(j, flat[n])]
<1>2. Len(seqs) \in Nat /\ \A n \in 1..Len(seqs) : seqs[n] \in Seq(Records)
  OBVIOUS
<1>3. v \in [0..Len(seqs) -> Journals]
  BY <1>1, RetellTyped
<1>4. v[0] = j
  BY <1>1, <1>2, RetellNone
<1>5. ASSUME NEW n \in 1..Len(seqs) PROVE v[n] = Retell(v[n - 1], seqs[n])
  <2>1. n \in 0..Len(seqs) /\ n - 1 \in 0..Len(seqs)
    BY <1>2
  <2>2. v[n] = Retell(j, flat[n]) /\ v[n - 1] = Retell(j, flat[n - 1])
    BY <2>1
  <2>3. flat[n] = flat[n - 1] \o seqs[n]
    BY <1>1
  <2>4. flat[n - 1] \in Seq(Records) /\ seqs[n] \in Seq(Records)
    BY <1>1, <1>2, <2>1
  <2> HIDE DEF v
  <2> QED BY <2>2, <2>3, <2>4, RetellConcat
<1>6. v[Len(seqs)] = Retell(j, InOrder(seqs)) /\ InOrder(seqs) \in Seq(Records)
  BY <1>1, <1>2
<1> HIDE DEF v
<1> QED BY <1>3, <1>4, <1>5, <1>6

\* A call that was recorded stays recorded.
LEMMA ApplyKeeps ==
  ASSUME NEW j \in Journals, NEW r \in Records, NEW c \in Calls,
         j.tool[c].status # "absent"
  PROVE  Apply(j, r).tool[c].status # "absent"
<1>1. CASE ~(Valid(j, r) /\ Projectable(j, r))
  BY <1>1 DEF Apply, Journals
<1>2. CASE Valid(j, r) /\ Projectable(j, r)
  <2>1. Apply(j, r) = Fact(j, r)
    BY <1>2 DEF Apply
  <2>2. CASE r.kind = "assistant_output"
    <3>1. Fact(j, r).tool[c] \in {j.tool[c], [Unknown EXCEPT !.status = "queued"]}
      BY <2>2 DEF Fact, Journals
    <3> QED BY <2>1, <3>1 DEF Unknown
  <2>3. CASE r \in [kind : {"tool_call_changed"}, call : Calls, status : ToolStatus]
    <3>1. r.status # "absent"
      BY <1>2, <2>3 DEF Projectable, CanTransition
    <3>2. Fact(j, r).tool = [j.tool EXCEPT ![r.call] = [j.tool[r.call] EXCEPT !.status = r.status]]
      BY <2>3 DEF Fact, Journals
    <3> QED BY <2>1, <3>1, <3>2 DEF Journals, Tools
  <2>4. CASE r \in [kind : {"tool_call_requested", "tool_permission_decided",
                            "attention_requested", "attention_resolved"}, call : Calls]
    <3>1. \E u \in Tools : /\ u.status = j.tool[r.call].status
                           /\ Fact(j, r) = [j EXCEPT !.tool[r.call] = u]
      <4> DEFINE t == j.tool[r.call]
      <4> DEFINE u == CASE r.kind = "tool_call_requested" -> [t EXCEPT !.requested = TRUE]
                        [] r.kind = "tool_permission_decided" -> [t EXCEPT !.permission = t.status]
                        [] r.kind = "attention_requested" -> [t EXCEPT !.attention = TRUE]
                        [] r.kind = "attention_resolved" -> [t EXCEPT !.attention = FALSE]
      <4>1. Fact(j, r) = [j EXCEPT !.tool[r.call] = u]
        BY <2>4 DEF Fact
      <4>3. t \in Tools
        BY <2>4 DEF Journals
      <4>2. u \in Tools /\ u.status = t.status
        <5> HIDE DEF t
        <5> QED BY <2>4, <4>3 DEF Tools
      <4> HIDE DEF u
      <4> QED BY <4>1, <4>2
    <3> QED BY <2>1, <3>1 DEF Journals
  <2>5. CASE r.kind \in {"turn_started", "collaboration_turn_started"}
    BY <2>1, <2>5 DEF Fact, StartTurn, Journals
  <2>6. CASE r.kind \in {"steering_accepted", "turn_status_changed", "turn_finished",
                         "turn_interrupted_by_recovery"}
    BY <2>1, <2>6 DEF Fact, Journals
  <2> QED BY <2>2, <2>3, <2>4, <2>5, <2>6 DEF Records
<1> QED BY <1>1, <1>2

LEMMA ReplayKeeps ==
  ASSUME NEW j \in Journals, NEW rs \in Seq(Records), NEW c \in Calls,
         j.tool[c].status # "absent"
  PROVE  Replay(j, rs).tool[c].status # "absent"
<1>1. PICK a \in [0..Len(rs) -> Journals] :
         /\ a[0] = j
         /\ \A n \in 1..Len(rs) : a[n] = Apply(a[n - 1], rs[n])
         /\ Replay(j, rs) = a[Len(rs)]
  BY ReplayChain
<1> DEFINE W == [n \in 0..Len(rs) |-> {k \in Journals : k.tool[c].status # "absent"}]
<1>2. a[0] \in W[0] /\ Len(rs) \in Nat
  BY <1>1
<1>3. ASSUME NEW n \in 1..Len(rs), a[n - 1] \in W[n - 1] PROVE a[n] \in W[n]
  <2>1. n - 1 \in 0..Len(rs) /\ n \in 0..Len(rs) /\ rs[n] \in Records
    BY <1>2
  <2>2. a[n - 1] \in Journals /\ a[n - 1].tool[c].status # "absent"
    BY <1>3, <2>1
  <2>3. a[n] \in Journals /\ a[n] = Apply(a[n - 1], rs[n])
    BY <1>1, <2>1
  <2>4. a[n].tool[c].status # "absent"
    BY <2>1, <2>2, <2>3, ApplyKeeps
  <2> QED BY <2>1, <2>3, <2>4
<1> HIDE DEF W
<1>4. a[Len(rs)] \in W[Len(rs)]
  BY <1>2, <1>3, Kept
<1> QED BY <1>1, <1>2, <1>4 DEF W

LEMMA RetellTwo ==
  ASSUME NEW j \in Journals, NEW r \in Records, NEW s \in Records
  PROVE  Retell(j, <<r, s>>) = Enter(Enter(j, r), s)
<1> DEFINE rs == <<r, s>>
<1>1. rs \in Seq(Records) /\ Len(rs) = 2 /\ rs[1] = r /\ rs[2] = s
  OBVIOUS
<1> HIDE DEF rs
<1>2. PICK a \in [0..Len(rs) -> Journals] :
         /\ a[0] = j
         /\ \A n \in 1..Len(rs) : a[n] = Enter(a[n - 1], rs[n])
         /\ Retell(j, rs) = a[Len(rs)]
  <2>1. rs \in Seq(Records)
    BY <1>1
  <2> QED BY <2>1, RetellChain
<1>3. a[1] = Enter(a[1 - 1], r)
  BY <1>1, <1>2
<1>4. a[2] = Enter(a[2 - 1], s)
  BY <1>1, <1>2
<1>5. Retell(j, rs) = Enter(Enter(j, r), s)
  BY <1>1, <1>2, <1>3, <1>4
<1> QED BY <1>5 DEF rs

LEMMA RetellThree ==
  ASSUME NEW j \in Journals, NEW r \in Records, NEW s \in Records, NEW u \in Records
  PROVE  Retell(j, <<r, s, u>>) = Enter(Enter(Enter(j, r), s), u)
<1> DEFINE rs == <<r, s, u>>
<1>1. rs \in Seq(Records) /\ Len(rs) = 3 /\ rs[1] = r /\ rs[2] = s /\ rs[3] = u
  OBVIOUS
<1> HIDE DEF rs
<1>2. PICK a \in [0..Len(rs) -> Journals] :
         /\ a[0] = j
         /\ \A n \in 1..Len(rs) : a[n] = Enter(a[n - 1], rs[n])
         /\ Retell(j, rs) = a[Len(rs)]
  <2>1. rs \in Seq(Records)
    BY <1>1
  <2> QED BY <2>1, RetellChain
<1>3. a[1] = Enter(a[1 - 1], r)
  BY <1>1, <1>2
<1>4. a[2] = Enter(a[2 - 1], s)
  BY <1>1, <1>2
<1>5. a[3] = Enter(a[3 - 1], u)
  BY <1>1, <1>2
<1>6. Retell(j, rs) = Enter(Enter(Enter(j, r), s), u)
  BY <1>1, <1>2, <1>3, <1>4, <1>5
<1> QED BY <1>6 DEF rs

LEMMA CallRecordTypes ==
  ASSUME NEW c \in Calls
  PROVE  /\ ToolCallRequested(c) \in Records /\ ToolPermissionDecided(c) \in Records
         /\ AttentionRequested(c) \in Records /\ AttentionResolved(c) \in Records
         /\ \A s \in ToolStatus : ToolCallChanged(c, s) \in Records
BY DEF Records, ToolCallRequested, ToolPermissionDecided, AttentionRequested,
       AttentionResolved, ToolCallChanged

LEMMA TurnRecordTypes ==
  ASSUME NEW t \in Nat
  PROVE  /\ TurnStarted(t) \in Records /\ CollaborationTurnStarted(t) \in Records
         /\ SteeringAccepted(t) \in Records
         /\ \A s \in AgentStatus : TurnStatusChanged(t, s) \in Records
         /\ \A n \in Nat, cs \in Seq(Calls) : AssistantOutput(t, n, cs) \in Records
         /\ \A o \in Outcomes : TurnFinished(t, o) \in Records
BY DEF Records, TurnStarted, CollaborationTurnStarted, SteeringAccepted,
       TurnStatusChanged, AssistantOutput, TurnFinished

-----------------------------------------------------------------------------
(* Records about one call.                                                 *)

\* The view with the facts of one call replaced.
With(j, c, u) == [j EXCEPT !.tool[c] = u]

LEMMA WithFacts ==
  ASSUME NEW j \in Journals, NEW c \in Calls, NEW u \in Tools
  PROVE  /\ With(j, c, u) \in Journals
         /\ With(j, c, u).tool[c] = u
         /\ With(j, c, u).pending = j.pending
         /\ \A w \in Tools : With(With(j, c, u), c, w) = With(j, c, w)
<1>1. With(j, c, u) \in Journals
  BY ToolUpdated DEF With
<1> QED BY <1>1 DEF With, Journals

\* What each record about a requested call of the open batch changes.
LEMMA CallRecord ==
  ASSUME NEW j \in Journals, NEW c \in Calls, InPendingBatch(j, c), j.tool[c].requested
  PROVE  /\ /\ j.tool[c].status \in {"queued", "awaiting_approval"}
            /\ j.tool[c].permission # j.tool[c].status
            => Enter(j, ToolPermissionDecided(c))
                 = With(j, c, [j.tool[c] EXCEPT !.permission = j.tool[c].status])
         /\ \A s \in ToolStatus :
              CanTransition(j.tool[c].status, s) /\ ~j.tool[c].attention =>
                Enter(j, ToolCallChanged(c, s)) = With(j, c, [j.tool[c] EXCEPT !.status = s])
         /\ j.tool[c].status = "awaiting_approval" =>
              Enter(j, AttentionRequested(c)) = With(j, c, [j.tool[c] EXCEPT !.attention = TRUE])
         /\ Enter(j, AttentionResolved(c)) = With(j, c, [j.tool[c] EXCEPT !.attention = FALSE])
<1>1. ASSUME j.tool[c].status \in {"queued", "awaiting_approval"},
             j.tool[c].permission # j.tool[c].status
      PROVE  Enter(j, ToolPermissionDecided(c))
               = With(j, c, [j.tool[c] EXCEPT !.permission = j.tool[c].status])
  <2>1. Regular(j, ToolPermissionDecided(c)) /\ Valid(j, ToolPermissionDecided(c))
    BY <1>1 DEF Regular, Valid, ToolPermissionDecided
  <2>2. Projectable(j, ToolPermissionDecided(c))
    BY <1>1 DEF Projectable, ToolPermissionDecided
  <2>3. Fact(j, ToolPermissionDecided(c)) = With(j, c, [j.tool[c] EXCEPT !.permission = j.tool[c].status])
    BY <1>1 DEF Fact, ToolPermissionDecided, With
  <2> QED BY <2>1, <2>2, <2>3, Entered
<1>2. ASSUME NEW s \in ToolStatus, CanTransition(j.tool[c].status, s), ~j.tool[c].attention
      PROVE  Enter(j, ToolCallChanged(c, s)) = With(j, c, [j.tool[c] EXCEPT !.status = s])
  <2>1. Regular(j, ToolCallChanged(c, s)) /\ Valid(j, ToolCallChanged(c, s))
    BY <1>2 DEF Regular, Valid, ToolCallChanged
  <2>2. Projectable(j, ToolCallChanged(c, s))
    BY <1>2 DEF Projectable, ToolCallChanged
  <2>3. Fact(j, ToolCallChanged(c, s)) = With(j, c, [j.tool[c] EXCEPT !.status = s])
    BY <1>2 DEF Fact, ToolCallChanged, With
  <2> QED BY <2>1, <2>2, <2>3, Entered
<1>3. ASSUME j.tool[c].status = "awaiting_approval"
      PROVE  Enter(j, AttentionRequested(c)) = With(j, c, [j.tool[c] EXCEPT !.attention = TRUE])
  <2>1. Regular(j, AttentionRequested(c)) /\ Valid(j, AttentionRequested(c))
    BY <1>3 DEF Regular, Valid, AttentionRequested
  <2>2. Projectable(j, AttentionRequested(c))
    BY <1>3 DEF Projectable, AttentionRequested
  <2>3. Fact(j, AttentionRequested(c)) = With(j, c, [j.tool[c] EXCEPT !.attention = TRUE])
    BY <1>3 DEF Fact, AttentionRequested, With
  <2> QED BY <2>1, <2>2, <2>3, Entered
<1>4. Enter(j, AttentionResolved(c)) = With(j, c, [j.tool[c] EXCEPT !.attention = FALSE])
  <2>1. Regular(j, AttentionResolved(c)) /\ Valid(j, AttentionResolved(c))
    BY DEF Regular, Valid, AttentionResolved
  <2>2. Projectable(j, AttentionResolved(c))
    BY DEF Projectable, AttentionResolved
  <2>3. Fact(j, AttentionResolved(c)) = With(j, c, [j.tool[c] EXCEPT !.attention = FALSE])
    BY DEF Fact, AttentionResolved, With
  <2> QED BY <2>1, <2>2, <2>3, Entered
<1> QED BY <1>1, <1>2, <1>3, <1>4

-----------------------------------------------------------------------------
(* What the journal shows.                                                 *)

\* No call is open: each was never recorded or has its outcome.
Quiet(j) ==
  /\ BatchSettled(j)
  /\ \A c \in Calls : j.tool[c].status \in Terminal \cup {"absent"} /\ ~j.tool[c].attention

\* Turn t is open, its last output is that of step n, and no call is open.
Between(j, t, n) ==
  /\ j \in Journals
  /\ j.sound
  /\ t >= 1
  /\ j.turns = t
  /\ j.open = t
  /\ j.step = n
  /\ Quiet(j)

\* Step n of turn t is being streamed.
Streaming(j, t, n) == Between(j, t, j.step) /\ n = j.step + 1 /\ j.agent = "running"

\* No turn is open after t of them.
Idle(j, t) ==
  /\ j \in Journals
  /\ j.sound
  /\ j.turns = t
  /\ j.open = 0
  /\ j.agent = "idle"
  /\ Quiet(j)

\* What is recorded of a call in the slot state s.
Slotted(tool, s) ==
  /\ s = "none" => tool.status \in Terminal \cup {"absent"} /\ ~tool.attention
  /\ s = "admission" =>
       tool.status = "queued" /\ tool.permission = "absent" /\ ~tool.attention
  /\ s \in {"waiting", "preparing"} =>
       tool.status = "awaiting_approval" /\ tool.permission = "queued" /\ tool.attention
  /\ s = "running" =>
       tool.status = "running" /\ tool.permission # "absent" /\ ~tool.attention
  /\ s = "finished" => tool.status \in Terminal /\ ~tool.attention

Member(cs, c) == \E i \in DOMAIN cs : cs[i] = c
Distinct(cs)  == \A i, k \in DOMAIN cs : cs[i] = cs[k] => i = k

\* The batch cs of step n of turn t is open and its slots are sl.
Working(j, t, n, cs, sl) ==
  /\ j \in Journals
  /\ j.sound
  /\ t >= 1
  /\ j.turns = t
  /\ j.open = t
  /\ j.step = n
  /\ j.agent = "waiting"
  /\ j.pending = cs
  /\ Distinct(cs)
  /\ sl \in [Calls -> SlotStates]
  /\ \A c \in Calls : /\ Slotted(j.tool[c], sl[c])
                      /\ sl[c] # "none" <=> Member(cs, c)
                      /\ Member(cs, c) => j.tool[c].requested

-----------------------------------------------------------------------------
(* Records about one call of the open batch.                               *)

\* A call of the batch with other facts is in another slot.
LEMMA Retooled ==
  ASSUME NEW j, NEW t, NEW n, NEW cs, NEW sl, Working(j, t, n, cs, sl),
         NEW c \in Calls, sl[c] # "none", NEW u \in Tools, u.requested,
         NEW s \in SlotStates, s # "none", Slotted(u, s)
  PROVE  Working(With(j, c, u), t, n, cs, [sl EXCEPT ![c] = s])
<1> DEFINE k == With(j, c, u)   sk == [sl EXCEPT ![c] = s]
<1>1. k \in Journals /\ k.tool[c] = u /\ k.pending = j.pending
  BY WithFacts DEF Working
<1>2. /\ k.sound = j.sound /\ k.turns = j.turns /\ k.open = j.open /\ k.step = j.step
      /\ k.agent = j.agent
      /\ \A d \in Calls : d # c => k.tool[d] = j.tool[d]
  BY DEF With, Working, Journals
<1>3. /\ sk \in [Calls -> SlotStates] /\ sk[c] = s
      /\ \A d \in Calls : d # c => sk[d] = sl[d]
  BY DEF Working
<1> HIDE DEF k, sk
<1>4. ASSUME NEW d \in Calls
      PROVE  /\ Slotted(k.tool[d], sk[d])
             /\ sk[d] # "none" <=> Member(cs, d)
             /\ Member(cs, d) => k.tool[d].requested
  BY <1>1, <1>2, <1>3 DEF Working
<1>5. Working(k, t, n, cs, sk)
  BY <1>1, <1>2, <1>3, <1>4 DEF Working
<1> QED BY <1>5 DEF k, sk

\* A call of the batch can be recorded about.
LEMMA Recordable ==
  ASSUME NEW j, NEW t, NEW n, NEW cs, NEW sl, Working(j, t, n, cs, sl),
         NEW c \in Calls, sl[c] # "none"
  PROVE  /\ j \in Journals
         /\ InPendingBatch(j, c) /\ j.tool[c].requested
         /\ j.tool[c] \in Tools
         /\ Slotted(j.tool[c], sl[c])
         /\ \A u \in Tools : /\ With(j, c, u) \in Journals
                             /\ With(j, c, u).tool[c] = u
                             /\ InPendingBatch(With(j, c, u), c)
<1>1. /\ j \in Journals /\ j.pending = cs /\ Member(cs, c) /\ j.tool[c].requested
      /\ Slotted(j.tool[c], sl[c])
  BY DEF Working
<1>2. InPendingBatch(j, c)
  BY <1>1 DEF InPendingBatch, Member
<1>3. j.tool[c] \in Tools
  BY <1>1 DEF Journals
<1>4. ASSUME NEW u \in Tools
      PROVE  /\ With(j, c, u) \in Journals /\ With(j, c, u).tool[c] = u
             /\ InPendingBatch(With(j, c, u), c)
  BY <1>1, <1>2, WithFacts DEF InPendingBatch
<1> QED BY <1>1, <1>2, <1>3, <1>4

\* An admitted call runs, is asked about, or fails (admission_resolved).
LEMMA Admitted ==
  ASSUME NEW j, NEW t, NEW n, NEW cs, NEW sl, Working(j, t, n, cs, sl),
         NEW c \in Calls, sl[c] = "admission"
  PROVE  /\ \A s \in {"running", "failed"} :
              Working(Retell(j, <<ToolPermissionDecided(c), ToolCallChanged(c, s)>>), t, n, cs,
                      [sl EXCEPT ![c] = IF s = "running" THEN s ELSE "finished"])
         /\ Working(Retell(j, <<ToolPermissionDecided(c),
                                ToolCallChanged(c, "awaiting_approval"),
                                AttentionRequested(c)>>), t, n, cs, [sl EXCEPT ![c] = "waiting"])
         /\ Working(Retell(j, <<ToolCallChanged(c, "failed")>>), t, n, cs,
                    [sl EXCEPT ![c] = "finished"])
<1> DEFINE u  == j.tool[c]
           u1 == [u EXCEPT !.permission = u.status]
           j1 == With(j, c, u1)
<1>0. sl[c] # "none"
  OBVIOUS
<1>1. /\ j \in Journals /\ InPendingBatch(j, c) /\ u \in Tools /\ u.requested
      /\ u.status = "queued" /\ u.permission = "absent" /\ ~u.attention
  BY <1>0, Recordable DEF Slotted
<1>2. u1 \in Tools /\ u1.requested /\ u1.status = "queued" /\ u1.permission = "queued"
      /\ ~u1.attention
  BY <1>1 DEF Tools
<1>3. Enter(j, ToolPermissionDecided(c)) = j1
  BY <1>1, CallRecord
<1> HIDE DEF u1
<1>4. j1 \in Journals /\ j1.tool[c] = u1 /\ InPendingBatch(j1, c)
  BY <1>0, <1>2, Recordable
<1> USE CallRecordTypes
<1>5. ASSUME NEW s \in {"running", "failed"}
      PROVE  Working(Retell(j, <<ToolPermissionDecided(c), ToolCallChanged(c, s)>>), t, n, cs,
                     [sl EXCEPT ![c] = IF s = "running" THEN s ELSE "finished"])
  <2> DEFINE u2 == [u1 EXCEPT !.status = s]
             x  == IF s = "running" THEN s ELSE "finished"
  <2>1. s \in ToolStatus /\ CanTransition(u1.status, s)
    BY <1>2 DEF ToolStatus, CanTransition
  <2>2. u2 \in Tools /\ u2.requested /\ Slotted(u2, x) /\ x \in SlotStates /\ x # "none"
    BY <1>2, <2>1 DEF Tools, Slotted, SlotStates, Terminal
  <2>3. Enter(j1, ToolCallChanged(c, s)) = With(j1, c, u2)
    <3> HIDE DEF j1
    <3> QED BY <1>2, <1>4, <2>1, CallRecord
  <2> HIDE DEF u2, x, u
  <2>4. With(j1, c, u2) = With(j, c, u2)
    BY <1>1, <1>2, <2>2, WithFacts
  <2>5. Retell(j, <<ToolPermissionDecided(c), ToolCallChanged(c, s)>>) = With(j, c, u2)
    BY <1>1, <1>3, <2>1, <2>3, <2>4, RetellTwo
  <2>6. Working(With(j, c, u2), t, n, cs, [sl EXCEPT ![c] = x])
    BY <1>0, <2>2, Retooled
  <2> QED BY <2>5, <2>6 DEF x
<1>6. Working(Retell(j, <<ToolPermissionDecided(c), ToolCallChanged(c, "awaiting_approval"),
                          AttentionRequested(c)>>), t, n, cs, [sl EXCEPT ![c] = "waiting"])
  <2> DEFINE u2 == [u1 EXCEPT !.status = "awaiting_approval"]
             u3 == [u2 EXCEPT !.attention = TRUE]
             j2 == With(j, c, u2)
  <2>1. "awaiting_approval" \in ToolStatus /\ CanTransition(u1.status, "awaiting_approval")
    BY <1>2 DEF ToolStatus, CanTransition
  <2>2. u2 \in Tools /\ u2.requested /\ u2.status = "awaiting_approval"
        /\ u3 \in Tools /\ u3.requested /\ Slotted(u3, "waiting")
    BY <1>2, <2>1 DEF Tools, Slotted, Terminal
  <2>3. Enter(j1, ToolCallChanged(c, "awaiting_approval")) = With(j1, c, u2)
    <3> HIDE DEF j1
    <3> QED BY <1>2, <1>4, <2>1, CallRecord
  <2> HIDE DEF u, u2
  <2>4. With(j1, c, u2) = j2
    BY <1>1, <1>2, <2>2, WithFacts
  <2>5. j2 \in Journals /\ j2.tool[c] = u2 /\ InPendingBatch(j2, c)
    BY <1>0, <2>2, Recordable
  <2>6. Enter(j2, AttentionRequested(c)) = With(j2, c, u3)
    <3> HIDE DEF j2
    <3> QED BY <2>2, <2>5, CallRecord
  <2> HIDE DEF u3
  <2>7. With(j2, c, u3) = With(j, c, u3)
    BY <1>1, <2>2, WithFacts
  <2>8. Retell(j, <<ToolPermissionDecided(c), ToolCallChanged(c, "awaiting_approval"),
                    AttentionRequested(c)>>) = With(j, c, u3)
    <3> HIDE DEF j1, j2
    <3> QED BY <1>1, <1>3, <2>1, <2>3, <2>4, <2>6, <2>7, RetellThree
  <2>9. Working(With(j, c, u3), t, n, cs, [sl EXCEPT ![c] = "waiting"])
    BY <1>0, <2>2, Retooled DEF SlotStates
  <2> QED BY <2>8, <2>9
<1>7. Working(Retell(j, <<ToolCallChanged(c, "failed")>>), t, n, cs,
              [sl EXCEPT ![c] = "finished"])
  <2> DEFINE u2 == [u EXCEPT !.status = "failed"]
  <2>1. "failed" \in ToolStatus /\ CanTransition(u.status, "failed")
    BY <1>1 DEF ToolStatus, CanTransition
  <2>2. u2 \in Tools /\ u2.requested /\ Slotted(u2, "finished")
    BY <1>1, <2>1 DEF Tools, Slotted, Terminal
  <2>3. Enter(j, ToolCallChanged(c, "failed")) = With(j, c, u2)
    BY <1>1, <2>1, CallRecord
  <2> HIDE DEF u, u2
  <2>4. Retell(j, <<ToolCallChanged(c, "failed")>>) = With(j, c, u2)
    BY <1>1, <2>1, <2>3, RetellOne
  <2>5. Working(With(j, c, u2), t, n, cs, [sl EXCEPT ![c] = "finished"])
    BY <1>0, <2>2, Retooled DEF SlotStates
  <2> QED BY <2>4, <2>5
<1> QED BY <1>5, <1>6, <1>7

\* A running call gets its outcome (tool_finished).
LEMMA Executed ==
  ASSUME NEW j, NEW t, NEW n, NEW cs, NEW sl, Working(j, t, n, cs, sl),
         NEW c \in Calls, sl[c] = "running", NEW s \in {"succeeded", "failed", "cancelled"}
  PROVE  Working(Retell(j, <<ToolCallChanged(c, s)>>), t, n, cs, [sl EXCEPT ![c] = "finished"])
<1> DEFINE u == j.tool[c]   u2 == [u EXCEPT !.status = s]
<1>0. sl[c] # "none"
  OBVIOUS
<1>1. /\ j \in Journals /\ InPendingBatch(j, c) /\ u \in Tools /\ u.requested
      /\ u.status = "running" /\ ~u.attention
  BY <1>0, Recordable DEF Slotted
<1>2. s \in ToolStatus /\ CanTransition(u.status, s)
  BY <1>1 DEF ToolStatus, CanTransition
<1>3. u2 \in Tools /\ u2.requested /\ Slotted(u2, "finished")
  BY <1>1, <1>2 DEF Tools, Slotted, Terminal
<1>4. Enter(j, ToolCallChanged(c, s)) = With(j, c, u2)
  BY <1>1, <1>2, CallRecord
<1> HIDE DEF u, u2
<1>5. Retell(j, <<ToolCallChanged(c, s)>>) = With(j, c, u2)
  BY <1>1, <1>2, <1>4, RetellOne, CallRecordTypes
<1>6. Working(With(j, c, u2), t, n, cs, [sl EXCEPT ![c] = "finished"])
  BY <1>0, <1>3, Retooled DEF SlotStates
<1> QED BY <1>5, <1>6

\* A held call is denied or runs (finish_approval, release_allowed_approvals).
LEMMA Decided ==
  ASSUME NEW j, NEW t, NEW n, NEW cs, NEW sl, Working(j, t, n, cs, sl),
         NEW c \in Calls, sl[c] \in {"waiting", "preparing"}, NEW s \in {"denied", "running"}
  PROVE  Working(Retell(j, <<ToolPermissionDecided(c), AttentionResolved(c),
                             ToolCallChanged(c, s)>>), t, n, cs,
                 [sl EXCEPT ![c] = IF s = "running" THEN s ELSE "finished"])
<1> DEFINE u  == j.tool[c]
           u1 == [u EXCEPT !.permission = u.status]
           u2 == [u1 EXCEPT !.attention = FALSE]
           u3 == [u2 EXCEPT !.status = s]
           j1 == With(j, c, u1)
           j2 == With(j, c, u2)
           x  == IF s = "running" THEN s ELSE "finished"
<1>0. sl[c] # "none"
  OBVIOUS
<1>1. /\ j \in Journals /\ InPendingBatch(j, c) /\ u \in Tools /\ u.requested
      /\ u.status = "awaiting_approval" /\ u.permission = "queued" /\ u.attention
  BY <1>0, Recordable DEF Slotted
<1>2. s \in ToolStatus /\ CanTransition("awaiting_approval", s) /\ x \in SlotStates /\ x # "none"
  BY DEF ToolStatus, CanTransition, SlotStates
<1>3. /\ u1 \in Tools /\ u1.requested /\ u1.status = "awaiting_approval"
      /\ u1.permission = "awaiting_approval"
  BY <1>1 DEF Tools
<1>4. Enter(j, ToolPermissionDecided(c)) = j1
  BY <1>1, CallRecord
<1> HIDE DEF u, u1
<1>5. /\ u2 \in Tools /\ u2.requested /\ u2.status = "awaiting_approval"
      /\ u2.permission = "awaiting_approval" /\ ~u2.attention
  BY <1>3 DEF Tools
<1>6. j1 \in Journals /\ j1.tool[c] = u1 /\ InPendingBatch(j1, c)
  BY <1>0, <1>3, Recordable
<1>7. Enter(j1, AttentionResolved(c)) = With(j1, c, u2)
  <2> HIDE DEF j1
  <2> QED BY <1>3, <1>6, CallRecord
<1> HIDE DEF u2
<1>8. With(j1, c, u2) = j2
  BY <1>1, <1>3, <1>5, WithFacts
<1>9. j2 \in Journals /\ j2.tool[c] = u2 /\ InPendingBatch(j2, c)
  BY <1>0, <1>5, Recordable
<1>10. u3 \in Tools /\ u3.requested /\ Slotted(u3, x)
  BY <1>2, <1>5 DEF Tools, Slotted, Terminal
<1>11. Enter(j2, ToolCallChanged(c, s)) = With(j2, c, u3)
  <2> HIDE DEF j2
  <2> QED BY <1>2, <1>5, <1>9, CallRecord
<1> HIDE DEF u3
<1>12. With(j2, c, u3) = With(j, c, u3)
  BY <1>1, <1>5, <1>10, WithFacts
<1>13. Retell(j, <<ToolPermissionDecided(c), AttentionResolved(c), ToolCallChanged(c, s)>>)
         = With(j, c, u3)
  <2> HIDE DEF j1, j2
  <2> QED BY <1>1, <1>2, <1>4, <1>7, <1>8, <1>11, <1>12, RetellThree, CallRecordTypes
<1> HIDE DEF x
<1>14. Working(With(j, c, u3), t, n, cs, [sl EXCEPT ![c] = x])
  BY <1>0, <1>2, <1>10, Retooled
<1> QED BY <1>13, <1>14 DEF x

LEMMA ApprovedShown ==
  ASSUME NEW j, NEW t, NEW n, NEW cs, NEW sl, Working(j, t, n, cs, sl),
         NEW c \in Calls, sl[c] \in {"waiting", "preparing"}
  PROVE  /\ Approved(c) \in Seq(Records)
         /\ Working(Retell(j, Approved(c)), t, n, cs, [sl EXCEPT ![c] = "running"])
<1>1. Approved(c) \in Seq(Records)
  BY CallRecordTypes DEF Approved, ToolStatus
<1>2. ASSUME NEW s \in {"denied", "running"}, s = "running"
      PROVE  Working(Retell(j, <<ToolPermissionDecided(c), AttentionResolved(c),
                                 ToolCallChanged(c, s)>>), t, n, cs, [sl EXCEPT ![c] = s])
  BY <1>2, Decided
<1> QED BY <1>1, <1>2 DEF Approved

\* A call without an outcome is cancelled, its question resolved (abandon).
LEMMA PaidOffShown ==
  ASSUME NEW j, NEW t, NEW n, NEW cs, NEW sl, Working(j, t, n, cs, sl),
         NEW c \in Calls, sl[c] # "none", slot[c] = sl[c]
  PROVE  /\ PaidOff(c) \in Seq(Records)
         /\ Working(Retell(j, PaidOff(c)), t, n, cs, [sl EXCEPT ![c] = "finished"])
<1> DEFINE u  == j.tool[c]
           u1 == [u EXCEPT !.attention = FALSE]
           u2 == [u1 EXCEPT !.status = "cancelled"]
           j1 == With(j, c, u1)
<1>1. /\ j \in Journals /\ InPendingBatch(j, c) /\ u \in Tools /\ u.requested
      /\ Slotted(u, sl[c])
  BY Recordable
<1>2. sl \in [Calls -> SlotStates]
  BY DEF Working
<1> USE CallRecordTypes DEF ToolStatus
<1>3. CASE sl[c] = "finished"
  <2>1. PaidOff(c) = <<>> /\ [sl EXCEPT ![c] = "finished"] = sl
    BY <1>2, <1>3 DEF PaidOff
  <2> QED BY <1>1, <2>1, RetellNone
<1>4. CASE sl[c] \in {"waiting", "preparing"}
  <2>1. u.status = "awaiting_approval"
    BY <1>1, <1>4 DEF Slotted
  <2>2. u1 \in Tools /\ u1.requested /\ u1.status = "awaiting_approval" /\ ~u1.attention
    BY <1>1, <2>1 DEF Tools
  <2>3. Enter(j, AttentionResolved(c)) = j1
    BY <1>1, CallRecord
  <2> HIDE DEF u, u1
  <2>4. j1 \in Journals /\ j1.tool[c] = u1 /\ InPendingBatch(j1, c)
    BY <2>2, Recordable
  <2>5. u2 \in Tools /\ u2.requested /\ Slotted(u2, "finished")
    BY <2>2 DEF Tools, Slotted, Terminal
  <2>6. Enter(j1, ToolCallChanged(c, "cancelled")) = With(j1, c, u2)
    <3>1. CanTransition(u1.status, "cancelled")
      BY <2>2 DEF CanTransition
    <3> HIDE DEF j1
    <3> QED BY <2>2, <2>4, <3>1, CallRecord
  <2> HIDE DEF u2
  <2>7. With(j1, c, u2) = With(j, c, u2)
    BY <1>1, <2>2, <2>5, WithFacts
  <2> DEFINE r == <<AttentionResolved(c)>>   x == <<ToolCallChanged(c, "cancelled")>>
  <2>8. PaidOff(c) = r \o x /\ r \in Seq(Records) /\ x \in Seq(Records)
    BY <1>4 DEF PaidOff
  <2>9. Retell(j, PaidOff(c)) = With(j, c, u2)
    <3>1. Retell(j, r) = j1 /\ Retell(j1, x) = With(j1, c, u2)
      <4> HIDE DEF j1
      <4> QED BY <1>1, <2>3, <2>4, <2>6, RetellOne
    <3> HIDE DEF j1, r, x
    <3>2. Retell(j, r \o x) = Retell(Retell(j, r), x)
      BY <1>1, <2>8, RetellConcat
    <3> QED BY <2>7, <2>8, <3>1, <3>2
  <2>10. Working(With(j, c, u2), t, n, cs, [sl EXCEPT ![c] = "finished"])
    BY <2>5, Retooled DEF SlotStates
  <2>11. PaidOff(c) \in Seq(Records)
    <3> HIDE DEF r, x
    <3> QED BY <2>8
  <2> QED BY <2>9, <2>10, <2>11
<1>5. CASE sl[c] \in {"admission", "running"}
  <2> DEFINE w == [u EXCEPT !.status = "cancelled"]
  <2>1. u.status \in {"queued", "running"} /\ ~u.attention
    BY <1>1, <1>5 DEF Slotted
  <2>2. w \in Tools /\ w.requested /\ Slotted(w, "finished")
    BY <1>1, <2>1 DEF Tools, Slotted, Terminal
  <2>3. Enter(j, ToolCallChanged(c, "cancelled")) = With(j, c, w)
    BY <1>1, <2>1, CallRecord DEF CanTransition
  <2> HIDE DEF w
  <2> DEFINE x == <<ToolCallChanged(c, "cancelled")>>
  <2>4. PaidOff(c) = x /\ x \in Seq(Records)
    <3>1. slot[c] \notin {"waiting", "preparing", "finished"}
      BY <1>5
    <3>2. x \in Seq(Records)
      OBVIOUS
    <3> HIDE DEF x
    <3>3. PaidOff(c) = <<>> \o x
      BY <3>1 DEF PaidOff, x
    <3> QED BY <3>2, <3>3
  <2>5. Retell(j, PaidOff(c)) = With(j, c, w)
    BY <1>1, <2>3, <2>4, RetellOne
  <2>6. Working(With(j, c, w), t, n, cs, [sl EXCEPT ![c] = "finished"])
    BY <2>2, Retooled DEF SlotStates
  <2> QED BY <2>4, <2>5, <2>6
<1> QED BY <1>2, <1>3, <1>4, <1>5 DEF SlotStates

-----------------------------------------------------------------------------
(* Records that open, move and end turns.                                  *)

\* A batch whose calls all have outcomes is settled.
LEMMA Settles ==
  ASSUME NEW j, NEW t, NEW n, NEW cs, NEW sl, Working(j, t, n, cs, sl), cs \in Seq(Calls),
         \A c \in Calls : Member(cs, c) => sl[c] = "finished"
  PROVE  Between(j, t, n)
<1>1. ASSUME NEW c \in Calls
      PROVE  /\ j.tool[c].status \in Terminal \cup {"absent"} /\ ~j.tool[c].attention
             /\ Member(cs, c) => j.tool[c].status \in Terminal
  <2>1. /\ Slotted(j.tool[c], sl[c])
        /\ sl[c] # "none" <=> Member(cs, c)
        /\ sl[c] = "none" \/ sl[c] = "finished"
    BY DEF Working
  <2> QED BY <2>1 DEF Slotted
<1>2. BatchSettled(j)
  <2>1. j.pending = cs /\ \A i \in DOMAIN cs : cs[i] \in Calls /\ Member(cs, cs[i])
    BY DEF Working, Member
  <2> QED BY <1>1, <2>1 DEF BatchSettled
<1>3. Quiet(j)
  BY <1>1, <1>2 DEF Quiet
<1> QED BY <1>3 DEF Working, Between

\* A turn opens (open_turn).
LEMMA Opens ==
  ASSUME NEW t \in Nat, NEW j, Idle(j, t),
         NEW r \in {TurnStarted(t + 1), CollaborationTurnStarted(t + 1)}
  PROVE  r \in Records /\ Streaming(Enter(j, r), t + 1, 1)
<1> DEFINE k == StartTurn(j, t + 1)
<1>1. r \in Records
  <2>1. t + 1 \in Nat
    OBVIOUS
  <2> QED BY <2>1, TurnRecordTypes
<1>2. r.kind \in {"turn_started", "collaboration_turn_started"} /\ r.turn = t + 1
  BY DEF TurnStarted, CollaborationTurnStarted
<1>3. j \in Journals /\ j.turns = t /\ j.open = 0 /\ BatchSettled(j)
  BY DEF Idle, Quiet
<1>4. Enter(j, r) = k
  <2>1. Regular(j, r) /\ Valid(j, r)
    BY <1>2, <1>3 DEF Regular, Valid
  <2>2. Projectable(j, r)
    BY <1>2, <1>3 DEF Projectable
  <2>3. Fact(j, r) = k
    BY <1>2, <1>3 DEF Fact
  <2> QED BY <2>1, <2>2, <2>3, Entered
<1>5. k \in Journals
  BY <1>3, StartTyped
<1>6. /\ k.sound = j.sound /\ k.turns = t + 1 /\ k.open = t + 1 /\ k.step = 0
      /\ k.agent = "running" /\ k.pending = <<>> /\ k.tool = j.tool
  BY <1>3 DEF StartTurn, Journals
<1> HIDE DEF k
<1>7. Quiet(k)
  BY <1>6 DEF Idle, Quiet, BatchSettled
<1>8. Streaming(k, t + 1, 1)
  BY <1>5, <1>6, <1>7 DEF Idle, Streaming, Between
<1> QED BY <1>1, <1>4, <1>8

\* A turn ends (finish_turn).
LEMMA Ends ==
  ASSUME NEW t \in Nat, NEW n, NEW j, Between(j, t, n), NEW o \in Outcomes
  PROVE  TurnFinished(t, o) \in Records /\ Idle(Enter(j, TurnFinished(t, o)), t)
<1> DEFINE r == TurnFinished(t, o)
           k == [j EXCEPT !.open = 0, !.agent = "idle", !.pending = <<>>]
<1>1. r \in Records
  BY TurnRecordTypes
<1>2. j \in Journals /\ j.turns = t /\ j.open = t /\ BatchSettled(j) /\ t >= 1
  BY DEF Between, Quiet
<1>3. Enter(j, r) = k
  <2>1. Regular(j, r) /\ Valid(j, r)
    BY <1>2 DEF Regular, Valid, TurnFinished, TurnIsOpen
  <2>2. Projectable(j, r)
    BY <1>2 DEF Projectable, TurnFinished
  <2>3. Fact(j, r) = k
    BY <1>2 DEF Fact, TurnFinished
  <2> QED BY <2>1, <2>2, <2>3, Entered
<1>4. k \in Journals
  BY <1>2, FinishTyped
<1>5. /\ k.sound = j.sound /\ k.turns = t /\ k.open = 0 /\ k.agent = "idle"
      /\ k.pending = <<>> /\ k.tool = j.tool
  BY <1>2 DEF Journals
<1> HIDE DEF k
<1>6. Idle(k, t)
  BY <1>4, <1>5 DEF Between, Idle, Quiet, BatchSettled
<1> QED BY <1>1, <1>3, <1>6

\* Steering is accepted between two steps (next_step).
LEMMA Steered ==
  ASSUME NEW t \in Nat, NEW n, NEW j, Between(j, t, n)
  PROVE  Between(Enter(j, SteeringAccepted(t)), t, n)
<1> DEFINE r == SteeringAccepted(t)
           k == [j EXCEPT !.pending = <<>>, !.markers = 0]
<1>1. r \in Records
  BY TurnRecordTypes
<1>2. j \in Journals /\ j.turns = t /\ j.open = t /\ BatchSettled(j) /\ t >= 1
  BY DEF Between, Quiet
<1>3. Enter(j, r) = k
  <2>1. Regular(j, r) /\ Valid(j, r)
    BY <1>2 DEF Regular, Valid, SteeringAccepted, TurnIsOpen
  <2>2. Projectable(j, r)
    BY <1>2 DEF Projectable, SteeringAccepted
  <2>3. Fact(j, r) = k
    BY <1>2 DEF Fact, SteeringAccepted
  <2> QED BY <2>1, <2>2, <2>3, Entered
<1>4. k \in Journals
  BY <1>1, <1>2, <1>3, EnterTyped
<1>5. /\ k.sound = j.sound /\ k.turns = t /\ k.open = t /\ k.step = j.step
      /\ k.pending = <<>> /\ k.tool = j.tool
  BY <1>2 DEF Journals
<1> HIDE DEF k
<1>6. Between(k, t, n)
  BY <1>4, <1>5 DEF Between, Quiet, BatchSettled
<1> QED BY <1>3, <1>6

\* The next step's request is announced (next_step).
LEMMA Resumes ==
  ASSUME NEW t \in Nat, NEW n, NEW j, Between(j, t, n)
  PROVE  Streaming(Enter(j, TurnStatusChanged(t, "running")), t, n + 1)
<1> DEFINE r == TurnStatusChanged(t, "running")
           k == [j EXCEPT !.agent = "running"]
<1>1. r \in Records
  BY TurnRecordTypes DEF AgentStatus
<1>2. j \in Journals /\ j.turns = t /\ j.open = t /\ t >= 1
  BY DEF Between
<1>3. Enter(j, r) = k
  <2>1. Regular(j, r) /\ Valid(j, r)
    BY <1>2 DEF Regular, Valid, TurnStatusChanged, TurnIsOpen
  <2>2. Projectable(j, r)
    BY <1>2 DEF Projectable, TurnStatusChanged
  <2>3. Fact(j, r) = k
    BY <1>2 DEF Fact, TurnStatusChanged
  <2> QED BY <2>1, <2>2, <2>3, Entered
<1>4. k \in Journals
  BY <1>1, <1>2, <1>3, EnterTyped
<1>5. /\ k.sound = j.sound /\ k.turns = t /\ k.open = t /\ k.step = j.step
      /\ k.pending = j.pending /\ k.tool = j.tool /\ k.agent = "running"
  BY <1>2 DEF Journals
<1> HIDE DEF k
<1>6. Streaming(k, t, n + 1)
  BY <1>4, <1>5 DEF Between, Streaming, Quiet, BatchSettled
<1> QED BY <1>3, <1>6

\* A step that is stopped keeps what it showed (abort_step).
LEMMA RetainedShown ==
  ASSUME NEW t \in Nat, NEW n \in Nat, NEW j, Streaming(j, t, n)
  PROVE  Between(Enter(j, AssistantOutput(t, n, <<>>)), t, n)
<1> DEFINE none == <<>>
           r == AssistantOutput(t, n, none)
           k == [j EXCEPT !.step = n, !.pending = none, !.tool = Queued(j, none)]
<1>1. none \in Seq(Calls) /\ DOMAIN none = {}
  OBVIOUS
<1> HIDE DEF none
<1>2. /\ j \in Journals /\ j.turns = t /\ j.open = t /\ t >= 1 /\ BatchSettled(j)
      /\ n = j.step + 1
  BY DEF Streaming, Between, Quiet
<1>3. Enter(j, r) = k
  <2>1. Regular(j, r) /\ Valid(j, r)
    BY <1>1, <1>2 DEF Regular, Valid, AssistantOutput, TurnIsOpen
  <2>2. Projectable(j, r)
    BY <1>1, <1>2 DEF Projectable, AssistantOutput
  <2>3. Fact(j, r) = k
    BY <1>1, <1>2 DEF Fact, AssistantOutput, Queued
  <2> QED BY <2>1, <2>2, <2>3, Entered
<1>4. k \in Journals
  BY <1>1, <1>2, OutputTyped
<1>5. Queued(j, none) = j.tool
  BY <1>1, <1>2 DEF Queued, Journals
<1>6. /\ k.sound = j.sound /\ k.turns = t /\ k.open = t /\ k.step = n
      /\ k.pending = none /\ k.tool = j.tool
  BY <1>2, <1>5 DEF Journals
<1> HIDE DEF k
<1>7. Between(k, t, n)
  BY <1>1, <1>4, <1>6 DEF Streaming, Between, Quiet, BatchSettled
<1> QED BY <1>3, <1>7 DEF none

\* While a batch is being recorded, its first m calls are requested.
Requesting(j, t, n, cs, m) ==
  /\ j \in Journals
  /\ j.sound
  /\ t >= 1
  /\ j.turns = t
  /\ j.open = t
  /\ j.step = n
  /\ j.pending = cs
  /\ \A c \in Calls :
       /\ Member(cs, c) => /\ Slotted(j.tool[c], "admission")
                           /\ j.tool[c].requested <=> \E i \in 1..m : cs[i] = c
       /\ ~Member(cs, c) => Slotted(j.tool[c], "none")

\* A streamed batch is recorded with its output.
LEMMA OutputShown ==
  ASSUME NEW t \in Nat, NEW n \in Nat, NEW cs \in Seq(Calls), NEW j, Streaming(j, t, n),
         Distinct(cs), \A c \in Calls : Member(cs, c) => j.tool[c].status = "absent"
  PROVE  Requesting(Enter(j, AssistantOutput(t, n, cs)), t, n, cs, 0)
<1> DEFINE r == AssistantOutput(t, n, cs)
           k == [j EXCEPT !.step = n, !.pending = cs, !.tool = Queued(j, cs)]
<1>1. /\ j \in Journals /\ j.turns = t /\ j.open = t /\ t >= 1 /\ BatchSettled(j)
      /\ n = j.step + 1
  BY DEF Streaming, Between, Quiet
<1>2. \A i \in DOMAIN cs : j.tool[cs[i]].status = "absent"
  <2>1. \A i \in DOMAIN cs : cs[i] \in Calls /\ Member(cs, cs[i])
    BY DEF Member
  <2> QED BY <2>1
<1>3. Valid(j, r)
  BY <1>1 DEF Valid, AssistantOutput, TurnIsOpen
<1>4. Projectable(j, r)
  BY <1>1, <1>2 DEF Projectable, AssistantOutput, Distinct
<1>5. Fact(j, r) = k
  BY DEF Fact, AssistantOutput, Queued
<1>6. Enter(j, r) = k
  BY <1>3, <1>4, <1>5 DEF Enter, Regular, Apply, AssistantOutput
<1>7. k \in Journals
  BY <1>1, OutputTyped
<1>8. /\ k.sound = j.sound /\ k.turns = t /\ k.open = t /\ k.step = n
      /\ k.pending = cs /\ k.tool = Queued(j, cs)
  BY <1>1 DEF Journals
<1> HIDE DEF k
<1>9. ASSUME NEW c \in Calls
      PROVE  /\ Member(cs, c) => /\ Slotted(k.tool[c], "admission")
                                 /\ ~k.tool[c].requested
             /\ ~Member(cs, c) => Slotted(k.tool[c], "none")
  <2>1. k.tool[c] = IF Member(cs, c) THEN [Unknown EXCEPT !.status = "queued"] ELSE j.tool[c]
    BY <1>8 DEF Queued, Member
  <2>2. CASE Member(cs, c)
    BY <2>1, <2>2 DEF Unknown, Slotted
  <2>3. CASE ~Member(cs, c)
    BY <2>1, <2>3 DEF Streaming, Between, Quiet, Slotted
  <2> QED BY <2>2, <2>3
<1>10. Requesting(k, t, n, cs, 0)
  BY <1>1, <1>7, <1>8, <1>9 DEF Requesting, Streaming, Between
<1> QED BY <1>6, <1>10

\* The next call is requested.
LEMMA RequestShown ==
  ASSUME NEW t, NEW n, NEW cs \in Seq(Calls), Distinct(cs), NEW m \in 1..Len(cs),
         NEW j, Requesting(j, t, n, cs, m - 1)
  PROVE  Requesting(Enter(j, ToolCallRequested(cs[m])), t, n, cs, m)
<1> DEFINE c == cs[m]
           u == [j.tool[c] EXCEPT !.requested = TRUE]
           k == With(j, c, u)
<1>1. c \in Calls /\ Member(cs, c) /\ j \in Journals /\ j.pending = cs
  BY DEF Member, Requesting
<1>2. \A i \in 1..(m - 1) : cs[i] # c
  BY DEF Distinct
<1> HIDE DEF c
<1>3. ~j.tool[c].requested /\ j.tool[c] \in Tools /\ Slotted(j.tool[c], "admission")
  BY <1>1, <1>2 DEF Requesting, Journals
<1>4. Enter(j, ToolCallRequested(c)) = k
  <2>1. Regular(j, ToolCallRequested(c)) /\ Valid(j, ToolCallRequested(c))
    BY <1>1, <1>3 DEF Regular, Valid, ToolCallRequested
  <2>2. Projectable(j, ToolCallRequested(c))
    BY <1>1, <1>3 DEF Projectable, ToolCallRequested, InPendingBatch, Member
  <2>3. Fact(j, ToolCallRequested(c)) = k
    BY <1>1, <1>3 DEF Fact, ToolCallRequested, With
  <2> QED BY <2>1, <2>2, <2>3, Entered
<1>5. u \in Tools /\ u.requested /\ Slotted(u, "admission")
  BY <1>3 DEF Tools, Slotted
<1> HIDE DEF u
<1>6. k \in Journals /\ k.tool[c] = u /\ k.pending = cs
  BY <1>1, <1>5, WithFacts
<1>7. /\ k.sound = j.sound /\ k.turns = j.turns /\ k.open = j.open /\ k.step = j.step
      /\ \A d \in Calls : d # c => k.tool[d] = j.tool[d]
  BY <1>1 DEF With, Journals
<1> HIDE DEF k
<1>8. ASSUME NEW d \in Calls
      PROVE  /\ Member(cs, d) => /\ Slotted(k.tool[d], "admission")
                                 /\ k.tool[d].requested <=> \E i \in 1..m : cs[i] = d
             /\ ~Member(cs, d) => Slotted(k.tool[d], "none")
  <2>1. CASE d = c
    BY <1>1, <1>5, <1>6, <2>1 DEF c
  <2>2. CASE d # c
    <3>1. (\E i \in 1..m : cs[i] = d) <=> (\E i \in 1..(m - 1) : cs[i] = d)
      BY <2>2 DEF c
    <3> QED BY <1>7, <2>2, <3>1 DEF Requesting
  <2> QED BY <2>1, <2>2
<1>9. Requesting(k, t, n, cs, m)
  BY <1>6, <1>7, <1>8 DEF Requesting
<1> QED BY <1>4, <1>9 DEF c

\* A requested batch works (dispatch).
LEMMA WorkShown ==
  ASSUME NEW t \in Nat, NEW n, NEW cs \in Seq(Calls), Distinct(cs),
         NEW j, Requesting(j, t, n, cs, Len(cs))
  PROVE  Working(Enter(j, TurnStatusChanged(t, "waiting")), t, n, cs,
                 [c \in Calls |-> IF Member(cs, c) THEN "admission" ELSE "none"])
<1> DEFINE r == TurnStatusChanged(t, "waiting")
           k == [j EXCEPT !.agent = "waiting"]
           sl == [c \in Calls |-> IF Member(cs, c) THEN "admission" ELSE "none"]
<1>1. j \in Journals /\ j.turns = t /\ j.open = t /\ t >= 1
  BY DEF Requesting
<1>2. Enter(j, r) = k
  <2>1. Regular(j, r) /\ Valid(j, r)
    BY <1>1 DEF Regular, Valid, TurnStatusChanged, TurnIsOpen
  <2>2. Projectable(j, r)
    BY <1>1 DEF Projectable, TurnStatusChanged
  <2>3. Fact(j, r) = k
    BY <1>1 DEF Fact, TurnStatusChanged
  <2> QED BY <2>1, <2>2, <2>3, Entered
<1>3. k \in Journals
  BY <1>1, Updated DEF AgentStatus
<1>4. /\ k.sound = j.sound /\ k.turns = t /\ k.open = t /\ k.step = j.step
      /\ k.pending = j.pending /\ k.tool = j.tool /\ k.agent = "waiting"
  BY <1>1 DEF Journals
<1>5. /\ sl \in [Calls -> SlotStates]
      /\ \A c \in Calls : sl[c] = IF Member(cs, c) THEN "admission" ELSE "none"
  BY DEF SlotStates
<1> HIDE DEF k, sl
<1>6. ASSUME NEW c \in Calls
      PROVE  /\ Slotted(k.tool[c], sl[c])
             /\ sl[c] # "none" <=> Member(cs, c)
             /\ Member(cs, c) => k.tool[c].requested
  <2>1. CASE Member(cs, c)
    <3>1. \E i \in 1..Len(cs) : cs[i] = c
      BY <2>1 DEF Member
    <3> QED BY <1>4, <1>5, <2>1, <3>1 DEF Requesting
  <2>2. CASE ~Member(cs, c)
    BY <1>4, <1>5, <2>2 DEF Requesting
  <2> QED BY <2>1, <2>2
<1>7. Working(k, t, n, cs, sl)
  BY <1>1, <1>3, <1>4, <1>5, <1>6 DEF Requesting, Working
<1> QED BY <1>2, <1>7 DEF sl

-----------------------------------------------------------------------------
(* The records of whole reactions.                                         *)

\* The records that open a batch (stop, dispatch).
LEMMA DispatchShown ==
  ASSUME NEW t \in Nat, NEW n \in Nat, NEW cs \in Seq(Calls), NEW j, Streaming(j, t, n),
         Distinct(cs), \A c \in Calls : Member(cs, c) => j.tool[c].status = "absent",
         NEW rs, rs = <<AssistantOutput(t, n, cs)>> \o [i \in DOMAIN cs |-> ToolCallRequested(cs[i])]
                        \o <<TurnStatusChanged(t, "waiting")>>
  PROVE  /\ rs \in Seq(Records)
         /\ Working(Retell(j, rs), t, n, cs,
                    [c \in Calls |-> IF Member(cs, c) THEN "admission" ELSE "none"])
<1> DEFINE r == AssistantOutput(t, n, cs)
           q == [i \in DOMAIN cs |-> ToolCallRequested(cs[i])]
           s == TurnStatusChanged(t, "waiting")
           j1 == Enter(j, r)
           j2 == Retell(j1, q)
           first == <<r>>
           last  == <<s>>
<1>1. r \in Records /\ s \in Records
  BY TurnRecordTypes DEF AgentStatus
<1>2. /\ q \in Seq(Records) /\ Len(q) = Len(cs)
      /\ \A i \in 1..Len(cs) : q[i] = ToolCallRequested(cs[i])
  <2>1. \A i \in DOMAIN cs : ToolCallRequested(cs[i]) \in Records
    BY CallRecordTypes
  <2>2. DOMAIN cs = 1..Len(cs) /\ Len(cs) \in Nat
    OBVIOUS
  <2> HIDE DEF r, s
  <2> QED BY <2>1, <2>2
<1>3. j \in Journals
  BY DEF Streaming, Between
<1>4. j1 \in Journals /\ Requesting(j1, t, n, cs, 0)
  BY <1>1, <1>3, EnterTyped, OutputShown
<1> HIDE DEF r, q, s, j1
<1>5. j2 \in Journals /\ Requesting(j2, t, n, cs, Len(cs))
  <2>1. PICK a \in [0..Len(q) -> Journals] :
           /\ a[0] = j1
           /\ \A m \in 1..Len(q) : a[m] = Enter(a[m - 1], q[m])
           /\ Retell(j1, q) = a[Len(q)]
    BY <1>2, <1>4, RetellChain
  <2> DEFINE W == [m \in 0..Len(cs) |-> {k \in Journals : Requesting(k, t, n, cs, m)}]
  <2>2. a[0] \in W[0] /\ Len(cs) \in Nat
    BY <1>4, <2>1
  <2>3. ASSUME NEW m \in 1..Len(cs), a[m - 1] \in W[m - 1] PROVE a[m] \in W[m]
    <3>1. m - 1 \in 0..Len(cs) /\ m \in 0..Len(cs)
      OBVIOUS
    <3>2. Requesting(a[m - 1], t, n, cs, m - 1)
      BY <2>3, <3>1
    <3>3. a[m] = Enter(a[m - 1], ToolCallRequested(cs[m])) /\ a[m] \in Journals
      BY <1>2, <2>1, <3>1
    <3>4. Requesting(a[m], t, n, cs, m)
      BY <3>2, <3>3, RequestShown
    <3> QED BY <3>1, <3>3, <3>4
  <2> HIDE DEF W
  <2>4. a[Len(cs)] \in W[Len(cs)]
    BY <2>2, <2>3, Kept
  <2> QED BY <1>2, <2>1, <2>2, <2>4 DEF W
<1>6. first \in Seq(Records) /\ last \in Seq(Records)
  BY <1>1
<1>7. Retell(j, first) = j1 /\ Retell(j2, last) = Enter(j2, s)
  BY <1>1, <1>3, <1>5, RetellOne DEF j1
<1> HIDE DEF first, last
<1>8. first \o q \in Seq(Records) /\ (first \o q) \o last \in Seq(Records)
  BY <1>2, <1>6
<1>9. Retell(j, first \o q) = j2
  BY <1>2, <1>3, <1>6, <1>7, RetellConcat
<1>10. Retell(j, (first \o q) \o last) = Enter(j2, s)
  <2> DEFINE h == first \o q
  <2> HIDE DEF h, j2
  <2>1. Retell(j, h \o last) = Retell(Retell(j, h), last)
    BY <1>3, <1>6, <1>8, RetellConcat DEF h
  <2> QED BY <1>7, <1>9, <2>1 DEF h
<1>11. rs = (first \o q) \o last
  BY DEF first, last, q, r, s
<1> HIDE DEF j2
<1>12. Working(Enter(j2, s), t, n, cs,
               [c \in Calls |-> IF Member(cs, c) THEN "admission" ELSE "none"])
  BY <1>5, WorkShown DEF s
<1> QED BY <1>8, <1>10, <1>11, <1>12

\* The records that pay off an open batch (abandon).
LEMMA BatchAbandoned ==
  ASSUME calls \in Seq(Calls), slot \in [Calls -> SlotStates],
         NEW j, NEW t, NEW n, Working(j, t, n, calls, slot)
  PROVE  LET rs == InOrder([i \in DOMAIN calls |-> PaidOff(calls[i])])
         IN  rs \in Seq(Records) /\ Between(Retell(j, rs), t, n)
<1> DEFINE seqs == [i \in DOMAIN calls |-> PaidOff(calls[i])]
           sl(m) == [c \in Calls |-> IF \E i \in 1..m : calls[i] = c THEN "finished" ELSE slot[c]]
<1>1. /\ Len(calls) \in Nat /\ DOMAIN calls = 1..Len(calls)
      /\ \A i \in 1..Len(calls) : calls[i] \in Calls /\ Member(calls, calls[i])
  BY DEF Member
<1>2. \A c \in Calls : Member(calls, c) => slot[c] # "none"
  BY DEF Working
<1>3. j \in Journals /\ Distinct(calls)
  BY DEF Working
<1>4. ASSUME NEW i \in 1..Len(calls) PROVE PaidOff(calls[i]) \in Seq(Records)
  BY <1>1, <1>2, PaidOffShown
<1>5. seqs \in Seq(Seq(Records)) /\ Len(seqs) = Len(calls)
      /\ \A i \in 1..Len(calls) : seqs[i] = PaidOff(calls[i])
  BY <1>1, <1>4
<1> HIDE DEF seqs
<1>6. PICK v \in [0..Len(seqs) -> Journals] :
         /\ v[0] = j
         /\ \A m \in 1..Len(seqs) : v[m] = Retell(v[m - 1], seqs[m])
         /\ Retell(j, InOrder(seqs)) = v[Len(seqs)]
  BY <1>3, <1>5, RetellFlat
<1> DEFINE W == [m \in 0..Len(calls) |-> {k \in Journals : Working(k, t, n, calls, sl(m))}]
<1>7. v[0] \in W[0]
  <2>1. sl(0) = slot
    OBVIOUS
  <2> HIDE DEF sl
  <2> QED BY <1>1, <1>3, <1>6, <2>1
<1>8. ASSUME NEW m \in 1..Len(calls), v[m - 1] \in W[m - 1] PROVE v[m] \in W[m]
  <2> DEFINE c == calls[m]   before == sl(m - 1)
  <2>1. m - 1 \in 0..Len(calls) /\ m \in 0..Len(calls) /\ c \in Calls /\ slot[c] # "none"
    BY <1>1, <1>2
  <2>2. Working(v[m - 1], t, n, calls, before)
    <3> HIDE DEF sl
    <3> QED BY <1>8, <2>1
  <2>3. before[c] = slot[c]
    BY <1>1, <1>3, <2>1 DEF Distinct
  <2>4. [before EXCEPT ![c] = "finished"] = sl(m)
    <3>1. \A d : (\E i \in 1..m : calls[i] = d) <=> (d = c \/ \E i \in 1..(m - 1) : calls[i] = d)
      OBVIOUS
    <3> HIDE DEF c
    <3> QED BY <2>1, <3>1
  <2> HIDE DEF c, before, sl
  <2>5. Working(Retell(v[m - 1], PaidOff(c)), t, n, calls, sl(m))
    BY <2>1, <2>2, <2>3, <2>4, PaidOffShown
  <2>6. v[m] = Retell(v[m - 1], PaidOff(c)) /\ v[m] \in Journals
    BY <1>5, <1>6, <2>1 DEF c
  <2> QED BY <2>1, <2>5, <2>6
<1>9. Working(v[Len(calls)], t, n, calls, sl(Len(calls)))
  <2> HIDE DEF W
  <2>1. v[Len(calls)] \in W[Len(calls)]
    BY <1>1, <1>7, <1>8, Kept
  <2> HIDE DEF sl
  <2> QED BY <1>1, <2>1 DEF W
<1>10. \A c \in Calls : Member(calls, c) => sl(Len(calls))[c] = "finished"
  BY <1>1 DEF Member
<1>11. Between(v[Len(calls)], t, n)
  <2> HIDE DEF sl, W
  <2> QED BY <1>9, <1>10, Settles
<1>12. InOrder(seqs) \in Seq(Records)
  BY <1>3, <1>5, RetellFlat
<1> HIDE DEF sl, W
<1>13. InOrder(seqs) \in Seq(Records) /\ Between(Retell(j, InOrder(seqs)), t, n)
  BY <1>5, <1>6, <1>11, <1>12
<1> QED BY <1>13 DEF seqs

\* The records that release the calls the policy allows (release_allowed_approvals).
LEMMA BatchReleased ==
  ASSUME calls \in Seq(Calls), slot \in [Calls -> SlotStates],
         NEW j, NEW t, NEW n, NEW sl, Working(j, t, n, calls, sl),
         \A c \in Calls : Releasable(c) => sl[c] = "waiting"
  PROVE  /\ ReleaseRecords \in Seq(Records)
         /\ Working(Retell(j, ReleaseRecords), t, n, calls,
                    [c \in Calls |-> IF Releasable(c) THEN "running" ELSE sl[c]])
<1> DEFINE part(c) == IF Releasable(c) THEN Approved(c) ELSE <<>>
           seqs == [i \in DOMAIN calls |-> part(calls[i])]
           so(m) == [c \in Calls |-> IF Releasable(c) /\ \E i \in 1..m : calls[i] = c
                                     THEN "running" ELSE sl[c]]
<1>1. /\ Len(calls) \in Nat /\ DOMAIN calls = 1..Len(calls)
      /\ \A i \in 1..Len(calls) : calls[i] \in Calls
  OBVIOUS
<1>2. j \in Journals /\ Distinct(calls) /\ sl \in [Calls -> SlotStates]
  BY DEF Working
<1>3. \A c \in Calls : part(c) \in Seq(Records)
  BY CallRecordTypes DEF Approved, ToolStatus
<1>4. seqs \in Seq(Seq(Records)) /\ Len(seqs) = Len(calls)
      /\ \A i \in 1..Len(calls) : seqs[i] = part(calls[i])
  <2> HIDE DEF part
  <2> QED BY <1>1, <1>3
<1>5. ReleaseRecords = InOrder(seqs)
  BY DEF ReleaseRecords
<1> HIDE DEF seqs
<1>6. PICK v \in [0..Len(seqs) -> Journals] :
         /\ v[0] = j
         /\ \A m \in 1..Len(seqs) : v[m] = Retell(v[m - 1], seqs[m])
         /\ Retell(j, InOrder(seqs)) = v[Len(seqs)]
  BY <1>2, <1>4, RetellFlat
<1> DEFINE W == [m \in 0..Len(calls) |-> {k \in Journals : Working(k, t, n, calls, so(m))}]
<1>7. v[0] \in W[0]
  <2>1. so(0) = sl
    BY <1>2
  <2> HIDE DEF so
  <2> QED BY <1>1, <1>2, <1>6, <2>1
<1>8. ASSUME NEW m \in 1..Len(calls), v[m - 1] \in W[m - 1] PROVE v[m] \in W[m]
  <2> DEFINE c == calls[m]   before == so(m - 1)
  <2>1. m - 1 \in 0..Len(calls) /\ m \in 0..Len(calls) /\ c \in Calls
    BY <1>1
  <2>2. Working(v[m - 1], t, n, calls, before)
    <3> HIDE DEF so
    <3> QED BY <1>8, <2>1
  <2>3. before[c] = sl[c]
    <3>1. ~ \E i \in 1..(m - 1) : calls[i] = c
      BY <1>1, <1>2, <2>1 DEF Distinct
    <3> QED BY <2>1, <3>1
  <2>4. v[m] = Retell(v[m - 1], part(c)) /\ v[m] \in Journals /\ v[m - 1] \in Journals
    <3> HIDE DEF part
    <3> QED BY <1>4, <1>6, <2>1
  <2>5. CASE Releasable(c)
    <3>1. [before EXCEPT ![c] = "running"] = so(m)
      <4>1. \A d : (\E i \in 1..m : calls[i] = d)
                     <=> (d = c \/ \E i \in 1..(m - 1) : calls[i] = d)
        OBVIOUS
      <4> HIDE DEF c
      <4> QED BY <2>1, <2>5, <4>1
    <3>2. before[c] = "waiting"
      BY <2>1, <2>3, <2>5
    <3> HIDE DEF c, before, so
    <3>3. Working(Retell(v[m - 1], Approved(c)), t, n, calls, [before EXCEPT ![c] = "running"])
      BY <2>1, <2>2, <3>2, ApprovedShown
    <3> QED BY <2>1, <2>4, <2>5, <3>1, <3>3
  <2>6. CASE ~Releasable(c)
    <3>1. before = so(m)
      BY <1>1, <1>2, <2>1, <2>6
    <3>2. v[m] = v[m - 1]
      BY <2>4, <2>6, RetellNone
    <3> HIDE DEF c, before, so
    <3> QED BY <2>1, <2>2, <2>4, <3>1, <3>2
  <2> QED BY <2>5, <2>6
<1>9. Working(v[Len(calls)], t, n, calls, so(Len(calls)))
  <2> HIDE DEF W
  <2>1. v[Len(calls)] \in W[Len(calls)]
    BY <1>1, <1>7, <1>8, Kept
  <2> HIDE DEF so
  <2> QED BY <1>1, <2>1 DEF W
<1>10. so(Len(calls)) = [c \in Calls |-> IF Releasable(c) THEN "running" ELSE sl[c]]
  <2>1. \A c \in Calls : Releasable(c) => \E i \in 1..Len(calls) : calls[i] = c
    <3>1. \A c \in Calls : sl[c] # "none" => Member(calls, c)
      BY DEF Working
    <3> QED BY <1>1, <3>1 DEF Member
  <2> QED BY <2>1
<1>11. InOrder(seqs) \in Seq(Records)
  BY <1>2, <1>4, RetellFlat
<1> HIDE DEF so, W
<1> QED BY <1>4, <1>5, <1>6, <1>9, <1>10, <1>11

-----------------------------------------------------------------------------
(* What a death can leave behind.                                          *)

\* A journal that recovery can settle, wherever a death cut it off.
Recoverable(j) ==
  /\ j \in Journals
  /\ j.sound
  /\ j.markers \in 0..1
  /\ j.open = 0 => j.agent = "idle" /\ j.pending = <<>>
  /\ j.open # 0 => j.open = j.turns
  /\ Distinct(j.pending)
  /\ \A c \in Calls :
       /\ j.tool[c].attention => j.tool[c].status = "awaiting_approval"
       /\ Member(j.pending, c) => j.tool[c].status # "absent"
       /\ ~Member(j.pending, c) => j.tool[c].status \in Terminal \cup {"absent"}

\* A record that leaves the view sound was accepted, and the view was sound before.
LEMMA EnterSound ==
  ASSUME NEW j \in Journals, NEW r \in Records, Enter(j, r).sound
  PROVE  /\ j.sound
         /\ Enter(j, r) = Fact(j, r)
         /\ Apply(j, r) = Enter(j, r)
         /\ Valid(j, r) /\ Projectable(j, r) /\ Regular(j, r)
<1>1. [j EXCEPT !.sound = FALSE].sound = FALSE
  BY DEF Journals
<1>2. Valid(j, r) /\ Projectable(j, r) /\ Regular(j, r)
  BY <1>1 DEF Enter, Apply
<1>3. Enter(j, r) = Fact(j, r) /\ Apply(j, r) = Fact(j, r)
  BY <1>2 DEF Enter, Apply
<1>4. Fact(j, r).sound = j.sound
  <2>1. CASE r.kind \in {"turn_started", "collaboration_turn_started"}
    BY <2>1 DEF Fact, StartTurn, Journals
  <2>2. CASE r.kind \in {"steering_accepted", "turn_status_changed", "turn_finished",
                         "turn_interrupted_by_recovery"}
    BY <2>2 DEF Fact, Journals
  <2>3. CASE r.kind = "assistant_output"
    BY <2>3 DEF Fact, Journals
  <2>4. CASE r.kind \in {"tool_call_requested", "tool_permission_decided", "tool_call_changed",
                         "attention_requested", "attention_resolved"}
    BY <2>4 DEF Fact, Journals
  <2> QED BY <2>1, <2>2, <2>3, <2>4 DEF Records
<1> QED BY <1>2, <1>3, <1>4

\* Every accepted record leaves the journal recoverable.
LEMMA EnterRecoverable ==
  ASSUME NEW j, Recoverable(j), NEW r \in Records, Enter(j, r).sound
  PROVE  Recoverable(Enter(j, r))
<1> DEFINE k == Enter(j, r)
<1> SUFFICES Recoverable(k)
  OBVIOUS
<1>1. j \in Journals /\ j.pending \in Seq(Calls)
  BY DEF Recoverable, Journals
<1>2. /\ k = Fact(j, r) /\ k \in Journals /\ k.sound
      /\ Valid(j, r) /\ Projectable(j, r) /\ Regular(j, r)
  BY <1>1, EnterSound, EnterTyped
<1> HIDE DEF k
<1>3. ASSUME BatchSettled(j) PROVE \A c \in Calls : j.tool[c].status \in Terminal \cup {"absent"}
  BY <1>3 DEF Recoverable, BatchSettled, Member
<1>4. \A c \in Calls : j.tool[c].status \in Terminal \cup {"absent"} => ~j.tool[c].attention
  BY DEF Recoverable, Terminal
<1>5. Distinct(<<>>) /\ \A c : ~Member(<<>>, c)
  BY DEF Distinct, Member
<1>6. CASE r \in [kind : {"turn_started", "collaboration_turn_started"}, turn : Nat]
  <2>1. BatchSettled(j) /\ r.turn # 0
    BY <1>2, <1>6 DEF Projectable, Regular
  <2>2. /\ k.turns = r.turn /\ k.open = r.turn /\ k.markers = 0
        /\ k.pending = <<>> /\ k.tool = j.tool
    BY <1>1, <1>2, <1>6 DEF Fact, StartTurn, Journals
  <2> QED BY <1>2, <1>3, <1>4, <1>5, <2>1, <2>2 DEF Recoverable
<1>7. CASE r \in [kind : {"steering_accepted"}, turn : Nat]
  <2>1. BatchSettled(j) /\ j.open # 0
    BY <1>2, <1>7 DEF Projectable, Valid, TurnIsOpen
  <2>2. /\ k.turns = j.turns /\ k.open = j.open /\ k.markers = 0
        /\ k.pending = <<>> /\ k.tool = j.tool
    BY <1>1, <1>2, <1>7 DEF Fact, Journals
  <2> QED BY <1>2, <1>3, <1>4, <1>5, <2>1, <2>2 DEF Recoverable
<1>8. CASE r \in [kind : {"turn_status_changed"}, turn : Nat, status : AgentStatus]
  <2>1. j.open # 0
    BY <1>2, <1>8 DEF Valid, TurnIsOpen
  <2>2. /\ k.turns = j.turns /\ k.open = j.open /\ k.markers = j.markers
        /\ k.pending = j.pending /\ k.tool = j.tool
    BY <1>1, <1>2, <1>8 DEF Fact, Journals
  <2> QED BY <1>2, <2>1, <2>2 DEF Recoverable
<1>9. CASE r \in [kind : {"assistant_output"}, turn : Nat, step : Nat, calls : Seq(Calls)]
  <2>1. BatchSettled(j) /\ j.open # 0 /\ Distinct(r.calls)
    BY <1>2, <1>9 DEF Projectable, Valid, TurnIsOpen, Distinct
  <2>2. /\ k.turns = j.turns /\ k.open = j.open /\ k.markers = j.markers
        /\ k.pending = r.calls /\ k.tool = Queued(j, r.calls)
    BY <1>1, <1>2, <1>9 DEF Fact, Queued, Journals
  <2>3. ASSUME NEW c \in Calls
        PROVE  k.tool[c] = IF Member(r.calls, c) THEN [Unknown EXCEPT !.status = "queued"]
                           ELSE j.tool[c]
    BY <2>2 DEF Queued, Member
  <2>4. ASSUME NEW c \in Calls
        PROVE  /\ k.tool[c].attention => k.tool[c].status = "awaiting_approval"
               /\ Member(k.pending, c) => k.tool[c].status # "absent"
               /\ ~Member(k.pending, c) => k.tool[c].status \in Terminal \cup {"absent"}
    <3>1. CASE Member(r.calls, c)
      BY <2>2, <2>3, <3>1 DEF Unknown
    <3>2. CASE ~Member(r.calls, c)
      BY <1>3, <1>4, <2>1, <2>2, <2>3, <3>2
    <3> QED BY <3>1, <3>2
  <2> QED BY <1>2, <2>1, <2>2, <2>4 DEF Recoverable
<1>10. CASE r \in [kind : {"tool_call_requested", "tool_permission_decided",
                           "attention_requested", "attention_resolved"}, call : Calls]
  <2> DEFINE t == j.tool[r.call]
             u == CASE r.kind = "tool_call_requested" -> [t EXCEPT !.requested = TRUE]
                    [] r.kind = "tool_permission_decided" -> [t EXCEPT !.permission = t.status]
                    [] r.kind = "attention_requested" -> [t EXCEPT !.attention = TRUE]
                    [] r.kind = "attention_resolved" -> [t EXCEPT !.attention = FALSE]
  <2>1. k = With(j, r.call, u)
    BY <1>2, <1>10 DEF Fact, With
  <2>2. t \in Tools /\ r.call \in Calls
    BY <1>1, <1>10 DEF Journals
  <2>3. u.status = t.status /\ (u.attention => t.attention \/ t.status = "awaiting_approval")
    BY <1>2, <1>10, <2>2 DEF Regular, Tools
  <2>4. /\ k.turns = j.turns /\ k.open = j.open /\ k.markers = j.markers /\ k.agent = j.agent
        /\ k.pending = j.pending
        /\ k.tool[r.call] = u
        /\ \A c \in Calls : c # r.call => k.tool[c] = j.tool[c]
    <3> HIDE DEF u
    <3> QED BY <1>1, <2>1, <2>2 DEF With, Journals
  <2> HIDE DEF u
  <2>5. ASSUME NEW c \in Calls
        PROVE  /\ k.tool[c].attention => k.tool[c].status = "awaiting_approval"
               /\ k.tool[c].status = j.tool[c].status
    BY <2>3, <2>4 DEF Recoverable
  <2> QED BY <1>2, <2>4, <2>5 DEF Recoverable
<1>11. CASE r \in [kind : {"tool_call_changed"}, call : Calls, status : ToolStatus]
  <2> DEFINE t == j.tool[r.call]
             u == [t EXCEPT !.status = r.status]
  <2>1. k = With(j, r.call, u)
    BY <1>2, <1>11 DEF Fact, With
  <2>2. t \in Tools /\ r.call \in Calls
    BY <1>1, <1>11 DEF Journals
  <2>3. u.status = r.status /\ r.status # "absent" /\ ~u.attention /\ Member(j.pending, r.call)
    BY <1>2, <1>11, <2>2
       DEF Regular, Projectable, InPendingBatch, Member, CanTransition, Tools
  <2>4. /\ k.turns = j.turns /\ k.open = j.open /\ k.markers = j.markers /\ k.agent = j.agent
        /\ k.pending = j.pending
        /\ k.tool[r.call] = u
        /\ \A c \in Calls : c # r.call => k.tool[c] = j.tool[c]
    <3> HIDE DEF u
    <3> QED BY <1>1, <2>1, <2>2 DEF With, Journals
  <2> HIDE DEF u
  <2>5. ASSUME NEW c \in Calls
        PROVE  /\ k.tool[c].attention => k.tool[c].status = "awaiting_approval"
               /\ Member(k.pending, c) => k.tool[c].status # "absent"
               /\ ~Member(k.pending, c) => k.tool[c].status \in Terminal \cup {"absent"}
    BY <2>3, <2>4 DEF Recoverable
  <2> QED BY <1>2, <2>4, <2>5 DEF Recoverable
<1>12. CASE r \in [kind : {"turn_finished"}, turn : Nat, outcome : Outcomes]
  <2>1. BatchSettled(j)
    BY <1>2, <1>12 DEF Projectable
  <2>2. /\ k.open = 0 /\ k.agent = "idle" /\ k.markers = j.markers
        /\ k.pending = <<>> /\ k.tool = j.tool
    BY <1>1, <1>2, <1>12 DEF Fact, Journals
  <2> QED BY <1>2, <1>3, <1>4, <1>5, <2>1, <2>2 DEF Recoverable
<1>13. CASE r \in [kind : {"turn_interrupted_by_recovery"}]
  <2>1. j.markers = 0
    BY <1>2, <1>13 DEF Regular
  <2>2. k = [j EXCEPT !.markers = 1]
    <3>1. r.kind = "turn_interrupted_by_recovery" /\ j.markers + 1 = 1
      BY <1>13, <2>1
    <3>2. k = [j EXCEPT !.markers = j.markers + 1]
      BY <1>2, <3>1 DEF Fact
    <3> QED BY <3>1, <3>2
  <2>3. /\ k.turns = j.turns /\ k.open = j.open /\ k.markers = 1 /\ k.agent = j.agent
        /\ k.pending = j.pending /\ k.tool = j.tool
    BY <1>1, <2>2 DEF Journals
  <2> QED BY <1>2, <2>3 DEF Recoverable
<1> QED BY <1>6, <1>7, <1>8, <1>9, <1>10, <1>11, <1>12, <1>13 DEF Records

\* Records that a strict replay accepts, an ordinary one accepts to the same end.
LEMMA RetellSound ==
  ASSUME NEW j \in Journals, NEW rs \in Seq(Records), Retell(j, rs).sound
  PROVE  j.sound /\ Retell(j, rs) = Replay(j, rs)
<1>1. PICK a \in [0..Len(rs) -> Journals] :
         /\ a[0] = j
         /\ \A n \in 1..Len(rs) : a[n] = Enter(a[n - 1], rs[n])
         /\ Retell(j, rs) = a[Len(rs)]
  BY RetellChain
<1>2. PICK b \in [0..Len(rs) -> Journals] :
         /\ b[0] = j
         /\ \A n \in 1..Len(rs) : b[n] = Apply(b[n - 1], rs[n])
         /\ Replay(j, rs) = b[Len(rs)]
  BY ReplayChain
<1> DEFINE T == {n \in Nat : n <= Len(rs) /\ a[n].sound => j.sound /\ a[n] = b[n]}
<1>3. Len(rs) \in Nat /\ T \in SUBSET Nat /\ 0 \in T
  BY <1>1, <1>2
<1>4. ASSUME NEW n \in T PROVE n + 1 \in T
  <2>1. ASSUME n + 1 <= Len(rs), a[n + 1].sound PROVE j.sound /\ a[n + 1] = b[n + 1]
    <3>1. n \in 0..Len(rs) /\ n + 1 \in 1..Len(rs) /\ (n + 1) - 1 = n /\ rs[n + 1] \in Records
      BY <1>3, <2>1
    <3>2. a[n + 1] = Enter(a[n], rs[n + 1]) /\ b[n + 1] = Apply(b[n], rs[n + 1])
          /\ a[n] \in Journals
      BY <1>1, <1>2, <3>1
    <3>3. a[n].sound /\ Apply(a[n], rs[n + 1]) = Enter(a[n], rs[n + 1])
      BY <2>1, <3>1, <3>2, EnterSound
    <3>4. j.sound /\ a[n] = b[n]
      BY <3>1, <3>3
    <3> QED BY <3>2, <3>3, <3>4
  <2> QED BY <2>1
<1> HIDE DEF T
<1>5. T = Nat
  BY <1>3, <1>4, AllNaturals
<1> QED BY <1>1, <1>2, <1>3, <1>5 DEF T

LEMMA RetellRecoverable ==
  ASSUME NEW j, Recoverable(j), NEW rs \in Seq(Records), Retell(j, rs).sound
  PROVE  Recoverable(Retell(j, rs))
<1>1. PICK a \in [0..Len(rs) -> Journals] :
         /\ a[0] = j
         /\ \A n \in 1..Len(rs) : a[n] = Enter(a[n - 1], rs[n])
         /\ Retell(j, rs) = a[Len(rs)]
  BY RetellChain DEF Recoverable
<1> DEFINE W == [n \in 0..Len(rs) |-> {k \in Journals : k.sound => Recoverable(k)}]
<1>2. a[0] \in W[0] /\ Len(rs) \in Nat
  BY <1>1
<1>3. ASSUME NEW n \in 1..Len(rs), a[n - 1] \in W[n - 1] PROVE a[n] \in W[n]
  <2>1. n - 1 \in 0..Len(rs) /\ n \in 0..Len(rs) /\ rs[n] \in Records
    BY <1>2
  <2>2. a[n - 1] \in Journals /\ (a[n - 1].sound => Recoverable(a[n - 1]))
    BY <1>3, <2>1
  <2>3. a[n] = Enter(a[n - 1], rs[n]) /\ a[n] \in Journals
    BY <1>1, <2>1
  <2>4. a[n].sound => Recoverable(a[n])
    BY <2>1, <2>2, <2>3, EnterSound, EnterRecoverable
  <2> QED BY <2>1, <2>3, <2>4
<1> HIDE DEF W
<1>4. a[Len(rs)] \in W[Len(rs)]
  BY <1>2, <1>3, Kept
<1> QED BY <1>1, <1>2, <1>4 DEF W

\* So a death after any number of a reaction's records leaves a recoverable journal.
LEMMA CutOff ==
  ASSUME NEW j, Recoverable(j), NEW rs \in Seq(Records), Retell(j, rs).sound,
         NEW n \in 0..Len(rs)
  PROVE  SubSeq(rs, 1, n) \in Seq(Records) /\ Recoverable(Replay(j, SubSeq(rs, 1, n)))
<1> DEFINE p == SubSeq(rs, 1, n)   q == SubSeq(rs, n + 1, Len(rs))
<1>1. p \in Seq(Records) /\ q \in Seq(Records) /\ rs = p \o q
  <2>1. /\ Len(rs) \in Nat /\ p \in Seq(Records) /\ q \in Seq(Records)
        /\ Len(p) = n /\ Len(q) = Len(rs) - n
    OBVIOUS
  <2>2. \A i \in 1..n : p[i] = rs[i]
    OBVIOUS
  <2>3. \A i \in 1..(Len(rs) - n) : q[i] = rs[n + i]
    OBVIOUS
  <2> HIDE DEF p, q
  <2>4. Len(p \o q) = Len(rs) /\ p \o q \in Seq(Records)
    BY <2>1
  <2>5. ASSUME NEW i \in 1..Len(rs) PROVE (p \o q)[i] = rs[i]
    <3>1. CASE i <= n
      BY <2>1, <2>2, <3>1
    <3>2. CASE i > n
      <4>1. i - n \in 1..(Len(rs) - n) /\ n + (i - n) = i
        BY <2>1, <3>2
      <4>2. (p \o q)[i] = q[i - n]
        <5>1. i \in 1..(Len(p) + Len(q)) /\ i > Len(p)
          BY <2>1, <3>2
        <5> QED BY <2>1, <5>1
      <4>3. q[i - n] = rs[n + (i - n)]
        BY <2>3, <4>1
      <4> QED BY <4>1, <4>2, <4>3
    <3> QED BY <2>1, <3>1, <3>2
  <2> DEFINE w == p \o q
  <2>6. w \in Seq(Records) /\ Len(w) = Len(rs) /\ \A i \in 1..Len(rs) : w[i] = rs[i]
    BY <2>4, <2>5
  <2> HIDE DEF w
  <2>7. w = rs
    BY <2>6
  <2> QED BY <2>1, <2>7 DEF w
<1> HIDE DEF p, q
<1>2. j \in Journals /\ Retell(j, p) \in Journals
  BY <1>1, RetellTyped DEF Recoverable
<1>3. Retell(Retell(j, p), q).sound
  BY <1>1, <1>2, RetellConcat
<1>4. Retell(j, p).sound
  BY <1>1, <1>2, <1>3, RetellSound
<1>5. Recoverable(Retell(j, p)) /\ Retell(j, p) = Replay(j, p)
  BY <1>1, <1>2, <1>4, RetellSound, RetellRecoverable
<1> QED BY <1>1, <1>5 DEF p

-----------------------------------------------------------------------------
(* What recovery makes of such a journal.                                  *)

\* The first m calls of the batch that j left open have their outcomes.
Settling(j, k, m) ==
  /\ k \in Journals
  /\ k.sound
  /\ k.turns = j.turns
  /\ k.open = j.open
  /\ k.pending = j.pending
  /\ \A c \in Calls :
       /\ Member(j.pending, c) =>
            IF \E i \in 1..m : j.pending[i] = c
            THEN k.tool[c].status \in Terminal /\ ~k.tool[c].attention
            ELSE k.tool[c] = j.tool[c]
       /\ ~Member(j.pending, c) => k.tool[c] = j.tool[c]

\* A call without an outcome is requested, its question resolved, and it is cancelled.
LEMMA CallSettled ==
  ASSUME NEW j, Recoverable(j), NEW m \in 1..Len(j.pending), NEW k, Settling(j, k, m - 1)
  PROVE  /\ Cancelled(j, j.pending[m]) \in Seq(Records)
         /\ Settling(j, Retell(k, Cancelled(j, j.pending[m])), m)
<1> DEFINE c == j.pending[m]
           u == k.tool[c]
           u1 == [u EXCEPT !.requested = TRUE]
           u2 == [u1 EXCEPT !.attention = FALSE]
           u3 == [u2 EXCEPT !.status = "cancelled"]
           ask  == <<ToolCallRequested(c)>>
           calm == <<AttentionResolved(c)>>
           stop == <<ToolCallChanged(c, "cancelled")>>
           none == <<>>
<1>1. /\ j \in Journals /\ j.pending \in Seq(Calls) /\ Distinct(j.pending)
      /\ c \in Calls /\ Member(j.pending, c)
  BY DEF Recoverable, Journals, Member
<1>2. k \in Journals /\ k.pending = j.pending /\ u \in Tools /\ u = j.tool[c]
      /\ InPendingBatch(k, c)
  BY <1>1 DEF Settling, Distinct, Journals, InPendingBatch, Member
<1>3. \A d : (\E i \in 1..m : j.pending[i] = d)
               <=> d = c \/ (\E i \in 1..(m - 1) : j.pending[i] = d)
  OBVIOUS
<1>4. CASE u.status \in Terminal
  <2>1. Cancelled(j, c) = none /\ none \in Seq(Records)
    BY <1>2, <1>4 DEF Cancelled
  <2>2. Retell(k, none) = k
    BY <1>2, RetellNone
  <2>3. ~u.attention
    BY <1>1, <1>2, <1>4 DEF Recoverable, Terminal
  <2> HIDE DEF none
  <2>4. Settling(j, k, m)
    <3>1. ASSUME NEW d \in Calls
          PROVE  /\ Member(j.pending, d) =>
                      IF \E i \in 1..m : j.pending[i] = d
                      THEN k.tool[d].status \in Terminal /\ ~k.tool[d].attention
                      ELSE k.tool[d] = j.tool[d]
                 /\ ~Member(j.pending, d) => k.tool[d] = j.tool[d]
      BY <1>3, <1>4, <2>3 DEF Settling
    <3> QED BY <3>1 DEF Settling
  <2> QED BY <2>1, <2>2, <2>4
<1>5. CASE u.status \notin Terminal
  <2>1. u.status \in {"queued", "awaiting_approval", "running"}
    BY <1>1, <1>2, <1>5 DEF Recoverable, Terminal, Tools, ToolStatus
  <2> DEFINE k1 == With(k, c, u1)   k2 == With(k, c, u2)   k3 == With(k, c, u3)
             p1 == IF j.tool[c].requested THEN none ELSE ask
             p2 == IF j.tool[c].attention THEN calm ELSE none
  <2>2. u1 \in Tools /\ u1.requested /\ u1.status = u.status /\ u1.attention = u.attention
    BY <1>2 DEF Tools
  <2>3. u2 \in Tools /\ u2.requested /\ u2.status = u.status /\ ~u2.attention
    BY <1>2 DEF Tools
  <2>4. u3 \in Tools /\ u3.status = "cancelled" /\ ~u3.attention
    BY <1>2 DEF Tools, ToolStatus
  <2>5. /\ ask \in Seq(Records) /\ calm \in Seq(Records) /\ stop \in Seq(Records)
        /\ none \in Seq(Records)
        /\ ToolCallRequested(c) \in Records /\ AttentionResolved(c) \in Records
        /\ ToolCallChanged(c, "cancelled") \in Records
    <3>1. /\ ToolCallRequested(c) \in Records /\ AttentionResolved(c) \in Records
          /\ ToolCallChanged(c, "cancelled") \in Records
      BY <1>1, CallRecordTypes DEF ToolStatus
    <3>2. none \in Seq(Records)
      OBVIOUS
    <3> QED BY <3>1, <3>2
  <2>6. Retell(k, p1) = k1
    <3>1. CASE u.requested
      <4>1. u1 = u /\ With(k, c, u) = k
        <5>1. u1 = u
          BY <1>2, <3>1 DEF Tools
        <5>2. [k.tool EXCEPT ![c] = u] = k.tool
          BY <1>1, <1>2 DEF Journals
        <5>3. k = [k EXCEPT !.tool = k.tool]
          BY <1>2 DEF Journals
        <5> QED BY <5>1, <5>2, <5>3 DEF With
      <4>2. p1 = none /\ Retell(k, none) = k
        BY <1>2, <3>1, RetellNone
      <4> QED BY <4>1, <4>2
    <3>2. CASE ~u.requested
      <4>1. Enter(k, ToolCallRequested(c)) = k1
        <5>1. Regular(k, ToolCallRequested(c)) /\ Valid(k, ToolCallRequested(c))
          BY <1>2, <3>2 DEF Regular, Valid, ToolCallRequested
        <5>2. Projectable(k, ToolCallRequested(c))
          BY <1>2, <3>2 DEF Projectable, ToolCallRequested
        <5>3. Fact(k, ToolCallRequested(c)) = k1
          BY <1>2, <3>2 DEF Fact, ToolCallRequested, With
        <5> QED BY <5>1, <5>2, <5>3, Entered
      <4>2. Retell(k, ask) = Enter(k, ToolCallRequested(c))
        BY <1>2, <2>5, RetellOne
      <4> QED BY <1>2, <3>2, <4>1, <4>2
    <3> QED BY <3>1, <3>2
  <2> HIDE DEF u1
  <2>7. k1 \in Journals /\ k1.tool[c] = u1 /\ k1.pending = k.pending
        /\ \A w \in Tools : With(k1, c, w) = With(k, c, w)
    BY <1>1, <1>2, <2>2, WithFacts
  <2>8. InPendingBatch(k1, c)
    BY <1>2, <2>7 DEF InPendingBatch
  <2>9. Retell(k1, p2) = k2
    <3> HIDE DEF k1
    <3>1. CASE u.attention
      <4>1. Enter(k1, AttentionResolved(c)) = With(k1, c, u2)
        BY <1>1, <2>2, <2>7, <2>8, CallRecord
      <4>2. Retell(k1, calm) = Enter(k1, AttentionResolved(c))
        BY <2>5, <2>7, RetellOne
      <4> QED BY <1>2, <2>3, <2>7, <3>1, <4>1, <4>2
    <3>2. CASE ~u.attention
      <4>1. u2 = u1
        BY <2>2, <3>2 DEF Tools
      <4>2. k2 = k1
        BY <4>1 DEF k1
      <4>3. p2 = none /\ Retell(k1, none) = k1
        BY <1>2, <2>7, <3>2, RetellNone
      <4> QED BY <4>2, <4>3
    <3> QED BY <3>1, <3>2
  <2> HIDE DEF u2, k1
  <2>10. k2 \in Journals /\ k2.tool[c] = u2 /\ k2.pending = k.pending
         /\ \A w \in Tools : With(k2, c, w) = With(k, c, w)
    BY <1>1, <1>2, <2>3, WithFacts
  <2>11. InPendingBatch(k2, c) /\ CanTransition(u2.status, "cancelled")
    BY <1>2, <2>1, <2>3, <2>10 DEF InPendingBatch, CanTransition
  <2>12. Retell(k2, stop) = k3
    <3> HIDE DEF k2
    <3>1. Enter(k2, ToolCallChanged(c, "cancelled")) = With(k2, c, u3)
      BY <1>1, <2>3, <2>10, <2>11, CallRecord DEF ToolStatus
    <3>2. Retell(k2, stop) = Enter(k2, ToolCallChanged(c, "cancelled"))
      BY <2>5, <2>10, RetellOne
    <3> QED BY <2>4, <2>10, <3>1, <3>2
  <2> HIDE DEF k2, u3
  <2>13. Cancelled(j, c) = (p1 \o p2) \o stop
    BY <1>2, <1>5 DEF Cancelled
  <2>14. p1 \in Seq(Records) /\ p2 \in Seq(Records)
    <3> HIDE DEF none, ask, calm
    <3> QED BY <2>5
  <2> HIDE DEF p1, p2, ask, calm, stop, none
  <2>15. p1 \o p2 \in Seq(Records) /\ (p1 \o p2) \o stop \in Seq(Records)
    BY <2>5, <2>14
  <2>16. Retell(k, p1 \o p2) = k2
    BY <1>2, <2>6, <2>9, <2>14, RetellConcat
  <2>17. Retell(k, (p1 \o p2) \o stop) = k3
    <3> DEFINE h == p1 \o p2
    <3>1. h \in Seq(Records) /\ Retell(k, h) = k2
      BY <2>15, <2>16
    <3> HIDE DEF h, k3
    <3>2. Retell(k, h \o stop) = k3
      BY <1>2, <2>5, <2>12, <3>1, RetellConcat
    <3> QED BY <3>2 DEF h
  <2>18. /\ k3 \in Journals /\ k3.tool[c] = u3
         /\ k3.sound = k.sound /\ k3.turns = k.turns /\ k3.open = k.open
         /\ k3.pending = k.pending
         /\ \A d \in Calls : d # c => k3.tool[d] = k.tool[d]
    <3>1. k3 \in Journals /\ k3.tool[c] = u3
      BY <1>1, <1>2, <2>4, WithFacts
    <3> QED BY <1>1, <1>2, <3>1 DEF With, Journals
  <2> HIDE DEF k3, c
  <2>19. Settling(j, k3, m)
    <3>1. ASSUME NEW d \in Calls
          PROVE  /\ Member(j.pending, d) =>
                      IF \E i \in 1..m : j.pending[i] = d
                      THEN k3.tool[d].status \in Terminal /\ ~k3.tool[d].attention
                      ELSE k3.tool[d] = j.tool[d]
                 /\ ~Member(j.pending, d) => k3.tool[d] = j.tool[d]
      <4>1. CASE d = c
        BY <1>1, <1>3, <2>4, <2>18, <4>1 DEF Terminal
      <4>2. CASE d # c
        BY <1>3, <2>18, <4>2 DEF Settling
      <4> QED BY <4>1, <4>2
    <3> QED BY <2>18, <3>1 DEF Settling
  <2> QED BY <2>13, <2>15, <2>17, <2>19 DEF c
<1> QED BY <1>4, <1>5

\* Recovery leaves nothing open, however the process died (recovery.rs): its own records
\* are accepted too, and no turn is lost from the count.
LEMMA RecoveryShown ==
  ASSUME NEW j, Recoverable(j)
  PROVE  /\ RecoveryRecords(j) \in Seq(Records)
         /\ Idle(Retell(j, RecoveryRecords(j)), j.turns)
<1>1. /\ j \in Journals /\ j.pending \in Seq(Calls) /\ j.turns \in Nat /\ j.open \in Nat
      /\ Len(j.pending) \in Nat /\ DOMAIN j.pending = 1..Len(j.pending)
  BY DEF Recoverable, Journals
<1>2. CASE j.open = 0
  <2>1. j.agent = "idle" /\ j.pending = <<>> /\ BatchSettled(j)
    BY <1>2 DEF Recoverable, BatchSettled
  <2> DEFINE none == <<>>
  <2>2. RecoveryRecords(j) = none /\ none \in Seq(Records) /\ Retell(j, none) = j
    BY <1>1, <1>2, <2>1, RetellNone DEF RecoveryRecords, Interrupted, IncompleteBatch
  <2> HIDE DEF none
  <2>3. \A c \in Calls : ~Member(j.pending, c)
    BY <2>1 DEF Member
  <2>4. Quiet(j)
    BY <2>1, <2>3 DEF Recoverable, Quiet, Terminal
  <2>5. Idle(j, j.turns)
    BY <1>2, <2>1, <2>4 DEF Recoverable, Idle
  <2> QED BY <2>2, <2>5
<1>3. CASE j.open # 0
  <2> DEFINE mark == IF NeedsMarker(j) THEN <<TurnInterruptedByRecovery>> ELSE <<>>
             parts == [i \in DOMAIN j.pending |-> Cancelled(j, j.pending[i])]
             f == TurnFinished(j.open, "process_died")
             last == <<f>>
             k0 == Retell(j, mark)
             k1 == Retell(k0, InOrder(parts))
  <2>1. RecoveryRecords(j) = (mark \o InOrder(parts)) \o last
    BY <1>3 DEF RecoveryRecords, Interrupted
  <2>2. mark \in Seq(Records) /\ Settling(j, k0, 0)
    <3> DEFINE r == TurnInterruptedByRecovery   one == <<r>>   none == <<>>
    <3>1. r \in Records /\ one \in Seq(Records) /\ none \in Seq(Records)
      <4>1. r \in Records
        BY DEF Records, TurnInterruptedByRecovery
      <4>2. none \in Seq(Records)
        OBVIOUS
      <4> QED BY <4>1, <4>2
    <3>2. CASE NeedsMarker(j)
      <4>1. Enter(j, r) = [j EXCEPT !.markers = j.markers + 1]
        <5>1. Regular(j, r) /\ Valid(j, r)
          BY <3>2 DEF Regular, Valid, TurnInterruptedByRecovery, NeedsMarker
        <5>2. Projectable(j, r)
          BY <3>2 DEF Projectable, TurnInterruptedByRecovery
        <5>3. Fact(j, r) = [j EXCEPT !.markers = j.markers + 1]
          BY <3>2 DEF Fact, TurnInterruptedByRecovery
        <5> QED BY <5>1, <5>2, <5>3, Entered
      <4>2. Enter(j, r) \in Journals
        BY <1>1, <3>1, EnterTyped
      <4>3. Retell(j, one) = Enter(j, r)
        BY <1>1, <3>1, RetellOne
      <4>4. mark = one
        BY <3>2
      <4> DEFINE k == Enter(j, r)
      <4>5. k.sound = j.sound /\ k.turns = j.turns /\ k.open = j.open
            /\ k.pending = j.pending /\ k.tool = j.tool
        BY <1>1, <4>1 DEF Journals
      <4> HIDE DEF k, one, mark
      <4>6. Settling(j, k, 0)
        BY <4>2, <4>5 DEF Settling, Recoverable, k
      <4> QED BY <3>1, <4>3, <4>4, <4>6 DEF k
    <3>3. CASE ~NeedsMarker(j)
      <4>1. mark = none /\ Retell(j, none) = j
        BY <1>1, <3>3, RetellNone
      <4> HIDE DEF mark, none
      <4>2. Settling(j, j, 0)
        BY <1>1 DEF Settling, Recoverable
      <4> QED BY <3>1, <4>1, <4>2
    <3> QED BY <3>2, <3>3
  <2> HIDE DEF mark, k0
  <2>3. /\ Len(parts) = Len(j.pending) /\ parts \in Seq(Seq(Records))
        /\ \A i \in 1..Len(j.pending) : parts[i] = Cancelled(j, j.pending[i])
    <3>1. ASSUME NEW i \in 1..Len(j.pending) PROVE Cancelled(j, j.pending[i]) \in Seq(Records)
      <4>1. j.pending[i] \in Calls
        BY <1>1
      <4> DEFINE c == j.pending[i]
                 none == <<>>   ask == <<ToolCallRequested(c)>>
                 calm == <<AttentionResolved(c)>>   stop == <<ToolCallChanged(c, "cancelled")>>
                 p1 == IF j.tool[c].requested THEN none ELSE ask
                 p2 == IF j.tool[c].attention THEN calm ELSE none
      <4> HIDE DEF c
      <4>2. /\ ask \in Seq(Records) /\ calm \in Seq(Records) /\ stop \in Seq(Records)
            /\ none \in Seq(Records)
        <5>1. /\ ToolCallRequested(c) \in Records /\ AttentionResolved(c) \in Records
              /\ ToolCallChanged(c, "cancelled") \in Records
          BY <4>1, CallRecordTypes DEF ToolStatus, c
        <5>2. none \in Seq(Records)
          OBVIOUS
        <5> QED BY <5>1, <5>2
      <4>3. Cancelled(j, c) \in {none, (p1 \o p2) \o stop}
        BY DEF Cancelled
      <4> HIDE DEF none, ask, calm, stop
      <4>4. (p1 \o p2) \o stop \in Seq(Records)
        BY <4>2
      <4> QED BY <4>2, <4>3, <4>4 DEF c
    <3> QED BY <1>1, <3>1
  <2> HIDE DEF parts
  <2>4. InOrder(parts) \in Seq(Records) /\ Settling(j, k1, Len(j.pending))
    <3>1. k0 \in Journals
      BY <2>2 DEF Settling
    <3>2. PICK v \in [0..Len(parts) -> Journals] :
             /\ v[0] = k0
             /\ \A n \in 1..Len(parts) : v[n] = Retell(v[n - 1], parts[n])
             /\ k1 = v[Len(parts)]
      BY <2>3, <3>1, RetellFlat
    <3> DEFINE W == [m \in 0..Len(j.pending) |-> {k \in Journals : Settling(j, k, m)}]
    <3>3. v[0] \in W[0]
      BY <1>1, <2>2, <3>1, <3>2
    <3>4. ASSUME NEW m \in 1..Len(j.pending), v[m - 1] \in W[m - 1] PROVE v[m] \in W[m]
      <4>1. m - 1 \in 0..Len(j.pending) /\ m \in 0..Len(j.pending)
        BY <1>1
      <4>2. Settling(j, v[m - 1], m - 1)
        BY <3>4, <4>1
      <4>3. v[m] = Retell(v[m - 1], Cancelled(j, j.pending[m])) /\ v[m] \in Journals
        BY <2>3, <3>2, <4>1
      <4>4. Settling(j, v[m], m)
        BY <4>2, <4>3, CallSettled
      <4> QED BY <4>1, <4>3, <4>4
    <3> HIDE DEF W
    <3>5. v[Len(j.pending)] \in W[Len(j.pending)]
      BY <1>1, <3>3, <3>4, Kept
    <3>6. InOrder(parts) \in Seq(Records)
      BY <2>3, <3>1, RetellFlat
    <3> QED BY <1>1, <2>3, <3>2, <3>5, <3>6 DEF W
  <2> DEFINE t == j.open
  <2>5. Between(k1, t, k1.step) /\ k1 \in Journals /\ t \in Nat /\ t = j.turns
    <3> HIDE DEF k1
    <3>1. t = j.turns /\ t >= 1
      BY <1>1, <1>3 DEF Recoverable
    <3>2. ASSUME NEW c \in Calls
          PROVE  /\ k1.tool[c].status \in Terminal \cup {"absent"} /\ ~k1.tool[c].attention
                 /\ Member(j.pending, c) => k1.tool[c].status \in Terminal
      <4>1. CASE Member(j.pending, c)
        <5>1. \E i \in 1..Len(j.pending) : j.pending[i] = c
          BY <1>1, <4>1 DEF Member
        <5> QED BY <2>4, <4>1, <5>1 DEF Settling
      <4>2. CASE ~Member(j.pending, c)
        BY <2>4, <4>2 DEF Settling, Recoverable, Terminal
      <4> QED BY <4>1, <4>2
    <3>3. \A i \in DOMAIN j.pending : j.pending[i] \in Calls /\ Member(j.pending, j.pending[i])
      BY <1>1 DEF Member
    <3>4. Quiet(k1)
      BY <2>4, <3>2, <3>3 DEF Settling, Quiet, BatchSettled
    <3> QED BY <1>1, <2>4, <3>1, <3>4 DEF Settling, Between
  <2>6. f \in Records /\ Idle(Enter(k1, f), j.turns)
    <3> HIDE DEF k1
    <3>1. "process_died" \in Outcomes
      BY DEF Outcomes
    <3> QED BY <2>5, <3>1, Ends
  <2> HIDE DEF f
  <2>7. last \in Seq(Records) /\ Retell(k1, last) = Enter(k1, f)
    <3> HIDE DEF k1
    <3> QED BY <2>5, <2>6, RetellOne
  <2> HIDE DEF last
  <2>8. mark \o InOrder(parts) \in Seq(Records)
        /\ Retell(j, mark \o InOrder(parts)) = k1
    <3> HIDE DEF k1
    <3> QED BY <1>1, <2>2, <2>4, RetellConcat DEF k0, k1
  <2> DEFINE h == mark \o InOrder(parts)
  <2> HIDE DEF h, k1
  <2>9. h \in Seq(Records) /\ Retell(j, h) = k1 /\ RecoveryRecords(j) = h \o last
    BY <2>1, <2>8 DEF h
  <2>10. h \o last \in Seq(Records) /\ Retell(j, h \o last) = Retell(k1, last)
    BY <1>1, <2>7, <2>9, RetellConcat
  <2> QED BY <2>6, <2>7, <2>9, <2>10
<1> QED BY <1>2, <1>3

-----------------------------------------------------------------------------
(* The inductive invariant.                                                *)

\* The last reaction was accepted, and so was every part of it a death can leave.
Replayable ==
  /\ Recoverable(saved)
  /\ records \in Seq(Records)
  /\ Retell(saved, records) = Journal
  /\ Journal.sound

Shown ==
  /\ phase = "idle" => Idle(Journal, turn)
  /\ phase = "streaming" =>
       /\ Streaming(Journal, turn, step)
       /\ Distinct(calls)
       /\ \A c \in Calls : Member(calls, c) => Journal.tool[c].status = "absent"
  /\ phase = "working" => Working(Journal, turn, step, calls, slot)
  /\ phase # "working" => slot = [c \in Calls |-> "none"]

JournalInv == Replayable /\ Shown

\* A reaction's records are replayed after all that was recorded before.
LEMMA Standing == Replayable => Journal \in Journals /\ Recoverable(Journal)
BY RetellRecoverable DEF Replayable, Recoverable

LEMMA Committed ==
  ASSUME Replayable, NEW rs \in Seq(Records), Commit(rs), Retell(Journal, rs).sound
  PROVE  /\ Replayable'
         /\ Journal \in Journals
         /\ Journal' = Retell(Journal, rs)
<1>1. saved \in Journals /\ Recoverable(Journal) /\ Journal \in Journals
  BY RetellRecoverable DEF Replayable, Recoverable
<1>2. Journal' = Replay(saved', records') /\ saved' = Journal /\ records' = rs
  BY DEF Journal, Commit
<1> HIDE DEF Journal
<1>3. Journal' = Retell(Journal, rs)
  BY <1>1, <1>2, RetellSound
<1> QED BY <1>1, <1>2, <1>3 DEF Replayable

\* A reaction that records nothing and leaves the turn and its slots alone.
LEMMA NothingShown ==
  ASSUME JournalInv, Commit(<<>>), UNCHANGED <<turnVars, slot>>
  PROVE  JournalInv'
<1>1. <<>> \in Seq(Records)
  OBVIOUS
<1>2. Retell(Journal, <<>>) = Journal /\ Journal.sound
  BY RetellNone, RetellRecoverable DEF JournalInv, Replayable, Recoverable
<1>3. Replayable' /\ Journal' = Journal
  BY <1>1, <1>2, Committed DEF JournalInv
<1> HIDE DEF Journal
<1>4. Shown'
  BY <1>3 DEF JournalInv, Shown, turnVars
<1> QED BY <1>3, <1>4 DEF JournalInv

LEMMA OpenStepShown ==
  ASSUME Replayable, NEW rs \in Seq(Records), Commit(rs), NEW t, NEW n, NEW asked,
         OpenStep(t, n, asked), Streaming(Retell(Journal, rs), t, n)
  PROVE  JournalInv'
<1>1. Replayable' /\ Streaming(Journal', t, n)
  BY Committed DEF Streaming, Between
<1>2. /\ phase' = "streaming" /\ turn' = t /\ step' = n /\ calls' = <<>>
      /\ slot' = [c \in Calls |-> "none"]
  BY DEF OpenStep
<1>3. Distinct(calls') /\ \A c : ~Member(calls', c)
  BY <1>2 DEF Distinct, Member
<1>4. Shown'
  BY <1>1, <1>2, <1>3 DEF Shown
<1> QED BY <1>1, <1>4 DEF JournalInv

LEMMA GoIdleShown ==
  ASSUME Replayable, NEW rs \in Seq(Records), Commit(rs), NEW asked, GoIdle(asked),
         Idle(Retell(Journal, rs), turn)
  PROVE  JournalInv'
<1>1. Replayable' /\ Idle(Journal', turn)
  BY Committed DEF Idle
<1>2. phase' = "idle" /\ turn' = turn /\ slot' = [c \in Calls |-> "none"]
  BY DEF GoIdle, GoIdleAt
<1>3. Shown'
  BY <1>1, <1>2 DEF Shown
<1> QED BY <1>1, <1>3 DEF JournalInv

\* A turn that ends rolls into the next one or leaves the agent idle (finish_turn).
LEMMA FinishTurnShown ==
  ASSUME TypeOK, Replayable, NEW before \in Seq(Records), NEW n,
         Between(Retell(Journal, before), turn, n),
         NEW outcome \in Outcomes, NEW asked, FinishTurn(before, outcome, asked)
  PROVE  JournalInv'
<1> DEFINE f == TurnFinished(turn, outcome)
           ended == Append(before, f)
           s == TurnStarted(turn + 1)
           more == Append(ended, s)
           j == Retell(Journal, before)
<1>1. Journal \in Journals /\ turn \in Nat
  BY Standing DEF TypeOK, TurnTypeOK
<1>2. f \in Records /\ Idle(Enter(j, f), turn)
  BY <1>1, Ends
<1> HIDE DEF f
<1>3. ended \in Seq(Records) /\ Retell(Journal, ended) = Enter(j, f)
  BY <1>1, <1>2, RetellAppend
<1> HIDE DEF ended, j
<1>4. s \in Records /\ Streaming(Enter(Retell(Journal, ended), s), turn + 1, 1)
  BY <1>1, <1>2, <1>3, Opens
<1> HIDE DEF s
<1>5. more \in Seq(Records) /\ Retell(Journal, more) = Enter(Retell(Journal, ended), s)
  BY <1>1, <1>3, <1>4, RetellAppend
<1> HIDE DEF more
<1>6. CASE GoIdle(asked) /\ Commit(ended)
  BY <1>2, <1>3, <1>6, GoIdleShown
<1>7. CASE OpenStep(turn + 1, 1, asked) /\ Commit(more)
  BY <1>4, <1>5, <1>7, OpenStepShown
<1> QED BY <1>6, <1>7 DEF FinishTurn, more, ended, s, f

\* Steering is accepted one input after the other.
LEMMA SteeringShown ==
  ASSUME NEW t \in Nat, NEW n, NEW j, Between(j, t, n), NEW N \in Nat
  PROVE  LET accepted == [i \in 1..N |-> SteeringAccepted(t)]
         IN  accepted \in Seq(Records) /\ Between(Retell(j, accepted), t, n)
<1> DEFINE r == SteeringAccepted(t)   rs == [i \in 1..N |-> r]
<1>1. r \in Records /\ j \in Journals
  BY TurnRecordTypes DEF Between
<1> HIDE DEF r
<1>2. rs \in Seq(Records) /\ Len(rs) = N /\ \A i \in 1..N : rs[i] = r
  BY <1>1
<1> HIDE DEF rs
<1>3. PICK a \in [0..Len(rs) -> Journals] :
         /\ a[0] = j
         /\ \A m \in 1..Len(rs) : a[m] = Enter(a[m - 1], rs[m])
         /\ Retell(j, rs) = a[Len(rs)]
  BY <1>1, <1>2, RetellChain
<1> DEFINE W == [m \in 0..N |-> {k \in Journals : Between(k, t, n)}]
<1>4. a[0] \in W[0]
  BY <1>1, <1>3
<1>5. ASSUME NEW m \in 1..N, a[m - 1] \in W[m - 1] PROVE a[m] \in W[m]
  <2>1. m - 1 \in 0..N /\ m \in 0..N
    OBVIOUS
  <2>2. Between(a[m - 1], t, n)
    BY <1>5, <2>1
  <2>3. a[m] = Enter(a[m - 1], r) /\ a[m] \in Journals
    BY <1>2, <1>3, <2>1
  <2>4. Between(a[m], t, n)
    BY <2>2, <2>3, Steered DEF r
  <2> QED BY <2>1, <2>3, <2>4
<1> HIDE DEF W
<1>6. a[N] \in W[N]
  BY <1>4, <1>5, Kept
<1>7. rs \in Seq(Records) /\ Between(Retell(j, rs), t, n)
  BY <1>2, <1>3, <1>6 DEF W
<1> QED BY <1>7 DEF rs, r

\* Finitely many inputs wait.
LEMMA QueueFinite ==
  ASSUME TypeOK, NEW b
  PROVE  Cardinality(Waiting(b)) \in Nat
<1> DEFINE entries == [order : 0..(nextOrder - 1), boundary : Boundaries]
           pairs == (0..(nextOrder - 1)) \X Boundaries
           f == [p \in pairs |-> [order |-> p[1], boundary |-> p[2]]]
<1>1. IsFiniteSet(0..(nextOrder - 1)) /\ IsFiniteSet(Boundaries)
  <2>1. nextOrder - 1 \in Int /\ 0 \in Int
    BY DEF TypeOK, InputsTypeOK
  <2>2. IsFiniteSet(0..(nextOrder - 1))
    BY <2>1, FS_Interval
  <2>3. IsFiniteSet({}) /\ IsFiniteSet({"next_turn"})
    BY FS_EmptySet, FS_AddElement
  <2>4. IsFiniteSet({"next_turn"} \cup {"next_step"})
    BY <2>3, FS_AddElement
  <2>5. Boundaries = {"next_turn"} \cup {"next_step"}
    BY DEF Boundaries
  <2> QED BY <2>2, <2>4, <2>5
<1>2. IsFiniteSet(pairs)
  BY <1>1, FS_Product
<1>3. f \in Surjection(pairs, entries)
  <2>1. f \in [pairs -> entries]
    OBVIOUS
  <2>2. ASSUME NEW e \in entries PROVE \E p \in pairs : f[p] = e
    <3>1. <<e.order, e.boundary>> \in pairs
      OBVIOUS
    <3>2. f[<<e.order, e.boundary>>] = e
      BY <3>1
    <3> QED BY <3>1, <3>2
  <2> HIDE DEF f, pairs, entries
  <2> QED BY <2>1, <2>2 DEF Surjection
<1>4. IsFiniteSet(entries)
  <2> HIDE DEF f, pairs, entries
  <2> QED BY <1>2, <1>3, FS_Surjection
<1>5. Waiting(b) \in SUBSET entries
  BY DEF Waiting, TypeOK, InputsTypeOK
<1> HIDE DEF entries
<1>6. IsFiniteSet(Waiting(b))
  BY <1>4, <1>5, FS_Subset
<1> QED BY <1>6, FS_CardinalityType

\* A settled batch continues with the next step or ends the turn (next_step).
LEMMA NextStepShown ==
  ASSUME TypeOK, Replayable, NEW before \in Seq(Records),
         Between(Retell(Journal, before), turn, step), NextStep(before)
  PROVE  JournalInv'
<1> DEFINE N == Cardinality(Waiting("next_step"))
           accepted == [i \in 1..N |-> SteeringAccepted(turn)]
           r == TurnStatusChanged(turn, "running")
           last == <<r>>
           j == Retell(Journal, before)
<1>1. Journal \in Journals /\ turn \in Nat /\ step \in Nat
  BY Standing, BoundsAssumption DEF TypeOK, TurnTypeOK
<1>2. CASE FinishTurn(before, "step_budget_reached", calling)
  <2>1. "step_budget_reached" \in Outcomes
    BY DEF Outcomes
  <2> QED BY <1>2, <2>1, FinishTurnShown
<1>3. CASE OpenStep(turn, step + 1, calling) /\ Commit(before \o accepted \o last)
  <2>1. N \in Nat
    BY QueueFinite
  <2> HIDE DEF N
  <2>2. accepted \in Seq(Records) /\ Between(Retell(j, accepted), turn, step)
    BY <1>1, <2>1, SteeringShown
  <2>3. r \in Records /\ last \in Seq(Records)
    BY <1>1, TurnRecordTypes DEF AgentStatus
  <2>4. Streaming(Enter(Retell(j, accepted), r), turn, step + 1)
    BY <1>1, <2>2, Resumes
  <2> HIDE DEF accepted, r
  <2>5. j \in Journals /\ Retell(j, accepted) \in Journals
    BY <1>1, <2>2, RetellTyped
  <2> DEFINE h == before \o accepted
  <2>6. h \in Seq(Records) /\ Retell(Journal, h) = Retell(j, accepted)
    BY <1>1, <2>2, RetellConcat
  <2>7. Retell(Retell(j, accepted), last) = Enter(Retell(j, accepted), r)
    BY <2>3, <2>5, RetellOne
  <2> HIDE DEF last, j, h
  <2>8. Retell(Journal, h \o last) = Retell(Retell(Journal, h), last) /\ h \o last \in Seq(Records)
    BY <1>1, <2>3, <2>6, RetellConcat
  <2>9. Streaming(Retell(Journal, h \o last), turn, step + 1)
    BY <2>4, <2>6, <2>7, <2>8
  <2>10. Commit(h \o last)
    BY <1>3 DEF h
  <2> QED BY <1>3, <2>8, <2>9, <2>10, OpenStepShown
<1> QED BY <1>2, <1>3 DEF NextStep

LEMMA WorkingShown ==
  ASSUME Replayable, NEW rs \in Seq(Records), Commit(rs), phase' = "working",
         Working(Retell(Journal, rs), turn', step', calls', slot')
  PROVE  JournalInv'
<1>1. Replayable' /\ Working(Journal', turn', step', calls', slot')
  BY Committed DEF Working
<1>2. Shown'
  BY <1>1 DEF Shown
<1> QED BY <1>1, <1>2 DEF JournalInv

\* A call got its outcome, and the batch may be settled by it.
LEMMA AnsweredShown ==
  ASSUME TypeOK, JournalInv, phase = "working", NEW c \in Calls, NEW recs \in Seq(Records),
         Working(Retell(Journal, recs), turn, step, calls, [slot EXCEPT ![c] = "finished"]),
         Answered(c, recs)
  PROVE  JournalInv'
<1> DEFINE after == [slot EXCEPT ![c] = "finished"]   j == Retell(Journal, recs)
<1>1. Replayable /\ calls \in Seq(Calls)
  BY DEF JournalInv, TypeOK, TurnTypeOK
<1>2. CASE (\A d \in CallSet : after[d] = "finished") /\ NextStep(recs)
  <2>1. \A d \in Calls : Member(calls, d) => after[d] = "finished"
    BY <1>2 DEF CallSet, Member
  <2> HIDE DEF after, j
  <2>2. Between(j, turn, step)
    BY <1>1, <2>1, Settles DEF after, j
  <2> QED BY <1>1, <1>2, <2>2, NextStepShown DEF j
<1>3. CASE slot' = after /\ Commit(recs) /\ UNCHANGED turnVars
  BY <1>1, <1>3, WorkingShown DEF turnVars
<1> QED BY <1>2, <1>3 DEF Answered

\* A stopped turn pays off its batch, keeps what it showed and ends (abort_turn).
LEMMA AbortTurnShown ==
  ASSUME TypeOK, JournalInv, phase # "idle", NEW outcome \in Outcomes, NEW spoke \in BOOLEAN,
         NEW asked, AbortTurn(outcome, spoke, asked)
  PROVE  JournalInv'
<1> DEFINE f == TurnFinished(turn, outcome)
           last == <<f>>
           kept == Abandoned \o Retained(spoke)
<1>1. Replayable /\ Shown /\ turn \in Nat /\ step \in Nat /\ calls \in Seq(Calls)
      /\ slot \in [Calls -> SlotStates] /\ phase \in Phases /\ Journal \in Journals
  BY Standing, BoundsAssumption
     DEF JournalInv, TypeOK, TurnTypeOK
<1>2. kept \in Seq(Records) /\ \E n : Between(Retell(Journal, kept), turn, n)
  <2>1. CASE phase = "working"
    <3> DEFINE rs == InOrder([i \in DOMAIN calls |-> PaidOff(calls[i])])
    <3>1. Working(Journal, turn, step, calls, slot)
      BY <1>1, <2>1 DEF Shown
    <3>2. rs \in Seq(Records) /\ Between(Retell(Journal, rs), turn, step)
      BY <1>1, <3>1, BatchAbandoned
    <3>3. Abandoned = rs /\ Retained(spoke) = <<>>
      BY <2>1 DEF Abandoned, Retained
    <3> HIDE DEF rs
    <3>4. kept = rs
      BY <3>2, <3>3
    <3> QED BY <3>2, <3>4
  <2>2. CASE phase = "streaming"
    <3>1. Streaming(Journal, turn, step)
      BY <1>1, <2>2 DEF Shown
    <3>2. CASE spoke
      <4> DEFINE r == AssistantOutput(turn, step, <<>>)   one == <<r>>
      <4>1. r \in Records
        BY <1>1, Empty, TurnRecordTypes
      <4>2. Between(Enter(Journal, r), turn, step)
        BY <1>1, <3>1, RetainedShown
      <4> HIDE DEF r
      <4>3. one \in Seq(Records)
        BY <4>1
      <4>4. Retell(Journal, one) = Enter(Journal, r)
        BY <1>1, <4>1, RetellOne
      <4>5. Abandoned = <<>> /\ Retained(spoke) = one
        BY <2>2, <3>2 DEF Abandoned, Retained, r
      <4> HIDE DEF one
      <4>6. kept = one
        BY <4>3, <4>5
      <4> QED BY <4>2, <4>3, <4>4, <4>6
    <3>3. CASE ~spoke
      <4> DEFINE none == <<>>
      <4>1. none \in Seq(Records) /\ Retell(Journal, none) = Journal
        BY <1>1, RetellNone
      <4>2. Abandoned = none /\ Retained(spoke) = none
        BY <2>2, <3>3 DEF Abandoned, Retained
      <4>3. none \o none = none
        OBVIOUS
      <4> HIDE DEF none
      <4> QED BY <3>1, <4>1, <4>2, <4>3 DEF Streaming
    <3> QED BY <3>2, <3>3
  <2> QED BY <1>1, <2>1, <2>2 DEF Phases
<1> HIDE DEF kept
<1>3. PICK n : Between(Retell(Journal, kept), turn, n)
  BY <1>2
<1>4. f \in Records /\ Idle(Enter(Retell(Journal, kept), f), turn)
  BY <1>1, <1>3, Ends
<1> HIDE DEF f
<1>5. last \in Seq(Records) /\ Retell(Retell(Journal, kept), last) = Enter(Retell(Journal, kept), f)
  <2>1. Retell(Journal, kept) \in Journals
    BY <1>1, <1>2, RetellTyped
  <2> QED BY <1>4, <2>1, RetellOne
<1> HIDE DEF last
<1>6. /\ kept \o last \in Seq(Records)
      /\ Retell(Journal, kept \o last) = Retell(Retell(Journal, kept), last)
  BY <1>1, <1>2, <1>5, RetellConcat
<1>7. Idle(Retell(Journal, kept \o last), turn)
  BY <1>4, <1>5, <1>6
<1>8. GoIdle(asked) /\ Commit(kept \o last)
  BY DEF AbortTurn, kept, last, f
<1> QED BY <1>1, <1>6, <1>7, <1>8, GoIdleShown

\* A held call stays held, whether or not its rule is being remembered.
LEMMA Parked ==
  ASSUME NEW j, NEW t, NEW n, NEW cs, NEW sl, Working(j, t, n, cs, sl),
         NEW c \in Calls, sl[c] \in {"waiting", "preparing"}, NEW s \in {"waiting", "preparing"}
  PROVE  Working(j, t, n, cs, [sl EXCEPT ![c] = s])
<1> DEFINE sk == [sl EXCEPT ![c] = s]
<1>1. /\ sk \in [Calls -> SlotStates] /\ sk[c] = s
      /\ \A d \in Calls : d # c => sk[d] = sl[d]
  BY DEF Working, SlotStates
<1> HIDE DEF sk
<1>2. ASSUME NEW d \in Calls
      PROVE  /\ Slotted(j.tool[d], sk[d])
             /\ sk[d] # "none" <=> Member(cs, d)
             /\ Member(cs, d) => j.tool[d].requested
  <2>1. CASE d = c
    BY <1>1, <2>1 DEF Working, Slotted
  <2>2. CASE d # c
    BY <1>1, <2>2 DEF Working
  <2> QED BY <2>1, <2>2
<1>3. Working(j, t, n, cs, sk)
  BY <1>1, <1>2 DEF Working
<1> QED BY <1>3 DEF sk

\* Nothing is recorded when a held call stays held (refuse_permission).
LEMMA HeldShown ==
  ASSUME JournalInv, phase = "working", Working(Journal, turn, step, calls, slot),
         NEW c \in Calls, slot[c] \in {"waiting", "preparing"},
         NEW s \in {"waiting", "preparing"},
         slot' = [slot EXCEPT ![c] = s], Commit(<<>>), UNCHANGED turnVars
  PROVE  JournalInv'
<1> DEFINE none == <<>>
<1>1. Replayable /\ Journal \in Journals
  BY Standing DEF JournalInv
<1>2. none \in Seq(Records) /\ Retell(Journal, none) = Journal /\ Commit(none)
  BY <1>1, RetellNone
<1> HIDE DEF none
<1>3. Working(Journal, turn, step, calls, [slot EXCEPT ![c] = s])
  BY Parked
<1> HIDE DEF Journal
<1>4. Working(Retell(Journal, none), turn', step', calls', slot') /\ phase' = "working"
  BY <1>2, <1>3 DEF turnVars
<1> QED BY <1>1, <1>2, <1>4, WorkingShown

LEMMA RefusedShown ==
  ASSUME JournalInv, phase = "working", Working(Journal, turn, step, calls, slot),
         NEW c \in Calls, slot[c] \in {"waiting", "preparing"},
         Refuse(c), UNCHANGED turnVars
  PROVE  JournalInv'
BY HeldShown DEF Refuse

-----------------------------------------------------------------------------
(* Every handler keeps the journal and the turn in agreement.              *)

\* Nothing is recorded before the first input.
LEMMA JournalInit == Init => JournalInv
<1> SUFFICES ASSUME Init PROVE JournalInv
  OBVIOUS
<1>1. saved = EmptyJournal /\ records = <<>> /\ <<>> \in Seq(Records)
  BY DEF Init
<1> DEFINE none == <<>>
<1>2. /\ Recoverable(EmptyJournal) /\ EmptyJournal.sound
      /\ Retell(EmptyJournal, none) = EmptyJournal /\ none \in Seq(Records)
  BY EmptyTyped, RetellNone
     DEF Recoverable, EmptyJournal, Unknown, Distinct, Member, Terminal
<1> HIDE DEF none
<1>3. Journal = EmptyJournal
  BY <1>1, <1>2, EmptyTyped, RetellSound DEF Journal, none
<1>7. Replayable
  BY <1>1, <1>2, <1>3 DEF Replayable, none
<1>4. Idle(EmptyJournal, 0)
  BY EmptyTyped DEF EmptyJournal, Idle, Quiet, BatchSettled, Unknown
<1>5. Shown
  BY <1>3, <1>4 DEF Init, Shown
<1> QED BY <1>5, <1>7 DEF JournalInv

\* User inputs (submit_input, steer_input, withdraw_last_queued, start_collaboration_turn).
LEMMA JournalUserInput == TypeOK /\ JournalInv /\ UserInput => JournalInv'
<1> SUFFICES ASSUME TypeOK, JournalInv, UserInput PROVE JournalInv'
  OBVIOUS
<1>1. Replayable /\ Shown /\ turn \in Nat /\ Journal \in Journals
  BY Standing DEF JournalInv, TypeOK, TurnTypeOK
<1>2. ASSUME NEW r \in {TurnStarted(turn + 1), CollaborationTurnStarted(turn + 1)},
             phase = "idle", OpenStep(turn + 1, 1, calling), Commit(<<r>>)
      PROVE  JournalInv'
  <2>1. r \in Records /\ Streaming(Enter(Journal, r), turn + 1, 1)
    BY <1>1, <1>2, Opens DEF Shown
  <2> DEFINE one == <<r>>
  <2>2. one \in Seq(Records) /\ Retell(Journal, one) = Enter(Journal, r) /\ Commit(one)
    BY <1>1, <1>2, <2>1, RetellOne
  <2> HIDE DEF one
  <2> QED BY <1>1, <1>2, <2>1, <2>2, OpenStepShown
<1>3. CASE SubmitIdle \/ StartCollaborationTurn
  BY <1>2, <1>3 DEF SubmitIdle, StartCollaborationTurn
<1>4. CASE SubmitRunning \/ Steer \/ Withdraw
  <2>1. Commit(<<>>) /\ UNCHANGED <<turnVars, slot>>
    BY <1>4 DEF SubmitRunning, Steer, Withdraw, batchVars
  <2> QED BY <2>1, NothingShown
<1> QED BY <1>3, <1>4 DEF UserInput

\* Input from the model (model_event, stop, fail).
LEMMA JournalModelInput == TypeOK /\ JournalInv /\ (\E s \in calling : ModelInput(s)) => JournalInv'
<1> SUFFICES ASSUME TypeOK, JournalInv, NEW s \in calling, ModelInput(s) PROVE JournalInv'
  OBVIOUS
<1>1. /\ Replayable /\ Shown /\ turn \in Nat /\ step \in Nat /\ calls \in Seq(Calls)
      /\ Journal \in Journals
  BY Standing, BoundsAssumption
     DEF JournalInv, TypeOK, TurnTypeOK
<1>2. ASSUME phase = "streaming", NEW spoke \in BOOLEAN, NEW asked,
             AbortTurn("failed", spoke, asked)
      PROVE  JournalInv'
  BY <1>2, AbortTurnShown DEF Outcomes
<1>3. ASSUME NEW c \in Calls, ModelCalls(s, c) PROVE JournalInv'
  <2>1. phase = "streaming"
    BY <1>3 DEF ModelCalls, Accepts
  <2>2. CASE \E spoke \in BOOLEAN : AbortTurn("failed", spoke, calling)
    BY <1>2, <2>1, <2>2
  <2>3. CASE /\ ~Reused(c)
             /\ calls' = Append(calls, c)
             /\ Commit(<<>>)
             /\ UNCHANGED <<phase, turn, step, batchVars>>
    <3>1. <<>> \in Seq(Records)
      OBVIOUS
    <3>2. Replayable' /\ Journal' = Journal
      BY <1>1, <2>3, <3>1, Committed, RetellNone DEF Replayable
    <3>3. Journal.tool[c].status = "absent" /\ ~Member(calls, c)
      BY <2>3 DEF Reused, CallSet, Member
    <3>4. /\ Distinct(calls)
          /\ \A d \in Calls : Member(calls, d) => Journal.tool[d].status = "absent"
      BY <1>1, <2>1 DEF Shown
    <3>5. /\ DOMAIN calls' = 1..(Len(calls) + 1) /\ DOMAIN calls = 1..Len(calls)
          /\ Len(calls) \in Nat
          /\ calls'[Len(calls) + 1] = c
          /\ \A i \in 1..Len(calls) : calls'[i] = calls[i]
      BY <1>1, <2>3
    <3>6. Distinct(calls')
      BY <3>3, <3>4, <3>5 DEF Distinct, Member
    <3>7. \A d \in Calls : Member(calls', d) => d = c \/ Member(calls, d)
      BY <3>5 DEF Member
    <3> HIDE DEF Journal
    <3>8. Shown'
      BY <1>1, <2>1, <2>3, <3>2, <3>3, <3>4, <3>6, <3>7 DEF Shown, batchVars
    <3> QED BY <3>2, <3>8 DEF JournalInv
  <2> QED BY <1>3, <2>2, <2>3 DEF ModelCalls
<1>4. CASE ModelStops(s)
  <2>1. phase = "streaming"
    BY <1>4 DEF ModelStops, Accepts
  <2>2. CASE Dispatch(AssistantOutput(turn, step, calls))
    <3> DEFINE rs == <<AssistantOutput(turn, step, calls)>>
                       \o [i \in DOMAIN calls |-> ToolCallRequested(calls[i])]
                       \o <<TurnStatusChanged(turn, "waiting")>>
               sl == [c \in Calls |-> IF Member(calls, c) THEN "admission" ELSE "none"]
    <3>1. /\ phase' = "working" /\ Commit(rs) /\ UNCHANGED <<turn, step, calls>>
          /\ slot' = sl
      BY <2>2 DEF Dispatch, CallSet, Member
    <3>2. /\ Streaming(Journal, turn, step) /\ Distinct(calls)
          /\ \A c \in Calls : Member(calls, c) => Journal.tool[c].status = "absent"
      BY <1>1, <2>1 DEF Shown
    <3>3. rs \in Seq(Records) /\ Working(Retell(Journal, rs), turn, step, calls, sl)
      <4> HIDE DEF Journal
      <4> QED BY <1>1, <3>2, DispatchShown
    <3> HIDE DEF rs, sl
    <3> QED BY <1>1, <3>1, <3>3, WorkingShown
  <2>3. CASE \E spoke \in BOOLEAN : FinishTurn(Retained(spoke), "completed", calling \ {s})
    <3>1. PICK spoke \in BOOLEAN : FinishTurn(Retained(spoke), "completed", calling \ {s})
      BY <2>3
    <3>2. Streaming(Journal, turn, step)
      BY <1>1, <2>1 DEF Shown
    <3>3. "completed" \in Outcomes
      BY DEF Outcomes
    <3>4. CASE spoke
      <4> DEFINE r == AssistantOutput(turn, step, <<>>)   one == <<r>>
      <4>1. r \in Records
        BY <1>1, Empty, TurnRecordTypes
      <4>2. Between(Enter(Journal, r), turn, step)
        BY <1>1, <3>2, RetainedShown
      <4>3. Retained(spoke) = one
        BY <2>1, <3>4 DEF Retained
      <4> HIDE DEF r
      <4>4. one \in Seq(Records) /\ Retell(Journal, one) = Enter(Journal, r)
        BY <1>1, <4>1, RetellOne
      <4> HIDE DEF one
      <4> QED BY <1>1, <3>1, <3>3, <4>2, <4>3, <4>4, FinishTurnShown
    <3>5. CASE ~spoke
      <4> DEFINE none == <<>>
      <4>1. Retained(spoke) = none /\ none \in Seq(Records) /\ Retell(Journal, none) = Journal
        BY <1>1, <2>1, <3>5, RetellNone DEF Retained
      <4> HIDE DEF none
      <4>2. Between(Retell(Journal, none), turn, Journal.step)
        BY <3>2, <4>1 DEF Streaming
      <4> QED BY <1>1, <3>1, <3>3, <4>1, <4>2, FinishTurnShown
    <3> QED BY <3>4, <3>5
  <2> QED BY <1>4, <2>2, <2>3 DEF ModelStops
<1>5. CASE ModelFails(s)
  BY <1>2, <1>5 DEF ModelFails, Accepts
<1>6. CASE LateModelInput(s)
  <2>1. Commit(<<>>) /\ UNCHANGED <<turnVars, slot>>
    BY <1>6 DEF LateModelInput, batchVars
  <2> QED BY <2>1, NothingShown
<1> QED BY <1>3, <1>4, <1>5, <1>6 DEF ModelInput

\* Input from workers (admission_resolved, tool_finished, permission_prepared).
LEMMA JournalToolInput == TypeOK /\ JournalInv /\ (\E c \in Calls : ToolInput(c)) => JournalInv'
<1> SUFFICES ASSUME TypeOK, JournalInv, NEW c \in Calls, ToolInput(c) PROVE JournalInv'
  OBVIOUS
<1>1. /\ Replayable /\ Shown /\ calls \in Seq(Calls) /\ slot \in [Calls -> SlotStates]
      /\ phase \in Phases
  BY DEF JournalInv, TypeOK, TurnTypeOK
<1>2. ASSUME slot[c] # "none"
      PROVE  phase = "working" /\ Working(Journal, turn, step, calls, slot)
  BY <1>1, <1>2 DEF Shown
<1>3. CASE AdmissionResolved(c)
  <2>1. slot[c] = "admission" /\ phase = "working" /\ Working(Journal, turn, step, calls, slot)
    BY <1>2, <1>3 DEF AdmissionResolved
  <2> DEFINE audited(s) == <<ToolPermissionDecided(c), ToolCallChanged(c, s)>>
             asked == <<ToolPermissionDecided(c), ToolCallChanged(c, "awaiting_approval"),
                        AttentionRequested(c)>>
             refused == <<ToolCallChanged(c, "failed")>>
  <2>2. /\ audited("running") \in Seq(Records) /\ audited("failed") \in Seq(Records)
        /\ asked \in Seq(Records) /\ refused \in Seq(Records)
    <3>1. /\ ToolCallChanged(c, "running") \in Records /\ ToolCallChanged(c, "failed") \in Records
          /\ ToolCallChanged(c, "awaiting_approval") \in Records
          /\ ToolPermissionDecided(c) \in Records /\ AttentionRequested(c) \in Records
      BY CallRecordTypes DEF ToolStatus
    <3> QED BY <3>1
  <2>3. ASSUME NEW s \in {"running", "failed"}
        PROVE  Working(Retell(Journal, audited(s)), turn, step, calls,
                       [slot EXCEPT ![c] = IF s = "running" THEN s ELSE "finished"])
    BY <2>1, Admitted
  <2>4. /\ Working(Retell(Journal, asked), turn, step, calls, [slot EXCEPT ![c] = "waiting"])
        /\ Working(Retell(Journal, refused), turn, step, calls, [slot EXCEPT ![c] = "finished"])
    BY <2>1, Admitted
  <2>5. CASE /\ slot' = [slot EXCEPT ![c] = "running"]
             /\ Commit(audited("running"))
             /\ UNCHANGED turnVars
    <3>1. Working(Retell(Journal, audited("running")), turn, step, calls,
                  [slot EXCEPT ![c] = "running"])
      BY <2>3
    <3> HIDE DEF audited
    <3> QED BY <1>1, <2>1, <2>2, <2>5, <3>1, WorkingShown DEF turnVars
  <2>6. CASE /\ slot' = [slot EXCEPT ![c] = "waiting"]
             /\ Commit(asked)
             /\ UNCHANGED turnVars
    <3> HIDE DEF asked
    <3> QED BY <1>1, <2>1, <2>2, <2>4, <2>6, WorkingShown DEF turnVars
  <2>7. CASE Answered(c, audited("failed"))
    <3>1. Working(Retell(Journal, audited("failed")), turn, step, calls,
                  [slot EXCEPT ![c] = "finished"])
      BY <2>3
    <3> HIDE DEF audited
    <3> QED BY <2>1, <2>2, <2>7, <3>1, AnsweredShown
  <2>8. CASE Answered(c, refused)
    <3> HIDE DEF refused
    <3> QED BY <2>1, <2>2, <2>4, <2>8, AnsweredShown
  <2> QED BY <1>3, <2>5, <2>6, <2>7, <2>8 DEF AdmissionResolved
<1>4. CASE LateAdmission(c) \/ LateToolResult(c) \/ LatePermission(c)
  <2>1. Commit(<<>>) /\ UNCHANGED <<turnVars, slot>>
    BY <1>4 DEF LateAdmission, LateToolResult, LatePermission, batchVars
  <2> QED BY <2>1, NothingShown
<1>5. CASE ToolFinished(c)
  <2>1. PICK s \in {"succeeded", "failed", "cancelled"} : Answered(c, <<ToolCallChanged(c, s)>>)
    BY <1>5 DEF ToolFinished
  <2>2. slot[c] = "running" /\ phase = "working" /\ Working(Journal, turn, step, calls, slot)
    BY <1>2, <1>5 DEF ToolFinished
  <2> DEFINE recs == <<ToolCallChanged(c, s)>>
  <2>3. recs \in Seq(Records)
    <3>1. ToolCallChanged(c, s) \in Records
      BY CallRecordTypes DEF ToolStatus
    <3> QED BY <3>1
  <2>4. Working(Retell(Journal, recs), turn, step, calls, [slot EXCEPT ![c] = "finished"])
    BY <2>2, Executed
  <2> HIDE DEF recs
  <2> QED BY <2>1, <2>2, <2>3, <2>4, AnsweredShown DEF recs
<1>6. CASE PermissionPrepared(c)
  <2>1. /\ slot[c] = "preparing" /\ phase = "working"
        /\ Working(Journal, turn, step, calls, slot)
        /\ UNCHANGED turnVars
    BY <1>2, <1>6 DEF PermissionPrepared
  <2>2. CASE Release({c}, "remembered") /\ Commit(Approved(c) \o ReleaseRecords)
    <3> DEFINE s1 == [slot EXCEPT ![c] = "running"]
               s2 == [d \in Calls |-> IF Releasable(d) THEN "running" ELSE s1[d]]
               j1 == Retell(Journal, Approved(c))
    <3>1. Journal \in Journals /\ Approved(c) \in Seq(Records)
          /\ Working(j1, turn, step, calls, s1)
      BY <1>1, <2>1, ApprovedShown, Standing DEF JournalInv
    <3>2. \A d \in Calls : Releasable(d) => s1[d] = "waiting"
      BY <1>1, <2>1 DEF Releasable
    <3>3. slot' = s2
      BY <1>1, <2>2 DEF Release
    <3> HIDE DEF s1
    <3>4. ReleaseRecords \in Seq(Records) /\ Working(Retell(j1, ReleaseRecords), turn, step, calls, s2)
      BY <1>1, <3>1, <3>2, BatchReleased
    <3> HIDE DEF s2
    <3>5. /\ Approved(c) \o ReleaseRecords \in Seq(Records)
          /\ Retell(Journal, Approved(c) \o ReleaseRecords) = Retell(j1, ReleaseRecords)
      BY <3>1, <3>4, RetellConcat
    <3> HIDE DEF j1
    <3> QED BY <1>1, <2>1, <2>2, <3>3, <3>4, <3>5, WorkingShown DEF turnVars
  <2>3. CASE Refuse(c)
    BY <2>1, <2>3, RefusedShown
  <2> QED BY <1>6, <2>2, <2>3 DEF PermissionPrepared
<1> QED BY <1>3, <1>4, <1>5, <1>6 DEF ToolInput

\* The user's decisions (resolve_approval).
LEMMA JournalUserDecision ==
  TypeOK /\ JournalInv /\ (\E c \in Calls : UserDecision(c)) => JournalInv'
<1> SUFFICES ASSUME TypeOK, JournalInv, NEW c \in Calls, UserDecision(c) PROVE JournalInv'
  OBVIOUS
<1>1. /\ Replayable /\ Shown /\ calls \in Seq(Calls) /\ slot \in [Calls -> SlotStates]
  BY DEF JournalInv, TypeOK, TurnTypeOK
<1>2. /\ slot[c] = "waiting" /\ phase = "working"
      /\ Working(Journal, turn, step, calls, slot)
  BY <1>1 DEF UserDecision, Deny, AllowOnce, AllowAndRemember, Shown
<1>3. CASE Deny(c)
  <2> DEFINE recs == <<ToolPermissionDecided(c), AttentionResolved(c),
                       ToolCallChanged(c, "denied")>>
  <2>1. recs \in Seq(Records)
    <3>1. /\ ToolPermissionDecided(c) \in Records /\ AttentionResolved(c) \in Records
          /\ ToolCallChanged(c, "denied") \in Records
      BY CallRecordTypes DEF ToolStatus
    <3> QED BY <3>1
  <2>2. ASSUME NEW s \in {"denied", "running"}, s = "denied"
        PROVE  Working(Retell(Journal, <<ToolPermissionDecided(c), AttentionResolved(c),
                                         ToolCallChanged(c, s)>>), turn, step, calls,
                       [slot EXCEPT ![c] = "finished"])
    BY <1>2, <2>2, Decided
  <2>3. Working(Retell(Journal, recs), turn, step, calls, [slot EXCEPT ![c] = "finished"])
    BY <2>2
  <2>4. Answered(c, recs)
    BY <1>3 DEF Deny
  <2> HIDE DEF recs
  <2> QED BY <1>2, <2>1, <2>3, <2>4, AnsweredShown
<1>4. CASE AllowOnce(c)
  <2>1. CASE Refuse(c)
    BY <1>2, <1>4, <2>1, RefusedShown DEF AllowOnce
  <2>2. CASE slot' = [slot EXCEPT ![c] = "running"] /\ Commit(Approved(c))
    <3>1. UNCHANGED turnVars
      BY <1>4 DEF AllowOnce
    <3>2. /\ Approved(c) \in Seq(Records)
          /\ Working(Retell(Journal, Approved(c)), turn, step, calls, [slot EXCEPT ![c] = "running"])
      BY <1>2, ApprovedShown
    <3> QED BY <1>1, <1>2, <2>2, <3>1, <3>2, WorkingShown DEF turnVars
  <2> QED BY <1>4, <2>1, <2>2 DEF AllowOnce
<1>5. CASE \E seen \in 1..revision : AllowAndRemember(c, seen)
  <2>1. CASE Refuse(c)
    BY <1>2, <1>5, <2>1, RefusedShown DEF AllowAndRemember
  <2>2. CASE slot' = [slot EXCEPT ![c] = "preparing"] /\ Commit(<<>>)
    BY <1>2, <1>5, <2>2, HeldShown DEF AllowAndRemember
  <2> QED BY <1>5, <2>1, <2>2 DEF AllowAndRemember
<1> QED BY <1>3, <1>4, <1>5 DEF UserDecision

\* The policy changes, allowed calls are released, a turn is stopped.
LEMMA JournalOther ==
  TypeOK /\ JournalInv
    /\ (PermissionsChanged \/ PolicyChanges \/ (\E c \in Calls : GrantRemembered(c))
          \/ (\E outcome \in {"interrupted", "shutdown"} : Stop(outcome)))
  => JournalInv'
<1> SUFFICES ASSUME TypeOK, JournalInv,
                    PermissionsChanged \/ PolicyChanges \/ (\E c \in Calls : GrantRemembered(c))
                      \/ (\E outcome \in {"interrupted", "shutdown"} : Stop(outcome))
             PROVE  JournalInv'
  OBVIOUS
<1>1. /\ Replayable /\ Shown /\ calls \in Seq(Calls) /\ slot \in [Calls -> SlotStates]
  BY DEF JournalInv, TypeOK, TurnTypeOK
<1>2. CASE PermissionsChanged
  <2>1. PICK c \in Calls : Releasable(c)
    BY <1>2 DEF PermissionsChanged
  <2>2. phase = "working" /\ Working(Journal, turn, step, calls, slot)
    BY <1>1, <2>1 DEF Releasable, Shown
  <2> DEFINE s2 == [d \in Calls |-> IF Releasable(d) THEN "running" ELSE slot[d]]
  <2>3. slot' = s2 /\ Commit(ReleaseRecords) /\ UNCHANGED turnVars
    BY <1>2 DEF PermissionsChanged, Release
  <2>4. /\ ReleaseRecords \in Seq(Records)
        /\ Working(Retell(Journal, ReleaseRecords), turn, step, calls, s2)
    BY <1>1, <2>2, BatchReleased DEF Releasable
  <2> HIDE DEF s2
  <2> QED BY <1>1, <2>2, <2>3, <2>4, WorkingShown DEF turnVars
<1>3. CASE PolicyChanges \/ (\E c \in Calls : GrantRemembered(c))
  <2>1. UNCHANGED <<turnVars, slot, saved, records>>
    BY <1>3 DEF PolicyChanges, GrantRemembered, batchVars
  <2>2. Journal' = Journal
    BY <2>1 DEF Journal
  <2> HIDE DEF Journal
  <2> QED BY <2>1, <2>2 DEF JournalInv, Replayable, Shown, turnVars
<1>4. ASSUME NEW outcome \in {"interrupted", "shutdown"}, Stop(outcome) PROVE JournalInv'
  BY <1>4, AbortTurnShown DEF Stop, Outcomes
<1> QED BY <1>2, <1>3, <1>4

LEMMA JournalNext == TypeOK /\ JournalInv /\ [Next]_vars => JournalInv'
<1>1. ASSUME JournalInv, UNCHANGED vars PROVE JournalInv'
  <2>1. UNCHANGED <<turnVars, slot, saved, records>>
    BY <1>1 DEF vars, batchVars
  <2>2. Journal' = Journal
    BY <2>1 DEF Journal
  <2> HIDE DEF Journal
  <2> QED BY <1>1, <2>1, <2>2 DEF JournalInv, Replayable, Shown, turnVars
<1> QED BY <1>1, JournalUserInput, JournalModelInput, JournalToolInput, JournalUserDecision,
           JournalOther DEF Next

-----------------------------------------------------------------------------
(* The theorems about the journal.                                         *)

\* In each phase of a turn the journal, replayed from its last reaction, shows what
\* that phase stands for (turn/mod.rs, Turn; journal/validation.rs).
THEOREM JournalInvariant == Spec => []JournalInv
BY JournalInit, JournalNext, TypeCorrect, PTL DEF Spec

\* Every view the phases name is sound.
LEMMA SoundThen == TypeOK /\ JournalInv => JournalSound
<1> SUFFICES ASSUME TypeOK, JournalInv PROVE JournalSound
  OBVIOUS
<1>1. phase \in Phases /\ Shown
  BY DEF TypeOK, TurnTypeOK, JournalInv
<1> QED BY <1>1 DEF Phases, Shown, Idle, Streaming, Between, Working, JournalSound

\* No reaction of the turn machine appends a record that the journal's validator or
\* its projector refuses (record.rs, commit and finish_turn): the panics there are
\* unreachable, whatever the workers, the user and the policy do.
THEOREM JournalIsSound == Spec => []JournalSound
BY SoundThen, JournalInvariant, TypeCorrect, PTL

\* What the phases name is what the batch in memory says.
LEMMA AgreeThen == TypeOK /\ JournalInv => JournalAgrees
<1> SUFFICES ASSUME TypeOK, JournalInv PROVE JournalAgrees
  OBVIOUS
<1>1. phase \in Phases /\ Shown
  BY DEF TypeOK, TurnTypeOK, JournalInv
<1> HIDE DEF Journal
<1>2. ASSUME NEW c \in Calls PROVE SlotAgrees(c)
  <2>1. Slotted(Journal.tool[c], slot[c])
    <3>1. CASE phase = "working"
      BY <1>1, <3>1 DEF Shown, Working
    <3>2. CASE phase # "working"
      <4>1. slot[c] = "none"
        BY <1>1, <3>2 DEF Shown
      <4>2. Quiet(Journal)
        BY <1>1, <3>2 DEF Phases, Shown, Idle, Streaming, Between
      <4> QED BY <4>1, <4>2 DEF Quiet, Slotted
    <3> QED BY <3>1, <3>2
  <2> QED BY <2>1 DEF Slotted, SlotAgrees
<1>3. Journal.open = IF phase = "idle" THEN 0 ELSE turn
  BY <1>1 DEF Phases, Shown, Idle, Streaming, Between, Working
<1>4. Journal.agent = CASE phase = "idle" -> "idle"
                        [] phase = "streaming" -> "running"
                        [] phase = "working" -> "waiting"
  BY <1>1 DEF Phases, Shown, Idle, Streaming, Between, Working
<1> QED BY <1>2, <1>3, <1>4 DEF JournalAgrees

\* The batch in memory and the journal always tell the same story (LOOP-2, APV-6):
\* what is asked, running or answered is so in both, and nothing else is.
THEOREM JournalAndTurnAgree == Spec => []JournalAgrees
BY AgreeThen, JournalInvariant, TypeCorrect, PTL

-----------------------------------------------------------------------------
(* Every unfinished call of the batch has its worker.                      *)

\* WorkerOwned call by call.  It is inductive once a call that any worker still
\* holds is known to be in the journal: its identity is then never used again.
Held(c) == c \in admitting \cup running \/ preparing[c] # 0

Owned(c) ==
  /\ slot[c] = "admission" => c \in admitting
  /\ slot[c] = "preparing" => preparing[c] # 0 /\ preparing[c] = offer[c]
  /\ slot[c] = "running" => c \in running
  /\ slot[c] \in {"admission", "waiting"} => preparing[c] = 0
  /\ slot[c] \in {"waiting", "preparing", "running"} => c \notin admitting
  /\ slot[c] \in {"admission", "waiting", "preparing"} => c \notin running
  /\ c \in granted => preparing[c] # 0
  /\ ~(c \in admitting /\ c \in running)
  /\ c \in admitting \cup running => preparing[c] = 0
  /\ Held(c) => Journal.tool[c].status # "absent"

Unfinished == phase = "working" => \E c \in CallSet : slot[c] # "finished"

WorkInv == Unfinished /\ \A c \in Calls : Owned(c)

CallsKept == \A c \in Calls : Journal.tool[c].status # "absent" => Journal'.tool[c].status # "absent"

\* A call that was recorded stays recorded, whatever the reaction.
LEMMA RecordedStays ==
  ASSUME JournalInv, JournalInv', saved' = Journal \/ UNCHANGED <<saved, records>>
  PROVE  CallsKept
<1>1. Journal' = Replay(saved', records')
  BY DEF Journal
<1>2. saved' \in Journals /\ records' \in Seq(Records)
  BY DEF JournalInv, Replayable, Recoverable
<1>3. CASE saved' = Journal
  <2> HIDE DEF Journal
  <2>1. Journal' = Replay(Journal, records') /\ Journal \in Journals
    BY <1>1, <1>2, <1>3
  <2> QED BY <1>2, <2>1, ReplayKeeps DEF CallsKept
<1>4. CASE UNCHANGED <<saved, records>>
  <2>1. Journal' = Journal
    BY <1>4 DEF Journal
  <2> HIDE DEF Journal
  <2> QED BY <2>1 DEF CallsKept
<1> QED BY <1>3, <1>4

\* Every reaction is recorded after the last one; the policy's owner records nothing.
LEMMA EveryReactionRecorded ==
  [Next]_vars => saved' = Journal \/ UNCHANGED <<saved, records, authority>>
<1> SUFFICES ASSUME [Next]_vars PROVE saved' = Journal \/ UNCHANGED <<saved, records, authority>>
  OBVIOUS
<1> DEFINE Goal == saved' = Journal \/ UNCHANGED <<saved, records, authority>>
<1> HIDE DEF Journal
<1>1. UserInput => Goal
  BY DEF UserInput, SubmitIdle, SubmitRunning, Steer, Withdraw, StartCollaborationTurn, Commit
<1>2. ASSUME NEW s, ModelInput(s) PROVE Goal
  BY <1>2 DEF ModelInput, ModelCalls, ModelStops, ModelFails, LateModelInput, Dispatch,
              FinishTurn, AbortTurn, Commit
<1>3. ASSUME NEW c, NEW recs, Answered(c, recs) PROVE Goal
  BY <1>3 DEF Answered, NextStep, FinishTurn, Commit
<1>4. ASSUME NEW c, ToolInput(c) PROVE Goal
  BY <1>3, <1>4 DEF ToolInput, AdmissionResolved, LateAdmission, ToolFinished, LateToolResult,
                    PermissionPrepared, LatePermission, Refuse, Commit
<1>5. ASSUME NEW c, UserDecision(c) PROVE Goal
  BY <1>3, <1>5 DEF UserDecision, Deny, AllowOnce, AllowAndRemember, Refuse, Commit
<1>6. PermissionsChanged \/ PolicyChanges \/ (\E c \in Calls : GrantRemembered(c)) => Goal
  BY DEF PermissionsChanged, PolicyChanges, GrantRemembered, Commit, toolVars
<1>7. ASSUME NEW outcome, Stop(outcome) PROVE Goal
  BY <1>7 DEF Stop, AbortTurn, Commit
<1>8. UNCHANGED vars => Goal
  BY DEF vars, toolVars
<1> QED BY <1>1, <1>2, <1>4, <1>5, <1>6, <1>7, <1>8 DEF Next

\* A turn that opens a step or goes idle drops its slots; workers still out stay held.
LEMMA ResetOwned ==
  ASSUME WorkInv, CallsKept, slot' = [c \in Calls |-> "none"], phase' # "working",
         admitting' \subseteq admitting, running' \subseteq running,
         UNCHANGED <<preparing, granted>>
  PROVE  WorkInv'
<1> HIDE DEF Journal
<1>1. ASSUME NEW c \in Calls PROVE Owned(c)'
  BY DEF WorkInv, Owned, Held, CallsKept
<1> QED BY <1>1 DEF WorkInv, Unfinished

\* The call c moves; every other call keeps its slot and its worker.
LEMMA MovedOwned ==
  ASSUME WorkInv, CallsKept, Unfinished', NEW c \in Calls, Owned(c)',
         \A d \in Calls \ {c} : /\ slot'[d] = slot[d] /\ offer'[d] = offer[d]
                                /\ preparing'[d] = preparing[d]
                                /\ d \in admitting' <=> d \in admitting
                                /\ d \in running' <=> d \in running
                                /\ d \in granted' <=> d \in granted
  PROVE  WorkInv'
<1> HIDE DEF Journal
<1>1. ASSUME NEW d \in Calls, d # c PROVE Owned(d)'
  <2>1. Owned(d) /\ (Journal.tool[d].status # "absent" => Journal'.tool[d].status # "absent")
    BY DEF WorkInv, CallsKept
  <2>2. /\ slot'[d] = slot[d] /\ offer'[d] = offer[d]
        /\ preparing'[d] = preparing[d]
    BY <1>1
  <2>3. /\ d \in admitting' <=> d \in admitting
        /\ d \in running' <=> d \in running
        /\ d \in granted' <=> d \in granted
    BY <1>1
  <2> QED BY <2>1, <2>2, <2>3 DEF Owned, Held
<1> QED BY <1>1 DEF WorkInv

\* The call c got its outcome.
LEMMA AnsweredOwned ==
  ASSUME TypeOK, WorkInv, CallsKept, NEW c \in Calls, NEW recs, Answered(c, recs),
         admitting' \in {admitting, admitting \ {c}}, running' \in {running, running \ {c}},
         UNCHANGED <<preparing, granted>>
  PROVE  WorkInv'
<1>1. CASE NextStep(recs)
  <2>1. slot' = [d \in Calls |-> "none"] /\ phase' # "working"
    BY <1>1 DEF NextStep, FinishTurn, OpenStep, GoIdle, GoIdleAt
  <2> QED BY <2>1, ResetOwned
<1>2. CASE /\ \E d \in CallSet : [slot EXCEPT ![c] = "finished"][d] # "finished"
           /\ slot' = [slot EXCEPT ![c] = "finished"]
           /\ offer' = [offer EXCEPT ![c] = 0]
           /\ UNCHANGED <<turnVars, inputVars, calling>>
  <2> HIDE DEF Journal
  <2>1. /\ slot'[c] = "finished"
        /\ \A d \in Calls \ {c} : slot'[d] = slot[d] /\ offer'[d] = offer[d]
    BY <1>2 DEF TypeOK, TurnTypeOK
  <2>2. Owned(c)'
    BY <2>1 DEF WorkInv, Owned, Held, CallsKept
  <2>3. Unfinished'
    BY <1>2 DEF Unfinished, CallSet, turnVars
  <2> QED BY <2>1, <2>2, <2>3, MovedOwned
<1> QED BY <1>1, <1>2 DEF Answered

\* No slot and no worker changes.
LEMMA UnmovedOwned ==
  ASSUME WorkInv, CallsKept, Unfinished',
         UNCHANGED <<slot, offer, admitting, preparing, granted, running>>
  PROVE  WorkInv'
<1> HIDE DEF Journal
<1>1. ASSUME NEW d \in Calls PROVE Owned(d)'
  BY DEF WorkInv, Owned, Held, CallsKept
<1> QED BY <1>1 DEF WorkInv

\* A call with a slot belongs to the working batch and is in the journal.
LEMMA InBatch ==
  ASSUME JournalInv, NEW c \in Calls, slot[c] # "none"
  PROVE  phase = "working" /\ c \in CallSet /\ Journal.tool[c].status # "absent"
<1> HIDE DEF Journal
<1>1. phase = "working" /\ Working(Journal, turn, step, calls, slot)
  BY DEF JournalInv, Shown
<1>2. Slotted(Journal.tool[c], slot[c]) /\ slot[c] \in SlotStates /\ Member(calls, c)
  BY <1>1 DEF Working
<1> QED BY <1>1, <1>2 DEF Slotted, SlotStates, Terminal, CallSet, Member

\* Calls the policy allows start, and with them the one whose rule was remembered.
LEMMA ReleaseOwned ==
  ASSUME TypeOK, JournalInv, WorkInv, CallsKept, NEW first \in SUBSET Calls, NEW auth,
         Release(first, auth), UNCHANGED <<turnVars, admitting>>,
         \A c \in first : /\ slot[c] = "preparing"
                          /\ preparing'[c] = 0 /\ c \notin granted',
         \A c \in Calls \ first : /\ preparing'[c] = preparing[c]
                                  /\ c \in granted' <=> c \in granted
  PROVE  WorkInv'
<1>1. \A c \in Calls : slot[c] # "none" => Journal.tool[c].status # "absent"
  BY InBatch
<1> HIDE DEF Journal
<1>2. ASSUME NEW c \in Calls PROVE Owned(c)'
  <2>1. Owned(c) /\ (Journal.tool[c].status # "absent" => Journal'.tool[c].status # "absent")
    BY DEF WorkInv, CallsKept
  <2>2. CASE c \in first
    <3>1. /\ slot'[c] = "running" /\ c \in running' /\ (c \in admitting' <=> c \in admitting)
      BY <2>2 DEF Release
    <3> QED BY <1>1, <2>1, <2>2, <3>1 DEF Owned, Held
  <2>3. CASE c \notin first /\ Releasable(c)
    <3>1. /\ slot'[c] = "running" /\ c \in running' /\ (c \in admitting' <=> c \in admitting)
          /\ slot[c] = "waiting"
      BY <2>3 DEF Release, Releasable
    <3>2. preparing'[c] = preparing[c] /\ (c \in granted' <=> c \in granted)
      BY <2>3
    <3> QED BY <1>1, <2>1, <3>1, <3>2 DEF Owned, Held
  <2>4. CASE c \notin first /\ ~Releasable(c)
    <3>1. /\ slot'[c] = slot[c] /\ offer'[c] = offer[c]
          /\ c \in running' <=> c \in running
          /\ c \in admitting' <=> c \in admitting
      BY <2>4 DEF Release
    <3>2. preparing'[c] = preparing[c] /\ (c \in granted' <=> c \in granted)
      BY <2>4
    <3> QED BY <2>1, <3>1, <3>2 DEF Owned, Held
  <2> QED BY <2>2, <2>3, <2>4
<1>3. Unfinished'
  <2>1. ASSUME NEW c \in Calls, slot[c] # "finished" PROVE slot'[c] # "finished"
    BY <2>1 DEF Release
  <2>2. CallSet' = CallSet /\ CallSet \subseteq Calls
    BY DEF CallSet, turnVars, TypeOK, TurnTypeOK
  <2> QED BY <2>1, <2>2 DEF WorkInv, Unfinished, turnVars
<1> QED BY <1>2, <1>3 DEF WorkInv

LEMMA WorkUserInput ==
  TypeOK /\ JournalInv /\ WorkInv /\ CallsKept /\ UserInput => WorkInv'
<1> SUFFICES ASSUME TypeOK, JournalInv, WorkInv, CallsKept, UserInput PROVE WorkInv'
  OBVIOUS
<1>1. CASE SubmitIdle \/ StartCollaborationTurn
  <2>1. /\ slot' = [c \in Calls |-> "none"] /\ phase' # "working"
        /\ UNCHANGED <<admitting, running, preparing, granted>>
    BY <1>1 DEF SubmitIdle, StartCollaborationTurn, OpenStep, toolVars
  <2> QED BY <2>1, ResetOwned
<1>2. CASE SubmitRunning \/ Steer \/ Withdraw
  <2>1. UNCHANGED <<turnVars, batchVars, toolVars>>
    BY <1>2 DEF SubmitRunning, Steer, Withdraw
  <2>2. Unfinished'
    BY <2>1 DEF WorkInv, Unfinished, CallSet, turnVars, batchVars
  <2> QED BY <2>1, <2>2, UnmovedOwned DEF batchVars, toolVars
<1> QED BY <1>1, <1>2 DEF UserInput

LEMMA WorkModelInput ==
  TypeOK /\ JournalInv /\ JournalInv' /\ WorkInv /\ CallsKept /\ (\E s \in calling : ModelInput(s))
    => WorkInv'
<1> SUFFICES ASSUME TypeOK, JournalInv, JournalInv', WorkInv, CallsKept, NEW s \in calling,
                    ModelInput(s)
             PROVE  WorkInv'
  OBVIOUS
<1>1. ASSUME NEW spoke, NEW asked, NEW outcome, AbortTurn(outcome, spoke, asked),
             UNCHANGED toolVars
      PROVE  WorkInv'
  <2>1. slot' = [c \in Calls |-> "none"] /\ phase' # "working"
    BY <1>1 DEF AbortTurn, GoIdle, GoIdleAt
  <2> QED BY <1>1, <2>1, ResetOwned DEF toolVars
<1>2. ASSUME NEW c \in Calls, ModelCalls(s, c) PROVE WorkInv'
  <2>1. CASE /\ \E spoke \in BOOLEAN : AbortTurn("failed", spoke, calling)
             /\ UNCHANGED toolVars
    BY <1>1, <2>1
  <2>2. CASE UNCHANGED <<phase, batchVars, toolVars>>
    <3>1. Unfinished'
      BY <1>2, <2>2 DEF ModelCalls, Accepts, Unfinished
    <3> QED BY <2>2, <3>1, UnmovedOwned DEF batchVars, toolVars
  <2> QED BY <1>2, <2>1, <2>2 DEF ModelCalls
<1>3. CASE ModelStops(s)
  <2>1. phase = "streaming" /\ calls \in Seq(Calls)
    BY <1>3 DEF ModelStops, Accepts, TypeOK, TurnTypeOK
  <2>2. CASE calls # <<>> /\ Dispatch(AssistantOutput(turn, step, calls))
    <3>1. /\ slot' = [c \in Calls |-> IF c \in CallSet THEN "admission" ELSE "none"]
          /\ admitting' = admitting \cup CallSet
          /\ phase' = "working" /\ calls' = calls
          /\ UNCHANGED <<offer, preparing, granted, running>>
      BY <2>2 DEF Dispatch
    <3>2. \A c \in CallSet : c \in Calls /\ Journal.tool[c].status = "absent"
      BY <2>1 DEF JournalInv, Shown, CallSet, Member
    <3>3. \A c \in Calls : slot'[c] # "none" => Journal'.tool[c].status # "absent"
      <4>1. Working(Journal', turn', step', calls', slot')
        BY <3>1 DEF JournalInv, Shown
      <4> HIDE DEF Journal
      <4> QED BY <3>1, <4>1 DEF Working, Slotted
    <3> HIDE DEF Journal
    <3>4. ASSUME NEW c \in Calls PROVE Owned(c)'
      <4>1. Owned(c) /\ (Journal.tool[c].status # "absent" => Journal'.tool[c].status # "absent")
        BY DEF WorkInv, CallsKept
      <4>2. CASE c \in CallSet
        <5>1. ~Held(c)
          BY <3>2, <4>1, <4>2 DEF Owned
        <5>2. slot'[c] = "admission" /\ c \in admitting' /\ preparing'[c] = 0 /\ c \notin running'
              /\ c \notin granted'
          BY <3>1, <4>1, <4>2, <5>1 DEF Held, Owned
        <5> QED BY <3>3, <5>2 DEF Owned
      <4>3. CASE c \notin CallSet
        <5>1. /\ slot'[c] = "none" /\ (c \in admitting' <=> c \in admitting)
          BY <3>1, <4>3
        <5> QED BY <3>1, <4>1, <4>3, <5>1 DEF Owned, Held
      <4> QED BY <4>2, <4>3
    <3>5. Unfinished'
      <4>1. 1 \in DOMAIN calls
        BY <2>1, <2>2
      <4>2. calls[1] \in CallSet /\ CallSet' = CallSet
        BY <3>1, <4>1 DEF CallSet
      <4>3. slot'[calls[1]] = "admission"
        BY <3>1, <3>2, <4>2
      <4> QED BY <4>2, <4>3 DEF Unfinished
    <3> QED BY <3>4, <3>5 DEF WorkInv
  <2>3. CASE (\E spoke \in BOOLEAN : FinishTurn(Retained(spoke), "completed", calling \ {s}))
             /\ UNCHANGED toolVars
    <3>1. slot' = [c \in Calls |-> "none"] /\ phase' # "working"
      BY <2>3 DEF FinishTurn, OpenStep, GoIdle, GoIdleAt
    <3> QED BY <2>3, <3>1, ResetOwned DEF toolVars
  <2> QED BY <1>3, <2>2, <2>3 DEF ModelStops
<1>4. CASE ModelFails(s)
  BY <1>1, <1>4 DEF ModelFails
<1>5. CASE LateModelInput(s)
  <2>1. UNCHANGED <<turnVars, batchVars, toolVars>>
    BY <1>5 DEF LateModelInput
  <2>2. Unfinished'
    BY <2>1 DEF WorkInv, Unfinished, CallSet, turnVars, batchVars
  <2> QED BY <2>1, <2>2, UnmovedOwned DEF batchVars, toolVars
<1> QED BY <1>2, <1>3, <1>4, <1>5 DEF ModelInput

LEMMA WorkToolInput ==
  TypeOK /\ JournalInv /\ WorkInv /\ CallsKept /\ (\E c \in Calls : ToolInput(c)) => WorkInv'
<1> SUFFICES ASSUME TypeOK, JournalInv, WorkInv, CallsKept, NEW c \in Calls, ToolInput(c)
             PROVE  WorkInv'
  OBVIOUS
<1>0. /\ slot \in [Calls -> SlotStates] /\ offer \in [Calls -> Nat] /\ preparing \in [Calls -> Nat]
      /\ Unfinished
      /\ Owned(c) /\ (Journal.tool[c].status # "absent" => Journal'.tool[c].status # "absent")
  BY DEF TypeOK, TurnTypeOK, ToolsTypeOK, WorkInv, CallsKept
<1>00. slot[c] # "none" => phase = "working" /\ c \in CallSet /\ Journal.tool[c].status # "absent"
  BY InBatch
<1> HIDE DEF Journal
<1>1. CASE AdmissionResolved(c)
  <2>1. /\ slot[c] = "admission" /\ c \in admitting /\ admitting' = admitting \ {c}
        /\ UNCHANGED <<preparing, granted>>
    BY <1>1 DEF AdmissionResolved
  <2>2. CASE slot' = [slot EXCEPT ![c] = "running"] /\ Run(c, "policy") /\ UNCHANGED <<turnVars, offer>>
    <3>1. slot'[c] = "running" /\ running' = running \cup {c}
      BY <1>0, <2>2 DEF Run
    <3>2. Owned(c)'
      BY <1>0, <2>1, <3>1 DEF Owned, Held
    <3>3. Unfinished'
      BY <1>00, <2>1, <2>2, <3>1 DEF Unfinished, CallSet, turnVars
    <3> QED BY <1>0, <2>1, <2>2, <3>1, <3>2, <3>3, MovedOwned
  <2>3. CASE /\ slot' = [slot EXCEPT ![c] = "waiting"]
             /\ offer' = [offer EXCEPT ![c] = CurrentOffer(c)]
             /\ UNCHANGED <<turnVars, running>>
    <3>1. slot'[c] = "waiting"
      BY <1>0, <2>3
    <3>2. Owned(c)'
      BY <1>0, <2>1, <2>3, <3>1 DEF Owned, Held
    <3>3. Unfinished'
      BY <1>00, <2>1, <2>3, <3>1 DEF Unfinished, CallSet, turnVars
    <3> QED BY <1>0, <2>1, <2>3, <3>2, <3>3, MovedOwned
  <2>4. CASE (\E recs : Answered(c, recs)) /\ UNCHANGED running
    BY <2>1, <2>4, AnsweredOwned
  <2> QED BY <1>1, <2>2, <2>3, <2>4 DEF AdmissionResolved
<1>2. CASE LateAdmission(c) \/ LateToolResult(c) \/ LatePermission(c)
  <2>1. UNCHANGED <<turnVars, batchVars>>
    BY <1>2 DEF LateAdmission, LateToolResult, LatePermission
  <2>2. Unfinished'
    BY <1>0, <2>1 DEF Unfinished, CallSet, turnVars, batchVars
  <2>3. Owned(c)'
    BY <1>0, <1>2, <2>1
       DEF LateAdmission, LateToolResult, LatePermission, Owned, Held, batchVars
  <2>4. \A d \in Calls \ {c} : /\ slot'[d] = slot[d] /\ offer'[d] = offer[d]
                               /\ preparing'[d] = preparing[d]
                               /\ d \in admitting' <=> d \in admitting
                               /\ d \in running' <=> d \in running
                               /\ d \in granted' <=> d \in granted
    BY <1>0, <1>2, <2>1 DEF LateAdmission, LateToolResult, LatePermission, batchVars
  <2> QED BY <2>2, <2>3, <2>4, MovedOwned
<1>3. CASE ToolFinished(c)
  BY <1>3, AnsweredOwned DEF ToolFinished
<1>4. CASE PermissionPrepared(c)
  <2>1. /\ slot[c] = "preparing" /\ preparing[c] # 0
        /\ preparing' = [preparing EXCEPT ![c] = 0] /\ granted' = granted \ {c}
        /\ UNCHANGED <<turnVars, admitting>>
    BY <1>4 DEF PermissionPrepared
  <2>2. CASE Release({c}, "remembered")
    <3>1. /\ \A d \in {c} : slot[d] = "preparing" /\ preparing'[d] = 0 /\ d \notin granted'
          /\ \A d \in Calls \ {c} : /\ preparing'[d] = preparing[d]
                                    /\ d \in granted' <=> d \in granted
          /\ {c} \in SUBSET Calls
      BY <1>0, <2>1
    <3> QED BY <2>1, <2>2, <3>1, ReleaseOwned
  <2>3. CASE Refuse(c) /\ UNCHANGED running
    <3>1. slot'[c] = "waiting" /\ preparing'[c] = 0 /\ c \notin granted'
      BY <1>0, <2>1, <2>3 DEF Refuse
    <3>2. Owned(c)'
      BY <1>0, <2>1, <2>3, <3>1 DEF Owned, Held
    <3>3. Unfinished'
      BY <1>00, <2>1, <3>1 DEF Unfinished, CallSet, turnVars
    <3> QED BY <1>0, <2>1, <2>3, <3>2, <3>3, MovedOwned DEF Refuse
  <2> QED BY <1>4, <2>2, <2>3 DEF PermissionPrepared
<1> QED BY <1>1, <1>2, <1>3, <1>4 DEF ToolInput

LEMMA WorkUserDecision ==
  TypeOK /\ JournalInv /\ WorkInv /\ CallsKept /\ (\E c \in Calls : UserDecision(c)) => WorkInv'
<1> SUFFICES ASSUME TypeOK, JournalInv, WorkInv, CallsKept, NEW c \in Calls, UserDecision(c)
             PROVE  WorkInv'
  OBVIOUS
<1>0. /\ slot \in [Calls -> SlotStates] /\ offer \in [Calls -> Nat] /\ preparing \in [Calls -> Nat]
      /\ Owned(c) /\ (Journal.tool[c].status # "absent" => Journal'.tool[c].status # "absent")
      /\ slot[c] = "waiting"
  BY DEF TypeOK, TurnTypeOK, ToolsTypeOK, WorkInv, CallsKept, UserDecision, Deny, AllowOnce,
         AllowAndRemember
<1>00. phase = "working" /\ c \in CallSet /\ Journal.tool[c].status # "absent"
  BY <1>0, InBatch
<1> HIDE DEF Journal
<1>1. ASSUME UNCHANGED turnVars, slot'[c] # "finished" PROVE Unfinished'
  BY <1>00, <1>1 DEF Unfinished, CallSet, turnVars
<1>2. CASE Deny(c)
  BY <1>2, AnsweredOwned DEF Deny, toolVars
<1>3. ASSUME Refuse(c), UNCHANGED <<turnVars, admitting, preparing, granted, running>>
      PROVE  WorkInv'
  <2>1. slot'[c] = "waiting"
    BY <1>0, <1>3 DEF Refuse
  <2>2. Owned(c)'
    BY <1>0, <1>3, <2>1 DEF Owned, Held
  <2> QED BY <1>0, <1>1, <1>3, <2>1, <2>2, MovedOwned DEF Refuse
<1>4. CASE AllowOnce(c)
  <2>1. CASE Refuse(c) /\ UNCHANGED running
    BY <1>3, <1>4, <2>1 DEF AllowOnce
  <2>2. CASE /\ slot' = [slot EXCEPT ![c] = "running"] /\ offer' = [offer EXCEPT ![c] = 0]
             /\ Run(c, "once")
    <3>1. /\ slot'[c] = "running" /\ running' = running \cup {c}
          /\ UNCHANGED <<turnVars, admitting, preparing, granted>>
      BY <1>0, <1>4, <2>2 DEF AllowOnce, Run
    <3>2. Owned(c)'
      BY <1>0, <1>00, <3>1 DEF Owned, Held
    <3> QED BY <1>0, <1>1, <2>2, <3>1, <3>2, MovedOwned
  <2> QED BY <1>4, <2>1, <2>2 DEF AllowOnce
<1>5. ASSUME NEW seen \in 1..revision, AllowAndRemember(c, seen) PROVE WorkInv'
  <2>1. CASE Refuse(c) /\ preparing' = preparing
    BY <1>3, <1>5, <2>1 DEF AllowAndRemember
  <2>2. CASE /\ OfferStands(c, seen) /\ slot' = [slot EXCEPT ![c] = "preparing"]
             /\ preparing' = [preparing EXCEPT ![c] = seen] /\ offer' = offer
    <3>1. UNCHANGED <<turnVars, admitting, granted, running>>
      BY <1>5 DEF AllowAndRemember
    <3>2. seen # 0 /\ offer[c] = seen
      BY <2>2, <1>5 DEF OfferStands, TypeOK, PolicyTypeOK
    <3>3. slot'[c] = "preparing" /\ preparing'[c] = seen /\ offer'[c] = seen
      BY <1>0, <2>2, <3>2
    <3>4. Owned(c)'
      BY <1>0, <1>00, <3>1, <3>2, <3>3 DEF Owned, Held
    <3> QED BY <1>0, <1>1, <2>2, <3>1, <3>3, <3>4, MovedOwned
  <2> QED BY <1>5, <2>1, <2>2 DEF AllowAndRemember
<1> QED BY <1>2, <1>4, <1>5 DEF UserDecision

LEMMA WorkOther ==
  TypeOK /\ JournalInv /\ WorkInv /\ CallsKept
    /\ (PermissionsChanged \/ PolicyChanges \/ (\E c \in Calls : GrantRemembered(c))
          \/ (\E outcome \in {"interrupted", "shutdown"} : Stop(outcome)))
  => WorkInv'
<1> SUFFICES ASSUME TypeOK, JournalInv, WorkInv, CallsKept,
                    PermissionsChanged \/ PolicyChanges \/ (\E c \in Calls : GrantRemembered(c))
                      \/ (\E outcome \in {"interrupted", "shutdown"} : Stop(outcome))
             PROVE  WorkInv'
  OBVIOUS
<1> HIDE DEF Journal
<1>1. CASE PermissionsChanged
  BY <1>1, ReleaseOwned DEF PermissionsChanged
<1>2. CASE PolicyChanges
  <2>1. Unfinished'
    BY <1>2 DEF PolicyChanges, WorkInv, Unfinished, CallSet, turnVars, batchVars
  <2> QED BY <1>2, <2>1, UnmovedOwned DEF PolicyChanges, batchVars, toolVars
<1>3. ASSUME NEW c \in Calls, GrantRemembered(c) PROVE WorkInv'
  <2>1. Unfinished'
    BY <1>3 DEF GrantRemembered, WorkInv, Unfinished, CallSet, turnVars, batchVars
  <2>2. Owned(c)'
    BY <1>3 DEF GrantRemembered, WorkInv, CallsKept, Owned, Held, batchVars,
                TypeOK, PolicyTypeOK
  <2> QED BY <1>3, <2>1, <2>2, MovedOwned DEF GrantRemembered, batchVars
<1>4. ASSUME NEW outcome, Stop(outcome) PROVE WorkInv'
  <2>1. slot' = [c \in Calls |-> "none"] /\ phase' # "working" /\ UNCHANGED toolVars
    BY <1>4 DEF Stop, AbortTurn, GoIdle, GoIdleAt
  <2> QED BY <2>1, ResetOwned DEF toolVars
<1> QED BY <1>1, <1>2, <1>3, <1>4

LEMMA WorkInit == Init => WorkInv
<1> SUFFICES ASSUME Init PROVE WorkInv
  OBVIOUS
<1> HIDE DEF Journal
<1> QED BY DEF Init, WorkInv, Unfinished, Owned, Held

LEMMA WorkNext ==
  TypeOK /\ JournalInv /\ JournalInv' /\ WorkInv /\ [Next]_vars => WorkInv'
<1> SUFFICES ASSUME TypeOK, JournalInv, JournalInv', WorkInv, [Next]_vars PROVE WorkInv'
  OBVIOUS
<1>1. CallsKept
  BY EveryReactionRecorded, RecordedStays
<1>2. CASE UNCHANGED vars
  <2>1. UNCHANGED <<turnVars, slot, offer, admitting, preparing, granted, running>>
    BY <1>2 DEF vars, batchVars, toolVars
  <2>2. Unfinished'
    BY <2>1 DEF WorkInv, Unfinished, CallSet, turnVars
  <2> QED BY <1>1, <2>1, <2>2, UnmovedOwned
<1> QED BY <1>1, <1>2, WorkUserInput, WorkModelInput, WorkToolInput, WorkUserDecision, WorkOther
        DEF Next

\* Call by call, and then for the workers of all of them.
LEMMA OwnedThen == TypeOK /\ JournalInv /\ WorkInv => WorkerOwned
<1> SUFFICES ASSUME TypeOK, JournalInv, WorkInv PROVE WorkerOwned
  OBVIOUS
<1> HIDE DEF Journal
<1>1. ASSUME NEW c \in Calls PROVE slot[c] # "none" <=> phase = "working" /\ c \in CallSet
  <2>1. CASE phase = "working"
    <3>1. Working(Journal, turn, step, calls, slot)
      BY <2>1 DEF JournalInv, Shown
    <3>2. slot[c] # "none" <=> Member(calls, c)
      BY <3>1 DEF Working
    <3> QED BY <2>1, <3>2 DEF Member, CallSet
  <2>2. CASE phase # "working"
    BY <2>2 DEF JournalInv, Shown
  <2> QED BY <2>1, <2>2
<1>2. \A c \in Calls : Owned(c)
  BY DEF WorkInv
<1>3. phase = "working" => \E c \in CallSet : slot[c] # "finished"
  BY DEF WorkInv, Unfinished
<1>4. admitting \cup running \subseteq Calls
  BY DEF TypeOK, ToolsTypeOK
<1>5. admitting \cap running = {} /\ \A c \in admitting \cup running : preparing[c] = 0
  BY <1>2, <1>4 DEF Owned
<1> QED BY <1>1, <1>2, <1>3, <1>5 DEF Owned, WorkerOwned

\* An unfinished call of the batch always has the worker it waits for, no worker holds a
\* call twice, and a working turn has something left to do: no batch is ever stranded
\* (turn/mod.rs, Working and Runtime's executions).
THEOREM WorkersAreOwned == Spec => []WorkerOwned
<1>1. TypeOK /\ JournalInv /\ WorkInv /\ [Next]_vars => WorkInv'
  BY WorkNext, JournalNext
<1> QED BY <1>1, OwnedThen, WorkInit, JournalInvariant, TypeCorrect, PTL DEF Spec
-----------------------------------------------------------------------------
(* A process death and the next process's recovery.                        *)

\* A death cuts the last reaction off anywhere; recovery's own records are accepted, and
\* what they leave is what an idle machine stands for (recovery.rs).
LEMMA JournalRestart ==
  ASSUME JournalInv, NEW n \in 0..Len(records), Restart(n)
  PROVE  JournalInv'
<1> DEFINE j == Durable(n)   rs == RecoveryRecords(j)
<1>1. Recoverable(j) /\ SubSeq(records, 1, n) \in Seq(Records)
  BY CutOff DEF JournalInv, Replayable, Durable
<1>2. rs \in Seq(Records) /\ Idle(Retell(j, rs), j.turns)
  BY <1>1, RecoveryShown
<1>3. Retell(j, rs).sound /\ Retell(j, rs) = Replay(j, rs)
  BY <1>1, <1>2, RetellSound DEF Idle, Recoverable
<1>4. saved' = j /\ records' = rs /\ phase' = "idle" /\ turn' = j.turns
      /\ slot' = [c \in Calls |-> "none"]
  BY DEF Restart, GoIdleAt
<1> HIDE DEF j, rs
<1>5. Journal' = Retell(j, rs)
  BY <1>3, <1>4 DEF Journal
<1> HIDE DEF Journal
<1> QED BY <1>1, <1>2, <1>3, <1>4, <1>5 DEF JournalInv, Replayable, Shown

\* The new process starts with nothing outstanding.
LEMMA OthersRestart ==
  ASSUME TypeOK, JournalInv, NEW n \in 0..Len(records), Restart(n)
  PROVE  TypeOK' /\ StepInv' /\ InputsConserved' /\ WorkInv'
<1>1. Durable(n).turns \in Nat
  BY CutOff DEF JournalInv, Replayable, Durable, Recoverable, Journals
<1>2. /\ phase' = "idle" /\ turn' \in Nat /\ step' = 0 /\ calls' = <<>>
      /\ slot' = [c \in Calls |-> "none"] /\ offer' = [c \in Calls |-> 0]
      /\ calling' = {} /\ queue' = {} /\ nextOrder' = 0 /\ delivered' = {} /\ returned' = {}
      /\ policy' \in Policies /\ revision' = 1
      /\ admitting' = {} /\ preparing' = [c \in Calls |-> 0] /\ granted' = {} /\ running' = {}
      /\ authority' = [c \in Calls |-> "none"]
      /\ ran' = ran \cup Started(n)
  BY <1>1 DEF Restart, GoIdleAt
<1>3. TypeOK'
  <2>1. ran' \subseteq Calls
    BY <1>2 DEF Started, TypeOK, PolicyTypeOK
  <2> QED BY <1>2, <2>1, EmptyBatch, BoundsAssumption
          DEF TypeOK, TurnTypeOK, InputsTypeOK, PolicyTypeOK, ToolsTypeOK, Phases, Authorities,
              SlotStates
<1>4. StepInv'
  BY <1>2 DEF StepInv, StepOwned
<1>5. InputsConserved'
  BY <1>2 DEF InputsConserved, Orders
<1>6. WorkInv'
  <2> HIDE DEF Journal
  <2> QED BY <1>2 DEF WorkInv, Unfinished, Owned, Held
<1> QED BY <1>3, <1>4, <1>5, <1>6

-----------------------------------------------------------------------------
(* No call runs twice.                                                     *)

\* A call that waits to be decided.
Undecided == {"admission", "waiting", "preparing"}

\* What was started by an earlier process, or is authorized by this one, was recorded
\* before the last reaction, so no death takes it back; what waits was never started.
RanInv ==
  \A c \in Calls :
    /\ c \in ran \/ authority[c] # "none" => saved.tool[c].status # "absent"
    /\ slot[c] \in Undecided => c \notin ran /\ authority[c] = "none"

\* A step starts only calls that waited, and only a call new to the journal starts waiting.
StartsWaiting ==
  /\ ran' = ran
  /\ \A c \in Calls :
       /\ authority'[c] # authority[c] \/ c \in running' \ running => slot[c] \in Undecided
       /\ slot'[c] \in Undecided =>
            authority'[c] = authority[c]
              /\ (slot[c] \in Undecided \/ Journal.tool[c].status = "absent")

\* A reaction that answers a call starts none.
LEMMA AnsweredStartsNone ==
  ASSUME TypeOK, NEW c \in Calls, NEW recs, Answered(c, recs), UNCHANGED <<ran, authority>>,
         running' \subseteq running
  PROVE  StartsWaiting
<1>1. ASSUME NEW d \in Calls, slot'[d] \in Undecided PROVE slot[d] \in Undecided
  BY <1>1 DEF Answered, NextStep, FinishTurn, OpenStep, GoIdle, GoIdleAt, TypeOK, TurnTypeOK,
              Undecided
<1> HIDE DEF Journal
<1> QED BY <1>1 DEF StartsWaiting

\* So does one that ends the step or the turn, whatever workers are still out.
LEMMA ResetStartsNone ==
  ASSUME slot' = [c \in Calls |-> "none"], UNCHANGED <<ran, authority, running>>
  PROVE  StartsWaiting
BY DEF StartsWaiting, Undecided

LEMMA RefusedStartsNone ==
  ASSUME TypeOK, NEW c \in Calls, slot[c] \in Undecided, NEW s \in SlotStates,
         slot' = [slot EXCEPT ![c] = s], UNCHANGED <<ran, authority, running>>
  PROVE  StartsWaiting
BY DEF StartsWaiting, TypeOK, TurnTypeOK

LEMMA RunStartsOne ==
  ASSUME TypeOK, NEW c \in Calls, slot[c] \in Undecided, NEW auth, Run(c, auth),
         slot' = [slot EXCEPT ![c] = "running"], UNCHANGED ran
  PROVE  StartsWaiting
<1> HIDE DEF Journal
<1>1. \A d \in Calls \ {c} : slot'[d] = slot[d] /\ authority'[d] = authority[d]
                             /\ (d \in running' <=> d \in running)
  BY DEF Run, TypeOK, TurnTypeOK, ToolsTypeOK
<1>2. slot'[c] = "running"
  BY DEF TypeOK, TurnTypeOK
<1> QED BY <1>1, <1>2 DEF StartsWaiting, Undecided

LEMMA ReleaseStartsWaiting ==
  ASSUME TypeOK, NEW first \in SUBSET Calls, NEW auth, Release(first, auth),
         \A c \in first : slot[c] \in Undecided, UNCHANGED ran
  PROVE  StartsWaiting
<1> HIDE DEF Journal
<1>1. ASSUME NEW c \in Calls, c \in first \/ Releasable(c)
      PROVE  slot[c] \in Undecided /\ slot'[c] = "running"
  BY <1>1 DEF Release, Releasable, Undecided
<1>2. ASSUME NEW c \in Calls, ~(c \in first \/ Releasable(c))
      PROVE  slot'[c] = slot[c] /\ authority'[c] = authority[c] /\ (c \in running' <=> c \in running)
  BY <1>2 DEF Release
<1> QED BY <1>1, <1>2 DEF StartsWaiting, Undecided

\* Every step of the machine starts only calls that waited.
LEMMA WaitingNext ==
  ASSUME TypeOK, JournalInv, [Next]_vars
  PROVE  StartsWaiting
<1>1. CASE UNCHANGED <<slot, ran, authority, running>>
  <2> HIDE DEF Journal
  <2> QED BY <1>1 DEF StartsWaiting
<1>2. CASE UserInput
  <2>1. CASE SubmitIdle \/ StartCollaborationTurn
    BY <2>1, ResetStartsNone
       DEF SubmitIdle, StartCollaborationTurn, OpenStep, outerVars, toolVars
  <2>2. CASE SubmitRunning \/ Steer \/ Withdraw
    BY <1>1, <2>2 DEF SubmitRunning, Steer, Withdraw, batchVars, outerVars, toolVars
  <2> QED BY <1>2, <2>1, <2>2 DEF UserInput
<1>3. ASSUME NEW s \in calling, ModelInput(s) PROVE StartsWaiting
  <2>1. ASSUME NEW outcome, NEW spoke, NEW asked, AbortTurn(outcome, spoke, asked),
               UNCHANGED <<outerVars, toolVars>>
        PROVE  StartsWaiting
    BY <2>1, ResetStartsNone DEF AbortTurn, GoIdle, GoIdleAt, outerVars, toolVars
  <2>2. ASSUME NEW c \in Calls, ModelCalls(s, c) PROVE StartsWaiting
    <3>1. CASE UNCHANGED <<batchVars, outerVars, toolVars>>
      BY <1>1, <3>1 DEF batchVars, outerVars, toolVars
    <3> QED BY <2>1, <2>2, <3>1 DEF ModelCalls
  <2>3. CASE ModelStops(s)
    <3>1. CASE Dispatch(AssistantOutput(turn, step, calls))
      <4>1. /\ slot' = [c \in Calls |-> IF c \in CallSet THEN "admission" ELSE "none"]
            /\ UNCHANGED <<ran, authority, running>>
        BY <2>3, <3>1 DEF ModelStops, Dispatch, outerVars
      <4>2. \A c \in CallSet : Journal.tool[c].status = "absent"
        BY <2>3 DEF ModelStops, Accepts, JournalInv, Shown, CallSet, Member, TypeOK, TurnTypeOK
      <4> HIDE DEF Journal
      <4> QED BY <4>1, <4>2 DEF StartsWaiting, Undecided
    <3>2. CASE \E spoke \in BOOLEAN : FinishTurn(Retained(spoke), "completed", calling \ {s})
               /\ UNCHANGED toolVars
      <4>1. slot' = [c \in Calls |-> "none"]
        BY <3>2 DEF FinishTurn, OpenStep, GoIdle, GoIdleAt
      <4> QED BY <2>3, <3>2, <4>1, ResetStartsNone DEF ModelStops, outerVars, toolVars
    <3> QED BY <2>3, <3>1, <3>2 DEF ModelStops
  <2>4. CASE ModelFails(s)
    BY <2>1, <2>4 DEF ModelFails
  <2>5. CASE LateModelInput(s)
    BY <1>1, <2>5 DEF LateModelInput, batchVars, outerVars, toolVars
  <2> QED BY <1>3, <2>2, <2>3, <2>4, <2>5 DEF ModelInput
<1>4. ASSUME NEW c \in Calls, UserDecision(c) PROVE StartsWaiting
  <2>1. slot[c] \in Undecided /\ UNCHANGED ran
    BY <1>4 DEF UserDecision, Deny, AllowOnce, AllowAndRemember, Undecided, outerVars
  <2>2. CASE Deny(c)
    BY <2>1, <2>2, AnsweredStartsNone DEF Deny, toolVars
  <2>3. CASE AllowOnce(c)
    <3>1. CASE Refuse(c) /\ UNCHANGED <<running, authority>>
      BY <2>1, <3>1, RefusedStartsNone DEF Refuse, SlotStates
    <3>2. CASE slot' = [slot EXCEPT ![c] = "running"] /\ Run(c, "once")
      BY <2>1, <3>2, RunStartsOne
    <3> QED BY <2>3, <3>1, <3>2 DEF AllowOnce
  <2>4. ASSUME NEW seen, AllowAndRemember(c, seen) PROVE StartsWaiting
    <3>1. \E s \in {"waiting", "preparing"} : slot' = [slot EXCEPT ![c] = s]
      BY <2>4 DEF AllowAndRemember, Refuse
    <3>2. UNCHANGED <<running, authority>>
      BY <2>4 DEF AllowAndRemember
    <3> QED BY <2>1, <3>1, <3>2, RefusedStartsNone DEF SlotStates
  <2> QED BY <1>4, <2>2, <2>3, <2>4 DEF UserDecision
<1>5. ASSUME NEW c \in Calls, ToolInput(c) PROVE StartsWaiting
  <2>1. UNCHANGED ran
    BY <1>5 DEF ToolInput, AdmissionResolved, LateAdmission, ToolFinished, LateToolResult,
                PermissionPrepared, LatePermission, outerVars
  <2>2. CASE AdmissionResolved(c)
    <3>1. slot[c] \in Undecided
      BY <2>2 DEF AdmissionResolved, Undecided
    <3>2. CASE slot' = [slot EXCEPT ![c] = "running"] /\ Run(c, "policy")
      BY <2>1, <3>1, <3>2, RunStartsOne
    <3>3. CASE slot' = [slot EXCEPT ![c] = "waiting"] /\ UNCHANGED <<running, authority>>
      BY <2>1, <3>1, <3>3, RefusedStartsNone DEF SlotStates
    <3>4. CASE (\E recs : Answered(c, recs)) /\ UNCHANGED <<running, authority>>
      BY <2>1, <3>4, AnsweredStartsNone
    <3> QED BY <2>2, <3>2, <3>3, <3>4 DEF AdmissionResolved
  <2>3. CASE ToolFinished(c)
    <3>1. (\E recs : Answered(c, recs)) /\ running' \subseteq running /\ UNCHANGED authority
      BY <2>3 DEF ToolFinished
    <3> QED BY <2>1, <3>1, AnsweredStartsNone
  <2>4. CASE LateAdmission(c) \/ LateToolResult(c) \/ LatePermission(c)
    <3>1. UNCHANGED <<slot, authority>> /\ running' \subseteq running
      BY <2>4 DEF LateAdmission, LateToolResult, LatePermission, batchVars
    <3> HIDE DEF Journal
    <3> QED BY <2>1, <3>1 DEF StartsWaiting
  <2>5. CASE PermissionPrepared(c)
    <3>1. slot[c] \in Undecided
      BY <2>5 DEF PermissionPrepared, Undecided
    <3>2. CASE Release({c}, "remembered")
      BY <2>1, <3>1, <3>2, ReleaseStartsWaiting
    <3>3. CASE Refuse(c) /\ UNCHANGED <<running, authority>>
      BY <2>1, <3>1, <3>3, RefusedStartsNone DEF Refuse, SlotStates
    <3> QED BY <2>5, <3>2, <3>3 DEF PermissionPrepared
  <2> QED BY <1>5, <2>2, <2>3, <2>4, <2>5 DEF ToolInput
<1>6. CASE PermissionsChanged
  BY <1>6, ReleaseStartsWaiting DEF PermissionsChanged, outerVars
<1>7. CASE PolicyChanges \/ (\E c \in Calls : GrantRemembered(c)) \/ UNCHANGED vars
  BY <1>1, <1>7 DEF PolicyChanges, GrantRemembered, vars, batchVars, outerVars, toolVars
<1>8. ASSUME NEW outcome, Stop(outcome) PROVE StartsWaiting
  BY <1>8, ResetStartsNone DEF Stop, AbortTurn, GoIdle, GoIdleAt, outerVars, toolVars
<1> QED BY <1>2, <1>3, <1>4, <1>5, <1>6, <1>7, <1>8 DEF Next

\* What was recorded before the last reaction is still recorded after it.
LEMMA SavedStays ==
  ASSUME JournalInv, NEW c \in Calls, saved.tool[c].status # "absent"
  PROVE  Journal.tool[c].status # "absent"
BY ReplayKeeps DEF JournalInv, Replayable, Recoverable, Journal

LEMMA RanNext ==
  ASSUME TypeOK, JournalInv, RanInv, [Next]_vars
  PROVE  RanInv'
<1>1. StartsWaiting
  BY WaitingNext
<1>2. saved' = Journal \/ UNCHANGED <<saved, records, authority>>
  BY EveryReactionRecorded
<1>3. ASSUME NEW c \in Calls
      PROVE  /\ saved.tool[c].status # "absent" => Journal.tool[c].status # "absent"
             /\ slot[c] \in Undecided => Journal.tool[c].status # "absent"
  BY SavedStays, InBatch DEF Undecided
<1> HIDE DEF Journal
<1>4. ASSUME NEW c \in Calls, c \in ran' \/ authority'[c] # "none"
      PROVE  saved'.tool[c].status # "absent"
  <2>1. CASE c \in ran \/ authority[c] # "none"
    BY <1>2, <1>3, <2>1 DEF RanInv
  <2>2. CASE authority'[c] # authority[c]
    BY <1>1, <1>2, <1>3, <2>2 DEF StartsWaiting
  <2> QED BY <1>1, <1>4, <2>1, <2>2 DEF StartsWaiting
<1>5. ASSUME NEW c \in Calls, slot'[c] \in Undecided
      PROVE  c \notin ran' /\ authority'[c] = "none"
  <2>1. authority'[c] = authority[c] /\ ran' = ran
    BY <1>1, <1>5 DEF StartsWaiting
  <2>2. slot[c] \in Undecided \/ saved.tool[c].status = "absent"
    BY <1>1, <1>3, <1>5 DEF StartsWaiting
  <2> QED BY <2>1, <2>2 DEF RanInv
<1> QED BY <1>4, <1>5 DEF RanInv

\* What an earlier process started stays recorded in what a death leaves.
LEMMA RanRestart ==
  ASSUME JournalInv, RanInv, NEW n \in 0..Len(records), Restart(n)
  PROVE  RanInv'
<1>1. ASSUME NEW c \in Calls, saved.tool[c].status # "absent"
      PROVE  Durable(n).tool[c].status # "absent"
  BY <1>1, CutOff, ReplayKeeps DEF JournalInv, Replayable, Recoverable, Durable
<1>2. /\ saved' = Durable(n) /\ ran' = ran \cup Started(n)
      /\ slot' = [c \in Calls |-> "none"] /\ authority' = [c \in Calls |-> "none"]
  BY DEF Restart, GoIdleAt
<1>3. \A c \in Started(n) : authority[c] # "none"
  BY DEF Started
<1> HIDE DEF Durable, Started
<1> QED BY <1>1, <1>2, <1>3 DEF RanInv, Undecided

-----------------------------------------------------------------------------
(* The theorems about process deaths.                                      *)

RecoveryInv == TypeOK /\ StepInv /\ InputsConserved /\ JournalInv /\ WorkInv /\ RanInv

\* Wherever a process dies, also in the middle of a recovery, the next one finds the
\* invariant of the whole machine again (recovery.rs; runtime's journal worker).
THEOREM RecoveryInvariant == RecoverySpec => []RecoveryInv
<1>1. Init => RecoveryInv
  <2>1. Init => RanInv
    BY DEF Init, RanInv, Undecided
  <2> QED BY <2>1, TypeInit, StepInit, InputsInit, JournalInit, WorkInit DEF RecoveryInv
<1>2. RecoveryInv /\ [RecoveryNext]_vars => RecoveryInv'
  <2>1. RecoveryInv /\ [Next]_vars => RecoveryInv'
    BY TypeNext, StepNext, InputsNext, JournalNext, WorkNext, RanNext DEF RecoveryInv
  <2>2. ASSUME RecoveryInv, NEW n \in 0..Len(records), Restart(n) PROVE RecoveryInv'
    BY <2>2, OthersRestart, JournalRestart, RanRestart DEF RecoveryInv
  <2> QED BY <2>1, <2>2 DEF RecoveryNext
<1> QED BY <1>1, <1>2, PTL DEF RecoverySpec

\* What holds of one process holds of every process that recovers another's journal: no
\* record is refused, the journal and the batch agree, and every call has its worker.
THEOREM RecoveredAgrees ==
  RecoverySpec => [](JournalSound /\ JournalAgrees /\ WorkerOwned)
<1>1. RecoveryInv => JournalSound /\ JournalAgrees /\ WorkerOwned
  BY SoundThen, AgreeThen, OwnedThen DEF RecoveryInv
<1> QED BY <1>1, RecoveryInvariant, PTL

\* An idle agent has nothing left to recover and one interruption has one marker,
\* however often recovery itself is interrupted (JRN-5; recovery.rs, needs_marker).
THEOREM RecoverySettles == RecoverySpec => []IdleIsSettled
<1>1. RecoveryInv => IdleIsSettled
  <2> SUFFICES ASSUME RecoveryInv PROVE IdleIsSettled
    OBVIOUS
  <2>1. Journal.markers <= 1
    BY Standing DEF RecoveryInv, JournalInv, Recoverable
  <2>2. phase = "idle" => Idle(Journal, turn)
    BY DEF RecoveryInv, JournalInv, Shown
  <2> HIDE DEF Journal
  <2> QED BY <2>1, <2>2 DEF IdleIsSettled, Idle, Quiet, Interrupted, IncompleteBatch
<1> QED BY <1>1, RecoveryInvariant, PTL

\* Every tool is started under an authorization the policy in force supports, also by
\* the processes that follow a death: recovery itself starts none.
THEOREM RecoveredRunsAuthorized == RecoverySpec => RunsAuthorized
<1>1. RecoveryInv /\ [RecoveryNext]_vars => [StartsAuthorized]_vars
  <2>1. RecoveryInv /\ [Next]_vars => StartsAuthorized
    BY StartsNext DEF RecoveryInv
  <2>2. ASSUME NEW n, Restart(n) PROVE StartsAuthorized
    BY <2>2 DEF Restart, StartsAuthorized
  <2> QED BY <2>1, <2>2 DEF RecoveryNext
<1> QED BY <1>1, RecoveryInvariant, PTL DEF RecoverySpec, RunsAuthorized

\* No call is executed twice, by one process or by two: what was started is in the durable
\* journal wherever a death cuts it off, so no later step takes its identity again.
THEOREM CallsRunOnce == RecoverySpec => NeverRunTwice
<1> DEFINE Once == \A c \in running' \ running : c \notin ran /\ authority[c] = "none"
<1>1. RecoveryInv /\ [RecoveryNext]_vars => [Once]_vars
  <2>1. ASSUME RecoveryInv, [Next]_vars PROVE Once
    <3>1. StartsWaiting /\ running' \subseteq Calls
      BY <2>1, WaitingNext, TypeNext DEF RecoveryInv, TypeOK, ToolsTypeOK
    <3> QED BY <2>1, <3>1 DEF RecoveryInv, RanInv, StartsWaiting
  <2>2. ASSUME NEW n, Restart(n) PROVE Once
    BY <2>2 DEF Restart
  <2> QED BY <2>1, <2>2 DEF RecoveryNext
<1> QED BY <1>1, RecoveryInvariant, PTL DEF RecoverySpec, NeverRunTwice
=============================================================================
