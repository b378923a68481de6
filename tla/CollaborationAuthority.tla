------------------------ MODULE CollaborationAuthority ------------------------
(***************************************************************************)
(* The writer of a collaboration file and the execution authority it hands *)
(* out (COL-3 to COL-5), over a file that survives process deaths.         *)
(*                                                                         *)
(* One worker thread owns the file and runs one command at a time: admit a *)
(* fact, admit a root turn, or schedule a child turn, which reserves the   *)
(* child's execution slot first.  The runners, on other threads, take the  *)
(* prepared turn, bind its reservation to a permit, include the turn in    *)
(* their session and drop the permit when its work has settled.  The two   *)
(* sides meet in the authority gate, under its mutex: a command is split   *)
(* into the steps between which a runner can take that mutex.              *)
(*                                                                         *)
(* Reservations and permits retain the file lock, so no other writer can   *)
(* open the file while one is alive, even after its writer has closed.     *)
(***************************************************************************)
EXTENDS CollaborationPromises

CONSTANTS
    Roots,          \* conversations the user owns: their turns need no permit
    Attempts,       \* records a caller may bring: item identity and event
    Requests,       \* turns a caller may ask for: item identity, recipient, turn
    Heads,          \* 0..n: head revisions of a session that are explored
    NoDelegation,   \* stands for the absent delegation of a root turn
    MaxPermits      \* bound on the permits one writer numbers

ASSUME AuthorityAssumption ==
  /\ NoDelegation \notin Delegations
  /\ \A a \in Attempts : \E id \in Items, e \in Facts : a = Record(id, e)
  /\ \A req \in Requests : /\ req.id \in Items
                           /\ req.recipient \in Conversations
                           /\ req.turn \in Turns
  /\ 0 \in Heads
  /\ Heads \subseteq Nat
  /\ MaxPermits \in Nat

VARIABLES           \* log is the reduction of the complete records of the file
    ledger,         \* the writer's reduction: acknowledged records only
    writer,         \* "closed", "ready" or "poisoned"
    command,        \* the record the worker is about to write or reduce, and for whom
    control,        \* gate: controller state of each delegation
    active,         \* gate: permit number holding the slot of each delegation, 0 for none
    issued,         \* gate: admissions a permit was issued for
    nextPermit,     \* gate: last permit number given out
    handles,        \* prepared turns and permits that are alive in the process
    included,       \* per session, durable: admissions included, in order
    head,           \* per session, durable: head revision
    receipts,       \* history: acknowledgements the callers got
    executions      \* history: permits issued per admission

fileVars    == <<log, ledger, writer>>
gateVars    == <<control, active, issued, nextPermit>>
sessionVars == <<included, head>>
historyVars == <<receipts, executions>>
vars        == <<fileVars, command, gateVars, handles, sessionVars, historyVars>>

-----------------------------------------------------------------------------
(* Commands, handles and the gate.                                         *)

Idle == [stage |-> "idle"]

\* A record under way.  place is where it goes; delegation and permit are those of
\* the reservation a scheduled turn holds.
Writing(stage, r, d, permit) ==
  [stage |-> stage, record |-> r, delegation |-> d, permit |-> permit]

\* A turn admitted at a place of the log and handed to its runner: prepared, then
\* executing under a permit that is bound, then included in the session.
Handle(kind, place, d, permit) ==
  [kind |-> kind, place |-> place, delegation |-> d, permit |-> permit]

Owned(h) == h.delegation # NoDelegation

\* The command under way holds a reservation.
Reserving == command # Idle /\ command.delegation # NoDelegation

\* Handles that keep the lease of the file, and with it the lock.
Leases == {h \in handles : Owned(h)}

ReleaseSlot(d, permit) ==
  [x \in Delegations |-> IF x = d /\ active[x] = permit THEN 0 ELSE active[x]]

\* freeze_authority: every registered delegation.
Frozen == [d \in Delegations |-> IF control[d] = "unregistered" THEN "unregistered" ELSE "frozen"]

TurnsOf(l) == {n \in DOMAIN l.records : l.records[n].event.kind = "turn_admitted"}

\* Mutant: a reopened file forgets which admissions were issued.
IssuedNever(l) == {}

\* from_ledger: an admission found in the file may have been issued by an earlier
\* process, so it is never issued again.
IssuedBefore(l) == TurnsOf(l)

ControlFrom(l) ==
  [d \in Delegations |->
     IF d \in DOMAIN l.delegations THEN l.delegations[d].controller ELSE "unregistered"]

\* Acknowledges the record at a place.
Receipt(id, n) == [id |-> id, sequence |-> n]

LastIncluded(c) == IF included[c] = <<>> THEN 0 ELSE included[c][Len(included[c])]

BoundaryOf(req) == Boundary(req.recipient, head[req.recipient], req.turn)

Init ==
  /\ log = EmptyLedger
  /\ ledger = EmptyLedger
  /\ writer = "ready"
  /\ command = Idle
  /\ control = [d \in Delegations |-> "unregistered"]
  /\ active = [d \in Delegations |-> 0]
  /\ issued = {}
  /\ nextPermit = 0
  /\ handles = {}
  /\ included = [c \in Conversations |-> <<>>]
  /\ head = [c \in Conversations |-> 0]
  /\ receipts = {}
  /\ executions = [n \in 1..ItemCapacity |-> 0]

-----------------------------------------------------------------------------
(* The worker thread: facts.                                               *)

\* Mutant: a handoff is written while a reservation or permit is still held.
CanReleaseBusy(d) == control[d] = "main"

\* begin_release: only a quiet, Main-controlled delegation can be handed off.
CanRelease(d) == active[d] = 0 /\ control[d] = "main"

\* admit_inner up to the write: the record is prepared, and a handoff closes the
\* gate of its delegation before it is written.
Submit(a) ==
  /\ writer = "ready"
  /\ command = Idle
  /\ Validates(ledger, a)
  /\ IF a.event.kind = "handoff_completed"
     THEN /\ CanRelease(a.event.delegation)
          /\ control' = [control EXCEPT ![a.event.delegation] = "releasing"]
     ELSE control' = control
  /\ command' = Writing("write", a, NoDelegation, 0)
  /\ UNCHANGED <<fileVars, active, issued, nextPermit, handles, sessionVars, historyVars>>

\* An exact retry returns the receipt of the original.
SubmitAgain(a) ==
  /\ writer = "ready"
  /\ command = Idle
  /\ Admitted(ledger, a.id)
  /\ ledger.records[PlaceOf(ledger, a.id)].event = a.event
  /\ receipts' = receipts \cup {Receipt(a.id, PlaceOf(ledger, a.id))}
  /\ UNCHANGED <<fileVars, command, gateVars, handles, sessionVars, executions>>

-----------------------------------------------------------------------------
(* The worker thread: turns.                                               *)

\* The delegation a child turn is scheduled under.
DelegationOf(d, req) ==
  d \in DOMAIN ledger.delegations /\ ledger.delegations[d].worker = req.recipient

\* reserve_execution: the sole Main-owned slot of a delegation.
Reservable(d) == control[d] = "main" /\ active[d] = 0

\* ensure_ticket_available, with the reservation already held.
Ticketed(d, n) == control[d] = "main" /\ n \notin issued

Previous(req) == LastIncluded(req.recipient)

\* schedule_inner: reserve, then prepare the turn and append it.  (A refused turn
\* takes and gives back the slot within the command and only uses up a number.)
Schedule(req, d) ==
  LET r == PreparedTurn(ledger, req.id, BoundaryOf(req), Previous(req))
  IN  /\ writer = "ready"
      /\ command = Idle
      /\ nextPermit < MaxPermits
      /\ DelegationOf(d, req)
      /\ Reservable(d)
      /\ Validates(ledger, r)
      /\ nextPermit' = nextPermit + 1
      /\ active' = [active EXCEPT ![d] = nextPermit + 1]
      /\ command' = Writing("write", r, d, nextPermit + 1)
      /\ UNCHANGED <<fileVars, control, issued, handles, sessionVars, historyVars>>

\* The request an admission answers.
RetryOf(l, req) ==
  /\ Admitted(l, req.id)
  /\ \E h \in Heads, previous \in 0..ItemCapacity :
       SameTurn(l, req.id, Boundary(req.recipient, h, req.turn), previous)

\* schedule_inner with the request of an earlier admission: a new reservation for
\* the frozen original, unless a permit was issued for it; then nothing is kept.
ScheduleAgain(req, d) ==
  LET n == PlaceOf(ledger, req.id)
  IN  /\ writer # "closed"
      /\ command = Idle
      /\ nextPermit < MaxPermits
      /\ DelegationOf(d, req)
      /\ Reservable(d)
      /\ RetryOf(ledger, req)
      /\ nextPermit' = nextPermit + 1
      /\ IF Ticketed(d, n)
         THEN /\ active' = [active EXCEPT ![d] = nextPermit + 1]
              /\ handles' = handles \cup {Handle("prepared", n, d, nextPermit + 1)}
         ELSE UNCHANGED <<active, handles>>
      /\ UNCHANGED <<fileVars, command, control, issued, sessionVars, historyVars>>

\* admit_root_turn: the same admission without a reservation.
AdmitRoot(req) ==
  LET r == PreparedTurn(ledger, req.id, BoundaryOf(req), Previous(req))
  IN  /\ writer = "ready"
      /\ command = Idle
      /\ req.recipient \in Roots
      /\ Validates(ledger, r)
      /\ command' = Writing("write", r, NoDelegation, 0)
      /\ UNCHANGED <<fileVars, gateVars, handles, sessionVars, historyVars>>

\* Its retry looks the original up in the ledger; the state of the writer is not asked.
AdmitRootAgain(req) ==
  /\ writer # "closed"
  /\ command = Idle
  /\ req.recipient \in Roots
  /\ RetryOf(ledger, req)
  /\ handles' = handles \cup {Handle("prepared", PlaceOf(ledger, req.id), NoDelegation, 0)}
  /\ UNCHANGED <<fileVars, command, gateVars, sessionVars, historyVars>>

-----------------------------------------------------------------------------
(* The worker thread: the append and what follows it.                      *)

\* The whole line is in the file.
Write ==
  /\ command.stage = "write"
  /\ log' = Reduce(log, command.record)
  /\ command' = [command EXCEPT !.stage = "reduce"]
  /\ UNCHANGED <<ledger, writer, gateVars, handles, sessionVars, historyVars>>

\* Mutant: after a failed write the writer goes on.
StaysReady == "ready"

Poisoned == "poisoned"

\* The write fails: the line may be there all the same.  The writer is poisoned, all
\* authority is frozen and the reservation of a scheduled turn is dropped.
WriteFails ==
  /\ command.stage = "write"
  /\ log' \in {log, Reduce(log, command.record)}
  /\ writer' = Poisoned
  /\ control' = Frozen
  /\ active' = IF Reserving THEN ReleaseSlot(command.delegation, command.permit) ELSE active
  /\ command' = Idle
  /\ UNCHANGED <<ledger, issued, nextPermit, handles, sessionVars, historyVars>>

\* register_delegation and complete_release.
Controlled(e) ==
  CASE e.kind = "delegation_created" -> [control EXCEPT ![e.delegation] = "main"]
    [] e.kind = "handoff_completed"  -> [control EXCEPT ![e.delegation] = "user"]
    [] OTHER -> control

\* Reduces the appended record and answers.  A turn goes to its runner with the
\* reservation: the slot has been held since before the write, so the ticket of a
\* fresh admission is available.
Finish ==
  LET n == Len(ledger.records) + 1
      e == command.record.event
  IN  /\ command.stage = "reduce"
      /\ ledger' = Reduce(ledger, command.record)
      /\ control' = Controlled(e)
      /\ receipts' = receipts \cup {Receipt(command.record.id, n)}
      /\ handles' = IF e.kind = "turn_admitted"
                    THEN handles \cup {Handle("prepared", n, command.delegation, command.permit)}
                    ELSE handles
      /\ command' = Idle
      /\ UNCHANGED <<log, writer, active, issued, nextPermit, sessionVars, executions>>

-----------------------------------------------------------------------------
(* The runners.                                                            *)

AdmissionAt(n) == log.records[n].event

RecipientOf(h) == AdmissionAt(h.place).boundary.recipient

\* The session is between turns.
SessionIdle(c) == \A h \in handles : h.kind # "prepared" => RecipientOf(h) # c

\* Mutant: the boundary the admission was prepared against is not compared.
BoundaryIgnored(h) == SessionIdle(RecipientOf(h))

\* The session still is where the admission was prepared against.
BoundaryHolds(h) ==
  /\ SessionIdle(RecipientOf(h))
  /\ AdmissionAt(h.place).boundary.head = head[RecipientOf(h)]
  /\ AdmissionAt(h.place).previous = LastIncluded(RecipientOf(h))

\* bind: the reservation still holds the slot, Main still controls, and the
\* admission was not issued before.
Bindable(h) ==
  /\ active[h.delegation] = h.permit
  /\ control[h.delegation] = "main"
  /\ h.place \notin issued

\* Mutant: a dropped handle leaves its slot taken.
DroppedSilently(h) == active

Dropped(h) == IF Owned(h) THEN ReleaseSlot(h.delegation, h.permit) ELSE active

\* start_collaboration_turn_inner up to the session write.
Start(h) ==
  /\ h \in handles
  /\ h.kind = "prepared"
  /\ BoundaryHolds(h)
  /\ IF Owned(h)
     THEN /\ Bindable(h)
          /\ issued' = issued \cup {h.place}
          /\ executions' = [executions EXCEPT ![h.place] = @ + 1]
     ELSE UNCHANGED <<issued, executions>>
  /\ handles' = (handles \ {h}) \cup {[h EXCEPT !.kind = "bound"]}
  /\ UNCHANGED <<fileVars, command, control, active, nextPermit, sessionVars, receipts>>

\* Dropping a prepared turn, because the start refused it or nobody wants it any
\* more, or a permit, when the work under it has settled or its session failed.
Drop(h) ==
  /\ h \in handles
  /\ handles' = handles \ {h}
  /\ active' = Dropped(h)
  /\ UNCHANGED <<fileVars, command, control, issued, nextPermit, sessionVars, historyVars>>

IncludedIn(h) == [included EXCEPT ![RecipientOf(h)] = Append(@, h.place)]

\* The session journal records the inclusion; the turn runs.
Include(h) ==
  LET c == RecipientOf(h)
  IN  /\ h \in handles
      /\ h.kind = "bound"
      /\ head[c] + 1 \in Heads
      /\ included' = IncludedIn(h)
      /\ head' = [head EXCEPT ![c] = @ + 1]
      /\ handles' = (handles \ {h}) \cup {[h EXCEPT !.kind = "running"]}
      /\ UNCHANGED <<fileVars, command, gateVars, historyVars>>

\* Who may bring input to a conversation as its user.
UserControls(c) ==
  \/ c \in Roots
  \/ /\ writer # "closed"
     /\ \E d \in Delegations : /\ control[d] = "user"
                               /\ log.delegations[d].worker = c

\* The user's own turn, which moves the session on.
OwnTurn(c) ==
  /\ UserControls(c)
  /\ SessionIdle(c)
  /\ head[c] + 1 \in Heads
  /\ head' = [head EXCEPT ![c] = @ + 1]
  /\ UNCHANGED <<fileVars, command, gateVars, handles, included, historyVars>>

-----------------------------------------------------------------------------
(* Closing, dying, reopening.                                              *)

NoSlots == [d \in Delegations |-> 0]

\* The writer's owner drops the file between commands.  Runners keep what they hold,
\* and with it the gate and the lock.
Close ==
  /\ writer # "closed"
  /\ command = Idle
  /\ writer' = "closed"
  /\ ledger' = EmptyLedger
  /\ UNCHANGED <<log, command, gateVars, handles, sessionVars, historyVars>>

\* The process dies; a record being written is in the file or is not.
Crash ==
  /\ log' \in {log} \cup (IF command.stage = "write" THEN {Reduce(log, command.record)} ELSE {})
  /\ ledger' = EmptyLedger
  /\ writer' = "closed"
  /\ command' = Idle
  /\ control' = [d \in Delegations |-> "unregistered"]
  /\ active' = NoSlots
  /\ issued' = {}
  /\ nextPermit' = 0
  /\ handles' = {}
  /\ UNCHANGED <<sessionVars, historyVars>>

\* open: the lock is free, the complete records are validated and reduced again, a
\* torn tail is set aside.
Reopen ==
  /\ writer = "closed"
  /\ Leases = {}
  /\ ledger' = log
  /\ writer' = "ready"
  /\ control' = ControlFrom(log)
  /\ active' = NoSlots
  /\ issued' = IssuedBefore(log)
  /\ nextPermit' = 0
  /\ UNCHANGED <<log, command, handles, sessionVars, historyVars>>

-----------------------------------------------------------------------------
Next ==
  \/ \E a \in Attempts : Submit(a) \/ SubmitAgain(a)
  \/ \E req \in Requests :
       \/ \E d \in Delegations : Schedule(req, d) \/ ScheduleAgain(req, d)
       \/ AdmitRoot(req)
       \/ AdmitRootAgain(req)
  \/ Write
  \/ WriteFails
  \/ Finish
  \/ \E h \in handles : Start(h) \/ Drop(h) \/ Include(h)
  \/ \E c \in Conversations : OwnTurn(c)
  \/ Close
  \/ Crash
  \/ Reopen

Spec == Init /\ [][Next]_vars

-----------------------------------------------------------------------------
(* Properties.                                                             *)

\* Shape of the state.
TypeOK ==
  /\ writer \in {"closed", "ready", "poisoned"}
  /\ command.stage \in {"idle", "write", "reduce"}
  /\ command.stage # "idle" => writer = "ready" /\ command.delegation \in Delegations \cup {NoDelegation}
  /\ control \in [Delegations -> {"unregistered", "main", "releasing", "user", "frozen"}]
  /\ active \in [Delegations -> 0..MaxPermits]
  /\ nextPermit \in 0..MaxPermits
  /\ issued \subseteq DOMAIN log.records
  /\ \A h \in handles : /\ h.kind \in {"prepared", "bound", "running"}
                        /\ h.place \in TurnsOf(log)
                        /\ h.delegation \in Delegations \cup {NoDelegation}

\* A delegated conversation has one controller: once a handoff is in the file no
\* prepared turn, permit or reservation of Main is alive for it, whatever died or
\* failed on the way (COL-3).
OneController ==
  \A d \in DOMAIN log.delegations :
    log.delegations[d].controller = "user" =>
      /\ \A h \in handles : h.delegation # d
      /\ command # Idle => command.delegation # d

\* A slot belongs to exactly one live holder, the command that reserved it or the
\* handle it went to: two turns of a child never run at once, and no slot stays
\* taken with nobody left to release it, which would block every later handoff.
SlotOwned ==
  /\ \A h \in Leases : active[h.delegation] = h.permit /\ h.permit # 0
  /\ \A h, k \in Leases : h.delegation = k.delegation => h = k
  /\ Reserving => /\ active[command.delegation] = command.permit
                  /\ command.permit # 0
                  /\ \A h \in Leases : h.delegation # command.delegation
  /\ \A d \in Delegations :
       active[d] # 0 => \/ \E h \in Leases : h.delegation = d
                        \/ Reserving /\ command.delegation = d

\* An admission is executed at most once, by this process or by any later one (COL-3).
IssuedOnce == \A n \in DOMAIN executions : executions[n] <= 1

\* An acknowledged record stays where the receipt says, through failures, deaths and
\* reopening (COL-4).
ReceiptsHold ==
  \A r \in receipts : r.sequence \in DOMAIN log.records /\ log.records[r.sequence].id = r.id

\* The turns a session included delivered all that concerned it up to the last one,
\* each item once, although admissions may be lost between the two files (CIN-2).
InboxConsumed ==
  \A c \in Conversations :
    /\ UNION {AdmissionAt(included[c][k]).items : k \in DOMAIN included[c]} =
         {n \in 1..LastIncluded(c) : Relevant(log, n, c)}
    /\ \A j, k \in DOMAIN included[c] :
         j # k => AdmissionAt(included[c][j]).items \cap AdmissionAt(included[c][k]).items = {}

\* After an uncertain write nothing is executed until the file is reopened.
FrozenUntilReopen == [][executions' # executions => writer # "poisoned"]_vars

\* COL-4, "even an old exact retry cannot report success through that poisoned
\* writer": no admission is handed out by a poisoned writer.
PoisonedIsSilent ==
  [][\A h \in handles' \ handles : h.kind = "prepared" => writer # "poisoned"]_vars

\* The file, with its failures and deaths, is the abstract collaboration log.
Log == INSTANCE CollaborationLog WITH log <- log, Heads <- Heads

ImplementsLog == Log!Init /\ [][log' # log => Log!Next]_log
=============================================================================
