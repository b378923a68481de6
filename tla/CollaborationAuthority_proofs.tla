--------------------- MODULE CollaborationAuthority_proofs ---------------------
(***************************************************************************)
(* Proofs about the collaboration writer: one controller per delegation,   *)
(* one owner per slot, one execution per admission, receipts that hold,    *)
(* the file as an implementation of the abstract log, and of that log that *)
(* its delegations are a forest, its mutations in order and its items      *)
(* delivered once.                                                         *)
(***************************************************************************)
EXTENDS CollaborationAuthority, LeastNatural, TLAPS

TurnEvents == [kind : {"turn_admitted"},
               boundary : [recipient : Conversations, head : Heads, turn : Turns],
               previous : Nat, items : SUBSET Nat]

RecordType == [id : Items, event : Facts \cup TurnEvents]

ViewType == [delegator : Conversations, worker : Conversations,
             revision : Nat, controller : {"main", "user"}]

LedgerType(l) ==
  /\ l.records \in Seq(RecordType)
  /\ Len(l.records) <= ItemCapacity
  /\ DOMAIN l.delegations \subseteq Delegations
  /\ \A d \in DOMAIN l.delegations : l.delegations[d] \in ViewType

-----------------------------------------------------------------------------
(* The reduction.                                                          *)

\* Every event of a caller has one of six kinds, and names what that kind names.
LEMMA FactKinds ==
  ASSUME NEW e \in Facts
  PROVE  /\ e.kind \in {"delegation_created", "task_updated", "handoff_completed",
                        "mail_accepted", "attention_requested", "attention_resolved"}
         /\ e.kind = "delegation_created" =>
              e.delegation \in Delegations /\ e.delegator \in Conversations /\ e.worker \in Conversations
         /\ e.kind \in {"task_updated", "handoff_completed"} => e.delegation \in Delegations
BY DEF Facts, DelegationCreated, TaskUpdated, HandoffCompleted, MailAccepted,
       AttentionRequested, AttentionResolved

\* A reduced record is appended and nothing before it moves.
LEMMA ReduceRecords ==
  ASSUME NEW l, NEW r \in RecordType, l.records \in Seq(RecordType)
  PROVE  /\ Reduce(l, r).records \in Seq(RecordType)
         /\ Len(Reduce(l, r).records) = Len(l.records) + 1
         /\ DOMAIN Reduce(l, r).records = 1..(Len(l.records) + 1)
         /\ Reduce(l, r).records[Len(l.records) + 1] = r
         /\ \A n \in DOMAIN l.records : /\ n \in DOMAIN Reduce(l, r).records
                                        /\ Reduce(l, r).records[n] = l.records[n]
<1>1. Reduce(l, r).records = Append(l.records, r)
  BY DEF Reduce
<1> QED BY <1>1

\* A mutation advances the revision of a view; a handoff also gives it to the user.
LEMMA AdvancedView ==
  ASSUME NEW v \in ViewType, NEW e
  PROVE  /\ Advanced(v, e) \in ViewType
         /\ Advanced(v, e).controller =
              IF e.kind = "handoff_completed" THEN "user" ELSE v.controller
<1> DEFINE c == IF e.kind = "handoff_completed" THEN "user" ELSE v.controller
<1>1. Advanced(v, e) = [[v EXCEPT !.revision = v.revision + 1] EXCEPT !.controller = c]
  BY DEF Advanced
<1>2. [v EXCEPT !.revision = v.revision + 1] \in ViewType
  BY DEF ViewType
<1>3. c \in {"main", "user"}
  BY DEF ViewType
<1> HIDE DEF c
<1>4. \A w \in ViewType : [w EXCEPT !.controller = c] \in ViewType
                         /\ [w EXCEPT !.controller = c].controller = c
  BY <1>3 DEF ViewType
<1>5. Advanced(v, e) \in ViewType /\ Advanced(v, e).controller = c
  BY <1>1, <1>2, <1>4
<1> QED BY <1>5 DEF c

\* Only a handoff takes a delegation from Main, and only the one it names.
LEMMA ReduceViews ==
  ASSUME NEW l, NEW r \in RecordType, LedgerType(l), ValidEvent(l, r.event)
  PROVE  LET m == Reduce(l, r)
             released(d) == r.event.kind = "handoff_completed" /\ r.event.delegation = d
         IN  /\ DOMAIN m.delegations \subseteq Delegations
             /\ \A d \in DOMAIN m.delegations : m.delegations[d] \in ViewType
             /\ \A d \in DOMAIN l.delegations :
                  /\ d \in DOMAIN m.delegations
                  /\ l.delegations[d].controller = "main" /\ ~released(d) =>
                       m.delegations[d].controller = "main"
             /\ \A d \in DOMAIN m.delegations :
                  m.delegations[d].controller = "user" =>
                    \/ d \in DOMAIN l.delegations /\ l.delegations[d].controller = "user"
                    \/ released(d)
             /\ r.event.kind = "delegation_created" =>
                  /\ r.event.delegation \in DOMAIN m.delegations
                  /\ m.delegations[r.event.delegation].controller = "main"
<1> DEFINE e == r.event
           m == Reduce(l, r)
<1>1. e \in Facts \/ (e \in TurnEvents /\ e.kind = "turn_admitted")
  BY DEF RecordType, TurnEvents
<1>2. CASE e.kind = "delegation_created"
  <2>1. m.delegations = Put(l.delegations, e.delegation, NewDelegation(e.delegator, e.worker))
    BY <1>2 DEF Reduce
  <2>2. NewDelegation(e.delegator, e.worker) \in ViewType /\ e.delegation \in Delegations
    BY <1>1, <1>2, FactKinds DEF NewDelegation, ViewType
  <2>3. NewDelegation(e.delegator, e.worker).controller = "main"
    BY DEF NewDelegation
  <2>4. e.delegation \notin DOMAIN l.delegations
    BY <1>2 DEF ValidEvent, ValidCreation
  <2> QED BY <1>2, <2>1, <2>2, <2>3, <2>4 DEF Put, LedgerType
<1>3. CASE e.kind \in {"task_updated", "handoff_completed"}
  <2>1. m.delegations = Put(l.delegations, e.delegation, Advanced(l.delegations[e.delegation], e))
    BY <1>3 DEF Reduce
  <2>2. e.delegation \in DOMAIN l.delegations /\ l.delegations[e.delegation].controller = "main"
    BY <1>3 DEF ValidEvent, ValidMainControl
  <2>3. /\ Advanced(l.delegations[e.delegation], e) \in ViewType
        /\ Advanced(l.delegations[e.delegation], e).controller =
             IF e.kind = "handoff_completed" THEN "user" ELSE "main"
    <3>1. l.delegations[e.delegation] \in ViewType
      BY <2>2 DEF LedgerType
    <3> QED BY <2>2, <3>1, AdvancedView
  <2> QED BY <1>3, <2>1, <2>2, <2>3 DEF Put, LedgerType
<1>4. CASE e.kind \notin {"delegation_created", "task_updated", "handoff_completed"}
  <2>1. m.delegations = l.delegations
    BY <1>4 DEF Reduce
  <2> QED BY <1>4, <2>1 DEF LedgerType
<1> QED BY <1>2, <1>3, <1>4

\* The reduction of a valid record is a ledger again.
LEMMA ReduceType ==
  ASSUME NEW l, NEW r \in RecordType, LedgerType(l), Validates(l, r)
  PROVE  LedgerType(Reduce(l, r))
<1>1. ValidEvent(l, r.event) /\ Len(l.records) < ItemCapacity
  BY DEF Validates
<1>2. l.records \in Seq(RecordType) /\ Len(l.records) \in Nat
  BY DEF LedgerType
<1>3. /\ Reduce(l, r).records \in Seq(RecordType)
      /\ Len(Reduce(l, r).records) = Len(l.records) + 1
  BY <1>2, ReduceRecords
<1>4. Len(l.records) + 1 <= ItemCapacity
  BY <1>1, <1>2, LimitsAssumption
<1>5. /\ DOMAIN Reduce(l, r).delegations \subseteq Delegations
      /\ \A d \in DOMAIN Reduce(l, r).delegations : Reduce(l, r).delegations[d] \in ViewType
  BY <1>1, ReduceViews
<1> QED BY <1>3, <1>4, <1>5 DEF LedgerType

-----------------------------------------------------------------------------
(* The file and the writer's reduction of it.                              *)

CommandType == [stage : {"write", "reduce"}, record : RecordType,
                delegation : Delegations \cup {NoDelegation}, permit : Nat]

\* The record is one the abstract log could admit next.
Admissible(l, r) ==
  \/ \E id \in Items, e \in Facts : r = Record(id, e)
  \/ \E id \in Items, c \in Conversations, h \in Heads, t \in Turns, previous \in 0..Len(l.records) :
       r = PreparedTurn(l, id, Boundary(c, h, t), previous)

PrefixOf(l, m) == \A n \in DOMAIN l.records : n \in DOMAIN m.records /\ m.records[n] = l.records[n]

\* An open writer's ledger is the file, but for the record it has written and not
\* yet reduced, or failed to write.
FileInv ==
  /\ LedgerType(log)
  /\ LedgerType(ledger)
  /\ writer \in {"closed", "ready", "poisoned"}
  /\ head \in [Conversations -> Heads]
  /\ nextPermit \in Nat
  /\ command # Idle => command \in CommandType /\ writer = "ready"
  /\ writer = "ready" /\ command = Idle => ledger = log
  /\ command.stage = "write" => /\ ledger = log
                                /\ Validates(ledger, command.record)
                                /\ Admissible(ledger, command.record)
  /\ command.stage = "reduce" => /\ Validates(ledger, command.record)
                                 /\ log = Reduce(ledger, command.record)
  /\ PrefixOf(ledger, log)

\* A turn that validates was prepared with a cursor in the log and is a record.
LEMMA PreparedTurnIsRecord ==
  ASSUME NEW l, LedgerType(l), NEW id \in Items, NEW c \in Conversations, NEW h \in Heads,
         NEW t \in Turns, NEW p, Validates(l, PreparedTurn(l, id, Boundary(c, h, t), p))
  PROVE  LET r == PreparedTurn(l, id, Boundary(c, h, t), p)
         IN  r \in RecordType /\ r.event.kind = "turn_admitted" /\ Admissible(l, r)
<1> DEFINE r == PreparedTurn(l, id, Boundary(c, h, t), p)
<1>1. r.id = id /\ r.event = TurnAdmitted(Boundary(c, h, t), p, EligibleItems(l, c, p))
  BY DEF PreparedTurn, Record, Boundary
<1>2. r.event.kind = "turn_admitted" /\ r.event.previous = p /\ r.event.boundary.recipient = c
  BY <1>1 DEF TurnAdmitted, Boundary
<1>3. ValidTurn(l, r.event)
  BY <1>2 DEF Validates, ValidEvent
<1>4. l.records \in Seq(RecordType)
  BY DEF LedgerType
<1>5. p \in 0..Len(l.records)
  BY <1>2, <1>3, <1>4 DEF ValidTurn, ValidCursor
<1>6. EligibleItems(l, c, p) \subseteq Nat
  BY <1>4 DEF EligibleItems
<1>7. Boundary(c, h, t) \in [recipient : Conversations, head : Heads, turn : Turns]
  BY DEF Boundary
<1>8. r.event \in TurnEvents
  BY <1>1, <1>5, <1>6, <1>7 DEF TurnEvents, TurnAdmitted
<1>9. r \in RecordType
  BY <1>8 DEF RecordType, PreparedTurn, Record
<1>10. Admissible(l, r)
  BY <1>5 DEF Admissible
<1> QED BY <1>2, <1>9, <1>10

\* A caller's attempt is a record.
LEMMA AttemptIsRecord ==
  ASSUME NEW l, NEW a \in Attempts
  PROVE  a \in RecordType /\ Admissible(l, a) /\ a.event \in Facts
BY AuthorityAssumption DEF RecordType, Record, Admissible

\* The file takes the record under way.
Grows == /\ command.stage = "write"
         /\ log' = Reduce(log, command.record)

\* The file grows by a record valid for it, and keeps what it has.
LEMMA FileGrows ==
  ASSUME FileInv, Grows
  PROVE  /\ command.record \in RecordType
         /\ Validates(log, command.record)
         /\ Admissible(log, command.record)
         /\ LedgerType(log')
         /\ PrefixOf(log, log')
<1>1. command # Idle /\ ledger = log
  BY DEF Grows, FileInv, Idle
<1>2. command.record \in RecordType /\ Validates(log, command.record) /\ Admissible(log, command.record)
  BY <1>1 DEF FileInv, CommandType, Grows
<1>3. LedgerType(log')
  BY <1>2, ReduceType DEF FileInv, Grows
<1>4. PrefixOf(log, log')
  BY <1>2, ReduceRecords DEF FileInv, LedgerType, PrefixOf, Grows
<1> QED BY <1>2, <1>3, <1>4

\* The empty ledger is a ledger and begins every other.
LEMMA EmptyIsLedger == LedgerType(EmptyLedger) /\ \A l : PrefixOf(EmptyLedger, l)
BY LimitsAssumption DEF LedgerType, EmptyLedger, PrefixOf

\* Nothing is written outside Write, WriteFails and Crash.
LEMMA FileSteps ==
  ASSUME FileInv, [Next]_vars
  PROVE  UNCHANGED log \/ Grows
<1>1. CASE Write
  BY <1>1 DEF Write, Grows
<1>2. CASE WriteFails
  BY <1>2 DEF WriteFails, Grows
<1>3. CASE Crash
  BY <1>3 DEF Crash, Grows
<1>4. CASE ~Write /\ ~WriteFails /\ ~Crash
  BY <1>4 DEF Next, vars, fileVars, Submit, SubmitAgain, Schedule, ScheduleAgain, AdmitRoot,
     AdmitRootAgain, Finish, Start, Drop, Include, OwnTurn, Close, Reopen
<1> QED BY <1>1, <1>2, <1>3, <1>4

\* A new file is empty and its writer is ready.
LEMMA FileInit == Init => FileInv
BY EmptyIsLedger, AuthorityAssumption DEF Init, FileInv, Idle

\* Every step keeps the file invariant: what the worker validated is what it writes,
\* and what it reduces is what it wrote.
LEMMA FileStep ==
  ASSUME FileInv, [Next]_vars
  PROVE  FileInv'
<1> USE DEF FileInv
<1>1. ASSUME NEW a \in Attempts, Submit(a) PROVE FileInv'
  <2>1. /\ command' = Writing("write", a, NoDelegation, 0)
        /\ UNCHANGED <<log, ledger, writer, head, nextPermit>> /\ writer = "ready" /\ command = Idle
        /\ Validates(ledger, a)
    BY <1>1 DEF Submit, fileVars, sessionVars
  <2>2. command' \in CommandType /\ command'.stage = "write" /\ command'.record = a
    BY <2>1, AttemptIsRecord DEF CommandType, Writing
  <2> QED BY <2>1, <2>2, AttemptIsRecord
<1>2. ASSUME NEW req \in Requests, NEW d \in Delegations, Schedule(req, d) PROVE FileInv'
  <2> DEFINE r == PreparedTurn(ledger, req.id, BoundaryOf(req), Previous(req))
  <2>1. /\ command' = Writing("write", r, d, nextPermit + 1) /\ nextPermit' = nextPermit + 1
        /\ UNCHANGED <<log, ledger, writer, head>> /\ writer = "ready" /\ command = Idle
        /\ Validates(ledger, r)
    BY <1>2 DEF Schedule, fileVars, sessionVars
  <2>2. r \in RecordType /\ Admissible(ledger, r)
    BY <2>1, PreparedTurnIsRecord, AuthorityAssumption DEF BoundaryOf
  <2>3. command' \in CommandType /\ command'.stage = "write" /\ command'.record = r
    BY <2>1, <2>2 DEF CommandType, Writing
  <2> HIDE DEF r
  <2> QED BY <2>1, <2>2, <2>3
<1>3. ASSUME NEW req \in Requests, AdmitRoot(req) PROVE FileInv'
  <2> DEFINE r == PreparedTurn(ledger, req.id, BoundaryOf(req), Previous(req))
  <2>1. /\ command' = Writing("write", r, NoDelegation, 0) /\ UNCHANGED nextPermit
        /\ UNCHANGED <<log, ledger, writer, head>> /\ writer = "ready" /\ command = Idle
        /\ Validates(ledger, r)
    BY <1>3 DEF AdmitRoot, fileVars, gateVars, sessionVars
  <2>2. r \in RecordType /\ Admissible(ledger, r)
    BY <2>1, PreparedTurnIsRecord, AuthorityAssumption DEF BoundaryOf
  <2>3. command' \in CommandType /\ command'.stage = "write" /\ command'.record = r
    BY <2>1, <2>2 DEF CommandType, Writing
  <2> HIDE DEF r
  <2> QED BY <2>1, <2>2, <2>3
<1>4. CASE Write
  <2>1. Grows /\ command' = [command EXCEPT !.stage = "reduce"]
        /\ UNCHANGED <<ledger, writer, head, nextPermit>>
    BY <1>4 DEF Write, Grows, gateVars, sessionVars
  <2>2. command \in CommandType /\ writer = "ready" /\ ledger = log
    BY <2>1 DEF Grows, Idle
  <2>3. /\ command' \in CommandType /\ command'.stage = "reduce"
        /\ command'.record = command.record
    BY <2>1, <2>2 DEF CommandType
  <2>4. command' # Idle
    BY <2>3 DEF Idle
  <2> QED BY <2>1, <2>2, <2>3, <2>4, FileGrows DEF Grows
<1>5. CASE WriteFails
  <2>1. command' = Idle /\ writer' = "poisoned" /\ UNCHANGED <<ledger, head, nextPermit>>
    BY <1>5 DEF WriteFails, Poisoned, sessionVars
  <2>2. ledger = log
    BY <1>5 DEF WriteFails
  <2>3. LedgerType(log') /\ PrefixOf(ledger', log')
    <3>1. CASE UNCHANGED log
      BY <3>1, <2>1
    <3>2. CASE Grows
      BY <3>2, <2>1, <2>2, FileGrows
    <3> QED BY <1>5, <3>1, <3>2 DEF WriteFails, Grows
  <2> QED BY <2>1, <2>3 DEF Idle
<1>6. CASE Finish
  <2>1. /\ command.stage = "reduce" /\ ledger' = Reduce(ledger, command.record) /\ command' = Idle
        /\ UNCHANGED <<log, writer, head, nextPermit>>
    BY <1>6 DEF Finish, sessionVars
  <2>2. writer = "ready" /\ ledger' = log
    BY <2>1 DEF Idle
  <2> QED BY <2>1, <2>2 DEF Idle, PrefixOf
<1>7. CASE Close
  BY <1>7, EmptyIsLedger DEF Close, Idle, gateVars, sessionVars
<1>8. CASE Crash
  <2>1. /\ command' = Idle /\ writer' = "closed" /\ ledger' = EmptyLedger
        /\ nextPermit' = 0 /\ UNCHANGED head
    BY <1>8 DEF Crash, sessionVars
  <2>2. LedgerType(log')
    BY FileSteps, FileGrows
  <2> QED BY <2>1, <2>2, EmptyIsLedger DEF Idle
<1>9. CASE Reopen
  BY <1>9 DEF Reopen, Idle, sessionVars, PrefixOf
<1>10. ASSUME NEW c \in Conversations, OwnTurn(c) PROVE FileInv'
  BY <1>10 DEF OwnTurn, fileVars, gateVars
<1>11. ASSUME NEW h \in handles, Include(h) PROVE FileInv'
  BY <1>11 DEF Include, fileVars, gateVars
<1>12. CASE UNCHANGED <<fileVars, command, head>> /\ nextPermit' \in Nat
  BY <1>12 DEF fileVars
<1>13. ASSUME NEW a \in Attempts, SubmitAgain(a) PROVE FileInv'
  BY <1>12, <1>13 DEF SubmitAgain, gateVars, sessionVars
<1>14. ASSUME NEW req \in Requests, NEW d \in Delegations, ScheduleAgain(req, d) PROVE FileInv'
  BY <1>12, <1>14 DEF ScheduleAgain, sessionVars
<1>15. ASSUME NEW req \in Requests, AdmitRootAgain(req) PROVE FileInv'
  BY <1>12, <1>15 DEF AdmitRootAgain, gateVars, sessionVars
<1>16. ASSUME NEW h \in handles, Start(h) \/ Drop(h) PROVE FileInv'
  BY <1>12, <1>16 DEF Start, Drop, sessionVars
<1>17. CASE UNCHANGED vars
  BY <1>12, <1>17 DEF vars, gateVars, sessionVars
<1> QED
  BY <1>1, <1>2, <1>3, <1>4, <1>5, <1>6, <1>7, <1>8, <1>9, <1>10, <1>11, <1>13, <1>14,
     <1>15, <1>16, <1>17 DEF Next

-----------------------------------------------------------------------------
(* The gate: it never runs behind the file.                                *)

ControlState == {"unregistered", "main", "releasing", "user", "frozen"}

MainIn(l, d) == d \in DOMAIN l.delegations /\ l.delegations[d].controller = "main"
UserIn(l, d) == d \in DOMAIN l.delegations /\ l.delegations[d].controller = "user"

HandingOff == command # Idle /\ command.record.event.kind = "handoff_completed"

\* Main control in the gate is Main control in the file, and a delegation that has
\* been handed off, or is about to be, holds no slot.
GateInv ==
  /\ control \in [Delegations -> ControlState]
  /\ active \in [Delegations -> Nat]
  /\ \A d \in Delegations :
       /\ control[d] = "main" => MainIn(log, d)
       /\ control[d] \in {"releasing", "user"} \/ UserIn(log, d) => active[d] = 0
  /\ HandingOff => /\ control[command.record.event.delegation] = "releasing"
                   /\ command.record.event.delegation \in Delegations
                   /\ command.delegation = NoDelegation
  /\ Reserving => command.record.event.kind = "turn_admitted"

\* A new gate knows no delegation.
LEMMA GateInit == Init => GateInv
BY DEF Init, GateInv, ControlState, HandingOff, Reserving, UserIn, EmptyLedger, Idle

\* What a step may do to the controllers of the file.
LEMMA FileControl ==
  ASSUME FileInv, GateInv, [Next]_vars, NEW d \in Delegations
  PROVE  /\ MainIn(log, d) /\ control[d] = "main" => MainIn(log', d)
         /\ UserIn(log', d) => active[d] = 0
<1>1. CASE UNCHANGED log
  BY <1>1 DEF GateInv
<1>2. CASE Grows
  <2>1. /\ command.record \in RecordType /\ ValidEvent(log, command.record.event)
        /\ LedgerType(log)
    BY <1>2, FileGrows DEF Validates, FileInv
  <2>2. command # Idle
    BY <1>2 DEF Grows, Idle
  <2> DEFINE released == /\ command.record.event.kind = "handoff_completed"
                         /\ command.record.event.delegation = d
  <2>3. /\ MainIn(log, d) /\ ~released => MainIn(log', d)
        /\ UserIn(log', d) => UserIn(log, d) \/ released
    BY <1>2, <2>1, ReduceViews DEF MainIn, UserIn, Grows
  <2>4. released => control[d] = "releasing"
    BY <2>2 DEF GateInv, HandingOff
  <2> QED BY <2>3, <2>4 DEF GateInv
<1> QED BY <1>1, <1>2, FileSteps

\* Every step keeps the gate behind the file: control moves to the user through a
\* gate that was closed, with an empty slot, before the handoff was written.
LEMMA GateStep ==
  ASSUME FileInv, GateInv, [Next]_vars
  PROVE  GateInv'
<1> USE DEF GateInv
<1>1. ASSUME NEW a \in Attempts, Submit(a) PROVE GateInv'
  <2>1. /\ command' = Writing("write", a, NoDelegation, 0) /\ command = Idle
        /\ UNCHANGED <<log, active>> /\ a.event \in Facts
    BY <1>1, AttemptIsRecord DEF Submit, fileVars
  <2>2. ~Reserving' /\ command'.delegation = NoDelegation /\ command'.record = a
    BY <2>1 DEF Reserving, Writing
  <2>3. CASE a.event.kind = "handoff_completed"
    <3>1. /\ control' = [control EXCEPT ![a.event.delegation] = "releasing"]
          /\ active[a.event.delegation] = 0 /\ a.event.delegation \in Delegations
      BY <1>1, <2>1, <2>3, FactKinds DEF Submit, CanRelease
    <3> QED BY <2>1, <2>2, <3>1 DEF ControlState, HandingOff
  <2>4. CASE a.event.kind # "handoff_completed"
    <3>1. control' = control
      BY <1>1, <2>4 DEF Submit
    <3> QED BY <2>1, <2>2, <2>4, <3>1 DEF HandingOff
  <2> QED BY <2>3, <2>4
<1>2. ASSUME NEW req \in Requests, NEW d \in Delegations, Schedule(req, d) PROVE GateInv'
  <2> DEFINE r == PreparedTurn(ledger, req.id, BoundaryOf(req), Previous(req))
  <2>1. /\ command' = Writing("write", r, d, nextPermit + 1) /\ UNCHANGED <<log, control>>
        /\ active' = [active EXCEPT ![d] = nextPermit + 1] /\ control[d] = "main"
        /\ Validates(ledger, r)
    BY <1>2 DEF Schedule, fileVars, Reservable
  <2>2. r.event.kind = "turn_admitted"
    BY DEF PreparedTurn, Record, TurnAdmitted
  <2>3. command'.record.event.kind = "turn_admitted" /\ nextPermit + 1 \in Nat
    BY <2>1, <2>2 DEF Writing, FileInv
  <2>4. ~UserIn(log, d)
    BY <2>1 DEF MainIn, UserIn
  <2> QED BY <2>1, <2>3, <2>4 DEF HandingOff
<1>3. ASSUME NEW req \in Requests, AdmitRoot(req) PROVE GateInv'
  <2> DEFINE r == PreparedTurn(ledger, req.id, BoundaryOf(req), Previous(req))
  <2>1. /\ command' = Writing("write", r, NoDelegation, 0)
        /\ UNCHANGED <<log, control, active>>
    BY <1>3 DEF AdmitRoot, fileVars, gateVars
  <2>2. r.event.kind = "turn_admitted"
    BY DEF PreparedTurn, Record, TurnAdmitted
  <2>3. command'.record.event.kind = "turn_admitted"
    BY <2>1, <2>2 DEF Writing
  <2> QED BY <2>1, <2>3 DEF HandingOff
<1>4. CASE Write
  <2>1. /\ command' = [command EXCEPT !.stage = "reduce"] /\ UNCHANGED <<control, active>>
        /\ command # Idle /\ command \in CommandType
    BY <1>4 DEF Write, gateVars, FileInv, Idle
  <2>2. command'.record = command.record /\ command'.delegation = command.delegation
    BY <2>1 DEF CommandType
  <2>3. \A d \in Delegations : /\ control[d] = "main" => MainIn(log', d)
                               /\ UserIn(log', d) => active[d] = 0
    BY FileControl
  <2> QED BY <2>1, <2>2, <2>3 DEF HandingOff, Reserving
<1>5. CASE WriteFails
  <2>1. command' = Idle /\ control' = Frozen
    BY <1>5 DEF WriteFails
  <2>2. active' = [d \in Delegations |-> IF active'[d] = 0 THEN 0 ELSE active[d]]
    BY <1>5 DEF WriteFails, ReleaseSlot
  <2>3. \A d \in Delegations : UserIn(log', d) => active[d] = 0
    BY FileControl
  <2>4. control' \in [Delegations -> ControlState] /\ \A d \in Delegations : control'[d] \in {"unregistered", "frozen"}
    BY <2>1 DEF Frozen, ControlState
  <2>5. active' \in [Delegations -> Nat] /\ \A d \in Delegations : active[d] = 0 => active'[d] = 0
    BY <2>2
  <2> QED BY <2>1, <2>3, <2>4, <2>5 DEF HandingOff, Reserving
<1>6. CASE Finish
  <2> DEFINE e == command.record.event
  <2>1. /\ command' = Idle /\ control' = Controlled(e) /\ UNCHANGED <<log, active>>
        /\ command.stage = "reduce"
    BY <1>6 DEF Finish
  <2>2. /\ command # Idle /\ command.record \in RecordType /\ LedgerType(ledger)
        /\ ValidEvent(ledger, e) /\ log = Reduce(ledger, command.record)
    BY <2>1 DEF FileInv, Idle, CommandType, Validates
  <2>3. CASE e.kind = "delegation_created"
    <3>1. control' = [control EXCEPT ![e.delegation] = "main"]
      BY <2>1, <2>3 DEF Controlled
    <3>2. MainIn(log, e.delegation)
      BY <2>2, <2>3, ReduceViews DEF MainIn
    <3> QED BY <2>1, <3>1, <3>2 DEF ControlState, HandingOff, Reserving
  <2>4. CASE e.kind = "handoff_completed"
    <3>1. control' = [control EXCEPT ![e.delegation] = "user"] /\ control[e.delegation] = "releasing"
      BY <2>1, <2>2, <2>4 DEF Controlled, HandingOff
    <3> QED BY <2>1, <3>1 DEF ControlState, HandingOff, Reserving
  <2>5. CASE e.kind \notin {"delegation_created", "handoff_completed"}
    <3>1. control' = control
      BY <2>1, <2>5 DEF Controlled
    <3> QED BY <2>1, <3>1 DEF HandingOff, Reserving
  <2> QED BY <2>3, <2>4, <2>5
<1>7. CASE Crash
  BY <1>7 DEF Crash, ControlState, NoSlots, HandingOff, Reserving
<1>8. CASE Reopen
  <2>1. /\ control' = ControlFrom(log) /\ active' = NoSlots /\ UNCHANGED <<log, command>>
        /\ command = Idle
    BY <1>8 DEF Reopen, FileInv
  <2>2. \A d \in Delegations : d \in DOMAIN log.delegations => log.delegations[d].controller \in {"main", "user"}
    BY DEF FileInv, LedgerType, ViewType
  <2> QED BY <2>1, <2>2 DEF ControlFrom, ControlState, NoSlots, HandingOff, Reserving, MainIn
<1>9. ASSUME NEW req \in Requests, NEW d \in Delegations, ScheduleAgain(req, d) PROVE GateInv'
  <2>1. /\ UNCHANGED <<log, control, command>> /\ control[d] = "main"
        /\ \/ active' = [active EXCEPT ![d] = nextPermit + 1]
           \/ UNCHANGED active
    BY <1>9 DEF ScheduleAgain, fileVars, Reservable
  <2>2. ~UserIn(log, d) /\ nextPermit + 1 \in Nat
    BY <2>1 DEF MainIn, UserIn, FileInv
  <2> QED BY <2>1, <2>2 DEF HandingOff, Reserving
<1>10. ASSUME NEW h \in handles, Drop(h) PROVE GateInv'
  <2>1. UNCHANGED <<log, control, command>> /\ active' = Dropped(h)
    BY <1>10 DEF Drop, fileVars
  <2>2. active' \in [Delegations -> Nat] /\ \A d \in Delegations : active[d] = 0 => active'[d] = 0
    BY <2>1 DEF Dropped, ReleaseSlot
  <2> QED BY <2>1, <2>2 DEF HandingOff, Reserving
<1>11. CASE UNCHANGED <<log, command, control, active>>
  BY <1>11 DEF HandingOff, Reserving
<1>12. ASSUME NEW a \in Attempts, SubmitAgain(a) PROVE GateInv'
  BY <1>11, <1>12 DEF SubmitAgain, fileVars, gateVars
<1>13. ASSUME NEW req \in Requests, AdmitRootAgain(req) PROVE GateInv'
  BY <1>11, <1>13 DEF AdmitRootAgain, fileVars, gateVars
<1>14. ASSUME NEW h \in handles, Start(h) \/ Include(h) PROVE GateInv'
  BY <1>11, <1>14 DEF Start, Include, fileVars, gateVars
<1>15. ASSUME NEW c \in Conversations, OwnTurn(c) PROVE GateInv'
  BY <1>11, <1>15 DEF OwnTurn, fileVars, gateVars
<1>16. CASE Close \/ UNCHANGED vars
  BY <1>11, <1>16 DEF Close, vars, fileVars, gateVars
<1> QED
  BY <1>1, <1>2, <1>3, <1>4, <1>5, <1>6, <1>7, <1>8, <1>9, <1>10, <1>12, <1>13, <1>14,
     <1>15, <1>16 DEF Next

-----------------------------------------------------------------------------
(* Handles and slots.                                                      *)

HandleType == [kind : {"prepared", "bound", "running"}, place : Nat,
               delegation : Delegations \cup {NoDelegation}, permit : Nat]

\* Every prepared turn and every permit is for an admission in the file.
HandleInv ==
  /\ handles \subseteq HandleType
  /\ \A h \in handles : h.place \in TurnsOf(log)

\* Whatever is in the file stays where it is.
LEMMA DiskKeeps ==
  ASSUME FileInv, [Next]_vars
  PROVE  PrefixOf(log, log') /\ TurnsOf(log) \subseteq TurnsOf(log')
<1>1. PrefixOf(log, log')
  BY FileSteps, FileGrows DEF PrefixOf
<1> QED BY <1>1 DEF PrefixOf, TurnsOf

\* The original of a retry is an admission of the ledger, and so of the file.
LEMMA RetryPlace ==
  ASSUME FileInv, NEW req, RetryOf(ledger, req)
  PROVE  PlaceOf(ledger, req.id) \in TurnsOf(log)
<1>1. PlaceOf(ledger, req.id) \in DOMAIN ledger.records
  BY DEF RetryOf, Admitted, PlaceOf
<1>2. ledger.records[PlaceOf(ledger, req.id)].event.kind = "turn_admitted"
  BY DEF RetryOf, SameTurn
<1> QED BY <1>1, <1>2 DEF FileInv, PrefixOf, TurnsOf

\* The record being reduced is the last one of the file.
LEMMA ReducedPlace ==
  ASSUME FileInv, command.stage = "reduce"
  PROVE  LET n == Len(ledger.records) + 1
         IN  n \in DOMAIN log.records /\ log.records[n] = command.record
<1>1. command.record \in RecordType /\ log = Reduce(ledger, command.record)
  BY DEF FileInv, Idle, CommandType
<1>2. ledger.records \in Seq(RecordType)
  BY DEF FileInv, LedgerType
<1> QED BY <1>1, <1>2, ReduceRecords

\* A new process holds nothing.
LEMMA HandleInit == Init => HandleInv
BY DEF Init, HandleInv

\* Every step keeps the handles on admissions of the file.
LEMMA HandleStep ==
  ASSUME FileInv, HandleInv, [Next]_vars
  PROVE  HandleInv'
<1>1. ASSUME handles' \subseteq handles PROVE HandleInv'
  BY <1>1, DiskKeeps DEF HandleInv
<1>2. ASSUME NEW req \in Requests, NEW d \in Delegations, ScheduleAgain(req, d) PROVE HandleInv'
  <2> DEFINE h == Handle("prepared", PlaceOf(ledger, req.id), d, nextPermit + 1)
  <2>1. PlaceOf(ledger, req.id) \in TurnsOf(log)
    BY <1>2, RetryPlace DEF ScheduleAgain
  <2>2. TurnsOf(log) \subseteq Nat
    BY DEF TurnsOf, FileInv, LedgerType
  <2>3. h \in HandleType /\ h.place \in TurnsOf(log)
    BY <2>1, <2>2 DEF Handle, HandleType, FileInv
  <2>4. handles' \subseteq handles \cup {h} /\ UNCHANGED log
    BY <1>2 DEF ScheduleAgain, fileVars
  <2> HIDE DEF h
  <2> QED BY <2>3, <2>4 DEF HandleInv
<1>3. ASSUME NEW req \in Requests, AdmitRootAgain(req) PROVE HandleInv'
  <2> DEFINE h == Handle("prepared", PlaceOf(ledger, req.id), NoDelegation, 0)
  <2>1. PlaceOf(ledger, req.id) \in TurnsOf(log)
    BY <1>3, RetryPlace DEF AdmitRootAgain
  <2>2. TurnsOf(log) \subseteq Nat
    BY DEF TurnsOf, FileInv, LedgerType
  <2>3. h \in HandleType /\ h.place \in TurnsOf(log)
    BY <2>1, <2>2 DEF Handle, HandleType
  <2>4. handles' \subseteq handles \cup {h} /\ UNCHANGED log
    BY <1>3 DEF AdmitRootAgain, fileVars
  <2> HIDE DEF h
  <2> QED BY <2>3, <2>4 DEF HandleInv
<1>4. CASE Finish
  <2> DEFINE n == Len(ledger.records) + 1
             h == Handle("prepared", n, command.delegation, command.permit)
  <2>1. UNCHANGED log /\ command.stage = "reduce"
    BY <1>4 DEF Finish
  <2>2. command \in CommandType
    BY <2>1 DEF FileInv, Idle
  <2>3. n \in Nat /\ h \in HandleType /\ h.place = n
    BY <2>2 DEF FileInv, LedgerType, CommandType, Handle, HandleType
  <2>4. command.record.event.kind = "turn_admitted" => n \in TurnsOf(log)
    BY <2>1, ReducedPlace DEF TurnsOf
  <2>5. handles' = IF command.record.event.kind = "turn_admitted" THEN handles \cup {h} ELSE handles
    BY <1>4 DEF Finish
  <2> HIDE DEF h, n
  <2> QED BY <2>1, <2>3, <2>4, <2>5 DEF HandleInv
<1>5. ASSUME NEW h \in handles, Start(h) PROVE HandleInv'
  BY <1>5 DEF Start, HandleInv, HandleType, fileVars
<1>6. ASSUME NEW h \in handles, Include(h) PROVE HandleInv'
  BY <1>6 DEF Include, HandleInv, HandleType, fileVars
<1>7. ASSUME NEW h \in handles, Drop(h) PROVE HandleInv'
  BY <1>1, <1>7 DEF Drop
<1>8. CASE Crash
  BY <1>1, <1>8 DEF Crash
<1>9. ASSUME NEW a \in Attempts, Submit(a) \/ SubmitAgain(a) PROVE HandleInv'
  BY <1>1, <1>9 DEF Submit, SubmitAgain
<1>10. ASSUME NEW req \in Requests, NEW d \in Delegations, Schedule(req, d) PROVE HandleInv'
  BY <1>1, <1>10 DEF Schedule
<1>11. ASSUME NEW req \in Requests, AdmitRoot(req) PROVE HandleInv'
  BY <1>1, <1>11 DEF AdmitRoot
<1>12. ASSUME NEW c \in Conversations, OwnTurn(c) PROVE HandleInv'
  BY <1>1, <1>12 DEF OwnTurn
<1>13. CASE Write \/ WriteFails \/ Close \/ Reopen \/ UNCHANGED vars
  BY <1>1, <1>13 DEF Write, WriteFails, Close, Reopen, vars
<1> QED
  BY <1>2, <1>3, <1>4, <1>5, <1>6, <1>7, <1>8, <1>9, <1>10, <1>11, <1>12, <1>13 DEF Next

\* A new gate has no slot taken.
LEMMA SlotInit == Init => SlotOwned
BY DEF Init, SlotOwned, Leases, Reserving

\* Every step keeps one holder per slot: it moves with the reservation from the
\* command to the prepared turn and to the permit, and is given back when one of them
\* is dropped.
LEMMA SlotStep ==
  ASSUME FileInv, GateInv, HandleInv, SlotOwned, [Next]_vars
  PROVE  SlotOwned'
<1> USE DEF SlotOwned
<1>1. ASSUME Leases' = Leases, UNCHANGED active, Reserving' = Reserving,
             Reserving => UNCHANGED <<command.delegation, command.permit>>
      PROVE  SlotOwned'
  BY <1>1
<1>2. ASSUME NEW a \in Attempts, Submit(a) PROVE SlotOwned'
  BY <1>1, <1>2 DEF Submit, Leases, Reserving, Writing
<1>3. ASSUME NEW req \in Requests, NEW d \in Delegations, Schedule(req, d) PROVE SlotOwned'
  <2> DEFINE r == PreparedTurn(ledger, req.id, BoundaryOf(req), Previous(req))
  <2>1. /\ command' = Writing("write", r, d, nextPermit + 1) /\ command = Idle
        /\ active' = [active EXCEPT ![d] = nextPermit + 1] /\ active[d] = 0
        /\ UNCHANGED handles
    BY <1>3 DEF Schedule, Reservable
  <2>2. /\ command'.delegation = d /\ command'.permit = nextPermit + 1 /\ command'.stage = "write"
    BY <2>1 DEF Writing
  <2>3. nextPermit + 1 # 0 /\ d # NoDelegation /\ active \in [Delegations -> Nat]
    BY AuthorityAssumption DEF FileInv, GateInv
  <2>4. \A h \in Leases : h.delegation # d /\ h.delegation \in Delegations
    BY <2>1 DEF Leases, Owned, HandleInv, HandleType
  <2>5. ~Reserving /\ Leases' = Leases
    BY <2>1 DEF Reserving, Leases
  <2> HIDE DEF r
  <2> QED BY <2>1, <2>2, <2>3, <2>4, <2>5 DEF Reserving, Idle
<1>4. ASSUME NEW req \in Requests, NEW d \in Delegations, ScheduleAgain(req, d) PROVE SlotOwned'
  <2> DEFINE k == Handle("prepared", PlaceOf(ledger, req.id), d, nextPermit + 1)
  <2>1. command = Idle /\ UNCHANGED command /\ active[d] = 0
    BY <1>4 DEF ScheduleAgain, Reservable
  <2>2. CASE UNCHANGED <<active, handles>>
    BY <1>1, <2>1, <2>2 DEF Leases, Reserving
  <2>3. CASE active' = [active EXCEPT ![d] = nextPermit + 1] /\ handles' = handles \cup {k}
    <3>1. k.delegation = d /\ k.permit = nextPermit + 1
      BY DEF Handle
    <3>2. nextPermit + 1 # 0 /\ d # NoDelegation /\ active \in [Delegations -> Nat]
      BY AuthorityAssumption DEF FileInv, GateInv
    <3>3. Leases' = Leases \cup {k}
      BY <2>3, <3>1, <3>2 DEF Leases, Owned
    <3>4. \A h \in Leases : h.delegation # d /\ h.delegation \in Delegations
      BY <2>1 DEF Leases, Owned, HandleInv, HandleType
    <3>5. ~Reserving /\ ~Reserving'
      BY <2>1 DEF Reserving
    <3> HIDE DEF k
    <3> QED BY <2>3, <3>1, <3>2, <3>3, <3>4, <3>5
  <2> QED BY <1>4, <2>2, <2>3 DEF ScheduleAgain
<1>5. CASE Write
  <2>1. command' = [command EXCEPT !.stage = "reduce"] /\ UNCHANGED <<active, handles>>
        /\ command # Idle /\ command \in CommandType
    BY <1>5 DEF Write, gateVars, FileInv, Idle
  <2>2. /\ command'.delegation = command.delegation /\ command'.permit = command.permit
        /\ command' # Idle
    BY <2>1 DEF CommandType, Idle
  <2> QED BY <1>1, <2>1, <2>2 DEF Leases, Reserving
<1>6. CASE WriteFails
  <2>1. command' = Idle /\ UNCHANGED handles
    BY <1>6 DEF WriteFails
  <2>2. ~Reserving' /\ Leases' = Leases /\ \A h \in Leases : h.delegation \in Delegations
    BY <2>1 DEF Reserving, Leases, Owned, HandleInv, HandleType
  <2>3. CASE Reserving
    <3>1. active' = ReleaseSlot(command.delegation, command.permit)
      BY <1>6, <2>3 DEF WriteFails
    <3> QED BY <2>2, <2>3, <3>1 DEF ReleaseSlot
  <2>4. CASE ~Reserving
    BY <1>6, <2>2, <2>4 DEF WriteFails
  <2> QED BY <2>3, <2>4
<1>7. CASE Finish
  <2> DEFINE k == Handle("prepared", Len(ledger.records) + 1, command.delegation, command.permit)
  <2>1. /\ command' = Idle /\ UNCHANGED active
        /\ handles' = IF command.record.event.kind = "turn_admitted" THEN handles \cup {k} ELSE handles
        /\ command # Idle
    BY <1>7 DEF Finish, Idle
  <2>2. k.delegation = command.delegation /\ k.permit = command.permit
    BY DEF Handle
  <2>3. ~Reserving'
    BY <2>1 DEF Reserving
  <2>4. CASE Reserving
    <3>1. Leases' = Leases \cup {k}
      BY <2>1, <2>2, <2>4 DEF Leases, Owned, GateInv, Reserving
    <3> HIDE DEF k
    <3> QED BY <2>1, <2>2, <2>3, <2>4, <3>1
  <2>5. CASE ~Reserving
    <3>1. Leases' = Leases
      BY <2>1, <2>2, <2>5 DEF Leases, Owned, Reserving
    <3> QED BY <2>1, <2>3, <2>5, <3>1
  <2> QED BY <2>4, <2>5
<1>8. ASSUME NEW h \in handles, NEW kind,
             handles' = (handles \ {h}) \cup {[h EXCEPT !.kind = kind]}, UNCHANGED <<active, command>>
      PROVE  SlotOwned'
  <2> DEFINE k == [h EXCEPT !.kind = kind]
  <2>1. k.delegation = h.delegation /\ k.permit = h.permit
    BY DEF HandleInv, HandleType
  <2>2. Leases' = IF Owned(h) THEN (Leases \ {h}) \cup {k} ELSE Leases
    BY <1>8, <2>1 DEF Leases, Owned
  <2>3. Reserving' = Reserving
    BY <1>8 DEF Reserving
  <2>4. Owned(h) => h \in Leases
    BY DEF Leases
  <2> HIDE DEF k
  <2>5. CASE ~Owned(h)
    BY <1>1, <1>8, <2>2, <2>3, <2>5
  <2>6. CASE Owned(h)
    BY <1>8, <2>1, <2>2, <2>3, <2>4, <2>6
  <2> QED BY <2>5, <2>6
<1>9. ASSUME NEW h \in handles, Start(h) PROVE SlotOwned'
  BY <1>8, <1>9 DEF Start
<1>10. ASSUME NEW h \in handles, Include(h) PROVE SlotOwned'
  BY <1>8, <1>10 DEF Include, gateVars
<1>11. ASSUME NEW h \in handles, Drop(h) PROVE SlotOwned'
  <2>1. handles' = handles \ {h} /\ active' = Dropped(h) /\ UNCHANGED command
    BY <1>11 DEF Drop
  <2>2. Leases' = Leases \ {h} /\ Reserving' = Reserving
    BY <2>1 DEF Leases, Reserving
  <2>3. CASE ~Owned(h)
    BY <1>1, <2>1, <2>2, <2>3 DEF Leases, Dropped
  <2>4. CASE Owned(h)
    <3>1. active' = ReleaseSlot(h.delegation, h.permit) /\ h \in Leases
      BY <2>1, <2>4 DEF Dropped, Leases
    <3>2. \A k \in Leases : k.delegation \in Delegations
      BY DEF Leases, Owned, HandleInv, HandleType
    <3>3. Reserving => command.delegation \in Delegations
      BY DEF Reserving, FileInv, CommandType
    <3>4. /\ active'[h.delegation] = 0
          /\ \A d \in Delegations : d # h.delegation => active'[d] = active[d]
      BY <3>1, <3>2 DEF ReleaseSlot
    <3> QED BY <2>1, <2>2, <3>1, <3>2, <3>3, <3>4
  <2> QED BY <2>3, <2>4
<1>12. CASE Crash
  BY <1>12 DEF Crash, Leases, Reserving, NoSlots
<1>13. CASE Reopen
  <2>1. Leases' = {} /\ ~Reserving' /\ active' = NoSlots
    BY <1>13 DEF Reopen, Leases, Reserving, FileInv
  <2> QED BY <2>1 DEF NoSlots
<1>14. CASE UNCHANGED <<command, active, handles>>
  BY <1>1, <1>14 DEF Leases, Reserving
<1>15. ASSUME NEW req \in Requests, AdmitRoot(req) PROVE SlotOwned'
  BY <1>1, <1>15 DEF AdmitRoot, gateVars, Leases, Reserving, Writing
<1>16. ASSUME NEW req \in Requests, AdmitRootAgain(req) PROVE SlotOwned'
  <2> DEFINE k == Handle("prepared", PlaceOf(ledger, req.id), NoDelegation, 0)
  <2>1. handles' = handles \cup {k} /\ UNCHANGED <<command, active>> /\ ~Owned(k)
    BY <1>16 DEF AdmitRootAgain, gateVars, Owned, Handle
  <2> HIDE DEF k
  <2> QED BY <1>1, <2>1 DEF Leases, Reserving
<1>17. ASSUME NEW a \in Attempts, SubmitAgain(a) PROVE SlotOwned'
  BY <1>14, <1>17 DEF SubmitAgain, gateVars
<1>18. ASSUME NEW c \in Conversations, OwnTurn(c) PROVE SlotOwned'
  BY <1>14, <1>18 DEF OwnTurn, gateVars
<1>19. CASE Close \/ UNCHANGED vars
  BY <1>14, <1>19 DEF Close, vars, gateVars
<1> QED
  BY <1>2, <1>3, <1>4, <1>5, <1>6, <1>7, <1>9, <1>10, <1>11, <1>12, <1>13, <1>15, <1>16,
     <1>17, <1>18, <1>19 DEF Next

-----------------------------------------------------------------------------
(* Executions, receipts, freezing.                                         *)

\* An admission that was executed is not issuable: the gate remembers it, or the
\* gate is gone with every lease and the next one will learn it from the file.
OnceInv ==
  /\ executions \in [1..ItemCapacity -> 0..1]
  /\ \A n \in 1..ItemCapacity :
       executions[n] = 1 => /\ n \in TurnsOf(log)
                            /\ n \in issued \/ (writer = "closed" /\ Leases = {})

\* Nothing has been executed yet.
LEMMA OnceInit == Init => OnceInv
BY LimitsAssumption DEF Init, OnceInv

\* Every step keeps executed admissions out of the issuable ones.
LEMMA OnceStep ==
  ASSUME FileInv, HandleInv, OnceInv, [Next]_vars
  PROVE  OnceInv'
<1> USE DEF OnceInv
<1>1. ASSUME NEW h \in handles, Start(h) PROVE OnceInv'
  <2>1. h.place \in TurnsOf(log) /\ h.place \in 1..ItemCapacity
    BY LimitsAssumption DEF HandleInv, TurnsOf, FileInv, LedgerType
  <2>2. UNCHANGED <<log, writer>>
    BY <1>1 DEF Start, fileVars
  <2>3. CASE Owned(h)
    <3>1. /\ h.place \notin issued /\ issued' = issued \cup {h.place}
          /\ executions' = [executions EXCEPT ![h.place] = executions[h.place] + 1]
      BY <1>1, <2>3 DEF Start, Bindable
    <3>2. h \in Leases
      BY <2>3 DEF Leases
    <3>3. executions[h.place] = 0
      BY <2>1, <3>1, <3>2
    <3>4. \A n \in 1..ItemCapacity : executions[n] = 1 => n \in issued
      BY <3>2
    <3> QED BY <2>1, <2>2, <3>1, <3>3, <3>4
  <2>4. CASE ~Owned(h)
    <3>1. UNCHANGED <<issued, executions>>
      BY <1>1, <2>4 DEF Start
    <3>2. Leases' = Leases
      <4>1. [h EXCEPT !.kind = "bound"].delegation = h.delegation
        BY DEF HandleInv, HandleType
      <4> QED BY <1>1, <2>4, <4>1 DEF Start, Leases, Owned
    <3> QED BY <2>2, <3>1, <3>2
  <2> QED BY <2>3, <2>4
<1>2. ASSUME UNCHANGED executions, UNCHANGED issued, writer' = writer, Leases = {} /\ writer = "closed" => Leases' = {}
      PROVE  OnceInv'
  BY <1>2, DiskKeeps
<1>3. ASSUME NEW h \in handles, Include(h) PROVE OnceInv'
  <2>1. [h EXCEPT !.kind = "running"].delegation = h.delegation
    BY DEF HandleInv, HandleType
  <2>2. UNCHANGED <<executions, issued, writer>>
    BY <1>3 DEF Include, fileVars, gateVars, historyVars
  <2>3. Leases = {} => Leases' = {}
    BY <1>3, <2>1 DEF Include, Leases, Owned
  <2> QED BY <1>2, <2>2, <2>3
<1>4. ASSUME NEW h \in handles, Drop(h) PROVE OnceInv'
  BY <1>2, <1>4 DEF Drop, Leases, fileVars, historyVars
<1>5. ASSUME NEW req \in Requests, NEW d \in Delegations, ScheduleAgain(req, d) PROVE OnceInv'
  BY <1>2, <1>5 DEF ScheduleAgain, fileVars, historyVars
<1>6. ASSUME NEW req \in Requests, AdmitRootAgain(req) PROVE OnceInv'
  <2>1. ~Owned(Handle("prepared", PlaceOf(ledger, req.id), NoDelegation, 0))
    BY DEF Owned, Handle
  <2> QED BY <1>2, <1>6, <2>1 DEF AdmitRootAgain, Leases, fileVars, gateVars, historyVars
<1>7. CASE Finish
  <2>1. writer # "closed"
    BY <1>7 DEF Finish, FileInv, Idle
  <2> QED BY <1>2, <1>7, <2>1 DEF Finish
<1>8. CASE WriteFails
  <2>1. writer # "closed" /\ UNCHANGED <<executions, issued>>
    BY <1>8 DEF WriteFails, FileInv, Idle, historyVars
  <2> QED BY <2>1, DiskKeeps
<1>9. CASE Close
  <2>1. writer # "closed" /\ UNCHANGED <<executions, issued, log>>
    BY <1>9 DEF Close, gateVars, historyVars
  <2> QED BY <2>1
<1>10. CASE Crash
  <2>1. UNCHANGED executions /\ writer' = "closed" /\ Leases' = {}
    BY <1>10 DEF Crash, Leases, historyVars
  <2> QED BY <2>1, DiskKeeps
<1>11. CASE Reopen
  BY <1>11 DEF Reopen, IssuedBefore, historyVars
<1>12. ASSUME NEW a \in Attempts, Submit(a) \/ SubmitAgain(a) PROVE OnceInv'
  BY <1>2, <1>12 DEF Submit, SubmitAgain, Leases, fileVars, gateVars, historyVars
<1>13. ASSUME NEW req \in Requests, NEW d \in Delegations, Schedule(req, d) PROVE OnceInv'
  BY <1>2, <1>13 DEF Schedule, Leases, fileVars, historyVars
<1>14. ASSUME NEW req \in Requests, AdmitRoot(req) PROVE OnceInv'
  BY <1>2, <1>14 DEF AdmitRoot, Leases, fileVars, gateVars, historyVars
<1>15. ASSUME NEW c \in Conversations, OwnTurn(c) PROVE OnceInv'
  BY <1>2, <1>15 DEF OwnTurn, Leases, fileVars, gateVars, historyVars
<1>16. CASE Write \/ UNCHANGED vars
  BY <1>2, <1>16 DEF Write, Leases, vars, fileVars, gateVars, historyVars
<1> QED
  BY <1>1, <1>3, <1>4, <1>5, <1>6, <1>7, <1>8, <1>9, <1>10, <1>11, <1>12, <1>13, <1>14,
     <1>15, <1>16 DEF Next

\* No receipt has been given yet.
LEMMA ReceiptsInit == Init => ReceiptsHold
BY DEF Init, ReceiptsHold

\* Every step keeps the receipts: those given are of records in the file, which stay.
LEMMA ReceiptsStep ==
  ASSUME FileInv, ReceiptsHold, [Next]_vars
  PROVE  ReceiptsHold'
<1>1. PrefixOf(log, log')
  BY DiskKeeps
<1>2. CASE UNCHANGED receipts
  BY <1>1, <1>2 DEF ReceiptsHold, PrefixOf
<1>3. ASSUME NEW a \in Attempts, SubmitAgain(a) PROVE ReceiptsHold'
  <2> DEFINE n == PlaceOf(ledger, a.id)
  <2>1. receipts' = receipts \cup {Receipt(a.id, n)} /\ UNCHANGED log
    BY <1>3 DEF SubmitAgain, fileVars
  <2>2. n \in DOMAIN ledger.records /\ ledger.records[n].id = a.id
    BY <1>3 DEF SubmitAgain, Admitted, PlaceOf
  <2>3. n \in DOMAIN log.records /\ log.records[n].id = a.id
    BY <2>2 DEF FileInv, PrefixOf
  <2> HIDE DEF n
  <2> QED BY <2>1, <2>3 DEF ReceiptsHold, Receipt
<1>4. CASE Finish
  <2> DEFINE n == Len(ledger.records) + 1
  <2>1. receipts' = receipts \cup {Receipt(command.record.id, n)} /\ UNCHANGED log
    BY <1>4 DEF Finish
  <2>2. n \in DOMAIN log.records /\ log.records[n].id = command.record.id
    BY <1>4, ReducedPlace DEF Finish
  <2> HIDE DEF n
  <2> QED BY <2>1, <2>2 DEF ReceiptsHold, Receipt
<1> QED
  BY <1>2, <1>3, <1>4 DEF Next, vars, historyVars, Submit, Schedule, ScheduleAgain, AdmitRoot,
     AdmitRootAgain, Write, WriteFails, Start, Drop, Include, OwnTurn, Close, Crash, Reopen

\* A poisoned writer has no delegation under Main.
FrozenInv == writer = "poisoned" => \A d \in Delegations : control[d] # "main"

\* A new writer is not poisoned.
LEMMA FrozenInit == Init => FrozenInv
BY DEF Init, FrozenInv

\* Every step keeps a poisoned writer frozen: only a reopening gives control back.
LEMMA FrozenStep ==
  ASSUME FileInv, FrozenInv, [Next]_vars
  PROVE  FrozenInv'
<1>1. CASE UNCHANGED <<writer, control>>
  BY <1>1 DEF FrozenInv
<1>2. CASE writer' # "poisoned"
  BY <1>2 DEF FrozenInv
<1>3. CASE WriteFails
  BY <1>3 DEF WriteFails, Frozen, FrozenInv
<1>4. CASE Finish
  BY <1>2, <1>4 DEF Finish, FileInv, Idle
<1> QED
  BY <1>1, <1>2, <1>3, <1>4 DEF Next, vars, fileVars, gateVars, Submit, SubmitAgain, Schedule,
     ScheduleAgain, AdmitRoot, AdmitRootAgain, Write, Start, Drop, Include, OwnTurn, Close,
     Crash, Reopen

\* Permits are numbered within the bound, and only admissions of the file are issued.
NumberInv ==
  /\ nextPermit \in 0..MaxPermits
  /\ active \in [Delegations -> 0..MaxPermits]
  /\ issued \subseteq TurnsOf(log)

\* No permit has been numbered or issued yet.
LEMMA NumberInit == Init => NumberInv
BY AuthorityAssumption DEF Init, NumberInv

\* A reservation takes the next number, a bind issues an admission of the file, a
\* reopened file issues all of its own.
LEMMA NumberStep ==
  ASSUME FileInv, HandleInv, NumberInv, [Next]_vars
  PROVE  NumberInv'
<1> USE DEF NumberInv
<1>1. TurnsOf(log) \subseteq TurnsOf(log')
  BY DiskKeeps
<1>2. CASE UNCHANGED gateVars
  BY <1>1, <1>2 DEF gateVars
<1>3. ASSUME NEW req \in Requests, NEW d \in Delegations, Schedule(req, d) \/ ScheduleAgain(req, d)
      PROVE  NumberInv'
  <2>1. /\ nextPermit < MaxPermits /\ nextPermit' = nextPermit + 1 /\ UNCHANGED issued
        /\ active' = [active EXCEPT ![d] = nextPermit + 1] \/ UNCHANGED active
    BY <1>3 DEF Schedule, ScheduleAgain
  <2> QED BY <1>1, <2>1, AuthorityAssumption
<1>4. ASSUME NEW h \in handles, Start(h) PROVE NumberInv'
  BY <1>1, <1>4 DEF Start, HandleInv
<1>5. ASSUME NEW h \in handles, Drop(h) PROVE NumberInv'
  BY <1>1, <1>5, AuthorityAssumption DEF Drop, Dropped, ReleaseSlot
<1>6. CASE WriteFails
  BY <1>1, <1>6, AuthorityAssumption DEF WriteFails, ReleaseSlot
<1>7. CASE Crash \/ Reopen
  BY <1>7, AuthorityAssumption DEF Crash, Reopen, NoSlots, IssuedBefore
<1>8. CASE Finish
  BY <1>1, <1>8 DEF Finish
<1>9. ASSUME NEW a \in Attempts, Submit(a) PROVE NumberInv'
  BY <1>1, <1>9 DEF Submit
<1> QED
  BY <1>2, <1>3, <1>4, <1>5, <1>6, <1>7, <1>8, <1>9 DEF Next, vars, SubmitAgain, AdmitRoot,
     AdmitRootAgain, Write, Include, OwnTurn, Close

-----------------------------------------------------------------------------
(* What a log that grows by valid records keeps: delegations never change   *)
(* their ends, every mutation names the revision it was decided at, and     *)
(* every admission freezes what concerned its recipient since its cursor.   *)

MutationKinds == {"task_updated", "handoff_completed"}

\* Mutations of delegation d before place n.
MutationsOf(l, d, n) ==
  {k \in 1..(n - 1) : l.records[k].event.kind \in MutationKinds /\ l.records[k].event.delegation = d}

\* What a valid record does to the delegations: it adds one, advances one, or leaves all.
LEMMA ReduceDelegations ==
  ASSUME NEW l, LedgerType(l), NEW r \in RecordType, ValidEvent(l, r.event)
  PROVE  LET m == Reduce(l, r)
             e == r.event
         IN  /\ e.kind = "delegation_created" =>
                  /\ e.delegation \notin DOMAIN l.delegations
                  /\ DOMAIN m.delegations = DOMAIN l.delegations \cup {e.delegation}
                  /\ m.delegations[e.delegation] = NewDelegation(e.delegator, e.worker)
                  /\ \A d \in DOMAIN l.delegations : m.delegations[d] = l.delegations[d]
             /\ e.kind # "delegation_created" => DOMAIN m.delegations = DOMAIN l.delegations
             /\ e.kind \in MutationKinds =>
                  /\ e.delegation \in DOMAIN l.delegations
                  /\ e.expected = l.delegations[e.delegation].revision
                  /\ l.delegations[e.delegation].controller = "main"
                  /\ m.delegations[e.delegation].revision = l.delegations[e.delegation].revision + 1
                  /\ m.delegations[e.delegation].controller = "main" => e.kind = "task_updated"
                  /\ \A d \in DOMAIN l.delegations :
                       d # e.delegation => m.delegations[d] = l.delegations[d]
             /\ e.kind \notin MutationKinds \cup {"delegation_created"} => m.delegations = l.delegations
             /\ \A d \in DOMAIN l.delegations :
                  /\ d \in DOMAIN m.delegations
                  /\ m.delegations[d].delegator = l.delegations[d].delegator
                  /\ m.delegations[d].worker = l.delegations[d].worker
<1> DEFINE e == r.event
           m == Reduce(l, r)
<1> USE DEF MutationKinds
<1>1. CASE e.kind = "delegation_created"
  <2>1. m.delegations = Put(l.delegations, e.delegation, NewDelegation(e.delegator, e.worker))
    BY <1>1 DEF Reduce
  <2>2. e.delegation \notin DOMAIN l.delegations
    BY <1>1 DEF ValidEvent, ValidCreation
  <2> QED BY <1>1, <2>1, <2>2 DEF Put
<1>2. CASE e.kind \in MutationKinds
  <2> DEFINE v == l.delegations[e.delegation]
  <2>1. m.delegations = Put(l.delegations, e.delegation, Advanced(v, e))
    BY <1>2 DEF Reduce
  <2>2. e.delegation \in DOMAIN l.delegations /\ e.expected = v.revision /\ v.controller = "main"
    BY <1>2 DEF ValidEvent, ValidMainControl
  <2>3. v \in ViewType
    BY <2>2 DEF LedgerType
  <2>4. /\ Advanced(v, e).revision = v.revision + 1
        /\ Advanced(v, e).controller = "main" => e.kind = "task_updated"
        /\ Advanced(v, e).delegator = v.delegator
        /\ Advanced(v, e).worker = v.worker
    BY <1>2, <2>3 DEF Advanced, ViewType
  <2> HIDE DEF v
  <2>5. /\ DOMAIN m.delegations = DOMAIN l.delegations
        /\ m.delegations[e.delegation] = Advanced(v, e)
        /\ \A d \in DOMAIN l.delegations : d # e.delegation => m.delegations[d] = l.delegations[d]
    BY <2>1, <2>2 DEF Put
  <2> QED BY <1>2, <2>2, <2>4, <2>5 DEF v
<1>3. CASE e.kind \notin MutationKinds \cup {"delegation_created"}
  BY <1>3 DEF Reduce
<1> QED BY <1>1, <1>2, <1>3

\* A mutation decided at the revision of its delegation, while Main controls, is recorded
\* behind as many others, none of them a handoff.
MutationsInv(l) ==
  /\ \A n \in DOMAIN l.records :
       LET e == l.records[n].event
       IN  e.kind \in MutationKinds =>
             /\ e.delegation \in DOMAIN l.delegations
             /\ e.expected = Cardinality(MutationsOf(l, e.delegation, n))
             /\ \A k \in MutationsOf(l, e.delegation, n) : l.records[k].event.kind = "task_updated"
  /\ \A d \in DOMAIN l.delegations :
       LET before == MutationsOf(l, d, Len(l.records) + 1)
       IN  /\ l.delegations[d].revision = Cardinality(before)
           /\ l.delegations[d].controller = "main" =>
                \A k \in before : l.records[k].event.kind = "task_updated"

\* The mutations before a place of the log do not change, and those of the whole log are
\* one more when the record is one.
LEMMA ReduceMutations ==
  ASSUME NEW l, LedgerType(l), NEW r \in RecordType, NEW d
  PROVE  LET m == Reduce(l, r)
             N == Len(l.records)
         IN  /\ \A n \in 1..(N + 1) : MutationsOf(m, d, n) = MutationsOf(l, d, n)
             /\ MutationsOf(m, d, N + 2) =
                  MutationsOf(l, d, N + 1)
                  \cup (IF r.event.kind \in MutationKinds /\ r.event.delegation = d THEN {N + 1} ELSE {})
             /\ IsFiniteSet(MutationsOf(l, d, N + 1))
             /\ N + 1 \notin MutationsOf(l, d, N + 1)
             /\ \A k \in MutationsOf(l, d, N + 1) : m.records[k] = l.records[k]
<1> DEFINE m == Reduce(l, r)
           N == Len(l.records)
<1>1. N \in Nat /\ DOMAIN l.records = 1..N
  BY DEF LedgerType
<1>2. /\ \A k \in 1..N : m.records[k] = l.records[k]
      /\ m.records[N + 1] = r
  BY <1>1, ReduceRecords DEF LedgerType
<1>3. IsFiniteSet(1..N) /\ MutationsOf(l, d, N + 1) \subseteq 1..N
  BY <1>1, FS_Interval DEF MutationsOf
<1>4. IsFiniteSet(MutationsOf(l, d, N + 1))
  BY <1>3, FS_Subset
<1>5. N + 1 \notin MutationsOf(l, d, N + 1)
  BY <1>1, <1>3
<1>6. \A n \in 1..(N + 1) : MutationsOf(m, d, n) = MutationsOf(l, d, n)
  <2> HIDE DEF m, N
  <2>1. ASSUME NEW n \in 1..(N + 1), NEW k \in 1..(n - 1) PROVE m.records[k] = l.records[k]
    <3>1. k \in 1..N
      BY <1>1
    <3> QED BY <1>2, <3>1
  <2> QED BY <2>1 DEF MutationsOf
<1>7. MutationsOf(m, d, N + 2) =
        MutationsOf(l, d, N + 1)
        \cup (IF r.event.kind \in MutationKinds /\ r.event.delegation = d THEN {N + 1} ELSE {})
  BY <1>1, <1>2 DEF MutationsOf
<1> QED BY <1>2, <1>3, <1>4, <1>5, <1>6, <1>7

\* Every valid record keeps the mutations serialised.
LEMMA ReduceSerialises ==
  ASSUME NEW l, LedgerType(l), MutationsInv(l), NEW r \in RecordType, ValidEvent(l, r.event)
  PROVE  MutationsInv(Reduce(l, r))
<1> DEFINE m == Reduce(l, r)
           N == Len(l.records)
           e == r.event
<1>1. N \in Nat /\ DOMAIN l.records = 1..N /\ Len(m.records) = N + 1 /\ DOMAIN m.records = 1..(N + 1)
      /\ m.records[N + 1] = r /\ \A k \in 1..N : m.records[k] = l.records[k]
  BY ReduceRecords DEF LedgerType
<1>2. \A d \in DOMAIN l.delegations : d \in DOMAIN m.delegations
  BY ReduceDelegations
<1>3. ASSUME NEW d
      PROVE  /\ \A n \in 1..(N + 1) : MutationsOf(m, d, n) = MutationsOf(l, d, n)
             /\ MutationsOf(m, d, N + 2) =
                  MutationsOf(l, d, N + 1)
                  \cup (IF e.kind \in MutationKinds /\ e.delegation = d THEN {N + 1} ELSE {})
             /\ IsFiniteSet(MutationsOf(l, d, N + 1))
             /\ N + 1 \notin MutationsOf(l, d, N + 1)
             /\ \A k \in MutationsOf(l, d, N + 1) : m.records[k] = l.records[k]
  BY ReduceMutations
<1> HIDE DEF m
<1>4. ASSUME NEW n \in DOMAIN m.records, m.records[n].event.kind \in MutationKinds
      PROVE  LET x == m.records[n].event
             IN  /\ x.delegation \in DOMAIN m.delegations
                 /\ x.expected = Cardinality(MutationsOf(m, x.delegation, n))
                 /\ \A k \in MutationsOf(m, x.delegation, n) : m.records[k].event.kind = "task_updated"
  <2> DEFINE x == m.records[n].event
  <2>1. MutationsOf(m, x.delegation, n) = MutationsOf(l, x.delegation, n)
    BY <1>1, <1>3
  <2>2. \A k \in MutationsOf(l, x.delegation, n) : m.records[k] = l.records[k]
    <3>1. n \in 1..(N + 1)
      BY <1>1, <1>4
    <3> HIDE DEF x, N
    <3>2. ASSUME NEW k \in MutationsOf(l, x.delegation, n) PROVE m.records[k] = l.records[k]
      <4>1. k \in 1..(n - 1)
        BY DEF MutationsOf
      <4>2. k \in 1..N
        BY <1>1, <3>1, <4>1
      <4> QED BY <1>1, <4>2
    <3> QED BY <3>2
  <2>3. CASE n \in 1..N
    <3>1. n \in DOMAIN l.records /\ x = l.records[n].event
      BY <1>1, <2>3
    <3> QED BY <1>2, <1>4, <2>1, <2>2, <3>1 DEF MutationsInv
  <2>4. CASE n = N + 1
    <3>1. x = e
      BY <1>1, <2>4
    <3>2. /\ e.delegation \in DOMAIN l.delegations
          /\ e.expected = l.delegations[e.delegation].revision
          /\ l.delegations[e.delegation].controller = "main"
      BY <1>4, <3>1, ReduceDelegations
    <3> HIDE DEF x, e
    <3>3. /\ l.delegations[e.delegation].revision = Cardinality(MutationsOf(l, e.delegation, N + 1))
          /\ \A k \in MutationsOf(l, e.delegation, N + 1) : l.records[k].event.kind = "task_updated"
      BY <3>2 DEF MutationsInv
    <3>4. /\ e.expected = Cardinality(MutationsOf(m, e.delegation, n))
          /\ \A k \in MutationsOf(m, e.delegation, n) : m.records[k].event.kind = "task_updated"
      BY <2>1, <2>2, <2>4, <3>1, <3>2, <3>3
    <3>5. x.delegation \in DOMAIN m.delegations
      BY <1>2, <3>1, <3>2
    <3> QED BY <3>1, <3>4, <3>5 DEF x
  <2> QED BY <1>1, <2>3, <2>4
<1>5. ASSUME NEW d \in DOMAIN m.delegations
      PROVE  LET before == MutationsOf(m, d, Len(m.records) + 1)
             IN  /\ m.delegations[d].revision = Cardinality(before)
                 /\ m.delegations[d].controller = "main" =>
                      \A k \in before : m.records[k].event.kind = "task_updated"
  <2> DEFINE before == MutationsOf(m, d, N + 2)
             old == MutationsOf(l, d, N + 1)
  <2>0. Len(m.records) + 1 = N + 2
    BY <1>1
  <2>1. d \in DOMAIN l.delegations =>
          /\ l.delegations[d].revision = Cardinality(old)
          /\ l.delegations[d].controller = "main" =>
               \A k \in old : l.records[k].event.kind = "task_updated"
    BY DEF MutationsInv
  <2>2. IsFiniteSet(old) /\ N + 1 \notin old /\ \A k \in old : m.records[k] = l.records[k]
    BY <1>3
  <2>3. CASE e.kind \in MutationKinds /\ e.delegation = d
    <3>1. before = old \cup {N + 1}
      BY <1>3, <2>3
    <3>2. Cardinality(before) = Cardinality(old) + 1
      BY <2>2, <3>1, FS_AddElement
    <3>3. /\ d \in DOMAIN l.delegations
          /\ l.delegations[d].controller = "main"
          /\ m.delegations[d].revision = l.delegations[d].revision + 1
          /\ m.delegations[d].controller = "main" => e.kind = "task_updated"
      BY <2>3, ReduceDelegations DEF m
    <3> HIDE DEF before, old
    <3>4. m.delegations[d].revision = Cardinality(before)
      BY <2>1, <3>2, <3>3
    <3>5. m.delegations[d].controller = "main" => \A k \in before : m.records[k].event.kind = "task_updated"
      BY <1>1, <2>1, <2>2, <3>1, <3>3
    <3> QED BY <2>0, <3>4, <3>5 DEF before
  <2>4. CASE e.kind = "delegation_created" /\ e.delegation = d
    <3>1. before = old
      <4>1. ~(e.kind \in MutationKinds)
        BY <2>4 DEF MutationKinds
      <4>2. before = old \cup (IF e.kind \in MutationKinds /\ e.delegation = d THEN {N + 1} ELSE {})
        BY <1>3
      <4> HIDE DEF before, old, e
      <4> QED BY <4>1, <4>2
    <3>2. d \notin DOMAIN l.delegations /\ m.delegations[d] = NewDelegation(e.delegator, e.worker)
      BY <2>4, ReduceDelegations DEF m
    <3>3. old = {}
      <4>1. ASSUME NEW k \in old PROVE FALSE
        <5>1. k \in DOMAIN l.records
          BY <1>1, <4>1 DEF MutationsOf
        <5>2. l.records[k].event.kind \in MutationKinds /\ l.records[k].event.delegation = d
          BY <4>1 DEF MutationsOf
        <5> QED BY <3>2, <5>1, <5>2 DEF MutationsInv
      <4> QED BY <4>1
    <3>4. m.delegations[d].revision = 0
      BY <3>2 DEF NewDelegation
    <3> HIDE DEF before, old
    <3> QED BY <2>0, <3>1, <3>3, <3>4, FS_EmptySet DEF before
  <2>5. CASE ~(e.kind \in MutationKinds /\ e.delegation = d) /\ ~(e.kind = "delegation_created" /\ e.delegation = d)
    <3>1. before = old
      BY <1>3, <2>5
    <3>2. d \in DOMAIN l.delegations /\ m.delegations[d] = l.delegations[d]
      BY <2>5, ReduceDelegations DEF m
    <3> HIDE DEF before, old
    <3> QED BY <2>0, <2>1, <2>2, <3>1, <3>2 DEF before
  <2> QED BY <2>3, <2>4, <2>5
<1> QED BY <1>4, <1>5 DEF MutationsInv, m

\* What concerns a recipient is settled when it is recorded: later records do not change it.
LEMMA ReduceRelevance ==
  ASSUME NEW l, LedgerType(l), MutationsInv(l), NEW r \in RecordType, ValidEvent(l, r.event),
         NEW n \in DOMAIN l.records, NEW c
  PROVE  Relevant(Reduce(l, r), n, c) = Relevant(l, n, c)
<1> DEFINE m == Reduce(l, r)
           x == l.records[n].event
<1>1. m.records[n] = l.records[n]
  BY ReduceRecords DEF LedgerType
<1>2. \A d \in DOMAIN l.delegations : /\ d \in DOMAIN m.delegations
                                      /\ m.delegations[d].delegator = l.delegations[d].delegator
                                      /\ m.delegations[d].worker = l.delegations[d].worker
  BY ReduceDelegations
<1>3. x.kind \in MutationKinds => x.delegation \in DOMAIN l.delegations
  BY DEF MutationsInv
<1> HIDE DEF m
<1>4. Relevant(m, n, c) = Relevant(l, n, c)
  BY <1>1, <1>2, <1>3 DEF Relevant, MutationKinds
<1> QED BY <1>4 DEF m

\* Every admission continues from an earlier one of its recipient, or from nothing, and
\* freezes all that concerned the recipient since.
TurnsInv(l) ==
  \A n \in TurnsOf(l) :
    LET e == l.records[n].event
        c == e.boundary.recipient
    IN  /\ e.previous \in 0..(n - 1)
        /\ e.previous # 0 => /\ e.previous \in TurnsOf(l)
                             /\ l.records[e.previous].event.boundary.recipient = c
        /\ e.items = {k \in 1..(n - 1) : k > e.previous /\ Relevant(l, k, c)}

\* Every valid record keeps the admissions: a new one is checked against the log.
LEMMA ReduceAdmits ==
  ASSUME NEW l, LedgerType(l), MutationsInv(l), TurnsInv(l), NEW r \in RecordType,
         ValidEvent(l, r.event)
  PROVE  TurnsInv(Reduce(l, r))
<1> DEFINE m == Reduce(l, r)
           N == Len(l.records)
<1>1. N \in Nat /\ DOMAIN l.records = 1..N /\ DOMAIN m.records = 1..(N + 1)
      /\ m.records[N + 1] = r /\ \A k \in 1..N : m.records[k] = l.records[k]
  BY ReduceRecords DEF LedgerType
<1>2. \A c : \A k \in 1..N : Relevant(m, k, c) = Relevant(l, k, c)
  BY <1>1, ReduceRelevance
<1> HIDE DEF m
<1>3. \A k \in 1..N : k \in TurnsOf(l) <=> k \in TurnsOf(m)
  BY <1>1 DEF TurnsOf
<1>4. ASSUME NEW n \in TurnsOf(m)
      PROVE  LET e == m.records[n].event
                 c == e.boundary.recipient
             IN  /\ e.previous \in 0..(n - 1)
                 /\ e.previous # 0 => /\ e.previous \in TurnsOf(m)
                                      /\ m.records[e.previous].event.boundary.recipient = c
                 /\ e.items = {k \in 1..(n - 1) : k > e.previous /\ Relevant(m, k, c)}
  <2> DEFINE e == m.records[n].event
             c == e.boundary.recipient
  <2>1. CASE n \in 1..N
    <3>1. n \in TurnsOf(l) /\ e = l.records[n].event
      BY <1>1, <1>3, <2>1
    <3>2. /\ e.previous \in 0..(n - 1)
          /\ e.previous # 0 => /\ e.previous \in TurnsOf(l)
                               /\ l.records[e.previous].event.boundary.recipient = c
          /\ e.items = {k \in 1..(n - 1) : k > e.previous /\ Relevant(l, k, c)}
      BY <3>1 DEF TurnsInv
    <3> HIDE DEF e
    <3>3. e.previous # 0 => e.previous \in 1..N
      BY <2>1, <3>2, <1>1
    <3>4. \A k \in 1..(n - 1) : k \in 1..N
      BY <2>1, <1>1
    <3> QED BY <1>1, <1>2, <1>3, <3>2, <3>3, <3>4 DEF e
  <2>2. CASE n = N + 1
    <3>1. e = r.event /\ e.kind = "turn_admitted"
      BY <1>1, <2>2 DEF TurnsOf
    <3>2. /\ ValidCursor(l, c, e.previous)
          /\ e.items = EligibleItems(l, c, e.previous)
      BY <3>1 DEF ValidEvent, ValidTurn
    <3> HIDE DEF e, c
    <3>3. /\ e.previous \in 0..N
          /\ e.previous # 0 => /\ e.previous \in TurnsOf(l)
                               /\ l.records[e.previous].event.boundary.recipient = c
      BY <1>1, <3>2 DEF ValidCursor, TurnsOf
    <3>4. e.previous # 0 => e.previous \in 1..N
      BY <1>1, <3>3
    <3>5. e.items = {k \in 1..N : k > e.previous /\ Relevant(m, k, c)}
      BY <1>1, <1>2, <3>2 DEF EligibleItems
    <3>6. n - 1 = N
      BY <1>1, <2>2
    <3>7. e.previous # 0 => /\ e.previous \in TurnsOf(m)
                            /\ m.records[e.previous].event.boundary.recipient = c
      BY <1>1, <1>3, <3>3, <3>4
    <3> QED BY <3>3, <3>5, <3>6, <3>7 DEF e, c
  <2>3. n \in 1..(N + 1)
    BY <1>1 DEF TurnsOf
  <2> QED BY <1>1, <2>1, <2>2, <2>3
<1>5. TurnsInv(m)
  BY <1>4 DEF TurnsInv
<1> QED BY <1>5 DEF m

\* The ancestors of a conversation hold it and are closed: each round of the walk that
\* is not the last finds another delegation, so as many rounds as delegations suffice.
LEMMA AncestryClosed ==
  ASSUME NEW l, IsFiniteSet(DOMAIN l.delegations), NEW c
  PROVE  /\ c \in Ancestry(l, c)
         /\ \A d \in DOMAIN l.delegations :
              l.delegations[d].worker \in Ancestry(l, c) => l.delegations[d].delegator \in Ancestry(l, c)
<1> DEFINE D == DOMAIN l.delegations
           N == Cardinality(D)
           At(X) == {d \in D : l.delegations[d].worker \in X}
           Up(X) == {l.delegations[d].delegator : d \in At(X)}
           Round(f) == [n \in 0..N |-> IF n = 0 THEN {c} ELSE f[n - 1] \cup Up(f[n - 1])]
           up == CHOOSE f : f = Round(f)
<1>1. Ancestry(l, c) = up[N]
  BY DEF Ancestry
<1>2. N \in Nat /\ IsFiniteSet(D)
  BY FS_CardinalityType
<1>3. up = Round(up)
  <2> DEFINE S == SUBSET ({c} \cup {l.delegations[d].delegator : d \in D})
             step == [x \in Nat \X S |-> x[2] \cup Up(x[2])]
  <2>1. \A X \in S : X \cup Up(X) \in S
    OBVIOUS
  <2>2. {c} \in S /\ step \in [Nat \X S -> S]
    BY <2>1
  <2>3. PICK f : Follows({c}, step, S, f)
    <3> HIDE DEF S, step
    <3> QED BY <2>2, PrimitiveRecursion
  <2>4. f[0] = {c} /\ \A n \in Nat : f[n] \in S /\ f[n + 1] = f[n] \cup Up(f[n])
    <3>1. \A n \in Nat : f[n] \in S /\ f[n + 1] = step[<<n + 1, f[n]>>]
      BY <2>3 DEF Follows
    <3>2. \A n \in Nat, X \in S : step[<<n + 1, X>>] = X \cup Up(X)
      OBVIOUS
    <3> HIDE DEF S, step, Up
    <3> QED BY <2>3, <3>1, <3>2 DEF Follows
  <2> DEFINE g == [n \in 0..N |-> f[n]]
  <2>5. \A n \in 0..N : g[n] = IF n = 0 THEN {c} ELSE g[n - 1] \cup Up(g[n - 1])
    <3> HIDE DEF Up
    <3>1. ASSUME NEW n \in 0..N, n # 0 PROVE g[n] = g[n - 1] \cup Up(g[n - 1])
      <4>1. n - 1 \in Nat /\ n - 1 \in 0..N /\ (n - 1) + 1 = n
        BY <1>2, <3>1
      <4>2. f[(n - 1) + 1] = f[n - 1] \cup Up(f[n - 1])
        BY <2>4, <4>1
      <4> QED BY <4>1, <4>2
    <3>2. g[0] = {c}
      BY <1>2, <2>4
    <3> QED BY <3>1, <3>2
  <2>6. g = Round(g)
    <3> HIDE DEF Up, N
    <3> QED BY <2>5
  <2> HIDE DEF Round, g
  <2> QED BY <2>6
<1> HIDE DEF up
<1>4. up[0] = {c} /\ \A n \in 0..N : n # 0 => up[n] = up[n - 1] \cup Up(up[n - 1])
  <2> HIDE DEF Up, N
  <2>1. DOMAIN Round(up) = 0..N /\ \A n \in 0..N : Round(up)[n] = IF n = 0 THEN {c} ELSE up[n - 1] \cup Up(up[n - 1])
    OBVIOUS
  <2> HIDE DEF Round
  <2> QED BY <1>2, <1>3, <2>1
<1> DEFINE Closed(k) == Up(up[k]) \subseteq up[k]
           T == {k \in Nat : k <= N => c \in up[k] /\ (Closed(k) \/ Cardinality(At(up[k])) > k)}
<1>5. \A X : IsFiniteSet(At(X)) /\ Cardinality(At(X)) \in Nat /\ Cardinality(At(X)) <= N
  BY <1>2, FS_Subset, FS_CardinalityType
<1>6. 0 \in T
  <2>1. At(up[0]) = {} => Closed(0)
    OBVIOUS
  <2>2. At(up[0]) # {} => Cardinality(At(up[0])) > 0
    <3> HIDE DEF At, N
    <3> QED BY <1>5, FS_EmptySet
  <2> HIDE DEF Closed, At
  <2> QED BY <1>4, <2>1, <2>2
<1>7. ASSUME NEW k \in T PROVE k + 1 \in T
  <2> SUFFICES ASSUME k + 1 <= N
               PROVE  c \in up[k + 1] /\ (Closed(k + 1) \/ Cardinality(At(up[k + 1])) > k + 1)
    OBVIOUS
  <2>1. k \in Nat /\ k <= N /\ k + 1 \in 0..N /\ k + 1 # 0 /\ (k + 1) - 1 = k
    BY <1>2
  <2>2. up[k + 1] = up[k] \cup Up(up[k])
    <3> HIDE DEF Up, N
    <3> QED BY <1>4, <2>1
  <2>3. c \in up[k] /\ (Closed(k) \/ Cardinality(At(up[k])) > k)
    BY <2>1
  <2>4. CASE Closed(k)
    <3>1. up[k + 1] = up[k]
      BY <2>2, <2>4
    <3> QED BY <2>3, <2>4, <3>1
  <2>5. CASE ~Closed(k) /\ At(up[k + 1]) = At(up[k])
    BY <2>2, <2>3, <2>5
  <2>6. CASE ~Closed(k) /\ At(up[k + 1]) # At(up[k])
    <3>1. At(up[k]) \subseteq At(up[k + 1])
      BY <2>2
    <3>2. Cardinality(At(up[k])) < Cardinality(At(up[k + 1]))
      <4> HIDE DEF At, N
      <4> QED BY <1>5, <2>6, <3>1, FS_Subset
    <3> HIDE DEF At, Up, N
    <3> QED BY <1>5, <2>1, <2>2, <2>3, <2>6, <3>2
  <2> QED BY <2>4, <2>5, <2>6
<1>8. T = Nat
  <2> HIDE DEF T
  <2>1. T \in SUBSET Nat
    BY DEF T
  <2> QED BY <1>6, <1>7, <2>1, AllNaturals
<1>9. c \in up[N] /\ Closed(N)
  <2>1. N \in T
    BY <1>2, <1>8
  <2>2. ~(Cardinality(At(up[N])) > N)
    <3> HIDE DEF At, N
    <3> QED BY <1>2, <1>5
  <2> HIDE DEF Closed, At
  <2> QED BY <1>2, <2>1, <2>2
<1> QED BY <1>1, <1>9

\* Whatever delegations are taken together, one of them has a delegator that works under
\* none of the others.
ForestInv(l) ==
  /\ IsFiniteSet(DOMAIN l.delegations)
  /\ \A S \in (SUBSET DOMAIN l.delegations) \ {{}} :
       \E d \in S : \A x \in S : l.delegations[x].worker # l.delegations[d].delegator

\* Every valid record keeps the forest: a new worker is nobody the delegator works for.
LEMMA ReducePlants ==
  ASSUME NEW l, LedgerType(l), ForestInv(l), NEW r \in RecordType, ValidEvent(l, r.event)
  PROVE  ForestInv(Reduce(l, r))
<1> DEFINE m == Reduce(l, r)
           e == r.event
<1>1. CASE e.kind # "delegation_created"
  <2>1. DOMAIN m.delegations = DOMAIN l.delegations
    BY <1>1, ReduceDelegations
  <2>2. \A d \in DOMAIN l.delegations : /\ m.delegations[d].delegator = l.delegations[d].delegator
                                        /\ m.delegations[d].worker = l.delegations[d].worker
    BY ReduceDelegations
  <2> HIDE DEF m
  <2>3. ASSUME NEW S \in (SUBSET DOMAIN l.delegations) \ {{}}
        PROVE  \E d \in S : \A x \in S : m.delegations[x].worker # m.delegations[d].delegator
    <3>1. PICK d \in S : \A x \in S : l.delegations[x].worker # l.delegations[d].delegator
      BY DEF ForestInv
    <3> QED BY <2>2, <3>1
  <2>4. ForestInv(m)
    BY <2>1, <2>3 DEF ForestInv
  <2> QED BY <2>4 DEF m
<1>2. CASE e.kind = "delegation_created"
  <2> DEFINE new == e.delegation
             A == Ancestry(l, e.delegator)
  <2>1. /\ e.delegator # e.worker
        /\ e.worker \notin A
    BY <1>2 DEF ValidEvent, ValidCreation
  <2>2. /\ new \notin DOMAIN l.delegations
        /\ DOMAIN m.delegations = DOMAIN l.delegations \cup {new}
        /\ m.delegations[new].delegator = e.delegator
        /\ m.delegations[new].worker = e.worker
        /\ \A d \in DOMAIN l.delegations : m.delegations[d] = l.delegations[d]
    <3>1. /\ new \notin DOMAIN l.delegations
          /\ DOMAIN m.delegations = DOMAIN l.delegations \cup {new}
          /\ m.delegations[new] = NewDelegation(e.delegator, e.worker)
          /\ \A d \in DOMAIN l.delegations : m.delegations[d] = l.delegations[d]
      BY <1>2, ReduceDelegations
    <3> HIDE DEF m, new
    <3> QED BY <3>1 DEF NewDelegation
  <2>3. /\ e.delegator \in A
        /\ \A d \in DOMAIN l.delegations : l.delegations[d].worker \in A => l.delegations[d].delegator \in A
    BY AncestryClosed DEF ForestInv
  <2>4. IsFiniteSet(DOMAIN m.delegations)
    BY <2>2, FS_AddElement DEF ForestInv
  <2> HIDE DEF m, A, new
  <2>5. ASSUME NEW S \in (SUBSET DOMAIN m.delegations) \ {{}},
               \A d \in S : \E x \in S : m.delegations[x].worker = m.delegations[d].delegator
        PROVE  FALSE
    <3>1. CASE new \notin S
      <4>1. S \in (SUBSET DOMAIN l.delegations) \ {{}}
        BY <2>2, <3>1
      <4>2. PICK d \in S : \A x \in S : l.delegations[x].worker # l.delegations[d].delegator
        BY <4>1 DEF ForestInv
      <4> QED BY <2>2, <2>5, <4>1, <4>2
    <3>2. CASE new \in S
      <4> DEFINE T == {x \in S \ {new} : l.delegations[x].worker \in A}
      <4>1. \A x \in S \ {new} : x \in DOMAIN l.delegations /\ m.delegations[x] = l.delegations[x]
        BY <2>2
      <4>2. PICK x \in S : m.delegations[x].worker = e.delegator
        BY <2>2, <2>5, <3>2
      <4>3. x \in T
        BY <2>1, <2>2, <2>3, <4>1, <4>2
      <4>4. T \in (SUBSET DOMAIN l.delegations) \ {{}}
        BY <4>1, <4>3
      <4>5. PICK d \in T : \A y \in T : l.delegations[y].worker # l.delegations[d].delegator
        <5> HIDE DEF T
        <5> QED BY <4>4 DEF ForestInv
      <4>6. l.delegations[d].delegator \in A /\ m.delegations[d].delegator = l.delegations[d].delegator
        BY <2>3, <4>1
      <4>7. PICK y \in S : m.delegations[y].worker = m.delegations[d].delegator
        BY <2>5
      <4>8. y # new
        BY <2>1, <2>2, <4>6, <4>7
      <4>9. y \in T
        BY <4>1, <4>6, <4>7, <4>8
      <4> QED BY <4>1, <4>5, <4>6, <4>7, <4>8, <4>9
    <3> QED BY <3>1, <3>2
  <2>6. ForestInv(m)
    BY <2>4, <2>5 DEF ForestInv
  <2> QED BY <2>6 DEF m
<1> QED BY <1>1, <1>2

\* The least set that has admission n and, with an admission, the one its cursor names.
ChainOf(l, n) ==
  {k \in TurnsOf(l) : \A S \in SUBSET TurnsOf(l) :
     n \in S /\ (\A m \in S : l.records[m].event.previous \in S \cup {0}) => k \in S}

\* A chain is its last admission and the chain of that one's cursor.
LEMMA ChainStep ==
  ASSUME NEW l, TurnsInv(l), NEW n \in TurnsOf(l)
  PROVE  LET p == l.records[n].event.previous
         IN  ChainOf(l, n) = {n} \cup (IF p = 0 THEN {} ELSE ChainOf(l, p))
<1> DEFINE Previous1(m) == l.records[m].event.previous
           p == Previous1(n)
           C == IF p = 0 THEN {} ELSE ChainOf(l, p)
           Closes(S) == \A m \in S : Previous1(m) \in S \cup {0}
<1>1. \A m \in TurnsOf(l) : Previous1(m) # 0 => Previous1(m) \in TurnsOf(l)
  BY DEF TurnsInv
<1>2. \A q, k : k \in ChainOf(l, q) <=>
        k \in TurnsOf(l) /\ \A S \in SUBSET TurnsOf(l) : q \in S /\ Closes(S) => k \in S
  BY DEF ChainOf
<1> HIDE DEF Previous1
<1>3. ASSUME NEW k \in {n} \cup C PROVE k \in ChainOf(l, n)
  <2>1. k \in TurnsOf(l)
    BY <1>2
  <2>2. ASSUME NEW S \in SUBSET TurnsOf(l), n \in S, Closes(S) PROVE k \in S
    <3>1. p \in S \cup {0}
      BY <2>2
    <3>2. CASE k \in C
      <4>1. p # 0 /\ k \in ChainOf(l, p)
        BY <3>2
      <4> QED BY <1>2, <2>2, <3>1, <4>1
    <3> QED BY <2>2, <3>2
  <2> QED BY <1>2, <2>1, <2>2
<1>4. {n} \cup C \in SUBSET TurnsOf(l)
  BY <1>2
<1>5. Closes({n} \cup C)
  <2>1. p \in C \cup {0}
    <3>1. CASE p # 0
      <4>1. p \in TurnsOf(l)
        BY <1>1, <3>1
      <4>2. p \in ChainOf(l, p)
        BY <1>2, <4>1
      <4> QED BY <3>1, <4>2
    <3> QED BY <3>1
  <2>2. ASSUME NEW m \in C, Previous1(m) # 0 PROVE Previous1(m) \in C
    <3>1. p # 0 /\ m \in ChainOf(l, p)
      BY <2>2
    <3>2. m \in TurnsOf(l) /\ Previous1(m) \in TurnsOf(l)
      BY <1>1, <1>2, <2>2, <3>1
    <3>3. ASSUME NEW S \in SUBSET TurnsOf(l), p \in S, Closes(S) PROVE Previous1(m) \in S
      <4>1. m \in S
        BY <1>2, <3>1, <3>3
      <4> QED BY <2>2, <3>3, <4>1
    <3>4. Previous1(m) \in ChainOf(l, p)
      BY <1>2, <3>2, <3>3
    <3> QED BY <3>1, <3>4
  <2> HIDE DEF C
  <2> QED BY <2>1, <2>2
<1>6. ASSUME NEW k \in ChainOf(l, n) PROVE k \in {n} \cup C
  <2> DEFINE W == {n} \cup C
  <2>1. W \in SUBSET TurnsOf(l) /\ n \in W /\ Closes(W)
    BY <1>4, <1>5
  <2> HIDE DEF W, Closes
  <2>2. k \in W
    BY <1>2, <1>6, <2>1
  <2> QED BY <2>2 DEF W
<1>7. ChainOf(l, n) = {n} \cup C
  BY <1>3, <1>6
<1> QED BY <1>7 DEF Previous1

\* An admission concerns no recipient: it is not delivered itself.
LEMMA TurnsAreNotItems ==
  ASSUME NEW l, NEW n \in TurnsOf(l), NEW c
  PROVE  ~Relevant(l, n, c)
BY DEF TurnsOf, Relevant

\* Along a chain all that concerned the recipient is delivered, and nothing twice.
Delivered(l, n) ==
  /\ \A k \in ChainOf(l, n) : k \in TurnsOf(l) /\ k <= n
  /\ UNION {l.records[k].event.items : k \in ChainOf(l, n)} =
       {k \in 1..(n - 1) : Relevant(l, k, l.records[n].event.boundary.recipient)}
  /\ \A k, m \in ChainOf(l, n) :
       k # m => l.records[k].event.items \cap l.records[m].event.items = {}

LEMMA ChainsDeliver ==
  ASSUME NEW l, LedgerType(l), TurnsInv(l), NEW n \in TurnsOf(l)
  PROVE  Delivered(l, n)
<1> DEFINE Bad == {m \in TurnsOf(l) : ~Delivered(l, m)}
<1> SUFFICES ASSUME Bad # {} PROVE FALSE
  OBVIOUS
<1>1. TurnsOf(l) \subseteq Nat \ {0}
  BY DEF TurnsOf, LedgerType
<1>2. PICK b \in Bad : \A m \in Bad : b <= m
  <2>1. Bad \in SUBSET Nat
    BY <1>1
  <2> HIDE DEF Bad
  <2> QED BY <2>1, LeastElement
<1> DEFINE e == l.records[b].event
           p == e.previous
           c == e.boundary.recipient
           Rest == IF p = 0 THEN {} ELSE ChainOf(l, p)
           Items1(k) == l.records[k].event.items
<1>3. b \in TurnsOf(l) /\ b \in Nat \ {0}
  BY <1>1, <1>2
<1>4. /\ p \in 0..(b - 1)
      /\ p # 0 => p \in TurnsOf(l) /\ l.records[p].event.boundary.recipient = c
      /\ Items1(b) = {k \in 1..(b - 1) : k > p /\ Relevant(l, k, c)}
  BY <1>3 DEF TurnsInv
<1>5. ChainOf(l, b) = {b} \cup Rest
  BY <1>3, ChainStep
<1>6. p # 0 => Delivered(l, p)
  <2>1. p # 0 => p < b
    BY <1>3, <1>4
  <2> QED BY <1>2, <1>3, <1>4, <2>1
<1>7. /\ \A k \in Rest : k \in TurnsOf(l) /\ k <= p
      /\ UNION {Items1(k) : k \in Rest} = {k \in 1..(p - 1) : Relevant(l, k, c)}
      /\ \A k, m \in Rest : k # m => Items1(k) \cap Items1(m) = {}
  <2>1. CASE p = 0
    BY <2>1
  <2>2. CASE p # 0
    BY <1>4, <1>6, <2>2 DEF Delivered
  <2> QED BY <2>1, <2>2
<1>8. p # 0 => ~Relevant(l, p, c)
  BY <1>4, TurnsAreNotItems
<1>9. UNION {Items1(k) : k \in ChainOf(l, b)} = Items1(b) \cup UNION {Items1(k) : k \in Rest}
  <2> HIDE DEF Rest, Items1
  <2> QED BY <1>5
<1>10. Items1(b) \cup UNION {Items1(k) : k \in Rest} = {k \in 1..(b - 1) : Relevant(l, k, c)}
  <2> HIDE DEF Rest, Items1, p, c
  <2> QED BY <1>3, <1>4, <1>7, <1>8
<1>11. \A k \in Rest : Items1(b) \cap Items1(k) = {}
  <2>1. ASSUME NEW k \in Rest PROVE Items1(k) \subseteq 1..(p - 1)
    <3> HIDE DEF Rest, Items1
    <3> QED BY <1>7
  <2> HIDE DEF Rest, Items1, p, c
  <2> QED BY <1>3, <1>4, <2>1
<1>12. \A k \in ChainOf(l, b) : k \in TurnsOf(l) /\ k <= b
  <2>1. \A k \in Rest : k \in TurnsOf(l) /\ k <= b
    <3> HIDE DEF Rest, p
    <3> QED BY <1>1, <1>3, <1>4, <1>7
  <2> HIDE DEF Rest
  <2> QED BY <1>3, <1>5, <2>1
<1>13. \A k, m \in ChainOf(l, b) : k # m => Items1(k) \cap Items1(m) = {}
  <2> HIDE DEF Rest, Items1
  <2> QED BY <1>5, <1>7, <1>11
<1>14. Delivered(l, b)
  BY <1>9, <1>10, <1>12, <1>13 DEF Delivered
<1> QED BY <1>2, <1>14

-----------------------------------------------------------------------------
(* The sessions.                                                           *)

\* The file is a log as above.
LogInv == MutationsInv(log) /\ TurnsInv(log) /\ ForestInv(log)

\* An empty log is one.
LEMMA EmptyIsLog == MutationsInv(EmptyLedger) /\ TurnsInv(EmptyLedger) /\ ForestInv(EmptyLedger)
BY FS_EmptySet DEF EmptyLedger, MutationsInv, TurnsInv, TurnsOf, ForestInv

\* A new file is a log.
LEMMA LogInit == Init => LogInv
BY EmptyIsLog DEF Init, LogInv

\* Every step keeps it one.
LEMMA LogStep ==
  ASSUME FileInv, LogInv, [Next]_vars
  PROVE  LogInv'
<1>1. CASE UNCHANGED log
  BY <1>1 DEF LogInv
<1>2. CASE Grows
  <2>1. /\ command.record \in RecordType /\ LedgerType(log) /\ ValidEvent(log, command.record.event)
        /\ log' = Reduce(log, command.record)
    BY <1>2, FileGrows DEF FileInv, Validates, Grows
  <2>2. /\ MutationsInv(Reduce(log, command.record))
        /\ TurnsInv(Reduce(log, command.record))
        /\ ForestInv(Reduce(log, command.record))
    BY <2>1, ReduceSerialises, ReduceAdmits, ReducePlants DEF LogInv
  <2> QED BY <2>1, <2>2 DEF LogInv
<1> QED BY <1>1, <1>2, FileSteps

\* What concerned a recipient stays what it was.
LEMMA RelevanceKept ==
  ASSUME FileInv, LogInv, [Next]_vars, NEW n \in DOMAIN log.records, NEW c
  PROVE  Relevant(log', n, c) = Relevant(log, n, c)
<1>1. CASE Grows
  <2>1. /\ command.record \in RecordType /\ LedgerType(log) /\ ValidEvent(log, command.record.event)
        /\ log' = Reduce(log, command.record)
    BY <1>1, FileGrows DEF FileInv, Validates, Grows
  <2> QED BY <2>1, ReduceRelevance DEF LogInv
<1>2. CASE UNCHANGED log
  BY <1>2
<1> QED BY <1>1, <1>2, FileSteps

\* The admissions a session included are its own, each continuing from the one before;
\* one that is bound continues from the last, and only one turn of a session is at work.
SessionInv ==
  /\ included \in [Conversations -> Seq(Nat)]
  /\ \A c \in Conversations : \A k \in DOMAIN included[c] :
       LET n == included[c][k]
       IN  /\ n \in TurnsOf(log)
           /\ AdmissionAt(n).boundary.recipient = c
           /\ AdmissionAt(n).previous = IF k = 1 THEN 0 ELSE included[c][k - 1]
  /\ \A h \in handles : h.kind = "bound" => AdmissionAt(h.place).previous = LastIncluded(RecipientOf(h))
  /\ \A h, k \in handles :
       h.kind # "prepared" /\ k.kind # "prepared" /\ RecipientOf(h) = RecipientOf(k) => h = k

\* No session has included anything yet.
LEMMA SessionInit == Init => SessionInv
<1> SUFFICES ASSUME Init PROVE SessionInv
  OBVIOUS
<1>1. <<>> \in Seq(Nat)
  OBVIOUS
<1> QED BY <1>1 DEF Init, SessionInv

\* The recipient of an admission of the file is a conversation, and stays.
LEMMA RecipientKept ==
  ASSUME FileInv, [Next]_vars, NEW n \in TurnsOf(log)
  PROVE  /\ AdmissionAt(n).boundary.recipient \in Conversations
         /\ AdmissionAt(n)' = AdmissionAt(n)
         /\ n \in TurnsOf(log)'
<1>1. log.records[n] \in RecordType /\ log.records[n].event.kind = "turn_admitted"
  BY DEF TurnsOf, FileInv, LedgerType
<1>2. log.records[n].event \in TurnEvents
  BY <1>1, FactKinds DEF RecordType
<1>3. n \in DOMAIN log.records /\ PrefixOf(log, log')
  BY DiskKeeps DEF TurnsOf
<1> QED BY <1>1, <1>2, <1>3 DEF TurnEvents, AdmissionAt, PrefixOf, TurnsOf

\* Steps that leave the sessions alone and put no handle to work keep them.
LEMMA SessionKept ==
  ASSUME FileInv, HandleInv, SessionInv, [Next]_vars, UNCHANGED included,
         \A h \in handles' : h.kind # "prepared" => h \in handles
  PROVE  SessionInv'
<1>1. \A n \in TurnsOf(log) : AdmissionAt(n)' = AdmissionAt(n) /\ n \in TurnsOf(log)'
  BY RecipientKept
<1>2. \A h \in handles : h.place \in TurnsOf(log)
  BY DEF HandleInv
<1>3. \A h \in handles : RecipientOf(h)' = RecipientOf(h) /\ AdmissionAt(h.place)' = AdmissionAt(h.place)
  BY <1>1, <1>2 DEF RecipientOf
<1>4. \A c \in Conversations : LastIncluded(c)' = LastIncluded(c)
  BY DEF LastIncluded
<1>5. \A h \in handles : RecipientOf(h) \in Conversations
  BY <1>2, RecipientKept DEF RecipientOf
<1>6. /\ (included \in [Conversations -> Seq(Nat)])'
      /\ (\A c \in Conversations : \A k \in DOMAIN included[c] :
            LET n == included[c][k]
            IN  /\ n \in TurnsOf(log)
                /\ AdmissionAt(n).boundary.recipient = c
                /\ AdmissionAt(n).previous = IF k = 1 THEN 0 ELSE included[c][k - 1])'
  BY <1>1 DEF SessionInv
<1>7. (\A h \in handles : h.kind = "bound" => AdmissionAt(h.place).previous = LastIncluded(RecipientOf(h)))'
  <2>1. ASSUME NEW h \in handles', h.kind = "bound"
        PROVE  (AdmissionAt(h.place).previous = LastIncluded(RecipientOf(h)))'
    <3>1. h \in handles
      BY <2>1
    <3> QED BY <1>3, <1>4, <1>5, <2>1, <3>1 DEF SessionInv
  <2> QED BY <2>1
<1>8. (\A h, k \in handles :
         h.kind # "prepared" /\ k.kind # "prepared" /\ RecipientOf(h) = RecipientOf(k) => h = k)'
  <2>1. ASSUME NEW h \in handles', NEW k \in handles', h.kind # "prepared", k.kind # "prepared",
               RecipientOf(h)' = RecipientOf(k)'
        PROVE  h = k
    <3>1. h \in handles /\ k \in handles
      BY <2>1
    <3> QED BY <1>3, <2>1, <3>1 DEF SessionInv
  <2> QED BY <2>1
<1> QED BY <1>6, <1>7, <1>8 DEF SessionInv

\* A start binds an admission that continues from the last one included, in a session
\* where nothing is at work.
LEMMA StartKeepsSessions ==
  ASSUME FileInv, HandleInv, SessionInv, NEW h \in handles, Start(h)
  PROVE  SessionInv'
<1> DEFINE b == [h EXCEPT !.kind = "bound"]
           c == RecipientOf(h)
<1>1. /\ UNCHANGED <<log, included>> /\ handles' = (handles \ {h}) \cup {b}
      /\ AdmissionAt(h.place).previous = LastIncluded(c)
      /\ \A k \in handles : k.kind # "prepared" => RecipientOf(k) # c
  BY DEF Start, fileVars, sessionVars, BoundaryHolds, SessionIdle
<1>2. b.kind = "bound" /\ b.place = h.place
  BY DEF HandleInv, HandleType
<1>3. RecipientOf(b) = c
  BY <1>2 DEF RecipientOf
<1>4. \A k : RecipientOf(k)' = RecipientOf(k)
  BY <1>1 DEF RecipientOf, AdmissionAt
<1>5. \A n : AdmissionAt(n)' = AdmissionAt(n) /\ LastIncluded(n)' = LastIncluded(n)
  BY <1>1 DEF AdmissionAt, LastIncluded
<1> HIDE DEF b, c
<1>6. \A k \in handles' : k = b \/ k \in handles
  BY <1>1
<1>7. (\A k \in handles : k.kind = "bound" => AdmissionAt(k.place).previous = LastIncluded(RecipientOf(k)))'
  BY <1>1, <1>2, <1>3, <1>4, <1>5, <1>6 DEF SessionInv
<1>8. (\A k, m \in handles :
         k.kind # "prepared" /\ m.kind # "prepared" /\ RecipientOf(k) = RecipientOf(m) => k = m)'
  BY <1>1, <1>3, <1>4, <1>6 DEF SessionInv
<1>9. /\ (included \in [Conversations -> Seq(Nat)])'
      /\ (\A x \in Conversations : \A k \in DOMAIN included[x] :
            LET n == included[x][k]
            IN  /\ n \in TurnsOf(log)
                /\ AdmissionAt(n).boundary.recipient = x
                /\ AdmissionAt(n).previous = IF k = 1 THEN 0 ELSE included[x][k - 1])'
  <2>1. /\ included \in [Conversations -> Seq(Nat)]
        /\ \A x \in Conversations : \A k \in DOMAIN included[x] :
             LET n == included[x][k]
             IN  /\ n \in TurnsOf(log)
                 /\ AdmissionAt(n).boundary.recipient = x
                 /\ AdmissionAt(n).previous = IF k = 1 THEN 0 ELSE included[x][k - 1]
    BY DEF SessionInv
  <2>2. log' = log /\ included' = included
    BY <1>1
  <2> QED BY <2>1, <2>2 DEF AdmissionAt
<1> QED BY <1>7, <1>8, <1>9 DEF SessionInv

\* An inclusion continues from the last one.
LEMMA IncludeKeepsSessions ==
  ASSUME FileInv, HandleInv, SessionInv, [Next]_vars, NEW h \in handles, Include(h)
  PROVE  SessionInv'
<1> DEFINE b == [h EXCEPT !.kind = "running"]
           c == RecipientOf(h)
<1>1. /\ UNCHANGED log /\ handles' = (handles \ {h}) \cup {b} /\ h.kind = "bound"
      /\ included' = [included EXCEPT ![c] = Append(included[c], h.place)]
  BY DEF Include, fileVars, IncludedIn
<1>2. b.kind = "running" /\ b.place = h.place /\ h.place \in TurnsOf(log) /\ h.place \in Nat
  BY DEF HandleInv, HandleType
<1>3. RecipientOf(b) = c
  BY <1>2 DEF RecipientOf
<1>4. c \in Conversations
  BY <1>2, RecipientKept DEF RecipientOf
<1>5. \A k : RecipientOf(k)' = RecipientOf(k) /\ AdmissionAt(k)' = AdmissionAt(k)
  BY <1>1 DEF RecipientOf, AdmissionAt
<1>6. AdmissionAt(h.place).previous = LastIncluded(c) /\ AdmissionAt(h.place).boundary.recipient = c
  BY <1>1 DEF SessionInv, RecipientOf
<1> HIDE DEF b, c
<1>7. included[c] \in Seq(Nat) /\ \A x \in Conversations \ {c} : included'[x] = included[x]
  BY <1>1, <1>4 DEF SessionInv
<1>8. included'[c] = Append(included[c], h.place)
  BY <1>1, <1>4 DEF SessionInv
<1>9. (included \in [Conversations -> Seq(Nat)])'
  <2>1. Append(included[c], h.place) \in Seq(Nat)
    BY <1>2, <1>7
  <2> QED BY <1>1, <2>1 DEF SessionInv
<1>10. (\A x \in Conversations : \A k \in DOMAIN included[x] :
            LET n == included[x][k]
            IN  /\ n \in TurnsOf(log)
                /\ AdmissionAt(n).boundary.recipient = x
                /\ AdmissionAt(n).previous = IF k = 1 THEN 0 ELSE included[x][k - 1])'
  <2>1. ASSUME NEW x \in Conversations, NEW k \in DOMAIN included'[x]
        PROVE  LET n == included'[x][k]
               IN  /\ n \in TurnsOf(log)
                   /\ AdmissionAt(n).boundary.recipient = x
                   /\ AdmissionAt(n).previous = IF k = 1 THEN 0 ELSE included'[x][k - 1]
    <3>1. CASE x # c
      BY <1>7, <2>1, <3>1 DEF SessionInv
    <3>2. CASE x = c /\ k \in DOMAIN included[c]
      <4>1. included'[c][k] = included[c][k] /\ (k # 1 => included'[c][k - 1] = included[c][k - 1])
        <5>1. k \in 1..Len(included[c]) /\ (k # 1 => k - 1 \in 1..Len(included[c]))
          BY <1>7, <3>2
        <5> QED BY <1>7, <1>8, <5>1
      <4> QED BY <1>4, <3>2, <4>1 DEF SessionInv
    <3>3. CASE x = c /\ k \notin DOMAIN included[c]
      <4>1. k = Len(included[c]) + 1 /\ included'[c][k] = h.place
        BY <1>7, <1>8, <2>1, <3>3
      <4>2. k = 1 => included[c] = <<>>
        BY <1>7, <4>1
      <4>3. k # 1 => included[c] # <<>> /\ included'[c][k - 1] = included[c][Len(included[c])]
        BY <1>7, <1>8, <4>1
      <4>4. LastIncluded(c) = IF k = 1 THEN 0 ELSE included'[c][k - 1]
        BY <4>2, <4>3 DEF LastIncluded
      <4> QED BY <1>2, <1>6, <3>3, <4>1, <4>4
    <3> QED BY <3>1, <3>2, <3>3
  <2> QED BY <1>1, <1>5, <2>1
<1>11. \A k \in handles' : k = b \/ (k \in handles /\ k # h)
  BY <1>1
<1>12. (\A k \in handles : k.kind = "bound" => AdmissionAt(k.place).previous = LastIncluded(RecipientOf(k)))'
  <2>1. ASSUME NEW k \in handles', k.kind = "bound"
        PROVE  AdmissionAt(k.place).previous = LastIncluded(RecipientOf(k))'
    <3>1. k \in handles /\ k # h
      BY <1>2, <1>11, <2>1
    <3>2. RecipientOf(k) # c
      BY <1>1, <2>1, <3>1 DEF SessionInv, c
    <3>3. RecipientOf(k) \in Conversations
      BY <3>1, RecipientKept DEF RecipientOf, HandleInv
    <3>4. LastIncluded(RecipientOf(k))' = LastIncluded(RecipientOf(k))
      BY <1>5, <1>7, <3>2, <3>3 DEF LastIncluded
    <3> QED BY <2>1, <3>1, <3>4 DEF SessionInv
  <2> QED BY <1>5, <2>1
<1>13. (\A k, m \in handles :
         k.kind # "prepared" /\ m.kind # "prepared" /\ RecipientOf(k) = RecipientOf(m) => k = m)'
  <2>1. \A k \in handles : k # h /\ k.kind # "prepared" => RecipientOf(k) # c
    BY <1>1 DEF SessionInv, c
  <2> QED BY <1>3, <1>5, <1>11, <2>1 DEF SessionInv
<1> QED BY <1>9, <1>10, <1>12, <1>13 DEF SessionInv

\* Every step keeps the sessions.
LEMMA SessionStep ==
  ASSUME FileInv, HandleInv, SessionInv, [Next]_vars
  PROVE  SessionInv'
<1>1. ASSUME NEW h \in handles, Start(h) PROVE SessionInv'
  BY <1>1, StartKeepsSessions
<1>2. ASSUME NEW h \in handles, Include(h) PROVE SessionInv'
  BY <1>2, IncludeKeepsSessions
<1>3. CASE UNCHANGED included /\ \A h \in handles' : h.kind # "prepared" => h \in handles
  BY <1>3, SessionKept
<1>4. \A n, d, p : Handle("prepared", n, d, p).kind = "prepared"
  BY DEF Handle
<1>5. ASSUME NEW req \in Requests, NEW d \in Delegations, Schedule(req, d) \/ ScheduleAgain(req, d)
      PROVE  SessionInv'
  BY <1>3, <1>4, <1>5 DEF Schedule, ScheduleAgain, sessionVars
<1>6. ASSUME NEW req \in Requests, AdmitRoot(req) \/ AdmitRootAgain(req) PROVE SessionInv'
  BY <1>3, <1>4, <1>6 DEF AdmitRoot, AdmitRootAgain, sessionVars
<1>7. CASE Finish
  BY <1>3, <1>4, <1>7 DEF Finish, sessionVars
<1>8. ASSUME NEW h \in handles, Drop(h) PROVE SessionInv'
  BY <1>3, <1>8 DEF Drop, sessionVars
<1>9. CASE Crash
  BY <1>3, <1>9 DEF Crash, sessionVars
<1>10. ASSUME NEW c \in Conversations, OwnTurn(c) PROVE SessionInv'
  BY <1>3, <1>10 DEF OwnTurn
<1>11. CASE UNCHANGED <<handles, included>>
  BY <1>3, <1>11
<1>12. ASSUME NEW a \in Attempts, Submit(a) \/ SubmitAgain(a) PROVE SessionInv'
  BY <1>11, <1>12 DEF Submit, SubmitAgain, sessionVars
<1>13. CASE Write \/ WriteFails \/ Close \/ Reopen \/ UNCHANGED vars
  BY <1>11, <1>13 DEF Write, WriteFails, Close, Reopen, vars, sessionVars
<1> QED
  BY <1>1, <1>2, <1>5, <1>6, <1>7, <1>8, <1>9, <1>10, <1>12, <1>13 DEF Next

\* Such sessions consumed their inbox: along what they included the prefixes meet.
LEMMA SessionsConsume ==
  ASSUME FileInv, LogInv, SessionInv
  PROVE  InboxConsumed
<1> SUFFICES ASSUME NEW c \in Conversations
             PROVE  /\ UNION {AdmissionAt(included[c][k]).items : k \in DOMAIN included[c]} =
                         {n \in 1..LastIncluded(c) : Relevant(log, n, c)}
                    /\ \A j, k \in DOMAIN included[c] :
                         j # k => AdmissionAt(included[c][j]).items \cap AdmissionAt(included[c][k]).items = {}
  BY DEF InboxConsumed
<1> DEFINE s == included[c]
           got == [k \in 1..Len(s) |-> AdmissionAt(s[k]).items]
           All(S) == UNION {got[j] : j \in S}
<1>1. s \in Seq(Nat) /\ DOMAIN s = 1..Len(s) /\ Len(s) \in Nat
  BY DEF SessionInv
<1>2. ASSUME NEW k \in 1..Len(s)
      PROVE  LET p == IF k = 1 THEN 0 ELSE s[k - 1]
             IN  /\ s[k] \in Nat /\ p \in 0..(s[k] - 1)
                 /\ got[k] = {n \in 1..(s[k] - 1) : n > p /\ Relevant(log, n, c)}
                 /\ ~Relevant(log, s[k], c)
  <2>1. /\ s[k] \in TurnsOf(log) /\ s[k] \in Nat
        /\ AdmissionAt(s[k]).boundary.recipient = c
        /\ AdmissionAt(s[k]).previous = IF k = 1 THEN 0 ELSE s[k - 1]
    BY <1>1 DEF SessionInv
  <2>2. /\ AdmissionAt(s[k]).previous \in 0..(s[k] - 1)
        /\ AdmissionAt(s[k]).items =
             {n \in 1..(s[k] - 1) : n > AdmissionAt(s[k]).previous /\ Relevant(log, n, c)}
    <3> HIDE DEF s
    <3> QED BY <2>1 DEF LogInv, TurnsInv, AdmissionAt
  <2>3. ~Relevant(log, s[k], c)
    <3> HIDE DEF s
    <3> QED BY <2>1, TurnsAreNotItems
  <2> HIDE DEF s
  <2> QED BY <2>1, <2>2, <2>3
<1>3. \A S, x : x \in All(S) <=> \E j \in S : x \in got[j]
  OBVIOUS
<1> HIDE DEF s, got, All
<1> DEFINE T == {k \in Nat : k <= Len(s) =>
                   /\ All(1..k) =
                        {n \in 1..(IF k = 0 THEN 0 ELSE s[k]) : Relevant(log, n, c)}
                   /\ \A j \in 1..k : s[j] <= s[k]
                   /\ \A j, i \in 1..k : j # i => got[j] \cap got[i] = {}}
<1>4. 0 \in T
  <2>1. All(1..0) = {}
    BY <1>3
  <2> QED BY <2>1
<1>5. ASSUME NEW k \in T PROVE k + 1 \in T
  <2> SUFFICES ASSUME k + 1 <= Len(s)
               PROVE  /\ All(1..(k + 1)) = {n \in 1..s[k + 1] : Relevant(log, n, c)}
                      /\ \A j \in 1..(k + 1) : s[j] <= s[k + 1]
                      /\ \A j, i \in 1..(k + 1) : j # i => got[j] \cap got[i] = {}
    OBVIOUS
  <2> DEFINE p == IF k = 0 THEN 0 ELSE s[k]
  <2>1. k \in Nat /\ k + 1 \in 1..Len(s) /\ k <= Len(s)
    BY <1>1
  <2>2. /\ All(1..k) = {n \in 1..p : Relevant(log, n, c)}
        /\ \A j \in 1..k : s[j] <= s[k]
        /\ \A j, i \in 1..k : j # i => got[j] \cap got[i] = {}
    BY <2>1
  <2> HIDE DEF T
  <2>3. /\ s[k + 1] \in Nat /\ p \in 0..(s[k + 1] - 1)
        /\ got[k + 1] = {n \in 1..(s[k + 1] - 1) : n > p /\ Relevant(log, n, c)}
        /\ ~Relevant(log, s[k + 1], c)
    BY <1>2, <2>1
  <2>4. 1..(k + 1) = (1..k) \cup {k + 1}
    BY <2>1
  <2>5. All(1..(k + 1)) = All(1..k) \cup got[k + 1]
    BY <1>3, <2>4
  <2>6. All(1..k) \cup got[k + 1] = {n \in 1..s[k + 1] : Relevant(log, n, c)}
    <3> DEFINE q == s[k + 1]
    <3>1. q \in Nat /\ p \in 0..(q - 1) /\ ~Relevant(log, q, c)
      BY <2>3
    <3> HIDE DEF p
    <3> HIDE DEF q
    <3>2. {n \in 1..p : Relevant(log, n, c)} \cup {n \in 1..(q - 1) : n > p /\ Relevant(log, n, c)}
            = {n \in 1..q : Relevant(log, n, c)}
      BY <3>1
    <3>3. All(1..k) = {n \in 1..p : Relevant(log, n, c)}
      BY <2>2
    <3>4. got[k + 1] = {n \in 1..(q - 1) : n > p /\ Relevant(log, n, c)}
      BY <2>3 DEF q
    <3>5. All(1..k) \cup got[k + 1] = {n \in 1..q : Relevant(log, n, c)}
      BY <3>2, <3>3, <3>4
    <3> QED BY <3>5 DEF q
  <2>7. \A j \in 1..(k + 1) : s[j] <= s[k + 1]
    <3>1. \A j \in 1..k : s[j] \in Nat /\ k # 0 /\ p = s[k] /\ s[k] \in Nat
      BY <1>2, <2>1
    <3> HIDE DEF p
    <3> QED BY <2>2, <2>3, <2>4, <3>1
  <2>8. \A j \in 1..k : got[j] \cap got[k + 1] = {}
    <3>1. \A j \in 1..k : got[j] \subseteq All(1..k)
      BY <1>3
    <3> HIDE DEF p
    <3> QED BY <2>2, <2>3, <3>1
  <2>9. \A j, i \in 1..(k + 1) : j # i => got[j] \cap got[i] = {}
    BY <2>2, <2>4, <2>8
  <2> QED BY <2>5, <2>6, <2>7, <2>9
<1>6. T = Nat
  <2>1. T \in SUBSET Nat
    OBVIOUS
  <2> HIDE DEF T
  <2> QED BY <1>4, <1>5, <2>1, AllNaturals
<1>7. /\ All(1..Len(s)) =
           {n \in 1..(IF Len(s) = 0 THEN 0 ELSE s[Len(s)]) : Relevant(log, n, c)}
      /\ \A j, i \in 1..Len(s) : j # i => got[j] \cap got[i] = {}
  BY <1>1, <1>6
<1>8. LastIncluded(c) = IF Len(s) = 0 THEN 0 ELSE s[Len(s)]
  BY <1>1 DEF LastIncluded, s
<1> QED BY <1>1, <1>7, <1>8 DEF s, got, All

-----------------------------------------------------------------------------
(* The theorems.                                                           *)

IInv == FileInv /\ GateInv /\ HandleInv /\ SlotOwned /\ OnceInv
        /\ ReceiptsHold /\ FrozenInv /\ NumberInv /\ LogInv /\ SessionInv

\* The strengthened invariant: the file and the writer's reduction of it (FileInv),
\* the gate against the file (GateInv), the handles (HandleInv, SlotOwned) and the
\* histories (OnceInv, ReceiptsHold), the freeze of a poisoned writer (FrozenInv), the
\* permit numbers (NumberInv), the log (LogInv) and the sessions' part of it (SessionInv).
THEOREM Inductive == Spec => []IInv
<1>1. Init => IInv
  BY FileInit, GateInit, HandleInit, SlotInit, OnceInit, ReceiptsInit, FrozenInit,
     NumberInit, LogInit, SessionInit DEF IInv
<1>2. IInv /\ [Next]_vars => IInv'
  <2> SUFFICES ASSUME IInv, [Next]_vars PROVE IInv'
    OBVIOUS
  <2> USE DEF IInv
  <2>1. FileInv' /\ GateInv' /\ HandleInv'
    BY FileStep, GateStep, HandleStep
  <2>2. SlotOwned'
    BY SlotStep
  <2>3. OnceInv' /\ ReceiptsHold' /\ FrozenInv' /\ NumberInv'
    BY OnceStep, ReceiptsStep, FrozenStep, NumberStep
  <2>4. LogInv' /\ SessionInv'
    BY LogStep, SessionStep
  <2> QED BY <2>1, <2>2, <2>3, <2>4
<1> QED BY <1>1, <1>2, PTL DEF Spec

\* The writer, its gate and the handles have their types in every reachable state; a
\* handle in particular always names an admission that is in the file.
THEOREM TypeCorrect == Spec => []TypeOK
<1>1. IInv => TypeOK
  <2> SUFFICES ASSUME IInv PROVE TypeOK
    OBVIOUS
  <2>1. /\ command.stage \in {"idle", "write", "reduce"}
        /\ command.stage # "idle" => /\ writer = "ready"
                                     /\ command.delegation \in Delegations \cup {NoDelegation}
    <3>1. CASE command = Idle
      BY <3>1 DEF Idle
    <3>2. CASE command # Idle
      BY <3>2 DEF IInv, FileInv, CommandType
    <3> QED BY <3>1, <3>2
  <2>2. issued \subseteq DOMAIN log.records
    BY DEF IInv, NumberInv, TurnsOf
  <2>3. \A h \in handles : /\ h.kind \in {"prepared", "bound", "running"}
                           /\ h.place \in TurnsOf(log)
                           /\ h.delegation \in Delegations \cup {NoDelegation}
    BY DEF IInv, HandleInv, HandleType
  <2> QED BY <2>1, <2>2, <2>3 DEF TypeOK, IInv, FileInv, GateInv, ControlState, NumberInv
<1> QED BY <1>1, Inductive, PTL

\* A slot belongs to exactly one live holder: the reservation of the command under
\* way, a prepared turn or a permit.  Two turns of a child never run at once, and no
\* slot is leaked by a refusal, a failed write or a dropped handle (authority.rs).
THEOREM SlotsAreOwned == Spec => []SlotOwned
<1>1. IInv => SlotOwned
  BY DEF IInv
<1> QED BY <1>1, Inductive, PTL

\* A delegated conversation has one controller: once a handoff is durable nothing of
\* Main is alive for it, although the handoff is decided, written and reduced in
\* separate steps that runners, failures and deaths interleave with (COL-3).
THEOREM OneControllerHolds == Spec => []OneController
<1>1. IInv => OneController
  <2> SUFFICES ASSUME IInv, NEW d \in DOMAIN log.delegations,
                      log.delegations[d].controller = "user"
               PROVE  /\ \A h \in handles : h.delegation # d
                      /\ command # Idle => command.delegation # d
    BY DEF OneController
  <2>1. d \in Delegations /\ d # NoDelegation
    BY AuthorityAssumption DEF IInv, FileInv, LedgerType
  <2>2. active[d] = 0
    BY <2>1 DEF IInv, GateInv, UserIn
  <2>3. \A h \in handles : h.delegation = d => h \in Leases
    BY <2>1 DEF Leases, Owned
  <2>4. command # Idle /\ command.delegation = d => Reserving
    BY <2>1 DEF Reserving
  <2> QED BY <2>2, <2>3, <2>4 DEF IInv, SlotOwned
<1> QED BY <1>1, Inductive, PTL

\* A permit is issued at most once for an admission, in this process or a later one:
\* what a process issued is remembered, and what it found in the file is issued
\* already (from_ledger, ensure_ticket_available; COL-3).
THEOREM IssuedAtMostOnce == Spec => []IssuedOnce
<1>1. IInv => IssuedOnce
  BY LimitsAssumption DEF IInv, OnceInv, IssuedOnce
<1> QED BY <1>1, Inductive, PTL

\* What a caller was told is in the file stays there, at that place (COL-4).
THEOREM ReceiptsAreKept == Spec => []ReceiptsHold
<1>1. IInv => ReceiptsHold
  BY DEF IInv
<1> QED BY <1>1, Inductive, PTL

\* After an uncertain write no permit is issued until the file is reopened
\* (freeze_authority; COL-3).
THEOREM FrozenStaysFrozen == Spec => FrozenUntilReopen
<1>1. IInv /\ [Next]_vars => (executions' # executions => writer # "poisoned")
  <2> SUFFICES ASSUME IInv, Next, executions' # executions PROVE writer # "poisoned"
    BY DEF vars, historyVars
  <2>1. PICK h \in handles : Start(h)
    BY DEF Next, historyVars, Submit, SubmitAgain, Schedule, ScheduleAgain, AdmitRoot,
       AdmitRootAgain, Write, WriteFails, Finish, Drop, Include, OwnTurn, Close, Crash, Reopen
  <2>2. Owned(h) /\ control[h.delegation] = "main"
    BY <2>1 DEF Start, Bindable
  <2>3. h.delegation \in Delegations
    BY <2>2 DEF Owned, IInv, HandleInv, HandleType
  <2> QED BY <2>2, <2>3 DEF IInv, FrozenInv
<1> QED BY <1>1, Inductive, PTL DEF Spec, FrozenUntilReopen

\* The abstract log reads and reduces records as the writer does: the operators of
\* its instance are those of this module.
LEMMA LogRecords ==
  /\ Log!Facts = Facts
  /\ \A id, e : Log!Record(id, e) = Record(id, e)
  /\ \A c, h, t : Log!Boundary(c, h, t) = Boundary(c, h, t)
  /\ \A l, n, c : Log!Relevant(l, n, c) = Relevant(l, n, c)
  /\ \A l, c, p : Log!EligibleItems(l, c, p) = EligibleItems(l, c, p)
  /\ \A l, id, b, p : Log!PreparedTurn(l, id, b, p) = PreparedTurn(l, id, b, p)
<1>1. Log!Facts = Facts
  BY DEF Log!Facts, Facts, Log!DelegationCreated, DelegationCreated, Log!TaskUpdated, TaskUpdated,
     Log!HandoffCompleted, HandoffCompleted, Log!MailAccepted, MailAccepted,
     Log!AttentionRequested, AttentionRequested, Log!AttentionResolved, AttentionResolved
<1>2. /\ \A id, e : Log!Record(id, e) = Record(id, e)
      /\ \A c, h, t : Log!Boundary(c, h, t) = Boundary(c, h, t)
  BY DEF Log!Record, Record, Log!Boundary, Boundary
<1>3. \A l, n, c : Log!Relevant(l, n, c) = Relevant(l, n, c)
  BY DEF Log!Relevant, Relevant
<1>4. \A l, c, p : Log!EligibleItems(l, c, p) = EligibleItems(l, c, p)
  BY <1>3 DEF Log!EligibleItems, EligibleItems
<1>5. \A b, p, i : Log!TurnAdmitted(b, p, i) = TurnAdmitted(b, p, i)
  BY DEF Log!TurnAdmitted, TurnAdmitted
<1>6. \A l, id, b, p : Log!PreparedTurn(l, id, b, p) = PreparedTurn(l, id, b, p)
  BY <1>2, <1>4, <1>5 DEF Log!PreparedTurn, PreparedTurn
<1> QED BY <1>1, <1>2, <1>3, <1>4, <1>6

\* The abstract log reduces a record as the writer does.
LEMMA LogReduces == \A l, r : Log!Reduce(l, r) = Reduce(l, r)
<1>1. \A f, k, v : Log!Put(f, k, v) = Put(f, k, v)
  BY DEF Log!Put, Put
<1>2. \A p, w : Log!NewDelegation(p, w) = NewDelegation(p, w)
  BY DEF Log!NewDelegation, NewDelegation
<1>3. \A v, e : Log!Advanced(v, e) = Advanced(v, e)
  BY DEF Log!Advanced, Advanced
<1>4. ASSUME NEW l, NEW r PROVE Log!Reduce(l, r) = Reduce(l, r)
  BY <1>1, <1>2, <1>3 DEF Log!Reduce, Reduce
<1> QED BY <1>4

\* The instance brings its own name for a set's cardinality.
LEMMA LogCardinality == \A S : Log!Cardinality(S) = Cardinality(S)
BY DEF Log!Cardinality, Cardinality

\* The abstract log accepts the records the writer accepts.
LEMMA LogValidates == \A l, r : Log!Validates(l, r) = Validates(l, r)
<1>1. \A l : Log!Endpoints(l) = Endpoints(l) /\ Log!Workers(l) = Workers(l) /\ Log!ItemIds(l) = ItemIds(l)
  BY DEF Log!Endpoints, Endpoints, Log!Workers, Workers, Log!ItemIds, ItemIds
<1>2. \A l, c : Log!Ancestry(l, c) = Ancestry(l, c)
  BY LogCardinality DEF Log!Ancestry, Ancestry
<1>3. \A l, e : Log!ValidCreation(l, e) = ValidCreation(l, e)
  BY <1>1, <1>2, LogCardinality DEF Log!ValidCreation, ValidCreation
<1>4. \A l, e : Log!ValidMainControl(l, e) = ValidMainControl(l, e)
  BY DEF Log!ValidMainControl, ValidMainControl
<1>5. \A l, e : Log!ValidMail(l, e) = ValidMail(l, e)
  BY <1>1 DEF Log!ValidMail, ValidMail
<1>6. \A l, e : Log!ValidAttention(l, e) = ValidAttention(l, e)
  BY <1>1 DEF Log!ValidAttention, ValidAttention
<1>7. \A l, c, p : Log!ValidCursor(l, c, p) = ValidCursor(l, c, p)
  BY DEF Log!ValidCursor, ValidCursor
<1>8. \A l, e : Log!ValidTurn(l, e) = ValidTurn(l, e)
  BY <1>1, <1>7, LogRecords, LogCardinality DEF Log!ValidTurn, ValidTurn
<1>9. \A l, e : Log!ValidEvent(l, e) = ValidEvent(l, e)
  BY <1>3, <1>4, <1>5, <1>6, <1>8 DEF Log!ValidEvent, ValidEvent
<1> QED BY <1>1, <1>9 DEF Log!Validates, Validates

\* The file of a writer, through failed writes, process deaths, retries and
\* reopenings, is the abstract log: valid records, admitted one at a time.
THEOREM FileImplementsLog == Spec => ImplementsLog
<1>1. Init => Log!Init
  BY DEF Init, Log!Init, EmptyLedger, Log!EmptyLedger
<1>2. IInv /\ [Next]_vars => [Log!Next]_log
  <2> SUFFICES ASSUME IInv, [Next]_vars PROVE Log!Next \/ UNCHANGED log
    OBVIOUS
  <2>1. CASE UNCHANGED log
    BY <2>1
  <2>2. CASE Grows
    <3>1. /\ Validates(log, command.record) /\ Admissible(log, command.record)
          /\ log' = Reduce(log, command.record)
      BY <2>2, FileGrows DEF IInv, Grows
    <3>2. CASE \E id \in Items, e \in Facts : command.record = Record(id, e)
      <4>1. PICK id \in Items, e \in Facts : command.record = Record(id, e)
        BY <3>2
      <4>2. Log!AdmitFact(id, e)
        BY <3>1, <4>1, LogRecords, LogReduces, LogValidates DEF Log!AdmitFact
      <4> QED BY <4>2, LogRecords DEF Log!Next
    <3>3. CASE \E id \in Items, c \in Conversations, h \in Heads, t \in Turns,
                 previous \in 0..Len(log.records) :
                 command.record = PreparedTurn(log, id, Boundary(c, h, t), previous)
      <4>1. PICK id \in Items, c \in Conversations, h \in Heads, t \in Turns,
                 previous \in 0..Len(log.records) :
                 command.record = PreparedTurn(log, id, Boundary(c, h, t), previous)
        BY <3>3
      <4>2. Log!AdmitTurn(id, Boundary(c, h, t), previous)
        BY <3>1, <4>1, LogRecords, LogReduces, LogValidates DEF Log!AdmitTurn
      <4> QED BY <4>2, LogRecords DEF Log!Next
    <3> QED BY <3>1, <3>2, <3>3 DEF Admissible
  <2> QED BY <2>1, <2>2, FileSteps DEF IInv
<1>3. IInv /\ [Next]_vars => [log' # log => Log!Next]_log
  BY <1>2
<1> QED BY <1>1, <1>3, Inductive, PTL DEF Spec, ImplementsLog

\* The promises in terms of the lemmas above.
LEMMA PromisesRead ==
  /\ Forest <=> \A S \in (SUBSET DOMAIN log.delegations) \ {{}} :
                      \E d \in S : \A x \in S :
                        log.delegations[x].worker # log.delegations[d].delegator
  /\ MutationsSerialised <=>
       \A n \in DOMAIN log.records :
         LET e == log.records[n].event
         IN  e.kind \in MutationKinds =>
               /\ e.expected = Cardinality(MutationsOf(log, e.delegation, n))
               /\ \A k \in MutationsOf(log, e.delegation, n) : log.records[k].event.kind = "task_updated"
  /\ DeliveredOnce <=>
       \A n \in TurnsOf(log) :
         /\ UNION {log.records[k].event.items : k \in ChainOf(log, n)} =
              {k \in 1..(n - 1) : Relevant(log, k, log.records[n].event.boundary.recipient)}
         /\ \A k, m \in ChainOf(log, n) :
              k # m => log.records[k].event.items \cap log.records[m].event.items = {}
<1>1. \A n : EventAt(n) = log.records[n].event
  BY DEF EventAt
<1>2. \A d, n : MutationsBefore(d, n) = MutationsOf(log, d, n)
  BY <1>1 DEF MutationsBefore, MutationsOf, MutationKinds
<1>3. Admissions = TurnsOf(log)
  BY <1>1 DEF Admissions, Places, TurnsOf
<1>4. \A n : Chain(n) = ChainOf(log, n)
  BY <1>1, <1>3 DEF Chain, ChainOf
<1>5. MutationsSerialised <=>
       \A n \in DOMAIN log.records :
         LET e == log.records[n].event
         IN  e.kind \in MutationKinds =>
               /\ e.expected = Cardinality(MutationsOf(log, e.delegation, n))
               /\ \A k \in MutationsOf(log, e.delegation, n) : log.records[k].event.kind = "task_updated"
  BY <1>1, <1>2 DEF MutationsSerialised, Places, MutationKinds
<1> DEFINE Whole(n, S) ==
             /\ UNION {log.records[k].event.items : k \in S} =
                  {k \in 1..(n - 1) : Relevant(log, k, log.records[n].event.boundary.recipient)}
             /\ \A k, m \in S :
                  k # m => log.records[k].event.items \cap log.records[m].event.items = {}
<1>6. DeliveredOnce <=> \A n \in TurnsOf(log) : Whole(n, ChainOf(log, n))
  <2>1. DeliveredOnce <=> \A n \in Admissions : Whole(n, Chain(n))
    BY DEF DeliveredOnce, EventAt
  <2> HIDE DEF Whole
  <2> QED BY <1>3, <1>4, <2>1
<1>7. DeliveredOnce <=>
       \A n \in TurnsOf(log) :
         /\ UNION {log.records[k].event.items : k \in ChainOf(log, n)} =
              {k \in 1..(n - 1) : Relevant(log, k, log.records[n].event.boundary.recipient)}
         /\ \A k, m \in ChainOf(log, n) :
              k # m => log.records[k].event.items \cap log.records[m].event.items = {}
  BY <1>6
<1> QED BY <1>5, <1>7 DEF Forest

\* What holds of such a log.
LEMMA LogHolds ==
  ASSUME LedgerType(log), LogInv
  PROVE  Forest /\ MutationsSerialised /\ DeliveredOnce
<1>1. Forest
  BY PromisesRead DEF LogInv, ForestInv
<1>2. MutationsSerialised
  BY PromisesRead DEF LogInv, MutationsInv
<1>3. \A n \in TurnsOf(log) : Delivered(log, n)
  BY ChainsDeliver DEF LogInv
<1>4. DeliveredOnce
  BY <1>3, PromisesRead DEF Delivered
<1> QED BY <1>1, <1>2, <1>4

\* The abstract log keeps what the file keeps.
LEMMA LogInductive == Log!Spec => [](LedgerType(log) /\ LogInv)
<1>1. Log!Init => LedgerType(log) /\ LogInv
  <2>1. Log!Init => log = EmptyLedger
    BY DEF Log!Init, Log!EmptyLedger, EmptyLedger
  <2> QED BY <2>1, EmptyIsLedger, EmptyIsLog DEF LogInv
<1>2. LedgerType(log) /\ LogInv /\ [Log!Next]_log => (LedgerType(log) /\ LogInv)'
  <2> SUFFICES ASSUME LedgerType(log), LogInv, [Log!Next]_log
               PROVE  (LedgerType(log) /\ LogInv)'
    OBVIOUS
  <2>1. ASSUME NEW r \in RecordType, Validates(log, r), log' = Reduce(log, r)
        PROVE  (LedgerType(log) /\ LogInv)'
    <3>1. ValidEvent(log, r.event)
      BY <2>1 DEF Validates
    <3>2. LedgerType(Reduce(log, r))
      BY <2>1, ReduceType
    <3>3. MutationsInv(Reduce(log, r)) /\ TurnsInv(Reduce(log, r)) /\ ForestInv(Reduce(log, r))
      BY <3>1, ReduceSerialises, ReduceAdmits, ReducePlants DEF LogInv
    <3> QED BY <2>1, <3>2, <3>3 DEF LogInv
  <2>2. ASSUME NEW id \in Items, NEW e \in Facts, Log!AdmitFact(id, e)
        PROVE  (LedgerType(log) /\ LogInv)'
    <3>1. Record(id, e) \in RecordType /\ Validates(log, Record(id, e)) /\ log' = Reduce(log, Record(id, e))
      BY <2>2, LogRecords, LogReduces, LogValidates DEF Log!AdmitFact, RecordType, Record
    <3> QED BY <2>1, <3>1
  <2>3. ASSUME NEW id \in Items, NEW c \in Conversations, NEW h \in Heads, NEW t \in Turns,
               NEW p \in 0..Len(log.records), Log!AdmitTurn(id, Log!Boundary(c, h, t), p)
        PROVE  (LedgerType(log) /\ LogInv)'
    <3> DEFINE r == PreparedTurn(log, id, Boundary(c, h, t), p)
    <3>1. Validates(log, r) /\ log' = Reduce(log, r)
      BY <2>3, LogRecords, LogReduces, LogValidates DEF Log!AdmitTurn
    <3>2. r \in RecordType
      BY <3>1, PreparedTurnIsRecord
    <3> QED BY <2>1, <3>1, <3>2
  <2>4. CASE UNCHANGED log
    BY <2>4 DEF LogInv
  <2> QED BY <2>2, <2>3, <2>4, LogRecords DEF Log!Next
<1> QED BY <1>1, <1>2, PTL DEF Log!Spec

\* Delegation is a forest (COL-3): the walk over ancestors that refuses a new worker
\* (validate_creation) reaches all of them, so no chain of delegations closes, in the
\* abstract log and in the file of a writer.
THEOREM DelegationsAreForest == (Log!Spec => []Forest) /\ (Spec => []Forest)
<1>1. LedgerType(log) /\ LogInv => Forest
  BY LogHolds
<1>2. Log!Spec => []Forest
  BY <1>1, LogInductive, PTL
<1>3. IInv => Forest
  BY <1>1 DEF IInv, FileInv
<1>4. Spec => []Forest
  BY <1>3, Inductive, PTL
<1> QED BY <1>2, <1>4

\* The expected revision serialises the mutations of a delegation, and none follows its
\* handoff (validate_main_control; COL-3).
THEOREM MutationsAreSerialised ==
  (Log!Spec => []MutationsSerialised) /\ (Spec => []MutationsSerialised)
<1>1. LedgerType(log) /\ LogInv => MutationsSerialised
  BY LogHolds
<1>2. Log!Spec => []MutationsSerialised
  BY <1>1, LogInductive, PTL
<1>3. IInv => MutationsSerialised
  BY <1>1 DEF IInv, FileInv
<1>4. Spec => []MutationsSerialised
  BY <1>3, Inductive, PTL
<1> QED BY <1>2, <1>4

\* Along the cursors of a session the frozen prefixes meet without a gap or an overlap
\* (prepare_turn, validate_turn; CIN-1, CIN-2).
THEOREM ItemsAreDeliveredOnce ==
  (Log!Spec => []DeliveredOnce) /\ (Spec => []DeliveredOnce)
<1>1. LedgerType(log) /\ LogInv => DeliveredOnce
  BY LogHolds
<1>2. Log!Spec => []DeliveredOnce
  BY <1>1, LogInductive, PTL
<1>3. IInv => DeliveredOnce
  BY <1>1 DEF IInv, FileInv
<1>4. Spec => []DeliveredOnce
  BY <1>3, Inductive, PTL
<1> QED BY <1>2, <1>4

\* What the turns a session included have delivered is what concerned it up to the last
\* one, each item once, although its own file and the collaboration file are written by
\* different threads and deaths fall between them (CIN-2).
THEOREM InboxIsConsumed == Spec => []InboxConsumed
<1>1. IInv => InboxConsumed
  BY SessionsConsume DEF IInv
<1> QED BY <1>1, Inductive, PTL
=============================================================================
