-------------------------- MODULE CollaborationLedger --------------------------
(***************************************************************************)
(* The collaboration ledger: what one bounded log of delegations, mail,    *)
(* attention references and turn admissions accepts, and the views its     *)
(* reduction keeps (COL-1 to COL-3, CIN-1).                                *)
(*                                                                         *)
(* A record's sequence is its place in the log.  A conversation stands for *)
(* its endpoint: it keeps the agent its first delegation gave it.  Text,   *)
(* artifacts, task contents and byte weights are abstracted; the bounds on *)
(* the number of items, delegations and sources of one turn are kept.      *)
(***************************************************************************)
EXTENDS Naturals, Sequences, FiniteSets

CONSTANTS
    Items,              \* retry identities of the callers
    Conversations,
    Delegations,
    MailIds,            \* identities a sender gives its mail
    AttentionIds,       \* identities a producer gives its attention requests
    Turns,              \* turn identities
    ItemCapacity,       \* limits.items
    ControlItems,       \* limits.control_items: last places mail cannot take
    DelegationCapacity, \* limits.delegations
    SourceCapacity      \* MAX_TURN_SOURCE_ITEMS

ASSUME LimitsAssumption ==
  /\ ItemCapacity \in Nat \ {0}
  /\ DelegationCapacity \in Nat \ {0}
  /\ ControlItems \in 0..ItemCapacity
  /\ SourceCapacity \in Nat

-----------------------------------------------------------------------------
(* Events and records.                                                     *)

DelegationCreated(d, p, w) ==
  [kind |-> "delegation_created", delegation |-> d, delegator |-> p, worker |-> w]
TaskUpdated(d, n, p) ==
  [kind |-> "task_updated", delegation |-> d, expected |-> n, author |-> p]
HandoffCompleted(d, n, p) ==
  [kind |-> "handoff_completed", delegation |-> d, expected |-> n, author |-> p]
MailAccepted(p, c, m)     == [kind |-> "mail_accepted", from |-> p, to |-> c, mail |-> m]
AttentionRequested(p, x)  == [kind |-> "attention_requested", producer |-> p, attention |-> x]
AttentionResolved(p, x)   == [kind |-> "attention_resolved", producer |-> p, attention |-> x]

\* items are places in the log, and so is previous (0: the session included nothing yet).
TurnAdmitted(boundary, previous, items) ==
  [kind |-> "turn_admitted", boundary |-> boundary, previous |-> previous, items |-> items]

\* The session state a turn was prepared against.
Boundary(c, head, t) == [recipient |-> c, head |-> head, turn |-> t]

Record(id, e) == [id |-> id, event |-> e]

\* Events a caller brings as they are; turn admissions are made by PrepareTurn.
Facts ==
  {DelegationCreated(d, p, w) : d \in Delegations, p \in Conversations, w \in Conversations}
  \cup {TaskUpdated(d, n, p) : d \in Delegations, n \in 0..ItemCapacity, p \in Conversations}
  \cup {HandoffCompleted(d, n, p) : d \in Delegations, n \in 0..ItemCapacity, p \in Conversations}
  \cup {MailAccepted(p, c, m) : p \in Conversations, c \in Conversations, m \in MailIds}
  \cup {AttentionRequested(p, x) : p \in Conversations, x \in AttentionIds}
  \cup {AttentionResolved(p, x) : p \in Conversations, x \in AttentionIds}

-----------------------------------------------------------------------------
(* The reduction: the log and the indexes kept beside it.                  *)

EmptyLedger ==
  [records     |-> <<>>,
   delegations |-> <<>>,     \* partial function: delegation -> view
   mails       |-> {},       \* sender and identity of the mail accepted
   attentions  |-> <<>>]     \* partial function: producer and identity -> resolved?

NewDelegation(p, w) == [delegator |-> p, worker |-> w, revision |-> 0, controller |-> "main"]

Put(f, k, v) == [x \in DOMAIN f \cup {k} |-> IF x = k THEN v ELSE f[x]]

Endpoints(l) == UNION {{l.delegations[d].delegator, l.delegations[d].worker} : d \in DOMAIN l.delegations}

Workers(l) == {l.delegations[d].worker : d \in DOMAIN l.delegations}

\* Mutant: the ancestors of the delegator are not looked at.
ParentOnly(l, c) == {c}

\* A conversation and those it works for, directly or not, at most n delegations up.
Ancestry(l, c) ==
  LET up[n \in 0..Cardinality(DOMAIN l.delegations)] ==
        IF n = 0 THEN {c}
        ELSE up[n - 1] \cup {l.delegations[d].delegator :
                               d \in {x \in DOMAIN l.delegations : l.delegations[x].worker \in up[n - 1]}}
  IN  up[Cardinality(DOMAIN l.delegations)]

-----------------------------------------------------------------------------
(* What the ledger requires of an event, kind by kind.                     *)

ValidCreation(l, e) ==
  /\ e.delegator # e.worker
  /\ e.delegation \notin DOMAIN l.delegations
  /\ e.worker \notin Workers(l)
  /\ Cardinality(DOMAIN l.delegations) < DelegationCapacity
  /\ e.worker \notin Ancestry(l, e.delegator)

\* The fixed delegator, at the current revision, while Main controls.
ValidMainControl(l, e) ==
  /\ e.delegation \in DOMAIN l.delegations
  /\ e.author = l.delegations[e.delegation].delegator
  /\ e.expected = l.delegations[e.delegation].revision
  /\ l.delegations[e.delegation].controller = "main"

ValidMail(l, e) ==
  /\ e.from # e.to
  /\ {e.from, e.to} \subseteq Endpoints(l)
  /\ <<e.from, e.mail>> \notin l.mails
  /\ Len(l.records) < ItemCapacity - ControlItems

ValidAttention(l, e) ==
  /\ e.producer \in Endpoints(l)
  /\ LET key == <<e.producer, e.attention>>
     IN  IF e.kind = "attention_requested"
         THEN key \notin DOMAIN l.attentions
         ELSE key \in DOMAIN l.attentions /\ ~l.attentions[key]

\* The events of a recipient: its mail and the history of its delegations.
Relevant(l, n, c) ==
  LET e == l.records[n].event
  IN  \/ e.kind = "mail_accepted" /\ e.to = c
      \/ e.kind = "delegation_created" /\ c \in {e.delegator, e.worker}
      \/ /\ e.kind \in {"task_updated", "handoff_completed"}
         /\ e.delegation \in DOMAIN l.delegations
         /\ c \in {l.delegations[e.delegation].delegator, l.delegations[e.delegation].worker}

\* Mutant: any admission will do as the cursor.
AnyCursor(l, c, previous) ==
  previous = 0 \/ (previous \in DOMAIN l.records /\ l.records[previous].event.kind = "turn_admitted")

\* The cursor is one of this recipient's own admissions.
ValidCursor(l, c, previous) ==
  \/ previous = 0
  \/ /\ previous \in DOMAIN l.records
     /\ l.records[previous].event.kind = "turn_admitted"
     /\ l.records[previous].event.boundary.recipient = c

EligibleItems(l, c, previous) == {n \in DOMAIN l.records : n > previous /\ Relevant(l, n, c)}

ValidTurn(l, e) ==
  LET c == e.boundary.recipient
  IN  /\ c \in Endpoints(l)
      /\ \A n \in DOMAIN l.records :
           LET old == l.records[n].event
           IN  old.kind = "turn_admitted" => \/ old.boundary.recipient # c
                                             \/ old.boundary.turn # e.boundary.turn
      /\ ValidCursor(l, c, e.previous)
      /\ Cardinality(EligibleItems(l, c, e.previous)) \in 1..SourceCapacity
      /\ e.items = EligibleItems(l, c, e.previous)

ValidEvent(l, e) ==
  \/ e.kind = "turn_admitted" /\ ValidTurn(l, e)
  \/ e.kind = "mail_accepted" /\ ValidMail(l, e)
  \/ e.kind = "delegation_created" /\ ValidCreation(l, e)
  \/ e.kind \in {"task_updated", "handoff_completed"} /\ ValidMainControl(l, e)
  \/ e.kind \in {"attention_requested", "attention_resolved"} /\ ValidAttention(l, e)

ItemIds(l) == {l.records[n].id : n \in DOMAIN l.records}

\* validate_record: the boundary both live admission and replay go through.
Validates(l, r) ==
  /\ r.id \notin ItemIds(l)
  /\ Len(l.records) < ItemCapacity
  /\ ValidEvent(l, r.event)

-----------------------------------------------------------------------------
(* apply: the reduction of a validated record.                             *)

\* Mutant: a task update does not advance the revision.
AdvancedByHandoff(v, e) ==
  [v EXCEPT !.revision = IF e.kind = "handoff_completed" THEN @ + 1 ELSE @,
            !.controller = IF e.kind = "handoff_completed" THEN "user" ELSE @]

Advanced(v, e) ==
  [v EXCEPT !.revision = @ + 1,
            !.controller = IF e.kind = "handoff_completed" THEN "user" ELSE @]

Reduce(l, r) ==
  LET e == r.event
  IN  [records |-> Append(l.records, r),
       delegations |->
         IF e.kind = "delegation_created"
         THEN Put(l.delegations, e.delegation, NewDelegation(e.delegator, e.worker))
         ELSE IF e.kind \in {"task_updated", "handoff_completed"}
         THEN Put(l.delegations, e.delegation, Advanced(l.delegations[e.delegation], e))
         ELSE l.delegations,
       mails |-> l.mails \cup (IF e.kind = "mail_accepted" THEN {<<e.from, e.mail>>} ELSE {}),
       attentions |->
         IF e.kind \in {"attention_requested", "attention_resolved"}
         THEN Put(l.attentions, <<e.producer, e.attention>>, e.kind = "attention_resolved")
         ELSE l.attentions]

\* prepare: an exact retry meets its original record before any other check.
Admitted(l, id) == \E n \in DOMAIN l.records : l.records[n].id = id
PlaceOf(l, id)  == CHOOSE n \in DOMAIN l.records : l.records[n].id = id

\* prepare_turn: a retry need only name the same boundary and cursor; a new
\* admission freezes what is eligible now.
SameTurn(l, id, boundary, previous) ==
  LET e == l.records[PlaceOf(l, id)].event
  IN  /\ e.kind = "turn_admitted"
      /\ e.boundary = boundary
      /\ e.previous = previous

PreparedTurn(l, id, boundary, previous) ==
  Record(id, TurnAdmitted(boundary, previous, EligibleItems(l, boundary.recipient, previous)))
=============================================================================
