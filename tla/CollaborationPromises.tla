------------------------ MODULE CollaborationPromises ------------------------
(***************************************************************************)
(* What every log of a collaboration is like, whoever wrote it: the        *)
(* abstract log (CollaborationLog) and the file of a writer                *)
(* (CollaborationAuthority).                                               *)
(***************************************************************************)
EXTENDS CollaborationLedger

VARIABLE log            \* the reduction of the records admitted so far

EventAt(n) == log.records[n].event

Places == DOMAIN log.records

\* Mutations of delegation d recorded before place n.
MutationsBefore(d, n) ==
  {k \in 1..(n - 1) : /\ EventAt(k).kind \in {"task_updated", "handoff_completed"}
                      /\ EventAt(k).delegation = d}

\* Delegation is a forest: no conversation works for itself, through however many
\* delegations (COL-3).  The ancestor walk of validate_creation has no other bound,
\* so this is also why it ends.
Forest ==
  \A S \in (SUBSET DOMAIN log.delegations) \ {{}} :
    \E d \in S : \A x \in S : log.delegations[x].worker # log.delegations[d].delegator

\* Every mutation names the revision it was decided at and nothing follows a
\* handoff: the optimistic revision check serialises task updates and handoff
\* (COL-3), and the derived view agrees with the log it is derived from.
MutationsSerialised ==
  \A n \in Places :
    EventAt(n).kind \in {"task_updated", "handoff_completed"} =>
      LET d == EventAt(n).delegation
      IN  /\ EventAt(n).expected = Cardinality(MutationsBefore(d, n))
          /\ \A k \in MutationsBefore(d, n) : EventAt(k).kind = "task_updated"

Admissions == {n \in Places : EventAt(n).kind = "turn_admitted"}

\* The chain of admissions a turn builds on, itself included: the least set that has
\* it and, with an admission, the one its cursor names.
Chain(n) ==
  {k \in Admissions : \A S \in SUBSET Admissions :
     n \in S /\ (\A m \in S : EventAt(m).previous \in S \cup {0}) => k \in S}

\* Along the cursors of one session every relevant item is delivered exactly once:
\* the frozen prefixes of a chain are disjoint and leave no gap (CIN-1, CIN-2).
DeliveredOnce ==
  \A n \in Admissions :
    /\ UNION {EventAt(k).items : k \in Chain(n)} =
         {k \in 1..(n - 1) : Relevant(log, k, EventAt(n).boundary.recipient)}
    /\ \A k, m \in Chain(n) : k # m => EventAt(k).items \cap EventAt(m).items = {}
=============================================================================
