----------------------------- MODULE PermissionLog -----------------------------
(***************************************************************************)
(* What the permission store promises of a project's log (PGR-2 to PGR-4):  *)
(* whatever its processes do, there is one order of changes, each is made   *)
(* at one moment on the log as it is then, what is acknowledged is in it,   *)
(* and a log that was lost is never begun again. The locked transactions of *)
(* ProjectPermissions, with their reviews, torn writes and deaths, must all *)
(* look like this log, or like nothing.                                     *)
(***************************************************************************)
EXTENDS Naturals, FiniteSets

CONSTANTS
  Configs,     \* project configurations that may be trusted, "none" for no trust
  MaxRecords,  \* MAX_STORE_RECORDS
  MaxGrants    \* MAX_PERMISSION_ENTRIES

VARIABLES
  fold,   \* the records of the log, folded
  lost,   \* the log is gone, or its creation broke off
  acked   \* sequence of the last acknowledged record

vars == <<fold, lost, acked>>

Absent == [present |-> FALSE, seq |-> 0, grants |-> {}, trust |-> "none"]
Fresh == [present |-> TRUE, seq |-> 0, grants |-> {}, trust |-> "none"]

Init == fold = Absent /\ lost = FALSE /\ acked = 0

\* A project has one log, begun once.
Create ==
  /\ ~fold.present /\ ~lost
  /\ fold' = Fresh
  /\ UNCHANGED <<lost, acked>>

\* The next record, with what it leaves of the grants and the trust.
Record(grants, trust) ==
  /\ fold.present /\ fold.seq < MaxRecords
  /\ fold' = [present |-> TRUE, seq |-> fold.seq + 1, grants |-> grants, trust |-> trust]
  /\ UNCHANGED <<lost, acked>>

\* A grant is named by the sequence of its record.
Grant ==
  /\ Cardinality(fold.grants) < MaxGrants
  /\ Record(fold.grants \cup {fold.seq + 1}, fold.trust)

Revoke(id) == id \in fold.grants /\ Record(fold.grants \ {id}, fold.trust)

Trust(config) == Record(fold.grants, config)

\* A caller is told that the log up to its last record is durable.
Acknowledge ==
  /\ fold.present
  /\ acked' = fold.seq
  /\ UNCHANGED <<fold, lost>>

\* Somebody removes the log, or its creation breaks off.
Lose ==
  /\ ~lost
  /\ lost' = TRUE /\ fold' = Absent
  /\ UNCHANGED acked

Next ==
  \/ Create \/ Grant \/ Acknowledge \/ Lose
  \/ \E id \in fold.grants : Revoke(id)
  \/ \E config \in Configs : Trust(config)

Spec == Init /\ [][Next]_vars
=============================================================================
