----------------------------- MODULE TurnRecovery -----------------------------
(***************************************************************************)
(* The turn machine over a journal file, with process deaths.              *)
(*                                                                         *)
(* The runtime's journal worker appends the records of one reaction to the *)
(* file one by one; the effects of the reaction start, and the next input  *)
(* is handled, only after the last one is durable.  A death therefore      *)
(* leaves the records of every earlier reaction and some prefix of the     *)
(* last one.  The next process loads that journal, settles what it finds   *)
(* unfinished and appends those records before any input; it may die in    *)
(* the middle of that too.                                                 *)
(*                                                                         *)
(* Nothing else survives: the queue, the permission view, the outstanding  *)
(* workers and the open batch are the memory of the process.               *)
(***************************************************************************)
EXTENDS TurnMachine

\* The journal file after a death at which n records of the last reaction were durable.
Durable(n) == Replay(saved, SubSeq(records, 1, n))

\* Calls the reaction released for execution.
ReleasedNow == {c \in Calls : \E i \in DOMAIN records : records[i] = ToolCallChanged(c, "running")}

\* Executions started by this process: a reaction's effects wait for its last record.
Started(n) ==
  LET authorized == {c \in Calls : authority[c] # "none"}
  IN  IF n = Len(records) THEN authorized ELSE authorized \ ReleasedNow

\* The process dies; the next one resumes the journal and recovers it.
Restart(n) ==
  /\ GoIdleAt(Durable(n).turns)
  /\ queue' = {}
  /\ nextOrder' = 0
  /\ delivered' = {}
  /\ returned' = {}
  /\ policy' \in Policies
  /\ revision' = 1
  /\ calling' = {}
  /\ admitting' = {}
  /\ preparing' = [c \in Calls |-> 0]
  /\ granted' = {}
  /\ running' = {}
  /\ authority' = [c \in Calls |-> "none"]
  /\ saved' = Durable(n)
  /\ records' = RecoveryRecords(Durable(n))
  /\ ran' = ran \cup Started(n)

RecoveryNext ==
  \/ Next
  \/ \E n \in 0..Len(records) : Restart(n)

RecoverySpec == Init /\ [][RecoveryNext]_vars

-----------------------------------------------------------------------------
(* Properties.                                                             *)

\* An idle agent's journal shows nothing unfinished, so recovering is idempotent: a
\* process that dies right after it recovered finds nothing left to settle (JRN-5), and
\* one interruption is marked once in the transcript, even when the process dies
\* again while it recovers (recovery.rs, needs_marker).
IdleIsSettled ==
  /\ phase = "idle" => ~Interrupted(Journal)
  /\ Journal.markers <= 1

\* No tool call is executed twice, by one process or by two: a call that was
\* started is in the durable journal, so no later turn takes its identity again,
\* and recovery cancels it instead of running it.
NeverRunTwice == [][\A c \in running' \ running : c \notin ran /\ authority[c] = "none"]_vars
=============================================================================
