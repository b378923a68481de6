-------------------------- MODULE MCCollaborationLog --------------------------
(***************************************************************************)
(* A small collaboration for TLC.  Three conversations and three           *)
(* delegations let a chain of delegations close into a cycle of any length *)
(* and give two recipients admissions whose cursors could be confused.     *)
(*                                                                         *)
(* The log never compares identities of different items except for being   *)
(* different, so the runs number them in order of admission.               *)
(***************************************************************************)
EXTENDS CollaborationLog, TLC

NextItem == Len(log.records) + 1

MCNext ==
  \/ \E e \in Facts : AdmitFact(NextItem, e)
  \/ \E c \in Conversations, head \in Heads, t \in Turns, previous \in 0..Len(log.records) :
       AdmitTurn(NextItem, Boundary(c, head, t), previous)

MCSpec == Init /\ [][MCNext]_log

Symmetry == Permutations(Conversations) \cup Permutations(Delegations) \cup Permutations(Turns)
=============================================================================
