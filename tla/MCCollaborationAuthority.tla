----------------------- MODULE MCCollaborationAuthority -----------------------
(***************************************************************************)
(* A small instance for TLC: the user's root conversation delegates to one *)
(* worker.  The worker can take a second turn when mail came after its     *)
(* first one, and the root can take a turn of its own instead.             *)
(***************************************************************************)
EXTENDS CollaborationAuthority

CONSTANTS main, worker, d1, m1, t1, t2

Request(id, c, t) == [id |-> id, recipient |-> c, turn |-> t]

Create  == Record("create", DelegationCreated(d1, main, worker))
Handoff == Record("handoff", HandoffCompleted(d1, 0, main))

MCAttempts == {Create, Record("mail", MailAccepted(main, worker, m1)), Handoff}

\* The second turn is the worker's, after the mail, or one of the root.
MCRequests ==
  {Request("turn1", worker, t1), Request("turn2", worker, t2), Request("turn2", main, t2)}
=============================================================================
