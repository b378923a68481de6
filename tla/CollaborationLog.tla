--------------------------- MODULE CollaborationLog ---------------------------
(***************************************************************************)
(* What a collaboration promises of its log (COL-1): a sequence of valid   *)
(* records that only grows, one record at a time.  The writer over a file  *)
(* (CollaborationAuthority) implements it; its crashes, retries and        *)
(* uncertain writes must all look like this log, or like nothing.          *)
(***************************************************************************)
EXTENDS CollaborationPromises

CONSTANT Heads          \* head revisions a recipient's session may be at

Init == log = EmptyLedger

\* A fact brought by a caller.
AdmitFact(id, e) ==
  /\ Validates(log, Record(id, e))
  /\ log' = Reduce(log, Record(id, e))

\* A turn of a recipient, with the prefix it freezes.
AdmitTurn(id, boundary, previous) ==
  LET r == PreparedTurn(log, id, boundary, previous)
  IN  /\ Validates(log, r)
      /\ log' = Reduce(log, r)

Next ==
  \E id \in Items :
    \/ \E e \in Facts : AdmitFact(id, e)
    \/ \E c \in Conversations, head \in Heads, t \in Turns, previous \in 0..Len(log.records) :
         AdmitTurn(id, Boundary(c, head, t), previous)

Spec == Init /\ [][Next]_log
=============================================================================
