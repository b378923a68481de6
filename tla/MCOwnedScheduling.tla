------------------------ MODULE MCOwnedScheduling ------------------------
(* Instances of OwnedScheduling for TLC. *)
EXTENDS OwnedScheduling, TLC

CONSTANTS a, b
MCWorkers == {a, b}
MCOne == {a}
MCRaces == {"blocked_child_asked"}
==========================================================================
