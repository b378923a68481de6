---------------------------- MODULE MCTurnRecovery ----------------------------
(***************************************************************************)
(* Small instances of TurnRecovery.  Deaths are not bounded: a restart     *)
(* resets the counters of the process and keeps the bounded journal.       *)
(***************************************************************************)
EXTENDS TurnRecovery

CONSTANTS a, b

MCCalls == {a, b}

\* Both calls run at once, both ask, or one must always ask and the other has no source
\* (a forbidden call takes the same branch). A view may change into another twice in a
\* process, under calls that wait, and differ in the next one.
MCViews == {[c \in MCCalls |-> "allow"], [c \in MCCalls |-> "ask"],
            [c \in MCCalls |-> IF c = a THEN "ask_always" ELSE "unavailable"]}
=============================================================================
