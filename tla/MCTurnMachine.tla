---------------------------- MODULE MCTurnMachine ----------------------------
(***************************************************************************)
(* Small instances of TurnMachine for TLC.  Two calls are the least that   *)
(* let answers of one batch overtake each other and one call's answer      *)
(* settle the batch while the other is still out.                          *)
(***************************************************************************)
EXTENDS TurnMachine

CONSTANTS a, b

MCCalls == {a, b}

\* One call runs at once, the other asks.
OneView == {[c \in MCCalls |-> IF c = a THEN "allow" ELSE "ask"]}
=============================================================================
