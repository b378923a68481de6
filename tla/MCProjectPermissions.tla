------------------------ MODULE MCProjectPermissions ------------------------
(* Instances of ProjectPermissions for TLC. *)
EXTENDS ProjectPermissions, TLC

CONSTANTS p, q, t
MCProcesses == {p, q}
\* One process with two workers that meet at its memory, one more that meets them at the store.
MCTools == {<<p, t>>}
\* Two files that allow the call and differ in other bytes, one that asks, one that denies.
MCConfigs == {"none", "allow", "other", "ask", "deny"}
MCRule == [c \in MCConfigs |-> IF c = "other" THEN "allow" ELSE c]
=============================================================================
