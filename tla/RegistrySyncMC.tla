--------------------------- MODULE RegistrySyncMC ---------------------------
(* Small instances of RegistrySync, with the bridge, for TLC. *)
EXTENDS RegistryBridge

CONSTANTS p1, a1, g1

OneProperty == {p1}
OneAgent == {a1}
OneGrant == {g1}
GrantAgents == [g \in OneGrant |-> a1]
=============================================================================
