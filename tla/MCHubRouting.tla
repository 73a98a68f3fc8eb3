---------------------------- MODULE MCHubRouting ----------------------------
(* Small instances of HubRouting.                                          *)
EXTENDS HubRouting, TLC

CONSTANTS c1, c2, d1, d2, u1

\* u1 has two connections, on two devices.
MCClientUser   == (c1 :> u1) @@ (c2 :> u1)
MCClientDevice == (c1 :> d1) @@ (c2 :> d2)
MCDeviceUser   == (d1 :> u1) @@ (d2 :> u1)

\* The permission to read withdrawn.
MCChange == {[canRead |-> {FALSE}, canWrite |-> {}, isGroupAdmin |-> {}]}

MCPolicy == DefaultPermissionPolicy

RequestSymmetry == Permutations(Request)
=============================================================================
