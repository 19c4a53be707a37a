-------------------------- MODULE MCDeviceRegistry --------------------------
(* An instance of DeviceRegistry for TLC: two owners, two machines that     *)
(* want to be registered by the same name.                                 *)
EXTENDS DeviceRegistry, TLC

CONSTANTS o1, o2, t1, t2, m1, m2, r1, r2

OwnerOf1 == (t1 :> o1) @@ (t2 :> o2)
SameName == [m \in Machines |-> "n1"]
OwnHosts == SameName
Symmetric == Permutations(Requests) \cup Permutations(Machines)
=============================================================================
