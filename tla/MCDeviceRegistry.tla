--------------------------- MODULE MCDeviceRegistry ---------------------------
(* Instances of DeviceRegistry for TLC: hosts are interchangeable.           *)
EXTENDS DeviceRegistry, TLC

Symmetry == Permutations(Hosts)
=============================================================================
