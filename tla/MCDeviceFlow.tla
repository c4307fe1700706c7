----------------------------- MODULE MCDeviceFlow -----------------------------
(* Small instances of DeviceFlow.  Symmetry is used for safety only.       *)
EXTENDS DeviceFlow, TLC

Symmetry == Permutations(Code) \cup Permutations(User) \cup Permutations(Worker)
===============================================================================
