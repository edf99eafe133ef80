---------------------------- MODULE MCDeviceSession ----------------------------
(* Small instances of DeviceSession for TLC. *)
EXTENDS DeviceSession, TLC

DeviceSymmetry == Permutations(Sessions) \union Permutations(Devices)
=============================================================================
