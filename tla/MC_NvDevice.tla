------------------------------ MODULE MC_NvDevice -----------------------------
(***************************************************************************)
(* Small instances of NvDevice.                                            *)
(***************************************************************************)
EXTENDS NvDevice, TLC

MCPerms == Permutations(Dev) \cup Permutations(User)
=============================================================================
