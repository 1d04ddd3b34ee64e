--------------------------- MODULE MC_BuildDepends ---------------------------
(***************************************************************************)
(* Lines that state at most MaxDeps dependencies.                          *)
(***************************************************************************)
EXTENDS BuildDepends, TLC

CONSTANT MaxDeps

MCLines == [module : Names, deps : UNION {[1..n -> Names] : n \in 0..MaxDeps}]
MCLostLines == [module : Names, deps : [1..1 -> Names]]
MCPerms == Permutations(Plain) \cup Permutations(Names \ Plain)

=============================================================================
