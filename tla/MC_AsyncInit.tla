---------------------------- MODULE MC_AsyncInit ----------------------------
(***************************************************************************)
(* A list of five entries: both stages interleaved, a disabled entry in    *)
(* between, an asynchronized one last, a deferred one whose parent is      *)
(* asynchronized and a deferred one without a name.                        *)
(***************************************************************************)
EXTENDS AsyncInit, TLC

CONSTANTS p1, p2

MCType == <<"asynchronized", "deferred", "disable", "deferred", "asynchronized">>
MCParents == <<{}, {1}, {}, {}, {}>>
MCNameLen == <<3, 0, 3, 3, 3>>
MCProcs == {p1, p2}
MCSizes == {0, 2}
MCPositiveSizes == {1, 8}
MCMayFail == {"kthread", "proc"}
MCLowestRef == -1

ProcSymmetry == Permutations(MCProcs)

=============================================================================
