---------------------------- MODULE MC_InitTable ----------------------------
(***************************************************************************)
(* FillTasks on the table the kernel is built with, for a kernel in which  *)
(* every driver of the table is registered, in the order of the enum.      *)
(***************************************************************************)
EXTENDS FillTasks, InitTable

CONSTANT Rounds     \* bound on the length of a chain of dependencies

IsDriver(id) == id \notin GroupIds
AllDrivers == SelectSeq(MOD_IDS, IsDriver)

MCIds == AllIds
MCTables == {InitInfo}
MCLists == {AllDrivers}

-----------------------------------------------------------------------------
\* No driver of the asynchronized stage waits, directly or through a group,
\* for one of the deferred stage: the thread do_asynchronized runs without
\* regard to the reads that drive the deferred stage, which may never come.
AsyncNeedsNoDeferred ==
    pc = "done" =>
        \A i \in AllIds : InitInfo[i].type = "asynchronized" =>
            \A m \in Awaits(i) : InitInfo[m].type = "asynchronized"

\* The dependencies of the table, groups expanded to their members, have no
\* cycle: starting whatever waits for nothing left, round after round, ends
\* with every driver started.
NoCircularWait == pc = "done" => StillWaiting[Rounds] = {}

\* drivers/async.c:9: "always the module that bring a specific group will
\* start execution before other depending on this", so a group somebody
\* depends on is brought by somebody.
AwaitedGroupIsBrought ==
    pc = "done" =>
        \A n \in 1..Len(list) :
            \A g \in {init_info[list[n]].parent1_id, init_info[list[n]].parent2_id} :
                g \in GroupIds => ref[g] > 0

\* drivers/async.c:8: "a group id is another id than is done when running
\* counter reach 0", so only group ids are counted as groups.
OnlyGroupsAreCounted == \A i \in Ids : ref[i] > 0 => i \in GroupIds

=============================================================================
