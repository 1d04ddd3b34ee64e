---------------------------- MODULE MC_FillTasks ----------------------------
(***************************************************************************)
(* Every table over two drivers and a group, and every list of at most     *)
(* MaxLen registrations.                                                   *)
(***************************************************************************)
EXTENDS FillTasks

CONSTANT MaxLen

Plain == [type |-> "disable", grp_id |-> "grp_none",
          parent1_id |-> "none", parent2_id |-> "none"]

DriverRows == [type : {"deferred"},
               grp_id : {"grp_none", "grp_x", "a"},
               parent1_id : {"none", "grp_x", "a", "b"},
               parent2_id : {"none", "grp_x", "a", "b"}]

MCIds == {"none", "grp_none", "grp_x", "a", "b"}
MCTables == {[i \in MCIds |-> IF i = "a" THEN ra ELSE IF i = "b" THEN rb ELSE Plain] :
                ra \in DriverRows, rb \in DriverRows}
MCLists == UNION {[1..n -> {"a", "b"}] : n \in 0..MaxLen}

=============================================================================
