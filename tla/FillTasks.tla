------------------------------ MODULE FillTasks ------------------------------
(***************************************************************************)
(* FillTasks of drivers/async.c: it expands the static table init_info for *)
(* the registered init functions into the counters info_4[] a dependency   *)
(* scheduler starts from.  The table and the list it is called with are    *)
(* arbitrary; an id may be registered more than once (utils/mtest.cpp      *)
(* does), be its own parent, or stand in the group column.                 *)
(***************************************************************************)
EXTENDS Integers, Sequences, FiniteSets

CONSTANTS
    Ids,            \* modules_e: driver ids, group ids, "none" and "grp_none"
    Tables,         \* the tables init_info may be
    Lists           \* the lists begin .. end it may be called with

NfoRow == [type : {"asynchronized", "deferred", "disable"},
           grp_id : Ids, parent1_id : Ids, parent2_id : Ids]

ASSUME IdsAssumption == {"none", "grp_none"} \subseteq Ids
ASSUME TablesAssumption == Tables \subseteq [Ids -> NfoRow]
ASSUME ListsAssumption == Lists \subseteq Seq(Ids)

VARIABLES
    init_info,      \* the table
    list,           \* the registered ids, in link order
    it,             \* the loop: next position in list
    pc,             \* "idle", "loop" or "done"
    ref, status, child_count        \* the fields of info_4[]

info_4 == <<ref, status, child_count>>
vars == <<init_info, list, it, pc, info_4>>

\* Static storage is zero, and st_disable is 0.
Init ==
    /\ init_info \in Tables
    /\ list = <<>>
    /\ it = 1
    /\ pc = "idle"
    /\ ref = [i \in Ids |-> 0]
    /\ status = [i \in Ids |-> "st_disable"]
    /\ child_count = [i \in Ids |-> 0]

\* Mutant: info_4 is taken to be zero already, as on the first call.
BeginUncleared ==
    /\ pc \in {"idle", "done"}
    /\ list' \in Lists
    /\ it' = 1
    /\ pc' = "loop"
    /\ UNCHANGED <<init_info, info_4>>

\* A call, with any list: memset(info_4, 0, ...) and the start of the loop.
Begin ==
    /\ pc \in {"idle", "done"}
    /\ list' \in Lists
    /\ ref' = [i \in Ids |-> 0]
    /\ status' = [i \in Ids |-> "st_disable"]
    /\ child_count' = [i \in Ids |-> 0]
    /\ it' = 1
    /\ pc' = "loop"
    /\ UNCHANGED init_info

\* Mutant: a parent named twice is counted once.
NamedOnce(parent, i) == IF parent = i /\ parent # "none" /\ child_count[i] = 0
                          THEN 1 ELSE 0

\* 1 for the parent a row names, 0 for the others and for "none".
Named(parent, i) == IF parent = i /\ parent # "none" THEN 1 ELSE 0

\* Mutant: a group is counted only when it is first marked as waiting.
CountEntryFirst ==
    LET id  == list[it]
        nfo == init_info[id]
        g   == nfo.grp_id
    IN  /\ pc = "loop"
        /\ it <= Len(list)
        /\ child_count' = [i \in Ids |-> child_count[i] + Named(nfo.parent1_id, i)
                                                        + Named(nfo.parent2_id, i)]
        /\ IF g # "grp_none" /\ status[g] = "st_disable"
             THEN /\ ref' = [ref EXCEPT ![g] = @ + 1]
                  /\ status' = [status EXCEPT ![id] = "st_waiting", ![g] = "st_waiting"]
             ELSE /\ status' = [status EXCEPT ![id] = "st_waiting"]
                  /\ UNCHANGED ref
        /\ it' = it + 1
        /\ UNCHANGED <<init_info, list, pc>>

\* One iteration of the loop.
CountEntry ==
    LET id  == list[it]
        nfo == init_info[id]
        g   == nfo.grp_id
    IN  /\ pc = "loop"
        /\ it <= Len(list)
        /\ child_count' = [i \in Ids |-> child_count[i] + Named(nfo.parent1_id, i)
                                                        + Named(nfo.parent2_id, i)]
        /\ IF g # "grp_none"
             THEN /\ ref' = [ref EXCEPT ![g] = @ + 1]
                  /\ status' = [status EXCEPT ![id] = "st_waiting", ![g] = "st_waiting"]
             ELSE /\ status' = [status EXCEPT ![id] = "st_waiting"]
                  /\ UNCHANGED ref
        /\ it' = it + 1
        /\ UNCHANGED <<init_info, list, pc>>

\* After the loop.
MarkNone ==
    /\ pc = "loop"
    /\ it = Len(list) + 1
    /\ status' = [status EXCEPT !["none"] = "st_done", !["grp_none"] = "st_done"]
    /\ pc' = "done"
    /\ UNCHANGED <<init_info, list, it, ref, child_count>>

Next == Begin \/ CountEntry \/ MarkNone

Spec == Init /\ [][Next]_vars

-----------------------------------------------------------------------------
\* The first n registered entries whose row names i as group or as parent.
InGroup(i, n) == {k \in 1..n : init_info[list[k]].grp_id = i}
FirstParent(i, n) == {k \in 1..n : init_info[list[k]].parent1_id = i}
SecondParent(i, n) == {k \in 1..n : init_info[list[k]].parent2_id = i}

\* Type invariant.
TypeOK ==
    /\ init_info \in [Ids -> NfoRow]
    /\ list \in Seq(Ids)
    /\ it \in 1..(Len(list) + 1)
    /\ pc \in {"idle", "loop", "done"}
    /\ ref \in [Ids -> Nat]
    /\ status \in [Ids -> {"st_disable", "st_waiting", "st_done"}]
    /\ child_count \in [Ids -> Nat]

\* child_count counts, for every id but none, the uses of it as a parent by
\* the entries read so far: twice for a row that names it twice, once more
\* for an entry registered again.  A task that is released when its count is
\* back at zero is released neither early nor never.
ChildCountsExact ==
    \A i \in Ids :
        child_count[i] = IF i = "none" THEN 0
                         ELSE Cardinality(FirstParent(i, it - 1))
                              + Cardinality(SecondParent(i, it - 1))

\* ref counts the entries read so far that bring a group.
GroupCountsExact ==
    \A i \in Ids :
        ref[i] = IF i = "grp_none" THEN 0 ELSE Cardinality(InGroup(i, it - 1))

\* At the end a task waits if and only if it was registered or is a group a
\* registered entry brings; nothing that is not there is waited for, and the
\* two placeholders count as done.
StatusExact ==
    pc = "done" =>
        \A i \in Ids :
            status[i] = IF i \in {"none", "grp_none"} THEN "st_done"
                        ELSE IF \E k \in 1..Len(list) :
                                   i \in {list[k], init_info[list[k]].grp_id}
                        THEN "st_waiting" ELSE "st_disable"

=============================================================================
