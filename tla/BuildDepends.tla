----------------------------- MODULE BuildDepends -----------------------------
(***************************************************************************)
(* utils/build-depends.cpp: it reads the output of depmod and writes two   *)
(* graphs for dot.  The first (cluster_0) has an edge per dependency read; *)
(* in the second (cluster_1) a dependency of a module is left out when     *)
(* another one of its dependencies reaches it, and so is one on a module   *)
(* that is only a symbol provider or a subsystem.                          *)
(*                                                                         *)
(* The input is any sequence of at most MaxLines lines.  A line is its     *)
(* module and the modules it names after it, in order and possibly         *)
(* repeated; how names are cut out of the paths is left out.               *)
(***************************************************************************)
EXTENDS Integers, Sequences, FiniteSets, FiniteSetsExt

CONSTANTS
    Names,          \* file names of modules
    Plain,          \* those that are in neither of the tables symbols, subsys
    Lines,          \* the lines a file may have that getline reads
    LostLines,      \* those it does not: 1000 bytes or more, or no newline
    MaxLines,       \* bound on the lines of a file
    Null            \* nullptr

Line == [module : Names, deps : Seq(Names)]

ASSUME NamesAssumption == IsFiniteSet(Names) /\ Plain \subseteq Names /\ Null \notin Names
ASSUME LinesAssumption == Lines \subseteq Line /\ LostLines \subseteq Line
ASSUME MaxLinesAssumption == MaxLines \in Nat

VARIABLES
    pc,             \* "read", "pick", "check", "print", "done" or "overflow"
    lines,          \* lines of the file so far
    lost,           \* the dependencies stated by the line getline dropped
    depends,        \* the map: the dependency vector of each module
    todo,           \* keys of the map the second loop has still to visit
    cur, copy, it1, \* the loop variable mod_it (a copy) and the position in it
    kept,           \* dependencies the reduction leaves
    drawn           \* edges printed in cluster_1

input == <<lines, lost, depends>>
output == <<todo, kept, drawn>>
vars == <<pc, input, output, cur, copy, it1>>

Elements(s) == {s[i] : i \in DOMAIN s}
EdgesOf(line) == {line.module} \X Elements(line.deps)

getType(name) == IF name \in Plain THEN "module" ELSE "other"

Init ==
    /\ pc = "read"
    /\ lines = 0
    /\ lost = {}
    /\ depends = [n \in Names |-> <<>>]
    /\ todo = {}
    /\ cur = Null
    /\ copy = <<>>
    /\ it1 = 1
    /\ kept = {}
    /\ drawn = {}

-----------------------------------------------------------------------------
\* A line is read; its edges are printed in cluster_0.  One with a single key
\* leaves the map alone.
ReadLine(line) ==
    /\ pc = "read"
    /\ lines < MaxLines
    /\ lines' = lines + 1
    /\ depends' = [depends EXCEPT ![line.module] = @ \o line.deps]
    /\ UNCHANGED <<pc, lost, output, cur, copy, it1>>

\* The keys of the map.  DependsOn adds keys with an empty vector while the
\* loop runs; they are visited or not, and print nothing.
Keys == {n \in Names : depends[n] # <<>>}

\* getline ends the loop on a line that does not fit into cline (failbit) or
\* that has no newline at the end of the file (eofbit), and drops the line.
ReadDropped(line) ==
    /\ pc = "read"
    /\ lines < MaxLines
    /\ lines' = lines + 1
    /\ lost' = EdgesOf(line)
    /\ pc' = "pick"
    /\ todo' = Keys
    /\ UNCHANGED <<depends, kept, drawn, cur, copy, it1>>

\* The end of the file, after a newline.
ReadEof ==
    /\ pc = "read"
    /\ pc' = "pick"
    /\ todo' = Keys
    /\ UNCHANGED <<input, kept, drawn, cur, copy, it1>>

-----------------------------------------------------------------------------
\* Mutant: only direct dependencies of name are looked at.
DependsOnDirect(name, depends_on) ==
    IF depends_on \in Elements(depends[name]) THEN "yes" ELSE "no"

\* Mutant: the recursion is on name instead of on its dependency.
DependsOnLoops(name, depends_on) ==
    IF depends[name] = <<>> THEN "no"
    ELSE IF depends[name][1] = depends_on THEN "yes" ELSE "overflow"

\* The depth-first search, without a record of the modules it has been to.
\* The first dependency that is depends_on, or whose own search does not end
\* in "no", decides.  A call nested deeper than there are modules has the
\* arguments of one that is still pending, so it recurses for ever.
DependsOn(name, depends_on) ==
    LET call[k \in 0..Cardinality(Names)] == [n \in Names |->
            LET v      == depends[n]
                result == [i \in DOMAIN v |-> IF v[i] = depends_on THEN "yes"
                                              ELSE call[k - 1][v[i]]]
                hits   == {i \in DOMAIN v : result[i] # "no"}
            IN  IF k = 0 THEN "overflow"
                ELSE IF hits = {} THEN "no" ELSE result[Min(hits)]]
    IN  call[Cardinality(Names)][name]

\* The loop starts on a key, in the order of the addresses: any order.  A
\* vector of one element is not checked.
Pick(m) ==
    /\ pc = "pick"
    /\ m \in todo
    /\ cur' = m
    /\ copy' = depends[m]
    /\ it1' = 1
    /\ pc' = IF Len(depends[m]) > 1 THEN "check" ELSE "print"
    /\ UNCHANGED <<input, output>>

\* Mutant: a removed dependency still speaks for others.
FoundThroughAny(j) ==
    IF depends[cur][j] = copy[it1] THEN "no" ELSE DependsOn(depends[cur][j], copy[it1])

\* Mutant: the arguments of the search are swapped.
FoundThroughSwapped(j) ==
    IF copy[j] = Null \/ copy[j] = copy[it1] THEN "no"
    ELSE DependsOn(copy[it1], copy[j])

\* Whether the dependency at it1 is found through the one at j.  One that
\* was removed is nullptr and depends on nothing.
FoundThrough(j) ==
    IF copy[j] = Null \/ copy[j] = copy[it1] THEN "no"
    ELSE DependsOn(copy[j], copy[it1])

\* One step of the loop over it1: the loop over it2 ends at its first hit.
Verdict ==
    LET found == [j \in DOMAIN copy |-> FoundThrough(j)]
        hits  == {j \in DOMAIN copy : found[j] # "no"}
    IN  IF hits = {} THEN "no" ELSE found[Min(hits)]

Check ==
    /\ pc = "check"
    /\ it1 <= Len(copy)
    /\ \/ /\ Verdict = "yes"
          /\ copy' = [copy EXCEPT ![it1] = Null]
       \/ /\ Verdict = "no"
          /\ UNCHANGED copy
    /\ it1' = it1 + 1
    /\ UNCHANGED <<pc, input, output, cur>>

\* The stack is exhausted.
CheckOverflow ==
    /\ pc = "check"
    /\ it1 <= Len(copy)
    /\ Verdict = "overflow"
    /\ pc' = "overflow"
    /\ UNCHANGED <<input, output, cur, copy, it1>>

CheckEnd ==
    /\ pc = "check"
    /\ it1 > Len(copy)
    /\ pc' = "print"
    /\ UNCHANGED <<input, output, cur, copy, it1>>

\* What std::remove leaves.
Left == Elements(copy) \ {Null}

PrintOut ==
    /\ pc = "print"
    /\ kept' = kept \cup ({cur} \X Left)
    /\ drawn' = drawn \cup {e \in {cur} \X Left : getType(e[2]) = "module"}
    /\ todo' = todo \ {cur}
    /\ pc' = "pick"
    /\ UNCHANGED <<input, cur, copy, it1>>

Finish ==
    /\ pc = "pick"
    /\ todo = {}
    /\ pc' = "done"
    /\ UNCHANGED <<input, output, cur, copy, it1>>

Next ==
    \/ \E line \in Lines : ReadLine(line)
    \/ \E line \in LostLines : ReadDropped(line)
    \/ ReadEof
    \/ \E m \in Names : Pick(m)
    \/ Check \/ CheckOverflow \/ CheckEnd
    \/ PrintOut \/ Finish

Spec == Init /\ [][Next]_vars

-----------------------------------------------------------------------------
\* The modules reached from m: the least set that has m and is closed under
\* the edges.
Closed(edges, S) == \A e \in edges : e[1] \in S => e[2] \in S
Reach(edges, m) == {n \in Names : \A S \in SUBSET Names :
                                     m \in S /\ Closed(edges, S) => n \in S}
Cyclic(edges) == \E e \in edges : e[1] \in Reach(edges, e[2])

\* The dependencies in the map, which are the edges printed in cluster_0.
Edges == {e \in Names \X Names : e[2] \in Elements(depends[e[1]])}

\* Type invariant.
TypeOK ==
    /\ pc \in {"read", "pick", "check", "print", "done", "overflow"}
    /\ lines \in 0..MaxLines
    /\ lost \subseteq Names \X Names
    /\ depends \in [Names -> Seq(Names)]
    /\ todo \subseteq Names
    /\ cur \in Names \cup {Null}
    /\ copy \in Seq(Names \cup {Null})
    /\ it1 \in 1..(Len(copy) + 1)
    /\ kept \subseteq Names \X Names
    /\ drawn \subseteq kept

\* When no module depends on itself, the reduction loses no dependency: a
\* module still reaches every module it reached, over what is left.  The
\* search is over the unreduced map whatever was reduced before, and the
\* modules are visited in any order.
SameReach ==
    pc = "done" /\ ~Cyclic(Edges) =>
        \A m \in Names : Reach(kept, m) = Reach(Edges, m)

\* And it leaves none that another path makes redundant.
NoRedundantEdge ==
    pc = "done" /\ ~Cyclic(Edges) =>
        \A e \in kept : e[2] \notin Reach(kept \ {e}, e[1])

\* DependsOn ends on every file without a cycle.
OverflowMeansCycle == pc = "overflow" => Cyclic(Edges)

\* Cycle or not, the dependencies of a module are never all removed as found
\* through each other: of those that are visited, one is left.
OneIsLeft ==
    /\ pc \in {"check", "print"} => Left # {}
    /\ pc \in {"pick", "check", "print", "done", "overflow"} =>
          \A n \in Names \ todo : depends[n] # <<>> => \E d \in Names : <<n, d>> \in kept

\* Line 4 of the source: "Build dependence tree for dot base on module.dep".
\* Every dependency the file states is in the first graph.
FileIsDrawn == pc = "done" => lost \subseteq Edges

\* Line 250: a direct dependency is left out when it is "found also in
\* another path".  A plain module that a module states as a dependency is
\* reached from it in the second graph.
LeftOutIsFound ==
    pc = "done" /\ ~Cyclic(Edges) =>
        \A e \in Edges : getType(e[2]) = "module" => e[2] \in Reach(drawn, e[1])

=============================================================================
