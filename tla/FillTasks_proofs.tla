--------------------------- MODULE FillTasks_proofs ---------------------------
(***************************************************************************)
(* FillTasks counts right for every table and every list, of any length;   *)
(* and what the rounds over the driver table show of its dependencies.     *)
(***************************************************************************)
EXTENDS FillTasks, InitTable, FiniteSetTheorems, NaturalsInduction,
        WellFoundedInduction, TLAPS

(***************************************************************************)
(* Counting the positions of a list that satisfy a condition, one position *)
(* at a time.                                                              *)
(***************************************************************************)

\* A set of positions among the first n is finite and has a natural size.
LEMMA PositionsFinite ==
    ASSUME NEW n \in Nat, NEW S, S \subseteq 1..n
    PROVE  IsFiniteSet(S) /\ Cardinality(S) \in Nat
  <1>1. IsFiniteSet(1..n)
    BY FS_Interval
  <1>2. IsFiniteSet(S)
    BY <1>1, FS_Subset
  <1>3. QED
    BY <1>2, FS_CardinalityType

\* Adding the next position to such a set adds one to its size.
LEMMA NextPosition ==
    ASSUME NEW n \in Nat, NEW S, S \subseteq 1..n
    PROVE  Cardinality(S \cup {n + 1}) = Cardinality(S) + 1
  <1>1. IsFiniteSet(S)
    BY PositionsFinite
  <1>2. n + 1 \notin S
    OBVIOUS
  <1>3. QED
    BY <1>1, <1>2, FS_AddElement

\* The three sets of positions after one more entry has been read.
LEMMA CountOneMore ==
    ASSUME NEW i, NEW n \in Nat, NEW m, m = n + 1
    PROVE  /\ Cardinality(FirstParent(i, m)) =
                Cardinality(FirstParent(i, n))
                + (IF init_info[list[m]].parent1_id = i THEN 1 ELSE 0)
           /\ Cardinality(SecondParent(i, m)) =
                Cardinality(SecondParent(i, n))
                + (IF init_info[list[m]].parent2_id = i THEN 1 ELSE 0)
           /\ Cardinality(InGroup(i, m)) =
                Cardinality(InGroup(i, n))
                + (IF init_info[list[m]].grp_id = i THEN 1 ELSE 0)
  <1>1. 1..m = (1..n) \cup {m}
    OBVIOUS
  <1>2. /\ FirstParent(i, n) \subseteq 1..n
        /\ SecondParent(i, n) \subseteq 1..n
        /\ InGroup(i, n) \subseteq 1..n
    BY DEF FirstParent, SecondParent, InGroup
  <1>3. /\ Cardinality(FirstParent(i, n)) \in Nat
        /\ Cardinality(SecondParent(i, n)) \in Nat
        /\ Cardinality(InGroup(i, n)) \in Nat
    BY <1>2, PositionsFinite
  <1>4. FirstParent(i, m) =
          IF init_info[list[m]].parent1_id = i
            THEN FirstParent(i, n) \cup {m} ELSE FirstParent(i, n)
    BY <1>1 DEF FirstParent
  <1>5. SecondParent(i, m) =
          IF init_info[list[m]].parent2_id = i
            THEN SecondParent(i, n) \cup {m} ELSE SecondParent(i, n)
    BY <1>1 DEF SecondParent
  <1>6. InGroup(i, m) =
          IF init_info[list[m]].grp_id = i
            THEN InGroup(i, n) \cup {m} ELSE InGroup(i, n)
    BY <1>1 DEF InGroup
  <1>7. QED
    BY <1>2, <1>3, <1>4, <1>5, <1>6, NextPosition

-----------------------------------------------------------------------------
(***************************************************************************)
(* Types.                                                                  *)
(***************************************************************************)

\* The row of a registered entry, while the loop stands at it.
LEMMA CurrentRow ==
    ASSUME TypeOK, it <= Len(list)
    PROVE  /\ list[it] \in Ids
           /\ init_info[list[it]] \in NfoRow
           /\ init_info[list[it]].grp_id \in Ids
  BY DEF TypeOK, NfoRow

LEMMA TypeStep ==
    ASSUME TypeOK, [Next]_vars
    PROVE  TypeOK'
  <1> USE DEF TypeOK
  <1>1. CASE Begin
    BY <1>1, ListsAssumption DEF Begin
  <1>2. CASE CountEntry
    <2>1. child_count' \in [Ids -> Nat]
      <3> DEFINE a == init_info[list[it]].parent1_id
                 b == init_info[list[it]].parent2_id
      <3>1. child_count' = [i \in Ids |-> child_count[i] + Named(a, i) + Named(b, i)]
        BY <1>2 DEF CountEntry
      <3>2. child_count \in [Ids -> Nat] /\ \A x, i : Named(x, i) \in {0, 1}
        BY DEF Named
      <3> HIDE DEF TypeOK, a, b
      <3>3. QED
        BY <3>1, <3>2
    <2>2. ref' \in [Ids -> Nat]
      <3>1. \/ ref' = ref
            \/ ref' = [ref EXCEPT ![init_info[list[it]].grp_id] = @ + 1]
        BY <1>2 DEF CountEntry
      <3>2. init_info[list[it]].grp_id \in Ids
        BY <1>2, CurrentRow DEF CountEntry
      <3>3. ref \in [Ids -> Nat]
        OBVIOUS
      <3> HIDE DEF TypeOK
      <3>4. QED
        BY <3>1, <3>2, <3>3
    <2>3. status' \in [Ids -> {"st_disable", "st_waiting", "st_done"}]
      BY <1>2, CurrentRow DEF CountEntry
    <2>4. it' \in 1..(Len(list') + 1)
      BY <1>2 DEF CountEntry
    <2>5. QED
      BY <1>2, <2>1, <2>2, <2>3, <2>4 DEF CountEntry
  <1>3. CASE MarkNone
    BY <1>3, IdsAssumption DEF MarkNone
  <1>4. CASE UNCHANGED vars
    BY <1>4 DEF vars, info_4
  <1>5. QED
    BY <1>1, <1>2, <1>3, <1>4 DEF Next

LEMMA TypeBase == Init => TypeOK
  BY TablesAssumption DEF Init, TypeOK

\* The counters stay natural numbers and the loop inside its list.
THEOREM TypeCorrect == Spec => []TypeOK
  BY TypeBase, TypeStep, PTL DEF Spec

-----------------------------------------------------------------------------
(***************************************************************************)
(* Counts.                                                                 *)
(***************************************************************************)

\* Before the first entry is read nothing is counted.
LEMMA NothingCounted ==
    \A i : /\ Cardinality(FirstParent(i, 0)) = 0
           /\ Cardinality(SecondParent(i, 0)) = 0
           /\ Cardinality(InGroup(i, 0)) = 0
  <1>1. \A i : FirstParent(i, 0) = {} /\ SecondParent(i, 0) = {} /\ InGroup(i, 0) = {}
    BY DEF FirstParent, SecondParent, InGroup
  <1>2. QED
    BY <1>1, FS_EmptySet

LEMMA CountsStep ==
    ASSUME TypeOK, ChildCountsExact, GroupCountsExact, [Next]_vars
    PROVE  ChildCountsExact' /\ GroupCountsExact'
  <1> USE DEF TypeOK
  <1>1. CASE Begin
    <2>1. \A i : /\ Cardinality(FirstParent(i, 0))' = 0
                 /\ Cardinality(SecondParent(i, 0))' = 0
                 /\ Cardinality(InGroup(i, 0))' = 0
      <3>1. \A i : /\ FirstParent(i, 0)' = {}
                   /\ SecondParent(i, 0)' = {}
                   /\ InGroup(i, 0)' = {}
        BY DEF FirstParent, SecondParent, InGroup
      <3>2. QED
        BY <3>1, FS_EmptySet
    <2>2. it' - 1 = 0
      BY <1>1 DEF Begin
    <2>3. QED
      BY <1>1, <2>1, <2>2 DEF Begin, ChildCountsExact, GroupCountsExact
  <1>2. CASE CountEntry
    <2>1. it - 1 \in Nat /\ (it - 1) + 1 = it /\ it' - 1 = it
      BY <1>2 DEF CountEntry
    <2>2. ASSUME NEW i \in Ids
          PROVE  /\ Cardinality(FirstParent(i, it - 1))' = Cardinality(FirstParent(i, it))
                 /\ Cardinality(SecondParent(i, it - 1))' = Cardinality(SecondParent(i, it))
                 /\ Cardinality(InGroup(i, it - 1))' = Cardinality(InGroup(i, it))
      <3>1. /\ FirstParent(i, it - 1)' = FirstParent(i, it)
            /\ SecondParent(i, it - 1)' = SecondParent(i, it)
            /\ InGroup(i, it - 1)' = InGroup(i, it)
        BY <1>2, <2>1 DEF CountEntry, FirstParent, SecondParent, InGroup
      <3>2. QED
        BY <3>1
    <2>3. ASSUME NEW i \in Ids
          PROVE  /\ Cardinality(FirstParent(i, it - 1)) \in Nat
                 /\ Cardinality(SecondParent(i, it - 1)) \in Nat
                 /\ Cardinality(InGroup(i, it - 1)) \in Nat
      <3>1. /\ FirstParent(i, it - 1) \subseteq 1..(it - 1)
            /\ SecondParent(i, it - 1) \subseteq 1..(it - 1)
            /\ InGroup(i, it - 1) \subseteq 1..(it - 1)
        BY DEF FirstParent, SecondParent, InGroup
      <3>2. QED
        BY <2>1, <3>1, PositionsFinite
    <2>4. ASSUME NEW i \in Ids
          PROVE  /\ Cardinality(FirstParent(i, it)) =
                       Cardinality(FirstParent(i, it - 1))
                       + (IF init_info[list[it]].parent1_id = i THEN 1 ELSE 0)
                 /\ Cardinality(SecondParent(i, it)) =
                       Cardinality(SecondParent(i, it - 1))
                       + (IF init_info[list[it]].parent2_id = i THEN 1 ELSE 0)
                 /\ Cardinality(InGroup(i, it)) =
                       Cardinality(InGroup(i, it - 1))
                       + (IF init_info[list[it]].grp_id = i THEN 1 ELSE 0)
      BY <2>1, CountOneMore
    <2>5. ASSUME NEW i \in Ids
          PROVE  child_count'[i] = IF i = "none" THEN 0
                                   ELSE Cardinality(FirstParent(i, it))
                                        + Cardinality(SecondParent(i, it))
      <3> DEFINE F == Cardinality(FirstParent(i, it - 1))
                 S == Cardinality(SecondParent(i, it - 1))
                 nfo == init_info[list[it]]
      <3>1. child_count[i] = IF i = "none" THEN 0 ELSE F + S
        BY DEF ChildCountsExact
      <3>2. child_count'[i] = child_count[i] + Named(nfo.parent1_id, i)
                                             + Named(nfo.parent2_id, i)
        BY <1>2 DEF CountEntry
      <3>3. F \in Nat /\ S \in Nat
        BY <2>3
      <3>4. /\ Cardinality(FirstParent(i, it)) =
                 F + (IF nfo.parent1_id = i THEN 1 ELSE 0)
            /\ Cardinality(SecondParent(i, it)) =
                 S + (IF nfo.parent2_id = i THEN 1 ELSE 0)
        BY <2>4
      <3> HIDE DEF F, S, nfo
      <3>5. CASE i = "none"
        BY <3>1, <3>2, <3>5 DEF Named
      <3>6. CASE i # "none"
        BY <3>1, <3>2, <3>3, <3>4, <3>6 DEF Named
      <3>7. QED
        BY <3>5, <3>6
    <2>6. ASSUME NEW i \in Ids
          PROVE  ref'[i] = IF i = "grp_none" THEN 0 ELSE Cardinality(InGroup(i, it))
      <3>1. ref'[i] = IF i = init_info[list[it]].grp_id /\ i # "grp_none"
                        THEN ref[i] + 1 ELSE ref[i]
        BY <1>2, CurrentRow DEF CountEntry
      <3> DEFINE G == Cardinality(InGroup(i, it - 1))
      <3>2. ref[i] = IF i = "grp_none" THEN 0 ELSE G
        BY DEF GroupCountsExact
      <3>3. G \in Nat
        BY <2>3
      <3>4. Cardinality(InGroup(i, it)) =
              G + (IF init_info[list[it]].grp_id = i THEN 1 ELSE 0)
        BY <2>4
      <3> HIDE DEF G
      <3>5. QED
        BY <3>1, <3>2, <3>3, <3>4
    <2>7. QED
      BY <2>2, <2>5, <2>6 DEF ChildCountsExact, GroupCountsExact
  <1>3. CASE UNCHANGED <<init_info, list, it, ref, child_count>>
    <2>1. \A i : /\ FirstParent(i, it - 1)' = FirstParent(i, it - 1)
                 /\ SecondParent(i, it - 1)' = SecondParent(i, it - 1)
                 /\ InGroup(i, it - 1)' = InGroup(i, it - 1)
      BY <1>3 DEF FirstParent, SecondParent, InGroup
    <2>2. QED
      BY <1>3, <2>1 DEF ChildCountsExact, GroupCountsExact
  <1>5. QED
    BY <1>1, <1>2, <1>3 DEF Next, MarkNone, vars, info_4

LEMMA CountsBase == Init => ChildCountsExact /\ GroupCountsExact
  BY NothingCounted DEF Init, ChildCountsExact, GroupCountsExact

\* For every table and every list FillTasks leaves in child_count the number
\* of times the list's rows name each id as a parent.
THEOREM ChildCountsCorrect == Spec => []ChildCountsExact
  <1> DEFINE Inv == TypeOK /\ ChildCountsExact /\ GroupCountsExact
  <1>1. Inv /\ [Next]_vars => Inv'
    BY TypeStep, CountsStep
  <1>2. QED
    BY TypeBase, CountsBase, <1>1, PTL DEF Spec

\* ... and in ref the number of entries that bring each group.
THEOREM GroupCountsCorrect == Spec => []GroupCountsExact
  <1> DEFINE Inv == TypeOK /\ ChildCountsExact /\ GroupCountsExact
  <1>1. Inv /\ [Next]_vars => Inv'
    BY TypeStep, CountsStep
  <1>2. QED
    BY TypeBase, CountsBase, <1>1, PTL DEF Spec

-----------------------------------------------------------------------------
(***************************************************************************)
(* Status.                                                                 *)
(***************************************************************************)

\* i is registered, or a group brought, among the first n entries.
Seen(i, n) == \E k \in 1..n : i \in {list[k], init_info[list[k]].grp_id}

\* While the loop runs, the tasks seen so far wait and the others do not.
StatusLoop ==
    /\ pc = "loop" =>
          \A i \in Ids \ {"none", "grp_none"} :
             status[i] = IF Seen(i, it - 1) THEN "st_waiting" ELSE "st_disable"
    /\ StatusExact

LEMMA StatusStep ==
    ASSUME TypeOK, StatusLoop, [Next]_vars
    PROVE  StatusLoop'
  <1> USE DEF TypeOK
  <1>1. CASE Begin
    BY <1>1 DEF Begin, StatusLoop, StatusExact, Seen
  <1>2. CASE CountEntry
    <2>1. ASSUME NEW i \in Ids
          PROVE  Seen(i, it - 1)' <=>
                   \/ Seen(i, it - 1)
                   \/ i \in {list[it], init_info[list[it]].grp_id}
      <3>1. 1..(it' - 1) = (1..(it - 1)) \cup {it}
        BY <1>2 DEF CountEntry
      <3>2. QED
        BY <1>2, <3>1 DEF CountEntry, Seen
    <2>2. ASSUME NEW i \in Ids \ {"none", "grp_none"}
          PROVE  status'[i] = IF i \in {list[it], init_info[list[it]].grp_id}
                                THEN "st_waiting" ELSE status[i]
      BY <1>2, CurrentRow DEF CountEntry
    <2>3. QED
      BY <1>2, <2>1, <2>2 DEF CountEntry, StatusLoop, StatusExact
  <1>3. CASE MarkNone
    <2>1. it - 1 = Len(list) /\ pc = "loop" /\ UNCHANGED <<list, init_info>>
      BY <1>3 DEF MarkNone
    <2>2. ASSUME NEW i \in Ids \ {"none", "grp_none"}
          PROVE  status'[i] = IF Seen(i, Len(list))
                                THEN "st_waiting" ELSE "st_disable"
      BY <1>3, <2>1 DEF MarkNone, StatusLoop
    <2>3. status'["none"] = "st_done" /\ status'["grp_none"] = "st_done"
      BY <1>3, IdsAssumption DEF MarkNone
    <2>4. StatusExact'
      BY <2>1, <2>2, <2>3 DEF StatusExact, Seen
    <2>5. QED
      BY <1>3, <2>4 DEF MarkNone, StatusLoop
  <1>4. CASE UNCHANGED vars
    BY <1>4 DEF vars, info_4, StatusLoop, StatusExact, Seen
  <1>5. QED
    BY <1>1, <1>2, <1>3, <1>4 DEF Next

\* For every table and list, FillTasks ends with exactly the registered tasks
\* and the groups they bring waiting, and the two placeholders done.
THEOREM StatusCorrect == Spec => []StatusExact
  <1> DEFINE Inv == TypeOK /\ StatusLoop
  <1>1. Init => Inv
    BY TypeBase DEF Init, StatusLoop, StatusExact
  <1>2. Inv /\ [Next]_vars => Inv'
    BY TypeStep, StatusStep
  <1>3. Inv => StatusExact
    BY DEF StatusLoop
  <1>4. QED
    BY <1>1, <1>2, <1>3, PTL DEF Spec

-----------------------------------------------------------------------------
(***************************************************************************)
(* The rounds of StillWaiting.                                             *)
(***************************************************************************)

\* Induction over the naturals, for sets.
LEMMA LeastOf ==
    ASSUME NEW V \in SUBSET Nat, V # {}
    PROVE  \E x \in V : \A y \in V : ~ (y < x)
  <1>1. PICK x \in V : \A y \in V : ~ (<<y, x>> \in OpToRel(<, Nat))
    BY NatLessThanWellFounded, WFMin
  <1>2. QED
    BY <1>1 DEF OpToRel

LEMMA CountUp ==
    ASSUME NEW K, 0 \in K, \A k \in Nat : k \in K => k + 1 \in K
    PROVE  Nat \subseteq K
  <1>1. SUFFICES ASSUME Nat \ K # {} PROVE FALSE
    OBVIOUS
  <1>2. PICK x \in Nat \ K : \A y \in Nat \ K : ~ (y < x)
    BY <1>1, LeastOf
  <1>3. x # 0 /\ x - 1 \in Nat /\ x - 1 \in K
    BY <1>2
  <1>4. QED
    BY <1>3

\* One round: what still waits for one of those left.
Round(left) == {i \in left : Awaits(i) \cap left # {}}

\* The first k rounds.
Rounded(k, g) == g[0] = AllIds /\ \A j \in 1..k : g[j] = Round(g[j - 1])

LEMMA RoundsExist ==
    ASSUME NEW k \in Nat
    PROVE  \E g : Rounded(k, g)
  <1> DEFINE K == {m \in Nat : \E g : Rounded(m, g)}
  <1>1. 0 \in K
    <2>1. Rounded(0, [j \in {0} |-> AllIds])
      BY DEF Rounded
    <2>2. QED
      BY <2>1
  <1>2. ASSUME NEW m \in Nat, m \in K PROVE m + 1 \in K
    <2>1. PICK g : Rounded(m, g)
      BY <1>2
    <2> DEFINE h == [j \in 0..(m + 1) |-> IF j <= m THEN g[j] ELSE Round(g[m])]
    <2>2. h[0] = AllIds
      BY <2>1 DEF Rounded
    <2>3. ASSUME NEW j \in 1..(m + 1) PROVE h[j] = Round(h[j - 1])
      <3>1. h[j - 1] = g[j - 1]
        OBVIOUS
      <3>2. CASE j <= m
        BY <2>1, <3>1, <3>2 DEF Rounded
      <3>3. CASE j = m + 1
        BY <3>1, <3>3
      <3>4. QED
        BY <3>2, <3>3
    <2>4. Rounded(m + 1, h)
      <3> HIDE DEF h
      <3>1. QED
        BY <2>2, <2>3 DEF Rounded
    <2>5. QED
      BY <2>4
  <1>3. Nat \subseteq K
    <2> HIDE DEF K
    <2>1. QED
      BY <1>1, <1>2, CountUp
  <1>4. QED
    BY <1>3

LEMMA RoundsAgree ==
    ASSUME NEW k \in Nat, NEW m \in Nat, NEW g, NEW h, Rounded(k, g), Rounded(m, h),
           NEW j \in Nat, j <= k, j <= m
    PROVE  g[j] = h[j]
  <1> DEFINE K == {i \in Nat : i <= k /\ i <= m => g[i] = h[i]}
  <1>1. 0 \in K
    BY DEF Rounded
  <1>2. ASSUME NEW i \in Nat, i \in K PROVE i + 1 \in K
    <2>1. CASE i + 1 <= k /\ i + 1 <= m
      <3>1. i + 1 \in 1..k /\ i + 1 \in 1..m /\ (i + 1) - 1 = i /\ g[i] = h[i]
        BY <1>2, <2>1
      <3>2. g[i + 1] = Round(g[i]) /\ h[i + 1] = Round(h[i])
        BY <3>1 DEF Rounded
      <3>3. QED
        BY <3>1, <3>2
    <2>2. QED
      BY <2>1
  <1>3. Nat \subseteq K
    <2> HIDE DEF K
    <2>1. QED
      BY <1>1, <1>2, CountUp
  <1>4. QED
    BY <1>3

\* The recursion of StillWaiting is well defined: it is round after round.
LEMMA StillWaitingRounds ==
    /\ StillWaiting[0] = AllIds
    /\ \A n \in Nat : StillWaiting[n + 1] = Round(StillWaiting[n])
  <1> DEFINE G(k) == CHOOSE g : Rounded(k, g)
             Step(f) == [n \in Nat |-> IF n = 0 THEN AllIds ELSE Round(f[n - 1])]
             F == [n \in Nat |-> G(n)[n]]
  <1>1. \A k \in Nat : Rounded(k, G(k))
    BY RoundsExist
  <1>2. ASSUME NEW n \in Nat PROVE F[n] = Step(F)[n]
    <2>1. CASE n = 0
      BY <1>1, <2>1 DEF Rounded
    <2>2. CASE n # 0
      <3>1. n - 1 \in Nat /\ n \in 1..n
        BY <2>2
      <3>2. G(n)[n] = Round(G(n)[n - 1])
        BY <1>1, <3>1 DEF Rounded
      <3>3. G(n)[n - 1] = G(n - 1)[n - 1]
        <4> HIDE DEF G
        <4>1. QED
          BY <1>1, <3>1, RoundsAgree
      <3>4. QED
        BY <2>2, <3>1, <3>2, <3>3
    <2>3. QED
      BY <2>1, <2>2
  <1>3. F = Step(F)
    <2>1. F = [n \in Nat |-> Step(F)[n]]
      BY <1>2
    <2>2. QED
      BY <2>1
  <1>4. StillWaiting = CHOOSE f : f = Step(f)
    BY DEF StillWaiting, Round
  <1>5. StillWaiting = Step(StillWaiting)
    <2> HIDE DEF F, Step
    <2>1. QED
      BY <1>3, <1>4
  <1>6. QED
    BY <1>5

\* What the run driver_table computes is what it is meant to show.  Once the
\* rounds leave no driver of the table waiting, there are no drivers, be they
\* few or many, in which each waits for another of them, directly or through
\* a group, whichever of them a kernel is built with.
THEOREM NoDriversInACircle ==
    ASSUME NEW n \in Nat, StillWaiting[n] = {}
    PROVE  \A S \in SUBSET AllIds : S # {} => \E i \in S : Awaits(i) \cap S = {}
  <1>1. SUFFICES ASSUME NEW S \in SUBSET AllIds, S # {},
                        \A i \in S : Awaits(i) \cap S # {}
                 PROVE  FALSE
    OBVIOUS
  <1> DEFINE K == {k \in Nat : S \subseteq StillWaiting[k]}
  <1>2. 0 \in K
    BY <1>1, StillWaitingRounds
  <1>3. ASSUME NEW k \in Nat, k \in K PROVE k + 1 \in K
    <2>1. \A i \in S : i \in Round(StillWaiting[k])
      BY <1>1, <1>3 DEF Round
    <2>2. QED
      BY <2>1, StillWaitingRounds
  <1>4. Nat \subseteq K
    <2> HIDE DEF K
    <2>1. QED
      BY <1>2, <1>3, CountUp
  <1>5. QED
    BY <1>1, <1>4

=============================================================================
