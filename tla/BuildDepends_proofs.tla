------------------------- MODULE BuildDepends_proofs -------------------------
(***************************************************************************)
(* Proofs about BuildDepends, for every set of modules and every file.     *)
(* First what holds on cyclic files too.  Then reachability, the search    *)
(* (its recursion is over levels, and the inductions are over sets of      *)
(* naturals, see SetInduction), and the reduction it leads to.             *)
(***************************************************************************)
EXTENDS BuildDepends, FiniteSetTheorems, NaturalsInduction, WellFoundedInduction,
        TLAPS

\* What the loop of the reduction knows of the module it is at.
AtModule ==
    /\ pc \in {"check", "print"} => cur \in Names
    /\ pc # "read" => todo \subseteq Keys

IInv == TypeOK /\ AtModule /\ OneIsLeft

\* A dependency is removed only for the sake of another one that is there.
LEMMA VerdictYes ==
    ASSUME Verdict = "yes"
    PROVE  \E j \in DOMAIN copy : copy[j] # Null /\ copy[j] # copy[it1]
<1> DEFINE found == [j \in DOMAIN copy |-> FoundThrough(j)]
           hits == {j \in DOMAIN copy : found[j] # "no"}
<1>1. hits # {}
  BY DEF Verdict
<1>2. PICK j \in DOMAIN copy : FoundThrough(j) # "no"
  BY <1>1
<1>3. QED
  BY <1>2 DEF FoundThrough

\* The type invariant, step by step.
LEMMA TypeStep ==
    ASSUME TypeOK, AtModule, [Next]_vars
    PROVE  TypeOK'
<1> USE NamesAssumption, LinesAssumption, MaxLinesAssumption
<1>1. ASSUME NEW line \in Lines, ReadLine(line) PROVE TypeOK'
  <2>1. line \in Line
    OBVIOUS
  <2>2. line.module \in Names /\ line.deps \in Seq(Names)
    BY <2>1 DEF Line
  <2>3. depends[line.module] \o line.deps \in Seq(Names)
    BY <2>2 DEF TypeOK
  <2>4. depends' \in [Names -> Seq(Names)]
    BY <1>1, <2>2, <2>3 DEF ReadLine, TypeOK
  <2>5. lines' \in 0..MaxLines
    BY <1>1 DEF ReadLine, TypeOK
  <2>6. QED
    BY <1>1, <2>4, <2>5 DEF ReadLine, TypeOK, output
<1>2. ASSUME NEW line \in LostLines, ReadDropped(line) PROVE TypeOK'
  <2>1. line \in Line
    OBVIOUS
  <2>2. line.module \in Names /\ line.deps \in Seq(Names)
    BY <2>1 DEF Line
  <2>3. Elements(line.deps) \subseteq Names
    BY <2>2 DEF Elements
  <2>4. lost' \subseteq Names \X Names
    BY <1>2, <2>2, <2>3 DEF ReadDropped, EdgesOf
  <2>5. lines' \in 0..MaxLines
    BY <1>2 DEF ReadDropped, TypeOK
  <2>6. QED
    BY <1>2, <2>4, <2>5 DEF ReadDropped, TypeOK, Keys
<1>3. CASE ReadEof
  BY <1>3 DEF ReadEof, TypeOK, input, Keys
<1>4. ASSUME NEW m \in Names, Pick(m) PROVE TypeOK'
  <2>1. depends[m] \in Seq(Names)
    BY DEF TypeOK
  <2>2. copy' \in Seq(Names \cup {Null}) /\ it1' \in 1..(Len(copy') + 1)
    BY <1>4, <2>1 DEF Pick
  <2>3. pc' \in {"check", "print"}
    BY <1>4 DEF Pick
  <2>4. QED
    BY <1>4, <2>2, <2>3 DEF Pick, TypeOK, input, output
<1>5. CASE Check
  <2>1. it1 \in 1..Len(copy)
    BY <1>5 DEF Check, TypeOK
  <2>2. copy' \in Seq(Names \cup {Null}) /\ Len(copy') = Len(copy)
    BY <1>5, <2>1 DEF Check, TypeOK
  <2>3. it1' \in 1..(Len(copy') + 1)
    BY <1>5, <2>1, <2>2 DEF Check, TypeOK
  <2>4. QED
    BY <1>5, <2>2, <2>3 DEF Check, TypeOK, input, output
<1>6. CASE CheckOverflow
  BY <1>6 DEF CheckOverflow, TypeOK, input, output
<1>7. CASE CheckEnd
  BY <1>7 DEF CheckEnd, TypeOK, input, output
<1>8. CASE PrintOut
  <2>1. Left \subseteq Names /\ cur \in Names
    BY <1>8 DEF PrintOut, Left, Elements, TypeOK, AtModule
  <2>2. kept' \subseteq Names \X Names
    BY <1>8, <2>1 DEF PrintOut, TypeOK
  <2>3. drawn' \subseteq kept'
    BY <1>8 DEF PrintOut, TypeOK
  <2>4. QED
    BY <1>8, <2>2, <2>3 DEF PrintOut, TypeOK, input
<1>9. CASE Finish
  BY <1>9 DEF Finish, TypeOK, input, output
<1>10. CASE UNCHANGED vars
  BY <1>10 DEF vars, TypeOK, input, output
<1>11. QED
  BY <1>1, <1>2, <1>3, <1>4, <1>5, <1>6, <1>7, <1>8, <1>9, <1>10 DEF Next

LEMMA AtModuleStep ==
    ASSUME TypeOK, AtModule, [Next]_vars
    PROVE  AtModule'
<1>1. ASSUME NEW line \in Lines, ReadLine(line) PROVE AtModule'
  BY <1>1 DEF ReadLine, AtModule, output
<1>2. ASSUME NEW line \in LostLines, ReadDropped(line) PROVE AtModule'
  BY <1>2 DEF ReadDropped, AtModule, Keys
<1>3. CASE ReadEof
  BY <1>3 DEF ReadEof, AtModule, Keys, input
<1>4. ASSUME NEW m \in Names, Pick(m) PROVE AtModule'
  BY <1>4 DEF Pick, AtModule, Keys, input, output
<1>5. CASE Check \/ CheckOverflow \/ CheckEnd \/ Finish \/ UNCHANGED vars
  BY <1>5 DEF Check, CheckOverflow, CheckEnd, Finish, vars, AtModule, Keys, input, output
<1>6. CASE PrintOut
  BY <1>6 DEF PrintOut, AtModule, Keys, input
<1>7. QED
  BY <1>1, <1>2, <1>3, <1>4, <1>5, <1>6 DEF Next

\* The removals of a module never use each other up.
LEMMA LeftStep ==
    ASSUME IInv, [Next]_vars
    PROVE  OneIsLeft'
<1> USE NamesAssumption DEF IInv
<1>1. ASSUME NEW line \in Lines, ReadLine(line) PROVE OneIsLeft'
  BY <1>1 DEF ReadLine, OneIsLeft
<1>2. ASSUME NEW line \in LostLines, ReadDropped(line) PROVE OneIsLeft'
  BY <1>2 DEF ReadDropped, OneIsLeft, Keys
<1>3. CASE ReadEof
  BY <1>3 DEF ReadEof, OneIsLeft, Keys, input
<1>4. ASSUME NEW m \in Names, Pick(m) PROVE OneIsLeft'
  <2>1. depends[m] \in Seq(Names) /\ depends[m] # <<>>
    BY <1>4 DEF Pick, TypeOK, AtModule, Keys
  <2>2. depends[m][1] \in Left'
    BY <1>4, <2>1 DEF Pick, Left, Elements
  <2>3. QED
    BY <1>4, <2>2 DEF Pick, OneIsLeft, input, output
<1>5. CASE Check
  <2>1. copy \in Seq(Names \cup {Null}) /\ it1 \in 1..Len(copy) /\ Left # {}
    BY <1>5 DEF Check, TypeOK, OneIsLeft
  <2>2. Left' # {}
    <3>1. CASE Verdict = "yes"
      <4>1. PICK j \in DOMAIN copy : copy[j] # Null /\ copy[j] # copy[it1]
        BY <3>1, VerdictYes
      <4>2. copy' = [copy EXCEPT ![it1] = Null]
        BY <1>5, <3>1 DEF Check
      <4>3. j \in DOMAIN copy' /\ copy'[j] = copy[j]
        BY <2>1, <4>1, <4>2
      <4>4. QED
        BY <4>1, <4>3 DEF Left, Elements
    <3>2. CASE Verdict # "yes"
      BY <1>5, <2>1, <3>2 DEF Check, Left
    <3>3. QED
      BY <3>1, <3>2
  <2>3. QED
    BY <1>5, <2>2 DEF Check, OneIsLeft, input, output
<1>6. CASE CheckOverflow \/ CheckEnd \/ Finish \/ UNCHANGED vars
  BY <1>6 DEF CheckOverflow, CheckEnd, Finish, vars, OneIsLeft, Left, input, output
<1>7. CASE PrintOut
  <2>1. PICK d \in Left : TRUE
    BY <1>7 DEF PrintOut, OneIsLeft
  <2>2. d \in Names
    BY <2>1 DEF Left, Elements, TypeOK
  <2>3. <<cur, d>> \in kept'
    BY <1>7, <2>1 DEF PrintOut
  <2>4. ASSUME NEW n \in Names \ todo', depends'[n] # <<>>
        PROVE  \E x \in Names : <<n, x>> \in kept'
    <3>1. CASE n = cur
      BY <2>2, <2>3, <3>1
    <3>2. CASE n # cur
      BY <1>7, <2>4, <3>2 DEF PrintOut, OneIsLeft, input
    <3>3. QED
      BY <3>1, <3>2
  <2>5. pc' = "pick"
    BY <1>7 DEF PrintOut
  <2>6. QED
    BY <2>4, <2>5 DEF OneIsLeft
<1>8. QED
  BY <1>1, <1>2, <1>3, <1>4, <1>5, <1>6, <1>7 DEF Next

\* The inductive invariant: the type invariant, what the loop knows of its
\* module, and that a dependency is left.
THEOREM Invariance == Spec => []IInv
<1>1. Init => IInv
  BY NamesAssumption, MaxLinesAssumption DEF Init, IInv, TypeOK, AtModule, OneIsLeft
<1>2. IInv /\ [Next]_vars => IInv'
  BY TypeStep, AtModuleStep, LeftStep DEF IInv
<1>3. QED
  BY <1>1, <1>2, PTL DEF Spec

\* Types, for every file: in particular no nullptr is ever printed.
THEOREM TypeCorrect == Spec => []TypeOK
BY Invariance, PTL DEF IInv

\* The reduction never removes all dependencies of a module, even when they
\* depend on each other.
THEOREM OneIsLeftCorrect == Spec => []OneIsLeft
BY Invariance, PTL DEF IInv

-----------------------------------------------------------------------------
(***************************************************************************)
(* Reachability, for any edges between modules.                            *)
(***************************************************************************)

\* Reach has its start, is closed and is the least such set.
LEMMA ReachClosed ==
    ASSUME NEW E \in SUBSET (Names \X Names), NEW m \in Names
    PROVE  Reach(E, m) \subseteq Names /\ m \in Reach(E, m) /\ Closed(E, Reach(E, m))
<1>1. Reach(E, m) \subseteq Names /\ m \in Reach(E, m)
  BY DEF Reach
<1>2. ASSUME NEW e \in E, e[1] \in Reach(E, m)
      PROVE  e[2] \in Reach(E, m)
  <2>1. e[2] \in Names
    OBVIOUS
  <2>2. ASSUME NEW S \in SUBSET Names, m \in S, Closed(E, S) PROVE e[2] \in S
    BY <1>2, <2>2 DEF Reach, Closed
  <2>3. QED
    BY <2>1, <2>2 DEF Reach
<1>3. QED
  BY <1>1, <1>2 DEF Closed

LEMMA ReachLeast ==
    ASSUME NEW E, NEW m, NEW S \in SUBSET Names, m \in S, Closed(E, S)
    PROVE  Reach(E, m) \subseteq S
BY DEF Reach

LEMMA ReachOn ==
    ASSUME NEW E \in SUBSET (Names \X Names), NEW m \in Names, NEW c \in Reach(E, m)
    PROVE  Reach(E, c) \subseteq Reach(E, m)
BY ReachClosed, ReachLeast

LEMMA ReachFirst ==
    ASSUME NEW E \in SUBSET (Names \X Names), NEW a \in Names, NEW b \in Names, <<a, b>> \in E
    PROVE  b \in Reach(E, a) /\ Reach(E, b) \subseteq Reach(E, a)
<1>1. b \in Reach(E, a)
  BY ReachClosed DEF Closed
<1>2. QED
  BY <1>1, ReachOn

\* A path is empty or has a first edge.
LEMMA ReachSplit ==
    ASSUME NEW E \in SUBSET (Names \X Names), NEW m \in Names, NEW n \in Reach(E, m), n # m
    PROVE  \E c \in Names : <<m, c>> \in E /\ n \in Reach(E, c)
<1> DEFINE S == {m} \cup {x \in Names : \E c \in Names : <<m, c>> \in E /\ x \in Reach(E, c)}
<1>1. S \in SUBSET Names /\ m \in S
  OBVIOUS
<1>2. ASSUME NEW e \in E, e[1] \in S PROVE e[2] \in S
  <2>1. e[1] \in Names /\ e[2] \in Names /\ e = <<e[1], e[2]>>
    OBVIOUS
  <2>2. CASE e[1] = m
    <3>1. e[2] \in Reach(E, e[2])
      BY <2>1, ReachClosed
    <3>2. QED
      BY <2>1, <2>2, <3>1
  <2>3. CASE e[1] # m
    <3>1. PICK c \in Names : <<m, c>> \in E /\ e[1] \in Reach(E, c)
      BY <1>2, <2>3
    <3>2. e[2] \in Reach(E, c)
      BY <3>1, ReachClosed DEF Closed
    <3>3. QED
      BY <2>1, <3>1, <3>2
  <2>4. QED
    BY <2>2, <2>3
<1>3. Closed(E, S)
  BY <1>2 DEF Closed
<1>4. n \in S
  BY <1>1, <1>3, ReachLeast
<1>5. QED
  BY <1>4

LEMMA ReachMore ==
    ASSUME NEW E, NEW F, NEW m, E \subseteq F
    PROVE  Reach(E, m) \subseteq Reach(F, m)
BY DEF Reach, Closed

\* Without a cycle, what is reached gets less along a path.
LEMMA ReachShrinks ==
    ASSUME NEW E \in SUBSET (Names \X Names), ~Cyclic(E),
           NEW m \in Names, NEW c \in Reach(E, m), c # m
    PROVE  /\ m \notin Reach(E, c)
           /\ Cardinality(Reach(E, c)) < Cardinality(Reach(E, m))
<1>1. PICK b \in Names : <<m, b>> \in E /\ c \in Reach(E, b)
  BY ReachSplit
<1>2. m \notin Reach(E, b)
  BY <1>1 DEF Cyclic
<1>3. c \in Names
  BY ReachClosed
<1>4. m \notin Reach(E, c)
  BY <1>1, <1>2, ReachOn
<1>5. Reach(E, c) \subseteq Reach(E, m) /\ Reach(E, m) \subseteq Names /\ m \in Reach(E, m)
  BY ReachOn, ReachClosed
<1>6. IsFiniteSet(Reach(E, m))
  BY <1>5, NamesAssumption, FS_Subset
<1>7. QED
  BY <1>4, <1>5, <1>6, FS_Subset, FS_CardinalityType

LEMMA ReachCounted ==
    ASSUME NEW E \in SUBSET (Names \X Names), NEW m \in Names
    PROVE  /\ Cardinality(Reach(E, m)) \in Nat
           /\ 0 < Cardinality(Reach(E, m))
           /\ Cardinality(Reach(E, m)) <= Cardinality(Names)
<1>1. Reach(E, m) \subseteq Names /\ m \in Reach(E, m)
  BY ReachClosed
<1>2. IsFiniteSet(Reach(E, m)) /\ Cardinality(Reach(E, m)) <= Cardinality(Names)
  BY <1>1, NamesAssumption, FS_Subset
<1>3. Cardinality(Reach(E, m)) \in Nat /\ Cardinality(Reach(E, m)) # 0
  BY <1>1, <1>2, FS_CardinalityType, FS_EmptySet
<1>4. QED
  BY <1>2, <1>3

(***************************************************************************)
(* Induction over the naturals, for sets.                                  *)
(***************************************************************************)

LEMMA LeastNat ==
    ASSUME NEW V \in SUBSET Nat, V # {}
    PROVE  \E x \in V : \A y \in V : x <= y
<1>1. PICK x \in V : \A y \in V : ~ (<<y, x>> \in OpToRel(<, Nat))
  BY NatLessThanWellFounded, WFMin
<1>2. \A y \in V : ~(y < x)
  BY <1>1 DEF OpToRel
<1>3. QED
  BY <1>2

LEMMA SetInduction ==
    ASSUME NEW K, 0 \in K, \A k \in Nat : k \in K => k + 1 \in K
    PROVE  Nat \subseteq K
<1> SUFFICES ASSUME Nat \ K # {} PROVE FALSE
  OBVIOUS
<1>1. PICK x \in Nat \ K : \A y \in Nat \ K : x <= y
  BY LeastNat
<1>2. x # 0 /\ x - 1 \in Nat /\ x - 1 \in K
  BY <1>1
<1>3. QED
  BY <1>2

(***************************************************************************)
(* The reduction of a graph without cycles.                                *)
(***************************************************************************)

\* Another dependency of m reaches d.
Redundant(E, m, d) == \E c \in Names : <<m, c>> \in E /\ c # d /\ d \in Reach(E, c)

Reduced(E) == {e \in E : ~Redundant(E, e[1], e[2])}

\* Of some modules, one that no other one of them reaches.
LEMMA Topmost ==
    ASSUME NEW E \in SUBSET (Names \X Names), ~Cyclic(E), NEW T \in SUBSET Names, T # {}
    PROVE  \E c \in T : \A b \in T : b # c => c \notin Reach(E, b)
<1> DEFINE Size(x) == Cardinality(Names) - Cardinality(Reach(E, x))
           V == {Size(x) : x \in T}
<1>1. Cardinality(Names) \in Nat
  BY NamesAssumption, FS_CardinalityType
<1>2. \A x \in T : Size(x) \in Nat
  BY <1>1, ReachCounted
<1>3. PICK s \in V : \A y \in V : s <= y
  <2>1. V \in SUBSET Nat /\ V # {}
    BY <1>2
  <2>2. QED
    BY <2>1, LeastNat
<1>4. PICK c \in T : s = Size(c)
  BY <1>3
<1>5. ASSUME NEW b \in T, b # c, c \in Reach(E, b) PROVE FALSE
  <2>1. Cardinality(Reach(E, c)) < Cardinality(Reach(E, b))
    BY <1>5, ReachShrinks
  <2>2. Size(c) <= Size(b)
    BY <1>3, <1>4
  <2>3. QED
    BY <1>1, <2>1, <2>2, ReachCounted
<1>6. QED
  BY <1>4, <1>5

\* Whatever a module reaches it reaches through a dependency that is left.
LEMMA ThroughReduced ==
    ASSUME NEW E \in SUBSET (Names \X Names), ~Cyclic(E),
           NEW m \in Names, NEW n \in Names,
           \E c \in Names : <<m, c>> \in E /\ n \in Reach(E, c)
    PROVE  \E c \in Names : <<m, c>> \in Reduced(E) /\ n \in Reach(E, c)
<1> DEFINE T == {c \in Names : <<m, c>> \in E /\ n \in Reach(E, c)}
<1>1. T \in SUBSET Names /\ T # {}
  OBVIOUS
<1>2. PICK c \in T : \A b \in T : b # c => c \notin Reach(E, b)
  BY <1>1, Topmost
<1>3. ~Redundant(E, m, c)
  <2> SUFFICES ASSUME NEW b \in Names, <<m, b>> \in E, b # c, c \in Reach(E, b) PROVE FALSE
    BY DEF Redundant
  <2>1. n \in Reach(E, b)
    BY ReachOn
  <2>2. b \in T
    BY <2>1
  <2>3. QED
    BY <1>2, <2>2
<1>4. QED
  BY <1>3 DEF Reduced

\* No module loses a module it reaches.
LEMMA ReducedReach ==
    ASSUME NEW E \in SUBSET (Names \X Names), ~Cyclic(E), NEW m \in Names
    PROVE  Reach(Reduced(E), m) = Reach(E, m)
<1> DEFINE R == Reduced(E)
           K == {k \in Nat : \A x \in Names : Cardinality(Reach(E, x)) <= k =>
                                                 Reach(E, x) \subseteq Reach(R, x)}
<1>1. R \subseteq E /\ R \in SUBSET (Names \X Names)
  BY DEF Reduced
<1>2. 0 \in K
  BY ReachCounted
<1>3. ASSUME NEW k \in Nat, k \in K PROVE k + 1 \in K
  <2> SUFFICES ASSUME NEW x \in Names, Cardinality(Reach(E, x)) <= k + 1,
                      NEW n \in Reach(E, x)
               PROVE  n \in Reach(R, x)
    OBVIOUS
  <2>1. CASE n = x
    BY <1>1, <2>1, ReachClosed
  <2>2. CASE n # x
    <3>1. n \in Names
      BY ReachClosed
    <3>2. PICK c \in Names : <<x, c>> \in R /\ n \in Reach(E, c)
      BY <2>2, <3>1, ReachSplit, ThroughReduced
    <3>3. c \in Reach(E, x) /\ <<x, c>> \in E
      BY <1>1, <3>2, ReachFirst
    <3>4. c # x
      <4>1. x \in Reach(E, x)
        BY ReachClosed
      <4>2. QED
        BY <3>3, <4>1 DEF Cyclic
    <3>5. Cardinality(Reach(E, c)) <= k
      BY <3>3, <3>4, ReachShrinks, ReachCounted
    <3>6. n \in Reach(R, c)
      BY <1>3, <3>2, <3>5
    <3>7. QED
      BY <1>1, <3>2, <3>6, ReachFirst
  <2>3. QED
    BY <2>1, <2>2
<1>4. Nat \subseteq K
  <2> HIDE DEF K
  <2>1. QED
    BY <1>2, <1>3, SetInduction
<1>5. Cardinality(Reach(E, m)) \in K
  BY <1>4, ReachCounted
<1>6. Reach(E, m) \subseteq Reach(R, m)
  BY <1>5, ReachCounted
<1>7. QED
  BY <1>1, <1>6, ReachMore

\* No edge that is left can be spared.
LEMMA ReducedNeeded ==
    ASSUME NEW E \in SUBSET (Names \X Names), ~Cyclic(E), NEW e \in Reduced(E)
    PROVE  e[2] \notin Reach(Reduced(E) \ {e}, e[1])
<1> DEFINE R == Reduced(E) \ {e}
<1> SUFFICES ASSUME e[2] \in Reach(R, e[1]) PROVE FALSE
  OBVIOUS
<1>1. /\ e \in E /\ e[1] \in Names /\ e[2] \in Names /\ e = <<e[1], e[2]>>
      /\ R \subseteq E /\ R \in SUBSET (Names \X Names)
  BY DEF Reduced
<1>2. e[2] # e[1]
  <2>1. e[2] \in Reach(E, e[2])
    BY <1>1, ReachClosed
  <2>2. QED
    BY <1>1, <2>1 DEF Cyclic
<1>3. PICK c \in Names : <<e[1], c>> \in R /\ e[2] \in Reach(R, c)
  BY <1>1, <1>2, ReachSplit
<1>4. c # e[2] /\ <<e[1], c>> \in E
  BY <1>1, <1>3
<1>5. e[2] \in Reach(E, c)
  BY <1>1, <1>3, ReachMore
<1>6. Redundant(E, e[1], e[2])
  BY <1>4, <1>5 DEF Redundant
<1>7. QED
  BY <1>6 DEF Reduced

-----------------------------------------------------------------------------
(***************************************************************************)
(* The search, for every map.                                              *)
(***************************************************************************)

Answers == {"yes", "no", "overflow"}
Maps == depends \in [Names -> Seq(Names)]

\* The answers of calls that have one more level left than those with the
\* answers g.
Level(d, g) ==
    [n \in Names |->
        LET v      == depends[n]
            result == [i \in DOMAIN v |-> IF v[i] = d THEN "yes" ELSE g[v[i]]]
            hits   == {i \in DOMAIN v : result[i] # "no"}
        IN  IF hits = {} THEN "no" ELSE result[Min(hits)]]

\* The equation that defines call in DependsOn.
SearchStep(d, call) ==
    [k \in 0..Cardinality(Names) |-> [n \in Names |->
            LET v      == depends[n]
                result == [i \in DOMAIN v |-> IF v[i] = d THEN "yes" ELSE call[k - 1][v[i]]]
                hits   == {i \in DOMAIN v : result[i] # "no"}
            IN  IF k = 0 THEN "overflow"
                ELSE IF hits = {} THEN "no" ELSE result[Min(hits)]]]

LEMMA SearchIsChosen ==
    ASSUME NEW m, NEW d
    PROVE  DependsOn(m, d) = (CHOOSE f : f = SearchStep(d, f))[Cardinality(Names)][m]
BY DEF DependsOn, SearchStep

LEMMA SearchByLevels ==
    ASSUME NEW d, NEW f
    PROVE  SearchStep(d, f) = [k \in 0..Cardinality(Names) |->
                                IF k = 0 THEN [n \in Names |-> "overflow"]
                                ELSE Level(d, f[k - 1])]
<1>1. ASSUME NEW k \in 0..Cardinality(Names)
      PROVE  SearchStep(d, f)[k] = IF k = 0 THEN [n \in Names |-> "overflow"]
                                   ELSE Level(d, f[k - 1])
  <2>1. CASE k = 0
    BY <2>1 DEF SearchStep
  <2>2. CASE k # 0
    BY <2>2 DEF SearchStep, Level
  <2>3. QED
    BY <2>1, <2>2
<1>2. SearchStep(d, f) = [k \in 0..Cardinality(Names) |-> SearchStep(d, f)[k]]
  BY DEF SearchStep
<1>3. QED
  BY <1>1, <1>2

LEMMA MinIn ==
    ASSUME NEW V \in SUBSET Nat, V # {}
    PROVE  Min(V) \in V
BY LeastNat DEF Min

\* What the answers of one level say about those below.
LEMMA LevelFacts ==
    ASSUME Maps, NEW d, NEW g \in [Names -> Answers], NEW n \in Names
    PROVE  LET v == depends[n]
               r == Level(d, g)[n]
           IN  /\ r \in Answers
               /\ r = "yes" => \E i \in DOMAIN v : v[i] = d \/ g[v[i]] = "yes"
               /\ r = "no" => \A i \in DOMAIN v : v[i] # d /\ g[v[i]] = "no"
               /\ r = "overflow" => \E i \in DOMAIN v : v[i] # d /\ g[v[i]] = "overflow"
<1> DEFINE v      == depends[n]
           result == [i \in DOMAIN v |-> IF v[i] = d THEN "yes" ELSE g[v[i]]]
           hits   == {i \in DOMAIN v : result[i] # "no"}
<1>1. v \in Seq(Names) /\ DOMAIN v \subseteq Nat /\ \A i \in DOMAIN v : v[i] \in Names
  BY DEF Maps
<1>2. Level(d, g)[n] = IF hits = {} THEN "no" ELSE result[Min(hits)]
  BY DEF Level
<1>3. CASE hits = {}
  <2>1. \A i \in DOMAIN v : result[i] = "no"
    BY <1>3
  <2>2. \A i \in DOMAIN v : v[i] # d /\ g[v[i]] = "no"
    BY <2>1
  <2>3. QED
    BY <1>2, <1>3, <2>2 DEF Answers
<1>4. CASE hits # {}
  <2>1. Min(hits) \in hits
    BY <1>1, <1>4, MinIn
  <2>2. PICK i \in DOMAIN v : i = Min(hits) /\ result[i] # "no"
    BY <2>1
  <2>3. result[i] = IF v[i] = d THEN "yes" ELSE g[v[i]]
    OBVIOUS
  <2>4. g[v[i]] \in Answers
    BY <1>1
  <2>5. Level(d, g)[n] = result[i]
    BY <1>2, <1>4, <2>2
  <2> HIDE DEF result, hits
  <2>6. QED
    BY <2>2, <2>3, <2>4, <2>5 DEF Answers
<1>5. QED
  BY <1>3, <1>4

LEMMA LevelType ==
    ASSUME Maps, NEW d, NEW g \in [Names -> Answers]
    PROVE  Level(d, g) \in [Names -> Answers]
<1>1. Level(d, g) = [n \in Names |-> Level(d, g)[n]]
  BY DEF Level
<1>2. \A n \in Names : Level(d, g)[n] \in Answers
  BY LevelFacts
<1>3. QED
  BY <1>1, <1>2

\* The recursion is well defined.
LEMMA SearchExists ==
    ASSUME Maps, NEW d
    PROVE  \E f : f = SearchStep(d, f)
<1> DEFINE Top == [n \in Names |-> "overflow"]
           Good(k, g) == g[0] = Top /\ \A j \in 1..k : g[j] = Level(d, g[j - 1])
           K == {k \in Nat : \E g \in [0..k -> [Names -> Answers]] : Good(k, g)}
<1>1. 0 \in K
  <2>1. [j \in 0..0 |-> Top] \in [0..0 -> [Names -> Answers]]
    BY DEF Answers
  <2>2. Good(0, [j \in 0..0 |-> Top])
    OBVIOUS
  <2>3. QED
    BY <2>1, <2>2
<1>2. ASSUME NEW k \in Nat, k \in K PROVE k + 1 \in K
  <2>1. PICK g \in [0..k -> [Names -> Answers]] : Good(k, g)
    BY <1>2
  <2> DEFINE h == [j \in 0..(k + 1) |-> IF j <= k THEN g[j] ELSE Level(d, g[k])]
  <2>2. Level(d, g[k]) \in [Names -> Answers]
    BY LevelType
  <2>3. h \in [0..(k + 1) -> [Names -> Answers]]
    BY <2>2
  <2>4. h[0] = Top
    BY <2>1
  <2>5. ASSUME NEW j \in 1..(k + 1) PROVE h[j] = Level(d, h[j - 1])
    <3>1. h[j - 1] = g[j - 1]
      OBVIOUS
    <3>2. CASE j <= k
      BY <2>1, <3>1, <3>2
    <3>3. CASE j = k + 1
      BY <3>1, <3>3
    <3>4. QED
      BY <3>2, <3>3
  <2>6. Good(k + 1, h)
    BY <2>4, <2>5
  <2> HIDE DEF h, Good
  <2>7. QED
    BY <2>3, <2>6
<1>3. Nat \subseteq K
  <2> HIDE DEF K
  <2>1. QED
    BY <1>1, <1>2, SetInduction
<1>4. Cardinality(Names) \in Nat
  BY NamesAssumption, FS_CardinalityType
<1>5. PICK g \in [0..Cardinality(Names) -> [Names -> Answers]] : Good(Cardinality(Names), g)
  BY <1>3, <1>4
<1>6. g = [k \in 0..Cardinality(Names) |-> IF k = 0 THEN Top ELSE Level(d, g[k - 1])]
  BY <1>4, <1>5
<1>7. QED
  BY <1>6, SearchByLevels

LEMMA EdgesAre ==
    ASSUME Maps
    PROVE  /\ Edges \in SUBSET (Names \X Names)
           /\ \A n, c \in Names :
                 <<n, c>> \in Edges <=> \E i \in DOMAIN depends[n] : depends[n][i] = c
           /\ \A n \in Names : \A i \in DOMAIN depends[n] : depends[n][i] \in Names
BY DEF Edges, Elements, Maps

\* The answer a at n, with k levels left, tells the truth.
Truthful(d, k, n, a) ==
    /\ a = "yes" => d \in Reach(Edges, n)
    /\ a = "no" /\ n # d => d \notin Reach(Edges, n)
    /\ a = "overflow" /\ ~Cyclic(Edges) => k < Cardinality(Reach(Edges, n))

LEMMA LevelTruthful ==
    ASSUME Maps, NEW d \in Names, NEW k \in Nat, NEW g \in [Names -> Answers],
           \A n \in Names : Truthful(d, k, n, g[n]), NEW n \in Names
    PROVE  Truthful(d, k + 1, n, Level(d, g)[n])
<1> DEFINE v == depends[n]
           r == Level(d, g)[n]
<1>1. \A i \in DOMAIN v : v[i] \in Names /\ <<n, v[i]>> \in Edges
  BY EdgesAre
<1>2. Edges \in SUBSET (Names \X Names)
  BY EdgesAre
<1>3. r = "yes" => d \in Reach(Edges, n)
  <2> SUFFICES ASSUME r = "yes" PROVE d \in Reach(Edges, n)
    OBVIOUS
  <2>1. PICK i \in DOMAIN v : v[i] = d \/ g[v[i]] = "yes"
    BY LevelFacts
  <2>2. d \in Reach(Edges, v[i])
    BY <1>1, <1>2, <2>1, ReachClosed DEF Truthful
  <2>3. QED
    BY <1>1, <1>2, <2>2, ReachFirst
<1>4. r = "no" /\ n # d => d \notin Reach(Edges, n)
  <2> SUFFICES ASSUME r = "no", n # d, d \in Reach(Edges, n) PROVE FALSE
    OBVIOUS
  <2>1. PICK c \in Names : <<n, c>> \in Edges /\ d \in Reach(Edges, c)
    BY <1>2, ReachSplit
  <2>2. PICK i \in DOMAIN v : v[i] = c
    BY <2>1, EdgesAre
  <2>3. c # d /\ g[c] = "no"
    BY <2>2, LevelFacts
  <2>4. QED
    BY <2>1, <2>3 DEF Truthful
<1>5. r = "overflow" /\ ~Cyclic(Edges) => k + 1 < Cardinality(Reach(Edges, n))
  <2> SUFFICES ASSUME r = "overflow", ~Cyclic(Edges)
               PROVE  k + 1 < Cardinality(Reach(Edges, n))
    OBVIOUS
  <2>1. PICK i \in DOMAIN v : g[v[i]] = "overflow"
    BY LevelFacts
  <2>2. k < Cardinality(Reach(Edges, v[i]))
    BY <1>1, <2>1 DEF Truthful
  <2>3. v[i] \in Reach(Edges, n)
    BY <1>1, <1>2, ReachFirst
  <2>4. v[i] # n
    <3>1. n \in Reach(Edges, n)
      BY <1>2, ReachClosed
    <3>2. QED
      BY <1>1, <3>1 DEF Cyclic
  <2>5. Cardinality(Reach(Edges, v[i])) < Cardinality(Reach(Edges, n))
    BY <1>2, <2>3, <2>4, ReachShrinks
  <2>6. /\ Cardinality(Reach(Edges, n)) \in Nat
        /\ Cardinality(Reach(Edges, v[i])) \in Nat
    BY <1>1, <1>2, ReachCounted
  <2>7. QED
    BY <2>2, <2>5, <2>6
<1>6. QED
  BY <1>3, <1>4, <1>5 DEF Truthful

\* The search finds what is reached, misses nothing, and overflows only on a
\* cycle.
LEMMA SearchTruthful ==
    ASSUME Maps, NEW d \in Names, NEW m \in Names
    PROVE  /\ DependsOn(m, d) \in Answers
           /\ DependsOn(m, d) = "yes" => d \in Reach(Edges, m)
           /\ DependsOn(m, d) = "no" /\ m # d => d \notin Reach(Edges, m)
           /\ DependsOn(m, d) = "overflow" => Cyclic(Edges)
<1> DEFINE f == CHOOSE g : g = SearchStep(d, g)
           N == Cardinality(Names)
           K == {k \in Nat : k <= N => /\ f[k] \in [Names -> Answers]
                                       /\ \A n \in Names : Truthful(d, k, n, f[k][n])}
<1>1. N \in Nat
  BY NamesAssumption, FS_CardinalityType
<1>2. f = [k \in 0..N |-> IF k = 0 THEN [n \in Names |-> "overflow"]
                          ELSE Level(d, f[k - 1])]
  <2>1. f = SearchStep(d, f)
    BY SearchExists
  <2>2. SearchStep(d, f) = [k \in 0..N |-> IF k = 0 THEN [n \in Names |-> "overflow"]
                                           ELSE Level(d, f[k - 1])]
    BY SearchByLevels
  <2>3. QED
    BY <2>1, <2>2
<1>3. DependsOn(m, d) = f[N][m]
  BY SearchIsChosen
<1> HIDE DEF f
<1>4. 0 \in K
  <2>1. f[0] = [n \in Names |-> "overflow"]
    BY <1>1, <1>2
  <2>2. \A n \in Names : Truthful(d, 0, n, f[0][n])
    BY <2>1, EdgesAre, ReachCounted DEF Truthful
  <2>3. QED
    BY <2>1, <2>2 DEF Answers
<1>5. ASSUME NEW k \in Nat, k \in K PROVE k + 1 \in K
  <2> SUFFICES ASSUME k + 1 <= N
               PROVE  /\ f[k + 1] \in [Names -> Answers]
                      /\ \A n \in Names : Truthful(d, k + 1, n, f[k + 1][n])
    OBVIOUS
  <2>1. f[k + 1] = Level(d, f[k])
    <3>1. k + 1 \in 0..N /\ k + 1 # 0 /\ (k + 1) - 1 = k
      BY <1>1
    <3>2. f[k + 1] = Level(d, f[(k + 1) - 1])
      BY <1>2, <3>1
    <3>3. QED
      BY <3>1, <3>2
  <2>2. f[k] \in [Names -> Answers] /\ \A n \in Names : Truthful(d, k, n, f[k][n])
    BY <1>1, <1>5
  <2>3. QED
    BY <2>1, <2>2, LevelType, LevelTruthful
<1>6. Nat \subseteq K
  <2> HIDE DEF K
  <2>1. QED
    BY <1>4, <1>5, SetInduction
<1>7. f[N] \in [Names -> Answers] /\ Truthful(d, N, m, f[N][m])
  BY <1>1, <1>6
<1>8. Cardinality(Reach(Edges, m)) <= N /\ Cardinality(Reach(Edges, m)) \in Nat
  BY EdgesAre, ReachCounted
<1>9. QED
  BY <1>1, <1>3, <1>7, <1>8 DEF Truthful

-----------------------------------------------------------------------------
(***************************************************************************)
(* The loop over a vector.  On a file without a cycle it removes exactly   *)
(* the redundant dependencies, although a dependency that was removed no   *)
(* longer speaks for others: the topmost of those that reach a dependency  *)
(* is not redundant itself.                                                *)
(***************************************************************************)

\* copy is the vector with some elements removed, none of them ahead of it1.
Copied ==
    pc \in {"check", "print"} =>
        /\ Len(copy) = Len(depends[cur])
        /\ \A i \in 1..Len(copy) : copy[i] = depends[cur][i] \/ copy[i] = Null
        /\ pc = "check" => \A i \in it1..Len(copy) : copy[i] = depends[cur][i]

Decided ==
    pc \in {"check", "print"} /\ ~Cyclic(Edges) =>
        \A i \in 1..Len(copy) : i < it1 \/ pc = "print" =>
            (copy[i] = Null <=> Redundant(Edges, cur, depends[cur][i]))

KeptExact ==
    IF pc = "read" THEN kept = {}
    ELSE ~Cyclic(Edges) => kept = {e \in Reduced(Edges) : e[1] \notin todo}

RInv == Copied /\ Decided /\ KeptExact /\ OverflowMeansCycle

LEMMA MapsTyped == TypeOK => Maps
BY DEF TypeOK, Maps

LEMMA VerdictFacts ==
    ASSUME TypeOK, pc = "check", \A j \in DOMAIN copy : FoundThrough(j) \in Answers
    PROVE  /\ Verdict \in Answers
           /\ Verdict = "yes" => \E j \in DOMAIN copy : FoundThrough(j) = "yes"
           /\ Verdict = "no" => \A j \in DOMAIN copy : FoundThrough(j) = "no"
           /\ Verdict = "overflow" => \E j \in DOMAIN copy : FoundThrough(j) = "overflow"
<1> DEFINE found == [j \in DOMAIN copy |-> FoundThrough(j)]
           hits  == {j \in DOMAIN copy : found[j] # "no"}
<1>1. DOMAIN copy \subseteq Nat
  BY DEF TypeOK
<1>2. Verdict = IF hits = {} THEN "no" ELSE found[Min(hits)]
  BY DEF Verdict
<1>3. CASE hits = {}
  BY <1>2, <1>3 DEF Answers
<1>4. CASE hits # {}
  <2>1. hits \in SUBSET Nat
    BY <1>1
  <2>2. Min(hits) \in hits
    BY <1>4, <2>1, MinIn
  <2>3. PICK j \in DOMAIN copy : j = Min(hits) /\ FoundThrough(j) # "no"
    BY <2>2
  <2>4. Verdict = FoundThrough(j)
    BY <1>2, <1>4, <2>3
  <2> HIDE DEF found, hits
  <2>5. QED
    BY <2>3, <2>4
<1>5. QED
  BY <1>3, <1>4

\* What the loop over it2 has found out.
LEMMA VerdictTruthful ==
    ASSUME IInv, Copied, pc = "check", it1 <= Len(copy)
    PROVE  LET d == depends[cur][it1]
           IN  /\ d \in Names /\ copy[it1] = d /\ it1 \in DOMAIN depends[cur]
               /\ Verdict = "yes" => Redundant(Edges, cur, d)
               /\ Verdict = "no" => \A j \in DOMAIN copy :
                     copy[j] # Null /\ copy[j] # d => d \notin Reach(Edges, copy[j])
               /\ Verdict = "overflow" => Cyclic(Edges)
<1> DEFINE v == depends[cur]
           d == v[it1]
<1>1. Maps /\ cur \in Names
  BY MapsTyped DEF IInv, AtModule
<1>2. v \in Seq(Names) /\ DOMAIN v = 1..Len(v)
  BY <1>1 DEF Maps
<1>3. copy \in Seq(Names \cup {Null}) /\ DOMAIN copy = 1..Len(copy) /\ Len(copy) = Len(v)
  BY DEF IInv, TypeOK, Copied
<1>4. it1 \in DOMAIN copy /\ it1 \in DOMAIN v /\ copy[it1] = d /\ d \in Names
  <2>1. it1 \in Nat /\ it1 \in 1..Len(copy) /\ it1 \in it1..Len(copy)
    BY <1>3 DEF IInv, TypeOK
  <2>2. copy[it1] = d
    BY <2>1 DEF Copied
  <2>3. QED
    BY <1>2, <1>3, <2>1, <2>2
<1>5. \A j \in DOMAIN copy : copy[j] # Null => copy[j] = v[j] /\ copy[j] \in Names
  BY <1>2, <1>3 DEF Copied
<1> HIDE DEF v, d
<1>6. \A j \in DOMAIN copy :
         FoundThrough(j) = IF copy[j] = Null \/ copy[j] = d THEN "no" ELSE DependsOn(copy[j], d)
  BY <1>4 DEF FoundThrough
<1>7. \A j \in DOMAIN copy : FoundThrough(j) \in Answers
  BY <1>1, <1>4, <1>5, <1>6, SearchTruthful DEF Answers
<1>8. ASSUME Verdict = "yes" PROVE Redundant(Edges, cur, d)
  <2>1. PICK j \in DOMAIN copy : FoundThrough(j) = "yes"
    BY <1>7, <1>8, VerdictFacts DEF IInv
  <2>2. copy[j] # Null /\ copy[j] # d /\ DependsOn(copy[j], d) = "yes"
    BY <1>6, <2>1
  <2>3. copy[j] \in Names /\ copy[j] = v[j] /\ j \in DOMAIN v
    BY <1>2, <1>3, <1>5, <2>2
  <2>4. d \in Reach(Edges, copy[j])
    BY <1>1, <1>4, <2>2, <2>3, SearchTruthful
  <2>5. <<cur, copy[j]>> \in Edges
    BY <1>1, <2>3, EdgesAre DEF v
  <2>6. QED
    BY <2>2, <2>3, <2>4, <2>5 DEF Redundant
<1>9. ASSUME Verdict = "no", NEW j \in DOMAIN copy, copy[j] # Null, copy[j] # d
      PROVE  d \notin Reach(Edges, copy[j])
  <2>1. FoundThrough(j) = "no"
    BY <1>7, <1>9, VerdictFacts DEF IInv
  <2>2. DependsOn(copy[j], d) = "no"
    BY <1>6, <1>9, <2>1
  <2>3. QED
    BY <1>1, <1>4, <1>5, <1>9, <2>2, SearchTruthful
<1>10. ASSUME Verdict = "overflow" PROVE Cyclic(Edges)
  <2>1. PICK j \in DOMAIN copy : FoundThrough(j) = "overflow"
    BY <1>7, <1>10, VerdictFacts DEF IInv
  <2>2. copy[j] # Null /\ DependsOn(copy[j], d) = "overflow"
    BY <1>6, <2>1
  <2>3. QED
    BY <1>1, <1>4, <1>5, <2>2, SearchTruthful
<1>11. QED
  BY <1>4, <1>8, <1>9, <1>10 DEF v, d

\* A dependency that stays is not redundant: another one that reaches it would
\* still be there.
LEMMA StaysNeeded ==
    ASSUME IInv, Copied, Decided, pc = "check", it1 <= Len(copy), ~Cyclic(Edges),
           Verdict = "no"
    PROVE  ~Redundant(Edges, cur, depends[cur][it1])
<1> DEFINE d == depends[cur][it1]
<1> SUFFICES ASSUME Redundant(Edges, cur, d) PROVE FALSE
  OBVIOUS
<1>1. Maps /\ cur \in Names /\ d \in Names
  BY MapsTyped, VerdictTruthful DEF IInv, AtModule
<1>2. Edges \in SUBSET (Names \X Names)
  BY <1>1, EdgesAre
<1>3. PICK b \in Names : <<cur, b>> \in Edges /\ b # d /\ d \in Reach(Edges, b)
  BY DEF Redundant
<1> DEFINE T == {c \in Names : <<cur, c>> \in Edges /\ c # d /\ d \in Reach(Edges, c)}
<1>4. PICK c \in T : \A a \in T : a # c => c \notin Reach(Edges, a)
  <2>1. T \in SUBSET Names /\ T # {}
    BY <1>3
  <2> HIDE DEF T
  <2>2. QED
    BY <1>2, <2>1, Topmost
<1>5. ~Redundant(Edges, cur, c)
  <2> SUFFICES ASSUME NEW a \in Names, <<cur, a>> \in Edges, a # c, c \in Reach(Edges, a)
               PROVE  FALSE
    BY DEF Redundant
  <2>1. d \in Reach(Edges, a)
    BY <1>2, ReachOn
  <2>2. a # d
    BY <1>2, <1>4, ReachShrinks, <1>1
  <2>3. QED
    BY <1>4, <2>1, <2>2
<1>6. PICK j \in DOMAIN depends[cur] : depends[cur][j] = c
  BY <1>1, EdgesAre
<1>7. j \in DOMAIN copy /\ j \in 1..Len(copy)
  BY <1>1, <1>6 DEF IInv, TypeOK, Copied, Maps
<1>8. copy[j] = c
  <2>1. CASE j < it1
    BY <1>5, <1>6, <1>7, <2>1 DEF Decided, Copied
  <2>2. CASE ~(j < it1)
    BY <1>6, <1>7, <2>2 DEF Copied, IInv, TypeOK
  <2>3. QED
    BY <2>1, <2>2
<1>9. c # Null
  BY NamesAssumption
<1>10. QED
  BY <1>4, <1>7, <1>8, <1>9, VerdictTruthful

LEMMA CopiedStep ==
    ASSUME IInv, Copied, [Next]_vars
    PROVE  Copied'
<1>1. ASSUME NEW line \in Lines, ReadLine(line) PROVE Copied'
  BY <1>1 DEF ReadLine, Copied
<1>2. ASSUME NEW line \in LostLines, ReadDropped(line) PROVE Copied'
  BY <1>2 DEF ReadDropped, Copied
<1>3. CASE ReadEof \/ CheckOverflow \/ PrintOut \/ Finish
  BY <1>3 DEF ReadEof, CheckOverflow, PrintOut, Finish, Copied
<1>4. ASSUME NEW m \in Names, Pick(m) PROVE Copied'
  BY <1>4 DEF Pick, Copied, input
<1>5. CASE Check
  <2>1. it1 \in 1..Len(copy) /\ copy \in Seq(Names \cup {Null})
    BY <1>5 DEF Check, IInv, TypeOK
  <2>2. pc = "check" /\ pc' = pc /\ cur' = cur /\ depends' = depends /\ it1' = it1 + 1
    BY <1>5 DEF Check, input
  <2>3. Len(copy') = Len(copy)
    BY <1>5, <2>1 DEF Check
  <2>4. \A i \in 1..Len(copy) : copy'[i] = copy[i] \/ (i = it1 /\ copy'[i] = Null)
    BY <1>5, <2>1 DEF Check
  <2>5. QED
    BY <2>1, <2>2, <2>3, <2>4 DEF Copied
<1>6. CASE CheckEnd
  BY <1>6 DEF CheckEnd, Copied, input
<1>7. CASE UNCHANGED vars
  BY <1>7 DEF vars, Copied, input
<1>8. QED
  BY <1>1, <1>2, <1>3, <1>4, <1>5, <1>6, <1>7 DEF Next

LEMMA SameEdges ==
    ASSUME depends' = depends
    PROVE  Edges' = Edges
BY DEF Edges

LEMMA DecidedStep ==
    ASSUME IInv, Copied, Decided, [Next]_vars
    PROVE  Decided'
<1>1. ASSUME NEW line \in Lines, ReadLine(line) PROVE Decided'
  BY <1>1 DEF ReadLine, Decided
<1>2. ASSUME NEW line \in LostLines, ReadDropped(line) PROVE Decided'
  BY <1>2 DEF ReadDropped, Decided
<1>3. CASE ReadEof \/ CheckOverflow \/ PrintOut \/ Finish
  BY <1>3 DEF ReadEof, CheckOverflow, PrintOut, Finish, Decided
<1>4. ASSUME NEW m \in Names, Pick(m) PROVE Decided'
  <2>1. Maps /\ depends' = depends /\ Edges' = Edges
    BY <1>4, MapsTyped, SameEdges DEF Pick, input, IInv
  <2>2. cur' = m /\ copy' = depends[m] /\ it1' = 1
    BY <1>4 DEF Pick
  <2>3. CASE pc' = "check"
    BY <2>2, <2>3 DEF Decided
  <2>4. CASE pc' = "print"
    <3>1. depends[m] \in Seq(Names) /\ ~(Len(depends[m]) > 1)
      <4>1. depends[m] \in Seq(Names)
        BY <2>1 DEF Maps
      <4>2. QED
        BY <1>4, <2>4, <4>1 DEF Pick
    <3> SUFFICES ASSUME NEW i \in 1..Len(depends[m])
                 PROVE  depends[m][i] # Null /\ ~Redundant(Edges, m, depends[m][i])
      BY <2>1, <2>2, <2>4 DEF Decided
    <3>2. i = 1 /\ depends[m][1] \in Names /\ DOMAIN depends[m] = {1}
      <4>1. Len(depends[m]) \in Nat
        BY <3>1
      <4>2. \A l \in Nat : \A x \in 1..l : ~(l > 1) => l = 1 /\ x = 1
        OBVIOUS
      <4>3. Len(depends[m]) = 1 /\ i = 1
        BY <3>1, <4>1, <4>2
      <4>4. QED
        BY <3>1, <4>3
    <3>3. \A c \in Names : <<m, c>> \in Edges => c = depends[m][1]
      BY <2>1, <3>2, EdgesAre
    <3>4. QED
      BY <3>2, <3>3, NamesAssumption DEF Redundant
  <2>5. QED
    BY <1>4, <2>3, <2>4 DEF Pick
<1>5. CASE Check
  <2>1. it1 \in 1..Len(copy) /\ copy \in Seq(Names \cup {Null})
    BY <1>5 DEF Check, IInv, TypeOK
  <2>2. pc = "check" /\ pc' = pc /\ cur' = cur /\ depends' = depends /\ it1' = it1 + 1
    BY <1>5 DEF Check, input
  <2>3. Edges' = Edges
    BY <2>2, SameEdges
  <2>4. Len(copy') = Len(copy) /\ \A i \in 1..Len(copy) : i # it1 => copy'[i] = copy[i]
    BY <1>5, <2>1 DEF Check
  <2>5. /\ copy[it1] = depends[cur][it1] /\ depends[cur][it1] # Null
        /\ Verdict = "yes" => Redundant(Edges, cur, depends[cur][it1])
    BY <2>1, <2>2, VerdictTruthful, NamesAssumption
  <2>6. ~Cyclic(Edges) => (copy'[it1] = Null <=> Redundant(Edges, cur, depends[cur][it1]))
    <3>1. CASE Verdict = "yes"
      BY <1>5, <2>1, <2>5, <3>1 DEF Check
    <3>2. CASE Verdict = "no"
      BY <1>5, <2>1, <2>2, <2>5, <3>2, StaysNeeded DEF Check
    <3>3. QED
      BY <1>5, <3>1, <3>2 DEF Check
  <2>7. QED
    BY <2>1, <2>2, <2>3, <2>4, <2>6 DEF Decided
<1>6. CASE CheckEnd
  <2>1. Edges' = Edges
    BY <1>6, SameEdges DEF CheckEnd, input
  <2>2. QED
    BY <1>6, <2>1 DEF CheckEnd, Decided, input, IInv, TypeOK
<1>7. CASE UNCHANGED vars
  <2>1. Edges' = Edges
    BY <1>7, SameEdges DEF vars, input
  <2>2. QED
    BY <1>7, <2>1 DEF vars, Decided, input
<1>8. QED
  BY <1>1, <1>2, <1>3, <1>4, <1>5, <1>6, <1>7 DEF Next

\* What the loop leaves of a module is its part of the reduction.
LEMMA LeftReduced ==
    ASSUME IInv, Copied, Decided, pc = "print", ~Cyclic(Edges)
    PROVE  {cur} \X Left = {e \in Reduced(Edges) : e[1] = cur}
<1>1. Maps /\ cur \in Names
  BY MapsTyped DEF IInv, AtModule
<1> DEFINE v == depends[cur]
<1>2. v \in Seq(Names) /\ copy \in Seq(Names \cup {Null}) /\ Len(copy) = Len(v)
  BY <1>1 DEF Maps, IInv, TypeOK, Copied
<1>3. Edges \in SUBSET (Names \X Names)
  BY <1>1, EdgesAre
<1>4. ASSUME NEW d \in Left PROVE <<cur, d>> \in Reduced(Edges)
  <2>1. PICK i \in DOMAIN copy : copy[i] = d /\ d # Null
    BY DEF Left, Elements
  <2>2. i \in 1..Len(copy) /\ i \in DOMAIN v
    BY <1>2
  <2>3. v[i] = d
    BY <2>1, <2>2 DEF Copied
  <2>4. ~Redundant(Edges, cur, d)
    BY <2>1, <2>2, <2>3 DEF Decided
  <2>5. d \in Names /\ <<cur, d>> \in Edges
    BY <1>1, <2>2, <2>3, EdgesAre
  <2>6. QED
    BY <2>4, <2>5 DEF Reduced
<1>5. ASSUME NEW e \in Reduced(Edges), e[1] = cur PROVE e = <<cur, e[2]>> /\ e[2] \in Left
  <2>1. e \in Edges /\ ~Redundant(Edges, e[1], e[2])
    BY DEF Reduced
  <2>2. e = <<cur, e[2]>> /\ e[2] \in Names
    BY <1>3, <1>5, <2>1
  <2>3. PICK i \in DOMAIN v : v[i] = e[2]
    BY <1>1, <2>1, <2>2, EdgesAre
  <2>4. i \in 1..Len(copy) /\ i \in DOMAIN copy
    BY <1>2
  <2>5. copy[i] # Null
    BY <1>5, <2>1, <2>3, <2>4 DEF Decided
  <2>6. copy[i] = e[2]
    BY <2>3, <2>4, <2>5 DEF Copied
  <2>7. QED
    BY <2>2, <2>4, <2>5, <2>6 DEF Left, Elements
<1>6. QED
  BY <1>4, <1>5

LEMMA KeptStep ==
    ASSUME IInv, Copied, Decided, KeptExact, [Next]_vars
    PROVE  KeptExact'
<1>1. ASSUME NEW line \in Lines, ReadLine(line) PROVE KeptExact'
  BY <1>1 DEF ReadLine, KeptExact, output
<1>2. ASSUME pc = "read", pc' = "pick", todo' = Keys, kept' = kept, depends' = depends
      PROVE  KeptExact'
  <2>1. Maps /\ Edges' = Edges
    BY <1>2, MapsTyped, SameEdges DEF IInv
  <2>2. ASSUME NEW e \in Reduced(Edges) PROVE e[1] \in Keys
    <3>1. e \in Edges
      BY DEF Reduced
    <3>2. e[1] \in Names /\ e[2] \in Names /\ <<e[1], e[2]>> \in Edges
      BY <2>1, <3>1, EdgesAre
    <3>3. PICK i \in DOMAIN depends[e[1]] : TRUE
      BY <2>1, <3>2, EdgesAre
    <3>4. QED
      BY <3>2, <3>3 DEF Keys
  <2>3. kept' = {}
    BY <1>2 DEF KeptExact
  <2>4. QED
    BY <1>2, <2>1, <2>2, <2>3 DEF KeptExact
<1>3. CASE ReadEof \/ \E line \in LostLines : ReadDropped(line)
  BY <1>2, <1>3 DEF ReadEof, ReadDropped, input
<1>4. ASSUME pc # "read", pc' # "read", depends' = depends, UNCHANGED <<kept, todo>>
      PROVE  KeptExact'
  BY <1>4, SameEdges DEF KeptExact
<1>5. CASE Check \/ CheckOverflow \/ CheckEnd \/ Finish \/ \E m \in Names : Pick(m)
  BY <1>4, <1>5 DEF Check, CheckOverflow, CheckEnd, Finish, Pick, input, output
<1>6. CASE PrintOut
  <2>1. pc = "print" /\ pc' = "pick" /\ depends' = depends
    BY <1>6 DEF PrintOut, input
  <2>2. Edges' = Edges
    BY <2>1, SameEdges
  <2>3. kept' = kept \cup ({cur} \X Left) /\ todo' = todo \ {cur}
    BY <1>6 DEF PrintOut
  <2>4. SUFFICES ASSUME ~Cyclic(Edges)
                 PROVE  kept' = {e \in Reduced(Edges) : e[1] \notin todo'}
    BY <2>1, <2>2 DEF KeptExact
  <2>5. kept = {e \in Reduced(Edges) : e[1] \notin todo}
    BY <2>1, <2>4 DEF KeptExact
  <2>6. {cur} \X Left = {e \in Reduced(Edges) : e[1] = cur}
    BY <2>1, <2>4, LeftReduced
  <2>7. QED
    BY <2>3, <2>5, <2>6
<1>7. CASE UNCHANGED vars
  BY <1>7, SameEdges DEF KeptExact, vars, input, output
<1>8. QED
  BY <1>1, <1>3, <1>5, <1>6, <1>7 DEF Next

LEMMA OverflowStep ==
    ASSUME IInv, Copied, OverflowMeansCycle, [Next]_vars
    PROVE  OverflowMeansCycle'
<1>1. CASE CheckOverflow
  <2>1. Edges' = Edges
    BY <1>1, SameEdges DEF CheckOverflow, input
  <2>2. Cyclic(Edges)
    BY <1>1, VerdictTruthful DEF CheckOverflow
  <2>3. QED
    BY <2>1, <2>2 DEF OverflowMeansCycle
<1>2. CASE UNCHANGED vars
  BY <1>2, SameEdges DEF OverflowMeansCycle, vars, input
<1>3. CASE \/ ReadEof \/ Check \/ CheckEnd \/ PrintOut \/ Finish
           \/ \E line \in Lines : ReadLine(line)
           \/ \E line \in LostLines : ReadDropped(line)
           \/ \E m \in Names : Pick(m)
  BY <1>3 DEF ReadLine, ReadDropped, ReadEof, Pick, Check, CheckEnd, PrintOut, Finish,
              OverflowMeansCycle
<1>4. QED
  BY <1>1, <1>2, <1>3 DEF Next

\* The inductive invariant of the reduction.
THEOREM ReductionInvariance == Spec => []RInv
<1>1. Init => RInv
  BY DEF Init, RInv, Copied, Decided, KeptExact, OverflowMeansCycle
<1>2. IInv /\ RInv /\ [Next]_vars => RInv'
  BY CopiedStep, DecidedStep, KeptStep, OverflowStep DEF RInv
<1>3. QED
  BY <1>1, <1>2, Invariance, PTL DEF Spec

\* Once every module has been visited, what is kept is the reduction of what
\* was read.
LEMMA DoneReduced ==
    ASSUME IInv, RInv, pc = "done", todo = {}, ~Cyclic(Edges)
    PROVE  kept = Reduced(Edges) /\ Edges \in SUBSET (Names \X Names)
<1>1. kept = {e \in Reduced(Edges) : e[1] \notin todo}
  BY DEF RInv, KeptExact
<1>2. QED
  BY <1>1, MapsTyped, EdgesAre DEF IInv

\* The tool ends when it has visited every module.
DoneIsAll == pc = "done" => todo = {}

LEMMA DoneIsAllCorrect == Spec => []DoneIsAll
<1>1. Init => DoneIsAll
  BY DEF Init, DoneIsAll
<1>2. DoneIsAll /\ [Next]_vars => DoneIsAll'
  BY DEF DoneIsAll, Next, vars, output, input, ReadLine, ReadDropped, ReadEof, Pick, Check,
         CheckOverflow, CheckEnd, PrintOut, Finish
<1>3. QED
  BY <1>1, <1>2, PTL DEF Spec

\* On every file without a cycle, with any number of modules visited in any
\* order, a module reaches over the edges that DependsOn left what it reached
\* over those that were read.
THEOREM SameReachCorrect == Spec => []SameReach
<1>1. IInv /\ RInv /\ DoneIsAll => SameReach
  BY DoneReduced, ReducedReach DEF SameReach, DoneIsAll
<1>2. QED
  BY <1>1, Invariance, ReductionInvariance, DoneIsAllCorrect, PTL

\* And none of the edges left can be spared.
THEOREM NoRedundantEdgeCorrect == Spec => []NoRedundantEdge
<1>1. IInv /\ RInv /\ DoneIsAll => NoRedundantEdge
  BY DoneReduced, ReducedNeeded DEF NoRedundantEdge, DoneIsAll
<1>2. QED
  BY <1>1, Invariance, ReductionInvariance, DoneIsAllCorrect, PTL

\* The recursion of DependsOn, which keeps no record of where it has been,
\* ends on every file without a cycle.
THEOREM OverflowMeansCycleCorrect == Spec => []OverflowMeansCycle
BY ReductionInvariance, PTL DEF RInv

=============================================================================
