--------------------------- MODULE WorkerPool_proofs --------------------------
(***************************************************************************)
(* start_threads with doall_default, for every number of cpus, threads,    *)
(* references and entries, and every mix of results of kthread_create.     *)
(***************************************************************************)
EXTENDS WorkerPool, FiniteSetTheorems, TLAPS

USE DEF Boot, Entries

\* There is at least one worker, on an online cpu, and never on the last one
\* of several.
LEMMA WorkersFit ==
    /\ MaxCpus \in Nat \ {0}
    /\ MaxCpus <= Online
    /\ Online > 1 => MaxCpus <= Online - 1
  BY CpuAssumption, ThreadsAssumption DEF MaxCpus

(***************************************************************************)
(* The inductive invariant.                                                *)
(***************************************************************************)

\* Slots of the loop of start_threads: a worker exists only below the loop
\* counter, and the task itself calls doall_default only for the slot the
\* counter stands at.
SlotInv ==
    /\ spc = "inline" => it < MaxCpus
    /\ spc # "inline" => cpc[Boot] = "none"
    /\ \A w \in Workers : cpc[w] # "none" => w < it

\* The entries before position k have been entered once and have returned.
WalkedTo(k) ==
    /\ done = 1..(k - 1)
    /\ \A j \in Entries : starts[j] = IF j < k THEN 1 ELSE 0

\* The same, and entry k is running.
RunningAt(k) ==
    /\ done = 1..(k - 1)
    /\ \A j \in Entries : starts[j] = IF j <= k THEN 1 ELSE 0

\* The caller that found init_done = 0 is the only one in the list; once it
\* has left, the list is done.
WalkInv ==
    /\ \A c \in Callers : Walking(c) => init_done = 1 /\ ~opened
    /\ \A c, d \in Callers : Walking(c) /\ Walking(d) => c = d
    /\ \A c \in Callers : cpc[c] = "list" => WalkedTo(cit[c])
    /\ \A c \in Callers : cpc[c] = "call" => cit[c] <= N /\ RunningAt(cit[c])
    /\ init_done = 0 => ~opened /\ done = {} /\ \A j \in Entries : starts[j] = 0
    /\ init_done = 1 =>
          opened \/ done = Entries \/ \E c \in Callers : Walking(c)
    /\ opened => done = {}
    /\ SequentialOnce

\* The step to zero happens once, and only it leads to free_initmem().
FreeInv ==
    /\ frees \in {0, 1}
    /\ free_init_ref > 0 =>
          frees = 0 /\ \A c \in Callers : cpc[c] # "free"
    /\ frees = 1 => \A c \in Callers : cpc[c] # "free"
    /\ \A c, d \in Callers : cpc[c] = "free" /\ cpc[d] = "free" => c = d

(***************************************************************************)
(* Types.                                                                  *)
(***************************************************************************)

\* Every step keeps the types; the loops stay within their bounds.
LEMMA TypeStep ==
    ASSUME TypeOK, SlotInv, WalkInv, [Next]_vars
    PROVE  TypeOK'
  <1> USE NAssumption, WorkersFit DEF TypeOK, Goto, Workers, Callers
  <1>1. CASE StartThread
    BY <1>1 DEF StartThread, mvars, hvars
  <1>2. CASE StartInline
    BY <1>2 DEF StartInline, mvars, hvars
  <1>3. CASE StartOops
    BY <1>3 DEF StartOops, mvars, hvars
  <1>4. CASE InlineReturn
    BY <1>4 DEF InlineReturn, SlotInv, mvars, hvars
  <1>5. CASE StartReturn
    BY <1>5 DEF StartReturn, mvars, hvars
  <1>6. ASSUME NEW c \in Callers, DoAll(c) PROVE TypeOK'
    <2>1. CASE Xchg(c)
      BY <2>1 DEF Xchg, svars, mvars, hvars
    <2>2. CASE Call(c)
      BY <2>2 DEF Call, svars, mvars
    <2>3. CASE CallReturn(c)
      <3>1. cit[c] \in 1..N
        BY <2>3 DEF CallReturn, WalkInv
      <3>2. cit' \in [Callers -> 1..(N + 1)]
        BY <2>3, <3>1 DEF CallReturn
      <3>3. cpc' = [cpc EXCEPT ![c] = "list"] /\ done' \subseteq Entries
        BY <2>3, <3>1 DEF CallReturn
      <3>4. QED
        BY <2>3, <3>2, <3>3 DEF CallReturn, svars, mvars
    <2>4. CASE ListEnd(c)
      BY <2>4 DEF ListEnd, svars, mvars, hvars
    <2>5. CASE Dec(c)
      BY <2>5 DEF Dec, svars, hvars
    <2>6. CASE Free(c)
      BY <2>6 DEF Free, svars, hvars
    <2>7. CASE Fault(c)
      BY <2>7 DEF Fault, svars, mvars, hvars
    <2>8. QED
      BY <1>6, <2>1, <2>2, <2>3, <2>4, <2>5, <2>6, <2>7 DEF DoAll
  <1>7. CASE Open
    BY <1>7 DEF Open, svars, mvars, hvars
  <1>8. CASE UNCHANGED vars
    BY <1>8 DEF vars, svars, mvars, hvars
  <1>9. QED
    BY <1>1, <1>2, <1>3, <1>4, <1>5, <1>6, <1>7, <1>8 DEF Next, StartStep

\* The slots of start_threads after a step.
LEMMA SlotStep ==
    ASSUME TypeOK, SlotInv, [Next]_vars
    PROVE  SlotInv'
  <1> USE WorkersFit DEF TypeOK, SlotInv, Goto, Workers, Callers
  <1>1. CASE StartStep
    <2>1. CASE StartThread
      BY <2>1 DEF StartThread
    <2>2. CASE StartInline
      BY <2>2 DEF StartInline
    <2>3. CASE InlineReturn
      BY <2>3 DEF InlineReturn
    <2>4. CASE StartOops \/ StartReturn
      BY <2>4 DEF StartOops, StartReturn
    <2>5. QED
      BY <1>1, <2>1, <2>2, <2>3, <2>4 DEF StartStep
  <1>2. ASSUME NEW c \in Callers, DoAll(c) PROVE SlotInv'
    <2>1. /\ UNCHANGED <<spc, it>>
          /\ cpc[c] # "none"
          /\ \A d \in Callers \ {c} : cpc'[d] = cpc[d]
      BY <1>2 DEF DoAll, Xchg, Call, CallReturn, ListEnd, Dec, Free, Fault,
                  svars
    <2>2. QED
      BY <2>1
  <1>3. CASE Open
    BY <1>3 DEF Open, svars
  <1>4. CASE UNCHANGED vars
    BY <1>4 DEF vars, svars
  <1>5. QED
    BY <1>1, <1>2, <1>3, <1>4 DEF Next

(***************************************************************************)
(* One walk of the list.                                                   *)
(***************************************************************************)

\* The walk after a step.
LEMMA WalkStep ==
    ASSUME TypeOK, SlotInv, WalkInv, [Next]_vars
    PROVE  WalkInv'
  <1> USE NAssumption, WorkersFit DEF TypeOK, Callers, Workers
  <1>1. ASSUME UNCHANGED <<cit, init_done, opened, starts, done>>,
               \A c \in Callers :
                  \/ {cpc[c], cpc'[c]} \subseteq {"begin", "dec", "free", "exit", "none"}
                  \/ cpc'[c] = cpc[c]
        PROVE  WalkInv'
    BY <1>1 DEF WalkInv, Walking, WalkedTo, RunningAt, SequentialOnce
  <1>2. CASE StartStep
    <2>1. CASE StartThread
      BY <2>1, <1>1 DEF StartThread, Goto, SlotInv, hvars
    <2>2. CASE StartInline
      BY <2>2, <1>1 DEF StartInline, Goto, SlotInv, hvars
    <2>3. CASE StartOops
      BY <2>3, <1>1 DEF StartOops, hvars
    <2>4. CASE InlineReturn
      BY <2>4, <1>1 DEF InlineReturn, Goto, hvars
    <2>5. CASE StartReturn
      BY <2>5, <1>1 DEF StartReturn, hvars
    <2>6. QED
      BY <1>2, <2>1, <2>2, <2>3, <2>4, <2>5 DEF StartStep
  <1>3. ASSUME NEW c \in Callers, DoAll(c) PROVE WalkInv'
    <2>1. CASE Xchg(c)
      <3>1. CASE init_done = 0
        <4>1. /\ \A d \in Callers : ~Walking(d)
              /\ ~opened /\ done = {} /\ \A j \in Entries : starts[j] = 0
              /\ UNCHANGED <<opened, starts, done>>
          BY <2>1, <3>1 DEF Xchg, WalkInv, hvars
        <4>2. /\ cpc' = [cpc EXCEPT ![c] = "list"]
              /\ cit'[c] = 1
              /\ init_done' = 1
          BY <2>1, <3>1 DEF Xchg, Goto
        <4>3. \A d \in Callers : Walking(d)' <=> d = c
          BY <4>1, <4>2 DEF Walking
        <4>4. WalkedTo(cit[c])'
          BY <4>1, <4>2 DEF WalkedTo
        <4>5. \A d \in Callers : cpc'[d] = "list" => d = c
          BY <4>1, <4>2 DEF Walking
        <4>6. \A d \in Callers : cpc'[d] # "call"
          BY <4>1, <4>2 DEF Walking
        <4>7. SequentialOnce'
          BY <4>1 DEF SequentialOnce
        <4>8. QED
          BY <4>1, <4>2, <4>3, <4>4, <4>5, <4>6, <4>7 DEF WalkInv
      <3>2. CASE init_done = 1
        <4>1. /\ cpc[c] = "begin" /\ cpc' = [cpc EXCEPT ![c] = "dec"]
              /\ cit' = [cit EXCEPT ![c] = 1]
              /\ UNCHANGED <<init_done, opened, starts, done>>
          BY <2>1, <3>2 DEF Xchg, Goto, hvars
        <4>2. \A d \in Callers :
                 /\ Walking(d)' <=> Walking(d)
                 /\ Walking(d) => cpc'[d] = cpc[d] /\ cit'[d] = cit[d]
          BY <4>1 DEF Walking
        <4>3. \A d \in Callers :
                 /\ cpc'[d] = "list" => cpc[d] = "list" /\ cit'[d] = cit[d]
                 /\ cpc'[d] = "call" => cpc[d] = "call" /\ cit'[d] = cit[d]
          BY <4>2 DEF Walking
        <4>4. QED
          BY <4>1, <4>2, <4>3 DEF WalkInv, WalkedTo, RunningAt, SequentialOnce
      <3>3. QED
        BY <3>1, <3>2
    <2>2. CASE Call(c)
      BY <2>2 DEF Call, Goto, WalkInv, Walking, WalkedTo, RunningAt,
                  SequentialOnce
    <2>3. CASE CallReturn(c)
      BY <2>3 DEF CallReturn, Goto, WalkInv, Walking, WalkedTo, RunningAt,
                  SequentialOnce
    <2>4. CASE ListEnd(c)
      BY <2>4 DEF ListEnd, Goto, WalkInv, Walking, WalkedTo, RunningAt,
                  SequentialOnce, hvars
    <2>5. CASE Dec(c)
      BY <2>5, <1>1 DEF Dec, Goto, hvars
    <2>6. CASE Free(c)
      BY <2>6, <1>1 DEF Free, Goto, hvars
    <2>7. CASE Fault(c)
      BY <2>7 DEF Fault, Goto, WalkInv, Walking, WalkedTo, RunningAt,
                  SequentialOnce, hvars
    <2>8. QED
      BY <1>3, <2>1, <2>2, <2>3, <2>4, <2>5, <2>6, <2>7 DEF DoAll
  <1>4. CASE Open
    BY <1>4 DEF Open, WalkInv, Walking, WalkedTo, RunningAt, SequentialOnce,
                hvars
  <1>5. CASE UNCHANGED vars
    BY <1>5, <1>1 DEF vars, hvars
  <1>6. QED
    BY <1>2, <1>3, <1>4, <1>5 DEF Next

(***************************************************************************)
(* The counter.                                                            *)
(***************************************************************************)

\* free_initmem() after a step.
LEMMA FreeStep ==
    ASSUME TypeOK, SlotInv, FreeInv, [Next]_vars
    PROVE  FreeInv'
  <1> USE WorkersFit DEF TypeOK, FreeInv, Goto, Callers, Workers
  <1>1. CASE StartStep
    BY <1>1 DEF StartStep, StartThread, StartInline, StartOops, InlineReturn,
                StartReturn, SlotInv, mvars
  <1>2. ASSUME NEW c \in Callers, DoAll(c) PROVE FreeInv'
    <2>1. CASE Dec(c)
      BY <2>1 DEF Dec, DecAndTest
    <2>2. CASE Free(c)
      BY <2>2 DEF Free
    <2>3. CASE Xchg(c) \/ Call(c) \/ CallReturn(c) \/ ListEnd(c) \/ Fault(c)
      BY <2>3 DEF Xchg, Call, CallReturn, ListEnd, Fault, mvars
    <2>4. QED
      BY <1>2, <2>1, <2>2, <2>3 DEF DoAll
  <1>3. CASE Open
    BY <1>3 DEF Open, mvars
  <1>4. CASE UNCHANGED vars
    BY <1>4 DEF vars, mvars
  <1>5. QED
    BY <1>1, <1>2, <1>3, <1>4 DEF Next

\* The slots whose call of doall_default has dropped its reference: workers
\* past the decrement, calls in place that are over, and the one under way.
Past ==
    {w \in Workers :
        \/ w < it /\ cpc[w] \in {"none", "free", "exit"}
        \/ w = it /\ cpc[Boot] \in {"free", "exit"}}

\* Each slot drops one reference, after init_done was set.
CountInv ==
    /\ free_init_ref = Refs - Cardinality(Past)
    /\ Past # {} => init_done = 1
    /\ \A c \in Callers : cpc[c] = "dec" => init_done = 1

\* Past is a finite set of slots.
LEMMA PastFinite ==
    /\ IsFiniteSet(Past) /\ IsFiniteSet(Past')
    /\ Cardinality(Past) \in Nat
  <1>1. IsFiniteSet(Workers)
    BY WorkersFit, FS_Interval DEF Workers
  <1>2. Past \in SUBSET Workers /\ Past' \in SUBSET Workers
    BY DEF Past
  <1>3. QED
    BY <1>1, <1>2, FS_Subset, FS_CardinalityType

\* The count of dropped references after a step.
LEMMA CountStep ==
    ASSUME TypeOK, SlotInv, WalkInv, CountInv, [Next]_vars
    PROVE  CountInv'
  <1> USE WorkersFit DEF TypeOK, Goto, Callers, Workers
  <1>1. ASSUME Past' = Past, UNCHANGED free_init_ref,
               init_done = 1 => init_done' = 1,
               \A c \in Callers : cpc'[c] = "dec" => cpc[c] = "dec" \/ init_done' = 1
        PROVE  CountInv'
    BY <1>1 DEF CountInv
  <1>2. CASE StartThread
    <2>1. cpc[it] = "none" /\ cpc[Boot] = "none"
      BY <1>2 DEF StartThread, SlotInv
    <2>2. Past' = Past
      BY <1>2, <2>1 DEF StartThread, Past
    <2>3. QED
      BY <1>1, <1>2, <2>2 DEF StartThread, mvars
  <1>3. CASE StartInline
    <2>1. cpc[Boot] = "none"
      BY <1>3 DEF StartInline, SlotInv
    <2>2. Past' = Past
      BY <1>3, <2>1 DEF StartInline, Past
    <2>3. QED
      BY <1>1, <1>3, <2>2 DEF StartInline, mvars
  <1>4. CASE InlineReturn
    <2>1. it < MaxCpus /\ it \in Workers /\ cpc[it] = "none"
      BY <1>4 DEF InlineReturn, SlotInv
    <2>2. Past' = Past
      BY <1>4, <2>1 DEF InlineReturn, Past
    <2>3. QED
      BY <1>1, <1>4, <2>2 DEF InlineReturn, mvars
  <1>5. CASE StartOops \/ StartReturn
    BY <1>1, <1>5 DEF StartOops, StartReturn, Past, mvars
  <1>6. ASSUME NEW c \in Callers, DoAll(c) PROVE CountInv'
    <2> DEFINE slot == IF c = Boot THEN it ELSE c
    <2>0. UNCHANGED it
      BY <1>6 DEF DoAll, Xchg, Call, CallReturn, ListEnd, Dec, Free, Fault, svars
    <2>1. cpc[c] # "none"
      BY <1>6 DEF DoAll, Xchg, Call, CallReturn, ListEnd, Dec, Free, Fault
    <2>2. /\ slot \in Workers
          /\ c # Boot => c < it
          /\ c = Boot => cpc[slot] = "none"
      BY <2>1 DEF SlotInv
    <2>3. CASE Dec(c)
      <3>1. /\ free_init_ref' = free_init_ref - 1
            /\ cpc[c] = "dec"
            /\ \/ cpc' = [cpc EXCEPT ![c] = "free"]
               \/ cpc' = [cpc EXCEPT ![c] = "exit"]
            /\ init_done = 1 /\ init_done' = 1
        BY <2>3 DEF Dec, CountInv
      <3>2. slot \notin Past
        BY <2>2, <3>1 DEF Past
      <3>3. Past' = Past \cup {slot}
        <4>1. CASE c = Boot
          BY <2>0, <2>2, <3>1, <4>1 DEF Past
        <4>2. CASE c # Boot
          BY <2>0, <2>2, <3>1, <4>2 DEF Past
        <4>3. QED
          BY <4>1, <4>2
      <3>4. Cardinality(Past') = Cardinality(Past) + 1
        BY <3>2, <3>3, PastFinite, FS_AddElement
      <3>5. QED
        BY <3>1, <3>4, PastFinite, RefsAssumption DEF CountInv
    <2>4. CASE Free(c)
      <3>1. cpc[c] = "free" /\ cpc' = [cpc EXCEPT ![c] = "exit"]
        BY <2>4 DEF Free
      <3>2. Past' = Past
        BY <2>0, <3>1 DEF Past
      <3>3. QED
        BY <1>1, <2>4, <3>1, <3>2 DEF Free
    <2>5. CASE Xchg(c) \/ Call(c) \/ CallReturn(c) \/ ListEnd(c) \/ Fault(c)
      <3>1. /\ UNCHANGED free_init_ref
            /\ \E l \in {"list", "dec", "call", "oops"} :
                  cpc' = [cpc EXCEPT ![c] = l]
            /\ cpc[c] \in {"begin", "list", "call"}
            /\ init_done' = 1
        BY <2>5 DEF Xchg, Call, CallReturn, ListEnd, Fault, mvars, WalkInv, Walking
      <3>2. Past' = Past
        BY <2>0, <3>1 DEF Past
      <3>3. QED
        BY <1>1, <3>1, <3>2
    <2>6. QED
      BY <1>6, <2>3, <2>4, <2>5 DEF DoAll
  <1>7. CASE Open
    BY <1>1, <1>7 DEF Open, Past, svars, mvars
  <1>8. CASE UNCHANGED vars
    BY <1>1, <1>8 DEF vars, Past, svars, mvars
  <1>9. QED
    BY <1>2, <1>3, <1>4, <1>5, <1>6, <1>7, <1>8 DEF Next, StartStep

-----------------------------------------------------------------------------
IInv == TypeOK /\ SlotInv /\ WalkInv /\ FreeInv /\ CountInv

\* IInv holds throughout, whatever kthread_create returns.
THEOREM Invariance == Spec => []IInv
  <1>1. Init => IInv
    <2> SUFFICES ASSUME Init PROVE IInv
      OBVIOUS
    <2> USE NAssumption, WorkersFit, RefsAssumption DEF Init, Callers, Workers
    <2>1. TypeOK
      <3>1. cit \in [Callers -> 1..(N + 1)] /\ starts \in [Entries -> Nat]
        OBVIOUS
      <3>2. cpc \in [Callers -> {"none"}]
        OBVIOUS
      <3>3. cpc \in [Callers -> {"none", "begin", "list", "call", "dec",
                                "free", "exit", "oops"}]
        BY <3>2
      <3>4. spc = "loop" /\ it \in 0..MaxCpus /\ init_done = 0
        OBVIOUS
      <3>5. opened \in BOOLEAN /\ done \subseteq Entries
        BY Zenon
      <3>6. free_init_ref \in Int /\ frees \in Nat
        OBVIOUS
      <3>7. QED
        BY <3>1, <3>3, <3>4, <3>5, <3>6, Zenon DEF TypeOK
    <2>2. SlotInv
      BY DEF SlotInv
    <2>3. WalkInv
      BY DEF WalkInv, Walking, WalkedTo, RunningAt, SequentialOnce
    <2>4. FreeInv
      BY DEF FreeInv
    <2>5. Past = {}
      BY DEF Past
    <2>6. CountInv
      BY <2>5, FS_EmptySet DEF CountInv
    <2>7. QED
      BY <2>1, <2>2, <2>3, <2>4, <2>6 DEF IInv
  <1>2. IInv /\ [Next]_vars => IInv'
    BY TypeStep, SlotStep, WalkStep, FreeStep, CountStep DEF IInv
  <1>3. QED
    BY <1>1, <1>2, PTL DEF Spec

\* Type correctness.
THEOREM TypeCorrect == Spec => []TypeOK
  BY Invariance, PTL DEF IInv

\* doall_default runs the list once and in order, however many callers race
\* for init_done.
THEOREM SequentialOnceCorrect == Spec => []SequentialOnce
  <1>1. IInv => SequentialOnce
    BY DEF IInv, WalkInv
  <1>2. QED
    BY <1>1, Invariance, PTL

\* The list goes to a caller of doall_default or to device_open, never both.
THEOREM OneWalkerCorrect == Spec => []OneWalker
  <1>1. IInv => OneWalker
    BY DEF IInv, WalkInv, OneWalker
  <1>2. QED
    BY <1>1, Invariance, PTL

\* Workers sit on online cpus and leave one free, for every configuration.
THEOREM CpusValidCorrect == Spec => []CpusValid
  <1>1. IInv => CpusValid
    BY WorkersFit, CpuAssumption DEF CpusValid, Workers
  <1>2. QED
    BY <1>1, Invariance, PTL

\* Init memory is freed at most once.
THEOREM FreeOnceCorrect == Spec => []FreeOnce
  <1>1. IInv => FreeOnce
    BY DEF IInv, FreeInv, FreeOnce
  <1>2. QED
    BY <1>1, Invariance, PTL

\* With a reference per call, init memory outlives the walk of the list.
THEOREM EnoughRefsCorrect == Spec => []EnoughRefsFreeLast
  <1>1. IInv => EnoughRefsFreeLast
    <2> SUFFICES ASSUME IInv, Refs >= MaxCpus, frees > 0
                 PROVE  done = Entries \/ opened
      BY DEF EnoughRefsFreeLast
    <2> USE WorkersFit, RefsAssumption
    <2>1. free_init_ref <= 0
      BY DEF IInv, FreeInv, TypeOK
    <2>2. IsFiniteSet(Workers) /\ Cardinality(Workers) = MaxCpus
      BY FS_Interval DEF Workers
    <2>3. Past \in SUBSET Workers
      BY DEF Past
    <2>4. Cardinality(Past) >= MaxCpus
      BY <2>1, PastFinite DEF IInv, CountInv
    <2>5. Past = Workers
      BY <2>2, <2>3, <2>4, PastFinite, FS_Subset
    <2>6. \A c \in Workers : ~Walking(c)
      BY <2>5 DEF IInv, SlotInv, TypeOK, Past, Workers, Walking
    <2>7. ~Walking(Boot)
      <3> SUFFICES ASSUME Walking(Boot) PROVE FALSE
        OBVIOUS
      <3>1. it \in Workers
        BY DEF IInv, SlotInv, TypeOK, Walking, Workers
      <3>2. QED
        BY <2>5, <3>1 DEF Past, Walking, IInv, TypeOK
    <2>8. init_done = 1
      <3>1. 0 \in Workers
        BY DEF Workers
      <3>2. Past # {}
        BY <2>5, <3>1
      <3>3. QED
        BY <3>2 DEF IInv, CountInv
    <2>9. QED
      BY <2>6, <2>7, <2>8 DEF IInv, WalkInv, Callers
  <1>2. QED
    BY <1>1, Invariance, PTL

=============================================================================
