------------------------------- MODULE WorkerPool -----------------------------
(***************************************************************************)
(* The other way of running the list that drivers/async.c holds:           *)
(* start_threads makes one kernel thread per cpu, and every thread runs    *)
(* doall_default, which lets one of its callers walk the whole list.       *)
(* Both functions are compiled and exported; nothing in the tree calls     *)
(* them, so this module starts where a caller would: start_threads has     *)
(* just been entered with thread_fnc = doall_default, the one function of  *)
(* the file that is safe to run in several threads at a time.              *)
(*                                                                         *)
(* doall_default shares the word init_done with device_open, and           *)
(* free_init_ref with device_read (module AsyncInit).                      *)
(***************************************************************************)
EXTENDS Integers

CONSTANTS
    N,              \* number of registered init functions
    Online,         \* num_online_cpus(); the cpus are 0..Online-1
    Threads,        \* CONFIG_ASYNCHRO_MODULE_INIT_THREADS
    Refs,           \* free_init_ref when start_threads is entered
    Results         \* what kthread_create may return

ASSUME NAssumption == N \in Nat
ASSUME CpuAssumption == Online \in Nat \ {0}
ASSUME ThreadsAssumption == Threads \in Nat
ASSUME RefsAssumption == Refs \in Nat \ {0}
ASSUME ResultsAssumption == Results \subseteq {"ok", "ENOMEM", "EINTR"}

Entries == 1..N

\* max_cpus of start_threads: at most Threads, at least one, and one cpu is
\* left alone when there is more than one.
MaxCpus ==
    LET capped == IF Online > Threads THEN Threads ELSE Online
        atLeast1 == IF capped = 0 THEN 1 ELSE capped
    IN  IF atLeast1 > 1 THEN atLeast1 - 1 ELSE atLeast1

Workers == 0..(MaxCpus - 1)
Boot == -1          \* the task that runs start_threads itself
Callers == Workers \cup {Boot}

VARIABLES
    spc, it,        \* start_threads: control point, loop counter
    cpc, cit,       \* doall_default, per caller: control point, it_init_fnc
    init_done,      \* the word both doall_default and device_open exchange
    opened,         \* device_open has handed the list to a process
    free_init_ref,  \* references that keep init memory
    frees,          \* calls of free_initmem() so far
    starts,         \* history: how often each init function was entered
    done            \* history: the init functions that have returned

svars == <<spc, it>>
mvars == <<free_init_ref, frees>>
hvars == <<starts, done>>
vars == <<svars, cpc, cit, init_done, opened, mvars, hvars>>

Init ==
    /\ spc = "loop"
    /\ it = 0
    /\ cpc = [c \in Callers |-> "none"]
    /\ cit = [c \in Callers |-> 1]
    /\ init_done = 0
    /\ opened = FALSE
    /\ free_init_ref = Refs
    /\ frees = 0
    /\ starts = [i \in Entries |-> 0]
    /\ done = {}

Goto(c, l) == cpc' = [cpc EXCEPT ![c] = l]

(***************************************************************************)
(* start_threads.                                                          *)
(***************************************************************************)

\* kthread_create, kthread_bind and wake_up_process.
StartThread ==
    /\ spc = "loop" /\ it < MaxCpus
    /\ "ok" \in Results
    /\ Goto(it, "begin")
    /\ it' = it + 1
    /\ UNCHANGED <<spc, cit, init_done, opened, mvars, hvars>>

\* Mutant: the failure is reported and the loop goes on.
StartInlineSkipped ==
    /\ spc = "loop" /\ it < MaxCpus
    /\ "ENOMEM" \in Results
    /\ it' = it + 1
    /\ UNCHANGED <<spc, cpc, cit, init_done, opened, mvars, hvars>>

\* kthread_create returned ERR_PTR(-ENOMEM): "fall back to normal mode", the
\* thread function is called in place.
StartInline ==
    /\ spc = "loop" /\ it < MaxCpus
    /\ "ENOMEM" \in Results
    /\ Goto(Boot, "begin")
    /\ spc' = "inline"
    /\ UNCHANGED <<it, cit, init_done, opened, mvars, hvars>>

\* Any other error pointer is taken for a thread: kthread_bind dereferences
\* it.
StartOops ==
    /\ spc = "loop" /\ it < MaxCpus
    /\ "EINTR" \in Results
    /\ spc' = "oops"
    /\ UNCHANGED <<it, cpc, cit, init_done, opened, mvars, hvars>>

\* The call in place is over.
InlineReturn ==
    /\ spc = "inline" /\ cpc[Boot] = "exit"
    /\ Goto(Boot, "none")
    /\ spc' = "loop"
    /\ it' = it + 1
    /\ UNCHANGED <<cit, init_done, opened, mvars, hvars>>

\* start_threads returns 0.  It waits for nothing.
StartReturn ==
    /\ spc = "loop" /\ it = MaxCpus
    /\ spc' = "returned"
    /\ UNCHANGED <<it, cpc, cit, init_done, opened, mvars, hvars>>

(***************************************************************************)
(* doall_default.                                                          *)
(***************************************************************************)

\* Mutant: the word is read, and set when the list is done.
XchgLate(c) ==
    /\ cpc[c] = "begin"
    /\ Goto(c, IF init_done = 0 THEN "list" ELSE "dec")
    /\ cit' = [cit EXCEPT ![c] = 1]
    /\ init_done' = IF done = Entries THEN 1 ELSE init_done
    /\ UNCHANGED <<svars, opened, mvars, hvars>>

\* atomic_xchg(&init_done, 1): whoever finds 0 walks the list.
Xchg(c) ==
    /\ cpc[c] = "begin"
    /\ Goto(c, IF init_done = 0 THEN "list" ELSE "dec")
    /\ cit' = [cit EXCEPT ![c] = 1]
    /\ init_done' = 1
    /\ UNCHANGED <<svars, opened, mvars, hvars>>

\* do_one_initcall of the next entry, whatever its type.
Call(c) ==
    /\ cpc[c] = "list" /\ cit[c] <= N
    /\ Goto(c, "call")
    /\ starts' = [starts EXCEPT ![cit[c]] = @ + 1]
    /\ UNCHANGED <<svars, cit, init_done, opened, mvars, done>>

\* It returns; the result is dropped.
CallReturn(c) ==
    /\ cpc[c] = "call"
    /\ Goto(c, "list")
    /\ cit' = [cit EXCEPT ![c] = @ + 1]
    /\ done' = done \cup {cit[c]}
    /\ UNCHANGED <<svars, init_done, opened, mvars, starts>>

\* __async_initcall_end.
ListEnd(c) ==
    /\ cpc[c] = "list" /\ cit[c] > N
    /\ Goto(c, "dec")
    /\ UNCHANGED <<svars, cit, init_done, opened, mvars, hvars>>

\* Mutant: "no references left" also holds below zero.
DecAndTestLoose(v) == v - 1 <= 0

\* atomic_dec_and_test: TRUE when the decrement makes the counter zero.
DecAndTest(v) == v - 1 = 0

\* Every caller drops a reference, those that did not walk the list too.
Dec(c) ==
    /\ cpc[c] = "dec"
    /\ free_init_ref' = free_init_ref - 1
    /\ Goto(c, IF DecAndTest(free_init_ref) THEN "free" ELSE "exit")
    /\ UNCHANGED <<svars, cit, init_done, opened, frees, hvars>>

Free(c) ==
    /\ cpc[c] = "free"
    /\ frees' = frees + 1
    /\ Goto(c, "exit")
    /\ UNCHANGED <<svars, cit, init_done, opened, free_init_ref, hvars>>

\* The list and the init functions are in init memory: once it is freed, the
\* walk may fault.
Fault(c) ==
    /\ frees > 0
    /\ cpc[c] = "call" \/ (cpc[c] = "list" /\ cit[c] <= N)
    /\ Goto(c, "oops")
    /\ UNCHANGED <<svars, cit, init_done, opened, mvars, hvars>>

DoAll(c) ==
    \/ Xchg(c)
    \/ Call(c)
    \/ CallReturn(c)
    \/ ListEnd(c)
    \/ Dec(c)
    \/ Free(c)
    \/ Fault(c)

\* device_open in some process: the first one gets the list unless a caller
\* of doall_default was faster (what it does with it is AsyncInit's part).
Open ==
    /\ init_done = 0
    /\ init_done' = 1
    /\ opened' = TRUE
    /\ UNCHANGED <<svars, cpc, cit, mvars, hvars>>

-----------------------------------------------------------------------------
StartStep ==
    \/ StartThread
    \/ StartInline
    \/ StartOops
    \/ InlineReturn
    \/ StartReturn

Next ==
    \/ StartStep
    \/ \E c \in Callers : DoAll(c)
    \/ Open

Spec == Init /\ [][Next]_vars

\* The calling task goes on, a thread that was woken is scheduled, and init
\* functions return.
Fairness ==
    /\ WF_vars(StartStep)
    /\ \A c \in Callers : WF_vars(DoAll(c))

FairSpec == Spec /\ Fairness

-----------------------------------------------------------------------------
(***************************************************************************)
(* Properties.                                                             *)
(***************************************************************************)

\* Type invariant.
TypeOK ==
    /\ spc \in {"loop", "inline", "returned", "oops"}
    /\ it \in 0..MaxCpus
    /\ cpc \in [Callers -> {"none", "begin", "list", "call", "dec", "free",
                            "exit", "oops"}]
    /\ cit \in [Callers -> 1..(N + 1)]
    /\ init_done \in {0, 1}
    /\ opened \in BOOLEAN
    /\ free_init_ref \in Int
    /\ frees \in Nat
    /\ starts \in [Entries -> Nat]
    /\ done \subseteq Entries

Walking(c) == cpc[c] \in {"list", "call", "oops"}

\* However thread creation and the calls in place of failed threads mix, one
\* walk of the list happens: no entry is entered twice, and one is entered
\* only after every earlier one has returned.
SequentialOnce ==
    \A j \in Entries :
        /\ starts[j] <= 1
        /\ starts[j] > 0 => 1..(j - 1) \subseteq done

\* The exchange on init_done also keeps doall_default and the readers of
\* /proc/deferred_initcalls apart: the list goes to one of them.
OneWalker == opened => \A c \in Callers : ~Walking(c) /\ done = {}

\* A worker is bound to a cpu that is there, and when there are several the
\* last one is left to the rest of the system.
CpusValid ==
    \A c \in Workers :
        cpc[c] # "none" => c < Online /\ (Online > 1 => c < Online - 1)

\* free_initmem() is called at most once.
FreeOnce == frees <= 1

\* When free_init_ref holds a reference for every call of doall_default, init
\* memory outlives the walk, in whatever order the callers finish.
EnoughRefsFreeLast ==
    (Refs >= MaxCpus /\ frees > 0) => (done = Entries \/ opened)

\* The list is walked to its end even when no thread can be made, unless an
\* unexpected error stops the caller, the list went to a reader, or init
\* memory was taken from the walk.
StartLeadsToDone ==
    <>(done = Entries \/ spc = "oops" \/ opened \/ frees > 0)

\* Claims of comments and messages the code does not keep.

\* drivers/async.c:703 of free_init_ref: "become zero when all drivers are
\* initialize".
ZeroMeansAllDone == free_init_ref <= 0 => (done = Entries \/ opened)

\* drivers/async.c:663 of start_threads: "We need wait for everything done as
\* a barrier to avoid problems".
ReturnIsBarrier == spc = "returned" => (done = Entries \/ opened)

\* drivers/async.c:695: when a thread cannot be made, "fall back to normal
\* mode".
FailureFallsBack == spc # "oops"

=============================================================================
