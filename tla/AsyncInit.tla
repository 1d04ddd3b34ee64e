------------------------------- MODULE AsyncInit ------------------------------
(***************************************************************************)
(* The initialisation runtime of drivers/async.c.                          *)
(*                                                                         *)
(* Drivers registered with _async_module_init land, in link order, in the  *)
(* list __async_initcall_start .. __async_initcall_end, modelled as the    *)
(* positions 1..N (N + 1 is __async_initcall_end).  Three kinds of actors  *)
(* share it:                                                               *)
(*   - kernel_init, which runs async_init and later starts user space;     *)
(*   - the kernel thread do_asynchronized, which calls the entries of type *)
(*     "asynchronized";                                                    *)
(*   - user processes, which open /proc/deferred_initcalls and run one     *)
(*     "deferred" entry with every read.                                   *)
(* The list and the init functions live in init memory, which              *)
(* free_initmem() gives back when free_init_ref reaches zero.              *)
(***************************************************************************)
EXTENDS Integers

CONSTANTS
    N,              \* number of registered init functions
    Type,           \* Type[i]: init_info[id].type of the i-th one
    Parents,        \* Parents[i]: entries named as parent1_id, parent2_id
    NameLen,        \* NameLen[i]: strlen(getName(id))
    Procs,          \* user processes (or threads) that may use the file
    Sizes,          \* values of nbytes a process passes to read
    MayFail,        \* boot calls that may fail: "kthread", "proc"
    PosLock,        \* TRUE: read(2), serialised by the VFS on f_pos_lock;
                    \* FALSE: pread(2), which takes no such lock
    MinRef          \* bound: no new read at the end of the list is started
                    \* once free_init_ref is this low

Entries == 1..N
Kinds == {"asynchronized", "deferred", "disable"}
NotRead == -1       \* ret of a process that has not called the driver yet
EINVAL == 22

ASSUME NAssumption == N \in Nat
ASSUME TypeAssumption == Type \in [Entries -> Kinds]
ASSUME ParentsAssumption == Parents \in [Entries -> SUBSET Entries]
ASSUME NameAssumption == NameLen \in [Entries -> Nat]
ASSUME SizesAssumption == Sizes \subseteq Nat
ASSUME FailAssumption == MayFail \subseteq {"kthread", "proc"}
ASSUME LockAssumption == PosLock \in BOOLEAN
ASSUME RefAssumption == MinRef \in Int

VARIABLES
    boot,           \* where kernel_init is
    proc_entry,     \* /proc/deferred_initcalls exists
    free_init_ref,  \* references that keep init memory
    frees,          \* calls of free_initmem() so far
    init_done,      \* the xchg word of device_open
    apc, ait,       \* do_asynchronized: control point, it_init_fnc
    fd,             \* processes that hold the open file
    private_data,   \* file->private_data, 0 when there is no open file
    rpc, rit,       \* a process in device_read: control point, it_init_fnc
    nbytes, ret,    \* ... the size it passed, the last value returned to it
    starts,         \* history: how often each init function was entered
    done            \* history: the init functions that have returned

bvars == <<boot, proc_entry, free_init_ref>>
avars == <<apc, ait>>
fvars == <<init_done, fd, private_data>>
rvars == <<rpc, rit, nbytes, ret>>
hvars == <<starts, done>>
vars == <<bvars, frees, avars, fvars, rvars, hvars>>

Async == {i \in Entries : Type[i] = "asynchronized"}
Deferred == {i \in Entries : Type[i] = "deferred"}

Init ==
    /\ boot = "start"
    /\ proc_entry = FALSE
    /\ free_init_ref = 1
    /\ frees = 0
    /\ init_done = 0
    /\ apc = "none"
    /\ ait = 1
    /\ fd = {}
    /\ private_data = 0
    /\ rpc = [p \in Procs |-> "user"]
    /\ rit = [p \in Procs |-> 1]
    /\ nbytes = [p \in Procs |-> 0]
    /\ ret = [p \in Procs |-> NotRead]
    /\ starts = [i \in Entries |-> 0]
    /\ done = {}

(***************************************************************************)
(* Shared steps.                                                           *)
(***************************************************************************)

\* Mutant: the scan stops one entry late.
SkipToLate(k, it, j) ==
    /\ j \in (it + 1)..(N + 1)
    /\ \A m \in (it + 1)..(j - 1) : Type[m] # k
    /\ j <= N => Type[j] = k

\* The scan both stages use: from position it, j is the first entry of type
\* k, or the end of the list when there is none.
SkipTo(k, it, j) ==
    /\ j \in it..(N + 1)
    /\ \A m \in it..(j - 1) : Type[m] # k
    /\ j <= N => Type[j] = k

\* do_one_initcall enters entry i, and returns from it.
Enter(i) ==
    /\ starts' = [starts EXCEPT ![i] = @ + 1]
    /\ UNCHANGED done

Leave(i) ==
    /\ done' = done \cup {i}
    /\ UNCHANGED starts

(***************************************************************************)
(* async_init, a module_init function run by kernel_init_freeable.         *)
(***************************************************************************)

\* The two atomic_inc calls.
AsyncInitRefs ==
    /\ boot = "start"
    /\ free_init_ref' = free_init_ref + 2
    /\ boot' = "counted"
    /\ UNCHANGED <<proc_entry, frees, avars, fvars, rvars, hvars>>

\* kthread_create, kthread_bind and wake_up_process.
AsyncInitThread ==
    /\ boot = "counted"
    /\ apc' = "scan"
    /\ boot' = "threaded"
    /\ UNCHANGED <<proc_entry, free_init_ref, frees, ait, fvars, rvars, hvars>>

\* kthread_create returns an ERR_PTR, which nothing tests: kthread_bind
\* dereferences it in the init task and the boot ends there.
AsyncInitThreadFails ==
    /\ boot = "counted"
    /\ "kthread" \in MayFail
    /\ boot' = "oops"
    /\ UNCHANGED <<proc_entry, free_init_ref, frees, avars, fvars, rvars, hvars>>

\* proc_create, whose result is dropped: 0 is returned either way.
AsyncInitProc ==
    /\ boot = "threaded"
    /\ \E ok \in BOOLEAN :
          /\ ok \/ "proc" \in MayFail
          /\ proc_entry' = ok
    /\ boot' = "inited"
    /\ UNCHANGED <<free_init_ref, frees, avars, fvars, rvars, hvars>>

\* Mutant: the free_initmem() of the unpatched kernel is still there.
KernelInitStock ==
    /\ boot = "inited"
    /\ boot' = "running"
    /\ frees' = frees + 1
    /\ UNCHANGED <<proc_entry, free_init_ref, avars, fvars, rvars, hvars>>

\* kernel_init goes on to user space.  The patch removed its free_initmem()
\* and put nothing in its place; async_synchronize_full does not wait for a
\* thread made with kthread_create.
KernelInit ==
    /\ boot = "inited"
    /\ boot' = "running"
    /\ UNCHANGED <<proc_entry, free_init_ref, frees, avars, fvars, rvars, hvars>>

(***************************************************************************)
(* do_asynchronized.                                                       *)
(***************************************************************************)

\* The loop reaches the next entry of its type and calls it.
AsyncCall ==
    /\ apc = "scan"
    /\ \E j \in Entries :
          /\ SkipTo("asynchronized", ait, j)
          /\ ait' = j
          /\ Enter(j)
    /\ apc' = "call"
    /\ UNCHANGED <<bvars, frees, fvars, rvars>>

\* Mutant: the loop is left when an init function reports an error.
AsyncReturnStops ==
    /\ apc = "call"
    /\ Leave(ait)
    /\ ait' = ait + 1
    /\ apc' \in {"scan", "exit"}
    /\ UNCHANGED <<bvars, frees, fvars, rvars>>

\* The call returns; its result is stored in ret and not looked at.
AsyncReturn ==
    /\ apc = "call"
    /\ Leave(ait)
    /\ ait' = ait + 1
    /\ apc' = "scan"
    /\ UNCHANGED <<bvars, frees, fvars, rvars>>

\* The loop is over.  The reference taken for the thread is not dropped.
AsyncExit ==
    /\ apc = "scan"
    /\ SkipTo("asynchronized", ait, N + 1)
    /\ ait' = N + 1
    /\ apc' = "exit"
    /\ UNCHANGED <<bvars, frees, fvars, rvars, hvars>>

\* Once init memory is freed, a read of the list or the running of an init
\* function faults, or still finds the old contents (the actions above).
AsyncOops ==
    /\ frees > 0
    /\ \/ apc = "call"
       \/ apc = "scan" /\ ait <= N
    /\ apc' = "oops"
    /\ UNCHANGED <<bvars, frees, ait, fvars, rvars, hvars>>

(***************************************************************************)
(* device_open, and what the VFS does with the file.                       *)
(***************************************************************************)
CanOpen(p) ==
    /\ boot = "running"
    /\ proc_entry
    /\ rpc[p] = "user"

\* Mutant: a second open is accepted and starts over.
OpenAgain(p) ==
    /\ CanOpen(p)
    /\ init_done' = 1
    /\ private_data' = 1
    /\ fd' = fd \cup {p}
    /\ UNCHANGED <<bvars, frees, avars, rvars, hvars>>

\* atomic_xchg(&init_done, 1) returned 0.
OpenFirst(p) ==
    /\ CanOpen(p)
    /\ init_done = 0
    /\ init_done' = 1
    /\ private_data' = 1
    /\ fd' = fd \cup {p}
    /\ UNCHANGED <<bvars, frees, avars, rvars, hvars>>

\* It returned 1: "deferred init already done", -EINVAL.
OpenRefused(p) ==
    /\ CanOpen(p)
    /\ init_done = 1
    /\ ret' = [ret EXCEPT ![p] = -EINVAL]
    /\ UNCHANGED <<bvars, frees, avars, fvars, rpc, rit, nbytes, hvars>>

\* fork or a file descriptor passed on: q shares p's open file.
Share(p, q) ==
    /\ p \in fd /\ q \notin fd
    /\ rpc[p] = "user" /\ rpc[q] = "user"
    /\ fd' = fd \cup {q}
    /\ UNCHANGED <<bvars, frees, avars, init_done, private_data, rvars, hvars>>

\* p's reference to the file goes away; with the last one the file does.
DropFile(p) ==
    /\ fd' = fd \ {p}
    /\ private_data' = IF fd \subseteq {p} THEN 0 ELSE private_data
    /\ UNCHANGED init_done

\* close or the end of the process; the fops have no release handler.
Close(p) ==
    /\ p \in fd
    /\ rpc[p] = "user"
    /\ DropFile(p)
    /\ UNCHANGED <<bvars, frees, avars, rvars, hvars>>

(***************************************************************************)
(* device_read.                                                            *)
(***************************************************************************)
CanRead(p) ==
    /\ p \in fd
    /\ rpc[p] = "user"
    /\ PosLock => \A q \in Procs : rpc[q] = "user"

\* Mutant: strlen alone, without the "." and the terminator.
ReadCountBare(i, n) == IF NameLen[i] > n THEN n ELSE NameLen[i]

\* The value returned for entry i: a name "" becomes ".", one byte is added
\* for the terminator that turns into '\n', and nbytes caps the sum.
ReadCount(i, n) ==
    LET len == (IF NameLen[i] = 0 THEN 1 ELSE NameLen[i]) + 1
    IN  IF len > n THEN n ELSE len

\* Mutant: the position is stored before the init function has run.
ReadBeginStoresFirst(p, n) ==
    /\ CanRead(p)
    /\ \E j \in Entries :
          /\ SkipTo("deferred", private_data, j)
          /\ rit' = [rit EXCEPT ![p] = j]
          /\ private_data' = j + 1
          /\ Enter(j)
    /\ rpc' = [rpc EXCEPT ![p] = "call"]
    /\ nbytes' = [nbytes EXCEPT ![p] = n]
    /\ UNCHANGED <<bvars, frees, avars, init_done, fd, ret>>

\* Up to do_one_initcall: private_data is read, the scan finds an entry.
ReadBegin(p, n) ==
    /\ CanRead(p)
    /\ \E j \in Entries :
          /\ SkipTo("deferred", private_data, j)
          /\ rit' = [rit EXCEPT ![p] = j]
          /\ Enter(j)
    /\ rpc' = [rpc EXCEPT ![p] = "call"]
    /\ nbytes' = [nbytes EXCEPT ![p] = n]
    /\ UNCHANGED <<bvars, frees, avars, fvars, ret>>

\* The scan reaches the end of the list.
ReadAtEnd(p, n) ==
    /\ CanRead(p)
    /\ free_init_ref > MinRef
    /\ SkipTo("deferred", private_data, N + 1)
    /\ rpc' = [rpc EXCEPT ![p] = "eof"]
    /\ rit' = [rit EXCEPT ![p] = N + 1]
    /\ nbytes' = [nbytes EXCEPT ![p] = n]
    /\ UNCHANGED <<bvars, frees, avars, fvars, ret, hvars>>

\* The init function returns; the rest of device_read is local but for the
\* store to private_data.
ReadReturn(p) ==
    /\ rpc[p] = "call"
    /\ Leave(rit[p])
    /\ rit' = [rit EXCEPT ![p] = @ + 1]
    /\ private_data' = rit[p] + 1
    /\ ret' = [ret EXCEPT ![p] = ReadCount(rit[p], nbytes[p])]
    /\ rpc' = [rpc EXCEPT ![p] = "user"]
    /\ UNCHANGED <<bvars, frees, avars, init_done, fd, nbytes>>

\* Mutant: "no references left" also holds below zero.
DecAndTestLoose(v) == v - 1 <= 0

\* atomic_dec_and_test: TRUE when the decrement makes the counter zero.
DecAndTest(v) == v - 1 = 0

ReadEof(p) ==
    /\ rpc[p] = "eof"
    /\ free_init_ref' = free_init_ref - 1
    /\ \/ /\ DecAndTest(free_init_ref)
          /\ rpc' = [rpc EXCEPT ![p] = "free"]
          /\ UNCHANGED ret
       \/ /\ ~DecAndTest(free_init_ref)
          /\ rpc' = [rpc EXCEPT ![p] = "user"]
          /\ ret' = [ret EXCEPT ![p] = 0]
    /\ UNCHANGED <<boot, proc_entry, frees, avars, fvars, rit, nbytes, hvars>>

\* free_initmem() after a successful test, then return 0.
ReadFree(p) ==
    /\ rpc[p] = "free"
    /\ frees' = frees + 1
    /\ rpc' = [rpc EXCEPT ![p] = "user"]
    /\ ret' = [ret EXCEPT ![p] = 0]
    /\ UNCHANGED <<bvars, avars, fvars, rit, nbytes, hvars>>

\* A read that touches the freed list or runs in freed code may fault; the
\* process is killed.
ReadOops(p) ==
    /\ frees > 0
    /\ \/ rpc[p] = "call"
       \/ CanRead(p) /\ private_data <= N
    /\ rpc' = [rpc EXCEPT ![p] = "oops"]
    /\ DropFile(p)
    /\ UNCHANGED <<bvars, frees, avars, rit, nbytes, ret, hvars>>

-----------------------------------------------------------------------------
BootStep ==
    \/ AsyncInitRefs
    \/ AsyncInitThread
    \/ AsyncInitThreadFails
    \/ AsyncInitProc
    \/ KernelInit

AsyncStep ==
    \/ AsyncCall
    \/ AsyncReturn
    \/ AsyncExit
    \/ AsyncOops

ReadFinish(p) ==
    \/ ReadReturn(p)
    \/ ReadEof(p)
    \/ ReadFree(p)

Read(p) == \E n \in Sizes : ReadBegin(p, n) \/ ReadAtEnd(p, n)

Next ==
    \/ BootStep
    \/ AsyncStep
    \/ \E p \in Procs :
          \/ OpenFirst(p)
          \/ OpenRefused(p)
          \/ \E q \in Procs : Share(p, q)
          \/ Close(p)
          \/ Read(p)
          \/ ReadFinish(p)
          \/ ReadOops(p)

Spec == Init /\ [][Next]_vars

\* The scheduler runs every kernel thread that is ready, an init function
\* returns, and a process that uses the file reads until a read returns 0,
\* as the do .. while loop of utils/mtest.cpp does.
Fairness ==
    /\ WF_vars(BootStep)
    /\ WF_vars(AsyncStep)
    /\ \A p \in Procs :
          /\ WF_vars(ReadFinish(p))
          /\ WF_vars(ret[p] # 0 /\ Read(p))

FairSpec == Spec /\ Fairness

-----------------------------------------------------------------------------
(***************************************************************************)
(* Properties.                                                             *)
(***************************************************************************)

\* Type invariant.  free_init_ref never exceeds the three references of
\* main.c and async_init.
TypeOK ==
    /\ boot \in {"start", "counted", "threaded", "inited", "running", "oops"}
    /\ proc_entry \in BOOLEAN
    /\ free_init_ref \in Int /\ free_init_ref <= 3
    /\ frees \in Nat
    /\ init_done \in {0, 1}
    /\ apc \in {"none", "scan", "call", "exit", "oops"}
    /\ ait \in 1..(N + 1)
    /\ fd \subseteq Procs
    /\ private_data \in 0..(N + 1)
    /\ rpc \in [Procs -> {"user", "call", "eof", "free", "oops"}]
    /\ rit \in [Procs -> 1..(N + 1)]
    /\ nbytes \in [Procs -> Nat]
    /\ ret \in [Procs -> Int]
    /\ starts \in [Entries -> Nat]
    /\ done \subseteq Entries

\* Whatever the interleaving of do_asynchronized and of concurrent
\* device_read calls, an entry is entered only after every earlier entry of
\* its own type has returned: the list order of the linker is a completion
\* order within each stage.
StageOrder ==
    \A i, j \in Entries :
        (i < j /\ Type[i] = Type[j] /\ starts[j] > 0) => i \in done

\* With read(2) on the one file device_open hands out, no init function is
\* entered twice, by whichever processes share the file.
OnlyOnce == \A i \in Entries : starts[i] <= 1

\* A read with room for data that returns 0 tells its caller the truth:
\* every deferred entry has returned.  A script may stop reading there.
ZeroMeansEnd ==
    \A p \in Procs :
        (rpc[p] = "user" /\ ret[p] = 0 /\ nbytes[p] > 0) => Deferred \subseteq done

\* free_initmem() is called at most once, however many reads reach the end.
FreeOnce == frees <= 1

\* Init memory is not given back before the deferred stage is over.
FreedOnlyAfterDeferred == frees > 0 => Deferred \subseteq done

\* With read(2), no deferred init function is running when init memory is
\* given back, and none is entered afterwards: the code it runs in is there.
NoDeferredCallAfterFree ==
    \A p \in Procs : rpc[p] = "call" => frees = 0

\* The asynchronized stage completes, unless init memory was taken away.
AsyncCompletes ==
    (boot = "running") ~> (Async \subseteq done \/ frees > 0)

\* A process that has the file and keeps reading sees every deferred entry
\* run, unless it lets go of the file (or is killed), whatever other readers
\* do to the shared position in between.
OpenLeadsToDone ==
    \A p \in Procs : (p \in fd) ~> (Deferred \subseteq done \/ p \notin fd)

\* The detailed runtime implements StagedInit: what it calls complete is an
\* init function that has returned, and the end of the deferred stage is
\* reported by the first reference a reader drops.
Staged == INSTANCE StagedInit WITH
    ran <- done,
    ended <- boot = "running" /\ free_init_ref < 3

ImplementsStaged == Staged!SSpec

\* Claims of comments, messages and help texts the code does not keep.

\* drivers/async.c:703 of free_init_ref: "become zero when all drivers are
\* initialize".
RefReachesZero ==
    (Async \cup Deferred \subseteq done /\ fd # {}) ~> (free_init_ref = 0)

\* The same comment, read the other way: at zero, all drivers are.
ZeroMeansAllDone == free_init_ref <= 0 => Async \cup Deferred \subseteq done

\* drivers/async.c:777: an open is refused because "deferred init already
\* done".
RefusedOnlyWhenDone ==
    \A p \in Procs : ret[p] = -EINVAL => Deferred \subseteq done

\* drivers/Kconfig: modules are initialised "using single module
\* dependencies", so a parent is initialised before its child starts.
DependenciesFirst ==
    \A i \in Entries : starts[i] > 0 => Parents[i] \subseteq done

=============================================================================
