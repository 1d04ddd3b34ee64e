-------------------------------- MODULE NvDevice ------------------------------
(***************************************************************************)
(* The life of an NVIDIA device in drivers/gpu/drm/nvidia-ion, the driver  *)
(* this repository registers with _async_module_init: the minor number     *)
(* table of nv-frontend.c together with probe, remove, open and close of   *)
(* nv.c.  Three semaphores protect them:                                   *)
(*   nv_module_table_lock    held by the frontend around open and close    *)
(*   nv_linux_devices_lock   the device list; exists in the vGPU build only*)
(*   nvl->ldata_lock         one per device                                *)
(* The module starts after nvidia_init_module has registered itself with   *)
(* the frontend, in the build of the Makefile (NV_BUILD_MODULE_INSTANCES   *)
(* is 0: one module, no module references).  The control device, GVI       *)
(* boards and the persistent state kept by the binary part are left out.   *)
(***************************************************************************)
EXTENDS Integers, Sequences, FiniteSets

CONSTANTS
    Dev,            \* PCI devices
    User,           \* processes that use /dev/nvidiaN
    MaxMinor,       \* NV_FRONTEND_CONTROL_DEVICE_MINOR_MIN: minors 0..MaxMinor
    Vgx,            \* NV_VGX_HYPER: nv_linux_devices_lock and unbindLock exist
    Serial,         \* probes and removals come one at a time
    Unbind,         \* removal of a device: "never", "locked" (only once its
                    \* unbindLock is set), "any"
    MaxUsage,       \* bound: no open is started above this usage_count
    None            \* no holder

Minors == 0..MaxMinor

ASSUME MinorAssumption == MaxMinor \in Nat /\ MaxUsage \in Nat
ASSUME DevAssumption == IsFiniteSet(Dev) /\ IsFiniteSet(User)
ASSUME BuildAssumption ==
    /\ Vgx \in BOOLEAN /\ Serial \in BOOLEAN
    /\ Unbind \in {"never", "locked", "any"}
ASSUME NoneAssumption == None \notin Dev \cup User /\ Dev \cap User = {}

VARIABLES
    table_lock, devices_lock, ldata_lock,   \* who holds the semaphores
    nv_minor_num_table,     \* minor -> the slot holds the module
    nv_linux_devices,       \* the list of devices
    dpc,                    \* per device: progress of its probe or removal
    minor_num,              \* nvl->minor_num
    usage_count,            \* nvl->usage_count
    flags,                  \* nv->flags: subset of {"OPEN", "UNBIND_LOCK"}
    upc,                    \* per process: where it is in the driver
    minor, nvptr,           \* per process: inode's minor, nvfp->nvptr
    opened                  \* per process: it has an open file

locks == <<table_lock, devices_lock, ldata_lock>>
dvars == <<nv_minor_num_table, nv_linux_devices, dpc, minor_num>>
svars == <<usage_count, flags>>
uvars == <<upc, minor, nvptr, opened>>
vars == <<locks, dvars, svars, uvars>>

Init ==
    /\ table_lock = None
    /\ devices_lock = None
    /\ ldata_lock = [d \in Dev |-> None]
    /\ nv_minor_num_table = [m \in Minors |-> FALSE]
    /\ nv_linux_devices = <<>>
    /\ dpc = [d \in Dev |-> "absent"]
    /\ minor_num = [d \in Dev |-> 0]
    /\ usage_count = [d \in Dev |-> 0]
    /\ flags = [d \in Dev |-> {}]
    /\ upc = [u \in User |-> "user"]
    /\ minor = [u \in User |-> 0]
    /\ nvptr = [u \in User |-> None]
    /\ opened = [u \in User |-> FALSE]

\* down and up of nv_linux_devices_lock, which are empty outside the vGPU
\* build.
DevicesFree == Vgx => devices_lock = None
TakeDevices(t) == devices_lock' = IF Vgx THEN t ELSE devices_lock

DGoto(d, l) == dpc' = [dpc EXCEPT ![d] = l]
UGoto(u, l) == upc' = [upc EXCEPT ![u] = l]

Listed == {nv_linux_devices[i] : i \in DOMAIN nv_linux_devices}

(***************************************************************************)
(* nvidia_probe.                                                           *)
(***************************************************************************)

\* The device is set up: a zeroed nvl with its lock.  A probe that gives up
\* before the device is listed leaves nothing behind and is left out, and so
\* is a removal that finds no memory for its stack and returns at once.
Probe(d) ==
    /\ dpc[d] = "absent"
    /\ Serial => \A e \in Dev : dpc[e] \in {"absent", "bound", "freed"}
    /\ DGoto(d, "probing")
    /\ minor_num' = [minor_num EXCEPT ![d] = 0]
    /\ usage_count' = [usage_count EXCEPT ![d] = 0]
    /\ flags' = [flags EXCEPT ![d] = {}]
    /\ ldata_lock' = [ldata_lock EXCEPT ![d] = None]
    /\ UNCHANGED <<table_lock, devices_lock, nv_minor_num_table,
                   nv_linux_devices, uvars>>

\* It is appended to nv_linux_devices.
ProbeList(d) ==
    /\ dpc[d] = "probing"
    /\ DevicesFree
    /\ nv_linux_devices' = Append(nv_linux_devices, d)
    /\ DGoto(d, "listed")
    /\ UNCHANGED <<locks, nv_minor_num_table, minor_num, svars, uvars>>

\* nvidia_frontend_add_device: the first free minor number.
ProbeAdd(d) ==
    /\ dpc[d] = "listed"
    /\ table_lock = None
    /\ \E m \in Minors :
          /\ ~nv_minor_num_table[m]
          /\ \A k \in 0..(m - 1) : nv_minor_num_table[k]
          /\ nv_minor_num_table' = [nv_minor_num_table EXCEPT ![m] = TRUE]
          /\ minor_num' = [minor_num EXCEPT ![d] = m]
    /\ DGoto(d, "bound")
    /\ UNCHANGED <<locks, nv_linux_devices, svars, uvars>>

\* There is none: the nvl is freed, and stays in the list, where its memory is
\* taken to keep what was in it.
ProbeAddFails(d) ==
    /\ dpc[d] = "listed"
    /\ table_lock = None
    /\ \A m \in Minors : nv_minor_num_table[m]
    /\ DGoto(d, "freed")
    /\ UNCHANGED <<locks, nv_minor_num_table, nv_linux_devices, minor_num,
                   svars, uvars>>

(***************************************************************************)
(* nvidia_remove.                                                          *)
(***************************************************************************)
MayUnbind(d) ==
    \/ Unbind = "any"
    \/ Unbind = "locked" /\ "UNBIND_LOCK" \in flags[d]

\* The list without its i-th element.
Unlinked(i) ==
    [j \in 1..(Len(nv_linux_devices) - 1) |->
        IF j < i THEN nv_linux_devices[j] ELSE nv_linux_devices[j + 1]]

\* The device leaves the list, and its files leave /proc.
RemoveUnlink(d) ==
    /\ dpc[d] = "bound"
    /\ MayUnbind(d)
    /\ Serial => \A e \in Dev : dpc[e] \in {"absent", "bound", "freed"}
    /\ DevicesFree
    /\ TakeDevices(d)
    /\ \E i \in DOMAIN nv_linux_devices :
          /\ nv_linux_devices[i] = d
          /\ nv_linux_devices' = Unlinked(i)
    /\ DGoto(d, "rm_ldata")
    /\ UNCHANGED <<table_lock, ldata_lock, nv_minor_num_table, minor_num,
                   svars, uvars>>

\* down(&nvl->ldata_lock), then the list lock is released.
RemoveLdata(d) ==
    /\ dpc[d] = "rm_ldata"
    /\ ldata_lock[d] = None
    /\ ldata_lock' = [ldata_lock EXCEPT ![d] = d]
    /\ TakeDevices(None)
    /\ DGoto(d, "rm_table")
    /\ UNCHANGED <<table_lock, nv_minor_num_table, nv_linux_devices, minor_num,
                   svars, uvars>>

\* Mutant: the number is reset before it is used.
RemoveTableResets(d) ==
    /\ dpc[d] = "rm_table"
    /\ table_lock = None
    /\ minor_num' = [minor_num EXCEPT ![d] = 0]
    /\ nv_minor_num_table' = [nv_minor_num_table EXCEPT ![0] = FALSE]
    /\ DGoto(d, "rm_free")
    /\ UNCHANGED <<locks, nv_linux_devices, svars, uvars>>

\* nvidia_frontend_remove_device, with ldata_lock held.
RemoveTable(d) ==
    /\ dpc[d] = "rm_table"
    /\ table_lock = None
    /\ nv_minor_num_table' = [nv_minor_num_table EXCEPT ![minor_num[d]] = FALSE]
    /\ minor_num' = [minor_num EXCEPT ![d] = 0]
    /\ DGoto(d, "rm_free")
    /\ UNCHANGED <<locks, nv_linux_devices, svars, uvars>>

\* Mutant: ldata_lock is taken a second time.
RemoveFreeRelocks(d) ==
    /\ dpc[d] = "rm_free"
    /\ ldata_lock[d] = None
    /\ DGoto(d, "absent")
    /\ UNCHANGED <<locks, nv_minor_num_table, nv_linux_devices, minor_num,
                   svars, uvars>>

\* The adapter is shut down if it is in use, and the nvl, with its lock, is
\* freed.
RemoveFree(d) ==
    /\ dpc[d] = "rm_free"
    /\ DGoto(d, "absent")
    /\ flags' = [flags EXCEPT ![d] = {}]
    /\ usage_count' = [usage_count EXCEPT ![d] = 0]
    /\ ldata_lock' = [ldata_lock EXCEPT ![d] = None]
    /\ nvptr' = [u \in User |-> IF nvptr[u] = d THEN None ELSE nvptr[u]]
    /\ UNCHANGED <<table_lock, devices_lock, nv_minor_num_table,
                   nv_linux_devices, minor_num, upc, minor, opened>>

(***************************************************************************)
(* /proc/driver/nvidia/gpus/../unbindLock (vGPU build).                    *)
(***************************************************************************)

\* "1" is written: the binary part grants the lock to an unused device.
UnbindLock(d) ==
    /\ Vgx
    /\ dpc[d] = "bound"
    /\ ldata_lock[d] = None
    /\ "UNBIND_LOCK" \notin flags[d]
    /\ usage_count[d] = 0
    /\ flags' = [flags EXCEPT ![d] = @ \cup {"UNBIND_LOCK"}]
    /\ UNCHANGED <<locks, dvars, usage_count, uvars>>

\* "0" is written.
UnbindUnlock(d) ==
    /\ Vgx
    /\ dpc[d] = "bound"
    /\ ldata_lock[d] = None
    /\ "UNBIND_LOCK" \in flags[d]
    /\ flags' = [flags EXCEPT ![d] = @ \ {"UNBIND_LOCK"}]
    /\ UNCHANGED <<locks, dvars, usage_count, uvars>>

(***************************************************************************)
(* nvidia_frontend_open and nvidia_open.                                   *)
(***************************************************************************)
Open(u, m) ==
    /\ upc[u] = "user" /\ ~opened[u]
    /\ \A d \in Dev : usage_count[d] <= MaxUsage
    /\ minor' = [minor EXCEPT ![u] = m]
    /\ UGoto(u, "o_table")
    /\ UNCHANGED <<locks, dvars, svars, nvptr, opened>>

\* Mutant: an open of an empty slot is tried again.
OpenTableRetries(u) ==
    /\ upc[u] = "o_table"
    /\ table_lock = None
    /\ \/ /\ nv_minor_num_table[minor[u]]
          /\ table_lock' = u
          /\ UGoto(u, "o_find")
       \/ /\ ~nv_minor_num_table[minor[u]]
          /\ UNCHANGED <<table_lock, upc>>
    /\ UNCHANGED <<devices_lock, ldata_lock, dvars, svars, minor, nvptr, opened>>

\* down(&nv_module_table_lock); an empty slot is -ENODEV.
OpenTable(u) ==
    /\ upc[u] = "o_table"
    /\ table_lock = None
    /\ \/ /\ nv_minor_num_table[minor[u]]
          /\ table_lock' = u
          /\ UGoto(u, "o_find")
       \/ /\ ~nv_minor_num_table[minor[u]]
          /\ UGoto(u, "user")
          /\ UNCHANGED table_lock
    /\ UNCHANGED <<devices_lock, ldata_lock, dvars, svars, minor, nvptr, opened>>

\* The private data of the file or a stack cannot be allocated: -ENOMEM.
OpenNoMemory(u) ==
    /\ upc[u] = "o_find"
    /\ table_lock' = None
    /\ UGoto(u, "user")
    /\ UNCHANGED <<devices_lock, ldata_lock, dvars, svars, minor, nvptr, opened>>

\* The search comes to d: no device before it bears the minor number.
Reached(u, d) ==
    \E i \in DOMAIN nv_linux_devices :
        /\ nv_linux_devices[i] = d
        /\ \A j \in 1..(i - 1) : minor_num[nv_linux_devices[j]] # minor[u]

\* Mutant: the first device of the list is taken.
FoundFirst(u, d) ==
    nv_linux_devices # <<>> /\ d = nv_linux_devices[1]

\* The first device of the list that bears the minor number.
Found(u, d) == Reached(u, d) /\ minor_num[d] = minor[u]

\* The list is searched, under its lock where there is one.  A freed device
\* with the number is found like another.
OpenFind(u) ==
    /\ upc[u] = "o_find"
    /\ DevicesFree
    /\ \/ \E d \in Listed :
             /\ Found(u, d)
             /\ nvptr' = [nvptr EXCEPT ![u] = d]
             /\ TakeDevices(u)
             /\ UGoto(u, "o_ldata")
             /\ UNCHANGED table_lock
       \/ /\ \A d \in Listed : ~Found(u, d)
          /\ table_lock' = None
          /\ UGoto(u, "user")
          /\ UNCHANGED <<devices_lock, nvptr>>
    /\ UNCHANGED <<ldata_lock, dvars, svars, minor, opened>>

\* A search that comes to a freed device may also fault, with the table locked.
OpenOops(u) ==
    /\ upc[u] = "o_find"
    /\ \E d \in Listed : dpc[d] = "freed" /\ Reached(u, d)
    /\ UGoto(u, "oops")
    /\ UNCHANGED <<locks, dvars, svars, minor, nvptr, opened>>

\* down(&nvl->ldata_lock), then the list lock is released.
OpenLdata(u) ==
    /\ upc[u] = "o_ldata"
    /\ ldata_lock[nvptr[u]] = None
    /\ ldata_lock' = [ldata_lock EXCEPT ![nvptr[u]] = u]
    /\ TakeDevices(None)
    /\ UGoto(u, "o_init")
    /\ UNCHANGED <<table_lock, dvars, svars, minor, nvptr, opened>>

\* up of both semaphores on the way out.
OpenReturn(u, ok) ==
    /\ opened' = [opened EXCEPT ![u] = ok]
    /\ nvptr' = IF ok THEN nvptr ELSE [nvptr EXCEPT ![u] = None]
    /\ ldata_lock' = [ldata_lock EXCEPT ![nvptr[u]] = None]
    /\ table_lock' = None
    /\ UGoto(u, "user")
    /\ UNCHANGED <<devices_lock, minor>>

\* Mutant: a device locked for unbinding can be opened.
OpenInitUnchecked(u) ==
    /\ upc[u] = "o_init"
    /\ flags' = [flags EXCEPT ![nvptr[u]] = @ \cup {"OPEN"}]
    /\ usage_count' = [usage_count EXCEPT ![nvptr[u]] = @ + 1]
    /\ OpenReturn(u, TRUE)
    /\ UNCHANGED dvars

\* The first open has the adapter set up; the open counts.
OpenInit(u) ==
    /\ upc[u] = "o_init"
    /\ ~(Vgx /\ "UNBIND_LOCK" \in flags[nvptr[u]])
    /\ flags' = [flags EXCEPT ![nvptr[u]] = @ \cup {"OPEN"}]
    /\ usage_count' = [usage_count EXCEPT ![nvptr[u]] = @ + 1]
    /\ OpenReturn(u, TRUE)
    /\ UNCHANGED dvars

\* The device is being unbound, or the setup of the first open fails; what it
\* had got by then is released.
OpenFails(u) ==
    /\ upc[u] = "o_init"
    /\ \/ Vgx /\ "UNBIND_LOCK" \in flags[nvptr[u]]
       \/ "OPEN" \notin flags[nvptr[u]]
    /\ OpenReturn(u, FALSE)
    /\ UNCHANGED <<dvars, svars>>

(***************************************************************************)
(* nvidia_frontend_close and nvidia_close.                                 *)
(***************************************************************************)
Close(u) ==
    /\ upc[u] = "user" /\ opened[u]
    /\ UGoto(u, "c_table")
    /\ UNCHANGED <<locks, dvars, svars, minor, nvptr, opened>>

\* With the slot empty, the device's own close is not called.
CloseTable(u) ==
    /\ upc[u] = "c_table"
    /\ table_lock = None
    /\ \/ /\ nv_minor_num_table[minor[u]]
          /\ table_lock' = u
          /\ UGoto(u, "c_ldata")
          /\ UNCHANGED <<nvptr, opened>>
       \/ /\ ~nv_minor_num_table[minor[u]]
          /\ UGoto(u, "user")
          /\ nvptr' = [nvptr EXCEPT ![u] = None]
          /\ opened' = [opened EXCEPT ![u] = FALSE]
          /\ UNCHANGED table_lock
    /\ UNCHANGED <<devices_lock, ldata_lock, dvars, svars, minor>>

\* Mutant: any close shuts the adapter down.
CloseLdataShuts(u) ==
    /\ upc[u] = "c_ldata"
    /\ nvptr[u] # None /\ ldata_lock[nvptr[u]] = None
    /\ usage_count' = [usage_count EXCEPT ![nvptr[u]] = @ - 1]
    /\ flags' = [flags EXCEPT ![nvptr[u]] = @ \ {"OPEN"}]
    /\ nvptr' = [nvptr EXCEPT ![u] = None]
    /\ opened' = [opened EXCEPT ![u] = FALSE]
    /\ table_lock' = None
    /\ UGoto(u, "user")
    /\ UNCHANGED <<devices_lock, ldata_lock, dvars, minor>>

\* Under ldata_lock: the last close shuts the adapter down.
CloseLdata(u) ==
    /\ upc[u] = "c_ldata"
    /\ nvptr[u] # None /\ ldata_lock[nvptr[u]] = None
    /\ usage_count' = [usage_count EXCEPT ![nvptr[u]] = @ - 1]
    /\ flags' = IF usage_count[nvptr[u]] = 1
                THEN [flags EXCEPT ![nvptr[u]] = @ \ {"OPEN"}] ELSE flags
    /\ nvptr' = [nvptr EXCEPT ![u] = None]
    /\ opened' = [opened EXCEPT ![u] = FALSE]
    /\ table_lock' = None
    /\ UGoto(u, "user")
    /\ UNCHANGED <<devices_lock, ldata_lock, dvars, minor>>

(***************************************************************************)
(* nvidia_frontend_poll, _ioctl and _mmap look at the table without its    *)
(* lock, then call into nv.c, which uses nvfp->nvptr.                      *)
(***************************************************************************)
Call(u) ==
    /\ upc[u] = "user" /\ opened[u]
    /\ nv_minor_num_table[minor[u]]
    /\ UGoto(u, "call")
    /\ UNCHANGED <<locks, dvars, svars, minor, nvptr, opened>>

CallReturn(u) ==
    /\ upc[u] = "call"
    /\ UGoto(u, "user")
    /\ UNCHANGED <<locks, dvars, svars, minor, nvptr, opened>>

-----------------------------------------------------------------------------
Hotplug(d) ==
    \/ ProbeList(d)
    \/ ProbeAdd(d)
    \/ ProbeAddFails(d)
    \/ RemoveLdata(d)
    \/ RemoveTable(d)
    \/ RemoveFree(d)

InDriver(u) ==
    \/ OpenTable(u)
    \/ OpenNoMemory(u)
    \/ OpenFind(u)
    \/ OpenOops(u)
    \/ OpenLdata(u)
    \/ OpenInit(u)
    \/ OpenFails(u)
    \/ CloseTable(u)
    \/ CloseLdata(u)
    \/ CallReturn(u)

Next ==
    \/ \E d \in Dev :
          \/ Probe(d)
          \/ RemoveUnlink(d)
          \/ UnbindLock(d)
          \/ UnbindUnlock(d)
          \/ Hotplug(d)
    \/ \E u \in User :
          \/ \E m \in Minors : Open(u, m)
          \/ Close(u)
          \/ Call(u)
          \/ InDriver(u)

Spec == Init /\ [][Next]_vars

\* Kernel semaphores hand over in the order of arrival, so a task that waits
\* for one that is free again and again gets it; tasks that can run, do.
Fairness ==
    /\ \A d \in Dev : SF_vars(Hotplug(d))
    /\ \A u \in User : SF_vars(InDriver(u))

FairSpec == Spec /\ Fairness

-----------------------------------------------------------------------------
(***************************************************************************)
(* Properties.                                                             *)
(***************************************************************************)

\* Type invariant.
TypeOK ==
    /\ table_lock \in User \cup {None}
    /\ devices_lock \in Dev \cup User \cup {None}
    /\ ldata_lock \in [Dev -> Dev \cup User \cup {None}]
    /\ nv_minor_num_table \in [Minors -> BOOLEAN]
    /\ nv_linux_devices \in Seq(Dev)
    /\ dpc \in [Dev -> {"absent", "probing", "listed", "bound", "freed",
                        "rm_ldata", "rm_table", "rm_free"}]
    /\ minor_num \in [Dev -> Minors]
    /\ usage_count \in [Dev -> Nat]
    /\ flags \in [Dev -> SUBSET {"OPEN", "UNBIND_LOCK"}]
    /\ upc \in [User -> {"user", "o_table", "o_find", "o_ldata", "o_init",
                         "c_table", "c_ldata", "call", "oops"}]
    /\ minor \in [User -> Minors]
    /\ nvptr \in [User -> Dev \cup {None}]
    /\ opened \in [User -> BOOLEAN]

HasMinor(d) == dpc[d] \in {"bound", "rm_ldata", "rm_table"}

\* Whatever probes and removals overlap, the slots in use are exactly the
\* minor numbers of the devices that have one, and no two share a number.
TableExact ==
    /\ \A m \in Minors :
          nv_minor_num_table[m] <=> \E d \in Dev : HasMinor(d) /\ minor_num[d] = m
    /\ \A d, e \in Dev :
          HasMinor(d) /\ HasMinor(e) /\ minor_num[d] = minor_num[e] => d = e

\* usage_count is the number of open files, and the adapter is set up exactly
\* while there are any, of every device that has not been freed.
UsageExact ==
    \A d \in Dev :
        dpc[d] \notin {"absent", "freed"} =>
          /\ usage_count[d] = Cardinality({u \in User : opened[u] /\ nvptr[u] = d})
          /\ "OPEN" \in flags[d] <=> usage_count[d] > 0

\* A probe that found no minor number has left its freed device in the list.
LeftOver(d) == dpc[d] = "freed"

\* No removal takes a device away from an open file or from an open under way:
\* what unbinding under unbindLock is for.  Of the devices that are not there a
\* file may belong to one left over by a failed probe, and to no other.
NoStaleUse ==
    \A u \in User :
        /\ opened[u] => /\ nvptr[u] # None
                        /\ dpc[nvptr[u]] \in {"listed", "bound"} \/ LeftOver(nvptr[u])
        /\ upc[u] = "o_ldata" =>
              dpc[nvptr[u]] \in {"listed", "bound"} \/ LeftOver(nvptr[u])
        /\ upc[u] = "o_init" =>
              dpc[nvptr[u]] \in {"listed", "bound", "rm_ldata"} \/ LeftOver(nvptr[u])

\* The observation behind that exception, refuted by NvDevice_freed.cfg: once
\* the device with minor number 0 has left the list, an open of number 0 comes
\* to the freed device first, and its file uses freed memory.
NoFreedUse == \A u \in User : opened[u] => ~LeftOver(nvptr[u])

\* A file opened through minor number m talks to the device with that number.
FileMatchesMinor ==
    \A u \in User :
        opened[u] /\ nvptr[u] # None => minor_num[nvptr[u]] = minor[u]

\* A lookup has faulted on a freed device; nv_module_table_lock stays locked.
Oopsed == \E u \in User : upc[u] = "oops"

\* open and close come back unless a lookup has oopsed: the three semaphores
\* are never waited for in a circle.
CallsReturn == \A u \in User : upc[u] # "user" ~> upc[u] = "user" \/ Oopsed

\* A removal comes to its end, with the same exception.
RemovalEnds == \A d \in Dev : dpc[d] = "rm_ldata" ~> dpc[d] = "absent" \/ Oopsed

\* s holds the semaphore that t goes to take next.
WaitsFor(t, s) ==
    \/ t \in User /\ upc[t] \in {"o_table", "c_table"} /\ s = table_lock
    \/ t \in User /\ upc[t] = "o_find" /\ s = devices_lock
    \/ t \in User /\ upc[t] \in {"o_ldata", "c_ldata"}
          /\ nvptr[t] # None /\ s = ldata_lock[nvptr[t]]
    \/ t \in Dev /\ dpc[t] = "probing" /\ s = devices_lock
    \/ t \in Dev /\ dpc[t] \in {"listed", "rm_table"} /\ s = table_lock
    \/ t \in Dev /\ dpc[t] = "rm_ldata" /\ s = ldata_lock[t]

\* The safety side of the two: of any processes, probes and removals, one waits
\* for none of the others, although nvidia_remove takes nv_module_table_lock
\* with ldata_lock held and nvidia_frontend_open takes them the other way round.
NoLockCircle ==
    \A S \in SUBSET (Dev \cup User) :
        S # {} => \E t \in S : \A s \in S : ~WaitsFor(t, s)

\* Claim of a comment the code does not keep.

\* nv.c:2856: a device is listed "only after all the initialization
\* operations for that nvl object are completed", against "simultaneous
\* lookup operations".
LookupFindsComplete ==
    \A u \in User :
        upc[u] \in {"o_ldata", "o_init"} => dpc[nvptr[u]] # "listed"

=============================================================================
