---------------------------- MODULE NvDevice_proofs ---------------------------
(***************************************************************************)
(* The minor number table for every number of devices, processes and minor *)
(* numbers; and, when probes and removals come one at a time and a device  *)
(* is removed only under its unbindLock, the files that are open.          *)
(***************************************************************************)
EXTENDS NvDevice, FiniteSetTheorems, TLAPS

-----------------------------------------------------------------------------
(***************************************************************************)
(* The minor number table.                                                 *)
(***************************************************************************)
Progress == {"absent", "probing", "listed", "bound", "freed",
             "rm_ldata", "rm_table", "rm_free"}

Shapes ==
    /\ nv_minor_num_table \in [Minors -> BOOLEAN]
    /\ dpc \in [Dev -> Progress]
    /\ minor_num \in [Dev -> Minors]

TInv == Shapes /\ TableExact

\* Steps that change none of the three.
LEMMA TableSame ==
    ASSUME TInv, UNCHANGED <<nv_minor_num_table, dpc, minor_num>>
    PROVE  TInv'
BY DEF TInv, Shapes, TableExact, HasMinor

\* A device moves on and neither gains nor loses a number.
LEMMA TableMove ==
    ASSUME TInv, NEW d \in Dev, NEW l \in Progress, DGoto(d, l),
           UNCHANGED <<nv_minor_num_table, minor_num>>,
           HasMinor(d) <=> l \in {"bound", "rm_ldata", "rm_table"}
    PROVE  TInv'
<1>1. Shapes'
  BY DEF TInv, Shapes, DGoto
<1>2. \A e \in Dev : HasMinor(e)' <=> HasMinor(e)
  BY DEF TInv, Shapes, DGoto, HasMinor
<1>3. QED
  BY <1>1, <1>2 DEF TInv, TableExact

LEMMA ProbeTable ==
    ASSUME TInv, NEW d \in Dev, Probe(d)
    PROVE  TInv'
<1>1. 0 \in Minors
  BY MinorAssumption DEF Minors
<1>2. ~HasMinor(d) /\ DGoto(d, "probing") /\ UNCHANGED nv_minor_num_table
      /\ minor_num' = [minor_num EXCEPT ![d] = 0]
  BY DEF Probe, HasMinor
<1>3. Shapes'
  BY <1>1, <1>2 DEF TInv, Shapes, DGoto, Progress
<1>4. \A e \in Dev : (HasMinor(e)' <=> HasMinor(e))
                     /\ (HasMinor(e) => minor_num'[e] = minor_num[e])
  BY <1>2 DEF TInv, Shapes, DGoto, HasMinor
<1>5. QED
  BY <1>2, <1>3, <1>4 DEF TInv, TableExact

LEMMA ProbeAddTable ==
    ASSUME TInv, NEW d \in Dev, ProbeAdd(d)
    PROVE  TInv'
<1>1. PICK m \in Minors :
        /\ ~nv_minor_num_table[m]
        /\ nv_minor_num_table' = [nv_minor_num_table EXCEPT ![m] = TRUE]
        /\ minor_num' = [minor_num EXCEPT ![d] = m]
  BY DEF ProbeAdd
<1>2. ~HasMinor(d) /\ DGoto(d, "bound")
  BY DEF ProbeAdd, HasMinor
<1>3. Shapes'
  BY <1>1, <1>2 DEF TInv, Shapes, DGoto, Progress
<1>4. HasMinor(d)' /\ minor_num'[d] = m
  BY <1>1, <1>2 DEF TInv, Shapes, DGoto, HasMinor
<1>5. \A e \in Dev \ {d} : (HasMinor(e)' <=> HasMinor(e)) /\ minor_num'[e] = minor_num[e]
  BY <1>1, <1>2 DEF TInv, Shapes, DGoto, HasMinor
<1>6. \A e \in Dev \ {d} : HasMinor(e) => minor_num[e] # m
  BY <1>1 DEF TInv, TableExact
<1>7. ASSUME NEW k \in Minors
      PROVE  nv_minor_num_table'[k] <=> \E e \in Dev : HasMinor(e)' /\ minor_num'[e] = k
  <2>1. CASE k = m
    BY <1>1, <1>4, <2>1 DEF TInv, Shapes
  <2>2. CASE k # m
    <3>1. nv_minor_num_table'[k] <=> nv_minor_num_table[k]
      BY <1>1, <2>2 DEF TInv, Shapes
    <3>2. QED
      BY <1>2, <1>4, <1>5, <2>2, <3>1 DEF TInv, TableExact
  <2>3. QED
    BY <2>1, <2>2
<1>8. QED
  BY <1>3, <1>4, <1>5, <1>6, <1>7 DEF TInv, TableExact

LEMMA RemoveTableTable ==
    ASSUME TInv, NEW d \in Dev, RemoveTable(d)
    PROVE  TInv'
<1> DEFINE m == minor_num[d]
<1>1. /\ HasMinor(d) /\ m \in Minors /\ DGoto(d, "rm_free")
      /\ nv_minor_num_table' = [nv_minor_num_table EXCEPT ![m] = FALSE]
      /\ minor_num' = [minor_num EXCEPT ![d] = 0]
  BY DEF RemoveTable, HasMinor, TInv, Shapes
<1>2. 0 \in Minors
  BY MinorAssumption DEF Minors
<1>3. Shapes'
  BY <1>1, <1>2 DEF TInv, Shapes, DGoto, Progress
<1>4. ~HasMinor(d)'
  BY <1>1 DEF TInv, Shapes, DGoto, HasMinor
<1>5. \A e \in Dev \ {d} : (HasMinor(e)' <=> HasMinor(e)) /\ minor_num'[e] = minor_num[e]
  BY <1>1 DEF TInv, Shapes, DGoto, HasMinor
<1>6. \A e \in Dev \ {d} : HasMinor(e) => minor_num[e] # m
  BY <1>1 DEF TInv, TableExact
<1>7. ASSUME NEW k \in Minors
      PROVE  nv_minor_num_table'[k] <=> \E e \in Dev : HasMinor(e)' /\ minor_num'[e] = k
  <2>1. CASE k = m
    BY <1>1, <1>4, <1>5, <1>6, <2>1 DEF TInv, Shapes
  <2>2. CASE k # m
    <3>1. nv_minor_num_table'[k] <=> nv_minor_num_table[k]
      BY <1>1, <2>2 DEF TInv, Shapes
    <3>2. QED
      BY <1>4, <1>5, <2>2, <3>1 DEF TInv, TableExact
  <2>3. QED
    BY <2>1, <2>2
<1>8. QED
  BY <1>3, <1>4, <1>5, <1>7 DEF TInv, TableExact

LEMMA TableStep == ASSUME TInv, [Next]_vars PROVE TInv'
<1>1. CASE UNCHANGED vars
  BY <1>1, TableSame DEF vars, dvars
<1>2. ASSUME NEW d \in Dev, Probe(d) PROVE TInv'
  BY <1>2, ProbeTable
<1>3. ASSUME NEW d \in Dev, RemoveUnlink(d) PROVE TInv'
  BY <1>3, TableMove DEF RemoveUnlink, HasMinor, Progress
<1>4. ASSUME NEW d \in Dev, UnbindLock(d) \/ UnbindUnlock(d) PROVE TInv'
  BY <1>4, TableSame DEF UnbindLock, UnbindUnlock, dvars
<1>5. ASSUME NEW d \in Dev, Hotplug(d) PROVE TInv'
  <2>1. CASE ProbeList(d)
    BY <2>1, TableMove DEF ProbeList, HasMinor, Progress
  <2>2. CASE ProbeAdd(d)
    BY <2>2, ProbeAddTable
  <2>3. CASE ProbeAddFails(d)
    BY <2>3, TableMove DEF ProbeAddFails, HasMinor, Progress
  <2>4. CASE RemoveLdata(d)
    BY <2>4, TableMove DEF RemoveLdata, HasMinor, Progress
  <2>5. CASE RemoveTable(d)
    BY <2>5, RemoveTableTable
  <2>6. CASE RemoveFree(d)
    BY <2>6, TableMove DEF RemoveFree, HasMinor, Progress
  <2>7. QED
    BY <1>5, <2>1, <2>2, <2>3, <2>4, <2>5, <2>6 DEF Hotplug
<1>6. ASSUME NEW u \in User,
             (\E m \in Minors : Open(u, m)) \/ Close(u) \/ Call(u) \/ InDriver(u)
      PROVE  TInv'
  <2>1. UNCHANGED dvars
    BY <1>6 DEF Open, Close, Call, InDriver, OpenTable, OpenNoMemory, OpenFind, OpenOops,
                OpenLdata, OpenInit, OpenFails, CloseTable, CloseLdata, CallReturn
  <2>2. QED
    BY <2>1, TableSame DEF dvars
<1>7. QED
  BY <1>1, <1>2, <1>3, <1>4, <1>5, <1>6 DEF Next

\* The slots in use are exactly the minor numbers in use, for any number of
\* devices, with probes and removals overlapping in any way.
THEOREM TableExactCorrect == Spec => []TableExact
<1>1. Init => TInv
  BY MinorAssumption DEF Init, TInv, Shapes, Progress, TableExact, HasMinor, Minors
<1>2. TInv => TableExact
  BY DEF TInv
<1>3. QED
  BY <1>1, <1>2, TableStep, PTL DEF Spec

-----------------------------------------------------------------------------
(***************************************************************************)
(* Open files.                                                             *)
(***************************************************************************)

\* What these results rest on: the driver core probes and removes devices one
\* at a time, and a device is unbound only with its unbindLock granted.  The
\* run NvDevice_lookup shows an open that finds the wrong device without the
\* first.
Orderly ==
    /\ Serial
    /\ Unbind = "never" \/ (Vgx /\ Unbind = "locked")

Removing(d) == dpc[d] \in {"rm_ldata", "rm_table", "rm_free"}
InProgress(d) == dpc[d] \in {"probing", "listed"} \/ Removing(d)

OneAtATime == \A d, e \in Dev : InProgress(d) /\ InProgress(e) => d = e

\* The device that is being probed is the last of the list, so a search for a
\* minor number finds the device that has it first.
Linked ==
    /\ \A i, j \in DOMAIN nv_linux_devices :
          nv_linux_devices[i] = nv_linux_devices[j] => i = j
    /\ \A i \in DOMAIN nv_linux_devices :
          /\ dpc[nv_linux_devices[i]] \in {"listed", "bound", "freed"}
          /\ dpc[nv_linux_devices[i]] = "listed" => i = Len(nv_linux_devices)
    /\ \A d \in Dev :
          dpc[d] \in {"listed", "bound"} =>
             \E i \in DOMAIN nv_linux_devices : nv_linux_devices[i] = d

Inside(u) == upc[u] \in {"o_find", "o_ldata", "o_init", "c_ldata", "oops"}

\* Who holds which semaphore.
Holding ==
    /\ \A d \in Dev : dpc[d] = "rm_ldata" => devices_lock = d
    /\ \A d \in Dev : dpc[d] \in {"rm_table", "rm_free"} => ldata_lock[d] = d
    /\ \A u \in User : Inside(u) => table_lock = u
    /\ \A u \in User : upc[u] = "o_find" => nv_minor_num_table[minor[u]]
    /\ \A u \in User :
          upc[u] = "o_ldata" =>
             /\ Vgx => devices_lock = u
             /\ nvptr[u] \in Dev /\ dpc[nvptr[u]] \in {"bound", "freed"}
             /\ minor_num[nvptr[u]] = minor[u]
    /\ \A u \in User :
          upc[u] = "o_init" =>
             /\ nvptr[u] \in Dev /\ ldata_lock[nvptr[u]] = u
             /\ dpc[nvptr[u]] \in {"bound", "rm_ldata", "freed"}
             /\ minor_num[nvptr[u]] = minor[u]

\* An open file and the unbindLock of its device exclude each other.
Using ==
    /\ \A u \in User :
          opened[u] => /\ nvptr[u] \in Dev /\ dpc[nvptr[u]] \in {"bound", "freed"}
                       /\ "UNBIND_LOCK" \notin flags[nvptr[u]]
                       /\ minor_num[nvptr[u]] = minor[u]
                       /\ upc[u] \in {"user", "c_table", "c_ldata", "call"}
    /\ \A u \in User : upc[u] \in {"c_table", "c_ldata", "call"} => opened[u]
    /\ \A d \in Dev : Removing(d) => "UNBIND_LOCK" \in flags[d]
    /\ \A d \in Dev :
          "UNBIND_LOCK" \in flags[d] => Vgx /\ (dpc[d] = "bound" \/ Removing(d))

Files(d) == {u \in User : opened[u] /\ nvptr[u] = d}

\* The count of a device left over by a failed probe may run ahead of its
\* files: nvidia_frontend_close leaves it alone when the slot is empty.
CountOf(d) ==
    /\ dpc[d] \notin {"absent", "freed"} =>
          /\ usage_count[d] = Cardinality(Files(d))
          /\ "OPEN" \in flags[d] <=> usage_count[d] > 0
    /\ dpc[d] = "freed" => usage_count[d] >= Cardinality(Files(d))
Counted == \A d \in Dev : CountOf(d)

IInv == TypeOK /\ TableExact /\ OneAtATime /\ Linked /\ Holding /\ Using /\ Counted

USE DEF DGoto, UGoto

\* Steps of processes leave the devices alone.
LEMMA DevicesSame ==
    ASSUME OneAtATime, Linked, UNCHANGED dvars
    PROVE  OneAtATime' /\ Linked'
BY DEF OneAtATime, Linked, InProgress, Removing, dvars

\* Steps that open and close no file.
LEMMA FilesSame ==
    ASSUME Counted, UNCHANGED <<usage_count, opened>>,
           \A u \in User : opened[u] => nvptr'[u] = nvptr[u],
           \A d \in Dev : dpc'[d] # "absent" =>
              dpc[d] # "absent" /\ (dpc[d] = "freed" => dpc'[d] = "freed"),
           \A d \in Dev : "OPEN" \in flags'[d] <=> "OPEN" \in flags[d],
           usage_count \in [Dev -> Nat]
    PROVE  Counted'
<1>1. \A d \in Dev : Files(d)' = Files(d)
  BY DEF Files
<1>2. \A d \in Dev : CountOf(d) /\ usage_count[d] \in Nat
  BY DEF Counted
<1>3. \A d \in Dev : CountOf(d)'
  BY <1>1, <1>2 DEF CountOf
<1>4. QED
  BY <1>3 DEF Counted

LEMMA FilesFinite ==
    ASSUME NEW d
    PROVE  IsFiniteSet(Files(d))
BY DevAssumption, FS_Subset DEF Files

LEMMA OpenKeeps ==
    ASSUME IInv, NEW u \in User, NEW m \in Minors, Open(u, m)
    PROVE  IInv'
<1>1. TypeOK'
  BY DEF IInv, TypeOK, Open, locks, dvars, svars
<1>2. TableExact' /\ OneAtATime' /\ Linked'
  BY DevicesSame DEF IInv, Open, TableExact, HasMinor, dvars
<1>3. Holding' /\ Using'
  BY DEF IInv, TypeOK, Open, locks, dvars, svars, Holding, Inside, Using, Removing
<1>4. Counted'
  BY FilesSame DEF IInv, TypeOK, Open, svars, dvars
<1>5. QED
  BY <1>1, <1>2, <1>3, <1>4 DEF IInv

\* A close that finds its slot empty: only of a file on a device left over.
LEMMA CloseLeaksKeeps ==
    ASSUME IInv, NEW u \in User, CloseTable(u), ~nv_minor_num_table[minor[u]]
    PROVE  IInv'
<1>0. PICK d : d = nvptr[u]
  OBVIOUS
<1>1. /\ UNCHANGED <<table_lock, devices_lock, ldata_lock, nv_minor_num_table,
                     nv_linux_devices, dpc, minor_num, usage_count, flags, minor>>
      /\ upc[u] = "c_table" /\ UGoto(u, "user")
      /\ nvptr' = [nvptr EXCEPT ![u] = None] /\ opened' = [opened EXCEPT ![u] = FALSE]
  BY DEF CloseTable, dvars, svars
<1>2. opened[u] /\ d \in Dev /\ dpc[d] = "freed"
  <2>1. opened[u] /\ minor[u] \in Minors
    BY <1>1 DEF IInv, Using, TypeOK
  <2>2. d \in Dev /\ dpc[d] \in {"bound", "freed"} /\ minor_num[d] = minor[u]
    BY <1>0, <2>1 DEF IInv, Using
  <2>3. QED
    BY <2>1, <2>2 DEF IInv, TableExact, HasMinor
<1>3. TypeOK'
  BY <1>1 DEF IInv, TypeOK
<1>4. TableExact' /\ OneAtATime' /\ Linked'
  BY <1>1, DevicesSame DEF IInv, TableExact, HasMinor, dvars
<1>5. /\ \A v \in User \ {u} : upc'[v] = upc[v] /\ nvptr'[v] = nvptr[v]
                               /\ opened'[v] = opened[v]
      /\ upc'[u] = "user" /\ opened'[u] = FALSE
  BY <1>1 DEF IInv, TypeOK
<1>6. Holding'
  BY <1>1, <1>5 DEF IInv, Holding, Inside
<1>7. Using'
  BY <1>1, <1>5 DEF IInv, Using, Removing
<1>8. Counted'
  <2>1. Files(d)' = Files(d) \ {u} /\ u \in Files(d)
    BY <1>0, <1>2, <1>5 DEF Files
  <2>2. Cardinality(Files(d)') = Cardinality(Files(d)) - 1 /\ Cardinality(Files(d)) \in Nat
    BY <2>1, FilesFinite, FS_RemoveElement, FS_CardinalityType
  <2>3. usage_count[d] >= Cardinality(Files(d)) /\ usage_count[d] \in Nat
    BY <1>2 DEF IInv, Counted, CountOf, TypeOK
  <2>4. CountOf(d)'
    BY <1>1, <1>2, <2>2, <2>3 DEF CountOf
  <2>5. \A e \in Dev \ {d} : Files(e)' = Files(e) /\ CountOf(e)
    BY <1>0, <1>5 DEF Files, IInv, Counted
  <2>6. \A e \in Dev \ {d} : CountOf(e)'
    BY <1>1, <2>5 DEF CountOf
  <2>7. QED
    BY <2>4, <2>6 DEF Counted
<1>9. QED
  BY <1>3, <1>4, <1>6, <1>7, <1>8 DEF IInv

LEMMA LookupKeeps ==
    ASSUME IInv, NEW u \in User,
           OpenTable(u) \/ (CloseTable(u) /\ nv_minor_num_table[minor[u]])
    PROVE  IInv'
<1>1. /\ UNCHANGED <<devices_lock, ldata_lock, nv_minor_num_table, nv_linux_devices,
                     dpc, minor_num, usage_count, flags, minor, nvptr, opened>>
      /\ table_lock = None
      /\ \/ upc[u] = "o_table" /\ UGoto(u, "o_find") /\ table_lock' = u
            /\ nv_minor_num_table[minor[u]]
         \/ upc[u] = "o_table" /\ UGoto(u, "user") /\ table_lock' = None
         \/ upc[u] = "c_table" /\ UGoto(u, "c_ldata") /\ table_lock' = u
  BY DEF OpenTable, CloseTable, dvars, svars
<1>2. TypeOK'
  BY <1>1 DEF IInv, TypeOK, dvars, svars
<1>3. TableExact' /\ OneAtATime' /\ Linked'
  BY <1>1, DevicesSame DEF IInv, TableExact, HasMinor, dvars
<1>4. Holding'
  BY <1>1, NoneAssumption DEF IInv, TypeOK, Holding, Inside
<1>5. Using'
  <2>1. \A v \in User : \/ upc'[v] = upc[v]
                        \/ v = u /\ upc[v] = "o_table" /\ upc'[v] \in {"o_find", "user"}
                        \/ v = u /\ upc[v] = "c_table" /\ upc'[v] = "c_ldata"
    BY <1>1 DEF IInv, TypeOK
  <2>2. QED
    BY <1>1, <2>1 DEF IInv, Using, Removing
<1>6. Counted'
  BY <1>1, FilesSame DEF IInv, TypeOK, svars, dvars
<1>7. QED
  BY <1>2, <1>3, <1>4, <1>5, <1>6 DEF IInv

LEMMA OpenNoMemoryKeeps ==
    ASSUME IInv, NEW u \in User, OpenNoMemory(u)
    PROVE  IInv'
<1>1. /\ UNCHANGED <<devices_lock, ldata_lock, nv_minor_num_table, nv_linux_devices,
                     dpc, minor_num, usage_count, flags, minor, nvptr, opened>>
      /\ upc[u] = "o_find" /\ UGoto(u, "user") /\ table_lock' = None
  BY DEF OpenNoMemory, dvars, svars
<1>2. TypeOK'
  BY <1>1 DEF IInv, TypeOK
<1>3. TableExact' /\ OneAtATime' /\ Linked'
  BY <1>1, DevicesSame DEF IInv, TableExact, HasMinor, dvars
<1>4. /\ upc'[u] = "user"
      /\ \A v \in User \ {u} : upc'[v] = upc[v] /\ ~Inside(v)
  BY <1>1 DEF IInv, TypeOK, Holding, Inside
<1>5. Holding'
  BY <1>1, <1>4 DEF IInv, Holding, Inside
<1>6. Using'
  BY <1>1, <1>4 DEF IInv, Using, Removing
<1>7. Counted'
  BY <1>1, FilesSame DEF IInv, TypeOK, svars, dvars
<1>8. QED
  BY <1>2, <1>3, <1>5, <1>6, <1>7 DEF IInv

LEMMA FoundHasNumber ==
    ASSUME Orderly, IInv, NEW u \in User, NEW d \in Dev, upc[u] = "o_find", Found(u, d)
    PROVE  dpc[d] \in {"bound", "freed"} /\ minor_num[d] = minor[u]
<1>1. PICK i \in DOMAIN nv_linux_devices :
        /\ nv_linux_devices[i] = d
        /\ minor_num[d] = minor[u]
        /\ \A j \in 1..(i - 1) : minor_num[nv_linux_devices[j]] # minor[u]
  BY DEF Found, Reached
<1>2. nv_minor_num_table[minor[u]] /\ minor[u] \in Minors
  BY DEF IInv, Holding, TypeOK
<1>3. PICK e \in Dev : HasMinor(e) /\ minor_num[e] = minor[u]
  BY <1>2 DEF IInv, TableExact
<1>4. dpc[d] \in {"listed", "bound", "freed"}
  BY <1>1 DEF IInv, Linked, Listed
<1>5. SUFFICES ASSUME dpc[d] = "listed" PROVE FALSE
  BY <1>1, <1>4
<1>6. dpc[e] = "bound"
  BY <1>3, <1>5 DEF IInv, OneAtATime, InProgress, Removing, HasMinor
<1>7. PICK j \in DOMAIN nv_linux_devices : nv_linux_devices[j] = e
  BY <1>6 DEF IInv, Linked
<1>8. i = Len(nv_linux_devices) /\ j # i
  BY <1>1, <1>5, <1>6, <1>7 DEF IInv, Linked
<1>9. j \in 1..(i - 1)
  BY <1>7, <1>8 DEF IInv, TypeOK
<1>10. QED
  BY <1>1, <1>3, <1>7, <1>9

LEMMA OpenFindKeeps ==
    ASSUME Orderly, IInv, NEW u \in User, OpenFind(u)
    PROVE  IInv'
<1>1. /\ upc[u] = "o_find" /\ DevicesFree /\ ~opened[u]
      /\ UNCHANGED <<ldata_lock, nv_minor_num_table, nv_linux_devices, dpc, minor_num,
                     usage_count, flags, minor, opened>>
  BY DEF OpenFind, IInv, Using, dvars, svars
<1>2. \/ \E d \in Dev : /\ dpc[d] \in {"bound", "freed"} /\ minor_num[d] = minor[u]
                         /\ nvptr' = [nvptr EXCEPT ![u] = d]
                         /\ TakeDevices(u)
                         /\ UGoto(u, "o_ldata")
                         /\ UNCHANGED table_lock
      \/ table_lock' = None /\ UGoto(u, "user") /\ UNCHANGED <<devices_lock, nvptr>>
  <2>1. \A d \in Listed : d \in Dev
    BY DEF Listed, IInv, TypeOK
  <2>2. QED
    BY <2>1, FoundHasNumber DEF OpenFind
<1>3. TypeOK'
  <2>1. devices_lock' \in {devices_lock, u} /\ table_lock' \in {table_lock, None}
    BY <1>2 DEF TakeDevices
  <2>2. nvptr' \in [User -> Dev \cup {None}]
    BY <1>2 DEF IInv, TypeOK
  <2>3. upc' = [upc EXCEPT ![u] = "o_ldata"] \/ upc' = [upc EXCEPT ![u] = "user"]
    BY <1>2
  <2>4. QED
    BY <1>1, <2>1, <2>2, <2>3 DEF IInv, TypeOK
<1>4. TableExact' /\ OneAtATime' /\ Linked'
  BY <1>1, DevicesSame DEF IInv, TableExact, HasMinor, dvars
<1>5. Holding'
  <2>1. table_lock = u
    BY <1>1 DEF IInv, Holding, Inside
  <2>2. Vgx => devices_lock = None
    BY <1>1 DEF DevicesFree
  <2>3. \A v \in User \ {u} : ~Inside(v)
    BY <2>1 DEF IInv, Holding
  <2>4. \A d \in Dev : dpc[d] # "rm_ldata" \/ ~Vgx
    BY <2>2, NoneAssumption DEF IInv, Holding
  <2>5. /\ \A v \in User \ {u} : upc'[v] = upc[v] /\ nvptr'[v] = nvptr[v]
        /\ Vgx \/ devices_lock' = devices_lock
    BY <1>2 DEF IInv, TypeOK, TakeDevices
  <2>6. \/ /\ nvptr'[u] \in Dev /\ dpc[nvptr'[u]] \in {"bound", "freed"}
           /\ minor_num[nvptr'[u]] = minor[u]
           /\ Vgx => devices_lock' = u
           /\ upc'[u] = "o_ldata" /\ table_lock' = u
        \/ upc'[u] = "user" /\ devices_lock' = devices_lock
    BY <1>2, <2>1 DEF IInv, TypeOK, TakeDevices
  <2>7. \A d \in Dev : dpc'[d] = "rm_ldata" => devices_lock' = d
    BY <1>1, <2>4, <2>5 DEF IInv, Holding
  <2>8. \A v \in User : upc'[v] # "o_find" /\ (Inside(v)' => table_lock' = v)
    BY <2>3, <2>5, <2>6 DEF Inside
  <2>9. \A v \in User : upc'[v] = "o_ldata" =>
           /\ Vgx => devices_lock' = v
           /\ nvptr'[v] \in Dev /\ dpc'[nvptr'[v]] \in {"bound", "freed"}
           /\ minor_num'[nvptr'[v]] = minor'[v]
    BY <1>1, <2>3, <2>5, <2>6 DEF Inside
  <2>10. \A v \in User : upc'[v] = "o_init" =>
           /\ nvptr'[v] \in Dev /\ ldata_lock'[nvptr'[v]] = v
           /\ dpc'[nvptr'[v]] \in {"bound", "rm_ldata", "freed"}
           /\ minor_num'[nvptr'[v]] = minor'[v]
    BY <1>1, <2>5, <2>6 DEF IInv, Holding
  <2>11. QED
    BY <1>1, <2>7, <2>8, <2>9, <2>10 DEF IInv, Holding
<1>6. Using'
  <2>1. /\ \A v \in User \ {u} : upc'[v] = upc[v] /\ nvptr'[v] = nvptr[v]
        /\ upc'[u] \in {"o_ldata", "user"}
    BY <1>2 DEF IInv, TypeOK
  <2>2. QED
    BY <1>1, <2>1 DEF IInv, Using, Removing
<1>7. Counted'
  <2>1. \A v \in User : opened[v] => nvptr'[v] = nvptr[v]
    BY <1>1, <1>2 DEF IInv, TypeOK
  <2>2. QED
    BY <1>1, <2>1, FilesSame DEF IInv, TypeOK, svars, dvars
<1>8. QED
  BY <1>3, <1>4, <1>5, <1>6, <1>7 DEF IInv

\* Steps of a process that only move it on.
LEMMA MoveKeeps ==
    ASSUME IInv, NEW u \in User,
           OpenOops(u) \/ Close(u) \/ Call(u) \/ CallReturn(u)
    PROVE  IInv'
<1>1. /\ UNCHANGED <<table_lock, devices_lock, ldata_lock, nv_minor_num_table,
                     nv_linux_devices, dpc, minor_num, usage_count, flags, minor,
                     nvptr, opened>>
      /\ \/ upc[u] = "o_find" /\ UGoto(u, "oops")
         \/ upc[u] = "user" /\ opened[u] /\ UGoto(u, "c_table")
         \/ upc[u] = "user" /\ opened[u] /\ UGoto(u, "call")
         \/ upc[u] = "call" /\ UGoto(u, "user")
  BY DEF OpenOops, Close, Call, CallReturn, locks, dvars, svars
<1>2. TypeOK'
  BY <1>1 DEF IInv, TypeOK
<1>3. TableExact' /\ OneAtATime' /\ Linked'
  BY <1>1, DevicesSame DEF IInv, TableExact, HasMinor, dvars
<1>4. /\ \A v \in User \ {u} : upc'[v] = upc[v]
      /\ \/ upc'[u] = "oops" /\ upc[u] = "o_find"
         \/ upc'[u] \in {"c_table", "call"} /\ opened[u]
         \/ upc'[u] = "user" /\ upc[u] = "call"
  BY <1>1 DEF IInv, TypeOK
<1>5. Holding'
  BY <1>1, <1>4 DEF IInv, Holding, Inside, Using
<1>6. Using'
  BY <1>1, <1>4 DEF IInv, Using, Removing
<1>7. Counted'
  BY <1>1, FilesSame DEF IInv, TypeOK
<1>8. QED
  BY <1>2, <1>3, <1>5, <1>6, <1>7 DEF IInv

LEMMA OpenLdataKeeps ==
    ASSUME IInv, NEW u \in User, OpenLdata(u)
    PROVE  IInv'
<1> DEFINE d == nvptr[u]
<1>1. /\ UNCHANGED <<table_lock, nv_minor_num_table, nv_linux_devices, dpc, minor_num,
                     usage_count, flags, minor, nvptr, opened>>
      /\ upc[u] = "o_ldata" /\ UGoto(u, "o_init")
      /\ ldata_lock[d] = None /\ ldata_lock' = [ldata_lock EXCEPT ![d] = u]
      /\ devices_lock' = IF Vgx THEN None ELSE devices_lock
  BY DEF OpenLdata, dvars, svars, TakeDevices
<1>2. /\ d \in Dev /\ dpc[d] \in {"bound", "freed"} /\ minor_num[d] = minor[u] /\ ~opened[u]
      /\ Vgx => devices_lock = u
  BY <1>1 DEF IInv, Holding, Using
<1>3. TypeOK'
  BY <1>1, <1>2 DEF IInv, TypeOK
<1>4. TableExact' /\ OneAtATime' /\ Linked'
  BY <1>1, DevicesSame DEF IInv, TableExact, HasMinor, dvars
<1>5. /\ \A v \in User \ {u} : upc'[v] = upc[v]
      /\ upc'[u] = "o_init" /\ ldata_lock'[d] = u
      /\ \A e \in Dev \ {d} : ldata_lock'[e] = ldata_lock[e]
  BY <1>1, <1>2 DEF IInv, TypeOK
<1>6. Holding'
  <2>1. \A e \in Dev : dpc'[e] = "rm_ldata" => devices_lock' = e
    BY <1>1, <1>2, NoneAssumption DEF IInv, Holding
  <2>2. \A e \in Dev : dpc'[e] \in {"rm_table", "rm_free"} => ldata_lock'[e] = e
    BY <1>1, <1>2, <1>5 DEF IInv, Holding
  <2>3. \A v \in User :
           /\ Inside(v)' => table_lock' = v
           /\ upc'[v] = "o_find" => nv_minor_num_table'[minor'[v]]
    BY <1>1, <1>5 DEF IInv, Holding, Inside
  <2>4. \A v \in User : upc'[v] = "o_ldata" =>
           /\ Vgx => devices_lock' = v
           /\ nvptr'[v] \in Dev /\ dpc'[nvptr'[v]] \in {"bound", "freed"}
           /\ minor_num'[nvptr'[v]] = minor'[v]
    BY <1>1, <1>2, <1>5 DEF IInv, Holding
  <2>5. \A v \in User : upc'[v] = "o_init" =>
           /\ nvptr'[v] \in Dev /\ ldata_lock'[nvptr'[v]] = v
           /\ dpc'[nvptr'[v]] \in {"bound", "rm_ldata", "freed"}
           /\ minor_num'[nvptr'[v]] = minor'[v]
    BY <1>1, <1>2, <1>5, NoneAssumption DEF IInv, Holding
  <2>6. QED
    BY <2>1, <2>2, <2>3, <2>4, <2>5 DEF Holding, Inside
<1>7. Using'
  BY <1>1, <1>2, <1>5 DEF IInv, Using, Removing
<1>8. Counted'
  BY <1>1, FilesSame DEF IInv, TypeOK
<1>9. QED
  BY <1>3, <1>4, <1>6, <1>7, <1>8 DEF IInv

\* The way out of nvidia_open.
LEMMA OpenReturnHolding ==
    ASSUME IInv, NEW u \in User, NEW ok \in BOOLEAN, upc[u] = "o_init", OpenReturn(u, ok),
           UNCHANGED dvars
    PROVE  /\ nvptr[u] \in Dev /\ ~opened[u]
           /\ Holding'
           /\ \A v \in User \ {u} : upc'[v] = upc[v] /\ nvptr'[v] = nvptr[v]
                                    /\ opened'[v] = opened[v]
           /\ upc'[u] = "user" /\ opened'[u] = ok /\ (ok => nvptr'[u] = nvptr[u])
<1> DEFINE d == nvptr[u]
<1>1. d \in Dev /\ ldata_lock[d] = u /\ dpc[d] \in {"bound", "rm_ldata", "freed"}
      /\ ~opened[u]
  BY DEF IInv, Holding, Using
<1>2. /\ UNCHANGED <<devices_lock, nv_minor_num_table, dpc, minor_num, minor>>
      /\ ldata_lock' = [ldata_lock EXCEPT ![d] = None] /\ UGoto(u, "user")
      /\ opened' = [opened EXCEPT ![u] = ok]
      /\ nvptr' = IF ok THEN nvptr ELSE [nvptr EXCEPT ![u] = None]
      /\ table_lock' = None
  BY DEF OpenReturn, dvars
<1>3. /\ \A v \in User \ {u} : upc'[v] = upc[v] /\ nvptr'[v] = nvptr[v]
                               /\ opened'[v] = opened[v]
      /\ upc'[u] = "user" /\ opened'[u] = ok /\ (ok => nvptr'[u] = nvptr[u])
      /\ \A e \in Dev \ {d} : ldata_lock'[e] = ldata_lock[e]
  BY <1>1, <1>2 DEF IInv, TypeOK
<1>4. Holding'
  <2>1. \A e \in Dev : dpc'[e] = "rm_ldata" => devices_lock' = e
    BY <1>2 DEF IInv, Holding
  <2>2. \A e \in Dev : dpc'[e] \in {"rm_table", "rm_free"} => ldata_lock'[e] = e
    BY <1>1, <1>2, <1>3 DEF IInv, Holding
  <2>3. \A v \in User : ~Inside(v)'
    <3>1. table_lock = u
      BY DEF IInv, Holding, Inside
    <3>2. QED
      BY <1>3, <3>1 DEF IInv, Holding, Inside
  <2>4. \A v \in User : upc'[v] = "o_ldata" =>
           /\ Vgx => devices_lock' = v
           /\ nvptr'[v] \in Dev /\ dpc'[nvptr'[v]] \in {"bound", "freed"}
           /\ minor_num'[nvptr'[v]] = minor'[v]
    BY <1>2, <1>3 DEF IInv, Holding
  <2>5. \A v \in User : upc'[v] = "o_init" =>
           /\ nvptr'[v] \in Dev /\ ldata_lock'[nvptr'[v]] = v
           /\ dpc'[nvptr'[v]] \in {"bound", "rm_ldata", "freed"}
           /\ minor_num'[nvptr'[v]] = minor'[v]
    BY <1>1, <1>2, <1>3 DEF IInv, Holding
  <2>6. QED
    BY <2>1, <2>2, <2>3, <2>4, <2>5 DEF Holding, Inside
<1>5. QED
  BY <1>1, <1>3, <1>4

LEMMA OpenInitKeeps ==
    ASSUME Orderly, IInv, NEW u \in User, OpenInit(u)
    PROVE  IInv'
<1>0. PICK d : d = nvptr[u]
  OBVIOUS
<1>1. /\ upc[u] = "o_init" /\ OpenReturn(u, TRUE) /\ UNCHANGED dvars
      /\ ~(Vgx /\ "UNBIND_LOCK" \in flags[d])
      /\ flags' = [flags EXCEPT ![d] = @ \cup {"OPEN"}]
      /\ usage_count' = [usage_count EXCEPT ![d] = @ + 1]
  BY <1>0 DEF OpenInit
<1>2. /\ d \in Dev /\ ~opened[u]
      /\ Holding'
      /\ \A v \in User \ {u} : upc'[v] = upc[v] /\ nvptr'[v] = nvptr[v]
                               /\ opened'[v] = opened[v]
      /\ upc'[u] = "user" /\ opened'[u] = TRUE /\ nvptr'[u] = d
  BY <1>0, <1>1, OpenReturnHolding
<1>3. dpc[d] \in {"bound", "freed"} /\ "UNBIND_LOCK" \notin flags[d] /\ minor_num[d] = minor[u]
  BY <1>0, <1>1, <1>2 DEF Orderly, IInv, Holding, Using, Removing
<1>4. TypeOK'
  BY <1>1, <1>2 DEF IInv, TypeOK, OpenReturn, dvars
<1>5. TableExact' /\ OneAtATime' /\ Linked'
  BY <1>1, DevicesSame DEF IInv, TableExact, HasMinor, dvars
<1>6. Using'
  <2>1. \A e \in Dev : "UNBIND_LOCK" \in flags'[e] <=> "UNBIND_LOCK" \in flags[e]
    BY <1>1, <1>2 DEF IInv, TypeOK
  <2>2. UNCHANGED <<dpc, minor_num, minor>>
    BY <1>1 DEF dvars, OpenReturn
  <2>3. QED
    BY <1>2, <1>3, <2>1, <2>2 DEF IInv, Using, Removing
<1>7. Counted'
  <2>1. Files(d)' = Files(d) \cup {u} /\ u \notin Files(d)
    BY <1>0, <1>2 DEF Files
  <2>2. Cardinality(Files(d)') = Cardinality(Files(d)) + 1
    BY <2>1, FilesFinite, FS_AddElement
  <2>3. CountOf(d) /\ usage_count[d] \in Nat
    BY <1>2 DEF IInv, Counted, TypeOK
  <2>4. /\ dpc'[d] = dpc[d] /\ usage_count'[d] = usage_count[d] + 1
        /\ "OPEN" \in flags'[d]
    BY <1>1, <1>2 DEF IInv, TypeOK, dvars
  <2>5. CountOf(d)'
    <3>1. Cardinality(Files(d)) \in Nat
      BY FilesFinite, FS_CardinalityType
    <3>2. QED
      BY <1>3, <2>2, <2>3, <2>4, <3>1 DEF CountOf
  <2>6. \A e \in Dev \ {d} : /\ usage_count'[e] = usage_count[e] /\ flags'[e] = flags[e]
                           /\ dpc'[e] = dpc[e]
    BY <1>1 DEF IInv, TypeOK, dvars
  <2>7. \A e \in Dev \ {d} : CountOf(e)'
    <3>1. \A e \in Dev \ {d} : Files(e)' = Files(e)
      BY <1>2 DEF Files
    <3>2. \A e \in Dev \ {d} : CountOf(e)
      BY DEF IInv, Counted
    <3>3. QED
      BY <2>6, <3>1, <3>2 DEF CountOf
  <2>8. QED
    BY <2>5, <2>7 DEF Counted
<1>8. QED
  BY <1>2, <1>4, <1>5, <1>6, <1>7 DEF IInv

LEMMA OpenFailsKeeps ==
    ASSUME IInv, NEW u \in User, OpenFails(u)
    PROVE  IInv'
<1>1. /\ upc[u] = "o_init" /\ OpenReturn(u, FALSE) /\ UNCHANGED dvars
      /\ UNCHANGED <<usage_count, flags>>
  BY DEF OpenFails, svars
<1>2. /\ nvptr[u] \in Dev /\ ~opened[u]
      /\ Holding'
      /\ \A v \in User \ {u} : upc'[v] = upc[v] /\ nvptr'[v] = nvptr[v]
                               /\ opened'[v] = opened[v]
      /\ upc'[u] = "user" /\ opened'[u] = FALSE
  BY <1>1, OpenReturnHolding
<1>3. TypeOK'
  BY <1>1, <1>2 DEF IInv, TypeOK, OpenReturn, dvars
<1>4. TableExact' /\ OneAtATime' /\ Linked'
  BY <1>1, DevicesSame DEF IInv, TableExact, HasMinor, dvars
<1>5. UNCHANGED <<dpc, minor_num, minor>>
  BY <1>1 DEF dvars, OpenReturn
<1>6. Using'
  BY <1>1, <1>2, <1>5 DEF IInv, Using, Removing
<1>7. Counted'
  <2>1. opened' = opened
    BY <1>1, <1>2 DEF OpenReturn, IInv, TypeOK
  <2>2. QED
    BY <1>1, <1>2, <1>5, <2>1, FilesSame DEF IInv, TypeOK
<1>8. QED
  BY <1>2, <1>3, <1>4, <1>6, <1>7 DEF IInv

LEMMA CloseLdataKeeps ==
    ASSUME IInv, NEW u \in User, CloseLdata(u)
    PROVE  IInv'
<1>0. PICK d : d = nvptr[u]
  OBVIOUS
<1>1. /\ upc[u] = "c_ldata" /\ UGoto(u, "user") /\ table_lock' = None
      /\ UNCHANGED <<devices_lock, ldata_lock, nv_minor_num_table, nv_linux_devices,
                     dpc, minor_num, minor>>
      /\ usage_count' = [usage_count EXCEPT ![d] = @ - 1]
      /\ flags' = IF usage_count[d] = 1 THEN [flags EXCEPT ![d] = @ \ {"OPEN"}] ELSE flags
      /\ nvptr' = [nvptr EXCEPT ![u] = None] /\ opened' = [opened EXCEPT ![u] = FALSE]
  BY <1>0 DEF CloseLdata, dvars
<1>2. opened[u] /\ d \in Dev /\ dpc[d] \in {"bound", "freed"} /\ table_lock = u
  BY <1>0, <1>1 DEF IInv, Using, Holding, Inside
<1>3. /\ \A v \in User \ {u} : upc'[v] = upc[v] /\ nvptr'[v] = nvptr[v]
                               /\ opened'[v] = opened[v]
      /\ upc'[u] = "user" /\ opened'[u] = FALSE
  BY <1>1 DEF IInv, TypeOK
<1>4. \A e \in Dev : "UNBIND_LOCK" \in flags'[e] <=> "UNBIND_LOCK" \in flags[e]
  BY <1>1, <1>2 DEF IInv, TypeOK
<1>5. Counted' /\ usage_count[d] - 1 \in Nat
  <2>1. Files(d)' = Files(d) \ {u} /\ u \in Files(d)
    BY <1>0, <1>2, <1>3 DEF Files
  <2>2. IsFiniteSet(Files(d)) /\ Cardinality(Files(d)) \in Nat
    BY FilesFinite, FS_CardinalityType
  <2>3. Cardinality(Files(d)') = Cardinality(Files(d)) - 1
    BY <2>1, <2>2, FS_RemoveElement
  <2>4. Cardinality(Files(d)') \in Nat
    <3>1. IsFiniteSet(Files(d) \ {u})
      BY <2>2, FS_RemoveElement
    <3>2. QED
      BY <2>1, <3>1, FS_CardinalityType
  <2>5. CountOf(d) /\ usage_count[d] \in Nat
    BY <1>2 DEF IInv, Counted, TypeOK
  <2>6. dpc'[d] = dpc[d] /\ usage_count'[d] = usage_count[d] - 1
    BY <1>1, <1>2 DEF IInv, TypeOK
  <2>7. usage_count[d] >= Cardinality(Files(d)) /\ usage_count[d] - 1 \in Nat
    BY <1>2, <2>2, <2>3, <2>4, <2>5 DEF CountOf
  <2>8. ASSUME dpc[d] = "bound" PROVE "OPEN" \in flags'[d] <=> usage_count[d] # 1
    <3>1. "OPEN" \in flags[d]
      BY <2>5, <2>7, <2>8 DEF CountOf
    <3>2. CASE usage_count[d] = 1
      BY <1>1, <1>2, <3>2 DEF IInv, TypeOK
    <3>3. CASE usage_count[d] # 1
      BY <1>1, <3>1, <3>3
    <3>4. QED
      BY <3>2, <3>3
  <2>9. CountOf(d)'
    BY <1>2, <2>2, <2>3, <2>5, <2>6, <2>7, <2>8 DEF CountOf
  <2>10. \A e \in Dev \ {d} : /\ usage_count'[e] = usage_count[e] /\ flags'[e] = flags[e]
                            /\ dpc'[e] = dpc[e]
    BY <1>1 DEF IInv, TypeOK
  <2>11. \A e \in Dev \ {d} : CountOf(e)'
    <3>1. \A e \in Dev \ {d} : Files(e)' = Files(e)
      BY <1>0, <1>3 DEF Files
    <3>2. \A e \in Dev \ {d} : CountOf(e)
      BY DEF IInv, Counted
    <3>3. QED
      BY <2>10, <3>1, <3>2 DEF CountOf
  <2>12. QED
    BY <2>7, <2>9, <2>11 DEF Counted
<1>6. TypeOK'
  BY <1>1, <1>2, <1>5 DEF IInv, TypeOK
<1>7. TableExact' /\ OneAtATime' /\ Linked'
  BY <1>1, DevicesSame DEF IInv, TableExact, HasMinor, dvars
<1>8. Using'
  BY <1>1, <1>3, <1>4 DEF IInv, Using, Removing
<1>9. Holding'
  BY <1>1, <1>2, <1>3 DEF IInv, Holding, Inside
<1>10. QED
  BY <1>5, <1>6, <1>7, <1>8, <1>9 DEF IInv

\* A step of a device that no process is at: what open files and the users of
\* other devices see stays the same.
LEMMA Apart ==
    ASSUME IInv, NEW d \in Dev,
           UNCHANGED <<upc, minor, opened>>,
           \A u \in User : nvptr[u] # d => nvptr'[u] = nvptr[u],
           \A e \in Dev \ {d} : /\ dpc'[e] = dpc[e] /\ minor_num'[e] = minor_num[e]
                                /\ flags'[e] = flags[e] /\ ldata_lock'[e] = ldata_lock[e],
           \A u \in User : (opened[u] \/ upc[u] \in {"o_ldata", "o_init"}) => nvptr[u] # d,
           \A u \in User : upc[u] = "o_ldata" => (Vgx => devices_lock' = u),
           table_lock' = table_lock,
           \A u \in User : upc[u] = "o_find" => nv_minor_num_table'[minor[u]],
           dpc'[d] = "rm_ldata" => devices_lock' = d,
           \A e \in Dev \ {d} : dpc[e] # "rm_ldata",
           dpc'[d] \in {"rm_table", "rm_free"} => ldata_lock'[d] = d,
           Removing(d)' => "UNBIND_LOCK" \in flags'[d],
           "UNBIND_LOCK" \in flags'[d] => Vgx /\ (dpc'[d] = "bound" \/ Removing(d)')
    PROVE  Holding' /\ Using'
<1>1. Holding'
  <2>1. \A e \in Dev : dpc'[e] = "rm_ldata" => devices_lock' = e
    OBVIOUS
  <2>2. \A e \in Dev : dpc'[e] \in {"rm_table", "rm_free"} => ldata_lock'[e] = e
    BY DEF IInv, Holding
  <2>3. \A v \in User : (Inside(v)' => table_lock' = v)
    BY DEF IInv, Holding, Inside
  <2>4. \A v \in User : upc'[v] = "o_find" => nv_minor_num_table'[minor'[v]]
    OBVIOUS
  <2>5. \A v \in User : upc'[v] = "o_ldata" =>
           /\ Vgx => devices_lock' = v
           /\ nvptr'[v] \in Dev /\ dpc'[nvptr'[v]] \in {"bound", "freed"}
           /\ minor_num'[nvptr'[v]] = minor'[v]
    BY DEF IInv, Holding
  <2>6. \A v \in User : upc'[v] = "o_init" =>
           /\ nvptr'[v] \in Dev /\ ldata_lock'[nvptr'[v]] = v
           /\ dpc'[nvptr'[v]] \in {"bound", "rm_ldata", "freed"}
           /\ minor_num'[nvptr'[v]] = minor'[v]
    BY DEF IInv, Holding
  <2>7. QED
    BY <2>1, <2>2, <2>3, <2>4, <2>5, <2>6 DEF Holding
<1>2. Using'
  <2>1. \A v \in User : opened'[v] =>
           /\ nvptr'[v] \in Dev /\ dpc'[nvptr'[v]] \in {"bound", "freed"}
           /\ "UNBIND_LOCK" \notin flags'[nvptr'[v]]
           /\ minor_num'[nvptr'[v]] = minor'[v]
           /\ upc'[v] \in {"user", "c_table", "c_ldata", "call"}
    BY DEF IInv, Using
  <2>2. \A v \in User : upc'[v] \in {"c_table", "c_ldata", "call"} => opened'[v]
    BY DEF IInv, Using
  <2>3. \A e \in Dev : Removing(e)' => "UNBIND_LOCK" \in flags'[e]
    BY DEF IInv, Using, Removing
  <2>4. \A e \in Dev :
           "UNBIND_LOCK" \in flags'[e] => Vgx /\ (dpc'[e] = "bound" \/ Removing(e)')
    BY DEF IInv, Using, Removing
  <2>5. QED
    BY <2>1, <2>2, <2>3, <2>4 DEF Using
<1>3. QED
  BY <1>1, <1>2

LEMMA TypeOKTable ==
    ASSUME IInv
    PROVE  TInv
BY DEF IInv, TypeOK, TInv, Shapes, Progress

LEMMA InList ==
    ASSUME IInv, NEW i \in DOMAIN nv_linux_devices
    PROVE  /\ nv_linux_devices[i] \in Dev
           /\ dpc[nv_linux_devices[i]] \in {"listed", "bound", "freed"}
<1>1. nv_linux_devices \in Seq(Dev)
  BY DEF IInv, TypeOK
<1>2. nv_linux_devices[i] \in Dev
  BY <1>1
<1>3. QED
  BY <1>2 DEF IInv, Linked

LEMMA ProbeKeeps ==
    ASSUME Orderly, IInv, NEW d \in Dev, Probe(d)
    PROVE  IInv'
<1>1. /\ dpc[d] = "absent" /\ dpc' = [dpc EXCEPT ![d] = "probing"]
      /\ \A e \in Dev : dpc[e] \in {"absent", "bound", "freed"}
      /\ minor_num' = [minor_num EXCEPT ![d] = 0]
      /\ usage_count' = [usage_count EXCEPT ![d] = 0]
      /\ flags' = [flags EXCEPT ![d] = {}]
      /\ ldata_lock' = [ldata_lock EXCEPT ![d] = None]
      /\ UNCHANGED <<table_lock, devices_lock, nv_minor_num_table, nv_linux_devices,
                     upc, minor, nvptr, opened>>
  BY DEF Probe, Orderly, uvars
<1>2. 0 \in Minors
  BY MinorAssumption DEF Minors
<1>3. TypeOK'
  BY <1>1, <1>2 DEF IInv, TypeOK
<1>4. TableExact'
  BY TypeOKTable, ProbeTable DEF TInv
<1>5. /\ dpc'[d] = "probing" /\ usage_count'[d] = 0 /\ flags'[d] = {}
      /\ \A e \in Dev \ {d} : /\ dpc'[e] = dpc[e] /\ minor_num'[e] = minor_num[e]
                              /\ flags'[e] = flags[e] /\ ldata_lock'[e] = ldata_lock[e]
                              /\ usage_count'[e] = usage_count[e]
  BY <1>1 DEF IInv, TypeOK
<1>6. OneAtATime'
  BY <1>1, <1>5 DEF OneAtATime, InProgress, Removing
<1>7. \A i \in DOMAIN nv_linux_devices :
         nv_linux_devices[i] \in Dev /\ nv_linux_devices[i] # d
  BY <1>1, InList
<1>8. Linked'
  BY <1>1, <1>5, <1>7 DEF IInv, Linked
<1>9. \A u \in User : (opened[u] \/ upc[u] \in {"o_ldata", "o_init"}) => nvptr[u] # d
  BY <1>1 DEF IInv, Using, Holding
<1>10. Holding' /\ Using'
  <2>1. /\ \A u \in User : upc[u] = "o_ldata" => (Vgx => devices_lock' = u)
        /\ \A u \in User : upc[u] = "o_find" => nv_minor_num_table'[minor[u]]
    BY <1>1 DEF IInv, Holding
  <2>2. ~Removing(d)'
    BY <1>5 DEF Removing
  <2>3. QED
    BY <1>1, <1>5, <1>9, <2>1, <2>2, Apart
<1>11. Counted'
  <2>1. Files(d)' = {}
    BY <1>1, <1>9 DEF Files
  <2>2. Cardinality(Files(d)') = 0
    BY <2>1, FS_EmptySet
  <2>3. \A e \in Dev : Files(e)' = Files(e)
    BY <1>1 DEF Files
  <2>4. \A e \in Dev : CountOf(e)
    BY DEF IInv, Counted
  <2>5. \A e \in Dev : CountOf(e)'
    BY <1>5, <2>2, <2>3, <2>4 DEF CountOf
  <2>6. QED
    BY <2>5 DEF Counted
<1>12. QED
  BY <1>3, <1>4, <1>6, <1>8, <1>10, <1>11 DEF IInv

LEMMA ProbeListKeeps ==
    ASSUME IInv, NEW d \in Dev, ProbeList(d)
    PROVE  IInv'
<1>1. /\ dpc[d] = "probing" /\ dpc' = [dpc EXCEPT ![d] = "listed"]
      /\ nv_linux_devices' = Append(nv_linux_devices, d)
      /\ UNCHANGED <<table_lock, devices_lock, ldata_lock, nv_minor_num_table, minor_num,
                     usage_count, flags, upc, minor, nvptr, opened>>
  BY DEF ProbeList, locks, svars, uvars
<1>2. TypeOK'
  BY <1>1 DEF IInv, TypeOK
<1>3. TableExact'
  BY <1>1, TypeOKTable, TableMove DEF TInv, Progress, HasMinor
<1>4. dpc'[d] = "listed" /\ \A e \in Dev \ {d} : dpc'[e] = dpc[e]
  BY <1>1 DEF IInv, TypeOK
<1>5. \A e \in Dev \ {d} : ~InProgress(e)
  BY <1>1 DEF IInv, OneAtATime, InProgress
<1>6. OneAtATime'
  BY <1>4, <1>5 DEF OneAtATime, InProgress, Removing
<1>7. Linked'
  <2> DEFINE L == nv_linux_devices
             K == nv_linux_devices'
  <2>1. L \in Seq(Dev) /\ \A i \in DOMAIN L : L[i] \in Dev /\ L[i] # d
    BY <1>1, InList DEF IInv, TypeOK
  <2>2. /\ Len(K) = Len(L) + 1 /\ DOMAIN K = 1..(Len(L) + 1) /\ DOMAIN L = 1..Len(L)
        /\ K[Len(L) + 1] = d /\ \A i \in DOMAIN L : K[i] = L[i]
    BY <1>1, <2>1
  <2>3. Len(L) \in Nat
    BY <2>1
  <2>4. \A i \in DOMAIN L : dpc[L[i]] \in {"bound", "freed"}
    BY <1>5, <2>1 DEF IInv, Linked, InProgress
  <2>5. \A i \in DOMAIN K : i \in DOMAIN L \/ i = Len(L) + 1
    BY <2>2, <2>3
  <2> HIDE DEF L, K
  <2>6. \A i, j \in DOMAIN K : K[i] = K[j] => i = j
    BY <2>1, <2>2, <2>5 DEF IInv, Linked, L
  <2>7. \A i \in DOMAIN K : /\ dpc'[K[i]] \in {"listed", "bound", "freed"}
                            /\ dpc'[K[i]] = "listed" => i = Len(K)
    BY <1>4, <2>1, <2>2, <2>4, <2>5
  <2>8. \A e \in Dev : dpc'[e] \in {"listed", "bound"} => \E i \in DOMAIN K : K[i] = e
    <3>1. ASSUME NEW e \in Dev \ {d}, dpc'[e] \in {"listed", "bound"}
          PROVE  \E i \in DOMAIN K : K[i] = e
      <4>1. PICK i \in DOMAIN L : L[i] = e
        BY <1>4, <3>1 DEF IInv, Linked, L
      <4>2. QED
        BY <2>2, <2>3, <4>1
    <3>2. Len(L) + 1 \in DOMAIN K
      BY <2>2, <2>3
    <3>3. QED
      BY <2>2, <3>1, <3>2
  <2>9. QED
    BY <2>6, <2>7, <2>8 DEF Linked, K
<1>8. Holding' /\ Using'
  <2>1. \A u \in User : (opened[u] \/ upc[u] \in {"o_ldata", "o_init"}) => nvptr[u] # d
    BY <1>1 DEF IInv, Using, Holding
  <2>2. /\ \A u \in User : upc[u] = "o_ldata" => (Vgx => devices_lock' = u)
        /\ \A u \in User : upc[u] = "o_find" => nv_minor_num_table'[minor[u]]
        /\ \A e \in Dev \ {d} : dpc[e] # "rm_ldata"
    BY <1>1, <1>5 DEF IInv, Holding, InProgress, Removing
  <2>3. ~Removing(d)' /\ "UNBIND_LOCK" \notin flags'[d]
    BY <1>1, <1>4 DEF Removing, IInv, Using
  <2>4. QED
    BY <1>1, <1>4, <2>1, <2>2, <2>3, Apart
<1>9. Counted'
  BY <1>1, <1>4, FilesSame DEF IInv, TypeOK
<1>10. QED
  BY <1>2, <1>3, <1>6, <1>7, <1>8, <1>9 DEF IInv

LEMMA ProbeEndKeeps ==
    ASSUME IInv, NEW d \in Dev, ProbeAdd(d) \/ ProbeAddFails(d)
    PROVE  IInv'
<1>1. PICK l \in {"bound", "freed"} :
        /\ dpc[d] = "listed" /\ dpc' = [dpc EXCEPT ![d] = l]
        /\ UNCHANGED <<table_lock, devices_lock, ldata_lock, nv_linux_devices,
                       usage_count, flags, upc, minor, nvptr, opened>>
        /\ \/ UNCHANGED <<nv_minor_num_table, minor_num>>
           \/ \E m \in Minors :
                 /\ nv_minor_num_table' = [nv_minor_num_table EXCEPT ![m] = TRUE]
                 /\ minor_num' = [minor_num EXCEPT ![d] = m]
  BY DEF ProbeAdd, ProbeAddFails, locks, svars, uvars
<1>2. TypeOK'
  <2>1. nv_minor_num_table' \in [Minors -> BOOLEAN] /\ minor_num' \in [Dev -> Minors]
    <3>1. CASE UNCHANGED <<nv_minor_num_table, minor_num>>
      BY <3>1 DEF IInv, TypeOK
    <3>2. ASSUME NEW m \in Minors,
                 nv_minor_num_table' = [nv_minor_num_table EXCEPT ![m] = TRUE],
                 minor_num' = [minor_num EXCEPT ![d] = m]
          PROVE  nv_minor_num_table' \in [Minors -> BOOLEAN] /\ minor_num' \in [Dev -> Minors]
      BY <3>2 DEF IInv, TypeOK
    <3>3. QED
      BY <1>1, <3>1, <3>2
  <2>2. QED
    BY <1>1, <2>1 DEF IInv, TypeOK
<1>3. TableExact'
  <2>1. TInv
    BY TypeOKTable
  <2>2. CASE ProbeAdd(d)
    BY <2>1, <2>2, ProbeAddTable DEF TInv
  <2>3. CASE ProbeAddFails(d)
    BY <2>1, <2>3, TableMove DEF ProbeAddFails, TInv, Progress, HasMinor
  <2>4. QED
    BY <2>2, <2>3
<1>4. /\ dpc'[d] = l
      /\ \A e \in Dev \ {d} : dpc'[e] = dpc[e] /\ minor_num'[e] = minor_num[e]
  BY <1>1 DEF IInv, TypeOK
<1>5. \A e \in Dev \ {d} : ~InProgress(e)
  BY <1>1 DEF IInv, OneAtATime, InProgress
<1>6. OneAtATime'
  BY <1>4, <1>5 DEF OneAtATime, InProgress, Removing
<1>7. Linked'
  <2>1. \A i \in DOMAIN nv_linux_devices : nv_linux_devices[i] \in Dev
    BY InList
  <2>2. \A i \in DOMAIN nv_linux_devices :
           /\ dpc'[nv_linux_devices[i]] \in {"listed", "bound", "freed"}
           /\ dpc'[nv_linux_devices[i]] = "listed" => i = Len(nv_linux_devices)
    BY <1>4, <2>1 DEF IInv, Linked
  <2>3. \A e \in Dev : dpc'[e] \in {"listed", "bound"} => dpc[e] \in {"listed", "bound"}
    BY <1>1, <1>4
  <2>4. QED
    BY <1>1, <2>2, <2>3 DEF IInv, Linked
<1>8. Holding' /\ Using'
  <2>1. \A u \in User : (opened[u] \/ upc[u] \in {"o_ldata", "o_init"}) => nvptr[u] # d
    BY <1>1 DEF IInv, Using, Holding
  <2>2. \A u \in User : upc[u] = "o_find" => nv_minor_num_table'[minor[u]]
    <3>1. ASSUME NEW u \in User, upc[u] = "o_find" PROVE nv_minor_num_table'[minor[u]]
      <4>1. nv_minor_num_table[minor[u]] /\ minor[u] \in Minors
        BY <3>1 DEF IInv, Holding, TypeOK
      <4>2. QED
        BY <1>1, <4>1 DEF IInv, TypeOK
    <3>2. QED
      BY <3>1
  <2>3. /\ \A u \in User : upc[u] = "o_ldata" => (Vgx => devices_lock' = u)
        /\ \A e \in Dev \ {d} : dpc[e] # "rm_ldata"
    BY <1>1, <1>5 DEF IInv, Holding, InProgress, Removing
  <2>4. ~Removing(d)' /\ "UNBIND_LOCK" \notin flags'[d]
    BY <1>1, <1>4 DEF Removing, IInv, Using
  <2>5. QED
    BY <1>1, <1>4, <2>1, <2>2, <2>3, <2>4, Apart
<1>9. Counted'
  BY <1>1, <1>4, FilesSame DEF IInv, TypeOK
<1>10. QED
  BY <1>2, <1>3, <1>6, <1>7, <1>8, <1>9 DEF IInv

LEMMA RemoveUnlinkKeeps ==
    ASSUME Orderly, IInv, NEW d \in Dev, RemoveUnlink(d)
    PROVE  IInv'
<1>1. PICK k \in DOMAIN nv_linux_devices :
        nv_linux_devices[k] = d /\ nv_linux_devices' = Unlinked(k)
  BY DEF RemoveUnlink
<1>2. /\ dpc[d] = "bound" /\ dpc' = [dpc EXCEPT ![d] = "rm_ldata"]
      /\ "UNBIND_LOCK" \in flags[d] /\ Vgx
      /\ \A e \in Dev : dpc[e] \in {"absent", "bound", "freed"}
      /\ devices_lock = None /\ devices_lock' = d
      /\ UNCHANGED <<table_lock, ldata_lock, nv_minor_num_table, minor_num,
                     usage_count, flags, upc, minor, nvptr, opened>>
  BY DEF RemoveUnlink, MayUnbind, Orderly, DevicesFree, TakeDevices, svars, uvars
<1>3. dpc'[d] = "rm_ldata" /\ \A e \in Dev \ {d} : dpc'[e] = dpc[e]
  BY <1>2 DEF IInv, TypeOK
<1>4. OneAtATime'
  BY <1>2, <1>3 DEF OneAtATime, InProgress, Removing
<1>5. nv_linux_devices' \in Seq(Dev) /\ Linked'
  <2> DEFINE L == nv_linux_devices
             K == nv_linux_devices'
             n == Len(nv_linux_devices)
  <2>1. /\ L \in Seq(Dev) /\ n \in Nat /\ DOMAIN L = 1..n /\ k \in 1..n
        /\ \A i \in 1..n : L[i] \in Dev
    BY <1>1, InList DEF IInv, TypeOK
  <2>2. /\ K = [j \in 1..(n - 1) |-> IF j < k THEN L[j] ELSE L[j + 1]]
        /\ \A i, j \in 1..n : L[i] = L[j] => i = j
        /\ L[k] = d
    BY <1>1, <2>1 DEF Unlinked, IInv, Linked
  <2>3. \A i \in 1..n : dpc[L[i]] \in {"bound", "freed"}
    BY <1>2, <2>1 DEF IInv, Linked
  <2> HIDE DEF L, K, n
  <2>4. n - 1 \in Nat /\ DOMAIN K = 1..(n - 1) /\ K \in Seq(Dev) /\ Len(K) = n - 1
    <3>1. n - 1 \in Nat
      BY <2>1
    <3>2. K \in [1..(n - 1) -> Dev]
      BY <2>1, <2>2
    <3>3. QED
      BY <3>1, <3>2
  <2>5. \A j \in 1..(n - 1) : \E i \in 1..n : i # k /\ K[j] = L[i]
                                 /\ i = IF j < k THEN j ELSE j + 1
    BY <2>1, <2>2
  <2>6. \A i, j \in DOMAIN K : K[i] = K[j] => i = j
    BY <2>1, <2>2, <2>4, <2>5
  <2>7. \A j \in DOMAIN K : K[j] \in Dev /\ K[j] # d /\ dpc[K[j]] \in {"bound", "freed"}
    BY <2>1, <2>2, <2>3, <2>4, <2>5
  <2>8. \A j \in DOMAIN K : /\ dpc'[K[j]] \in {"listed", "bound", "freed"}
                            /\ dpc'[K[j]] = "listed" => j = Len(K)
    BY <1>3, <2>7
  <2>9. ASSUME NEW e \in Dev, dpc'[e] \in {"listed", "bound"}
        PROVE  \E j \in DOMAIN K : K[j] = e
    <3>1. e # d /\ dpc[e] \in {"listed", "bound"}
      BY <1>3, <2>9
    <3>2. PICK i \in 1..n : L[i] = e
      BY <2>1, <3>1 DEF IInv, Linked, L
    <3>3. i # k
      BY <2>2, <3>1, <3>2
    <3>4. CASE i < k
      BY <2>1, <2>2, <2>4, <3>2, <3>4
    <3>5. CASE i > k
      <4>1. i - 1 \in 1..(n - 1) /\ ~(i - 1 < k) /\ i - 1 + 1 = i
        BY <2>1, <3>5
      <4>2. K[i - 1] = e
        BY <2>2, <3>2, <4>1
      <4>3. QED
        BY <2>4, <4>1, <4>2
    <3>6. QED
      BY <2>1, <3>3, <3>4, <3>5
  <2>10. QED
    BY <2>4, <2>6, <2>8, <2>9 DEF Linked, K
<1>6. TypeOK'
  BY <1>2, <1>5 DEF IInv, TypeOK
<1>7. TableExact'
  BY <1>2, TypeOKTable, TableMove DEF TInv, Progress, HasMinor
<1>8. \A u \in User : upc[u] # "o_ldata"
  BY <1>2, NoneAssumption DEF IInv, Holding
<1>9. Holding'
  <2>1. \A e \in Dev : dpc'[e] = "rm_ldata" => devices_lock' = e
    BY <1>2, <1>3
  <2>2. \A e \in Dev : dpc'[e] \notin {"rm_table", "rm_free"}
    BY <1>2, <1>3
  <2>3. \A v \in User : Inside(v)' => table_lock' = v
    BY <1>2 DEF IInv, Holding, Inside
  <2>4. \A v \in User : upc'[v] = "o_find" => nv_minor_num_table'[minor'[v]]
    BY <1>2 DEF IInv, Holding
  <2>5. \A v \in User : upc'[v] = "o_init" =>
           /\ nvptr'[v] \in Dev /\ ldata_lock'[nvptr'[v]] = v
           /\ dpc'[nvptr'[v]] \in {"bound", "rm_ldata", "freed"}
           /\ minor_num'[nvptr'[v]] = minor'[v]
    BY <1>2, <1>3 DEF IInv, Holding
  <2>6. QED
    BY <1>2, <1>8, <2>1, <2>2, <2>3, <2>4, <2>5 DEF Holding
<1>10. Using'
  <2>1. \A u \in User : opened[u] => nvptr[u] # d
    BY <1>2 DEF IInv, Using
  <2>2. QED
    BY <1>2, <1>3, <2>1 DEF IInv, Using, Removing
<1>11. Counted'
  BY <1>2, <1>3, FilesSame DEF IInv, TypeOK
<1>12. QED
  BY <1>4, <1>5, <1>6, <1>7, <1>9, <1>10, <1>11 DEF IInv

\* The later steps of a removal.
LEMMA RemoveLinked ==
    ASSUME IInv, NEW d \in Dev, Removing(d), nv_linux_devices' = nv_linux_devices,
           dpc'[d] \in {"rm_table", "rm_free", "absent"},
           \A e \in Dev \ {d} : dpc'[e] = dpc[e]
    PROVE  OneAtATime' /\ Linked' /\ \A e \in Dev \ {d} : dpc[e] # "rm_ldata"
<1>1. \A e \in Dev \ {d} : ~InProgress(e)
  BY DEF IInv, OneAtATime, InProgress
<1>2. OneAtATime'
  BY <1>1 DEF OneAtATime, InProgress, Removing
<1>3. \A i \in DOMAIN nv_linux_devices : nv_linux_devices[i] \in Dev \ {d}
  BY InList DEF Removing
<1>4. Linked'
  <2>1. \A i \in DOMAIN nv_linux_devices : dpc'[nv_linux_devices[i]] = dpc[nv_linux_devices[i]]
    BY <1>3
  <2>2. \A e \in Dev : dpc'[e] \in {"listed", "bound"} => dpc[e] \in {"listed", "bound"}
    OBVIOUS
  <2>3. QED
    BY <2>1, <2>2 DEF IInv, Linked
<1>5. QED
  BY <1>1, <1>2, <1>4 DEF InProgress, Removing

LEMMA RemoveLdataKeeps ==
    ASSUME IInv, NEW d \in Dev, RemoveLdata(d)
    PROVE  IInv'
<1>1. /\ dpc[d] = "rm_ldata" /\ dpc' = [dpc EXCEPT ![d] = "rm_table"]
      /\ ldata_lock[d] = None /\ ldata_lock' = [ldata_lock EXCEPT ![d] = d]
      /\ devices_lock' \in {devices_lock, None}
      /\ UNCHANGED <<table_lock, nv_minor_num_table, nv_linux_devices, minor_num,
                     usage_count, flags, upc, minor, nvptr, opened>>
  BY DEF RemoveLdata, TakeDevices, svars, uvars
<1>2. Removing(d) /\ "UNBIND_LOCK" \in flags[d] /\ Vgx /\ devices_lock = d
  BY <1>1 DEF Removing, IInv, Using, Holding
<1>3. TypeOK'
  BY <1>1 DEF IInv, TypeOK
<1>4. TableExact'
  BY <1>1, TypeOKTable, TableMove DEF TInv, Progress, HasMinor
<1>5. /\ dpc'[d] = "rm_table" /\ ldata_lock'[d] = d
      /\ \A e \in Dev \ {d} : dpc'[e] = dpc[e] /\ ldata_lock'[e] = ldata_lock[e]
  BY <1>1 DEF IInv, TypeOK
<1>6. OneAtATime' /\ Linked' /\ \A e \in Dev \ {d} : dpc[e] # "rm_ldata"
  BY <1>1, <1>2, <1>5, RemoveLinked
<1>7. \A u \in User : upc[u] # "o_ldata"
  BY <1>2, NoneAssumption DEF IInv, Holding
<1>8. \A u \in User : (opened[u] \/ upc[u] \in {"o_ldata", "o_init"}) => nvptr[u] # d
  BY <1>1, <1>7, NoneAssumption DEF IInv, Using, Holding
<1>9. Holding' /\ Using'
  <2>1. \A u \in User : upc[u] = "o_find" => nv_minor_num_table'[minor[u]]
    BY <1>1 DEF IInv, Holding
  <2>2. Removing(d)'
    BY <1>5 DEF Removing
  <2>3. QED
    BY <1>1, <1>2, <1>5, <1>6, <1>7, <1>8, <2>1, <2>2, Apart
<1>10. Counted'
  BY <1>1, <1>5, FilesSame DEF IInv, TypeOK
<1>11. QED
  BY <1>3, <1>4, <1>6, <1>9, <1>10 DEF IInv

LEMMA RemoveTableKeeps ==
    ASSUME IInv, NEW d \in Dev, RemoveTable(d)
    PROVE  IInv'
<1>1. /\ dpc[d] = "rm_table" /\ dpc' = [dpc EXCEPT ![d] = "rm_free"]
      /\ table_lock = None
      /\ nv_minor_num_table' = [nv_minor_num_table EXCEPT ![minor_num[d]] = FALSE]
      /\ minor_num' = [minor_num EXCEPT ![d] = 0]
      /\ UNCHANGED <<table_lock, devices_lock, ldata_lock, nv_linux_devices,
                     usage_count, flags, upc, minor, nvptr, opened>>
  BY DEF RemoveTable, locks, svars, uvars
<1>2. Removing(d) /\ "UNBIND_LOCK" \in flags[d] /\ Vgx /\ ldata_lock[d] = d
  BY <1>1 DEF Removing, IInv, Using, Holding
<1>3. 0 \in Minors
  BY MinorAssumption DEF Minors
<1>4. TypeOK'
  BY <1>1, <1>3 DEF IInv, TypeOK
<1>5. TableExact'
  BY TypeOKTable, RemoveTableTable DEF TInv
<1>6. /\ dpc'[d] = "rm_free"
      /\ \A e \in Dev \ {d} : dpc'[e] = dpc[e] /\ minor_num'[e] = minor_num[e]
  BY <1>1 DEF IInv, TypeOK
<1>7. OneAtATime' /\ Linked' /\ \A e \in Dev \ {d} : dpc[e] # "rm_ldata"
  BY <1>1, <1>2, <1>6, RemoveLinked
<1>8. \A u \in User : (opened[u] \/ upc[u] \in {"o_ldata", "o_init"}) => nvptr[u] # d
  BY <1>1 DEF IInv, Using, Holding
<1>9. Holding' /\ Using'
  <2>1. \A u \in User : upc[u] # "o_find"
    BY <1>1, NoneAssumption DEF IInv, Holding, Inside
  <2>2. Removing(d)'
    BY <1>6 DEF Removing
  <2>3. \A u \in User : upc[u] = "o_ldata" => (Vgx => devices_lock' = u)
    BY <1>1 DEF IInv, Holding
  <2>4. QED
    BY <1>1, <1>2, <1>6, <1>7, <1>8, <2>1, <2>2, <2>3, Apart
<1>10. Counted'
  BY <1>1, <1>6, FilesSame DEF IInv, TypeOK
<1>11. QED
  BY <1>4, <1>5, <1>7, <1>9, <1>10 DEF IInv

LEMMA RemoveFreeKeeps ==
    ASSUME IInv, NEW d \in Dev, RemoveFree(d)
    PROVE  IInv'
<1>1. /\ dpc[d] = "rm_free" /\ dpc' = [dpc EXCEPT ![d] = "absent"]
      /\ flags' = [flags EXCEPT ![d] = {}]
      /\ usage_count' = [usage_count EXCEPT ![d] = 0]
      /\ ldata_lock' = [ldata_lock EXCEPT ![d] = None]
      /\ nvptr' = [u \in User |-> IF nvptr[u] = d THEN None ELSE nvptr[u]]
      /\ UNCHANGED <<table_lock, devices_lock, nv_minor_num_table, nv_linux_devices,
                     minor_num, upc, minor, opened>>
  BY DEF RemoveFree
<1>2. Removing(d)
  BY <1>1 DEF Removing
<1>3. TypeOK'
  BY <1>1 DEF IInv, TypeOK
<1>4. TableExact'
  BY <1>1, TypeOKTable, TableMove DEF TInv, Progress, HasMinor
<1>5. /\ dpc'[d] = "absent" /\ flags'[d] = {}
      /\ \A e \in Dev \ {d} : /\ dpc'[e] = dpc[e] /\ flags'[e] = flags[e]
                              /\ usage_count'[e] = usage_count[e]
                              /\ ldata_lock'[e] = ldata_lock[e]
      /\ \A u \in User : nvptr[u] # d => nvptr'[u] = nvptr[u]
  BY <1>1 DEF IInv, TypeOK
<1>6. OneAtATime' /\ Linked' /\ \A e \in Dev \ {d} : dpc[e] # "rm_ldata"
  BY <1>1, <1>2, <1>5, RemoveLinked
<1>7. \A u \in User : (opened[u] \/ upc[u] \in {"o_ldata", "o_init"}) => nvptr[u] # d
  BY <1>1 DEF IInv, Using, Holding
<1>8. Holding' /\ Using'
  <2>1. /\ \A u \in User : upc[u] = "o_ldata" => (Vgx => devices_lock' = u)
        /\ \A u \in User : upc[u] = "o_find" => nv_minor_num_table'[minor[u]]
    BY <1>1 DEF IInv, Holding
  <2>2. ~Removing(d)'
    BY <1>5 DEF Removing
  <2>3. QED
    BY <1>1, <1>5, <1>6, <1>7, <2>1, <2>2, Apart
<1>9. Counted'
  <2>1. \A e \in Dev \ {d} : Files(e)' = Files(e)
    BY <1>1, <1>5, <1>7 DEF Files
  <2>2. \A e \in Dev : CountOf(e)
    BY DEF IInv, Counted
  <2>3. \A e \in Dev : CountOf(e)'
    BY <1>5, <2>1, <2>2 DEF CountOf
  <2>4. QED
    BY <2>3 DEF Counted
<1>10. QED
  BY <1>3, <1>4, <1>6, <1>8, <1>9 DEF IInv

LEMMA UnbindLockKeeps ==
    ASSUME IInv, NEW d \in Dev, UnbindLock(d) \/ UnbindUnlock(d)
    PROVE  IInv'
<1>1. /\ Vgx /\ dpc[d] = "bound"
      /\ UNCHANGED <<table_lock, devices_lock, ldata_lock, nv_minor_num_table,
                     nv_linux_devices, dpc, minor_num, usage_count, upc, minor,
                     nvptr, opened>>
      /\ \/ flags' = [flags EXCEPT ![d] = @ \cup {"UNBIND_LOCK"}] /\ usage_count[d] = 0
         \/ flags' = [flags EXCEPT ![d] = @ \ {"UNBIND_LOCK"}]
  BY DEF UnbindLock, UnbindUnlock, locks, dvars, uvars
<1>2. TypeOK'
  <2>1. flags' \in [Dev -> SUBSET {"OPEN", "UNBIND_LOCK"}]
    <3>1. flags \in [Dev -> SUBSET {"OPEN", "UNBIND_LOCK"}]
      BY DEF IInv, TypeOK
    <3>2. /\ flags[d] \cup {"UNBIND_LOCK"} \in SUBSET {"OPEN", "UNBIND_LOCK"}
          /\ flags[d] \ {"UNBIND_LOCK"} \in SUBSET {"OPEN", "UNBIND_LOCK"}
      BY <3>1
    <3>3. PICK f \in SUBSET {"OPEN", "UNBIND_LOCK"} : flags' = [flags EXCEPT ![d] = f]
      BY <1>1, <3>2
    <3>4. QED
      BY <3>1, <3>3
  <2>2. QED
    BY <1>1, <2>1 DEF IInv, TypeOK
<1>3. TableExact' /\ OneAtATime' /\ Linked'
  BY <1>1, DevicesSame DEF IInv, TableExact, HasMinor, dvars
<1>4. Holding'
  BY <1>1 DEF IInv, Holding, Inside
<1>5. /\ \A e \in Dev \ {d} : flags'[e] = flags[e]
      /\ \A e \in Dev : "OPEN" \in flags'[e] <=> "OPEN" \in flags[e]
      /\ "UNBIND_LOCK" \in flags'[d] => usage_count[d] = 0
  <2>1. flags \in [Dev -> SUBSET {"OPEN", "UNBIND_LOCK"}]
    BY DEF IInv, TypeOK
  <2>2. CASE flags' = [flags EXCEPT ![d] = @ \cup {"UNBIND_LOCK"}] /\ usage_count[d] = 0
    <3>1. /\ flags'[d] = flags[d] \cup {"UNBIND_LOCK"}
          /\ \A e \in Dev \ {d} : flags'[e] = flags[e]
      BY <2>1, <2>2
    <3>2. "OPEN" \in flags'[d] <=> "OPEN" \in flags[d]
      BY <3>1
    <3>3. QED
      BY <2>2, <3>1, <3>2
  <2>3. CASE flags' = [flags EXCEPT ![d] = @ \ {"UNBIND_LOCK"}]
    <3>1. /\ flags'[d] = flags[d] \ {"UNBIND_LOCK"}
          /\ \A e \in Dev \ {d} : flags'[e] = flags[e]
      BY <2>1, <2>3
    <3>2. "OPEN" \in flags'[d] <=> "OPEN" \in flags[d]
      BY <3>1
    <3>3. "UNBIND_LOCK" \notin flags'[d]
      BY <3>1
    <3>4. QED
      BY <3>1, <3>2, <3>3
  <2>4. QED
    BY <1>1, <2>2, <2>3
<1>6. \A u \in User : opened[u] /\ nvptr[u] = d => usage_count[d] # 0
  <2>1. ASSUME NEW u \in User, opened[u], nvptr[u] = d, usage_count[d] = 0 PROVE FALSE
    <3>1. Cardinality(Files(d)) = 0
      BY <1>1, <2>1 DEF IInv, Counted, CountOf
    <3>2. Files(d) = {}
      BY <3>1, FilesFinite, FS_EmptySet
    <3>3. QED
      BY <2>1, <3>2 DEF Files
  <2>2. QED
    BY <2>1
<1>7. Using'
  BY <1>1, <1>5, <1>6 DEF IInv, Using, Removing
<1>8. Counted'
  BY <1>1, <1>5, FilesSame DEF IInv, TypeOK
<1>9. QED
  BY <1>2, <1>3, <1>4, <1>7, <1>8 DEF IInv

\* The inductive invariant.  The count alone is not inductive: that an open
\* finds the right device rests on the order of the list and on the table
\* staying locked, and that none is lost on unbindLock keeping open out.
THEOREM Invariance ==
    ASSUME Orderly
    PROVE  Spec => []IInv
<1>1. Init => IInv
  <2>1. SUFFICES ASSUME Init PROVE IInv
    OBVIOUS
  <2>2. TypeOK /\ TableExact
    BY <2>1, MinorAssumption DEF Init, TypeOK, TableExact, HasMinor, Minors
  <2>3. OneAtATime /\ Linked
    BY <2>1 DEF Init, OneAtATime, InProgress, Removing, Linked
  <2>4. Holding /\ Using
    BY <2>1 DEF Init, Holding, Inside, Using, Removing
  <2>5. Counted
    BY <2>1 DEF Init, Counted, CountOf
  <2>6. QED
    BY <2>2, <2>3, <2>4, <2>5 DEF IInv
<1>2. IInv /\ [Next]_vars => IInv'
  <2>1. SUFFICES ASSUME IInv, [Next]_vars PROVE IInv'
    OBVIOUS
  <2>2. CASE UNCHANGED vars
    <3>1. TypeOK' /\ TableExact'
      BY <2>1, <2>2 DEF vars, locks, dvars, svars, uvars, IInv, TypeOK, TableExact, HasMinor
    <3>2. OneAtATime' /\ Linked'
      BY <2>1, <2>2, DevicesSame DEF vars, IInv
    <3>3. Holding' /\ Using'
      BY <2>1, <2>2 DEF vars, locks, dvars, svars, uvars, IInv, Holding, Inside, Using, Removing
    <3>4. Counted'
      BY <2>1, <2>2, FilesSame DEF vars, dvars, svars, uvars, IInv, TypeOK
    <3>5. QED
      BY <3>1, <3>2, <3>3, <3>4 DEF IInv
  <2>3. ASSUME NEW d \in Dev,
               Probe(d) \/ RemoveUnlink(d) \/ UnbindLock(d) \/ UnbindUnlock(d) \/ Hotplug(d)
        PROVE  IInv'
    BY <2>1, <2>3, ProbeKeeps, ProbeListKeeps, ProbeEndKeeps, RemoveUnlinkKeeps,
       RemoveLdataKeeps, RemoveTableKeeps, RemoveFreeKeeps, UnbindLockKeeps DEF Hotplug
  <2>4. ASSUME NEW u \in User,
               (\E m \in Minors : Open(u, m)) \/ Close(u) \/ Call(u) \/ InDriver(u)
        PROVE  IInv'
    BY <2>1, <2>4, OpenKeeps, LookupKeeps, CloseLeaksKeeps, OpenNoMemoryKeeps, OpenFindKeeps, MoveKeeps,
       OpenLdataKeeps, OpenInitKeeps, OpenFailsKeeps, CloseLdataKeeps DEF InDriver
  <2>5. QED
    BY <2>1, <2>2, <2>3, <2>4 DEF Next
<1>3. QED
  BY <1>1, <1>2, PTL DEF Spec

\* Types.
THEOREM TypeCorrect ==
    ASSUME Orderly
    PROVE  Spec => []TypeOK
<1>1. IInv => TypeOK
  BY DEF IInv
<1>2. QED
  BY <1>1, Invariance, PTL

\* usage_count counts the open files of each device that is not freed.
THEOREM UsageExactCorrect ==
    ASSUME Orderly
    PROVE  Spec => []UsageExact
<1>1. IInv => UsageExact
  BY DEF IInv, Counted, CountOf, UsageExact, Files
<1>2. QED
  BY <1>1, Invariance, PTL

\* No removal takes a device away from an open file or from an open under way;
\* the only other device that is not there and can have files is one that a
\* failed probe has left in the list.
THEOREM NoStaleUseCorrect ==
    ASSUME Orderly
    PROVE  Spec => []NoStaleUse
<1>1. IInv => NoStaleUse
  BY NoneAssumption DEF IInv, Using, Holding, NoStaleUse, LeftOver
<1>2. QED
  BY <1>1, Invariance, PTL

\* A file talks to the device whose minor number it was opened with.
THEOREM FileMatchesMinorCorrect ==
    ASSUME Orderly
    PROVE  Spec => []FileMatchesMinor
<1>1. IInv => FileMatchesMinor
  BY DEF IInv, Using, FileMatchesMinor
<1>2. QED
  BY <1>1, Invariance, PTL

-----------------------------------------------------------------------------
(***************************************************************************)
(* The three semaphores.                                                   *)
(***************************************************************************)

\* A semaphore that is taken is held by someone who is at a place where the
\* code holds it: none is left locked behind.
TableHeld == table_lock # None => Inside(table_lock)
ListHeld ==
    devices_lock # None =>
        /\ Vgx
        /\ \/ devices_lock \in Dev /\ dpc[devices_lock] = "rm_ldata"
           \/ devices_lock \in User /\ upc[devices_lock] = "o_ldata"
DataHeldBy(d, t) ==
    \/ t = d /\ dpc[d] \in {"rm_table", "rm_free"}
    \/ t \in User /\ upc[t] = "o_init" /\ nvptr[t] = d
DataHeld == \A d \in Dev : ldata_lock[d] # None => DataHeldBy(d, ldata_lock[d])

Held == TableHeld /\ ListHeld /\ DataHeld

\* Steps of a device.
LEMMA DeviceHeld ==
    ASSUME IInv, Held, NEW d \in Dev,
           Probe(d) \/ RemoveUnlink(d) \/ UnbindLock(d) \/ UnbindUnlock(d) \/ Hotplug(d)
    PROVE  Held'
<1> USE NoneAssumption
<1>1. CASE Probe(d)
  <2>1. TableHeld' /\ ListHeld'
    BY <1>1 DEF Probe, IInv, TypeOK, Held, TableHeld, Inside, ListHeld, uvars
  <2>2. DataHeld'
    BY <1>1 DEF Probe, IInv, TypeOK, Held, DataHeld, DataHeldBy, uvars
  <2>3. QED
    BY <2>1, <2>2 DEF Held
<1>2. CASE RemoveUnlink(d)
  <2>1. TableHeld' /\ ListHeld'
    BY <1>2 DEF RemoveUnlink, TakeDevices, IInv, TypeOK, Held, TableHeld, Inside, ListHeld, uvars
  <2>2. DataHeld'
    BY <1>2 DEF RemoveUnlink, IInv, TypeOK, Held, DataHeld, DataHeldBy, uvars
  <2>3. QED
    BY <2>1, <2>2 DEF Held
<1>3. CASE UnbindLock(d) \/ UnbindUnlock(d)
  BY <1>3 DEF UnbindLock, UnbindUnlock, Held, TableHeld, Inside, ListHeld, DataHeld, DataHeldBy,
              locks, dvars, uvars
<1>4. CASE ProbeList(d) \/ ProbeAdd(d) \/ ProbeAddFails(d)
  <2>1. PICK l \in {"listed", "bound", "freed"} :
          /\ dpc[d] \in {"probing", "listed"} /\ dpc' = [dpc EXCEPT ![d] = l]
          /\ UNCHANGED <<locks, uvars>>
    BY <1>4 DEF ProbeList, ProbeAdd, ProbeAddFails
  <2>2. TableHeld' /\ ListHeld'
    BY <2>1 DEF IInv, TypeOK, Held, TableHeld, Inside, ListHeld, locks, uvars
  <2>3. DataHeld'
    BY <2>1 DEF IInv, TypeOK, Held, DataHeld, DataHeldBy, locks, uvars
  <2>4. QED
    BY <2>2, <2>3 DEF Held
<1>5. CASE RemoveLdata(d)
  <2>1. Vgx
    BY <1>5 DEF RemoveLdata, IInv, Using, Removing
  <2>2. TableHeld' /\ ListHeld'
    BY <1>5, <2>1 DEF RemoveLdata, TakeDevices, Held, TableHeld, Inside, ListHeld, uvars
  <2>3. DataHeld'
    BY <1>5 DEF RemoveLdata, IInv, TypeOK, Held, DataHeld, DataHeldBy, uvars
  <2>4. QED
    BY <2>2, <2>3 DEF Held
<1>6. CASE RemoveTable(d)
  <2>1. TableHeld' /\ ListHeld'
    BY <1>6 DEF RemoveTable, IInv, TypeOK, Held, TableHeld, Inside, ListHeld, locks, uvars
  <2>2. DataHeld'
    BY <1>6 DEF RemoveTable, IInv, TypeOK, Held, DataHeld, DataHeldBy, locks, uvars
  <2>3. QED
    BY <2>1, <2>2 DEF Held
<1>7. CASE RemoveFree(d)
  <2>1. TableHeld' /\ ListHeld'
    BY <1>7 DEF RemoveFree, IInv, TypeOK, Held, TableHeld, Inside, ListHeld
  <2>2. DataHeld'
    <3>1. SUFFICES ASSUME NEW e \in Dev, ldata_lock'[e] # None
                   PROVE  DataHeldBy(e, ldata_lock[e])' /\ ldata_lock'[e] = ldata_lock[e]
      BY DEF DataHeld, DataHeldBy
    <3>2. e # d /\ ldata_lock'[e] = ldata_lock[e] /\ dpc'[e] = dpc[e] /\ UNCHANGED upc
      BY <1>7, <3>1 DEF RemoveFree, IInv, TypeOK
    <3>3. DataHeldBy(e, ldata_lock[e])
      BY <3>1, <3>2 DEF Held, DataHeld
    <3>4. \A u \in User : nvptr[u] = e => nvptr'[u] = e
      BY <1>7, <3>2 DEF RemoveFree
    <3>5. QED
      BY <3>2, <3>3, <3>4 DEF DataHeldBy
  <2>3. QED
    BY <2>1, <2>2 DEF Held
<1>8. QED
  BY <1>1, <1>2, <1>3, <1>4, <1>5, <1>6, <1>7 DEF Hotplug

\* A process that holds nothing but the table moves on, and lets it go or not.
LEMMA MoveHeld ==
    ASSUME IInv, Held, NEW u \in User, NEW l,
           upc[u] \notin {"o_ldata", "o_init"},
           upc' = [upc EXCEPT ![u] = l],
           UNCHANGED <<devices_lock, ldata_lock, dpc>>,
           \A v \in User : v # u => nvptr'[v] = nvptr[v],
           \/ ~Inside(u) /\ table_lock' = table_lock
           \/ l \in {"o_find", "oops"} /\ table_lock' = u
           \/ table_lock' = None
    PROVE  Held'
<1> USE NoneAssumption
<1>1. \A v \in User : v # u => upc'[v] = upc[v]
  BY DEF IInv, TypeOK
<1>2. upc'[u] = l
  BY DEF IInv, TypeOK
<1>3. TableHeld'
  BY <1>1, <1>2 DEF IInv, TypeOK, Held, TableHeld, Inside
<1>4. ListHeld'
  BY <1>1 DEF Held, ListHeld
<1>5. DataHeld'
  BY <1>1 DEF Held, DataHeld, DataHeldBy
<1>6. QED
  BY <1>3, <1>4, <1>5 DEF Held

\* Steps of a process.
LEMMA ProcessHeld ==
    ASSUME IInv, Held, NEW u \in User,
           (\E m \in Minors : Open(u, m)) \/ Close(u) \/ Call(u) \/ InDriver(u)
    PROVE  Held'
<1> USE NoneAssumption
<1>1. CASE (\E m \in Minors : Open(u, m)) \/ Close(u) \/ Call(u) \/ CallReturn(u)
  <2>1. PICK l : /\ upc' = [upc EXCEPT ![u] = l] /\ upc[u] \in {"user", "call"}
                 /\ UNCHANGED <<locks, dvars, nvptr>>
    BY <1>1 DEF Open, Close, Call, CallReturn
  <2>2. QED
    BY <2>1, MoveHeld DEF locks, dvars, Inside
<1>2. CASE OpenTable(u)
  BY <1>2, MoveHeld DEF OpenTable, dvars, Inside
<1>3. CASE OpenNoMemory(u)
  BY <1>3, MoveHeld DEF OpenNoMemory, dvars
<1>4. CASE OpenOops(u)
  <2>1. table_lock = u
    BY <1>4 DEF OpenOops, IInv, Holding, Inside
  <2>2. QED
    BY <1>4, <2>1, MoveHeld DEF OpenOops, locks, dvars
<1>5. CASE CloseTable(u)
  <2>1. \A v \in User : v # u => nvptr'[v] = nvptr[v]
    BY <1>5 DEF CloseTable, IInv, TypeOK
  <2>2. CASE UNCHANGED <<nvptr, opened>> /\ UGoto(u, "c_ldata") /\ table_lock' = u
    <3>1. \A v \in User : v # u => upc'[v] = upc[v]
      BY <2>2 DEF IInv, TypeOK
    <3>2. upc'[u] = "c_ldata" /\ upc[u] = "c_table" /\ UNCHANGED <<devices_lock, ldata_lock, dpc>>
      BY <1>5, <2>2 DEF CloseTable, IInv, TypeOK, dvars
    <3>3. TableHeld'
      BY <2>2, <3>2 DEF TableHeld, Inside
    <3>4. ListHeld'
      BY <3>1, <3>2 DEF Held, ListHeld
    <3>5. DataHeld'
      BY <2>1, <3>1, <3>2 DEF Held, DataHeld, DataHeldBy
    <3>6. QED
      BY <3>3, <3>4, <3>5 DEF Held
  <2>3. CASE UGoto(u, "user") /\ UNCHANGED table_lock
    <3>1. upc[u] = "c_table" /\ UNCHANGED <<devices_lock, ldata_lock, dpc>>
      BY <1>5 DEF CloseTable, dvars
    <3>2. QED
      BY <2>1, <2>3, <3>1, MoveHeld DEF Inside
  <2>4. QED
    BY <1>5, <2>2, <2>3 DEF CloseTable
<1>6. CASE CloseLdata(u)
  <2>1. \A v \in User : v # u => nvptr'[v] = nvptr[v]
    BY <1>6 DEF CloseLdata, IInv, TypeOK
  <2>2. QED
    BY <1>6, <2>1, MoveHeld DEF CloseLdata, dvars
<1>7. CASE OpenFind(u)
  <2>1. upc[u] = "o_find" /\ table_lock = u /\ UNCHANGED <<ldata_lock, dpc>>
    BY <1>7 DEF OpenFind, IInv, Holding, Inside, dvars
  <2>2. \A v \in User : v # u => nvptr'[v] = nvptr[v]
    BY <1>7 DEF OpenFind, IInv, TypeOK
  <2>3. CASE table_lock' = None /\ UGoto(u, "user") /\ UNCHANGED devices_lock
    BY <2>1, <2>2, <2>3, MoveHeld
  <2>4. CASE UNCHANGED table_lock /\ TakeDevices(u) /\ UGoto(u, "o_ldata")
    <3>1. /\ \A v \in User : v # u => upc'[v] = upc[v]
          /\ upc'[u] = "o_ldata"
      BY <2>4 DEF IInv, TypeOK
    <3>2. TableHeld'
      BY <2>1, <2>4, <3>1 DEF TableHeld, Inside
    <3>3. ListHeld'
      BY <2>1, <2>4, <3>1 DEF TakeDevices, Held, ListHeld
    <3>4. DataHeld'
      BY <2>1, <2>2, <3>1 DEF Held, DataHeld, DataHeldBy
    <3>5. QED
      BY <3>2, <3>3, <3>4 DEF Held
  <2>5. QED
    BY <1>7, <2>3, <2>4 DEF OpenFind
<1>8. CASE OpenLdata(u)
  <2>1. /\ upc[u] = "o_ldata" /\ table_lock = u /\ nvptr[u] \in Dev
        /\ Vgx => devices_lock = u
    BY <1>8 DEF OpenLdata, IInv, Holding, Inside
  <2>2. /\ \A v \in User : v # u => upc'[v] = upc[v]
        /\ upc'[u] = "o_init"
        /\ UNCHANGED <<table_lock, dpc, nvptr>>
    BY <1>8 DEF OpenLdata, IInv, TypeOK, dvars
  <2>3. TableHeld'
    BY <2>1, <2>2 DEF TableHeld, Inside
  <2>4. ListHeld'
    <3>1. CASE Vgx
      BY <1>8, <3>1 DEF OpenLdata, TakeDevices, ListHeld
    <3>2. CASE ~Vgx
      BY <1>8, <3>2 DEF OpenLdata, TakeDevices, Held, ListHeld
    <3>3. QED
      BY <3>1, <3>2
  <2>5. DataHeld'
    BY <1>8, <2>1, <2>2 DEF OpenLdata, IInv, TypeOK, Held, DataHeld, DataHeldBy
  <2>6. QED
    BY <2>3, <2>4, <2>5 DEF Held
<1>9. CASE OpenInit(u) \/ OpenFails(u)
  <2>1. PICK ok : OpenReturn(u, ok)
    BY <1>9 DEF OpenInit, OpenFails
  <2>2. /\ upc[u] = "o_init" /\ nvptr[u] \in Dev /\ ldata_lock[nvptr[u]] = u
        /\ UNCHANGED <<dpc, devices_lock>>
    BY <1>9, <2>1 DEF OpenInit, OpenFails, OpenReturn, IInv, Holding, dvars
  <2>3. /\ \A v \in User : v # u => upc'[v] = upc[v] /\ nvptr'[v] = nvptr[v]
        /\ table_lock' = None
    BY <2>1 DEF OpenReturn, IInv, TypeOK
  <2>4. TableHeld'
    BY <2>3 DEF TableHeld
  <2>5. ListHeld'
    BY <2>2, <2>3 DEF Held, ListHeld
  <2>6. DataHeld'
    <3>1. SUFFICES ASSUME NEW d \in Dev, ldata_lock'[d] # None
                   PROVE  DataHeldBy(d, ldata_lock[d])' /\ ldata_lock'[d] = ldata_lock[d]
      BY DEF DataHeld, DataHeldBy
    <3>2. d # nvptr[u] /\ ldata_lock'[d] = ldata_lock[d]
      BY <2>1, <2>2, <3>1 DEF OpenReturn, IInv, TypeOK
    <3>3. DataHeldBy(d, ldata_lock[d])
      BY <3>1, <3>2 DEF Held, DataHeld
    <3>4. QED
      BY <2>2, <2>3, <3>2, <3>3 DEF DataHeldBy
  <2>7. QED
    BY <2>4, <2>5, <2>6 DEF Held
<1>10. QED
  BY <1>1, <1>2, <1>3, <1>4, <1>5, <1>6, <1>7, <1>8, <1>9 DEF InDriver

\* Who holds a semaphore is where the code holds it, and is there alone.
THEOREM HeldCorrect ==
    ASSUME Orderly
    PROVE  Spec => []Held
<1>1. Init => Held
  BY DEF Init, Held, TableHeld, ListHeld, DataHeld
<1>2. IInv /\ Held /\ [Next]_vars => Held'
  <2>1. SUFFICES ASSUME IInv, Held, [Next]_vars PROVE Held'
    OBVIOUS
  <2>2. CASE UNCHANGED vars
    BY <2>1, <2>2 DEF vars, locks, dvars, uvars, Held, TableHeld, Inside, ListHeld, DataHeld, DataHeldBy
  <2>3. QED
    BY <2>1, <2>2, DeviceHeld, ProcessHeld DEF Next
<1>3. QED
  BY <1>1, <1>2, Invariance, PTL DEF Spec

\* Nobody who has the table waits for anyone of a set that waits for itself.
LEMMA TableOutside ==
    ASSUME IInv, Held, NEW S \in SUBSET (Dev \cup User),
           \A t \in S : \E s \in S : WaitsFor(t, s)
    PROVE  table_lock \notin S
<1> USE NoneAssumption
<1>1. SUFFICES ASSUME table_lock \in S PROVE FALSE
  OBVIOUS
<1> DEFINE u == table_lock
<1>2. u # None /\ u \in User /\ Inside(u)
  BY <1>1 DEF IInv, TypeOK, Held, TableHeld
<1>3. \A v \in User : Inside(v) => v = u
  BY DEF IInv, Holding
<1>4. PICK s \in S : WaitsFor(u, s)
  BY <1>1
<1>5. s # None /\ upc[u] \in {"o_find", "o_ldata", "c_ldata"}
  BY <1>2, <1>4 DEF WaitsFor, Inside
<1>6. CASE upc[u] = "o_find"
  <2>1. s = devices_lock
    BY <1>2, <1>4, <1>6 DEF WaitsFor
  <2>2. s \in Dev /\ dpc[s] = "rm_ldata"
    BY <1>3, <1>5, <1>6, <2>1 DEF Held, ListHeld, Inside
  <2>3. PICK r \in S : WaitsFor(s, r)
    OBVIOUS
  <2>4. r = ldata_lock[s] /\ r # None
    BY <2>2, <2>3 DEF WaitsFor
  <2>5. r \in User /\ upc[r] = "o_init"
    BY <2>2, <2>4 DEF Held, DataHeld, DataHeldBy
  <2>6. QED
    BY <1>3, <1>6, <2>5 DEF Inside
<1>7. CASE upc[u] \in {"o_ldata", "c_ldata"}
  <2>1. s = ldata_lock[nvptr[u]]
    BY <1>2, <1>4, <1>7 DEF WaitsFor
  <2>2. nvptr[u] \in Dev /\ dpc[nvptr[u]] \in {"bound", "freed"}
    BY <1>2, <1>7 DEF IInv, Holding, Using
  <2>3. s \in User /\ upc[s] = "o_init"
    BY <1>5, <2>1, <2>2 DEF Held, DataHeld, DataHeldBy
  <2>4. QED
    BY <1>3, <1>7, <2>3 DEF Inside
<1>8. QED
  BY <1>5, <1>6, <1>7

\* The semaphores are never waited for in a circle, for any number of devices
\* and processes: a removal that waits for the table with ldata_lock held has
\* no file and no open under way on its device, so the holder of the table does
\* not wait for it.
THEOREM NoLockCircleCorrect ==
    ASSUME Orderly
    PROVE  Spec => []NoLockCircle
<1>1. IInv /\ Held => NoLockCircle
  <2> USE NoneAssumption
  <2>1. SUFFICES ASSUME IInv, Held, NEW S \in SUBSET (Dev \cup User), S # {},
                        \A t \in S : \E s \in S : WaitsFor(t, s)
                 PROVE  FALSE
    BY DEF NoLockCircle
  <2>2. table_lock \notin S
    BY <2>1, TableOutside
  <2>3. \A u \in S \cap User : ~Inside(u)
    BY <2>1, <2>2 DEF IInv, Holding
  <2>4. ASSUME NEW t \in S, NEW d \in Dev, t = ldata_lock[d] PROVE FALSE
    <3>1. t # None /\ DataHeldBy(d, t)
      BY <2>1, <2>4 DEF Held, DataHeld
    <3>2. t = d /\ dpc[d] \in {"rm_table", "rm_free"}
      BY <2>3, <3>1 DEF DataHeldBy, Inside
    <3>3. PICK s \in S : WaitsFor(d, s)
      BY <2>1, <3>2
    <3>4. QED
      BY <2>2, <3>2, <3>3 DEF WaitsFor
  <2>5. devices_lock \notin S
    <3>1. SUFFICES ASSUME devices_lock \in S PROVE FALSE
      OBVIOUS
    <3>2. devices_lock \in Dev /\ dpc[devices_lock] = "rm_ldata"
      BY <2>1, <2>3, <3>1 DEF Held, ListHeld, Inside
    <3>3. PICK s \in S : WaitsFor(devices_lock, s)
      BY <2>1, <3>1
    <3>4. s = ldata_lock[devices_lock]
      BY <3>2, <3>3 DEF WaitsFor
    <3>5. QED
      BY <2>4, <3>2, <3>4
  <2>6. PICK t \in S : TRUE
    BY <2>1
  <2>7. PICK s \in S : WaitsFor(t, s)
    BY <2>1
  <2>8. PICK d \in Dev : s = ldata_lock[d]
    BY <2>1, <2>2, <2>5, <2>7 DEF WaitsFor, IInv, TypeOK
  <2>9. QED
    BY <2>4, <2>8
<1>2. QED
  BY <1>1, Invariance, HeldCorrect, PTL

=============================================================================
