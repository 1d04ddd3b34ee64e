--------------------------- MODULE AsyncInit_proofs ---------------------------
(***************************************************************************)
(* Proofs about AsyncInit for every list, every set of processes and every *)
(* choice of the other constants.                                          *)
(***************************************************************************)
EXTENDS AsyncInit, TLAPS

(***************************************************************************)
(* The inductive invariant, in the parts the proofs use separately.        *)
(***************************************************************************)

\* An entry being called is an entry; the boot makes the thread once, and
\* counts its references before anything can drop one.
Bounds ==
    /\ apc = "call" => ait \in Entries
    /\ \A p \in Procs : rpc[p] = "call" => rit[p] \in Entries
    /\ boot \in {"start", "counted"} => apc = "none"
    /\ boot = "start" => free_init_ref = 1
    /\ boot \in {"counted", "threaded", "inited"} => free_init_ref = 3

\* User processes reach the driver only through an open file, which exists
\* only once user space runs.
FileInv ==
    /\ fd # {} => boot = "running" /\ private_data > 0
    /\ \A p \in Procs : rpc[p] \in {"call", "eof", "free"} => p \in fd

TypeInv == TypeOK /\ Bounds /\ FileInv

\* What the two scans have passed has returned, and an init function is
\* entered only from its own scan.
ScanInv ==
    /\ \A i \in Async : i < ait => i \in done
    /\ apc = "call" => ait \in Async
    /\ \A i \in Deferred : i < private_data => i \in done
    /\ \A p \in Procs :
          /\ rpc[p] = "call" =>
                /\ rit[p] \in Deferred
                /\ \A i \in Deferred : i < rit[p] => i \in done
          /\ rpc[p] \in {"eof", "free"} => Deferred \subseteq done
    /\ \A i \in Entries : starts[i] > 0 => Type[i] # "disable"

\* A dropped reference, and with it freed memory, means the deferred stage
\* is over; the counter passes zero once.
RefInv ==
    /\ boot = "running" /\ free_init_ref < 3 => Deferred \subseteq done
    /\ frees > 0 => Deferred \subseteq done /\ free_init_ref <= 0
    /\ boot # "running" => frees = 0
    /\ frees <= 1
    /\ \A p \in Procs : rpc[p] = "free" =>
          /\ free_init_ref <= 0
          /\ frees = 0
          /\ \A q \in Procs : rpc[q] = "free" => q = p

IInv == TypeInv /\ ScanInv /\ StageOrder /\ ZeroMeansEnd /\ RefInv

-----------------------------------------------------------------------------
(***************************************************************************)
(* Facts about the constants and the helpers.                              *)
(***************************************************************************)

\* The stages are sets of entries, and entries are positive numbers.
LEMMA StageFacts ==
    /\ Async \subseteq Entries
    /\ Deferred \subseteq Entries
    /\ \A i \in Entries : i \in Nat /\ i >= 1 /\ i <= N
    /\ N + 1 \in Nat
  BY NAssumption DEF Async, Deferred, Entries

\* A scan for type k from position it stops at j only if the entries of that
\* type before j are before it.
LEMMA ScanStops ==
    ASSUME NEW k \in Kinds, NEW it \in Int, NEW j \in Int, SkipTo(k, it, j)
    PROVE  /\ it <= j /\ j <= N + 1
           /\ \A i \in Entries : Type[i] = k /\ i < j => i < it
           /\ j <= N => Type[j] = k
  BY NAssumption DEF SkipTo, Entries

\* The value device_read returns for an entry it has run is a number, and
\* zero only for a read with no room for data.
LEMMA ReadCountFacts ==
    ASSUME NEW i \in Entries, NEW n \in Nat
    PROVE  /\ ReadCount(i, n) \in Nat
           /\ ReadCount(i, n) = 0 => n = 0
  BY NameAssumption DEF ReadCount

-----------------------------------------------------------------------------
(***************************************************************************)
(* Type correctness.                                                       *)
(***************************************************************************)

\* No action leaves the types, or calls something that is not an entry.
LEMMA TypeStep ==
    ASSUME TypeInv, [Next]_vars
    PROVE  TypeInv'
  <1> USE DEF TypeInv, TypeOK, Bounds, FileInv, Entries, vars, bvars, avars, fvars, rvars, hvars
  <1>1. CASE AsyncInitRefs
    BY <1>1 DEF AsyncInitRefs
  <1>2. CASE AsyncInitThread
    BY <1>2 DEF AsyncInitThread
  <1>3. CASE AsyncInitThreadFails
    BY <1>3 DEF AsyncInitThreadFails
  <1>4. CASE AsyncInitProc
    BY <1>4 DEF AsyncInitProc
  <1>5. CASE KernelInit
    BY <1>5 DEF KernelInit
  <1>6. CASE AsyncCall
    BY <1>6, NAssumption DEF AsyncCall, Enter
  <1>7. CASE AsyncReturn
    BY <1>7, NAssumption DEF AsyncReturn, Leave
  <1>8. CASE AsyncExit
    BY <1>8, NAssumption DEF AsyncExit
  <1>9. CASE AsyncOops
    BY <1>9 DEF AsyncOops
  <1>10. ASSUME NEW p \in Procs, OpenFirst(p) PROVE TypeInv'
    BY <1>10, NAssumption DEF OpenFirst, CanOpen
  <1>11. ASSUME NEW p \in Procs, OpenRefused(p) PROVE TypeInv'
    BY <1>11 DEF OpenRefused, CanOpen, EINVAL
  <1>12. ASSUME NEW p \in Procs, NEW q \in Procs, Share(p, q) PROVE TypeInv'
    BY <1>12 DEF Share
  <1>13. ASSUME NEW p \in Procs, Close(p) PROVE TypeInv'
    <2>1. TypeOK'
      <3>1. fd' \subseteq Procs /\ private_data' \in 0..(N + 1)
        BY <1>13, NAssumption DEF Close, DropFile
      <3>2. UNCHANGED <<bvars, frees, avars, rvars, hvars, init_done>>
        BY <1>13 DEF Close, DropFile
      <3>3. QED
        BY <3>1, <3>2
    <2>2. Bounds'
      BY <1>13 DEF Close, DropFile
    <2>3. fd' # {} => ~(fd \subseteq {p})
      BY <1>13 DEF Close, DropFile
    <2>4. FileInv'
      BY <1>13, <2>3 DEF Close, DropFile
    <2>5. QED
      BY <2>1, <2>2, <2>4
  <1>14. ASSUME NEW p \in Procs, NEW n \in Sizes, ReadBegin(p, n) PROVE TypeInv'
    <2>1. TypeOK'
      BY <1>14, SizesAssumption, NAssumption DEF ReadBegin, CanRead, Enter
    <2>2. Bounds'
      BY <1>14, SizesAssumption, NAssumption DEF ReadBegin, CanRead, Enter
    <2>3. FileInv'
      BY <1>14, SizesAssumption, NAssumption DEF ReadBegin, CanRead, Enter
    <2>4. QED
      BY <2>1, <2>2, <2>3
  <1>15. ASSUME NEW p \in Procs, NEW n \in Sizes, ReadAtEnd(p, n) PROVE TypeInv'
    BY <1>15, SizesAssumption, NAssumption DEF ReadAtEnd, CanRead
  <1>16. ASSUME NEW p \in Procs, ReadReturn(p) PROVE TypeInv'
    <2>1. rit[p] \in Entries /\ nbytes[p] \in Nat
      BY <1>16 DEF ReadReturn
    <2>2. ReadCount(rit[p], nbytes[p]) \in Nat
      BY <2>1, ReadCountFacts
    <2>3. TypeOK'
      <3>1. ret' \in [Procs -> Int]
        BY <1>16, <2>2 DEF ReadReturn
      <3>2. rit' \in [Procs -> 1..(N + 1)] /\ private_data' \in 0..(N + 1)
        BY <1>16, <2>1, NAssumption DEF ReadReturn
      <3>3. rpc' \in [Procs -> {"user", "call", "eof", "free", "oops"}]
        BY <1>16 DEF ReadReturn
      <3>4. done' \subseteq Entries
        BY <1>16, <2>1 DEF ReadReturn, Leave
      <3>5. QED
        BY <1>16, <3>1, <3>2, <3>3, <3>4 DEF ReadReturn, Leave
    <2>4. Bounds'
      BY <1>16, <2>1, NAssumption DEF ReadReturn, Leave
    <2>5. FileInv'
      BY <1>16, <2>1, NAssumption DEF ReadReturn, Leave
    <2>6. QED
      BY <2>3, <2>4, <2>5
  <1>17. ASSUME NEW p \in Procs, ReadEof(p) PROVE TypeInv'
    <2>1. TypeOK'
      <3>1. ret' \in [Procs -> Int]
        BY <1>17 DEF ReadEof
      <3>2. rpc' \in [Procs -> {"user", "call", "eof", "free", "oops"}]
        BY <1>17 DEF ReadEof
      <3>3. QED
        BY <1>17, <3>1, <3>2 DEF ReadEof
    <2>2. Bounds'
      BY <1>17 DEF ReadEof
    <2>3. FileInv'
      BY <1>17 DEF ReadEof
    <2>4. QED
      BY <2>1, <2>2, <2>3
  <1>18. ASSUME NEW p \in Procs, ReadFree(p) PROVE TypeInv'
    BY <1>18 DEF ReadFree
  <1>19. ASSUME NEW p \in Procs, ReadOops(p) PROVE TypeInv'
    BY <1>19, NAssumption DEF ReadOops, CanRead, DropFile
  <1>20. CASE UNCHANGED vars
    BY <1>20
  <1>21. QED
    BY <1>1, <1>2, <1>3, <1>4, <1>5, <1>6, <1>7, <1>8, <1>9, <1>10, <1>11, <1>12, <1>13, <1>14, <1>15, <1>16, <1>17, <1>18, <1>19, <1>20
       DEF Next, BootStep, AsyncStep, Read, ReadFinish

LEMMA TypeBase == Init => TypeInv
  <1>1. SUFFICES ASSUME Init PROVE TypeInv
    OBVIOUS
  <1>2. proc_entry \in BOOLEAN /\ fd \subseteq Procs /\ done \subseteq Entries
    BY <1>1 DEF Init
  <1>3. ret \in [Procs -> Int] /\ starts \in [Entries -> Nat]
    BY <1>1 DEF Init, NotRead
  <1>4. /\ rpc \in [Procs -> {"user", "call", "eof", "free", "oops"}]
        /\ rit \in [Procs -> 1..(N + 1)]
        /\ nbytes \in [Procs -> Nat]
    BY <1>1, NAssumption DEF Init
  <1>5. ait \in 1..(N + 1) /\ private_data \in 0..(N + 1)
    BY <1>1, NAssumption DEF Init
  <1>6. Bounds
    BY <1>1 DEF Init, Bounds
  <1>8. FileInv
    BY <1>1 DEF Init, FileInv
  <1>9. QED
    BY <1>1, <1>2, <1>3, <1>4, <1>5, <1>6, <1>8 DEF Init, TypeInv, TypeOK

\* The variables of kernel_init, of the thread and of every reader keep their
\* types, and free_init_ref never exceeds the three references counted at
\* boot, whatever the list and however many processes share the file.
THEOREM TypeCorrect == Spec => []TypeOK
  <1>1. TypeInv /\ [Next]_vars => TypeInv'
    BY TypeStep
  <1>2. TypeInv => TypeOK
    BY DEF TypeInv
  <1>3. QED
    BY TypeBase, <1>1, <1>2, PTL DEF Spec

-----------------------------------------------------------------------------
(***************************************************************************)
(* What the scans have passed has returned.                                *)
(***************************************************************************)

\* The scans stay behind what has returned: do_asynchronized and every reader
\* move past an entry of their type only when its init function is back.
LEMMA ScanStep ==
    ASSUME TypeInv, ScanInv, [Next]_vars
    PROVE  ScanInv'
  <1> USE StageFacts DEF TypeInv, TypeOK, FileInv, ScanInv, vars, bvars, avars, fvars, rvars, hvars
  <1>1. CASE AsyncInitRefs
    BY <1>1 DEF AsyncInitRefs
  <1>2. CASE AsyncInitThread
    BY <1>2 DEF AsyncInitThread
  <1>3. CASE AsyncInitThreadFails
    BY <1>3 DEF AsyncInitThreadFails
  <1>4. CASE AsyncInitProc
    BY <1>4 DEF AsyncInitProc
  <1>5. CASE KernelInit
    BY <1>5 DEF KernelInit
  <1>6. CASE AsyncCall
    <2>1. PICK j \in Entries : /\ SkipTo("asynchronized", ait, j)
                               /\ ait' = j
                               /\ Enter(j)
      BY <1>6 DEF AsyncCall
    <2>2. /\ \A i \in Async : i < j => i < ait
          /\ Type[j] = "asynchronized"
      BY <2>1, ScanStops DEF Async, Kinds
    <2>3. j \in Async
      BY <2>2 DEF Async
    <2>4. \A i \in Entries : starts'[i] > 0 => Type[i] # "disable"
      BY <2>1, <2>2 DEF Enter
    <2>5. QED
      BY <1>6, <2>1, <2>2, <2>3, <2>4 DEF AsyncCall, Enter
  <1>7. CASE AsyncReturn
    BY <1>7 DEF AsyncReturn, Leave
  <1>8. CASE AsyncExit
    <2>1. \A i \in Async : i < N + 1 => i < ait
      BY <1>8, ScanStops DEF AsyncExit, Async, Kinds
    <2>2. QED
      BY <1>8, <2>1 DEF AsyncExit
  <1>9. CASE AsyncOops
    BY <1>9 DEF AsyncOops
  <1>10. ASSUME NEW p \in Procs, OpenFirst(p) PROVE ScanInv'
    BY <1>10 DEF OpenFirst, CanOpen
  <1>11. ASSUME NEW p \in Procs, OpenRefused(p) PROVE ScanInv'
    BY <1>11 DEF OpenRefused, CanOpen, EINVAL
  <1>12. ASSUME NEW p \in Procs, NEW q \in Procs, Share(p, q) PROVE ScanInv'
    BY <1>12 DEF Share
  <1>13. ASSUME NEW p \in Procs, Close(p) PROVE ScanInv'
    BY <1>13 DEF Close, DropFile
  <1>14. ASSUME NEW p \in Procs, NEW n \in Sizes, ReadBegin(p, n) PROVE ScanInv'
    <2>1. PICK j \in Entries : /\ SkipTo("deferred", private_data, j)
                               /\ rit' = [rit EXCEPT ![p] = j]
                               /\ Enter(j)
      BY <1>14 DEF ReadBegin
    <2>2. /\ \A i \in Deferred : i < j => i < private_data
          /\ Type[j] = "deferred"
      BY <2>1, ScanStops DEF Deferred, Kinds
    <2>3. j \in Deferred
      BY <2>2 DEF Deferred
    <2>4. \A i \in Entries : starts'[i] > 0 => Type[i] # "disable"
      BY <2>1, <2>2 DEF Enter
    <2>5. \A i \in Deferred : i < j => i \in done
      BY <2>2
    <2>6. QED
      BY <1>14, <2>1, <2>3, <2>4, <2>5 DEF ReadBegin, Enter
  <1>15. ASSUME NEW p \in Procs, NEW n \in Sizes, ReadAtEnd(p, n) PROVE ScanInv'
    <2>1. \A i \in Deferred : i < private_data
      <3>1. SkipTo("deferred", private_data, N + 1)
        BY <1>15 DEF ReadAtEnd
      <3>2. \A i \in Entries : Type[i] = "deferred" /\ i < N + 1 => i < private_data
        BY <3>1, ScanStops DEF Kinds
      <3>3. QED
        BY <3>2, NAssumption DEF Deferred
    <2>2. Deferred \subseteq done
      BY <2>1
    <2>3. QED
      BY <1>15, <2>2 DEF ReadAtEnd
  <1>16. ASSUME NEW p \in Procs, ReadReturn(p) PROVE ScanInv'
    <2>1. done' = done \cup {rit[p]} /\ rit[p] \in Deferred
      BY <1>16 DEF ReadReturn, Leave
    <2>2. \A i \in Deferred : i < private_data' => i \in done'
      BY <1>16, <2>1 DEF ReadReturn
    <2>3. QED
      BY <1>16, <2>1, <2>2 DEF ReadReturn, Leave
  <1>17. ASSUME NEW p \in Procs, ReadEof(p) PROVE ScanInv'
    BY <1>17 DEF ReadEof, DecAndTest
  <1>18. ASSUME NEW p \in Procs, ReadFree(p) PROVE ScanInv'
    BY <1>18 DEF ReadFree
  <1>19. ASSUME NEW p \in Procs, ReadOops(p) PROVE ScanInv'
    BY <1>19 DEF ReadOops, CanRead, DropFile
  <1>20. CASE UNCHANGED vars
    BY <1>20
  <1>21. QED
    BY <1>1, <1>2, <1>3, <1>4, <1>5, <1>6, <1>7, <1>8, <1>9, <1>10,
       <1>11, <1>12, <1>13, <1>14, <1>15, <1>16, <1>17, <1>18, <1>19, <1>20
       DEF Next, BootStep, AsyncStep, Read, ReadFinish

LEMMA ScanBase == Init => ScanInv
  BY StageFacts DEF Init, ScanInv

-----------------------------------------------------------------------------
(***************************************************************************)
(* The order within a stage.                                               *)
(***************************************************************************)

\* Init functions that have returned stay so.
LEMMA DoneGrows ==
    ASSUME [Next]_vars
    PROVE  done \subseteq done'
  BY DEF Next, BootStep, AsyncStep, Read, ReadFinish, Enter, Leave, DropFile,
         AsyncInitRefs, AsyncInitThread, AsyncInitThreadFails, AsyncInitProc,
         KernelInit, AsyncCall, AsyncReturn, AsyncExit, AsyncOops, OpenFirst,
         OpenRefused, Share, Close, ReadBegin, ReadAtEnd, ReadReturn, ReadEof,
         ReadFree, ReadOops, vars, bvars, avars, fvars, rvars, hvars

\* Entering an init function keeps the order, because the scan that found it
\* is behind what has returned; nothing else can disturb it.
LEMMA OrderStep ==
    ASSUME TypeInv, ScanInv, StageOrder, [Next]_vars
    PROVE  StageOrder'
  <1> DEFINE Before(j) == \A i \in Entries :
                            i < j /\ Type[i] = Type[j] => i \in done
  <1> USE StageFacts DEF TypeInv, TypeOK
  <1>1. ASSUME NEW j \in Entries, Before(j), Enter(j) PROVE StageOrder'
    BY <1>1, DoneGrows DEF Enter, StageOrder
  <1>2. CASE AsyncCall
    <2>1. PICK j \in Entries : SkipTo("asynchronized", ait, j) /\ Enter(j)
      BY <1>2 DEF AsyncCall
    <2>2. Type[j] = "asynchronized" /\ \A i \in Async : i < j => i < ait
      BY <2>1, ScanStops DEF Async, Kinds
    <2>3. Before(j)
      BY <2>2 DEF ScanInv, Async
    <2>4. QED
      BY <1>1, <2>1, <2>3
  <1>3. ASSUME NEW p \in Procs, NEW n \in Sizes, ReadBegin(p, n)
        PROVE  StageOrder'
    <2>1. PICK j \in Entries : SkipTo("deferred", private_data, j) /\ Enter(j)
      BY <1>3 DEF ReadBegin
    <2>2. Type[j] = "deferred" /\ \A i \in Deferred : i < j => i < private_data
      BY <2>1, ScanStops DEF Deferred, Kinds
    <2>3. Before(j)
      BY <2>2 DEF ScanInv, Deferred
    <2>4. QED
      BY <1>1, <2>1, <2>3
  <1>4. CASE UNCHANGED starts
    BY <1>4, DoneGrows DEF StageOrder
  <1>5. QED
    BY <1>2, <1>3, <1>4
       DEF Next, BootStep, AsyncStep, Read, ReadFinish, Leave,
           AsyncInitRefs, AsyncInitThread, AsyncInitThreadFails, AsyncInitProc,
           KernelInit, AsyncReturn, AsyncExit, AsyncOops, OpenFirst,
           OpenRefused, Share, Close, ReadAtEnd, ReadReturn, ReadEof,
           ReadFree, ReadOops, vars, bvars, avars, fvars, rvars, hvars

\* For every list and any number of concurrent readers, each stage completes
\* in list order: do_asynchronized and device_read enter an init function
\* only after every earlier one of the same type has returned.
THEOREM StageOrderCorrect == Spec => []StageOrder
  <1> DEFINE Inv == TypeInv /\ ScanInv /\ StageOrder
  <1>1. Init => Inv
    BY TypeBase, ScanBase, StageFacts DEF Init, StageOrder
  <1>2. Inv /\ [Next]_vars => Inv'
    BY TypeStep, ScanStep, OrderStep
  <1>3. Inv => StageOrder
    OBVIOUS
  <1>4. QED
    BY <1>1, <1>2, <1>3, PTL DEF Spec

\* A table whose parents come earlier in the list and in the same stage is
\* respected, by any number of readers: no init function is entered before
\* those it depends on have returned.  Neither condition can be spared:
\* AsyncInit_parents has a parent in the other stage.
THEOREM DependenciesFirstCorrect ==
    ASSUME \A i \in Entries : \A j \in Parents[i] : j < i /\ Type[j] = Type[i]
    PROVE  Spec => []DependenciesFirst
  <1>1. StageOrder => DependenciesFirst
    BY ParentsAssumption DEF StageOrder, DependenciesFirst
  <1>2. QED
    BY <1>1, StageOrderCorrect, PTL

-----------------------------------------------------------------------------
(***************************************************************************)
(* What a reader may conclude from 0, and when init memory goes.           *)
(***************************************************************************)

\* Only a reader that has seen the end of the list is given 0 for a read with
\* room for data, and what it concludes stays true.
LEMMA ZeroStep ==
    ASSUME TypeInv, ScanInv, ZeroMeansEnd, [Next]_vars
    PROVE  ZeroMeansEnd'
  <1> USE DoneGrows DEF TypeInv, TypeOK, ZeroMeansEnd, vars, bvars, avars, fvars, rvars, hvars
  <1>1. CASE AsyncInitRefs
    BY <1>1 DEF AsyncInitRefs
  <1>2. CASE AsyncInitThread
    BY <1>2 DEF AsyncInitThread
  <1>3. CASE AsyncInitThreadFails
    BY <1>3 DEF AsyncInitThreadFails
  <1>4. CASE AsyncInitProc
    BY <1>4 DEF AsyncInitProc
  <1>5. CASE KernelInit
    BY <1>5 DEF KernelInit
  <1>6. CASE AsyncCall
    BY <1>6 DEF AsyncCall, Enter
  <1>7. CASE AsyncReturn
    BY <1>7 DEF AsyncReturn, Leave
  <1>8. CASE AsyncExit
    BY <1>8 DEF AsyncExit
  <1>9. CASE AsyncOops
    BY <1>9 DEF AsyncOops
  <1>10. ASSUME NEW p \in Procs, OpenFirst(p) PROVE ZeroMeansEnd'
    BY <1>10 DEF OpenFirst, CanOpen
  <1>11. ASSUME NEW p \in Procs, OpenRefused(p) PROVE ZeroMeansEnd'
    BY <1>11 DEF OpenRefused, CanOpen, EINVAL
  <1>12. ASSUME NEW p \in Procs, NEW q \in Procs, Share(p, q) PROVE ZeroMeansEnd'
    BY <1>12 DEF Share
  <1>13. ASSUME NEW p \in Procs, Close(p) PROVE ZeroMeansEnd'
    BY <1>13 DEF Close, DropFile
  <1>14. ASSUME NEW p \in Procs, NEW n \in Sizes, ReadBegin(p, n) PROVE ZeroMeansEnd'
    BY <1>14 DEF ReadBegin, CanRead, Enter
  <1>15. ASSUME NEW p \in Procs, NEW n \in Sizes, ReadAtEnd(p, n) PROVE ZeroMeansEnd'
    BY <1>15 DEF ReadAtEnd, CanRead
  <1>16. ASSUME NEW p \in Procs, ReadReturn(p) PROVE ZeroMeansEnd'
    <2>1. rit[p] \in Entries /\ nbytes[p] \in Nat
      BY <1>16 DEF ReadReturn, Bounds
    <2>2. ReadCount(rit[p], nbytes[p]) = 0 => nbytes[p] = 0
      BY <2>1, ReadCountFacts
    <2>3. QED
      BY <1>16, <2>2 DEF ReadReturn
  <1>17. ASSUME NEW p \in Procs, ReadEof(p) PROVE ZeroMeansEnd'
    <2>1. Deferred \subseteq done
      BY <1>17 DEF ReadEof, ScanInv
    <2>2. QED
      BY <1>17, <2>1
  <1>18. ASSUME NEW p \in Procs, ReadFree(p) PROVE ZeroMeansEnd'
    <2>1. Deferred \subseteq done
      BY <1>18 DEF ReadFree, ScanInv
    <2>2. QED
      BY <1>18, <2>1
  <1>19. ASSUME NEW p \in Procs, ReadOops(p) PROVE ZeroMeansEnd'
    BY <1>19 DEF ReadOops, CanRead, DropFile
  <1>20. CASE UNCHANGED vars
    BY <1>20
  <1>21. QED
    BY <1>1, <1>2, <1>3, <1>4, <1>5, <1>6, <1>7, <1>8, <1>9, <1>10,
       <1>11, <1>12, <1>13, <1>14, <1>15, <1>16, <1>17, <1>18, <1>19, <1>20
       DEF Next, BootStep, AsyncStep, Read, ReadFinish

\* The counter falls below three only in a read at the end of the list, and
\* passes zero once.
LEMMA RefStep ==
    ASSUME TypeInv, ScanInv, RefInv, [Next]_vars
    PROVE  RefInv'
  <1> USE DoneGrows DEF TypeInv, TypeOK, Bounds, FileInv, RefInv, vars, bvars, avars, fvars, rvars, hvars
  <1>1. CASE AsyncInitRefs
    BY <1>1 DEF AsyncInitRefs
  <1>2. CASE AsyncInitThread
    BY <1>2 DEF AsyncInitThread
  <1>3. CASE AsyncInitThreadFails
    BY <1>3 DEF AsyncInitThreadFails
  <1>4. CASE AsyncInitProc
    BY <1>4 DEF AsyncInitProc
  <1>5. CASE KernelInit
    BY <1>5 DEF KernelInit
  <1>6. CASE AsyncCall
    BY <1>6 DEF AsyncCall, Enter
  <1>7. CASE AsyncReturn
    BY <1>7 DEF AsyncReturn, Leave
  <1>8. CASE AsyncExit
    BY <1>8 DEF AsyncExit
  <1>9. CASE AsyncOops
    BY <1>9 DEF AsyncOops
  <1>10. ASSUME NEW p \in Procs, OpenFirst(p) PROVE RefInv'
    BY <1>10 DEF OpenFirst, CanOpen
  <1>11. ASSUME NEW p \in Procs, OpenRefused(p) PROVE RefInv'
    BY <1>11 DEF OpenRefused, CanOpen, EINVAL
  <1>12. ASSUME NEW p \in Procs, NEW q \in Procs, Share(p, q) PROVE RefInv'
    BY <1>12 DEF Share
  <1>13. ASSUME NEW p \in Procs, Close(p) PROVE RefInv'
    BY <1>13 DEF Close, DropFile
  <1>14. ASSUME NEW p \in Procs, NEW n \in Sizes, ReadBegin(p, n) PROVE RefInv'
    BY <1>14 DEF ReadBegin, CanRead, Enter
  <1>15. ASSUME NEW p \in Procs, NEW n \in Sizes, ReadAtEnd(p, n) PROVE RefInv'
    BY <1>15 DEF ReadAtEnd, CanRead
  <1>16. ASSUME NEW p \in Procs, ReadReturn(p) PROVE RefInv'
    BY <1>16 DEF ReadReturn, Leave
  <1>17. ASSUME NEW p \in Procs, ReadEof(p) PROVE RefInv'
    <2>1. Deferred \subseteq done /\ boot = "running"
      BY <1>17 DEF ReadEof, ScanInv
    <2>2. CASE DecAndTest(free_init_ref)
      <3>1. /\ free_init_ref = 1
            /\ frees = 0
            /\ \A q \in Procs : rpc[q] # "free"
        BY <2>2 DEF DecAndTest
      <3>2. QED
        BY <1>17, <2>1, <2>2, <3>1 DEF ReadEof
    <2>3. CASE ~DecAndTest(free_init_ref)
      BY <1>17, <2>1, <2>3 DEF ReadEof
    <2>4. QED
      BY <2>2, <2>3
  <1>18. ASSUME NEW p \in Procs, ReadFree(p) PROVE RefInv'
    <2>1. Deferred \subseteq done /\ boot = "running"
      BY <1>18 DEF ReadFree, ScanInv
    <2>2. QED
      BY <1>18, <2>1 DEF ReadFree
  <1>19. ASSUME NEW p \in Procs, ReadOops(p) PROVE RefInv'
    BY <1>19 DEF ReadOops, CanRead, DropFile
  <1>20. CASE UNCHANGED vars
    BY <1>20
  <1>21. QED
    BY <1>1, <1>2, <1>3, <1>4, <1>5, <1>6, <1>7, <1>8, <1>9, <1>10,
       <1>11, <1>12, <1>13, <1>14, <1>15, <1>16, <1>17, <1>18, <1>19, <1>20
       DEF Next, BootStep, AsyncStep, Read, ReadFinish

LEMMA InvBase == Init => IInv
  <1>1. Init => StageOrder /\ ZeroMeansEnd
    BY StageFacts DEF Init, StageOrder, ZeroMeansEnd, NotRead
  <1>2. Init => RefInv
    BY DEF Init, RefInv
  <1>3. QED
    BY TypeBase, ScanBase, <1>1, <1>2 DEF IInv

\* The whole invariant is inductive and holds throughout.
THEOREM Invariance == Spec => []IInv
  <1>1. IInv /\ [Next]_vars => IInv'
    BY TypeStep, ScanStep, OrderStep, ZeroStep, RefStep DEF IInv
  <1>2. QED
    BY InvBase, <1>1, PTL DEF Spec

\* A read with room for data returns 0 only when every deferred init function
\* has returned, even when readers race on private_data with pread.
THEOREM ZeroMeansEndCorrect == Spec => []ZeroMeansEnd
  <1>1. IInv => ZeroMeansEnd
    BY DEF IInv
  <1>2. QED
    BY Invariance, <1>1, PTL

\* However many reads reach the end of the list, free_initmem() runs at most
\* once.
THEOREM FreeOnceCorrect == Spec => []FreeOnce
  <1>1. IInv => FreeOnce
    BY DEF IInv, RefInv, FreeOnce
  <1>2. QED
    BY Invariance, <1>1, PTL

\* Init memory is given back only after every deferred init function has
\* returned.
THEOREM FreedAfterDeferredCorrect == Spec => []FreedOnlyAfterDeferred
  <1>1. IInv => FreedOnlyAfterDeferred
    BY DEF IInv, RefInv, FreedOnlyAfterDeferred
  <1>2. QED
    BY Invariance, <1>1, PTL

-----------------------------------------------------------------------------
(***************************************************************************)
(* Refinement.                                                             *)
(***************************************************************************)

\* An init function that returns is a completion of StagedInit, or leaves it
\* unchanged when another reader ran the same entry.
LEMMA LeaveCompletes ==
    ASSUME NEW i \in Entries, NEW k \in {"asynchronized", "deferred"},
           Type[i] = k, Leave(i),
           \A j \in Entries : Type[j] = k /\ j < i => j \in done,
           UNCHANGED <<boot, free_init_ref>>
    PROVE  [Staged!SNext]_(Staged!svars)
  <1>1. CASE i \in done
    BY <1>1 DEF Leave, Staged!svars
  <1>2. CASE i \notin done
    <2>1. Staged!Complete(i)
      BY <1>2 DEF Staged!Complete, Staged!Stage, Leave, Entries
    <2>2. QED
      BY <2>1 DEF Staged!SNext, Entries
  <1>3. QED
    BY <1>1, <1>2

\* Every step of the runtime is a step of StagedInit or leaves it unchanged:
\* the returns complete an entry, the first dropped reference reports the end.
LEMMA StepImplements ==
    ASSUME IInv, [Next]_vars
    PROVE  [Staged!SNext]_(Staged!svars)
  <1> USE StageFacts DEF IInv, TypeInv, TypeOK
  <1>1. CASE AsyncReturn
    <2>1. Leave(ait) /\ ait \in Async /\ UNCHANGED <<boot, free_init_ref>>
      BY <1>1 DEF AsyncReturn, ScanInv, bvars
    <2>2. \A j \in Entries : Type[j] = "asynchronized" /\ j < ait => j \in done
      BY DEF ScanInv, Async
    <2>3. QED
      BY <2>1, <2>2, LeaveCompletes DEF Async
  <1>2. ASSUME NEW p \in Procs, ReadReturn(p)
        PROVE  [Staged!SNext]_(Staged!svars)
    <2>1. /\ Leave(rit[p]) /\ rit[p] \in Deferred
          /\ UNCHANGED <<boot, free_init_ref>>
      BY <1>2 DEF ReadReturn, ScanInv, bvars
    <2>2. \A j \in Entries : Type[j] = "deferred" /\ j < rit[p] => j \in done
      BY <1>2 DEF ReadReturn, ScanInv, Deferred
    <2>3. QED
      BY <2>1, <2>2, LeaveCompletes DEF Deferred
  <1>3. ASSUME NEW p \in Procs, ReadEof(p)
        PROVE  [Staged!SNext]_(Staged!svars)
    <2>1. /\ boot = "running" /\ Deferred \subseteq done
          /\ UNCHANGED <<boot, done>>
          /\ free_init_ref' = free_init_ref - 1
      BY <1>3 DEF ReadEof, ScanInv, FileInv, hvars
    <2>2. CASE free_init_ref = 3
      <3>1. Staged!ReportEnd
        BY <2>1, <2>2
           DEF Staged!ReportEnd, Staged!Stage, Deferred, Entries
      <3>2. QED
        BY <3>1 DEF Staged!SNext
    <2>3. CASE free_init_ref < 3
      BY <2>1, <2>3 DEF Staged!svars
    <2>4. QED
      BY <2>2, <2>3
  <1>4. CASE UNCHANGED done /\ boot # "running" /\ boot' # "running"
    BY <1>4 DEF Staged!svars
  <1>5. CASE KernelInit
    BY <1>5 DEF KernelInit, Bounds, Staged!svars, hvars
  <1>6. CASE UNCHANGED <<done, boot, free_init_ref>>
    BY <1>6 DEF Staged!svars
  <1>7. QED
    BY <1>1, <1>2, <1>3, <1>4, <1>5, <1>6
       DEF Next, BootStep, AsyncStep, Read, ReadFinish, Enter,
           AsyncInitRefs, AsyncInitThread, AsyncInitThreadFails, AsyncInitProc,
           AsyncCall, AsyncExit, AsyncOops, OpenFirst, OpenRefused, Share,
           Close, ReadBegin, ReadAtEnd, ReadFree, ReadOops,
           vars, bvars, avars, fvars, rvars, hvars

\* The runtime of drivers/async.c implements staged initialisation: whatever
\* the interleaving, what it does to the set of completed init functions and
\* to the reported end is a behaviour of StagedInit.
THEOREM Implementation == Spec => ImplementsStaged
  <1>1. Init => Staged!SInit
    BY DEF Init, Staged!SInit
  <1>2. IInv /\ [Next]_vars => [Staged!SNext]_(Staged!svars)
    BY StepImplements
  <1>3. QED
    BY Invariance, <1>1, <1>2, PTL DEF Spec, ImplementsStaged, Staged!SSpec

-----------------------------------------------------------------------------
(***************************************************************************)
(* With read(2): f_pos_lock lets one device_read at a time into the file.  *)
(***************************************************************************)

\* One reader at a time, on a file that is opened once.
OneReader ==
    /\ \A p, q \in Procs :
          rpc[p] \in {"call", "eof", "free"} /\ rpc[q] \in {"call", "eof", "free"}
             => p = q
    /\ init_done = 0 =>
          /\ fd = {}
          /\ frees = 0
          /\ \A i \in Deferred : starts[i] = 0

\* The position is ahead of every deferred entry that was entered, but for
\* the one being called; the thread's position likewise.
OnceInv ==
    /\ \A i \in Entries : starts[i] <= 1
    /\ \A i \in Async : starts[i] > 0 =>
          i < ait \/ (i = ait /\ apc \in {"call", "oops"})
    /\ (fd # {} /\ \A p \in Procs : rpc[p] \notin {"call", "oops"}) =>
          \A i \in Deferred : starts[i] > 0 => i < private_data
    /\ \A p \in Procs : rpc[p] = "call" =>
          \A i \in Deferred : starts[i] > 0 => i <= rit[p]

\* When init memory goes, or is about to, the position is past the last
\* deferred entry, and stays there.
PastEnd ==
    /\ frees > 0 /\ fd # {} => \A i \in Deferred : i < private_data
    /\ \A p \in Procs :
          /\ rpc[p] \in {"eof", "free"} => \A i \in Deferred : i < private_data
          /\ rpc[p] = "call" => frees = 0

LockInv == OneReader /\ OnceInv /\ PastEnd


\* f_pos_lock keeps a second reader out; init_done keeps a second open out.
LEMMA OneReaderStep ==
    ASSUME PosLock, IInv, OneReader, [Next]_vars
    PROVE  OneReader'
  <1> USE StageFacts DEF IInv, TypeInv, TypeOK, Bounds, FileInv, OneReader, vars, bvars, avars, fvars, rvars, hvars
  <1>1. CASE AsyncInitRefs
    BY <1>1 DEF AsyncInitRefs
  <1>2. CASE AsyncInitThread
    BY <1>2 DEF AsyncInitThread
  <1>3. CASE AsyncInitThreadFails
    BY <1>3 DEF AsyncInitThreadFails
  <1>4. CASE AsyncInitProc
    BY <1>4 DEF AsyncInitProc
  <1>5. CASE KernelInit
    BY <1>5 DEF KernelInit
  <1>6. CASE AsyncCall
    <2>1. PICK j \in Entries : SkipTo("asynchronized", ait, j) /\ Enter(j)
      BY <1>6 DEF AsyncCall
    <2>2. j \notin Deferred
      BY <2>1, ScanStops DEF Deferred, Kinds
    <2>3. QED
      BY <1>6, <2>1, <2>2 DEF AsyncCall, Enter
  <1>7. CASE AsyncReturn
    BY <1>7 DEF AsyncReturn, Leave
  <1>8. CASE AsyncExit
    BY <1>8 DEF AsyncExit
  <1>9. CASE AsyncOops
    BY <1>9 DEF AsyncOops
  <1>10. ASSUME NEW p \in Procs, OpenFirst(p) PROVE OneReader'
    BY <1>10 DEF OpenFirst, CanOpen
  <1>11. ASSUME NEW p \in Procs, OpenRefused(p) PROVE OneReader'
    BY <1>11 DEF OpenRefused, CanOpen, EINVAL
  <1>12. ASSUME NEW p \in Procs, NEW q \in Procs, Share(p, q) PROVE OneReader'
    BY <1>12 DEF Share
  <1>13. ASSUME NEW p \in Procs, Close(p) PROVE OneReader'
    BY <1>13 DEF Close, DropFile
  <1>14. ASSUME NEW p \in Procs, NEW n \in Sizes, ReadBegin(p, n) PROVE OneReader'
    BY <1>14 DEF ReadBegin, CanRead, Enter
  <1>15. ASSUME NEW p \in Procs, NEW n \in Sizes, ReadAtEnd(p, n) PROVE OneReader'
    BY <1>15 DEF ReadAtEnd, CanRead
  <1>16. ASSUME NEW p \in Procs, ReadReturn(p) PROVE OneReader'
    BY <1>16 DEF ReadReturn, Leave
  <1>17. ASSUME NEW p \in Procs, ReadEof(p) PROVE OneReader'
    BY <1>17 DEF ReadEof, DecAndTest
  <1>18. ASSUME NEW p \in Procs, ReadFree(p) PROVE OneReader'
    BY <1>18 DEF ReadFree
  <1>19. ASSUME NEW p \in Procs, ReadOops(p) PROVE OneReader'
    BY <1>19 DEF ReadOops, CanRead, DropFile
  <1>20. CASE UNCHANGED vars
    BY <1>20
  <1>21. QED
    BY <1>1, <1>2, <1>3, <1>4, <1>5, <1>6, <1>7, <1>8, <1>9, <1>10,
       <1>11, <1>12, <1>13, <1>14, <1>15, <1>16, <1>17, <1>18, <1>19, <1>20
       DEF Next, BootStep, AsyncStep, Read, ReadFinish

\* A scan never stops at an entry that was entered before.
LEMMA OnceStep ==
    ASSUME PosLock, IInv, OneReader, OnceInv, [Next]_vars
    PROVE  OnceInv'
  <1> USE StageFacts DEF IInv, TypeInv, TypeOK, Bounds, FileInv, OnceInv, vars, bvars, avars, fvars, rvars, hvars
  <1>1. CASE AsyncInitRefs
    BY <1>1 DEF AsyncInitRefs
  <1>2. CASE AsyncInitThread
    BY <1>2 DEF AsyncInitThread
  <1>3. CASE AsyncInitThreadFails
    BY <1>3 DEF AsyncInitThreadFails
  <1>4. CASE AsyncInitProc
    BY <1>4 DEF AsyncInitProc
  <1>5. CASE KernelInit
    BY <1>5 DEF KernelInit
  <1>6. CASE AsyncCall
    <2>1. PICK j \in Entries : /\ SkipTo("asynchronized", ait, j)
                               /\ ait' = j
                               /\ Enter(j)
      BY <1>6 DEF AsyncCall
    <2>2. j \in Async /\ j \notin Deferred /\ ait <= j
      BY <2>1, ScanStops DEF Async, Deferred, Kinds
    <2>3. starts[j] = 0
      BY <1>6, <2>2 DEF AsyncCall
    <2>4. QED
      BY <1>6, <2>1, <2>2, <2>3 DEF AsyncCall, Enter
  <1>7. CASE AsyncReturn
    BY <1>7 DEF AsyncReturn, Leave
  <1>8. CASE AsyncExit
    <2>1. ait <= N + 1
      BY <1>8, NAssumption
    <2>2. QED
      BY <1>8, <2>1 DEF AsyncExit
  <1>9. CASE AsyncOops
    BY <1>9 DEF AsyncOops
  <1>10. ASSUME NEW p \in Procs, OpenFirst(p) PROVE OnceInv'
    <2>1. \A i \in Deferred : starts[i] = 0
      BY <1>10 DEF OpenFirst, OneReader
    <2>2. QED
      BY <1>10, <2>1 DEF OpenFirst
  <1>11. ASSUME NEW p \in Procs, OpenRefused(p) PROVE OnceInv'
    BY <1>11 DEF OpenRefused, CanOpen, EINVAL
  <1>12. ASSUME NEW p \in Procs, NEW q \in Procs, Share(p, q) PROVE OnceInv'
    BY <1>12 DEF Share
  <1>13. ASSUME NEW p \in Procs, Close(p) PROVE OnceInv'
    <2>1. fd' # {} => UNCHANGED private_data /\ fd # {}
      BY <1>13 DEF Close, DropFile
    <2>2. QED
      BY <1>13, <2>1 DEF Close, DropFile
  <1>14. ASSUME NEW p \in Procs, NEW n \in Sizes, ReadBegin(p, n) PROVE OnceInv'
    <2>1. PICK j \in Entries : /\ SkipTo("deferred", private_data, j)
                               /\ rit' = [rit EXCEPT ![p] = j]
                               /\ Enter(j)
      BY <1>14 DEF ReadBegin
    <2>2. j \in Deferred /\ j \notin Async /\ private_data <= j
      BY <2>1, ScanStops DEF Async, Deferred, Kinds
    <2>3. \A i \in Deferred : starts[i] > 0 => i < private_data
      BY <1>14 DEF ReadBegin, CanRead
    <2>4. starts[j] = 0
      BY <2>2, <2>3
    <2>5. \A i \in Deferred : starts'[i] > 0 => i <= j
      BY <2>1, <2>2, <2>3 DEF Enter
    <2>6. \A q \in Procs : rpc'[q] = "call" => q = p
      BY <1>14 DEF ReadBegin, CanRead
    <2>7. QED
      BY <1>14, <2>1, <2>2, <2>4, <2>5, <2>6 DEF ReadBegin, Enter
  <1>15. ASSUME NEW p \in Procs, NEW n \in Sizes, ReadAtEnd(p, n) PROVE OnceInv'
    BY <1>15 DEF ReadAtEnd, CanRead
  <1>16. ASSUME NEW p \in Procs, ReadReturn(p) PROVE OnceInv'
    <2>1. \A q \in Procs : rpc'[q] # "call"
      BY <1>16 DEF ReadReturn, OneReader
    <2>2. \A i \in Deferred : starts'[i] > 0 => i < private_data'
      BY <1>16 DEF ReadReturn, Leave
    <2>3. QED
      BY <1>16, <2>1, <2>2 DEF ReadReturn, Leave
  <1>17. ASSUME NEW p \in Procs, ReadEof(p) PROVE OnceInv'
    BY <1>17 DEF ReadEof, DecAndTest
  <1>18. ASSUME NEW p \in Procs, ReadFree(p) PROVE OnceInv'
    BY <1>18 DEF ReadFree
  <1>19. ASSUME NEW p \in Procs, ReadOops(p) PROVE OnceInv'
    BY <1>19 DEF ReadOops, CanRead, DropFile
  <1>20. CASE UNCHANGED vars
    BY <1>20
  <1>21. QED
    BY <1>1, <1>2, <1>3, <1>4, <1>5, <1>6, <1>7, <1>8, <1>9, <1>10,
       <1>11, <1>12, <1>13, <1>14, <1>15, <1>16, <1>17, <1>18, <1>19, <1>20
       DEF Next, BootStep, AsyncStep, Read, ReadFinish

\* Init memory goes only after a read has found no deferred entry ahead of the
\* position, and the position never moves back.
LEMMA PastEndStep ==
    ASSUME PosLock, IInv, OneReader, OnceInv, PastEnd, [Next]_vars
    PROVE  PastEnd'
  <1> USE StageFacts DEF IInv, TypeInv, TypeOK, Bounds, FileInv, PastEnd, vars, bvars, avars, fvars, rvars, hvars
  <1>1. CASE AsyncInitRefs
    BY <1>1 DEF AsyncInitRefs
  <1>2. CASE AsyncInitThread
    BY <1>2 DEF AsyncInitThread
  <1>3. CASE AsyncInitThreadFails
    BY <1>3 DEF AsyncInitThreadFails
  <1>4. CASE AsyncInitProc
    BY <1>4 DEF AsyncInitProc
  <1>5. CASE KernelInit
    BY <1>5 DEF KernelInit
  <1>6. CASE AsyncCall
    BY <1>6 DEF AsyncCall, Enter
  <1>7. CASE AsyncReturn
    BY <1>7 DEF AsyncReturn, Leave
  <1>8. CASE AsyncExit
    BY <1>8 DEF AsyncExit
  <1>9. CASE AsyncOops
    BY <1>9 DEF AsyncOops
  <1>10. ASSUME NEW p \in Procs, OpenFirst(p) PROVE PastEnd'
    BY <1>10 DEF OpenFirst, OneReader
  <1>11. ASSUME NEW p \in Procs, OpenRefused(p) PROVE PastEnd'
    BY <1>11 DEF OpenRefused, CanOpen, EINVAL
  <1>12. ASSUME NEW p \in Procs, NEW q \in Procs, Share(p, q) PROVE PastEnd'
    BY <1>12 DEF Share
  <1>13. ASSUME NEW p \in Procs, Close(p) PROVE PastEnd'
    <2>1. fd' # {} => UNCHANGED private_data /\ fd # {}
      BY <1>13 DEF Close, DropFile
    <2>2. \A q \in Procs : rpc[q] \in {"call", "eof", "free"} => fd' # {}
      BY <1>13 DEF Close, DropFile
    <2>3. QED
      BY <1>13, <2>1, <2>2 DEF Close, DropFile
  <1>14. ASSUME NEW p \in Procs, NEW n \in Sizes, ReadBegin(p, n) PROVE PastEnd'
    <2>1. PICK j \in Entries : SkipTo("deferred", private_data, j)
      BY <1>14 DEF ReadBegin
    <2>2. j \in Deferred /\ private_data <= j
      BY <2>1, ScanStops DEF Deferred, Kinds
    <2>3. frees = 0
      BY <1>14, <2>2 DEF ReadBegin, CanRead
    <2>4. QED
      BY <1>14, <2>3 DEF ReadBegin, CanRead
  <1>15. ASSUME NEW p \in Procs, NEW n \in Sizes, ReadAtEnd(p, n) PROVE PastEnd'
    <2>1. SkipTo("deferred", private_data, N + 1)
      BY <1>15 DEF ReadAtEnd
    <2>2. \A i \in Entries : Type[i] = "deferred" /\ i < N + 1 => i < private_data
      BY <2>1, ScanStops DEF Kinds
    <2>3. \A i \in Deferred : i < private_data
      BY <2>2, NAssumption DEF Deferred
    <2>4. QED
      BY <1>15, <2>3 DEF ReadAtEnd
  <1>16. ASSUME NEW p \in Procs, ReadReturn(p) PROVE PastEnd'
    <2>1. frees = 0 /\ \A q \in Procs : rpc'[q] \notin {"call", "eof", "free"}
      BY <1>16 DEF ReadReturn, OneReader
    <2>2. QED
      BY <1>16, <2>1 DEF ReadReturn
  <1>17. ASSUME NEW p \in Procs, ReadEof(p) PROVE PastEnd'
    BY <1>17 DEF ReadEof, DecAndTest
  <1>18. ASSUME NEW p \in Procs, ReadFree(p) PROVE PastEnd'
    <2>1. \A q \in Procs : rpc'[q] \notin {"call", "eof", "free"}
      BY <1>18 DEF ReadFree, OneReader
    <2>2. QED
      BY <1>18, <2>1 DEF ReadFree
  <1>19. ASSUME NEW p \in Procs, ReadOops(p) PROVE PastEnd'
    <2>1. fd' # {} => UNCHANGED private_data /\ fd # {}
      BY <1>19 DEF ReadOops, DropFile
    <2>2. \A q \in Procs : rpc'[q] \in {"call", "eof", "free"} => fd' # {}
      BY <1>19 DEF ReadOops, DropFile
    <2>3. QED
      BY <1>19, <2>1, <2>2 DEF ReadOops, DropFile
  <1>20. CASE UNCHANGED vars
    BY <1>20
  <1>21. QED
    BY <1>1, <1>2, <1>3, <1>4, <1>5, <1>6, <1>7, <1>8, <1>9, <1>10,
       <1>11, <1>12, <1>13, <1>14, <1>15, <1>16, <1>17, <1>18, <1>19, <1>20
       DEF Next, BootStep, AsyncStep, Read, ReadFinish

LEMMA LockInvariance ==
    ASSUME PosLock
    PROVE  Spec => []LockInv
  <1>1. Init => LockInv
    <2>1. Init => OneReader
      BY StageFacts DEF Init, OneReader
    <2>2. Init => OnceInv
      BY StageFacts DEF Init, OnceInv
    <2>3. Init => PastEnd
      BY DEF Init, PastEnd
    <2>4. QED
      BY <2>1, <2>2, <2>3 DEF LockInv
  <1>2. IInv /\ LockInv /\ [Next]_vars => LockInv'
    BY OneReaderStep, OnceStep, PastEndStep DEF LockInv
  <1>3. QED
    BY Invariance, <1>1, <1>2, PTL DEF Spec

\* As long as the file is read with read(2), which the VFS serialises, every
\* init function is entered at most once, whoever shares the file and in
\* whatever order the processes open, read, share and close it.
THEOREM OnlyOnceCorrect ==
    ASSUME PosLock
    PROVE  Spec => []OnlyOnce
  <1>1. LockInv => OnlyOnce
    BY DEF LockInv, OnceInv, OnlyOnce
  <1>2. QED
    BY LockInvariance, <1>1, PTL

\* With read(2), no deferred init function runs in memory that free_initmem()
\* has given back.
THEOREM NoCallAfterFreeCorrect ==
    ASSUME PosLock
    PROVE  Spec => []NoDeferredCallAfterFree
  <1>1. LockInv => NoDeferredCallAfterFree
    BY DEF LockInv, PastEnd, NoDeferredCallAfterFree
  <1>2. QED
    BY LockInvariance, <1>1, PTL

=============================================================================
