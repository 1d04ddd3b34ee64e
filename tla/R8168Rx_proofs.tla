---------------------------- MODULE R8168Rx_proofs ----------------------------
(***************************************************************************)
(* The receive ring for every ring size, every width of the indices and    *)
(* every budget: its indices never pass each other, and as long as         *)
(* init_ring finds memory the NIC never has a descriptor without a buffer, *)
(* and the driver takes frames, and only frames, where the NIC puts them,  *)
(* up to a race for the ring (Races), of which nothing is claimed.         *)
(***************************************************************************)
EXTENDS R8168Rx, RingArithmetic, FiniteSetTheorems, SequenceTheorems, TLAPS

Indices ==
    /\ cur_rx \in 0..(Modulus - 1)
    /\ dirty_rx \in 0..(Modulus - 1)
    /\ rcur \in 0..(Modulus - 1)
    /\ rleft \in Nat
    /\ rpc \in {"idle", "poll", "task", "done", "lost"}

\* What rx_interrupt has passed, and what it may still pass, fits into the
\* ring.
Passed ==
    /\ Behind <= NUM_RX_DESC
    /\ ~Outside => ToFill + rleft <= NUM_RX_DESC

IInv == Indices /\ Passed

\* u32 arithmetic on the indices.
LEMMA Leaving ==
    ASSUME Indices, Behind <= NUM_RX_DESC
    PROVE  /\ Behind \in Nat
           /\ RxLeft = NUM_RX_DESC - Behind
           /\ RxLeft \in Nat
BY RingAssumption DEF Indices, Behind, RxLeft, Wrap

LEMMA Filling ==
    ASSUME Indices
    PROVE  ToFill \in Nat
BY RingAssumption DEF Indices, ToFill, Wrap

LEMMA Passing ==
    ASSUME Indices, ToFill + 1 <= NUM_RX_DESC
    PROVE  /\ Wrap(rcur + 1) \in 0..(Modulus - 1)
           /\ Wrap(Wrap(rcur + 1) - dirty_rx) = ToFill + 1
BY RingAssumption DEF Indices, ToFill, Wrap

LEMMA Filled ==
    ASSUME Indices, NEW delta \in 0..ToFill
    PROVE  /\ Wrap(dirty_rx + delta) \in 0..(Modulus - 1)
           /\ Wrap(rcur - Wrap(dirty_rx + delta)) = ToFill - delta
BY RingAssumption DEF Indices, ToFill, Wrap

LEMMA RxBeginKeeps ==
    ASSUME IInv, PollBegin \/ TaskBegin
    PROVE  IInv'
<1> USE DEF IInv
<1>1. /\ rpc' \in {"poll", "task"} /\ rcur' = cur_rx
      /\ UNCHANGED <<cur_rx, dirty_rx>>
      /\ rleft' = RxLeft \/ rleft' = Least(RxLeft, Budget)
  BY DEF PollBegin, TaskBegin, ring
<1>2. RxLeft \in Nat /\ RxLeft = NUM_RX_DESC - Behind /\ Behind \in Nat
  BY Leaving DEF Passed
<1>3. rleft' \in Nat /\ rleft' <= RxLeft
  BY <1>1, <1>2, RingAssumption DEF Least
<1>4. ToFill' = Behind /\ Behind' = Behind
  BY <1>1 DEF ToFill, Behind
<1>5. ToFill' + rleft' <= NUM_RX_DESC
  <2>1. NUM_RX_DESC \in Nat
    BY RingAssumption
  <2>2. ASSUME NEW b \in Nat, NEW l \in Nat, NEW r \in Nat, NEW n \in Nat,
               r = n - b, l <= r
        PROVE  b + l <= n
    BY <2>2
  <2>3. Behind + rleft' <= NUM_RX_DESC
    BY <1>2, <1>3, <2>1, <2>2
  <2>4. QED
    BY <2>3, <1>4
<1>6. Indices'
  BY <1>1, <1>3 DEF Indices
<1>7. QED
  BY <1>4, <1>5, <1>6 DEF Passed

LEMMA RxEntryKeeps ==
    ASSUME IInv, RxEntry
    PROVE  IInv'
<1> USE DEF IInv
<1>1. /\ ~Outside /\ rleft > 0
      /\ rcur' = Wrap(rcur + 1) /\ rleft' = rleft - 1
      /\ UNCHANGED <<cur_rx, dirty_rx, rpc>>
  BY DEF RxEntry, RxReuse, RxCopy, RxHandUp, AtEntry, Advance, Outside
<1>2. ToFill \in Nat /\ ToFill + 1 <= NUM_RX_DESC
  BY <1>1, Filling, RingAssumption DEF Passed, Indices
<1>3. Indices' /\ ToFill' = ToFill + 1
  BY <1>1, <1>2, Passing DEF Indices, ToFill
<1>4. Behind' = Behind
  BY <1>1 DEF Behind
<1>5. QED
  BY <1>1, <1>2, <1>3, <1>4, RingAssumption DEF Indices, Passed, Outside

LEMMA RxEndsKeeps ==
    ASSUME IInv, RxEnds
    PROVE  IInv'
<1> USE DEF IInv
<1>1. ASSUME NEW delta \in 0..ToFill, PollEnd(delta) \/ TaskShort(delta) PROVE IInv'
  <2>1. /\ cur_rx' = rcur /\ dirty_rx' = Wrap(dirty_rx + delta)
        /\ rpc' \in {"idle", "done"} /\ rcur' = 0 /\ rleft' = 0 /\ ~Outside
    BY <1>1 DEF PollEnd, TaskShort, RxFill, RxReturn, Outside
  <2>2. dirty_rx' \in 0..(Modulus - 1) /\ Behind' = ToFill - delta
    BY <2>1, Filled DEF Behind
  <2>3. QED
    BY <2>1, <2>2, Filling, RingAssumption DEF Indices, Passed, Outside
<1>2. ASSUME NEW ok \in BOOLEAN, TaskEnd(ok) PROVE IInv'
  <2>1. /\ cur_rx' = 0 /\ dirty_rx' = 0
        /\ rpc' = "idle" /\ rcur' = 0 /\ rleft' = 0
    BY <1>2 DEF TaskEnd, RenewRing, RxReturn
  <2>2. QED
    BY <2>1, RingAssumption DEF Indices, Passed, Behind, Wrap, Outside
<1>3. CASE PollDone
  <2>1. UNCHANGED <<cur_rx, dirty_rx, rcur, rleft>> /\ rpc' = "idle"
    BY <1>3 DEF PollDone, ring
  <2>2. QED
    BY <2>1 DEF Indices, Passed, Behind, Outside
<1>4. QED
  BY <1>1, <1>2, <1>3 DEF RxEnds

LEMMA DeviceKeeps ==
    ASSUME IInv,
           \/ \E kind \in {"whole", "part", "error"} : NicReceive(kind)
           \/ NicNoDescriptor \/ Interrupt \/ PhyChange \/ LinkUp \/ TxTimeout \/ Races
           \/ \E ok \in BOOLEAN : LinkDown(ok) \/ EsdTimer(ok) \/ FifoOver(ok)
    PROVE  IInv'
<1> USE DEF IInv
<1>1. CASE \/ \E kind \in {"whole", "part", "error"} : NicReceive(kind)
           \/ NicNoDescriptor \/ Interrupt \/ PhyChange \/ LinkUp \/ TxTimeout
  <2>1. UNCHANGED <<cur_rx, dirty_rx, rpc, rcur, rleft>>
    BY <1>1 DEF NicReceive, NicNoDescriptor, Interrupt, PhyChange, LinkUp, TxTimeout, ring, rx
  <2>2. QED
    BY <2>1 DEF Indices, Passed, Behind, ToFill, Outside
<1>2. ASSUME NEW ok \in BOOLEAN, LinkDown(ok) \/ EsdTimer(ok) \/ FifoOver(ok) PROVE IInv'
  <2>1. /\ cur_rx' = 0 /\ dirty_rx' = 0 /\ Outside
        /\ UNCHANGED <<rpc, rcur, rleft>>
    BY <1>2 DEF LinkDown, EsdTimer, FifoOver, RenewRing, rx
  <2>2. QED
    BY <2>1, RingAssumption DEF Indices, Passed, Behind, Wrap, Outside
<1>3. CASE Races
  <2>1. /\ cur_rx' = 0 /\ dirty_rx' = 0
        /\ rpc' = "lost" /\ rcur' = 0 /\ rleft' = 0
    BY <1>3 DEF Races, RenewRing
  <2>2. QED
    BY <2>1, RingAssumption DEF Indices, Passed, Behind, ToFill, Wrap
<1>4. QED
  BY <1>1, <1>2, <1>3

\* The inductive invariant, for every ring size, Modulus and Budget, with or
\* without memory.
THEOREM Invariance == Spec => []IInv
<1>1. Init => IInv
  BY RingAssumption DEF Init, IInv, Indices, Passed, Behind, Wrap, Outside
<1>2. IInv /\ [Next]_vars => IInv'
  <2>1. SUFFICES ASSUME IInv, [Next]_vars PROVE IInv'
    OBVIOUS
  <2>2. CASE UNCHANGED vars
    BY <2>1, <2>2 DEF vars, ring, rx, IInv, Indices, Passed, Behind, ToFill, Outside
  <2>3. CASE Next
    BY <2>1, <2>3, RxBeginKeeps, RxEntryKeeps, RxEndsKeeps, DeviceKeeps DEF Next
  <2>4. QED
    BY <2>1, <2>2, <2>3
<1>3. QED
  BY <1>1, <1>2, PTL DEF Spec

\* dirty_rx never falls more than a ring behind cur_rx, whatever refills fail.
THEOREM BehindInRingCorrect == Spec => []BehindInRing
<1>1. IInv => BehindInRing
  BY DEF IInv, Passed, BehindInRing
<1>2. QED
  BY <1>1, Invariance, PTL

-----------------------------------------------------------------------------
(***************************************************************************)
(* Buffers.                                                                *)
(***************************************************************************)

\* The descriptors that may lack a buffer: those passed and not yet filled.
Waiting == IF Outside THEN Behind ELSE ToFill

NicStates == [on : BOOLEAN, at : Slots, irq : BOOLEAN, open : BOOLEAN, missed : BOOLEAN]

Shapes ==
    /\ own \in [Slots -> BOOLEAN]
    /\ skb \in [Slots -> BOOLEAN]
    /\ rpc \in {"idle", "poll", "task", "done", "lost"}
    /\ nic \in NicStates

Buffers ==
    /\ \A e \in Slots : own[e] => skb[e]
    /\ \A e \in Slots : ~skb[e] => \E i \in 0..(Waiting - 1) : e = Entry(dirty_rx + i)
    /\ eor = TRUE /\ wild = FALSE

BInv == Shapes /\ Buffers

LEMMA EntryInRing ==
    ASSUME NEW x \in Nat
    PROVE  Entry(x) \in Slots
BY RingAssumption DEF Entry, Slots

LEMMA ResetNicType ==
    ASSUME nic \in NicStates
    PROVE  /\ ResetNic \in NicStates /\ ResetNic.on = FALSE
           /\ StartedNic \in NicStates /\ StartedNic.on = TRUE /\ StartedNic.at = 0
<1>1. 0 \in Slots
  BY RingAssumption DEF Slots
<1>2. QED
  BY <1>1 DEF ResetNic, StartedNic, NicStates

\* The same descriptor before and after the index wraps around.
LEMMA EntryOfWrap ==
    ASSUME NEW x \in 0..(2 * Modulus - 1), NEW j \in Nat
    PROVE  Entry(Wrap(x) + j) = Entry(x + j)
<1>1. CASE x < Modulus
  BY <1>1, RingAssumption DEF Wrap
<1>2. CASE x >= Modulus
  <2>1. Wrap(x) = x - Modulus
    BY <1>2, RingAssumption DEF Wrap
  <2>2. x - Modulus + j \in Nat /\ (x - Modulus + j) + Modulus = x + j
    BY <1>2, RingAssumption
  <2>3. ((x - Modulus + j) + Modulus) % NUM_RX_DESC = (x - Modulus + j) % NUM_RX_DESC
    BY <2>2, RingAssumption, Shift
  <2>4. QED
    BY <2>1, <2>2, <2>3 DEF Entry
<1>3. QED
  BY <1>1, <1>2, RingAssumption

\* rcur is ToFill descriptors after dirty_rx.
LEMMA EntryOfCur ==
    ASSUME Indices, ToFill < NUM_RX_DESC
    PROVE  /\ Entry(rcur) = Entry(dirty_rx + ToFill)
           /\ \A i \in 0..(ToFill - 1) : Entry(rcur) # Entry(dirty_rx + i)
<1>1. dirty_rx + ToFill \in 0..(2 * Modulus - 1) /\ Wrap(dirty_rx + ToFill) = rcur
  BY RingAssumption DEF Indices, ToFill, Wrap
<1>2. Entry(rcur) = Entry(dirty_rx + ToFill)
  <2>1. Entry(Wrap(dirty_rx + ToFill) + 0) = Entry(dirty_rx + ToFill + 0)
    BY <1>1, EntryOfWrap
  <2>2. rcur + 0 = rcur /\ dirty_rx + ToFill + 0 = dirty_rx + ToFill
    BY <1>1 DEF Indices
  <2>3. QED
    BY <1>1, <2>1, <2>2
<1>3. ASSUME NEW i \in 0..(ToFill - 1) PROVE Entry(rcur) # Entry(dirty_rx + i)
  <2>1. ToFill \in Nat
    BY Filling
  <2>2. /\ dirty_rx + i \in Nat /\ dirty_rx + ToFill \in Nat
        /\ dirty_rx + i < dirty_rx + ToFill
        /\ dirty_rx + ToFill < dirty_rx + i + NUM_RX_DESC
    BY <2>1, RingAssumption DEF Indices
  <2>3. QED
    BY <1>2, <2>2, RingAssumption, Distinct DEF Entry
<1>4. QED
  BY <1>2, <1>3

LEMMA RxEntryBuffers ==
    ASSUME IInv, BInv, RxEntry
    PROVE  BInv'
<1>1. PICK e \in Slots : RxReuse(e) \/ RxCopy(e) \/ RxHandUp(e)
  BY DEF RxEntry
<1>2. /\ ~Outside /\ rleft > 0 /\ e = Entry(rcur) /\ ~own[e]
      /\ rcur' = Wrap(rcur + 1) /\ UNCHANGED <<dirty_rx, rpc, eor, wild, nic>>
  BY <1>1 DEF RxReuse, RxCopy, RxHandUp, AtEntry, Advance, Outside
<1>3. ToFill \in Nat /\ ToFill + 1 <= NUM_RX_DESC
  BY <1>2, Filling, RingAssumption DEF IInv, Passed, Indices
<1>4. ToFill' = ToFill + 1
  BY <1>2, <1>3, Passing DEF IInv, Indices, ToFill
<1>5. Waiting = ToFill /\ Waiting' = ToFill + 1
  BY <1>2, <1>4 DEF Waiting, Outside
<1>6. e = Entry(dirty_rx + ToFill) /\ \A i \in 0..(ToFill - 1) : e # Entry(dirty_rx + i)
  BY <1>2, <1>3, EntryOfCur, RingAssumption DEF IInv
<1>7. skb[e] = TRUE
  BY <1>5, <1>6, Zenon DEF BInv, Buffers, Shapes
<1>8. CASE RxReuse(e) \/ RxCopy(e)
  <2>1. own' = [own EXCEPT ![e] = TRUE] /\ skb' = skb
    BY <1>8 DEF RxReuse, RxCopy
  <2>2. Shapes'
    BY <1>2, <2>1 DEF BInv, Shapes
  <2>3. \A f \in Slots : own'[f] => skb'[f]
    BY <1>7, <2>1 DEF BInv, Buffers, Shapes
  <2>4. \A f \in Slots : ~skb'[f] => \E i \in 0..(Waiting' - 1) : f = Entry(dirty_rx' + i)
    BY <1>2, <1>3, <1>5, <2>1 DEF BInv, Buffers
  <2>5. QED
    BY <1>2, <2>2, <2>3, <2>4 DEF BInv, Buffers
<1>9. CASE RxHandUp(e)
  <2>1. skb' = [skb EXCEPT ![e] = FALSE] /\ own' = own
    BY <1>9 DEF RxHandUp
  <2>2. Shapes'
    BY <1>2, <2>1 DEF BInv, Shapes
  <2>3. \A f \in Slots : own'[f] => skb'[f]
    BY <1>2, <2>1 DEF BInv, Buffers, Shapes
  <2>4. ASSUME NEW f \in Slots, ~skb'[f]
        PROVE  \E i \in 0..(Waiting' - 1) : f = Entry(dirty_rx' + i)
    <3>1. CASE f = e
      BY <1>2, <1>3, <1>5, <1>6, <3>1
    <3>2. CASE f # e
      BY <1>2, <1>3, <1>5, <2>1, <2>4, <3>2 DEF BInv, Buffers, Shapes
    <3>3. QED
      BY <3>1, <3>2
  <2>5. QED
    BY <1>2, <2>2, <2>3, <2>4 DEF BInv, Buffers
<1>10. QED
  BY <1>1, <1>8, <1>9

\* A refill that stops early leaves exactly the rest waiting.
LEMMA RxFillBuffers ==
    ASSUME IInv, BInv, NEW delta \in 0..ToFill, PollEnd(delta) \/ TaskShort(delta)
    PROVE  BInv'
<1>1. /\ cur_rx' = rcur /\ dirty_rx' = Wrap(dirty_rx + delta) /\ rpc' \in {"idle", "done"}
      /\ ~Outside /\ UNCHANGED <<eor, wild>>
      /\ skb' = [e \in Slots |-> skb[e] \/ e \in New(delta)]
      /\ own' = [e \in Slots |-> own[e] \/ e \in New(delta)]
  BY DEF PollEnd, TaskShort, RxFill, RxReturn, Outside
<1>2. Waiting = ToFill /\ Waiting' = ToFill - delta
  BY <1>1, Filled DEF IInv, Waiting, Behind, Outside
<1>3. Shapes'
  <2>1. nic' \in NicStates
    BY DEF PollEnd, TaskShort, BInv, Shapes
  <2>2. QED
    BY <1>1, <2>1 DEF BInv, Shapes
<1>4. \A e \in Slots : own'[e] => skb'[e]
  BY <1>1 DEF BInv, Buffers
<1>5. ASSUME NEW e \in Slots, ~skb'[e]
      PROVE  \E i \in 0..(Waiting' - 1) : e = Entry(dirty_rx' + i)
  <2>1. ~skb[e] /\ e \notin New(delta)
    BY <1>1, <1>5
  <2>2. PICK i \in 0..(ToFill - 1) : e = Entry(dirty_rx + i)
    BY <1>2, <2>1 DEF BInv, Buffers
  <2>3. ToFill \in Nat
    BY Filling DEF IInv
  <2>4. i \notin 0..(delta - 1)
    BY <2>1, <2>2 DEF New
  <2>5. i - delta \in 0..(Waiting' - 1)
    BY <1>2, <2>3, <2>4
  <2>6. dirty_rx + delta \in 0..(2 * Modulus - 1) /\ i - delta \in Nat
    BY <2>3, <2>5, RingAssumption DEF IInv, Indices, ToFill, Wrap
  <2>7. Entry(dirty_rx' + (i - delta)) = Entry(dirty_rx + delta + (i - delta))
    BY <1>1, <2>6, EntryOfWrap
  <2>8. dirty_rx + delta + (i - delta) = dirty_rx + i
    BY <2>3 DEF IInv, Indices
  <2>9. QED
    BY <2>2, <2>5, <2>7, <2>8
<1>6. QED
  BY <1>1, <1>3, <1>4, <1>5 DEF BInv, Buffers

LEMMA RenewBuffers ==
    ASSUME ~ResetFails, BInv,
           \/ Races
           \/ \E ok \in BOOLEAN : TaskEnd(ok) \/ LinkDown(ok) \/ EsdTimer(ok) \/ FifoOver(ok)
    PROVE  BInv'
<1>1. RenewRing(TRUE)
  BY DEF TaskEnd, LinkDown, EsdTimer, FifoOver, Races, RenewRing
<1>2. own' = [e \in Slots |-> TRUE] /\ skb' = [e \in Slots |-> TRUE] /\ eor' = TRUE
  BY <1>1 DEF RenewRing
<1>3. wild' = wild /\ nic' \in {nic, ResetNic, StartedNic} /\ rpc' \in {rpc, "idle", "lost"}
  BY DEF TaskEnd, LinkDown, EsdTimer, FifoOver, Races, RxReturn, rx
<1>4. nic \in NicStates
  BY DEF BInv, Shapes
<1>5. nic' \in NicStates
  BY <1>3, <1>4, ResetNicType
<1>6. Shapes'
  BY <1>2, <1>3, <1>5 DEF BInv, Shapes
<1>7. QED
  BY <1>2, <1>3, <1>6 DEF BInv, Buffers

LEMMA OtherBuffers ==
    ASSUME IInv, BInv,
           \/ \E kind \in {"whole", "part", "error"} : NicReceive(kind)
           \/ NicNoDescriptor \/ Interrupt \/ PhyChange \/ LinkUp \/ TxTimeout
           \/ PollBegin \/ TaskBegin \/ PollDone
    PROVE  BInv'
<1>1. CASE \E kind \in {"whole", "part", "error"} : NicReceive(kind)
  <2>1. /\ own[nic.at] /\ own' = [own EXCEPT ![nic.at] = FALSE]
        /\ wild' = (wild \/ ~skb[nic.at] \/ (nic.at = NUM_RX_DESC - 1 /\ ~eor))
        /\ nic' = [nic EXCEPT !.at = Entry(nic.at + 1), !.irq = TRUE]
        /\ UNCHANGED <<cur_rx, dirty_rx, skb, eor, rpc, rcur>>
    BY <1>1 DEF NicReceive, rx
  <2>2. nic.at \in Slots /\ nic.at + 1 \in Nat
    BY RingAssumption DEF BInv, Shapes, Slots, NicStates
  <2>3. skb[nic.at] = TRUE
    BY <2>1, <2>2 DEF BInv, Buffers, Shapes
  <2>4. wild' = FALSE
    BY <2>1, <2>3 DEF BInv, Buffers
  <2>5. Shapes'
    <3>1. nic' \in NicStates
      BY <2>1, <2>2, EntryInRing DEF BInv, Shapes, NicStates
    <3>2. QED
      BY <2>1, <3>1 DEF BInv, Shapes
  <2>6. Waiting' = Waiting
    BY <2>1 DEF Waiting, Behind, ToFill, Outside
  <2>7. QED
    BY <2>1, <2>4, <2>5, <2>6 DEF BInv, Shapes, Buffers
<1>2. CASE NicNoDescriptor \/ Interrupt \/ PhyChange \/ LinkUp \/ TxTimeout \/ PollDone
  <2>1. UNCHANGED <<cur_rx, dirty_rx, own, skb, eor, rcur, wild>>
    BY <1>2 DEF NicNoDescriptor, Interrupt, PhyChange, LinkUp, TxTimeout, PollDone, ring, rx
  <2>2. rpc' = rpc \/ (rpc = "done" /\ rpc' = "idle")
    BY <1>2 DEF NicNoDescriptor, Interrupt, PhyChange, LinkUp, TxTimeout, PollDone, rx
  <2>3. nic' \in NicStates
    <3>1. nic \in NicStates
      BY DEF BInv, Shapes
    <3>2. CASE NicNoDescriptor \/ Interrupt \/ PhyChange \/ PollDone
      BY <3>1, <3>2 DEF NicNoDescriptor, Interrupt, PhyChange, PollDone, NicStates
    <3>3. CASE LinkUp \/ TxTimeout
      BY <3>1, <3>3, ResetNicType DEF LinkUp, TxTimeout
    <3>4. QED
      BY <1>2, <3>2, <3>3
  <2>4. Waiting' = Waiting
    BY <2>1, <2>2 DEF Waiting, Behind, ToFill, Outside
  <2>5. QED
    BY <2>1, <2>2, <2>3, <2>4 DEF BInv, Shapes, Buffers
<1>3. CASE PollBegin \/ TaskBegin
  <2>1. /\ UNCHANGED <<cur_rx, dirty_rx, own, skb, eor, wild>>
        /\ rpc = "idle" /\ rpc' \in {"poll", "task"} /\ rcur' = cur_rx
    BY <1>3 DEF PollBegin, TaskBegin, ring
  <2>2. Waiting' = Waiting
    BY <2>1 DEF Waiting, Behind, ToFill, Outside
  <2>3. nic' \in NicStates
    BY <1>3 DEF PollBegin, TaskBegin, BInv, Shapes, NicStates
  <2>4. Shapes'
    BY <2>1, <2>3 DEF BInv, Shapes
  <2>5. QED
    BY <2>1, <2>2, <2>4 DEF BInv, Buffers
<1>4. QED
  BY <1>1, <1>2, <1>3

\* The inductive invariant of the buffers, as long as init_ring finds memory.
THEOREM BuffersInvariance ==
    ASSUME ~ResetFails
    PROVE  Spec => []BInv
<1>1. Init => BInv
  BY RingAssumption DEF Init, BInv, Shapes, Buffers, Slots, NicStates
<1>2. IInv /\ BInv /\ [Next]_vars => BInv'
  <2>1. SUFFICES ASSUME IInv, BInv, [Next]_vars PROVE BInv'
    OBVIOUS
  <2>2. CASE UNCHANGED vars
    BY <2>1, <2>2 DEF vars, ring, rx, BInv, Shapes, Buffers, Waiting, Behind, ToFill, Outside
  <2>3. CASE Next
    BY <2>1, <2>3, RxEntryBuffers, RxFillBuffers, RenewBuffers, OtherBuffers
       DEF Next, RxEnds
  <2>4. QED
    BY <2>1, <2>2, <2>3
<1>3. QED
  BY <1>1, <1>2, Invariance, PTL DEF Spec

\* No descriptor of the NIC is ever without a buffer, in whatever order frames
\* are copied, handed up and refilled, as long as init_ring finds memory.
THEOREM BufferBehindOwnCorrect ==
    ASSUME ~ResetFails
    PROVE  Spec => []BufferBehindOwn
<1>1. BInv => BufferBehindOwn
  BY DEF BInv, Buffers, BufferBehindOwn
<1>2. QED
  BY <1>1, BuffersInvariance, PTL

-----------------------------------------------------------------------------
(***************************************************************************)
(* Frames.  InStep holds between two calls of rx_interrupt only; what a    *)
(* step of the loop keeps is the same picture seen from the descriptor it  *)
(* looks at next, in which the NIC may already be among the descriptors    *)
(* that have been given back and not yet been passed by rx_fill.           *)
(***************************************************************************)

\* From Start on, u frames to be read; the others are free for the NIC if
\* they have a buffer.
Unread(u) ==
    \A i \in Slots :
        IF i < u
          THEN /\ own[Entry(Start + i)] = FALSE /\ skb[Entry(Start + i)] = TRUE
               /\ frame[Entry(Start + i)] # "none"
          ELSE /\ own[Entry(Start + i)] = skb[Entry(Start + i)]
               /\ frame[Entry(Start + i)] = "none"

Place == \E u \in 0..NUM_RX_DESC :
            Unread(u) /\ (nic.on => nic.at = Entry(Start + u))

\* rx_fill stops where it finds no memory, and nowhere else.
Stopped == Outside /\ Behind > 0 => skb[Entry(dirty_rx)] = FALSE

\* A new ring, which rx_interrupt reads from its start.
Renewed ==
    /\ cur_rx = 0 /\ dirty_rx = 0 /\ Start = 0
    /\ \A e \in Slots : own[e] = TRUE /\ skb[e] = TRUE /\ frame[e] = "none"

\* The reset task runs under a NIC that is off, and the link timer finds a new
\* ring, also where a late poll is looking at it.
Device ==
    /\ (nic.on => carrier) /\ (task => ~carrier)
    /\ rpc = "task" => task
    /\ ~carrier /\ ~task => Renewed

FInv ==
    /\ frame \in [Slots -> {"none", "whole", "part", "error"}]
    /\ Place /\ Stopped /\ Device /\ ghost = FALSE

LEMMA SizeInNat == NUM_RX_DESC \in Nat \ {0} /\ Modulus \in Nat /\ NUM_RX_DESC <= Modulus
BY RingAssumption

\* Start is Waiting descriptors after dirty_rx.
LEMMA StartAhead ==
    ASSUME IInv
    PROVE  /\ Start \in 0..(Modulus - 1) /\ dirty_rx \in Nat
           /\ Waiting \in Nat
           /\ \A i \in Nat : Entry(Start + i) = Entry(dirty_rx + Waiting + i)
<1>1. /\ Start \in 0..(Modulus - 1) /\ Waiting \in Nat
      /\ dirty_rx \in Nat
      /\ dirty_rx + Waiting \in 0..(2 * Modulus - 1) /\ Wrap(dirty_rx + Waiting) = Start
  BY RingAssumption DEF IInv, Indices, Start, Waiting, Behind, ToFill, Wrap, Outside
<1>2. ASSUME NEW i \in Nat PROVE Entry(Start + i) = Entry(dirty_rx + Waiting + i)
  BY <1>1, EntryOfWrap
<1>3. QED
  BY <1>1, <1>2

\* What is not waiting for a buffer has one.
LEMMA NotWaiting ==
    ASSUME IInv, BInv, NEW i \in Nat, i < NUM_RX_DESC - Waiting
    PROVE  skb[Entry(Start + i)] = TRUE
<1>1. /\ Start \in Nat /\ Waiting \in Nat /\ dirty_rx \in Nat
      /\ Entry(Start + i) = Entry(dirty_rx + Waiting + i)
  BY StartAhead, SizeInNat
<1>2. Entry(Start + i) \in Slots
  BY <1>1, EntryInRing
<1>3. ASSUME NEW j \in 0..(Waiting - 1) PROVE Entry(Start + i) # Entry(dirty_rx + j)
  <2>1. /\ dirty_rx + j \in Nat /\ dirty_rx + Waiting + i \in Nat
        /\ dirty_rx + j < dirty_rx + Waiting + i
        /\ dirty_rx + Waiting + i < dirty_rx + j + NUM_RX_DESC
    BY <1>1, SizeInNat
  <2>2. QED
    BY <1>1, <2>1, SizeInNat, Distinct DEF Entry
<1>4. QED
  BY <1>2, <1>3, Zenon DEF BInv, Shapes, Buffers

\* The descriptors of one turn from an index on are different.
LEMMA Apart ==
    ASSUME NEW x \in Nat, NEW i \in Slots, NEW j \in Slots, i # j
    PROVE  Entry(x + i) # Entry(x + j)
<1>1. i \in 0..(NUM_RX_DESC - 1) /\ j \in 0..(NUM_RX_DESC - 1) /\ NUM_RX_DESC \in Nat \ {0}
  BY SizeInNat DEF Slots
<1>2. CASE i < j
  <2>1. x + i \in Nat /\ x + j \in Nat /\ x + i < x + j /\ x + j < x + i + NUM_RX_DESC
    BY <1>1, <1>2
  <2>2. QED
    BY <1>1, <2>1, Distinct DEF Entry
<1>3. CASE j < i
  <2>1. x + i \in Nat /\ x + j \in Nat /\ x + j < x + i /\ x + i < x + j + NUM_RX_DESC
    BY <1>1, <1>3
  <2>2. QED
    BY <1>1, <2>1, Distinct DEF Entry
<1>4. QED
  BY <1>1, <1>2, <1>3

\* A frame that the NIC stores is the last of those to be read.
LEMMA NicReceiveUnread ==
    ASSUME IInv, BInv, FInv, NEW kind \in {"whole", "part", "error"}, NicReceive(kind)
    PROVE  \E u \in Slots :
              /\ Unread(u) /\ nic.at = Entry(Start + u)
              /\ Unread(u + 1)' /\ nic'.at = Entry(Start + (u + 1))
<1>1. /\ nic.on /\ own[nic.at]
      /\ own' = [own EXCEPT ![nic.at] = FALSE]
      /\ frame' = [frame EXCEPT ![nic.at] = kind]
      /\ nic' = [nic EXCEPT !.at = Entry(nic.at + 1), !.irq = TRUE]
      /\ UNCHANGED <<cur_rx, dirty_rx, skb, rpc, rcur, carrier, task, ghost>>
  BY DEF NicReceive, rx, dev
<1>2. nic.at \in Slots /\ own \in [Slots -> BOOLEAN] /\ skb \in [Slots -> BOOLEAN]
  BY DEF BInv, Shapes, NicStates
<1>3. PICK u \in 0..NUM_RX_DESC : Unread(u) /\ nic.at = Entry(Start + u)
  BY <1>1 DEF FInv, Place
<1>4. Start \in Nat /\ Start' = Start /\ Behind' = Behind
  BY <1>1, StartAhead, SizeInNat DEF Start, Behind, Outside
<1>5. u \in Slots
  <2>1. SUFFICES ASSUME u = NUM_RX_DESC PROVE FALSE
    BY SizeInNat DEF Slots
  <2>2. Entry(Start + u) = Entry(Start + 0)
    <3>1. Start + 0 = Start /\ Start \in Nat
      BY <1>4
    <3>2. QED
      BY <2>1, <3>1, SizeInNat, Turn DEF Entry
  <2>3. 0 \in Slots /\ 0 < u
    BY <2>1, SizeInNat DEF Slots
  <2>4. own[Entry(Start + 0)] = FALSE
    BY <2>3 , <1>3 DEF Unread
  <2>5. QED
    BY <1>1, <1>3, <2>2, <2>4
<1>6. skb[nic.at] = TRUE
  BY <1>1, <1>2 DEF BInv, Buffers
<1>7. Unread(u + 1)'
  <2>1. SUFFICES ASSUME NEW i \in Slots
                 PROVE  IF i < u + 1
                          THEN /\ own'[Entry(Start + i)] = FALSE /\ skb[Entry(Start + i)] = TRUE
                               /\ frame'[Entry(Start + i)] # "none"
                          ELSE /\ own'[Entry(Start + i)] = skb[Entry(Start + i)]
                               /\ frame'[Entry(Start + i)] = "none"
    BY <1>1, <1>4 DEF Unread
  <2>2. i \in Nat /\ u \in Nat
    BY <1>5, SizeInNat DEF Slots
  <2>3. Entry(Start + i) \in Slots
    BY <1>4, <2>2, EntryInRing
  <2>4. CASE i = u
    <3>1. own'[nic.at] = FALSE /\ frame'[nic.at] = kind
      BY <1>1, <1>2 DEF FInv
    <3>2. i < u + 1 /\ Entry(Start + i) = nic.at /\ kind # "none"
      BY <1>3, <2>2, <2>4
    <3>3. QED
      BY <1>6, <3>1, <3>2
  <2>5. CASE i # u
    <3>1. Entry(Start + i) # nic.at
      BY <1>3, <1>4, <1>5, <2>5, Apart
    <3>2. own'[Entry(Start + i)] = own[Entry(Start + i)] /\ frame'[Entry(Start + i)] = frame[Entry(Start + i)]
      BY <1>1, <1>2, <2>3, <3>1 DEF FInv
    <3>3. i < u + 1 <=> i < u
      BY <2>2, <2>5
    <3>4. QED
      BY <1>3, <3>2, <3>3 DEF Unread
  <2>6. QED
    BY <2>4, <2>5
<1>8. nic'.at = Entry(Start + (u + 1)) /\ nic'.on = nic.on
  <2>1. nic'.at = Entry(nic.at + 1) /\ nic'.on = nic.on
    BY <1>1 DEF BInv, Shapes, NicStates
  <2>2. Start + u \in Nat /\ (Start + u) + 1 = Start + (u + 1)
    BY <1>4, <1>5, SizeInNat DEF Slots
  <2>3. Entry(nic.at + 1) = Entry(Start + (u + 1))
    BY <1>3, <2>2, SizeInNat, Successor DEF Entry
  <2>4. QED
    BY <2>1, <2>3
<1>9. QED
  BY <1>3, <1>5, <1>7, <1>8

LEMMA NicReceiveFrames ==
    ASSUME IInv, BInv, FInv, NEW kind \in {"whole", "part", "error"}, NicReceive(kind)
    PROVE  FInv'
<1>1. /\ frame' = [frame EXCEPT ![nic.at] = kind]
      /\ nic' = [nic EXCEPT !.at = Entry(nic.at + 1), !.irq = TRUE] /\ nic.on
      /\ UNCHANGED <<cur_rx, dirty_rx, skb, rpc, rcur, carrier, task, ghost>>
  BY DEF NicReceive, rx, dev
<1>2. Start' = Start /\ Behind' = Behind
  BY <1>1 DEF Start, Behind, Outside
<1>3. PICK u \in Slots : Unread(u + 1)' /\ nic'.at = Entry(Start + (u + 1))
  BY NicReceiveUnread
<1>4. Place'
  <2>1. u + 1 \in 0..NUM_RX_DESC
    BY SizeInNat DEF Slots
  <2>2. QED
    BY <1>2, <1>3, <2>1 DEF Place
<1>5. frame' \in [Slots -> {"none", "whole", "part", "error"}]
  BY <1>1 DEF FInv
<1>6. Stopped'
  BY <1>1, <1>2 DEF FInv, Stopped, Outside
<1>7. Device'
  BY <1>1 DEF FInv, Device
<1>8. QED
  BY <1>1, <1>4, <1>5, <1>6, <1>7 DEF FInv

\* rx_interrupt takes the first of the frames to be read.
LEMMA RxEntryUnread ==
    ASSUME IInv, BInv, FInv, RxEntry
    PROVE  /\ Start \in Nat
           /\ \A i \in Nat : Entry(Start' + i) = Entry(Start + (i + 1))
           /\ frame' = [frame EXCEPT ![Entry(Start)] = "none"]
           /\ frame[Entry(Start)] # "none"
           /\ \E u \in 1..NUM_RX_DESC :
                 Unread(u) /\ (nic.on => nic.at = Entry(Start + u)) /\ Unread(u - 1)'
<1>1. PICK e \in Slots : RxReuse(e) \/ RxCopy(e) \/ RxHandUp(e)
  BY DEF RxEntry
<1>2. /\ ~Outside /\ rleft > 0 /\ e = Entry(rcur) /\ ~own[e]
      /\ rcur' = Wrap(rcur + 1)
      /\ UNCHANGED <<cur_rx, dirty_rx, rpc, carrier, task, nic>>
      /\ frame' = [frame EXCEPT ![e] = "none"]
      /\ ghost' = ghost \/ ghost' = (ghost \/ frame[e] = "none")
      /\ \/ own' = [own EXCEPT ![e] = TRUE] /\ skb' = skb
         \/ own' = own /\ skb' = [skb EXCEPT ![e] = FALSE]
  BY <1>1 DEF RxReuse, RxCopy, RxHandUp, AtEntry, Advance, dev, Outside
<1>3. own \in [Slots -> BOOLEAN] /\ skb \in [Slots -> BOOLEAN]
      /\ frame \in [Slots -> {"none", "whole", "part", "error"}]
  BY DEF BInv, Shapes, FInv
<1>4. Start = rcur /\ Start \in Nat /\ Start' = Wrap(rcur + 1) /\ rcur \in 0..(Modulus - 1)
  BY <1>2, StartAhead, SizeInNat DEF Start, IInv, Indices, Outside
<1>5. e = Entry(Start + 0)
  <2>1. Start + 0 = rcur
    BY <1>4
  <2>2. QED
    BY <1>2, <2>1
<1>6. PICK u \in 0..NUM_RX_DESC : Unread(u) /\ (nic.on => nic.at = Entry(Start + u))
  BY DEF FInv, Place
<1>7. 0 \in Slots
  BY SizeInNat DEF Slots
<1>8. skb[e] = TRUE
  <2>1. 0 \in Nat /\ 0 < NUM_RX_DESC - Waiting
    BY <1>2, Filling, SizeInNat DEF Waiting, IInv, Passed, Indices
  <2>2. skb[Entry(Start + 0)] = TRUE
    BY <2>1, NotWaiting
  <2>3. QED
    BY <1>5, <2>2
<1>9. 0 < u /\ frame[e] # "none"
  <2>1. CASE 0 < u
    BY <1>5, <1>6, <1>7, <2>1 DEF Unread
  <2>2. CASE ~(0 < u)
    <3>1. own[e] = skb[e]
      BY <1>5, <1>6, <1>7, <2>2 DEF Unread
    <3>2. QED
      BY <1>2, <1>8, <3>1
  <2>3. QED
    BY <2>1, <2>2
<1>10. \A i \in Nat : Entry(Start' + i) = Entry(Start + (i + 1))
  <2>1. rcur + 1 \in 0..(2 * Modulus - 1)
    BY <1>4, SizeInNat
  <2>2. TAKE i \in Nat
  <2>3. Entry(Wrap(rcur + 1) + i) = Entry(rcur + 1 + i)
    BY <2>1, EntryOfWrap
  <2>4. rcur + 1 + i = Start + (i + 1)
    BY <1>4
  <2>5. QED
    BY <1>4, <2>3, <2>4
<1>11. Unread(u - 1)'
  <2>1. SUFFICES ASSUME NEW i \in Slots
                 PROVE  IF i < u - 1
                          THEN /\ own'[Entry(Start' + i)] = FALSE /\ skb'[Entry(Start' + i)] = TRUE
                               /\ frame'[Entry(Start' + i)] # "none"
                          ELSE /\ own'[Entry(Start' + i)] = skb'[Entry(Start' + i)]
                               /\ frame'[Entry(Start' + i)] = "none"
    BY DEF Unread
  <2>2. i \in Nat /\ Entry(Start' + i) = Entry(Start + (i + 1))
    BY <1>10, SizeInNat DEF Slots
  <2>3. CASE i = NUM_RX_DESC - 1
    <3>1. Entry(Start + (i + 1)) = e
      <4>1. i + 1 = NUM_RX_DESC /\ Start + 0 = Start
        BY <1>4, <2>3, SizeInNat
      <4>2. QED
        BY <1>4, <1>5, <4>1, SizeInNat, Turn DEF Entry
    <3>2. ~(i < u - 1)
      BY <2>3, SizeInNat
    <3>3. own'[e] = skb'[e] /\ frame'[e] = "none"
      BY <1>2, <1>3, <1>8
    <3>4. QED
      BY <2>2, <3>1, <3>2, <3>3
  <2>4. CASE i # NUM_RX_DESC - 1
    <3>1. i + 1 \in Slots /\ i + 1 # 0
      BY <2>2, <2>4, SizeInNat DEF Slots
    <3>2. Entry(Start + (i + 1)) # e /\ Entry(Start + (i + 1)) \in Slots
      <4>1. Entry(Start + (i + 1)) # Entry(Start + 0)
        BY <1>4, <1>7, <3>1, Apart
      <4>2. Start + (i + 1) \in Nat
        BY <1>4, <2>2
      <4>3. QED
        BY <1>5, <4>1, <4>2, EntryInRing
    <3>3. /\ own'[Entry(Start + (i + 1))] = own[Entry(Start + (i + 1))]
          /\ skb'[Entry(Start + (i + 1))] = skb[Entry(Start + (i + 1))]
          /\ frame'[Entry(Start + (i + 1))] = frame[Entry(Start + (i + 1))]
      BY <1>2, <1>3, <3>2
    <3>4. i < u - 1 <=> i + 1 < u
      BY <2>2
    <3>5. QED
      BY <1>6, <2>2, <3>1, <3>3, <3>4 DEF Unread
  <2>5. QED
    BY <2>3, <2>4
<1>12. u \in 1..NUM_RX_DESC /\ e = Entry(Start)
  BY <1>2, <1>4, <1>9, SizeInNat
<1>13. QED
  BY <1>2, <1>4, <1>6, <1>9, <1>10, <1>11, <1>12

LEMMA RxEntryFrames ==
    ASSUME IInv, BInv, FInv, RxEntry
    PROVE  FInv'
<1>1. /\ ~Outside /\ UNCHANGED <<cur_rx, dirty_rx, rpc, carrier, task, nic>>
      /\ ghost' = ghost \/ ghost' = (ghost \/ frame[Entry(Start)] = "none")
  BY DEF RxEntry, RxReuse, RxCopy, RxHandUp, AtEntry, Advance, dev, Start, Outside
<1>2. PICK u \in 1..NUM_RX_DESC :
         Unread(u) /\ (nic.on => nic.at = Entry(Start + u)) /\ Unread(u - 1)'
  BY RxEntryUnread
<1>3. Place'
  <2>1. u - 1 \in 0..NUM_RX_DESC /\ u - 1 \in Nat /\ (u - 1) + 1 = u
    BY SizeInNat
  <2>2. Entry(Start' + (u - 1)) = Entry(Start + u)
    BY <2>1, RxEntryUnread
  <2>3. QED
    BY <1>1, <1>2, <2>1, <2>2 DEF Place
<1>4. ghost' = FALSE /\ frame' \in [Slots -> {"none", "whole", "part", "error"}]
  BY <1>1, RxEntryUnread DEF FInv
<1>5. Stopped'
  BY <1>1 DEF Stopped, Outside
<1>6. Device'
  <2>1. PICK e \in Slots : ~own[e]
    BY DEF RxEntry, RxReuse, RxCopy, RxHandUp, AtEntry
  <2>2. carrier \/ task
    BY <2>1 DEF FInv, Device, Renewed
  <2>3. QED
    BY <1>1, <2>2 DEF FInv, Device
<1>7. QED
  BY <1>3, <1>4, <1>5, <1>6 DEF FInv

\* A refill touches no unread frame, and leaves a gap where it stops.
LEMMA RxFillFrames ==
    ASSUME IInv, BInv, FInv, NEW delta \in 0..ToFill, PollEnd(delta) \/ TaskShort(delta)
    PROVE  FInv'
<1>1. /\ cur_rx' = rcur /\ dirty_rx' = Wrap(dirty_rx + delta) /\ rpc' \in {"idle", "done"}
      /\ ~Outside /\ UNCHANGED <<frame, carrier, task, ghost, nic>>
      /\ delta = ToFill \/ ~skb[Entry(dirty_rx + delta)]
      /\ skb' = [e \in Slots |-> skb[e] \/ e \in New(delta)]
      /\ own' = [e \in Slots |-> own[e] \/ e \in New(delta)]
  BY DEF PollEnd, TaskShort, RxFill, RxReturn, dev, Outside
<1>2. own \in [Slots -> BOOLEAN] /\ skb \in [Slots -> BOOLEAN]
  BY DEF BInv, Shapes
<1>3. Start' = Start /\ Start \in Nat
  BY <1>1, StartAhead, SizeInNat DEF Start, Outside
<1>4. rpc' # "task"
  BY <1>1
<1>5. PICK u \in 0..NUM_RX_DESC : Unread(u) /\ (nic.on => nic.at = Entry(Start + u))
  BY DEF FInv, Place
<1>6. Unread(u)'
  <2>1. SUFFICES ASSUME NEW i \in Slots
                 PROVE  IF i < u
                          THEN /\ own'[Entry(Start + i)] = FALSE /\ skb'[Entry(Start + i)] = TRUE
                               /\ frame[Entry(Start + i)] # "none"
                          ELSE /\ own'[Entry(Start + i)] = skb'[Entry(Start + i)]
                               /\ frame[Entry(Start + i)] = "none"
    BY <1>1, <1>3 DEF Unread
  <2>2. Entry(Start + i) \in Slots
    <3>1. Start + i \in Nat
      BY <1>3, SizeInNat DEF Slots
    <3>2. QED
      BY <3>1, EntryInRing
  <2>3. CASE i < u
    <3>1. /\ own[Entry(Start + i)] = FALSE /\ skb[Entry(Start + i)] = TRUE
          /\ frame[Entry(Start + i)] # "none"
      BY <1>5, <2>3 DEF Unread
    <3>2. Entry(Start + i) \notin New(delta)
      BY <3>1 DEF New
    <3>3. QED
      BY <1>1, <2>2, <2>3, <3>1, <3>2
  <2>4. CASE ~(i < u)
    <3>1. own[Entry(Start + i)] = skb[Entry(Start + i)] /\ frame[Entry(Start + i)] = "none"
      BY <1>5, <2>4 DEF Unread
    <3>2. QED
      BY <1>1, <2>2, <2>4, <3>1
  <2>5. QED
    BY <2>3, <2>4
<1>7. Place'
  BY <1>1, <1>3, <1>5, <1>6 DEF Place
<1>8. Stopped'
  <2>1. Behind' = ToFill - delta /\ ToFill \in Nat /\ ToFill <= NUM_RX_DESC
    BY <1>1, Filled, Filling, SizeInNat DEF IInv, Behind, Passed, Indices
  <2>2. Behind' > 0 => delta < ToFill
    BY <2>1
  <2> SUFFICES ASSUME delta < ToFill PROVE skb'[Entry(dirty_rx')] = FALSE
    BY <2>2, Zenon DEF Stopped
  <2>3. /\ dirty_rx \in Nat /\ delta \in Nat /\ dirty_rx' \in Nat
        /\ dirty_rx + delta \in Nat /\ dirty_rx + delta \in 0..(2 * Modulus - 1)
    BY <1>1, <2>1, Filled, SizeInNat DEF IInv, Indices
  <2>4. Entry(dirty_rx') = Entry(dirty_rx + delta)
    <3>1. Entry(Wrap(dirty_rx + delta) + 0) = Entry(dirty_rx + delta + 0)
      BY <2>3, EntryOfWrap
    <3>2. \A x \in Nat : x + 0 = x
      OBVIOUS
    <3>3. QED
      BY <1>1, <2>3, <3>1, <3>2
  <2>5. Entry(dirty_rx + delta) \in Slots
    BY <2>3, EntryInRing
  <2>6. skb[Entry(dirty_rx + delta)] = FALSE
    BY <1>1, <1>2, <2>1, <2>2, <2>5
  <2>7. Entry(dirty_rx + delta) \notin New(delta)
    <3>1. SUFFICES ASSUME NEW i \in 0..(delta - 1)
                   PROVE  Entry(dirty_rx + delta) # Entry(dirty_rx + i)
      BY DEF New
    <3>2. /\ dirty_rx + i \in Nat /\ dirty_rx + i < dirty_rx + delta
          /\ dirty_rx + delta < dirty_rx + i + NUM_RX_DESC
      BY <2>1, <2>2, <2>3, SizeInNat
    <3>3. QED
      BY <2>3, <3>2, SizeInNat, Distinct DEF Entry
  <2>8. QED
    BY <1>1, <2>4, <2>5, <2>6, <2>7
<1>9. Device'
  <2>1. SUFFICES ASSUME ~carrier, ~task PROVE Renewed'
    BY <1>1, <1>4 DEF FInv, Device
  <2>2. Renewed
    BY <2>1 DEF FInv, Device
  <2>3. rcur = 0 /\ dirty_rx = 0 /\ ToFill = 0 /\ delta = 0
    BY <1>1, <2>2, SizeInNat DEF Renewed, Start, ToFill, Wrap
  <2>4. cur_rx' = 0 /\ dirty_rx' = 0 /\ Start' = 0
    BY <1>1, <1>3, <2>2, <2>3, SizeInNat DEF Renewed, Wrap
  <2>5. \A e \in Slots : own'[e] = TRUE /\ skb'[e] = TRUE /\ frame'[e] = "none"
    BY <1>1, <2>2 DEF Renewed
  <2>6. QED
    BY <2>4, <2>5 DEF Renewed
<1>10. QED
  BY <1>1, <1>7, <1>8, <1>9 DEF FInv

\* A new ring has no frames, and the NIC starts at its start.
Fresh == Renewed /\ (nic.on => nic.at = 0)

LEMMA NewRing == Fresh => Place /\ Stopped
<1> SUFFICES ASSUME Fresh PROVE Place /\ Stopped
  OBVIOUS
<1> USE DEF Fresh, Renewed
<1>1. Start = 0 /\ 0 \in 0..NUM_RX_DESC
  BY SizeInNat
<1>2. \A i \in Slots : Entry(Start + i) \in Slots
  <2>1. \A i \in Slots : Start + i \in Nat
    BY <1>1, SizeInNat DEF Slots
  <2>2. QED
    BY <2>1, EntryInRing
<1>3. Unread(0)
  <2>1. \A i \in Slots : ~(i < 0)
    BY SizeInNat DEF Slots
  <2>2. QED
    BY <1>2, <2>1 DEF Unread
<1>4. Entry(Start + 0) = 0
  <2>1. 0 \in Int /\ NUM_RX_DESC \in Int /\ NUM_RX_DESC > 0 /\ 0 \in 0..(NUM_RX_DESC - 1)
        /\ 0 = NUM_RX_DESC * 0 + 0
    BY SizeInNat
  <2>2. 0 % NUM_RX_DESC = 0
    BY <2>1, ModUnique
  <2>3. Start + 0 = 0
    BY <1>1
  <2>4. QED
    BY <2>2, <2>3 DEF Entry
<1>5. Place
  BY <1>1, <1>3, <1>4 DEF Place
<1>6. Behind = 0
  BY SizeInNat DEF Behind, Wrap
<1>7. QED
  BY <1>5, <1>6 DEF Stopped

LEMMA NewRingNext == Fresh' => Place' /\ Stopped'
BY NewRing, PTL

LEMMA RenewFrames ==
    ASSUME ~ResetFails, BInv, FInv,
           \/ Races
           \/ \E ok \in BOOLEAN : TaskEnd(ok) \/ LinkDown(ok) \/ EsdTimer(ok) \/ FifoOver(ok)
    PROVE  FInv'
<1>1. RenewRing(TRUE) /\ ghost' = ghost
  BY DEF TaskEnd, LinkDown, EsdTimer, FifoOver, Races, RenewRing
<1>2. /\ own' = [e \in Slots |-> TRUE] /\ skb' = [e \in Slots |-> TRUE]
      /\ frame' = [e \in Slots |-> "none"] /\ cur_rx' = 0 /\ dirty_rx' = 0
  BY <1>1 DEF RenewRing
<1>3. nic \in NicStates /\ ResetNic.on = FALSE /\ StartedNic.on = TRUE /\ StartedNic.at = 0
  BY ResetNicType DEF BInv, Shapes
<1>4. /\ Start' = 0 /\ (rpc' = "task" => task')
      /\ (nic'.on => carrier' /\ nic'.at = 0) /\ (task' => ~carrier')
  <2>1. CASE \E ok \in BOOLEAN : TaskEnd(ok)
    <3>1. rpc = "task" /\ rpc' = "idle" /\ UNCHANGED <<nic, carrier>> /\ task' = FALSE
      BY <2>1 DEF TaskEnd, RxReturn
    <3>2. nic.on = FALSE
      BY <1>3, <3>1 DEF FInv, Device, NicStates
    <3>3. QED
      BY <1>2, <3>1, <3>2 DEF Start, Outside
  <2>2. CASE \E ok \in BOOLEAN : LinkDown(ok) \/ EsdTimer(ok)
    <3>1. Outside /\ rpc' = rpc /\ nic' = ResetNic /\ carrier' = FALSE
      BY <2>2 DEF LinkDown, EsdTimer, rx
    <3>2. QED
      BY <1>2, <1>3, <3>1 DEF Start, Outside
  <2>3. CASE \E ok \in BOOLEAN : FifoOver(ok)
    <3>1. /\ Outside /\ rpc' = rpc /\ nic' = StartedNic /\ nic.on
          /\ UNCHANGED <<carrier, task>>
      BY <2>3 DEF FifoOver, rx
    <3>2. QED
      BY <1>2, <1>3, <3>1 DEF Start, Outside, FInv, Device
  <2>4. CASE Races
    <3>1. rpc' = "lost" /\ rcur' = 0 /\ nic' = ResetNic /\ UNCHANGED <<carrier, task>>
      BY <2>4 DEF Races, dev
    <3>2. QED
      BY <1>3, <3>1 DEF Start, Outside, FInv, Device
  <2>5. QED
    BY <2>1, <2>2, <2>3, <2>4
<1>5. Renewed'
  BY <1>2, <1>4 DEF Renewed
<1>6. Place' /\ Stopped'
  BY <1>4, <1>5, NewRingNext DEF Fresh
<1>7. Device'
  BY <1>4, <1>5 DEF Device
<1>8. QED
  BY <1>1, <1>2, <1>6, <1>7 DEF FInv

LEMMA OtherFrames ==
    ASSUME IInv, BInv, FInv,
           \/ NicNoDescriptor \/ Interrupt \/ PhyChange \/ LinkUp \/ TxTimeout
           \/ PollBegin \/ TaskBegin \/ PollDone
    PROVE  FInv'
<1>1. UNCHANGED <<cur_rx, dirty_rx, own, skb, frame, ghost>>
  BY DEF NicNoDescriptor, Interrupt, PhyChange, LinkUp, TxTimeout, PollBegin, TaskBegin,
         PollDone, ring
<1>2. Behind' = Behind
  BY <1>1 DEF Behind
<1>3. Start' = Start /\ (Outside' => Outside)
  <2>1. CASE NicNoDescriptor \/ Interrupt \/ PhyChange \/ LinkUp \/ TxTimeout
    BY <1>1, <2>1
       DEF NicNoDescriptor, Interrupt, PhyChange, LinkUp, TxTimeout, rx, Start, Outside
  <2>2. CASE PollBegin \/ TaskBegin \/ PollDone
    BY <1>1, <2>2 DEF PollBegin, TaskBegin, PollDone, Start, Outside
  <2>3. QED
    BY <2>1, <2>2
<1>4. Stopped'
  BY <1>1, <1>2, <1>3 DEF FInv, Stopped
<1>5. nic \in NicStates
  BY DEF BInv, Shapes
<1>6. CASE LinkUp
  <2>1. /\ ~task /\ ~carrier /\ UNCHANGED <<rpc, task>> /\ carrier' = TRUE
        /\ nic'.on = TRUE /\ nic'.at = 0
    BY <1>5, <1>6, ResetNicType DEF LinkUp, rx
  <2>2. Renewed
    BY <2>1 DEF FInv, Device
  <2>3. Renewed'
    BY <1>1, <1>3, <2>2 DEF Renewed
  <2>4. Place'
    BY <2>1, <2>3, NewRingNext DEF Fresh
  <2>5. Device'
    BY <2>1 DEF FInv, Device
  <2>6. QED
    BY <1>1, <1>4, <2>4, <2>5 DEF FInv
<1>7. CASE \/ NicNoDescriptor \/ Interrupt \/ PhyChange \/ TxTimeout
           \/ PollBegin \/ TaskBegin \/ PollDone
  <2>1. nic'.on => nic.on /\ nic'.at = nic.at
    BY <1>5, <1>7, ResetNicType
       DEF NicNoDescriptor, Interrupt, PhyChange, TxTimeout, PollBegin, TaskBegin, PollDone,
           NicStates
  <2>2. Place'
    BY <1>1, <1>3, <2>1 DEF FInv, Place, Unread
  <2>3. /\ nic'.on => carrier'
        /\ \/ UNCHANGED <<carrier, task>> /\ (rpc' = "task" => task)
           \/ carrier' = FALSE /\ task' = TRUE
    <3>1. CASE TxTimeout
      BY <1>5, <3>1, ResetNicType DEF TxTimeout
    <3>2. CASE \/ NicNoDescriptor \/ Interrupt \/ PhyChange
               \/ PollBegin \/ TaskBegin \/ PollDone
      <4>1. UNCHANGED <<carrier, task>>
        BY <3>2 DEF NicNoDescriptor, Interrupt, PhyChange, PollBegin, TaskBegin, PollDone, dev
      <4>2. rpc' = "task" => rpc = "task" \/ task
        BY <3>2 DEF NicNoDescriptor, Interrupt, PhyChange, PollBegin, TaskBegin, PollDone, rx
      <4>3. QED
        BY <2>1, <4>1, <4>2 DEF FInv, Device
    <3>3. QED
      BY <1>7, <3>1, <3>2
  <2>4. Renewed => Renewed'
    BY <1>1, <1>3 DEF Renewed
  <2>5. Device'
    BY <2>3, <2>4 DEF FInv, Device
  <2>6. QED
    BY <1>1, <1>4, <2>2, <2>5 DEF FInv
<1>8. QED
  BY <1>6, <1>7

\* The inductive invariant of buffers and frames, for every ring size and
\* quota, as long as init_ring finds memory.
THEOREM FramesInvariance ==
    ASSUME ~ResetFails
    PROVE  Spec => [](IInv /\ BInv /\ FInv)
<1>1. Init => FInv
  <2>1. SUFFICES ASSUME Init PROVE FInv
    OBVIOUS
  <2>2. /\ rpc = "idle" /\ cur_rx = 0 /\ dirty_rx = 0 /\ nic.on = FALSE
        /\ carrier = FALSE /\ task = FALSE /\ ghost = FALSE
        /\ own = [e \in Slots |-> TRUE] /\ skb = [e \in Slots |-> TRUE]
        /\ frame = [e \in Slots |-> "none"]
    BY <2>1 DEF Init
  <2>3. Renewed
    BY <2>2 DEF Renewed, Start, Outside
  <2>4. Place /\ Stopped
    BY <2>2, <2>3, NewRing DEF Fresh
  <2>5. Device
    BY <2>2, <2>3 DEF Device
  <2>6. QED
    BY <2>2, <2>4, <2>5 DEF FInv
<1>2. IInv /\ BInv /\ FInv /\ [Next]_vars => FInv'
  <2>1. SUFFICES ASSUME IInv, BInv, FInv, [Next]_vars PROVE FInv'
    OBVIOUS
  <2>2. CASE UNCHANGED vars
    BY <2>1, <2>2
       DEF vars, ring, rx, dev, FInv, Place, Unread, Stopped, Device, Renewed, Start, Behind, Outside
  <2>3. CASE Next
    BY <2>1, <2>3, NicReceiveFrames, RxEntryFrames, RxFillFrames, RenewFrames, OtherFrames
       DEF Next, RxEnds
  <2>4. QED
    BY <2>1, <2>2, <2>3
<1>3. QED
  BY <1>1, <1>2, Invariance, BuffersInvariance, PTL DEF Spec

\* The driver and the NIC agree on where the next frame is, wherever refills
\* stop, whatever is copied or handed up, and across resets and link changes.
THEOREM InStepCorrect ==
    ASSUME ~ResetFails
    PROVE  Spec => []InStep
<1>1. IInv /\ BInv /\ FInv => InStep
  <2>1. SUFFICES ASSUME IInv, BInv, FInv, nic.on, Outside
                 PROVE  \E unread \in 0..(NUM_RX_DESC - Behind) :
                           /\ nic.at = Entry(cur_rx + unread)
                           /\ \A i \in 0..(NUM_RX_DESC - Behind - 1) :
                                 /\ own[Entry(cur_rx + i)] <=> unread <= i
                                 /\ frame[Entry(cur_rx + i)] # "none" <=> i < unread
    BY DEF InStep
  <2>2. Start = cur_rx /\ Waiting = Behind
    BY <2>1 DEF Start, Waiting
  <2>3. PICK u \in 0..NUM_RX_DESC : Unread(u) /\ nic.at = Entry(Start + u)
    BY <2>1 DEF FInv, Place
  <2>4. Behind \in Nat /\ Behind <= NUM_RX_DESC /\ Start \in Nat /\ dirty_rx \in Nat
    BY <2>1, <2>2, StartAhead, SizeInNat DEF IInv, Passed
  <2>5. u \in 0..(NUM_RX_DESC - Behind)
    <3>1. SUFFICES ASSUME u > NUM_RX_DESC - Behind PROVE FALSE
      BY <2>4, SizeInNat
    <3>2. NUM_RX_DESC - Behind \in Slots /\ NUM_RX_DESC - Behind \in Nat /\ Behind > 0
      BY <2>4, <3>1, SizeInNat DEF Slots
    <3>3. Entry(Start + (NUM_RX_DESC - Behind)) = Entry(dirty_rx)
      <4>1. Entry(Start + (NUM_RX_DESC - Behind))
              = Entry(dirty_rx + Waiting + (NUM_RX_DESC - Behind))
        BY <2>1, <3>2, StartAhead
      <4>2. dirty_rx + Waiting + (NUM_RX_DESC - Behind) = dirty_rx + NUM_RX_DESC
        BY <2>2, <2>4, SizeInNat
      <4>3. QED
        BY <2>4, <4>1, <4>2, SizeInNat, Turn DEF Entry
    <3>4. skb[Entry(Start + (NUM_RX_DESC - Behind))] = TRUE
      BY <2>3, <3>1, <3>2 DEF Unread
    <3>5. skb[Entry(dirty_rx)] = FALSE
      BY <2>1, <3>2 DEF FInv, Stopped
    <3>6. QED
      BY <3>3, <3>4, <3>5
  <2>6. ASSUME NEW i \in 0..(NUM_RX_DESC - Behind - 1)
        PROVE  /\ own[Entry(Start + i)] <=> u <= i
               /\ frame[Entry(Start + i)] # "none" <=> i < u
    <3>1. i \in Slots /\ i \in Nat /\ i < NUM_RX_DESC - Waiting
      BY <2>2, <2>4, SizeInNat DEF Slots
    <3>2. skb[Entry(Start + i)] = TRUE
      BY <2>1, <3>1, NotWaiting
    <3>3. CASE i < u
      <4>1. own[Entry(Start + i)] = FALSE /\ frame[Entry(Start + i)] # "none"
        BY <2>3, <3>1, <3>3 DEF Unread
      <4>2. QED
        BY <3>1, <3>3, <4>1
    <3>4. CASE ~(i < u)
      <4>1. own[Entry(Start + i)] = TRUE /\ frame[Entry(Start + i)] = "none"
        BY <2>3, <3>1, <3>2, <3>4 DEF Unread
      <4>2. QED
        BY <3>1, <3>4, <4>1
    <3>5. QED
      BY <3>3, <3>4
  <2>7. QED
    BY <2>2, <2>3, <2>5, <2>6
<1>2. QED
  BY <1>1, FramesInvariance, PTL

\* Whatever rx_interrupt drops or hands up was written by the NIC, as long as
\* init_ring finds memory: a descriptor it takes for a fragmented frame is one.
THEOREM OnlyFramesReadCorrect ==
    ASSUME ~ResetFails
    PROVE  Spec => []OnlyFramesRead
<1>1. FInv => OnlyFramesRead
  BY DEF FInv, OnlyFramesRead
<1>2. QED
  BY <1>1, FramesInvariance, PTL

-----------------------------------------------------------------------------
(***************************************************************************)
(* The ring is a queue of frames.                                          *)
(***************************************************************************)

Kinds == {"whole", "part", "error"}

\* The frames in the ring are the u frames from Start on.
FramesAreUnread ==
    \A u \in 0..NUM_RX_DESC :
        Orderly /\ Start \in Nat /\ frame \in [Slots -> Kinds \cup {"none"}] /\ Unread(u) =>
            /\ Frames = [i \in 1..u |-> frame[Entry(Start + (i - 1))]]
            /\ Frames \in Seq(Kinds) /\ Len(Frames) = u

LEMMA FramesUnread == FramesAreUnread
<1>1. SUFFICES ASSUME NEW u \in 0..NUM_RX_DESC, Orderly, Start \in Nat, Unread(u),
                      frame \in [Slots -> Kinds \cup {"none"}]
               PROVE  /\ Frames = [i \in 1..u |-> frame[Entry(Start + (i - 1))]]
                      /\ Frames \in Seq(Kinds) /\ Len(Frames) = u
  BY DEF FramesAreUnread
<1>2. \A i \in Slots : /\ Entry(Start + i) \in Slots
                       /\ Entry(Start + i) \in Written <=> i < u
  <2>1. TAKE i \in Slots
  <2>2. Start + i \in Nat
    BY <1>1, SizeInNat DEF Slots
  <2>3. Entry(Start + i) \in Slots
    BY <2>2, EntryInRing
  <2>4. QED
    BY <1>1, <2>3 DEF Unread, Written
<1>3. Cardinality(Written) = u
  <2>1. Written \in SUBSET (0..(NUM_RX_DESC - 1))
    BY DEF Written, Slots
  <2>2. \A i \in 0..(NUM_RX_DESC - 1) : (Start + i) % NUM_RX_DESC \in Written <=> i < u
    BY <1>2 DEF Slots, Entry
  <2>3. QED
    BY <1>1, <2>1, <2>2, SizeInNat, Counted
<1>4. Frames = [i \in 1..u |-> frame[Entry(Start + (i - 1))]]
  BY <1>1, <1>3 DEF Frames
<1>5. \A i \in 1..u : frame[Entry(Start + (i - 1))] \in Kinds
  <2>1. TAKE i \in 1..u
  <2>2. i - 1 \in Slots /\ i - 1 < u
    BY SizeInNat DEF Slots
  <2>3. QED
    BY <1>1, <1>2, <2>2 DEF Written
<1>6. u \in Nat
  BY SizeInNat
<1>7. QED
  BY <1>4, <1>5, <1>6

LEMMA FramesUnreadNext == FramesAreUnread'
BY FramesUnread, PTL

\* A frame that is stored goes to the end of the queue.
LEMMA NicReceivePuts ==
    ASSUME Orderly, IInv, BInv, FInv, FInv', NEW kind \in Kinds, NicReceive(kind)
    PROVE  Queue!Put(<<kind>>)
<1>1. PICK u \in Slots : Unread(u) /\ nic.at = Entry(Start + u) /\ Unread(u + 1)'
  BY NicReceiveUnread DEF Kinds
<1>2. /\ nic.on /\ frame' = [frame EXCEPT ![nic.at] = kind]
      /\ nic' = [nic EXCEPT !.at = Entry(nic.at + 1), !.irq = TRUE]
      /\ UNCHANGED <<cur_rx, rpc, rcur>>
  BY DEF NicReceive, rx
<1>3. Start \in Nat /\ Start' = Start /\ nic'.on = nic.on /\ nic.at \in Slots /\ Orderly'
  <2>1. Start \in Nat /\ Start' = Start /\ Orderly'
    BY <1>2, StartAhead, SizeInNat DEF Start, Outside, Orderly
  <2>2. QED
    BY <1>2, <2>1 DEF BInv, Shapes, NicStates
<1>4. u \in Nat /\ u \in 0..NUM_RX_DESC /\ u + 1 \in 0..NUM_RX_DESC
  BY SizeInNat DEF Slots
<1>5. /\ frame \in [Slots -> Kinds \cup {"none"}]
      /\ frame' \in [Slots -> Kinds \cup {"none"}]
  BY DEF FInv, Kinds
<1>6. /\ Frames = [i \in 1..u |-> frame[Entry(Start + (i - 1))]]
      /\ Frames \in Seq(Kinds) /\ Len(Frames) = u
  BY <1>1, <1>3, <1>4, <1>5, FramesUnread DEF FramesAreUnread
<1>7. Frames' = [i \in 1..(u + 1) |-> frame'[Entry(Start + (i - 1))]]
  BY <1>1, <1>3, <1>4, <1>5, FramesUnreadNext DEF FramesAreUnread
<1>8. Frames' = Frames \o <<kind>>
  <2>1. ASSUME NEW i \in 1..u
        PROVE  frame'[Entry(Start + (i - 1))] = frame[Entry(Start + (i - 1))]
    <3>1. i - 1 \in Slots /\ i - 1 # u /\ Start + (i - 1) \in Nat
      BY <1>3, <1>4, SizeInNat DEF Slots
    <3>2. Entry(Start + (i - 1)) # nic.at /\ Entry(Start + (i - 1)) \in Slots
      BY <1>1, <1>3, <3>1, Apart, EntryInRing
    <3>3. QED
      BY <1>2, <1>5, <3>2
  <2>2. frame'[Entry(Start + ((u + 1) - 1))] = kind
    <3>1. (u + 1) - 1 = u
      BY <1>4
    <3>2. frame'[nic.at] = kind
      BY <1>2, <1>3, <1>5
    <3>3. QED
      BY <1>1, <3>1, <3>2
  <2>3. Frames \o <<kind>> = [i \in 1..(u + 1) |-> IF i <= u THEN Frames[i] ELSE kind]
    <3>1. <<kind>> \in Seq(Kinds) /\ Len(<<kind>>) = 1 /\ <<kind>>[1] = kind
      OBVIOUS
    <3>2. QED
      BY <1>4, <1>6, <3>1
  <2>4. ASSUME NEW i \in 1..(u + 1)
        PROVE  frame'[Entry(Start + (i - 1))] = IF i <= u THEN Frames[i] ELSE kind
    <3>1. CASE i <= u
      <4>1. i \in 1..u
        BY <1>4, <3>1
      <4>2. QED
        BY <1>6, <2>1, <3>1, <4>1
    <3>2. CASE ~(i <= u)
      <4>1. i = u + 1
        BY <1>4, <3>2
      <4>2. QED
        BY <2>2, <3>2, <4>1
    <3>3. QED
      BY <3>1, <3>2
  <2>5. QED
    BY <1>7, <2>3, <2>4
<1>9. Len(Frames) + Len(<<kind>>) <= NUM_RX_DESC
  BY <1>4, <1>6, SizeInNat
<1>10. QED
  BY <1>2, <1>3, <1>8, <1>9 DEF Queue!Put

\* The frame rx_interrupt deals with is the first of the queue.
LEMMA RxEntryTakes ==
    ASSUME IInv, BInv, FInv, IInv', FInv', RxEntry
    PROVE  Queue!Take
<1>1. /\ Start \in Nat
      /\ \A i \in Nat : Entry(Start' + i) = Entry(Start + (i + 1))
      /\ frame' = [frame EXCEPT ![Entry(Start)] = "none"]
  BY RxEntryUnread
<1>2. PICK u \in 1..NUM_RX_DESC : Unread(u) /\ Unread(u - 1)'
  BY RxEntryUnread
<1>3. nic' = nic /\ Orderly /\ Orderly'
  BY DEF RxEntry, RxReuse, RxCopy, RxHandUp, AtEntry, Orderly
<1>4. Start' \in Nat
  BY SizeInNat DEF IInv, Indices, Start
<1>5. u \in Nat /\ u \in 0..NUM_RX_DESC /\ u - 1 \in 0..NUM_RX_DESC
  BY SizeInNat
<1>6. /\ frame \in [Slots -> Kinds \cup {"none"}]
      /\ frame' \in [Slots -> Kinds \cup {"none"}]
  BY DEF FInv, Kinds
<1>7. /\ Frames = [i \in 1..u |-> frame[Entry(Start + (i - 1))]]
      /\ Frames \in Seq(Kinds) /\ Len(Frames) = u
  BY <1>1, <1>2, <1>3, <1>5, <1>6, FramesUnread DEF FramesAreUnread
<1>8. Frames' = [i \in 1..(u - 1) |-> frame'[Entry(Start' + (i - 1))]]
  BY <1>2, <1>3, <1>4, <1>5, <1>6, FramesUnreadNext DEF FramesAreUnread
<1>9. Frames # <<>> /\ Tail(Frames) = [i \in 1..(u - 1) |-> Frames[i + 1]]
  BY <1>5, <1>7
<1>10. ASSUME NEW i \in 1..(u - 1)
       PROVE  frame'[Entry(Start' + (i - 1))] = Frames[i + 1]
  <2>1. /\ i - 1 \in Nat /\ (i - 1) + 1 = i /\ (i + 1) - 1 = i
        /\ i \in Slots /\ 0 \in Slots /\ i # 0 /\ i + 1 \in 1..u /\ Start + i \in Nat
    BY <1>1, <1>5, SizeInNat DEF Slots
  <2>2. Entry(Start' + (i - 1)) = Entry(Start + i)
    BY <1>1, <2>1
  <2>3. Entry(Start + i) # Entry(Start) /\ Entry(Start + i) \in Slots
    <3>1. Entry(Start + i) # Entry(Start + 0)
      BY <1>1, <2>1, Apart
    <3>2. Start + 0 = Start
      BY <1>1
    <3>3. QED
      BY <2>1, <3>1, <3>2, EntryInRing
  <2>4. frame'[Entry(Start + i)] = frame[Entry(Start + i)]
    BY <1>1, <1>6, <2>3
  <2>5. QED
    BY <1>7, <2>1, <2>2, <2>4
<1>11. Frames' = Tail(Frames)
  BY <1>8, <1>9, <1>10
<1>12. QED
  BY <1>3, <1>9, <1>11 DEF Queue!Take

\* A ring without frames is an empty queue.
EmptyWithoutFrames == (\A e \in Slots : frame[e] = "none") => Frames = <<>>

LEMMA NoFrames == EmptyWithoutFrames
<1>1. SUFFICES ASSUME \A e \in Slots : frame[e] = "none" PROVE Frames = <<>>
  BY DEF EmptyWithoutFrames
<1>2. Written = {}
  BY <1>1 DEF Written
<1>3. Cardinality(Written) = 0
  BY <1>2, FS_EmptySet
<1>4. QED
  BY <1>3 DEF Frames

LEMMA NoFramesNext == EmptyWithoutFrames'
BY NoFrames, PTL

LEMMA SameFrames == frame' = frame /\ Start' = Start /\ Orderly' = Orderly => Frames' = Frames
BY DEF Frames, Written

\* Every other step leaves the queue alone, switches it on or off, or is the
\* FIFO workaround, which empties it.
LEMMA RestSteps ==
    ASSUME ~ResetFails, IInv, BInv, FInv,
           \/ NicNoDescriptor \/ Interrupt \/ PhyChange \/ LinkUp \/ TxTimeout
           \/ PollBegin \/ TaskBegin \/ RxEnds \/ Races
           \/ \E ok \in BOOLEAN : LinkDown(ok) \/ EsdTimer(ok) \/ FifoOver(ok)
    PROVE  \/ [Queue!QNext]_Queue!qvars
           \/ (\E ok \in BOOLEAN : FifoOver(ok)) /\ Frames' = <<>>
<1> nic \in NicStates
  BY DEF BInv, Shapes
<1>1. CASE NicNoDescriptor \/ Interrupt \/ PhyChange \/ PollBegin \/ TaskBegin \/ PollDone
  <2>1. /\ UNCHANGED <<cur_rx, frame>> /\ nic'.on = nic.on /\ Start' = Start
        /\ Orderly' = Orderly
    <3>1. CASE NicNoDescriptor \/ Interrupt \/ PhyChange
      <4>1. UNCHANGED <<cur_rx, frame, rpc, rcur>> /\ nic'.on = nic.on
        BY <3>1 DEF NicNoDescriptor, Interrupt, PhyChange, ring, rx, NicStates
      <4>2. QED
        BY <4>1 DEF Start, Outside, Orderly
    <3>2. CASE PollBegin \/ TaskBegin \/ PollDone
      <4>1. UNCHANGED <<cur_rx, frame>> /\ nic'.on = nic.on
        BY <3>2 DEF PollBegin, TaskBegin, PollDone, ring, NicStates
      <4>2. Start' = Start
        BY <3>2 DEF PollBegin, TaskBegin, PollDone, ring, Start, Outside
      <4>3. Orderly' = Orderly
        BY <3>2 DEF PollBegin, TaskBegin, PollDone, Orderly
      <4>4. QED
        BY <4>1, <4>2, <4>3
    <3>3. QED
      BY <1>1, <3>1, <3>2
  <2>2. QED
    BY <2>1, SameFrames DEF Queue!qvars
<1>2. CASE LinkUp
  <2>1. /\ nic'.on = TRUE
        /\ UNCHANGED <<cur_rx, frame, rpc, rcur>> /\ ~task /\ ~carrier
    BY <1>2, ResetNicType DEF LinkUp, ring, rx
  <2>2. ~nic.on /\ Frames = <<>>
    BY <2>1, NoFrames DEF FInv, Device, Renewed, EmptyWithoutFrames
  <2>3. Frames' = Frames
    BY <2>1, SameFrames DEF Start, Outside, Orderly
  <2>4. QED
    BY <2>1, <2>2, <2>3 DEF Queue!QNext, Queue!SwitchOn
<1>3. CASE TxTimeout
  <2>1. nic'.on = FALSE /\ Start' = Start /\ frame' = frame /\ Orderly' = Orderly
    BY <1>3, ResetNicType DEF TxTimeout, ring, rx, Start, Outside, Orderly
  <2>2. QED
    BY <2>1, SameFrames DEF Queue!QNext, Queue!SwitchOff
<1>4. ASSUME NEW delta \in 0..ToFill, PollEnd(delta) \/ TaskShort(delta)
      PROVE  UNCHANGED Queue!qvars
  <2>1. /\ frame' = frame /\ nic' = nic /\ cur_rx' = rcur
        /\ rpc \in {"poll", "task"} /\ rpc' \in {"idle", "done"}
    BY <1>4 DEF PollEnd, TaskShort, RxFill, RxReturn
  <2>2. Start' = Start /\ Orderly' = Orderly
    BY <2>1 DEF Start, Outside, Orderly
  <2>3. QED
    BY <2>1, <2>2, SameFrames DEF Queue!qvars
<1>5. CASE Races \/ \E ok \in BOOLEAN : TaskEnd(ok) \/ LinkDown(ok) \/ EsdTimer(ok)
  <2>1. frame' = [e \in Slots |-> "none"]
    BY <1>5 DEF TaskEnd, LinkDown, EsdTimer, Races, RenewRing
  <2>2. nic'.on = FALSE
    <3>1. CASE \E ok \in BOOLEAN : TaskEnd(ok)
      <4>1. rpc = "task" /\ nic' = nic
        BY <3>1 DEF TaskEnd
      <4>2. QED
        BY <4>1 DEF FInv, Device, NicStates
    <3>2. CASE Races \/ \E ok \in BOOLEAN : LinkDown(ok) \/ EsdTimer(ok)
      BY <3>2, ResetNicType DEF LinkDown, EsdTimer, Races
    <3>3. QED
      BY <1>5, <3>1, <3>2
  <2>3. QED
    BY <2>1, <2>2, NoFramesNext DEF EmptyWithoutFrames, Queue!QNext, Queue!SwitchOff
<1>6. CASE \E ok \in BOOLEAN : FifoOver(ok)
  <2>1. frame' = [e \in Slots |-> "none"]
    BY <1>6 DEF FifoOver, RenewRing
  <2>2. QED
    BY <1>6, <2>1, NoFramesNext DEF EmptyWithoutFrames
<1>7. QED
  BY <1>1, <1>2, <1>3, <1>4, <1>5, <1>6 DEF RxEnds

\* The receive ring is a bounded queue, for every ring size, width of the
\* indices and budget, as long as init_ring finds memory and up to a race for
\* the ring: frames are read in the order of their arrival, once, and lost only
\* where the NIC is off or by the FIFO workaround.
THEOREM ReadInOrderCorrect ==
    ASSUME ~ResetFails
    PROVE  Spec => ReadInOrder
<1>1. Init => Queue!QInit
  BY NoFrames DEF EmptyWithoutFrames, Init, Queue!QInit
<1>2. /\ IInv /\ BInv /\ FInv /\ (IInv /\ BInv /\ FInv)' /\ [Next]_vars
      => [\/ Queue!QNext
          \/ (\E ok \in BOOLEAN : FifoOver(ok)) /\ Frames' = <<>>]_(Queue!qvars)
  <2>1. SUFFICES ASSUME IInv, BInv, FInv, IInv', FInv', [Next]_vars
                 PROVE  \/ [Queue!QNext]_Queue!qvars
                        \/ (\E ok \in BOOLEAN : FifoOver(ok)) /\ Frames' = <<>>
    OBVIOUS
  <2>2. CASE UNCHANGED vars
    BY <2>2, SameFrames DEF vars, ring, rx, Start, Outside, Orderly, Queue!qvars
  <2>3. ASSUME NEW kind \in Kinds, NicReceive(kind) PROVE [Queue!QNext]_Queue!qvars
    <3>1. CASE Orderly
      BY <2>1, <2>3, <3>1, NicReceivePuts DEF Kinds, Queue!QNext
    <3>2. CASE ~Orderly
      <4>1. rpc' = rpc /\ nic'.on = nic.on
        BY <2>1, <2>3 DEF NicReceive, rx, BInv, Shapes, NicStates
      <4>2. Frames = <<>> /\ Frames' = <<>>
        BY <3>2, <4>1 DEF Frames, Orderly
      <4>3. QED
        BY <4>1, <4>2 DEF Queue!qvars
    <3>3. QED
      BY <3>1, <3>2
  <2>4. CASE RxEntry
    BY <2>1, <2>4, RxEntryTakes DEF Queue!QNext
  <2>5. QED
    BY <2>1, <2>2, <2>3, <2>4, RestSteps DEF Next, Kinds
<1>3. QED
  BY <1>1, <1>2, FramesInvariance, PTL DEF Spec, ReadInOrder

=============================================================================
