---------------------------- MODULE R8168Tx_proofs ----------------------------
(***************************************************************************)
(* The transmit ring for every ring size and every width of the indices,   *)
(* provided that no packet has MAX_SKB_FRAGS fragments; late polls and     *)
(* late calls of start_xmit are included.  First the indices alone: the    *)
(* ring is never full while its queue is awake.  Then, where no reset task *)
(* is overtaken, its contents: packets are freed once, handed to the NIC   *)
(* as a whole, where the NIC looks for them and in the order of the calls. *)
(* All of it while the ring is Orderly.                                    *)
(***************************************************************************)
EXTENDS R8168Tx, RingArithmetic, FiniteSetTheorems, SequenceTheorems, TLAPS

\* What the result rests on.  The run R8168Tx_full has a packet with
\* MAX_SKB_FRAGS fragments, and there the ring does fill up.
SmallPackets ==
    /\ \A n \in NrFrags : n < MAX_SKB_FRAGS
    /\ Padding => 1 < MAX_SKB_FRAGS

NicStates == [on : BOOLEAN, at : Slots, polling : BOOLEAN, irq : BOOLEAN,
              inside : BOOLEAN, broken : BOOLEAN, crowded : BOOLEAN]

States ==
    /\ xpc \in {"idle", "called", "frags", "head", "stop", "lost"}
    /\ queue \in {"awake", "stopped"}
    /\ nic \in NicStates

Indices ==
    /\ cur_tx \in 0..(Modulus - 1)
    /\ dirty_tx \in 0..(Modulus - 1)
    /\ xn \in Nat

\* There is a free descriptor; an awake queue has room for a packet, and a
\* packet under way still has it, from the call of start_xmit on.
Room ==
    /\ Outstanding <= NUM_TX_DESC - 1
    /\ (queue = "awake" /\ xpc = "idle") \/ xpc = "called"
         => Outstanding <= NUM_TX_DESC - 1 - MAX_SKB_FRAGS
    /\ xpc \in {"frags", "head"} => /\ xn + 1 <= MAX_SKB_FRAGS
                                    /\ Outstanding <= NUM_TX_DESC - 1 - MAX_SKB_FRAGS

IInv == States /\ Indices /\ Room

\* u32 arithmetic on the indices.
LEMMA WrapFacts ==
    ASSUME Indices
    PROVE  /\ Outstanding \in 0..(Modulus - 1)
           /\ cur_tx = dirty_tx <=> Outstanding = 0
           /\ Outstanding <= NUM_TX_DESC - 1 =>
                 TX_BUFFS_AVAIL = NUM_TX_DESC - 1 - Outstanding
BY RingAssumption DEF Indices, Outstanding, TX_BUFFS_AVAIL, Wrap

LEMMA Posting ==
    ASSUME Indices, Outstanding + xn + 1 <= NUM_TX_DESC - 1
    PROVE  /\ Wrap(cur_tx + xn + 1) \in 0..(Modulus - 1)
           /\ Wrap(Wrap(cur_tx + xn + 1) - dirty_tx) = Outstanding + xn + 1
BY RingAssumption DEF Indices, Outstanding, Wrap

LEMMA Reaping ==
    ASSUME Indices, Outstanding <= NUM_TX_DESC - 1, NEW k \in 0..Outstanding
    PROVE  /\ Wrap(dirty_tx + k) \in 0..(Modulus - 1)
           /\ Wrap(cur_tx - Wrap(dirty_tx + k)) = Outstanding - k
           /\ Wrap(Wrap(dirty_tx + k) + NUM_TX_DESC - cur_tx - 1)
                = NUM_TX_DESC - 1 - (Outstanding - k)
           /\ cur_tx = dirty_tx => k = 0
BY RingAssumption DEF Indices, Outstanding, Wrap

LEMMA EntryInRing ==
    ASSUME NEW x \in Nat
    PROVE  Entry(x) \in Slots
BY RingAssumption DEF Entry, Slots

-----------------------------------------------------------------------------
\* The control state and the NIC.
LEMMA ResetNicType ==
    ASSUME States
    PROVE  /\ ResetNic \in NicStates /\ StartedNic \in NicStates
           /\ ResetNic.on = FALSE /\ ResetNic.at = 0 /\ ResetNic.inside = FALSE
           /\ ResetNic.broken = nic.broken /\ ResetNic.crowded = nic.crowded
           /\ StartedNic.on = TRUE /\ StartedNic.at = 0 /\ StartedNic.inside = FALSE
           /\ StartedNic.broken = nic.broken /\ StartedNic.crowded = nic.crowded
<1>1. 0 \in Slots
  BY RingAssumption DEF Slots
<1>2. nic.broken \in BOOLEAN /\ nic.crowded \in BOOLEAN
  BY DEF States, NicStates
<1>3. ResetNic \in NicStates
  BY <1>1, <1>2 DEF ResetNic, NicStates
<1>4. StartedNic \in NicStates
  BY <1>3 DEF StartedNic, NicStates
<1>5. QED
  BY <1>3, <1>4 DEF ResetNic, StartedNic

\* What a step of the NIC, of the handler or of the poll does to the NIC.
LEMMA NicSendEffect ==
    ASSUME States, NicSend
    PROVE  /\ nic' \in NicStates
           /\ nic'.on = nic.on /\ nic'.at = Entry(nic.at + 1)
           /\ nic'.inside <=> desc[nic.at] \in {"first", "mid"}
           /\ nic'.broken <=> \/ nic.broken
                              \/ nic.inside # (desc[nic.at] \in {"mid", "last"})
                              \/ desc[nic.at] = "none"
           /\ nic'.crowded = nic.crowded
<1> DEFINE d == desc[nic.at]
           i == d \in {"first", "mid"}
           b == nic.broken \/ (nic.inside # (d \in {"mid", "last"})) \/ d = "none"
<1>1. i \in BOOLEAN /\ b \in BOOLEAN
  OBVIOUS
<1>2. nic' = [nic EXCEPT !.at = Entry(nic.at + 1), !.irq = TRUE, !.inside = i, !.broken = b]
  BY DEF NicSend, States, NicStates
<1>3. Entry(nic.at + 1) \in Slots
  <2>1. nic.at + 1 \in Nat
    BY RingAssumption DEF States, NicStates, Slots
  <2>2. QED
    BY <2>1, EntryInRing
<1> HIDE DEF i, b
<1>4. nic' \in NicStates /\ nic'.on = nic.on /\ nic'.at = Entry(nic.at + 1)
      /\ nic'.inside = i /\ nic'.broken = b /\ nic'.crowded = nic.crowded
  BY <1>1, <1>2, <1>3 DEF States, NicStates
<1>5. QED
  BY <1>4 DEF i, b

\* Steps that do not move the NIC or turn it on or off.
LEMMA NicEffect ==
    ASSUME States, XmitHead \/ NicSleep \/ Interrupt \/ Poll \/ ResetTask \/ ResetTaskShort
    PROVE  /\ nic' \in NicStates
           /\ nic'.on = nic.on /\ nic'.at = nic.at /\ nic'.inside = nic.inside
           /\ nic'.broken = nic.broken /\ nic'.crowded = nic.crowded
<1>1. \E p \in BOOLEAN, q \in BOOLEAN : nic' = [nic EXCEPT !.polling = p, !.irq = q]
  <2>1. CASE XmitHead \/ NicSleep
    <3>1. nic' = [nic EXCEPT !.polling = IF XmitHead THEN nic.on ELSE FALSE, !.irq = nic.irq]
      BY <2>1 DEF XmitHead, NicSleep, States, NicStates
    <3>2. nic.on \in BOOLEAN /\ nic.irq \in BOOLEAN
      BY DEF States, NicStates
    <3>3. QED
      BY <3>1, <3>2
  <2>2. CASE Interrupt \/ ResetTask \/ ResetTaskShort
    <3>1. nic' = [nic EXCEPT !.polling = nic.polling, !.irq = FALSE]
      BY <2>2 DEF Interrupt, ResetTask, ResetTaskShort, States, NicStates
    <3>2. nic.polling \in BOOLEAN
      BY DEF States, NicStates
    <3>3. QED
      BY <3>1, <3>2
  <2>3. CASE Poll
    <3>1. PICK k \in 0..Outstanding :
             nic' = [nic EXCEPT !.polling = @ \/ (nic.on /\ k > 0 /\ cur_tx # dirty_tx')]
      BY <2>3 DEF Poll
    <3> DEFINE p == nic.polling \/ (nic.on /\ k > 0 /\ cur_tx # dirty_tx')
    <3>2. p \in BOOLEAN /\ nic.irq \in BOOLEAN
      BY DEF States, NicStates
    <3>3. nic' = [nic EXCEPT !.polling = p, !.irq = nic.irq]
      BY <3>1 DEF States, NicStates
    <3> HIDE DEF p
    <3>4. QED
      BY <3>2, <3>3
  <2>4. QED
    BY <2>1, <2>2, <2>3
<1>2. QED
  BY <1>1 DEF States, NicStates

\* The link timer notes whether it finds room.
LEMMA LinkUpEffect ==
    ASSUME States, LinkUp
    PROVE  /\ nic' \in NicStates
           /\ nic'.on = TRUE /\ nic'.at = 0 /\ nic'.inside = FALSE /\ nic'.broken = nic.broken
           /\ nic'.crowded <=> nic.crowded \/ TX_BUFFS_AVAIL < MAX_SKB_FRAGS
<1> DEFINE c == nic.crowded \/ TX_BUFFS_AVAIL < MAX_SKB_FRAGS
<1>1. c \in BOOLEAN
  OBVIOUS
<1>2. nic' = [StartedNic EXCEPT !.crowded = c]
  BY ResetNicType DEF LinkUp, StartedNic, ResetNic
<1> HIDE DEF c
<1>3. nic' \in NicStates /\ nic'.on = TRUE /\ nic'.at = 0 /\ nic'.inside = FALSE
      /\ nic'.broken = nic.broken /\ nic'.crowded = c
  BY <1>1, <1>2, ResetNicType DEF NicStates
<1>4. QED
  BY <1>3 DEF c

\* A ring that is not orderly stays so.
LEMMA StatesKept ==
    ASSUME States, [Next]_vars
    PROVE  States' /\ (Orderly' => Orderly)
<1>1. CASE Call \/ XmitEnter \/ XmitFrags \/ XmitStop \/ PhyChange \/ ResetTaskReturn \/ Open
  <2>1. nic' = nic
    BY <1>1 DEF Call, XmitEnter, XmitBusy, Xmit, XmitFrags, XmitStop, PhyChange,
                ResetTaskReturn, Open
  <2>2. /\ xpc' \in {"idle", "called", "frags", "head", "stop", "lost"}
        /\ xpc = "lost" => xpc' = "lost"
    BY <1>1 DEF Call, XmitEnter, XmitBusy, Xmit, XmitFrags, XmitStop, PhyChange,
                ResetTaskReturn, Open, xmit, States
  <2>3. queue' \in {"awake", "stopped"}
    BY <1>1 DEF Call, XmitEnter, XmitBusy, Xmit, XmitFrags, XmitStop, PhyChange,
                ResetTaskReturn, Open, dev, States
  <2>4. QED
    BY <2>1, <2>2, <2>3 DEF States, Orderly
<1>2. CASE XmitHead \/ NicSleep \/ Interrupt \/ Poll \/ ResetTask \/ ResetTaskShort
  <2>1. nic' \in NicStates /\ nic'.crowded = nic.crowded
    BY <1>2, NicEffect
  <2>2. /\ xpc' \in {"idle", "called", "frags", "head", "stop", "lost"}
        /\ xpc = "lost" => xpc' = "lost"
    BY <1>2 DEF XmitHead, NicSleep, Interrupt, Poll, ResetTask, ResetTaskShort, xmit, States
  <2>3. queue' \in {"awake", "stopped"}
    BY <1>2 DEF XmitHead, NicSleep, Interrupt, Poll, ResetTask, ResetTaskShort, dev, States
  <2>4. QED
    BY <2>1, <2>2, <2>3 DEF States, Orderly
<1>3. CASE NicSend
  <2>1. nic' \in NicStates /\ nic'.crowded = nic.crowded
    BY <1>3, NicSendEffect
  <2>2. xpc' = xpc /\ queue' = queue
    BY <1>3 DEF NicSend, xmit, dev
  <2>3. QED
    BY <2>1, <2>2 DEF States, Orderly
<1>4. CASE LinkUp
  <2>1. nic' \in NicStates /\ (nic.crowded => nic'.crowded)
    BY <1>4, LinkUpEffect
  <2>2. xpc' = xpc /\ queue' = "awake"
    BY <1>4 DEF LinkUp, xmit
  <2>3. QED
    BY <2>1, <2>2 DEF States, Orderly
<1>5. CASE LinkDown \/ EsdTimer \/ TxTimeout \/ FifoOver \/ FifoRaces \/ Down
  <2>1. nic' = ResetNic \/ nic' = StartedNic
    BY <1>5 DEF LinkDown, EsdTimer, TxTimeout, FifoOver, FifoRaces, Down
  <2>2. xpc' = xpc \/ xpc' = "lost"
    BY <1>5 DEF LinkDown, EsdTimer, TxTimeout, FifoOver, FifoRaces, Down, xmit
  <2>3. queue' \in {"awake", "stopped"}
    BY <1>5 DEF LinkDown, EsdTimer, TxTimeout, FifoOver, FifoRaces, Down, dev, States
  <2>4. QED
    BY <2>1, <2>2, <2>3, ResetNicType DEF States, Orderly
<1>6. CASE UNCHANGED vars
  BY <1>6 DEF vars, xmit, dev, States, Orderly
<1>7. QED
  BY <1>1, <1>2, <1>3, <1>4, <1>5, <1>6 DEF Next, XmitStep, ResetStep

-----------------------------------------------------------------------------
\* A renewed ring is empty.
LEMMA Emptied ==
    ASSUME IInv, cur_tx' = 0, dirty_tx' = 0, xn' = xn, xpc' = xpc
    PROVE  Indices' /\ Room'
<1>1. Indices'
  BY RingAssumption DEF IInv, Indices
<1>2. Outstanding' = 0
  BY RingAssumption DEF Outstanding, Wrap
<1>3. xpc' \in {"frags", "head"} => xn' + 1 <= MAX_SKB_FRAGS
  BY DEF IInv, Room
<1>4. 0 <= NUM_TX_DESC - 1 /\ 0 <= NUM_TX_DESC - 1 - MAX_SKB_FRAGS
  BY RingAssumption
<1>5. QED
  BY <1>1, <1>2, <1>3, <1>4 DEF Room

LEMMA XmitStepKeeps ==
    ASSUME SmallPackets, IInv, Call \/ XmitEnter \/ XmitStep
    PROVE  Indices' /\ Room'
<1> USE DEF IInv
<1>1. CASE Call
  BY <1>1 DEF Call, Indices, Room, Outstanding, ring, dev
<1>2. ASSUME NEW n \in NrFrags, XmitBusy(n) PROVE Indices' /\ Room'
  BY <1>2 DEF XmitBusy, Indices, Room, Outstanding, ring
<1>3. ASSUME NEW n \in NrFrags, NEW short \in BOOLEAN, Xmit(n, short) PROVE Indices' /\ Room'
  <2>1. n \in Nat /\ n + 1 <= MAX_SKB_FRAGS
    BY PacketAssumption, RingAssumption DEF SmallPackets
  <2>2. xn' \in Nat /\ xn' + 1 <= MAX_SKB_FRAGS
    BY <1>3, <2>1, RingAssumption, FlagsAssumption DEF Xmit, SmallPackets
  <2>3. xpc = "called" /\ xpc' = "frags" /\ UNCHANGED <<cur_tx, dirty_tx>>
    BY <1>3 DEF Xmit
  <2>4. QED
    BY <2>2, <2>3 DEF Indices, Room, Outstanding
<1>4. CASE XmitFrags
  BY <1>4 DEF XmitFrags, Indices, Room, Outstanding, dev
<1>5. CASE XmitHead
  <2>1. Outstanding + xn + 1 <= NUM_TX_DESC - 1
    BY <1>5, WrapFacts, RingAssumption DEF XmitHead, Room, Indices
  <2>2. Indices' /\ Outstanding' = Outstanding + xn + 1
    BY <1>5, <2>1, Posting DEF XmitHead, Indices, Outstanding
  <2>3. xpc' = "stop"
    BY <1>5 DEF XmitHead
  <2>4. QED
    BY <2>1, <2>2, <2>3 DEF Room
<1>6. CASE XmitStop
  <2>1. UNCHANGED <<cur_tx, dirty_tx>>
    BY <1>6 DEF XmitStop, ring
  <2>2. xpc' = "idle" /\ xn' = 0
    BY <1>6 DEF XmitStop
  <2>3. queue' = IF TX_BUFFS_AVAIL < MAX_SKB_FRAGS THEN "stopped" ELSE queue
    BY <1>6 DEF XmitStop
  <2>4. Outstanding' = Outstanding
    BY <2>1 DEF Outstanding
  <2>5. QED
    BY <2>1, <2>2, <2>3, <2>4, WrapFacts, RingAssumption DEF Room, States, Indices
<1>7. QED
  BY <1>1, <1>2, <1>3, <1>4, <1>5, <1>6 DEF XmitStep, XmitEnter

LEMMA PollKeeps ==
    ASSUME IInv, Poll
    PROVE  Indices' /\ Room'
<1> USE DEF IInv
<1>1. PICK k \in 0..Outstanding :
         /\ dirty_tx' = Wrap(dirty_tx + k)
         /\ queue' = IF k > 0 /\ Wake THEN "awake" ELSE queue
  BY DEF Poll
<1>2. UNCHANGED <<cur_tx, xpc, xn>> /\ xpc \in {"idle", "called"}
  BY DEF Poll, xmit, Unlocked
<1>3. Indices' /\ Outstanding' = Outstanding - k
  BY <1>1, <1>2, Reaping DEF Room, Indices, Outstanding
<1>4. Wake <=> NUM_TX_DESC - 1 - (Outstanding - k) >= MAX_SKB_FRAGS
  BY <1>1, Reaping DEF Wake, Room
<1>5. Outstanding \in Nat /\ k \in Nat /\ k <= Outstanding
  BY WrapFacts
<1>6. Room'
  BY <1>1, <1>2, <1>3, <1>4, <1>5, RingAssumption DEF Room
<1>7. QED
  BY <1>3, <1>6

LEMMA DeviceStepKeeps ==
    ASSUME IInv, Orderly',
           \/ NicSend \/ NicSleep \/ Interrupt
           \/ PhyChange \/ LinkUp \/ LinkDown \/ EsdTimer
           \/ TxTimeout \/ ResetStep \/ FifoOver \/ FifoRaces \/ Down \/ Open
    PROVE  Indices' /\ Room'
<1>1. CASE NicSend \/ NicSleep \/ Interrupt \/ PhyChange \/ TxTimeout \/ ResetTaskReturn
  <2>1. UNCHANGED <<cur_tx, dirty_tx, xpc, xn, queue>>
    BY <1>1 DEF NicSend, NicSleep, Interrupt, PhyChange, TxTimeout, ResetTaskReturn,
                ring, xmit, dev
  <2>2. QED
    BY <2>1 DEF IInv, Indices, Room, Outstanding
<1>2. CASE LinkUp
  <2>1. ~(TX_BUFFS_AVAIL < MAX_SKB_FRAGS)
    BY <1>2, LinkUpEffect DEF IInv, Orderly
  <2>2. UNCHANGED <<cur_tx, dirty_tx, xpc, xn>> /\ xpc \in {"idle", "called"}
    BY <1>2 DEF LinkUp, ring, xmit, Unlocked
  <2>3. Outstanding <= NUM_TX_DESC - 1 - MAX_SKB_FRAGS
    BY <2>1, WrapFacts, RingAssumption DEF IInv, Room
  <2>4. Outstanding' = Outstanding
    BY <2>2 DEF Outstanding
  <2>5. QED
    BY <2>2, <2>3, <2>4, WrapFacts, RingAssumption DEF IInv, Indices, Room
<1>3. CASE \/ LinkDown \/ EsdTimer \/ ResetTask \/ ResetTaskShort
           \/ FifoOver \/ Down \/ Open
  <2>1. cur_tx' = 0 /\ dirty_tx' = 0 /\ xn' = xn /\ xpc' = xpc
    BY <1>3 DEF LinkDown, EsdTimer, ResetTask, ResetTaskShort, FifoOver, Down, Open,
                RenewRing, TxClear, xmit
  <2>2. QED
    BY <2>1, Emptied
<1>4. CASE FifoRaces
  BY <1>4 DEF FifoRaces, Orderly
<1>5. QED
  BY <1>1, <1>2, <1>3, <1>4 DEF ResetStep

\* The inductive invariant of the indices.  An awake queue alone is not enough
\* for the induction: the room must outlast the call of start_xmit and its
\* steps, whoever stops the queue meanwhile.
THEOREM Invariance ==
    ASSUME SmallPackets
    PROVE  Spec => [](States /\ (Orderly => IInv))
<1>1. Init => IInv
  BY RingAssumption
     DEF Init, IInv, Indices, States, NicStates, Room, Outstanding, Wrap, Slots
<1>2. States /\ (Orderly => IInv) /\ [Next]_vars => (States /\ (Orderly => IInv))'
  <2>1. SUFFICES ASSUME States, Orderly => IInv, [Next]_vars, Orderly'
                 PROVE  Indices' /\ Room'
    BY StatesKept DEF IInv
  <2>2. IInv
    BY <2>1, StatesKept
  <2>3. CASE UNCHANGED vars
    BY <2>2, <2>3 DEF vars, ring, xmit, dev, IInv, Indices, Room, Outstanding
  <2>4. CASE Next
    BY <2>1, <2>2, <2>4, XmitStepKeeps, PollKeeps, DeviceStepKeeps DEF Next
  <2>5. QED
    BY <2>1, <2>3, <2>4
<1>3. QED
  BY <1>1, <1>2, PTL DEF Spec, IInv

\* The Tx ring is never full when the queue is awake or start_xmit is called,
\* timers on other cpus, polls after a timeout and overtaken tasks included,
\* up to a wake-up by the link timer over a ring without room.
THEOREM AwakeHasRoomCorrect ==
    ASSUME SmallPackets
    PROVE  Spec => []AwakeHasRoom
<1>1. (Orderly => IInv) => AwakeHasRoom
  BY RingAssumption, WrapFacts DEF IInv, Room, AwakeHasRoom
<1>2. QED
  BY <1>1, Invariance, PTL

-----------------------------------------------------------------------------
(***************************************************************************)
(* The contents of the ring.  Descriptors are named by their distance from *)
(* dirty_tx: first those the NIC has sent, then those it has still to      *)
(* send, up to Outstanding, and then the free ones, of which start_xmit    *)
(* may already have posted the further descriptors of its packet.          *)
(***************************************************************************)

Pos(i) == Entry(dirty_tx + i)

Posted(i) == xpc = "head" /\ Outstanding < i /\ i <= Outstanding + xn

\* The packet goes on after a descriptor, or comes from the one before it.
Goes(d) == d \in {"first", "mid"}
Comes(d) == d \in {"mid", "last"}

Descriptors(sent) == \A i \in Slots :
    /\ own[Pos(i)] <=> (sent <= i /\ i < Outstanding) \/ Posted(i)
    /\ Posted(i) => desc[Pos(i)] = IF i = Outstanding + xn THEN "last" ELSE "mid"

\* Only whole packets are outstanding.
Packets == \A i \in Slots : i < Outstanding =>
    /\ desc[Pos(i)] # "none"
    /\ Goes(desc[Pos(i)]) <=> i + 1 < Outstanding /\ Comes(desc[Pos(i + 1)])

Sending(sent) ==
    /\ nic.at = Pos(sent)
    /\ nic.inside <=> sent < Outstanding /\ Comes(desc[Pos(sent)])

\* A ring that waits for the reset task, or for rtl8168_open, is renewed before
\* the NIC sees it again; any other is in step with the NIC, on or off.
InUse == running /\ ~task

Ring == InUse => /\ Packets
                 /\ \E sent \in 0..Outstanding : Descriptors(sent) /\ Sending(sent)

\* No packet is in a descriptor that start_xmit may take.
Frees == \A i \in Slots : i >= Outstanding =>
    (skb[Pos(i)] <=> Posted(i) /\ i = Outstanding + xn /\ ~xpad)

\* start_xmit works on the descriptor at cur_tx.
Heads == xpc \in {"frags", "head"} => xe = Entry(cur_tx) /\ (xpad => xn = 1)

Exact == held = Cardinality({e \in Slots : skb[e]})
                + IF xpc = "frags" \/ (xpc = "head" /\ (xn = 0 \/ xpad)) THEN 1 ELSE 0

DescKinds == {"none", "only", "first", "mid", "last"}

Shapes ==
    /\ own \in [Slots -> BOOLEAN] /\ len \in [Slots -> BOOLEAN] /\ skb \in [Slots -> BOOLEAN]
    /\ desc \in [Slots -> DescKinds]
    /\ xpad \in BOOLEAN

\* A NIC that is off stands at the start of the ring.
Device ==
    /\ nic.on => carrier /\ InUse
    /\ ~nic.on => nic.at = 0 /\ ~nic.inside
    /\ ~running => xpc = "idle"

\* tx_clear passes over entries without a length: no packet is there.
Lengths == \A e \in Slots : skb[e] => len[e]

SInv == Shapes /\ Device /\ Lengths /\ Exact /\ ~nic.broken /\ Ring /\ Frees /\ Heads

LEMMA SizeInNat ==
    /\ NUM_TX_DESC \in Nat \ {0} /\ Modulus \in Nat /\ NUM_TX_DESC <= Modulus
    /\ MAX_SKB_FRAGS \in Nat /\ MAX_SKB_FRAGS < NUM_TX_DESC
BY RingAssumption

LEMMA Natural ==
    ASSUME IInv
    PROVE  /\ Outstanding \in Nat /\ Outstanding <= NUM_TX_DESC - 1
           /\ cur_tx \in Nat /\ dirty_tx \in Nat /\ xn \in Nat
BY WrapFacts, SizeInNat DEF IInv, Indices, Room

\* The same descriptor before and after the index wraps around.
LEMMA EntryOfWrap ==
    ASSUME NEW x \in 0..(2 * Modulus - 1), NEW j \in Nat
    PROVE  Entry(Wrap(x) + j) = Entry(x + j)
<1>1. CASE x < Modulus
  BY <1>1, RingAssumption DEF Wrap
<1>2. CASE x >= Modulus
  <2>1. Wrap(x) = x - Modulus
    BY <1>2, RingAssumption DEF Wrap
  <2>2. x - Modulus + j \in Nat /\ (x - Modulus + j) + Modulus = x + j
    BY <1>2, RingAssumption
  <2>3. ((x - Modulus + j) + Modulus) % NUM_TX_DESC = (x - Modulus + j) % NUM_TX_DESC
    BY <2>2, SizeInNat, RingAssumption, Shift
  <2>4. QED
    BY <2>1, <2>2, <2>3 DEF Entry
<1>3. QED
  BY <1>1, <1>2, RingAssumption

LEMMA PosInRing ==
    ASSUME IInv, NEW i \in Nat
    PROVE  Pos(i) \in Slots
<1>1. dirty_tx + i \in Nat
  BY Natural
<1>2. QED
  BY <1>1, EntryInRing DEF Pos

\* The descriptors of one turn are different.
LEMMA Apart ==
    ASSUME IInv, NEW i \in Slots, NEW j \in Slots, i # j
    PROVE  Pos(i) # Pos(j)
<1>1. /\ i \in 0..(NUM_TX_DESC - 1) /\ j \in 0..(NUM_TX_DESC - 1)
      /\ NUM_TX_DESC \in Nat \ {0} /\ dirty_tx \in Nat
  BY SizeInNat, Natural DEF Slots
<1>2. CASE i < j
  <2>1. /\ dirty_tx + i \in Nat /\ dirty_tx + j \in Nat
        /\ dirty_tx + i < dirty_tx + j /\ dirty_tx + j < dirty_tx + i + NUM_TX_DESC
    BY <1>1, <1>2
  <2>2. QED
    BY <1>1, <2>1, Distinct DEF Entry, Pos
<1>3. CASE j < i
  <2>1. /\ dirty_tx + i \in Nat /\ dirty_tx + j \in Nat
        /\ dirty_tx + j < dirty_tx + i /\ dirty_tx + i < dirty_tx + j + NUM_TX_DESC
    BY <1>1, <1>3
  <2>2. QED
    BY <1>1, <2>1, Distinct DEF Entry, Pos
<1>4. QED
  BY <1>1, <1>2, <1>3

\* cur_tx is Outstanding descriptors after dirty_tx.
LEMMA PosOfCur ==
    ASSUME IInv
    PROVE  /\ \A i \in Nat : Entry(cur_tx + i) = Pos(Outstanding + i)
           /\ Entry(cur_tx) = Pos(Outstanding)
<1>1. /\ dirty_tx + Outstanding \in 0..(2 * Modulus - 1)
      /\ Wrap(dirty_tx + Outstanding) = cur_tx
  BY RingAssumption DEF IInv, Indices, Outstanding, Wrap
<1>2. dirty_tx \in Nat /\ Outstanding \in Nat /\ cur_tx \in Nat
  BY Natural
<1>3. ASSUME NEW i \in Nat PROVE Entry(cur_tx + i) = Pos(Outstanding + i)
  <2>1. Entry(cur_tx + i) = Entry(dirty_tx + Outstanding + i)
    BY <1>1, EntryOfWrap
  <2>2. dirty_tx + Outstanding + i = dirty_tx + (Outstanding + i)
    BY <1>2
  <2>3. QED
    BY <2>1, <2>2 DEF Pos
<1>4. cur_tx + 0 = cur_tx /\ Outstanding + 0 = Outstanding
  BY <1>2
<1>5. QED
  BY <1>3, <1>4

LEMMA FiniteRing ==
    /\ IsFiniteSet(Slots)
    /\ \A S \in SUBSET Slots : IsFiniteSet(S) /\ Cardinality(S) \in Nat
<1>1. IsFiniteSet(Slots)
  BY SizeInNat, FS_Interval DEF Slots
<1>2. QED
  BY <1>1, FS_Subset, FS_CardinalityType

\* Steps that leave the ring alone.
LEMMA SameRing ==
    ASSUME UNCHANGED <<cur_tx, dirty_tx, own, desc, skb>>,
           xpc = "head" <=> xpc' = "head",
           xpc = "head" => UNCHANGED <<xn, xpad>>
    PROVE  /\ Frees => Frees'
           /\ Ring /\ (InUse' => InUse) /\ nic'.at = nic.at /\ nic'.inside = nic.inside => Ring'
<1>1. Outstanding' = Outstanding
  BY DEF Outstanding
<1>2. \A i : Pos(i)' = Pos(i)
  BY DEF Pos
<1>3. \A i \in Slots : Posted(i)' <=> Posted(i)
  BY <1>1 DEF Posted
<1>4. \A sent \in 0..Outstanding : Descriptors(sent) => Descriptors(sent)'
  BY <1>1, <1>2, <1>3 DEF Descriptors, Posted
<1>5. nic'.at = nic.at /\ nic'.inside = nic.inside =>
         \A sent \in 0..Outstanding : Sending(sent) => Sending(sent)'
  BY <1>1, <1>2 DEF Sending
<1>6. Packets => Packets'
  BY <1>1, <1>2 DEF Packets
<1>7. Frees => Frees'
  BY <1>1, <1>2, <1>3 DEF Frees, Posted
<1>8. QED
  BY <1>1, <1>4, <1>5, <1>6, <1>7 DEF Ring

\* start_xmit is called, is refused or ends, the NIC finds nothing to do, and
\* the handler schedules the poll.
LEMMA QuietSound ==
    ASSUME IInv, SInv,
           \/ Call \/ XmitEnter \/ XmitStop
           \/ NicSleep \/ Interrupt \/ PhyChange \/ ResetTaskReturn
    PROVE  SInv'
<1> USE DEF XmitEnter
<1>1. UNCHANGED <<cur_tx, dirty_tx, own, desc, len, skb, carrier, running>>
  BY DEF Call, XmitBusy, Xmit, XmitStop, NicSleep, Interrupt, PhyChange, ResetTaskReturn,
         ring, dev
<1>2. /\ nic'.on = nic.on /\ nic'.at = nic.at /\ nic'.inside = nic.inside
      /\ nic'.broken = nic.broken
  <2>1. CASE NicSleep \/ Interrupt
    BY <2>1, NicEffect DEF IInv
  <2>2. CASE Call \/ XmitEnter \/ XmitStop \/ PhyChange \/ ResetTaskReturn
    BY <2>2 DEF Call, XmitBusy, Xmit, XmitStop, PhyChange, ResetTaskReturn
  <2>3. QED
    BY <2>1, <2>2
<1>3. /\ xpc = "head" <=> xpc' = "head"
      /\ xpc = "head" => UNCHANGED <<xn, xpad>>
      /\ xpad' \in BOOLEAN
  BY DEF Call, XmitBusy, Xmit, XmitStop, NicSleep, Interrupt, PhyChange, ResetTaskReturn,
         xmit, SInv, Shapes
<1>4. ~running => xpc' = "idle"
  BY DEF Call, XmitBusy, Xmit, XmitStop, NicSleep, Interrupt, PhyChange, ResetTaskReturn,
         xmit, SInv, Device
<1>5. InUse' <=> InUse
  BY DEF Call, XmitBusy, Xmit, XmitStop, NicSleep, Interrupt, PhyChange, ResetTaskReturn,
         dev, InUse
<1>6. Shapes' /\ Device' /\ Lengths'
  BY <1>1, <1>2, <1>3, <1>4, <1>5 DEF SInv, Shapes, Device, Lengths
<1>7. Ring' /\ Frees'
  BY <1>1, <1>2, <1>3, <1>5, SameRing DEF SInv
<1>8. Heads'
  <2>1. CASE \E n \in NrFrags, short \in BOOLEAN : Xmit(n, short)
    BY <1>1, <2>1 DEF Xmit, Heads
  <2>2. CASE Call \/ XmitStop \/ \E n \in NrFrags : XmitBusy(n)
    BY <2>2 DEF Call, XmitStop, XmitBusy, Heads
  <2>3. CASE NicSleep \/ Interrupt \/ PhyChange \/ ResetTaskReturn
    <3>1. UNCHANGED <<xpc, xe, xn, xpad>>
      BY <2>3 DEF NicSleep, Interrupt, PhyChange, ResetTaskReturn, xmit
    <3>2. QED
      BY <1>1, <3>1 DEF SInv, Heads
  <2>4. QED
    BY <2>1, <2>2, <2>3
<1>9. Exact'
  <2> DEFINE n0 == Cardinality({e \in Slots : skb[e]})
  <2>1. n0' = n0 /\ n0 \in Nat
    <3>1. {e \in Slots : skb[e]} \in SUBSET Slots
      OBVIOUS
    <3>2. QED
      BY <1>1, <3>1, FiniteRing
  <2> HIDE DEF n0
  <2>2. held = n0 + IF xpc = "frags" \/ (xpc = "head" /\ (xn = 0 \/ xpad)) THEN 1 ELSE 0
    BY DEF SInv, Exact, n0
  <2>3. Exact' <=> held' = n0' + IF xpc' = "frags" \/ (xpc' = "head" /\ (xn' = 0 \/ xpad'))
                                 THEN 1 ELSE 0
    BY DEF Exact, n0
  <2>4. CASE \E n \in NrFrags, short \in BOOLEAN : Xmit(n, short)
    <3>1. xpc = "called" /\ xpc' = "frags" /\ held' = held + 1
      BY <2>4 DEF Xmit
    <3>2. held = n0 + 0
      BY <2>2, <3>1
    <3>3. QED
      BY <2>1, <2>3, <3>1, <3>2
  <2>5. CASE Call \/ XmitStop \/ \E n \in NrFrags : XmitBusy(n)
    <3>1. xpc \notin {"frags", "head"} /\ xpc' \notin {"frags", "head"} /\ held' = held
      BY <2>5 DEF Call, XmitStop, XmitBusy, ring
    <3>2. QED
      BY <2>1, <2>2, <2>3, <3>1
  <2>6. CASE NicSleep \/ Interrupt \/ PhyChange \/ ResetTaskReturn
    <3>1. UNCHANGED <<xpc, xn, xpad, held>>
      BY <2>6 DEF NicSleep, Interrupt, PhyChange, ResetTaskReturn, xmit, ring
    <3>2. QED
      BY <2>1, <2>2, <2>3, <3>1
  <2>7. QED
    BY <2>4, <2>5, <2>6
<1>10. QED
  BY <1>2, <1>6, <1>7, <1>8, <1>9 DEF SInv

\* The further descriptors of a packet: behind those that are outstanding, and
\* within the turn.
LEMMA FurtherPlaces ==
    ASSUME IInv, xpc \in {"frags", "head"}
    PROVE  /\ Outstanding + xn \in Slots
           /\ \A i \in Slots : Pos(i) \in Further <=> Outstanding < i /\ i <= Outstanding + xn
           /\ Entry(cur_tx + xn) = Pos(Outstanding + xn)
<1>1. /\ Outstanding \in Nat /\ xn \in Nat /\ Outstanding + xn <= NUM_TX_DESC - 1
      /\ NUM_TX_DESC \in Nat
  BY Natural, SizeInNat DEF IInv, Room
<1>2. Outstanding + xn \in Slots
  BY <1>1 DEF Slots
<1>3. \A j \in 1..xn : Entry(cur_tx + j) = Pos(Outstanding + j) /\ Outstanding + j \in Slots
  <2>1. \A j \in 1..xn : j \in Nat /\ Outstanding + j \in Slots
    BY <1>1 DEF Slots
  <2>2. QED
    BY <2>1, PosOfCur
<1>4. ASSUME NEW i \in Slots
      PROVE  Pos(i) \in Further <=> Outstanding < i /\ i <= Outstanding + xn
  <2>1. i \in Nat
    BY <1>1 DEF Slots
  <2>2. ASSUME Pos(i) \in Further PROVE Outstanding < i /\ i <= Outstanding + xn
    <3>1. PICK j \in 1..xn : Pos(i) = Entry(cur_tx + j)
      BY <2>2 DEF Further
    <3>2. Pos(i) = Pos(Outstanding + j) /\ Outstanding + j \in Slots
      BY <1>3, <3>1
    <3>3. i = Outstanding + j
      BY <3>2, Apart
    <3>4. QED
      BY <1>1, <3>3
  <2>3. ASSUME Outstanding < i, i <= Outstanding + xn PROVE Pos(i) \in Further
    <3>1. i - Outstanding \in 1..xn /\ Outstanding + (i - Outstanding) = i
      BY <1>1, <2>1, <2>3
    <3>2. Entry(cur_tx + (i - Outstanding)) = Pos(i)
      BY <1>3, <3>1
    <3>3. QED
      BY <3>1, <3>2 DEF Further
  <2>4. QED
    BY <2>2, <2>3
<1>5. QED
  BY <1>1, <1>2, <1>4, PosOfCur

LEMMA XmitFragsSound ==
    ASSUME IInv, SInv, XmitFrags
    PROVE  SInv'
<1>1. /\ xpc = "frags" /\ xpc' = "head"
      /\ own' = [e \in Slots |-> own[e] \/ e \in Further]
      /\ desc' = [e \in Slots |-> IF e \notin Further THEN desc[e]
                                  ELSE IF e = Entry(cur_tx + xn) THEN "last" ELSE "mid"]
      /\ len' = [e \in Slots |-> len[e] \/ (e \in Further /\ ~xpad)]
      /\ skb' = [e \in Slots |-> skb[e] \/ (xn > 0 /\ ~xpad /\ e = Entry(cur_tx + xn))]
      /\ UNCHANGED <<cur_tx, dirty_tx, held, xe, xn, xpad, carrier, running, task, nic>>
  BY DEF XmitFrags, dev
<1>2. /\ Outstanding \in Nat /\ xn \in Nat /\ Outstanding + xn \in Slots
      /\ Entry(cur_tx + xn) = Pos(Outstanding + xn)
      /\ \A i \in Slots : Pos(i) \in Further <=> Outstanding < i /\ i <= Outstanding + xn
  BY <1>1, Natural, FurtherPlaces
<1>3. Pos(Outstanding + xn) \in Slots /\ \A i \in Slots : i \in Nat /\ Pos(i) \in Slots
  <2>1. \A i \in Slots : i \in Nat
    BY SizeInNat DEF Slots
  <2>2. QED
    BY <1>2, <2>1, PosInRing
<1>4. Shapes' /\ Device'
  BY <1>1 DEF SInv, Shapes, Device, DescKinds, InUse
<1>5. Lengths'
  <2>1. xn > 0 => Pos(Outstanding + xn) \in Further
    BY <1>2
  <2>2. ASSUME NEW e \in Slots, skb'[e] PROVE len'[e]
    <3>1. CASE skb[e]
      BY <1>1, <3>1 DEF SInv, Lengths
    <3>2. CASE xn > 0 /\ ~xpad /\ e = Entry(cur_tx + xn)
      BY <1>1, <1>2, <2>1, <3>2
    <3>3. QED
      BY <1>1, <2>2, <3>1, <3>2
  <2>3. QED
    BY <2>2 DEF Lengths
<1>6. Outstanding' = Outstanding /\ \A i : Pos(i)' = Pos(i)
  BY <1>1 DEF Outstanding, Pos
<1>7. /\ \A i \in Slots : ~Posted(i)
      /\ \A i \in Slots : Posted(i)' <=> Outstanding < i /\ i <= Outstanding + xn
  BY <1>1, <1>6 DEF Posted
<1>8. \A i \in Slots : i = Outstanding + xn <=> Pos(i) = Entry(cur_tx + xn)
  BY <1>2, Apart
<1>9. \A i \in Slots : i >= Outstanding => ~skb[Pos(i)]
  BY <1>7 DEF SInv, Frees
<1>10. Frees'
  <2>1. SUFFICES ASSUME NEW i \in Slots, i >= Outstanding
                 PROVE  skb'[Pos(i)] <=> Posted(i)' /\ i = Outstanding + xn /\ ~xpad
    BY <1>1, <1>6 DEF Frees
  <2>2. skb'[Pos(i)] <=> xn > 0 /\ ~xpad /\ i = Outstanding + xn
    BY <1>1, <1>3, <1>8, <1>9, <2>1
  <2>3. i = Outstanding + xn => (xn > 0 <=> Outstanding < i /\ i <= Outstanding + xn)
    BY <1>2
  <2>4. QED
    BY <1>7, <2>2, <2>3
<1>11. ASSUME InUse PROVE Ring'
  <2>1. Packets
    BY <1>11 DEF SInv, Ring
  <2>2. PICK sent \in 0..Outstanding : Descriptors(sent) /\ Sending(sent)
    BY <1>11 DEF SInv, Ring
  <2>3. Descriptors(sent)'
    <3>1. SUFFICES ASSUME NEW i \in Slots
                   PROVE  /\ own'[Pos(i)] <=> (sent <= i /\ i < Outstanding) \/ Posted(i)'
                          /\ Posted(i)' =>
                               desc'[Pos(i)] = IF i = Outstanding + xn THEN "last" ELSE "mid"
      BY <1>1, <1>6 DEF Descriptors
    <3>2. own'[Pos(i)] <=> (sent <= i /\ i < Outstanding) \/ Posted(i)'
      BY <1>1, <1>2, <1>3, <1>7, <2>2 DEF Descriptors
    <3>3. Posted(i)' => desc'[Pos(i)] = IF i = Outstanding + xn THEN "last" ELSE "mid"
      BY <1>1, <1>2, <1>3, <1>7, <1>8
    <3>4. QED
      BY <3>2, <3>3
  <2>4. \A i \in Slots : i < Outstanding => desc'[Pos(i)] = desc[Pos(i)]
    <3>1. \A i \in Slots : i < Outstanding => ~(Outstanding < i)
      BY <1>2, <1>3
    <3>2. QED
      BY <1>1, <1>2, <1>3, <3>1
  <2>5. Packets'
    <3>1. SUFFICES ASSUME NEW i \in Slots, i < Outstanding
                   PROVE  /\ desc'[Pos(i)] # "none"
                          /\ Goes(desc'[Pos(i)]) <=>
                               i + 1 < Outstanding /\ Comes(desc'[Pos(i + 1)])
      BY <1>6 DEF Packets, Goes, Comes
    <3>2. /\ desc[Pos(i)] # "none"
          /\ Goes(desc[Pos(i)]) <=> i + 1 < Outstanding /\ Comes(desc[Pos(i + 1)])
      BY <2>1, <3>1 DEF Packets
    <3>3. i + 1 < Outstanding => i + 1 \in Slots
      BY <1>2, <1>3, <3>1, SizeInNat DEF Slots
    <3>4. QED
      BY <2>4, <3>1, <3>2, <3>3
  <2>6. Sending(sent)'
    <3>1. sent \in Slots
      BY <1>2, SizeInNat DEF Slots
    <3>2. sent < Outstanding => desc'[Pos(sent)] = desc[Pos(sent)]
      BY <2>4, <3>1
    <3>3. QED
      BY <1>1, <1>6, <2>2, <3>2 DEF Sending, Comes
  <2>7. QED
    BY <1>6, <2>3, <2>5, <2>6 DEF Ring
<1>12. Ring' /\ Heads' /\ ~nic'.broken
  BY <1>1, <1>11 DEF SInv, Ring, InUse, Heads
<1>13. Exact'
  <2> DEFINE S == {e \in Slots : skb[e]}
             T == {e \in Slots : skb'[e]}
  <2>1. IsFiniteSet(S) /\ Cardinality(S) \in Nat
    BY FiniteRing
  <2>2. held = Cardinality(S) + 1
    BY <1>1 DEF SInv, Exact
  <2>3. CASE xn = 0 \/ xpad
    <3>1. ~(xn > 0 /\ ~xpad)
      BY <1>2, <2>3
    <3>2. T = S
      BY <1>1, <3>1
    <3>3. QED
      BY <1>1, <2>2, <2>3, <3>2 DEF Exact
  <2>4. CASE ~(xn = 0 \/ xpad)
    <3>1. xn > 0
      BY <1>2, <2>4
    <3>2. T = S \cup {Pos(Outstanding + xn)}
      BY <1>1, <1>2, <1>3, <2>4, <3>1
    <3>3. Pos(Outstanding + xn) \notin S
      <4>1. Outstanding + xn >= Outstanding
        BY <1>2
      <4>2. QED
        BY <1>2, <1>9, <4>1
    <3>4. Cardinality(T) = Cardinality(S) + 1
      BY <2>1, <3>2, <3>3, FS_AddElement
    <3>5. held' = Cardinality(T) + 0
      BY <1>1, <2>1, <2>2, <3>4
    <3>6. QED
      BY <1>1, <2>4, <3>5 DEF Exact
  <2>5. QED
    BY <2>3, <2>4
<1>14. QED
  BY <1>4, <1>5, <1>10, <1>12, <1>13 DEF SInv

LEMMA XmitHeadSound ==
    ASSUME IInv, SInv, XmitHead
    PROVE  SInv'
<1>1. /\ xpc = "head" /\ xpc' = "stop"
      /\ own' = [own EXCEPT ![xe] = TRUE]
      /\ desc' = [desc EXCEPT ![xe] = IF xn = 0 THEN "only" ELSE "first"]
      /\ len' = [len EXCEPT ![xe] = TRUE]
      /\ skb' = [skb EXCEPT ![xe] = @ \/ xn = 0 \/ xpad]
      /\ cur_tx' = Wrap(cur_tx + xn + 1)
      /\ UNCHANGED <<dirty_tx, held, xn, xpad, carrier, running, task>>
  BY DEF XmitHead, dev
<1>2. /\ nic'.on = nic.on /\ nic'.at = nic.at /\ nic'.inside = nic.inside
      /\ nic'.broken = nic.broken
  BY NicEffect DEF IInv
<1>3. Shapes' /\ Device'
  BY <1>1, <1>2 DEF SInv, Shapes, Device, DescKinds, InUse
<1>4. Lengths'
  BY <1>1 DEF SInv, Lengths, Shapes
<1>5. /\ Outstanding \in Nat /\ xn \in Nat /\ Outstanding + xn \in Slots
      /\ Outstanding \in Slots /\ \A i \in Slots : i \in Nat /\ Pos(i) \in Slots
  <2>1. Outstanding \in Nat /\ xn \in Nat /\ Outstanding + xn \in Slots
    BY <1>1, Natural, FurtherPlaces
  <2>2. Outstanding \in Slots /\ \A i \in Slots : i \in Nat
    BY <2>1, SizeInNat DEF Slots
  <2>3. QED
    BY <2>1, <2>2, PosInRing
<1>6. xe = Pos(Outstanding)
  BY <1>1, PosOfCur DEF SInv, Heads
<1>7. Outstanding' = Outstanding + xn + 1 /\ \A i : Pos(i)' = Pos(i)
  <2>1. Outstanding + xn + 1 <= NUM_TX_DESC - 1
    BY <1>1, <1>5, SizeInNat DEF IInv, Room
  <2>2. Outstanding' = Outstanding + xn + 1
    BY <1>1, <2>1, Posting DEF IInv, Outstanding
  <2>3. QED
    BY <1>1, <2>2 DEF Pos
<1>8. \A i \in Slots : Posted(i) <=> Outstanding < i /\ i <= Outstanding + xn
  BY <1>1 DEF Posted
<1>9. \A i \in Slots : ~Posted(i)'
  BY <1>1 DEF Posted
<1>10. ASSUME NEW i \in Slots
      PROVE  /\ i = Outstanding => /\ own'[Pos(i)]
                                   /\ desc'[Pos(i)] = IF xn = 0 THEN "only" ELSE "first"
                                   /\ skb'[Pos(i)] <=> skb[Pos(i)] \/ xn = 0 \/ xpad
             /\ i # Outstanding => /\ own'[Pos(i)] = own[Pos(i)]
                                   /\ desc'[Pos(i)] = desc[Pos(i)]
                                   /\ skb'[Pos(i)] = skb[Pos(i)]
  <2>1. i # Outstanding => Pos(i) # xe
    BY <1>5, <1>6, Apart
  <2>2. /\ own \in [Slots -> BOOLEAN] /\ skb \in [Slots -> BOOLEAN]
        /\ desc \in [Slots -> DescKinds]
    BY DEF SInv, Shapes
  <2>3. QED
    BY <1>1, <1>5, <1>6, <2>1, <2>2
<1>11. \A i \in Slots : i >= Outstanding =>
         (skb[Pos(i)] <=> Outstanding < i /\ i = Outstanding + xn /\ ~xpad)
  <2>1. \A i \in Slots : i = Outstanding + xn => i <= Outstanding + xn
    BY <1>5
  <2>2. QED
    BY <1>8, <2>1 DEF SInv, Frees
<1>12. Frees'
  <2>1. SUFFICES ASSUME NEW i \in Slots, i >= Outstanding + xn + 1
                 PROVE  ~skb'[Pos(i)]
    BY <1>7, <1>9 DEF Frees
  <2>2. i # Outstanding /\ i >= Outstanding /\ i # Outstanding + xn
    BY <1>5, <2>1
  <2>3. QED
    BY <1>10, <1>11, <2>2
<1>13. ASSUME InUse PROVE Ring'
  <2>1. Packets
    BY <1>13 DEF SInv, Ring
  <2>2. PICK sent \in 0..Outstanding : Descriptors(sent) /\ Sending(sent)
    BY <1>13 DEF SInv, Ring
  <2>3. Descriptors(sent)'
    <3>1. SUFFICES ASSUME NEW i \in Slots
                   PROVE  own'[Pos(i)] <=> sent <= i /\ i < Outstanding + xn + 1
      BY <1>7, <1>9 DEF Descriptors
    <3>2. i \in Nat /\ sent \in Nat /\ sent <= Outstanding
      BY <1>5
    <3>3. CASE i = Outstanding
      BY <1>5, <1>10, <3>2, <3>3
    <3>4. CASE i < Outstanding
      BY <2>2, <1>5, <1>8, <1>10, <3>2, <3>4 DEF Descriptors
    <3>5. CASE i > Outstanding
      <4>1. i # Outstanding /\ i >= Outstanding /\ ~(i < Outstanding)
        BY <1>5, <3>2, <3>5
      <4>2. own'[Pos(i)] <=> i <= Outstanding + xn
        BY <2>2, <1>8, <1>10, <3>5, <4>1 DEF Descriptors
      <4>3. QED
        BY <1>5, <3>2, <3>5, <4>2
    <3>6. QED
      BY <1>5, <3>2, <3>3, <3>4, <3>5
  <2>4. Packets'
    <3>1. SUFFICES ASSUME NEW i \in Slots, i < Outstanding + xn + 1
                   PROVE  /\ desc'[Pos(i)] # "none"
                          /\ Goes(desc'[Pos(i)]) <=>
                               i + 1 < Outstanding + xn + 1 /\ Comes(desc'[Pos(i + 1)])
      BY <1>7 DEF Packets, Goes, Comes
    <3>2. i \in Nat /\ i <= Outstanding + xn
      BY <1>5, <3>1
    <3>3. ASSUME NEW j \in Slots, Outstanding < j, j <= Outstanding + xn
          PROVE  desc'[Pos(j)] = IF j = Outstanding + xn THEN "last" ELSE "mid"
      <4>1. j # Outstanding /\ Posted(j)
        BY <1>5, <1>8, <3>3
      <4>2. QED
        BY <2>2, <1>10, <4>1 DEF Descriptors
    <3>4. CASE i < Outstanding
      <4>1. /\ desc[Pos(i)] # "none"
            /\ Goes(desc[Pos(i)]) <=> i + 1 < Outstanding /\ Comes(desc[Pos(i + 1)])
        BY <2>1, <3>4 DEF Packets
      <4>2. desc'[Pos(i)] = desc[Pos(i)]
        BY <1>5, <1>10, <3>2, <3>4
      <4>3. CASE i + 1 < Outstanding
        <5>1. i + 1 \in Slots /\ i + 1 # Outstanding /\ i + 1 < Outstanding + xn + 1
          BY <1>5, <3>2, <4>3, SizeInNat DEF Slots
        <5>2. desc'[Pos(i + 1)] = desc[Pos(i + 1)]
          BY <1>10, <5>1
        <5>3. QED
          BY <4>1, <4>2, <4>3, <5>1, <5>2
      <4>4. CASE i + 1 = Outstanding
        <5>1. desc'[Pos(i + 1)] = IF xn = 0 THEN "only" ELSE "first"
          BY <1>5, <1>10, <4>4
        <5>2. ~Comes(desc'[Pos(i + 1)])
          BY <5>1 DEF Comes
        <5>3. ~(i + 1 < Outstanding)
          BY <1>5, <4>4
        <5>4. QED
          BY <4>1, <4>2, <5>2, <5>3
      <4>5. QED
        BY <1>5, <3>2, <3>4, <4>3, <4>4
    <3>5. CASE i = Outstanding
      <4>1. desc'[Pos(i)] = IF xn = 0 THEN "only" ELSE "first"
        BY <1>10, <3>5
      <4>2. CASE xn = 0
        BY <1>5, <3>5, <4>1, <4>2 DEF Goes
      <4>3. CASE xn # 0
        <5>1. i + 1 \in Slots /\ Outstanding < i + 1 /\ i + 1 <= Outstanding + xn
              /\ i + 1 < Outstanding + xn + 1
          BY <1>5, <3>5, <4>3, SizeInNat DEF Slots
        <5>2. Comes(desc'[Pos(i + 1)])
          BY <3>3, <5>1 DEF Comes
        <5>3. QED
          BY <4>1, <4>3, <5>1, <5>2 DEF Goes
      <4>4. QED
        BY <4>2, <4>3
    <3>6. CASE i > Outstanding
      <4>1. desc'[Pos(i)] = IF i = Outstanding + xn THEN "last" ELSE "mid"
        BY <3>2, <3>3, <3>6
      <4>2. CASE i = Outstanding + xn
        <5>1. ~(i + 1 < Outstanding + xn + 1)
          BY <1>5, <4>2
        <5>2. QED
          BY <4>1, <4>2, <5>1 DEF Goes
      <4>3. CASE i # Outstanding + xn
        <5>1. i + 1 \in Slots /\ Outstanding < i + 1 /\ i + 1 <= Outstanding + xn
              /\ i + 1 < Outstanding + xn + 1
          BY <1>5, <3>2, <3>6, <4>3, SizeInNat DEF Slots
        <5>2. Comes(desc'[Pos(i + 1)])
          BY <3>3, <5>1 DEF Comes
        <5>3. QED
          BY <4>1, <4>3, <5>1, <5>2 DEF Goes
      <4>4. QED
        BY <4>2, <4>3
    <3>7. QED
      BY <1>5, <3>2, <3>4, <3>5, <3>6
  <2>5. Sending(sent)'
    <3>1. sent \in Slots /\ sent \in Nat /\ sent <= Outstanding
      BY <1>5, SizeInNat DEF Slots
    <3>2. nic.at = Pos(sent) /\ (nic.inside <=> sent < Outstanding /\ Comes(desc[Pos(sent)]))
      BY <2>2 DEF Sending
    <3>3. sent < Outstanding + xn + 1
      BY <1>5, <3>1
    <3>4. CASE sent = Outstanding
      <4>1. ~Comes(desc'[Pos(sent)])
        BY <1>10, <3>1, <3>4 DEF Comes
      <4>2. ~(sent < Outstanding)
        BY <1>5, <3>4
      <4>3. QED
        BY <1>2, <1>7, <3>2, <4>1, <4>2 DEF Sending, Comes
    <3>5. CASE sent # Outstanding
      <4>1. desc'[Pos(sent)] = desc[Pos(sent)] /\ sent < Outstanding
        BY <1>5, <1>10, <3>1, <3>5
      <4>2. QED
        BY <1>2, <1>7, <3>2, <3>3, <4>1 DEF Sending, Comes
    <3>6. QED
      BY <3>4, <3>5
  <2>6. Ring'
    <3>1. sent \in 0..Outstanding'
      BY <1>5, <1>7
    <3>2. QED
      BY <2>3, <2>4, <2>5, <3>1 DEF Ring
  <2>7. QED
    BY <2>6
<1>14. Ring' /\ Heads' /\ ~nic'.broken
  BY <1>1, <1>2, <1>13 DEF SInv, Ring, InUse, Heads
<1>15. Exact'
  <2> DEFINE S == {e \in Slots : skb[e]}
             T == {e \in Slots : skb'[e]}
  <2>1. IsFiniteSet(S) /\ Cardinality(S) \in Nat
    BY FiniteRing
  <2>2. held = Cardinality(S) + IF xn = 0 \/ xpad THEN 1 ELSE 0
    BY <1>1 DEF SInv, Exact
  <2>3. xe \in Slots /\ skb \in [Slots -> BOOLEAN]
    BY <1>5, <1>6 DEF SInv, Shapes
  <2>4. CASE xn = 0 \/ xpad
    <3>1. T = S \cup {xe}
      BY <1>1, <2>3, <2>4
    <3>2. xe \notin S
      <4>1. Outstanding >= Outstanding /\ ~(Outstanding < Outstanding)
        BY <1>5
      <4>2. QED
        BY <1>5, <1>6, <1>11, <4>1
    <3>3. Cardinality(T) = Cardinality(S) + 1
      BY <2>1, <3>1, <3>2, FS_AddElement
    <3>4. held' = Cardinality(T) + 0
      BY <1>1, <2>1, <2>2, <2>4, <3>3
    <3>5. QED
      BY <1>1, <3>4 DEF Exact
  <2>5. CASE ~(xn = 0 \/ xpad)
    <3>1. T = S
      BY <1>1, <2>3, <2>5
    <3>2. QED
      BY <1>1, <2>2, <2>5, <3>1 DEF Exact
  <2>6. QED
    BY <2>4, <2>5
<1>16. QED
  BY <1>3, <1>4, <1>12, <1>14, <1>15 DEF SInv

LEMMA NicSendSound ==
    ASSUME IInv, SInv, NicSend
    PROVE  SInv'
<1>1. /\ nic.on /\ own[nic.at]
      /\ own' = [own EXCEPT ![nic.at] = FALSE]
      /\ nic'.at = Entry(nic.at + 1) /\ nic'.on = nic.on
      /\ nic'.inside <=> Goes(desc[nic.at])
      /\ nic'.broken <=> \/ nic.broken \/ nic.inside # Comes(desc[nic.at])
                         \/ desc[nic.at] = "none"
      /\ UNCHANGED <<cur_tx, dirty_tx, desc, len, skb, held, xpc, xe, xn, xpad,
                     carrier, running, task>>
  <2>1. /\ nic'.at = Entry(nic.at + 1) /\ nic'.on = nic.on
        /\ nic'.inside <=> Goes(desc[nic.at])
        /\ nic'.broken <=> \/ nic.broken \/ nic.inside # Comes(desc[nic.at])
                           \/ desc[nic.at] = "none"
    BY NicSendEffect DEF IInv, Goes, Comes
  <2>2. QED
    BY <2>1 DEF NicSend, xmit, dev
<1>2. Shapes' /\ Device' /\ Lengths' /\ Frees' /\ Heads' /\ Exact'
  <2>1. Frees'
    BY <1>1 DEF SInv, Frees, Outstanding, Pos, Posted
  <2>2. QED
    BY <1>1, <2>1 DEF SInv, Shapes, Device, InUse, Lengths, Heads, Exact
<1>3. Ring' /\ ~nic'.broken
  <2>1. InUse /\ Packets
    BY <1>1 DEF SInv, Device, Ring
  <2>2. PICK sent \in 0..Outstanding : Descriptors(sent) /\ Sending(sent)
    BY <2>1 DEF SInv, Ring
  <2>3. /\ Outstanding \in Nat /\ sent \in Nat /\ sent \in Slots /\ sent <= Outstanding
        /\ \A i \in Slots : i \in Nat /\ Pos(i) \in Slots
    <3>1. Outstanding \in Nat /\ sent \in Nat /\ sent \in Slots /\ sent <= Outstanding
          /\ \A i \in Slots : i \in Nat
      BY Natural, SizeInNat DEF Slots
    <3>2. QED
      BY <3>1, PosInRing
  <2>4. nic.at = Pos(sent) /\ (nic.inside <=> sent < Outstanding /\ Comes(desc[Pos(sent)]))
    BY <2>2 DEF Sending
  <2>5. sent < Outstanding
    <3>1. (sent <= sent /\ sent < Outstanding) \/ Posted(sent)
      BY <1>1, <2>2, <2>3, <2>4 DEF Descriptors
    <3>2. ~Posted(sent)
      BY <2>3 DEF Posted
    <3>3. QED
      BY <3>1, <3>2
  <2>6. Outstanding' = Outstanding /\ \A i : Pos(i)' = Pos(i) /\ (Posted(i)' <=> Posted(i))
    BY <1>1 DEF Outstanding, Pos, Posted
  <2>7. /\ desc[Pos(sent)] # "none"
        /\ Goes(desc[Pos(sent)]) <=> sent + 1 < Outstanding /\ Comes(desc[Pos(sent + 1)])
    BY <2>1, <2>3, <2>5 DEF Packets
  <2>8. Descriptors(sent + 1)'
    <3>1. SUFFICES ASSUME NEW i \in Slots
                   PROVE  own'[Pos(i)] <=> (sent + 1 <= i /\ i < Outstanding) \/ Posted(i)
      BY <1>1, <2>2, <2>6 DEF Descriptors
    <3>2. own[Pos(i)] <=> (sent <= i /\ i < Outstanding) \/ Posted(i)
      BY <2>2 DEF Descriptors
    <3>3. own \in [Slots -> BOOLEAN] /\ Pos(i) \in Slots /\ i \in Nat
      BY <2>3 DEF SInv, Shapes
    <3>4. CASE i = sent
      <4>1. ~own'[Pos(i)]
        BY <1>1, <2>4, <3>3, <3>4
      <4>2. ~Posted(i) /\ ~(sent + 1 <= i)
        BY <2>3, <3>4 DEF Posted
      <4>3. QED
        BY <4>1, <4>2
    <3>5. CASE i # sent
      <4>1. own'[Pos(i)] = own[Pos(i)]
        BY <1>1, <2>3, <2>4, <3>3, <3>5, Apart
      <4>2. sent + 1 <= i <=> sent <= i
        BY <2>3, <3>3, <3>5
      <4>3. QED
        BY <3>2, <4>1, <4>2
    <3>6. QED
      BY <3>4, <3>5
  <2>9. Sending(sent + 1)'
    <3>1. Entry(nic.at + 1) = Pos(sent + 1)
      <4>1. dirty_tx + sent \in Nat /\ (dirty_tx + sent) + 1 = dirty_tx + (sent + 1)
        BY <2>3, Natural
      <4>2. QED
        BY <2>4, <4>1, SizeInNat, Successor DEF Entry, Pos
    <3>2. QED
      BY <1>1, <2>4, <2>6, <2>7, <3>1 DEF Sending
  <2>10. Packets'
    BY <1>1, <2>1, <2>6 DEF Packets
  <2>11. Ring'
    <3>1. sent + 1 \in 0..Outstanding'
      BY <2>3, <2>5, <2>6
    <3>2. QED
      BY <2>8, <2>9, <2>10, <3>1 DEF Ring
  <2>12. ~nic'.broken
    <3>1. ~nic.broken /\ nic.inside \in BOOLEAN
      BY DEF SInv, IInv, States, NicStates
    <3>2. nic.inside = Comes(desc[nic.at])
      BY <2>4, <2>5, <3>1 DEF Comes
    <3>3. QED
      BY <1>1, <2>4, <2>7, <3>1, <3>2
  <2>13. QED
    BY <2>11, <2>12
<1>4. QED
  BY <1>2, <1>3 DEF SInv

\* Reaping k descriptors moves every place k down; those reaped come to lie
\* behind the free ones.
LEMMA ReapedPlaces ==
    ASSUME IInv, NEW k \in 0..Outstanding, dirty_tx' = Wrap(dirty_tx + k)
    PROVE  \A i \in Slots :
              /\ i < NUM_TX_DESC - k => i + k \in Slots /\ Pos(i)' = Pos(i + k)
              /\ i >= NUM_TX_DESC - k => /\ i + k - NUM_TX_DESC \in 0..(k - 1)
                                         /\ Pos(i)' = Pos(i + k - NUM_TX_DESC)
<1>1. TAKE i \in Slots
<1>2. /\ Outstanding \in Nat /\ Outstanding <= NUM_TX_DESC - 1 /\ i \in 0..(NUM_TX_DESC - 1)
      /\ NUM_TX_DESC \in Nat \ {0} /\ k \in Nat /\ k <= NUM_TX_DESC - 1 /\ dirty_tx \in Nat
  BY Natural, SizeInNat DEF Slots
<1>3. Pos(i)' = Pos(i + k)
  <2>1. dirty_tx + k \in 0..(2 * Modulus - 1)
    BY <1>2, SizeInNat DEF IInv, Indices
  <2>2. Entry(Wrap(dirty_tx + k) + i) = Entry(dirty_tx + k + i)
    BY <1>2, <2>1, EntryOfWrap
  <2>3. dirty_tx + k + i = dirty_tx + (i + k)
    BY <1>2
  <2>4. QED
    BY <2>2, <2>3 DEF Pos
<1>4. i < NUM_TX_DESC - k => i + k \in Slots
  BY <1>2 DEF Slots
<1>5. ASSUME i >= NUM_TX_DESC - k
      PROVE  /\ i + k - NUM_TX_DESC \in 0..(k - 1)
             /\ Pos(i + k) = Pos(i + k - NUM_TX_DESC)
  <2>1. i + k - NUM_TX_DESC \in 0..(k - 1)
    BY <1>2, <1>5
  <2>2. /\ dirty_tx + (i + k - NUM_TX_DESC) \in Nat
        /\ (dirty_tx + (i + k - NUM_TX_DESC)) + NUM_TX_DESC = dirty_tx + (i + k)
    BY <1>2, <2>1
  <2>3. QED
    BY <1>2, <2>1, <2>2, Turn DEF Pos, Entry
<1>6. QED
  BY <1>3, <1>4, <1>5

LEMMA PollSound ==
    ASSUME IInv, SInv, Poll
    PROVE  SInv'
<1> DEFINE reaped(k) == {Pos(i) : i \in 0..(k - 1)}
<1>1. PICK k \in 0..Outstanding :
         /\ Reapable(k)
         /\ dirty_tx' = Wrap(dirty_tx + k)
         /\ desc' = [e \in Slots |-> IF e \in reaped(k) THEN "none" ELSE desc[e]]
         /\ len' = [e \in Slots |-> len[e] /\ e \notin reaped(k)]
         /\ skb' = [e \in Slots |-> skb[e] /\ e \notin reaped(k)]
         /\ held' = held - Cardinality({e \in reaped(k) : skb[e]})
  BY DEF Poll, Pos
<1> HIDE DEF reaped
<1>2. /\ nic'.on = nic.on /\ nic'.at = nic.at /\ nic'.inside = nic.inside
      /\ nic'.broken = nic.broken
  BY NicEffect DEF IInv
<1>3. /\ UNCHANGED <<cur_tx, own, xpc, xe, xn, xpad, carrier, running, task>>
      /\ xpc \in {"idle", "called"}
  BY DEF Poll, xmit, Unlocked
<1>4. Shapes' /\ Device' /\ Lengths' /\ Heads'
  BY <1>1, <1>2, <1>3 DEF SInv, Shapes, Device, InUse, Lengths, DescKinds, Heads
<1>5. /\ Outstanding \in Nat /\ k \in Nat /\ k <= Outstanding /\ Outstanding <= NUM_TX_DESC - 1
      /\ NUM_TX_DESC \in Nat
      /\ \A i \in Slots : i \in Nat /\ i < NUM_TX_DESC /\ Pos(i) \in Slots
  <2>1. /\ Outstanding \in Nat /\ k \in Nat /\ k <= Outstanding
        /\ Outstanding <= NUM_TX_DESC - 1 /\ NUM_TX_DESC \in Nat
        /\ \A i \in Slots : i \in Nat /\ i < NUM_TX_DESC
    BY Natural, SizeInNat DEF Slots
  <2>2. QED
    BY <2>1, PosInRing
<1>6. \A i \in Slots : /\ ~Posted(i) /\ ~Posted(i)'
                       /\ i >= Outstanding => ~skb[Pos(i)]
  BY <1>3 DEF SInv, Frees, Posted
<1>7. \A i \in Slots : Pos(i) \in reaped(k) <=> i < k
  <2>1. TAKE i \in Slots
  <2>2. \A j \in 0..(k - 1) : j \in Slots /\ j < k
    BY <1>5 DEF Slots
  <2>3. i < k => i \in 0..(k - 1)
    BY <1>5
  <2>4. \A j \in 0..(k - 1) : Pos(i) = Pos(j) => i = j
    BY <2>2, Apart
  <2>5. QED
    BY <2>2, <2>3, <2>4 DEF reaped
<1>8. Outstanding' = Outstanding - k
  BY <1>1, <1>3, <1>5, Reaping DEF IInv, Outstanding
<1>9. ASSUME NEW i \in Slots, i < NUM_TX_DESC - k
      PROVE  /\ i + k \in Slots /\ Pos(i)' = Pos(i + k)
             /\ desc'[Pos(i)'] = desc[Pos(i + k)]
             /\ i >= Outstanding - k => ~skb'[Pos(i)']
  <2>1. i + k \in Slots /\ Pos(i)' = Pos(i + k)
    BY <1>1, <1>9, ReapedPlaces
  <2>2. Pos(i + k) \in Slots /\ Pos(i + k) \notin reaped(k)
    <3>1. ~(i + k < k)
      BY <1>5
    <3>2. QED
      BY <1>5, <1>7, <2>1, <3>1
  <2>3. i >= Outstanding - k <=> i + k >= Outstanding
    BY <1>5
  <2>4. QED
    BY <1>1, <1>6, <2>1, <2>2, <2>3
<1>10. ASSUME NEW i \in Slots, i >= NUM_TX_DESC - k
       PROVE  /\ i + k - NUM_TX_DESC \in 0..(k - 1) /\ i + k - NUM_TX_DESC \in Slots
              /\ Pos(i)' = Pos(i + k - NUM_TX_DESC)
              /\ ~skb'[Pos(i)'] /\ ~(i < Outstanding - k)
  <2> DEFINE j == i + k - NUM_TX_DESC
  <2>1. j \in 0..(k - 1) /\ Pos(i)' = Pos(j)
    BY <1>1, <1>10, ReapedPlaces
  <2>2. ~(i < Outstanding - k)
    BY <1>5, <1>10
  <2>3. j \in Slots /\ j < k
    BY <1>5, <2>1 DEF Slots
  <2> HIDE DEF j
  <2>4. Pos(j) \in Slots /\ Pos(j) \in reaped(k)
    BY <1>5, <1>7, <2>3
  <2>5. ~skb'[Pos(j)]
    BY <1>1, <2>4
  <2>6. QED
    BY <2>1, <2>2, <2>3, <2>5 DEF j
<1>11. \A i \in Slots : i < NUM_TX_DESC - k \/ i >= NUM_TX_DESC - k
  BY <1>5
<1>12. Frees'
  <2>1. SUFFICES ASSUME NEW i \in Slots, i >= Outstanding - k PROVE ~skb'[Pos(i)']
    BY <1>6, <1>8 DEF Frees
  <2>2. QED
    BY <1>9, <1>10, <1>11, <2>1
<1>13. ASSUME InUse PROVE Ring'
  <2>1. Packets
    BY <1>13 DEF SInv, Ring
  <2>2. PICK sent \in 0..Outstanding : Descriptors(sent) /\ Sending(sent)
    BY <1>13 DEF SInv, Ring
  <2>3. sent \in Nat /\ sent \in Slots /\ sent <= Outstanding
    BY <1>5 DEF Slots
  <2>4. \A i \in Slots : own[Pos(i)] <=> sent <= i /\ i < Outstanding
    BY <1>6, <2>2 DEF Descriptors
  <2>5. k <= sent
    <3>1. SUFFICES ASSUME sent < k PROVE FALSE
      BY <1>5, <2>3
    <3>2. sent \in 0..(k - 1) /\ sent < Outstanding /\ sent <= sent
      BY <1>5, <2>3, <3>1
    <3>3. ~own[Pos(sent)]
      BY <1>1, <3>2 DEF Reapable, Pos
    <3>4. QED
      BY <2>3, <2>4, <3>2, <3>3
  <2>6. Descriptors(sent - k)'
    <3>1. SUFFICES ASSUME NEW i \in Slots
                   PROVE  own[Pos(i)'] <=> sent - k <= i /\ i < Outstanding - k
      BY <1>3, <1>6, <1>8 DEF Descriptors
    <3>2. CASE i < NUM_TX_DESC - k
      <4>1. /\ sent <= i + k <=> sent - k <= i
            /\ i + k < Outstanding <=> i < Outstanding - k
        BY <1>5, <2>3
      <4>2. QED
        BY <1>9, <2>4, <3>2, <4>1
    <3>3. CASE i >= NUM_TX_DESC - k
      <4>1. ~(sent <= i + k - NUM_TX_DESC)
        BY <1>5, <1>10, <2>3, <2>5, <3>3
      <4>2. QED
        BY <1>10, <2>4, <3>3, <4>1
    <3>4. QED
      BY <1>11, <3>2, <3>3
  <2>7. Packets'
    <3>1. SUFFICES ASSUME NEW i \in Slots, i < Outstanding - k
                   PROVE  /\ desc'[Pos(i)'] # "none"
                          /\ Goes(desc'[Pos(i)']) <=>
                               i + 1 < Outstanding - k /\ Comes(desc'[Pos(i + 1)'])
      BY <1>8 DEF Packets, Goes, Comes
    <3>2. i < NUM_TX_DESC - k /\ i + k < Outstanding /\ (i + k) + 1 = (i + 1) + k
      BY <1>5, <3>1
    <3>3. desc'[Pos(i)'] = desc[Pos(i + k)] /\ i + k \in Slots
      BY <1>9, <3>2
    <3>4. /\ desc[Pos(i + k)] # "none"
          /\ Goes(desc[Pos(i + k)]) <=> (i + k) + 1 < Outstanding /\ Comes(desc[Pos((i + k) + 1)])
      BY <2>1, <3>2, <3>3 DEF Packets
    <3>5. i + 1 < Outstanding - k <=> (i + k) + 1 < Outstanding
      BY <1>5
    <3>6. ASSUME i + 1 < Outstanding - k PROVE desc'[Pos(i + 1)'] = desc[Pos((i + k) + 1)]
      <4>1. i + 1 \in Slots /\ i + 1 < NUM_TX_DESC - k
        BY <1>5, <3>6 DEF Slots
      <4>2. QED
        BY <1>9, <3>2, <4>1
    <3>7. QED
      BY <3>3, <3>4, <3>5, <3>6
  <2>8. Sending(sent - k)'
    <3>1. sent - k \in Slots /\ sent - k < NUM_TX_DESC - k /\ (sent - k) + k = sent
      BY <1>5, <2>3, <2>5 DEF Slots
    <3>2. Pos(sent - k)' = Pos(sent) /\ desc'[Pos(sent - k)'] = desc[Pos(sent)]
      BY <1>9, <3>1
    <3>3. sent - k < Outstanding - k <=> sent < Outstanding
      BY <1>5, <2>3
    <3>4. QED
      BY <1>2, <1>8, <2>2, <3>2, <3>3 DEF Sending, Comes
  <2>9. sent - k \in 0..Outstanding'
    BY <1>5, <1>8, <2>3, <2>5
  <2>10. QED
    BY <2>6, <2>7, <2>8, <2>9 DEF Ring
<1>14. Ring' /\ ~nic'.broken
  BY <1>2, <1>3, <1>13 DEF SInv, Ring, InUse
<1>15. Exact'
  <2> DEFINE S == {e \in Slots : skb[e]}
             T == {e \in Slots : skb'[e]}
             R == {e \in reaped(k) : skb[e]}
  <2>1. IsFiniteSet(S) /\ Cardinality(S) \in Nat
    BY FiniteRing
  <2>2. T = S \ reaped(k)
    BY <1>1
  <2>3. reaped(k) \subseteq Slots
    <3>1. \A i \in 0..(k - 1) : i \in Slots
      BY <1>5 DEF Slots
    <3>2. QED
      BY <1>5, <3>1 DEF reaped
  <2>4. S \cap reaped(k) = R
    BY <2>3
  <2>5. Cardinality(T) = Cardinality(S) - Cardinality(R)
    BY <2>1, <2>2, <2>4, FS_Difference
  <2>6. held = Cardinality(S) + 0
    BY <1>3 DEF SInv, Exact
  <2>7. R \in SUBSET Slots /\ Cardinality(R) \in Nat
    BY <2>3, FiniteRing
  <2>8. held' = Cardinality(T) + 0
    BY <1>1, <2>1, <2>5, <2>6, <2>7
  <2>9. QED
    BY <1>3, <2>8 DEF Exact
<1>16. QED
  BY <1>4, <1>12, <1>14, <1>15 DEF SInv

\* tx_clear frees what the ring holds, no more and no less.
LEMMA ClearedSkbs ==
    ASSUME SInv, xpc \in {"idle", "called"}, xpc' = xpc,
           held' = held - Cardinality({e \in Slots : len[e] /\ skb[e]}),
           \A e \in Slots : ~skb'[e]
    PROVE  Exact'
<1> DEFINE S == {e \in Slots : skb[e]}
           T == {e \in Slots : skb'[e]}
<1>1. {e \in Slots : len[e] /\ skb[e]} = S
  BY DEF SInv, Lengths
<1>2. Cardinality(S) \in Nat
  BY FiniteRing
<1>3. held = Cardinality(S) + 0
  BY DEF SInv, Exact
<1>4. T = {} /\ Cardinality(T) = 0
  BY FS_EmptySet
<1>5. held' = Cardinality(T) + 0
  <2>1. held' = held - Cardinality(S)
    BY <1>1
  <2> HIDE DEF S, T
  <2>2. QED
    BY <1>2, <1>3, <1>4, <2>1
<1>6. QED
  BY <1>5 DEF Exact

\* A NIC at the start of an empty ring is in step with it.
Fresh ==
    /\ cur_tx = 0 /\ dirty_tx = 0 /\ xpc \in {"idle", "called"} /\ nic.at = 0 /\ ~nic.inside
    /\ \A e \in Slots : ~own[e]

LEMMA NewRing == Fresh => Ring
<1> SUFFICES ASSUME Fresh PROVE Ring
  OBVIOUS
<1> USE DEF Fresh
<1>1. Outstanding = 0
  BY SizeInNat DEF Outstanding, Wrap
<1>2. \A i \in Slots : i \in Nat /\ Pos(i) \in Slots
  <2>1. \A i \in Slots : i \in Nat /\ 0 + i \in Nat
    BY SizeInNat DEF Slots
  <2>2. QED
    BY <2>1, EntryInRing DEF Pos
<1>3. \A i \in Slots : ~(i < Outstanding) /\ ~Posted(i)
  BY <1>1, <1>2 DEF Posted
<1>4. Packets
  BY <1>3 DEF Packets
<1>5. Descriptors(0)
  BY <1>2, <1>3 DEF Descriptors
<1>6. Pos(0) = 0
  <2>1. /\ 0 \in Int /\ NUM_TX_DESC \in Int /\ NUM_TX_DESC > 0 /\ 0 \in 0..(NUM_TX_DESC - 1)
        /\ 0 = NUM_TX_DESC * 0 + 0 /\ 0 + 0 = 0
    BY SizeInNat
  <2>2. 0 % NUM_TX_DESC = 0
    BY <2>1, ModUnique
  <2>3. QED
    BY <2>1, <2>2 DEF Pos, Entry
<1>7. Sending(0)
  BY <1>1, <1>6 DEF Sending
<1>8. 0 \in 0..Outstanding
  BY <1>1
<1>9. QED
  BY <1>4, <1>5, <1>7, <1>8 DEF Ring

LEMMA NewRingNext == Fresh' => Ring'
BY NewRing, PTL

\* The ring is renewed, by the FIFO workaround as well, or it is cleared for a
\* reset task or an open that renews it.
LEMMA ResetSound ==
    ASSUME IInv, SInv,
           \/ LinkDown \/ EsdTimer \/ ResetTask \/ FifoOver \/ Open
           \/ ResetTaskShort \/ Down
    PROVE  SInv'
<1>1. /\ xpc \in {"idle", "called"} /\ UNCHANGED <<xpc, xe, xn, xpad>>
      /\ held' = held - Cardinality({e \in Slots : len[e] /\ skb[e]})
      /\ cur_tx' = 0 /\ dirty_tx' = 0
  <2>1. Open => xpc = "idle"
    BY DEF Open, SInv, Device
  <2>2. QED
    BY <2>1 DEF LinkDown, EsdTimer, ResetTask, FifoOver, Open, ResetTaskShort, Down,
                RenewRing, TxClear, xmit, Unlocked
<1>2. /\ \/ own' = [e \in Slots |-> FALSE]
         \/ own' = [e \in Slots |-> own[e] /\ ~len[e]] /\ ~InUse'
      /\ \/ desc' = [e \in Slots |-> "none"]
         \/ desc' = [e \in Slots |-> IF len[e] THEN "none" ELSE desc[e]]
      /\ len' = [e \in Slots |-> FALSE]
      /\ skb' = [e \in Slots |-> FALSE] \/ skb' = [e \in Slots |-> skb[e] /\ ~len[e]]
  BY DEF LinkDown, EsdTimer, ResetTask, FifoOver, Open, ResetTaskShort, Down, RenewRing,
         TxClear, dev, InUse
<1>3. /\ nic'.at = 0 /\ ~nic'.inside /\ nic'.broken = nic.broken
      /\ nic'.on => carrier' /\ InUse'
  <2>1. CASE LinkDown \/ EsdTimer \/ Down
    BY <2>1, ResetNicType DEF LinkDown, EsdTimer, Down, IInv
  <2>2. CASE ResetTask \/ ResetTaskShort
    <3>1. task /\ ~nic.on
      BY <2>2 DEF ResetTask, ResetTaskShort, SInv, Device, InUse
    <3>2. QED
      BY <2>2, <3>1, NicEffect DEF SInv, Device, IInv
  <2>3. CASE Open
    <3>1. ~running /\ nic' = nic
      BY <2>3 DEF Open
    <3>2. QED
      BY <3>1 DEF SInv, Device, InUse
  <2>4. CASE FifoOver
    <3>1. nic.on /\ nic' = StartedNic /\ UNCHANGED <<carrier, running, task>>
      BY <2>4 DEF FifoOver
    <3>2. QED
      BY <3>1, ResetNicType DEF SInv, Device, InUse, IInv
  <2>5. QED
    BY <2>1, <2>2, <2>3, <2>4
<1>4. ~running' => xpc' = "idle"
  BY <1>1 DEF LinkDown, EsdTimer, ResetTask, FifoOver, Open, ResetTaskShort, Down, dev,
              SInv, Device
<1>5. \A e \in Slots : ~skb'[e]
  BY <1>2 DEF SInv, Lengths
<1>6. Shapes'
  <2>1. own' \in [Slots -> BOOLEAN] /\ len' \in [Slots -> BOOLEAN]
    BY <1>2 DEF SInv, Shapes
  <2>2. skb' \in [Slots -> BOOLEAN]
    BY <1>2 DEF SInv, Shapes
  <2>3. desc' \in [Slots -> DescKinds]
    BY <1>2 DEF SInv, Shapes, DescKinds
  <2>4. xpad' \in BOOLEAN
    BY <1>1 DEF SInv, Shapes
  <2>5. QED
    BY <2>1, <2>2, <2>3, <2>4 DEF Shapes
<1>7. Device' /\ Lengths' /\ Heads'
  BY <1>1, <1>3, <1>4, <1>5 DEF Device, Lengths, Heads
<1>8. Exact'
  BY <1>1, <1>5, ClearedSkbs
<1>9. Frees'
  <2>1. \A i \in Slots : Pos(i)' \in Slots /\ ~Posted(i)'
    <3>1. \A i \in Slots : 0 + i \in Nat
      BY SizeInNat DEF Slots
    <3>2. QED
      BY <1>1, <3>1, EntryInRing DEF Pos, Posted
  <2>2. QED
    BY <1>5, <2>1 DEF Frees
<1>10. Ring'
  <2>1. CASE own' = [e \in Slots |-> FALSE]
    BY <1>1, <1>3, <2>1, NewRingNext DEF Fresh
  <2>2. CASE ~InUse'
    BY <2>2 DEF Ring
  <2>3. QED
    BY <1>2, <2>1, <2>2
<1>11. QED
  BY <1>3, <1>6, <1>7, <1>8, <1>9, <1>10 DEF SInv

\* The NIC is started on the ring as it is, or stopped under it.
LEMMA LinkSound ==
    ASSUME ~Overtake, IInv, SInv, LinkUp \/ TxTimeout
    PROVE  SInv'
<1>1. /\ UNCHANGED <<cur_tx, dirty_tx, own, desc, len, skb, held, xpc, xe, xn, xpad, running>>
      /\ running
  BY DEF LinkUp, TxTimeout, ring, xmit
<1>2. /\ nic'.broken = nic.broken /\ nic'.at = 0 /\ nic'.inside = FALSE
  BY LinkUpEffect, ResetNicType DEF TxTimeout, IInv
<1>3. Shapes' /\ Lengths' /\ Exact' /\ Heads' /\ Frees'
  BY <1>1, SameRing DEF SInv, Shapes, Lengths, Exact, Heads
<1>4. CASE LinkUp
  <2>1. ~task /\ task' = task /\ ~carrier /\ carrier' = TRUE /\ nic'.on = TRUE
    BY <1>4, LinkUpEffect DEF LinkUp, IInv
  <2>2. InUse /\ InUse'
    BY <1>1, <2>1 DEF InUse
  <2>3. nic.at = 0 /\ nic.inside = FALSE
    BY <2>1 DEF SInv, Device, IInv, States, NicStates
  <2>4. Ring'
    BY <1>1, <1>2, <2>2, <2>3, SameRing DEF SInv
  <2>5. Device'
    BY <1>1, <2>1, <2>2 DEF Device
  <2>6. QED
    BY <1>2, <1>3, <2>4, <2>5 DEF SInv
<1>5. CASE TxTimeout
  <2>1. task' = TRUE /\ nic'.on = FALSE
    BY <1>5, ResetNicType DEF TxTimeout, IInv
  <2>2. ~InUse'
    BY <2>1 DEF InUse
  <2>3. Ring' /\ Device'
    BY <1>1, <1>2, <2>1, <2>2 DEF Ring, Device
  <2>4. QED
    BY <1>2, <1>3, <2>3 DEF SInv
<1>6. QED
  BY <1>4, <1>5

\* The inductive invariant of the contents of the ring.  Neither the count of
\* the packets nor the places of the NIC are inductive by themselves: that
\* start_xmit overwrites no packet and the NIC reads no half posted one needs
\* to know what each descriptor between dirty_tx and cur_tx holds, also while
\* the NIC is off and a late start_xmit goes on.
THEOREM ContentsInvariance ==
    ASSUME SmallPackets, ~Overtake
    PROVE  Spec => [](Orderly => IInv /\ SInv)
<1>1. Init => SInv
  <2>1. SUFFICES ASSUME Init PROVE SInv
    OBVIOUS
  <2>2. /\ own = [e \in Slots |-> FALSE] /\ skb = [e \in Slots |-> FALSE]
        /\ len = [e \in Slots |-> FALSE] /\ desc = [e \in Slots |-> "none"]
        /\ xpad = FALSE /\ xpc = "idle" /\ held = 0 /\ cur_tx = 0 /\ dirty_tx = 0
        /\ nic.on = FALSE /\ nic.at = 0 /\ nic.inside = FALSE /\ nic.broken = FALSE
    BY <2>1 DEF Init
  <2>3. Shapes /\ Device /\ Lengths /\ Heads
    BY <2>2 DEF Shapes, Device, Lengths, DescKinds, Heads
  <2>4. Exact
    <3>1. {e \in Slots : skb[e]} = {}
      BY <2>2
    <3>2. Cardinality({e \in Slots : skb[e]}) = 0
      BY <3>1, FS_EmptySet
    <3>3. held = Cardinality({e \in Slots : skb[e]}) + 0
      BY <2>2, <3>2
    <3>4. QED
      BY <2>2, <3>3 DEF Exact
  <2>5. Ring
    BY <2>2, NewRing DEF Fresh
  <2>6. Frees
    <3>1. \A i \in Slots : 0 + i \in Nat
      BY SizeInNat DEF Slots
    <3>2. QED
      BY <2>2, <3>1, EntryInRing DEF Frees, Pos, Posted
  <2>7. QED
    BY <2>2, <2>3, <2>4, <2>5, <2>6 DEF SInv
<1>2. /\ (States /\ (Orderly => IInv)) /\ (Orderly => SInv) /\ [Next]_vars
      => (Orderly => SInv)'
  <2>1. SUFFICES ASSUME States, Orderly => IInv /\ SInv, [Next]_vars, Orderly' PROVE SInv'
    OBVIOUS
  <2>2. IInv /\ SInv
    BY <2>1, StatesKept
  <2>3. CASE UNCHANGED vars
    <3>1. UNCHANGED <<cur_tx, dirty_tx, own, desc, len, skb, held, xpc, xe, xn, xpad, nic,
                      carrier, running, task>>
      BY <2>3 DEF vars, ring, xmit, dev
    <3>2. Ring' /\ Frees'
      BY <2>2, <3>1, SameRing DEF SInv, InUse
    <3>3. QED
      BY <2>2, <3>1, <3>2 DEF SInv, Shapes, Device, InUse, Lengths, Exact, Heads
  <2>4. ~FifoRaces
    BY <2>1 DEF FifoRaces, Orderly
  <2>5. CASE Next
    BY <2>2, <2>4, <2>5, QuietSound, XmitFragsSound, XmitHeadSound, NicSendSound,
       PollSound, ResetSound, LinkSound
       DEF Next, XmitStep, ResetStep
  <2>6. QED
    BY <2>1, <2>3, <2>5
<1>3. QED
  BY <1>1, <1>2, Invariance, PTL DEF Spec

\* The driver knows of every packet it holds, and frees each exactly once,
\* whether it is sent, dropped by a reset or left over at close.
THEOREM SkbsExactCorrect ==
    ASSUME SmallPackets, ~Overtake
    PROVE  Spec => []SkbsExact
<1>1. (Orderly => IInv /\ SInv) => SkbsExact
  BY DEF SInv, Exact, SkbsExact
<1>2. QED
  BY <1>1, ContentsInvariance, PTL

\* The order in which start_xmit hands over descriptors keeps the NIC from
\* ever seeing part of a packet, one that starts with packets in its ring
\* included.
THEOREM WholePacketsCorrect ==
    ASSUME SmallPackets, ~Overtake
    PROVE  Spec => []WholePackets
<1>1. IInv /\ SInv => ~nic.broken /\ (nic.inside => own[nic.at])
  <2>1. SUFFICES ASSUME IInv, SInv, nic.inside PROVE own[nic.at]
    BY DEF SInv
  <2>2. PICK sent \in 0..Outstanding : Descriptors(sent) /\ Sending(sent)
    BY <2>1 DEF SInv, Device, Ring
  <2>3. nic.at = Pos(sent) /\ sent < Outstanding
    BY <2>1, <2>2 DEF Sending
  <2>4. sent \in Slots /\ sent <= sent
    BY <2>1, Natural, SizeInNat DEF Slots
  <2>5. QED
    BY <2>2, <2>3, <2>4 DEF Descriptors
<1>2. (Orderly => IInv /\ SInv) => WholePackets
  BY <1>1 DEF WholePackets
<1>3. QED
  BY <1>2, ContentsInvariance, PTL

\* The NIC looks for packets where start_xmit has put them, across resets,
\* timeouts and the wrap-around of the indices.
THEOREM InStepCorrect ==
    ASSUME SmallPackets, ~Overtake
    PROVE  Spec => []InStep
<1>1. (Orderly => IInv /\ SInv) => InStep
  <2>1. SUFFICES ASSUME IInv, SInv, nic.on, Unlocked
                 PROVE  \E sent \in 0..Outstanding :
                           /\ nic.at = Entry(dirty_tx + sent)
                           /\ \A i \in 0..(NUM_TX_DESC - 1) :
                                 own[Entry(dirty_tx + i)] <=> sent <= i /\ i < Outstanding
    BY DEF InStep
  <2>2. PICK sent \in 0..Outstanding : Descriptors(sent) /\ Sending(sent)
    BY <2>1 DEF SInv, Device, Ring
  <2>3. nic.at = Entry(dirty_tx + sent)
    BY <2>2 DEF Sending, Pos
  <2>4. \A i \in 0..(NUM_TX_DESC - 1) :
           own[Entry(dirty_tx + i)] <=> sent <= i /\ i < Outstanding
    BY <2>1, <2>2 DEF Descriptors, Posted, Pos, Slots, Unlocked
  <2>5. QED
    BY <2>2, <2>3, <2>4
<1>2. QED
  BY <1>1, ContentsInvariance, PTL

-----------------------------------------------------------------------------
(***************************************************************************)
(* The ring is a queue of packets.                                         *)
(***************************************************************************)

\* What the NIC has been given are the outstanding descriptors it has not sent.
LEMMA GivenPlaces ==
    ASSUME IInv, NEW sent \in 0..Outstanding, Descriptors(sent)
    PROVE  \A i \in Slots : Pos(i) \in Given <=> sent <= i /\ i < Outstanding
<1>1. TAKE i \in Slots
<1>2. /\ Outstanding \in Nat /\ xn \in Nat /\ sent \in Nat /\ i \in Nat
      /\ NUM_TX_DESC \in Nat /\ i <= NUM_TX_DESC - 1
  BY Natural, SizeInNat DEF Slots
<1>3. Pos(i) \in Slots
  BY <1>2, PosInRing
<1>4. own[Pos(i)] <=> (sent <= i /\ i < Outstanding) \/ Posted(i)
  BY DEF Descriptors
<1>5. CASE xpc = "head"
  <2>1. Pos(i) \in Further <=> Posted(i)
    BY <1>5, FurtherPlaces DEF Posted
  <2>2. Posted(i) => ~(i < Outstanding)
    BY <1>2 DEF Posted
  <2>3. QED
    BY <1>3, <1>4, <1>5, <2>1, <2>2 DEF Given
<1>6. CASE xpc # "head"
  BY <1>3, <1>4, <1>6 DEF Given, Posted
<1>7. QED
  BY <1>5, <1>6

\* Pending shows the contents of the ring.
Live == InUse /\ Orderly

PendingIsOutstanding ==
    IInv /\ SInv /\ Live => \A sent \in 0..Outstanding : Descriptors(sent) =>
        /\ Pending = [i \in 1..(Outstanding - sent) |-> desc[Pos(sent + (i - 1))]]
        /\ Pending \in Seq(DescKinds) /\ Len(Pending) = Outstanding - sent
        /\ Cardinality(Given) = Outstanding - sent
        /\ \A i \in 1..(Outstanding - sent) :
              Entry(cur_tx + NUM_TX_DESC - (Outstanding - sent) + (i - 1)) = Pos(sent + (i - 1))

LEMMA PendingPlaces == PendingIsOutstanding
<1>1. SUFFICES ASSUME IInv, SInv, Live, NEW sent \in 0..Outstanding, Descriptors(sent)
               PROVE  /\ Pending = [i \in 1..(Outstanding - sent) |-> desc[Pos(sent + (i - 1))]]
                      /\ Pending \in Seq(DescKinds) /\ Len(Pending) = Outstanding - sent
                      /\ Cardinality(Given) = Outstanding - sent
                      /\ \A i \in 1..(Outstanding - sent) :
                            Entry(cur_tx + NUM_TX_DESC - (Outstanding - sent) + (i - 1))
                              = Pos(sent + (i - 1))
  BY DEF PendingIsOutstanding
<1>2. /\ Outstanding \in Nat /\ sent \in Nat /\ sent <= Outstanding /\ dirty_tx \in Nat
      /\ NUM_TX_DESC \in Nat \ {0} /\ Outstanding <= NUM_TX_DESC - 1 /\ cur_tx \in Nat
      /\ Outstanding - sent \in Nat /\ dirty_tx + sent \in Nat
      /\ Outstanding - sent \in 0..NUM_TX_DESC
  BY <1>1, Natural, SizeInNat
<1>3. ASSUME NEW i \in 0..(NUM_TX_DESC - 1)
      PROVE  (dirty_tx + sent + i) % NUM_TX_DESC \in Given <=> i < Outstanding - sent
  <2>1. CASE sent + i < NUM_TX_DESC
    <3>1. /\ sent + i \in Slots /\ dirty_tx + sent + i = dirty_tx + (sent + i)
          /\ sent <= sent + i /\ (sent + i < Outstanding <=> i < Outstanding - sent)
      BY <1>2, <2>1 DEF Slots
    <3>2. Pos(sent + i) \in Given <=> sent <= sent + i /\ sent + i < Outstanding
      BY <1>1, <3>1, GivenPlaces
    <3>3. QED
      BY <3>1, <3>2 DEF Pos, Entry
  <2>2. CASE sent + i >= NUM_TX_DESC
    <3> DEFINE k == sent + i - NUM_TX_DESC
    <3>1. /\ k \in Slots /\ ~(sent <= k) /\ ~(i < Outstanding - sent) /\ dirty_tx + k \in Nat
          /\ dirty_tx + sent + i = (dirty_tx + k) + NUM_TX_DESC
      BY <1>2, <2>2 DEF Slots
    <3> HIDE DEF k
    <3>2. (dirty_tx + sent + i) % NUM_TX_DESC = Pos(k)
      BY <1>2, <3>1, Turn DEF Pos, Entry
    <3>3. QED
      BY <1>1, <3>1, <3>2, GivenPlaces
  <2>3. QED
    BY <1>2, <2>1, <2>2
<1>4. Cardinality(Given) = Outstanding - sent
  <2>1. Given \in SUBSET (0..(NUM_TX_DESC - 1))
    BY DEF Given, Slots
  <2>2. QED
    BY <1>2, <1>3, <2>1, Counted
<1>5. ASSUME NEW i \in 1..(Outstanding - sent)
      PROVE  /\ Entry(cur_tx + NUM_TX_DESC - (Outstanding - sent) + (i - 1))
                  = Pos(sent + (i - 1))
             /\ desc[Pos(sent + (i - 1))] \in DescKinds
  <2> DEFINE j == NUM_TX_DESC - (Outstanding - sent) + (i - 1)
  <2>1. /\ j \in Nat /\ sent + (i - 1) \in Nat /\ dirty_tx + (sent + (i - 1)) \in Nat
        /\ cur_tx + NUM_TX_DESC - (Outstanding - sent) + (i - 1) = cur_tx + j
        /\ dirty_tx + (Outstanding + j) = (dirty_tx + (sent + (i - 1))) + NUM_TX_DESC
    BY <1>2
  <2> HIDE DEF j
  <2>2. Entry(cur_tx + j) = Pos(Outstanding + j)
    BY <1>1, <2>1, PosOfCur
  <2>3. Pos(Outstanding + j) = Pos(sent + (i - 1))
    BY <1>2, <2>1, Turn DEF Pos, Entry
  <2>4. Pos(sent + (i - 1)) \in Slots
    BY <1>1, <2>1, PosInRing
  <2>5. QED
    BY <1>1, <2>1, <2>2, <2>3, <2>4 DEF SInv, Shapes
<1>6. Pending = [i \in 1..(Outstanding - sent) |-> desc[Pos(sent + (i - 1))]]
  BY <1>1, <1>4, <1>5 DEF Pending, Live, InUse
<1>7. Pending \in Seq(DescKinds) /\ Len(Pending) = Outstanding - sent
  <2> DEFINE g(i) == desc[Pos(sent + (i - 1))]
  <2>1. \A i \in 1..(Outstanding - sent) : g(i) \in DescKinds
    BY <1>5
  <2> HIDE DEF g
  <2>2. /\ [i \in 1..(Outstanding - sent) |-> g(i)] \in Seq(DescKinds)
        /\ Len([i \in 1..(Outstanding - sent) |-> g(i)]) = Outstanding - sent
    BY <1>2, <2>1
  <2>3. QED
    BY <1>6, <2>2 DEF g
<1>8. QED
  BY <1>4, <1>5, <1>6, <1>7

LEMMA PendingPlacesNext == PendingIsOutstanding'
BY PendingPlaces, PTL

\* A ring that waits to be renewed counts as empty.
PendingIsNone == ~Live => Pending = <<>>

LEMMA NoneLive == PendingIsNone
BY DEF PendingIsNone, Live, InUse, Pending

LEMMA NoneLiveNext == PendingIsNone'
BY NoneLive, PTL

\* Steps that leave alone what the NIC has been given.
LEMMA SamePending ==
    ASSUME IInv, SInv, Live' <=> Live, Given' = Given, cur_tx' = cur_tx,
           \A e \in Given : desc'[e] = desc[e]
    PROVE  Pending' = Pending
<1>1. CASE ~Live
  BY <1>1, NoneLive, NoneLiveNext DEF PendingIsNone
<1>2. CASE Live
  <2>1. PICK sent \in 0..Outstanding : Descriptors(sent)
    BY <1>2 DEF Live, SInv, Ring
  <2>2. /\ Cardinality(Given) = Outstanding - sent
        /\ \A i \in 1..(Outstanding - sent) :
              Entry(cur_tx + NUM_TX_DESC - (Outstanding - sent) + (i - 1)) = Pos(sent + (i - 1))
    BY <1>2, <2>1, PendingPlaces DEF PendingIsOutstanding
  <2>3. ASSUME NEW i \in 1..(Outstanding - sent)
        PROVE  desc'[Pos(sent + (i - 1))] = desc[Pos(sent + (i - 1))]
    <3>1. sent + (i - 1) \in Slots /\ sent <= sent + (i - 1) /\ sent + (i - 1) < Outstanding
      BY Natural, SizeInNat DEF Slots
    <3>2. Pos(sent + (i - 1)) \in Given
      BY <2>1, <3>1, GivenPlaces
    <3>3. QED
      BY <3>2
  <2>4. Live /\ Live'
    BY <1>2
  <2>5. QED
    BY <2>2, <2>3, <2>4 DEF Pending, Live, InUse
<1>3. QED
  BY <1>1, <1>2

\* Nothing is given before the first descriptor of a packet, and taken away by
\* tx_interrupt is only what has been sent.
LEMMA QuietPending ==
    ASSUME IInv, SInv, Orderly' <=> Orderly,
           \/ Call \/ XmitEnter \/ XmitStop
           \/ NicSleep \/ Interrupt \/ PhyChange \/ ResetTaskReturn
           \/ XmitFrags \/ Poll
    PROVE  UNCHANGED SendQueue!qvars
<1> USE DEF XmitEnter
<1>1. nic'.on = nic.on /\ UNCHANGED cur_tx
  <2>1. CASE NicSleep \/ Interrupt \/ Poll
    BY <2>1, NicEffect DEF IInv, NicSleep, Interrupt, Poll, ring
  <2>2. CASE Call \/ XmitEnter \/ XmitStop \/ PhyChange \/ ResetTaskReturn \/ XmitFrags
    BY <2>2 DEF Call, XmitBusy, Xmit, XmitStop, PhyChange, ResetTaskReturn, XmitFrags, ring
  <2>3. QED
    BY <2>1, <2>2
<1>2. Online' = Online
  BY <1>1 DEF Online, Orderly, IInv, States, NicStates
<1>3. Live' <=> Live
  <2>1. InUse' <=> InUse
    BY DEF Call, XmitBusy, Xmit, XmitStop, NicSleep, Interrupt, PhyChange, ResetTaskReturn,
           XmitFrags, Poll, dev, InUse
  <2>2. QED
    BY <2>1 DEF Live
<1>4. CASE \/ Call \/ XmitEnter \/ XmitStop
           \/ NicSleep \/ Interrupt \/ PhyChange \/ ResetTaskReturn
  <2>1. /\ UNCHANGED <<own, desc>>
        /\ \/ UNCHANGED <<xpc, xn>>
           \/ xpc # "head" /\ xpc' # "head"
    BY <1>4 DEF Call, XmitBusy, Xmit, XmitStop, NicSleep, Interrupt, PhyChange,
                ResetTaskReturn, ring, xmit
  <2>2. Given' = Given
    BY <1>1, <2>1 DEF Given, Further
  <2>3. QED
    BY <1>1, <1>2, <1>3, <2>1, <2>2, SamePending DEF SendQueue!qvars
<1>5. CASE XmitFrags
  <2>1. /\ xpc = "frags" /\ xpc' = "head" /\ UNCHANGED xn
        /\ own' = [e \in Slots |-> own[e] \/ e \in Further]
        /\ \A e \in Slots \ Further : desc'[e] = desc[e]
    BY <1>5 DEF XmitFrags
  <2>2. Further' = Further
    BY <1>1, <2>1 DEF Further
  <2>3. CASE ~Live
    BY <1>2, <1>3, <2>3, NoneLive, NoneLiveNext DEF PendingIsNone, SendQueue!qvars
  <2>4. CASE Live
    <3>1. PICK sent \in 0..Outstanding : Descriptors(sent)
      BY <2>4 DEF Live, SInv, Ring
    <3>2. \A j \in 1..xn : Entry(cur_tx + j) \in Slots /\ ~own[Entry(cur_tx + j)]
      <4>1. TAKE j \in 1..xn
      <4>2. Outstanding + j \in Slots /\ ~(Outstanding + j < Outstanding) /\ j \in Nat
        BY <2>1, Natural, FurtherPlaces, SizeInNat DEF Slots
      <4>3. Entry(cur_tx + j) = Pos(Outstanding + j) /\ Pos(Outstanding + j) \in Slots
        BY <4>2, PosOfCur, PosInRing, Natural
      <4>4. ~own[Pos(Outstanding + j)]
        BY <2>1, <3>1, <4>2 DEF Descriptors, Posted
      <4>5. QED
        BY <4>3, <4>4
    <3>3. \A e \in Further : e \in Slots /\ ~own[e]
      BY <3>2 DEF Further
    <3>4. Given' = Given
      BY <2>1, <2>2, <3>3 DEF Given
    <3>5. \A e \in Given : desc'[e] = desc[e]
      BY <2>1, <3>3 DEF Given
    <3>6. QED
      BY <1>1, <1>2, <1>3, <3>4, <3>5, SamePending DEF SendQueue!qvars
  <2>5. QED
    BY <2>3, <2>4
<1>6. CASE Poll
  <2>1. xpc # "head" /\ UNCHANGED <<own, xpc>>
    BY <1>6 DEF Poll, xmit, Unlocked
  <2>2. PICK k \in 0..Outstanding :
           /\ Reapable(k)
           /\ desc' = [e \in Slots |-> IF e \in {Entry(dirty_tx + i) : i \in 0..(k - 1)}
                                       THEN "none" ELSE desc[e]]
    BY <1>6 DEF Poll
  <2>3. Given' = Given
    BY <2>1 DEF Given
  <2>4. \A e \in Given : desc'[e] = desc[e]
    BY <2>2 DEF Given, Reapable
  <2>5. QED
    BY <1>1, <1>2, <1>3, <2>3, <2>4, SamePending DEF SendQueue!qvars
<1>7. QED
  BY <1>4, <1>5, <1>6

LEMMA Joined ==
    ASSUME NEW S, NEW s \in Seq(S), NEW t \in Seq(S)
    PROVE  s \o t = [i \in 1..(Len(s) + Len(t)) |-> IF i <= Len(s) THEN s[i] ELSE t[i - Len(s)]]
<1>1. /\ s \o t \in Seq(S) /\ Len(s \o t) = Len(s) + Len(t)
      /\ \A i \in 1..(Len(s) + Len(t)) :
            (s \o t)[i] = IF i <= Len(s) THEN s[i] ELSE t[i - Len(s)]
  BY ConcatProperties
<1>2. s \o t \in [1..(Len(s) + Len(t)) -> S]
  BY <1>1, LenProperties
<1>3. QED
  BY <1>1, <1>2

LEMMA Shortened ==
    ASSUME NEW S, NEW s \in Seq(S), s # <<>>
    PROVE  Tail(s) = [i \in 1..(Len(s) - 1) |-> s[i + 1]]
<1>1. /\ Tail(s) \in Seq(S) /\ Len(Tail(s)) = Len(s) - 1
      /\ \A i \in 1..(Len(s) - 1) : Tail(s)[i] = s[i + 1]
  BY HeadTailProperties
<1>2. Tail(s) \in [1..(Len(s) - 1) -> S]
  BY <1>1, LenProperties
<1>3. QED
  BY <1>1, <1>2

\* start_xmit gives the NIC a whole packet at once.
LEMMA XmitHeadPuts ==
    ASSUME IInv, SInv, IInv', SInv', Orderly' <=> Orderly, XmitHead
    PROVE  SendQueue!QNext \/ UNCHANGED SendQueue!qvars
<1>1. /\ xpc = "head" /\ desc' = [desc EXCEPT ![xe] = IF xn = 0 THEN "only" ELSE "first"]
      /\ cur_tx' = Wrap(cur_tx + xn + 1) /\ UNCHANGED <<dirty_tx, xn, running, task>>
  BY DEF XmitHead, dev
<1>2. nic'.on = nic.on /\ nic'.at = nic.at
  BY NicEffect DEF IInv
<1>3. Online' = Online /\ (Live' <=> Live)
  BY <1>1, <1>2 DEF Online, Live, InUse, Orderly, IInv, States, NicStates
<1>4. CASE ~Live
  BY <1>3, <1>4, NoneLive, NoneLiveNext DEF PendingIsNone, SendQueue!qvars
<1>5. CASE Live
  <2>1. PICK sent \in 0..Outstanding : Descriptors(sent) /\ Sending(sent)
    BY <1>5 DEF Live, SInv, Ring
  <2>2. /\ Outstanding \in Nat /\ xn \in Nat /\ sent \in Nat /\ sent <= Outstanding
        /\ NUM_TX_DESC \in Nat /\ Outstanding + xn + 1 <= NUM_TX_DESC - 1
    BY <1>1, Natural, SizeInNat DEF IInv, Room
  <2>3. /\ \A i \in 0..(Outstanding + xn) : i \in Slots
        /\ Outstanding \in 0..(Outstanding + xn) /\ sent \in 0..(Outstanding + xn)
    BY <2>2 DEF Slots
  <2>4. Outstanding' = Outstanding + xn + 1 /\ \A i : Pos(i)' = Pos(i)
    <3>1. Outstanding' = Outstanding + xn + 1
      BY <1>1, <2>2, Posting DEF IInv, Outstanding
    <3>2. QED
      BY <1>1, <3>1 DEF Pos
  <2>5. xe = Pos(Outstanding) /\ xe \in Slots
    BY <1>1, <2>2, PosOfCur, PosInRing DEF SInv, Heads
  <2>6. PICK z \in 0..Outstanding' : Descriptors(z)' /\ Sending(z)'
    BY <1>3, <1>5 DEF Live, SInv, Ring
  <2>7. z = sent
    <3>1. z \in Slots /\ sent \in Slots
      BY <2>2, <2>4 DEF Slots
    <3>2. Pos(z) = Pos(sent)
      BY <1>2, <2>1, <2>4, <2>6 DEF Sending
    <3>3. QED
      BY <3>1, <3>2, Apart
  <2>8. /\ Pending = [i \in 1..(Outstanding - sent) |-> desc[Pos(sent + (i - 1))]]
        /\ Pending \in Seq(DescKinds) /\ Len(Pending) = Outstanding - sent
    BY <1>5, <2>1, PendingPlaces DEF PendingIsOutstanding
  <2>9. Pending' = [i \in 1..(Outstanding + xn + 1 - sent) |-> desc'[Pos(sent + (i - 1))]]
    <3>1. Pending' = [i \in 1..(Outstanding' - sent) |-> desc'[Pos(sent + (i - 1))']]
      BY <1>3, <1>5, <2>6, <2>7, PendingPlacesNext DEF PendingIsOutstanding
    <3>2. \A i : Pos(sent + (i - 1))' = Pos(sent + (i - 1))
      BY <2>4
    <3>3. Pending' = [i \in 1..(Outstanding' - sent) |-> desc'[Pos(sent + (i - 1))]]
      BY <3>1, <3>2
    <3>4. Outstanding' - sent = Outstanding + xn + 1 - sent
      BY <2>2, <2>4
    <3>5. QED
      BY <3>3, <3>4
  <2> DEFINE n == xn + 1
  <2>10. /\ Packet(n) \in Seq(DescKinds) /\ Len(Packet(n)) = n /\ n \in 1..NUM_TX_DESC
         /\ n \in Nat
    <3>1. n \in Nat /\ n \in 1..NUM_TX_DESC
      BY <2>2
    <3> HIDE DEF n
    <3>2. Packet(n) \in [1..n -> DescKinds]
      BY DEF Packet, DescKinds
    <3>3. QED
      BY <3>1, <3>2
  <2>11. ASSUME NEW j \in 1..n
         PROVE  desc'[Pos(Outstanding + (j - 1))] = Packet(n)[j]
    <3>1. desc \in [Slots -> DescKinds]
      BY DEF SInv, Shapes
    <3>2. CASE j = 1
      <4>1. Outstanding + (j - 1) = Outstanding
        BY <2>2, <3>2
      <4>2. desc'[xe] = IF xn = 0 THEN "only" ELSE "first"
        BY <1>1, <2>5, <3>1
      <4>3. Packet(n)[j] = IF xn = 0 THEN "only" ELSE "first"
        BY <2>2, <3>2 DEF Packet
      <4>4. QED
        BY <2>5, <4>1, <4>2, <4>3
    <3>3. CASE j # 1
      <4>1. /\ Outstanding + (j - 1) \in Slots /\ Outstanding < Outstanding + (j - 1)
            /\ Outstanding + (j - 1) <= Outstanding + xn
            /\ Outstanding + (j - 1) = Outstanding + xn <=> j = n
            /\ xn # 0 /\ Outstanding \in Slots /\ Outstanding # Outstanding + (j - 1)
        BY <2>2, <3>3 DEF Slots
      <4>2. Posted(Outstanding + (j - 1))
        BY <1>1, <4>1 DEF Posted
      <4>3. desc[Pos(Outstanding + (j - 1))] = IF j = n THEN "last" ELSE "mid"
        BY <2>1, <4>1, <4>2 DEF Descriptors
      <4>4. Pos(Outstanding + (j - 1)) # xe
        BY <2>5, <4>1, Apart
      <4>5. Pos(Outstanding + (j - 1)) \in Slots
        BY <4>1, <2>2, PosInRing
      <4>6. Packet(n)[j] = IF j = n THEN "last" ELSE "mid"
        BY <2>2, <3>3, <4>1 DEF Packet
      <4>7. QED
        BY <1>1, <3>1, <4>3, <4>4, <4>5, <4>6
    <3>4. QED
      BY <3>2, <3>3
  <2> HIDE DEF n
  <2>12. ASSUME NEW i \in 1..(Outstanding - sent)
         PROVE  desc'[Pos(sent + (i - 1))] = Pending[i]
    <3>1. sent + (i - 1) \in Slots /\ Outstanding \in Slots /\ sent + (i - 1) # Outstanding
          /\ sent + (i - 1) \in Nat
      BY <2>2 DEF Slots
    <3>2. Pos(sent + (i - 1)) # xe /\ Pos(sent + (i - 1)) \in Slots
      BY <2>5, <3>1, Apart, PosInRing
    <3>3. desc \in [Slots -> DescKinds]
      BY DEF SInv, Shapes
    <3>4. QED
      BY <1>1, <2>8, <3>2, <3>3
  <2>13. Pending' = Pending \o Packet(n)
    <3> DEFINE m == Outstanding - sent
    <3>1. m \in Nat /\ Outstanding + xn + 1 - sent = m + n
      BY <2>2 DEF n
    <3>2. Pending \o Packet(n)
            = [i \in 1..(m + n) |-> IF i <= m THEN Pending[i] ELSE Packet(n)[i - m]]
      <4> HIDE DEF m
      <4>1. Len(Pending) = m
        BY <2>8 DEF m
      <4>2. Pending \o Packet(n)
              = [i \in 1..(Len(Pending) + Len(Packet(n))) |->
                    IF i <= Len(Pending) THEN Pending[i] ELSE Packet(n)[i - Len(Pending)]]
        <5>1. Pending \in Seq(DescKinds) /\ Packet(n) \in Seq(DescKinds)
          BY <2>8, <2>10
        <5>2. QED
          BY <5>1, Joined, Zenon
      <4>3. QED
        BY <2>10, <4>1, <4>2
    <3>3. ASSUME NEW i \in 1..(m + n)
          PROVE  desc'[Pos(sent + (i - 1))] = IF i <= m THEN Pending[i] ELSE Packet(n)[i - m]
      <4>1. CASE i <= m
        <5>1. i \in 1..(Outstanding - sent)
          BY <3>1, <4>1
        <5>2. QED
          BY <2>12, <4>1, <5>1
      <4>2. CASE ~(i <= m)
        <5>1. i - m \in 1..n /\ Outstanding + ((i - m) - 1) = sent + (i - 1)
          BY <2>2, <2>10, <3>1, <4>2
        <5>2. QED
          BY <2>11, <4>2, <5>1
      <4>3. QED
        BY <4>1, <4>2
    <3>4. Pending' = [i \in 1..(m + n) |-> desc'[Pos(sent + (i - 1))]]
      BY <2>9, <3>1
    <3> HIDE DEF m
    <3>5. QED
      BY <3>2, <3>3, <3>4
  <2>14. Len(Pending) + Len(Packet(n)) <= NUM_TX_DESC
    BY <2>2, <2>8, <2>10 DEF n
  <2>15. SendQueue!Put(Packet(n))
    BY <1>3, <2>13, <2>14 DEF SendQueue!Put
  <2>16. QED
    BY <2>10, <2>15 DEF SendQueue!QNext
<1>6. QED
  BY <1>4, <1>5

\* What the NIC sends is the first of the queue.
LEMMA NicSendTakes ==
    ASSUME IInv, SInv, IInv', SInv', Orderly, Orderly', NicSend
    PROVE  SendQueue!Take
<1>1. /\ own[nic.at] /\ nic.on /\ nic'.at = Entry(nic.at + 1) /\ nic'.on = nic.on
      /\ UNCHANGED <<cur_tx, dirty_tx, desc, running, task>>
  BY NicSendEffect DEF NicSend, dev, IInv
<1>2. Online /\ Online' = Online /\ Live /\ Live'
  BY <1>1 DEF Online, Live, InUse, SInv, Device
<1>3. PICK sent \in 0..Outstanding : Descriptors(sent) /\ Sending(sent)
  BY <1>2 DEF Live, SInv, Ring
<1>4. /\ Outstanding \in Nat /\ sent \in Nat /\ sent \in Slots /\ sent <= Outstanding
      /\ Outstanding <= NUM_TX_DESC - 1 /\ NUM_TX_DESC \in Nat \ {0} /\ dirty_tx \in Nat
  BY Natural, SizeInNat DEF Slots
<1>5. nic.at = Pos(sent)
  BY <1>3 DEF Sending
<1>6. sent < Outstanding
  <2>1. (sent <= sent /\ sent < Outstanding) \/ Posted(sent)
    BY <1>1, <1>3, <1>4, <1>5 DEF Descriptors
  <2>2. ~Posted(sent)
    BY <1>4 DEF Posted
  <2>3. QED
    BY <2>1, <2>2
<1>7. Outstanding' = Outstanding /\ \A i : Pos(i)' = Pos(i)
  BY <1>1 DEF Outstanding, Pos
<1>8. PICK z \in 0..Outstanding' : Descriptors(z)' /\ Sending(z)'
  BY <1>2 DEF Live, SInv, Ring
<1>9. z = sent + 1
  <2>1. z \in Slots /\ sent + 1 \in Slots
    BY <1>4, <1>6, <1>7 DEF Slots
  <2>2. nic'.at = Pos(sent + 1)
    <3>1. dirty_tx + sent \in Nat /\ (dirty_tx + sent) + 1 = dirty_tx + (sent + 1)
      BY <1>4
    <3>2. Entry(Entry(dirty_tx + sent) + 1) = Entry((dirty_tx + sent) + 1)
      <4>1. \A n \in Nat \ {0}, x \in Nat : ((x % n) + 1) % n = (x + 1) % n
        BY Successor
      <4>2. QED
        BY <1>4, <3>1, <4>1, Zenon DEF Entry
    <3>3. nic'.at = Entry(Entry(dirty_tx + sent) + 1)
      BY <1>1, <1>5, Zenon DEF Pos
    <3>4. QED
      BY <3>1, <3>2, <3>3, Zenon DEF Pos
  <2>3. Pos(z) = Pos(sent + 1)
    BY <1>7, <1>8, <2>2 DEF Sending
  <2>4. QED
    BY <2>1, <2>3, Apart
<1>10. /\ Pending = [i \in 1..(Outstanding - sent) |-> desc[Pos(sent + (i - 1))]]
      /\ Pending \in Seq(DescKinds) /\ Len(Pending) = Outstanding - sent
  BY <1>2, <1>3, PendingPlaces DEF PendingIsOutstanding
<1>11. Pending' = [i \in 1..(Outstanding - (sent + 1)) |-> desc[Pos((sent + 1) + (i - 1))]]
  <2>1. Pending' = [i \in 1..(Outstanding' - (sent + 1)) |->
                      desc'[Pos((sent + 1) + (i - 1))']]
    BY <1>2, <1>8, <1>9, PendingPlacesNext DEF PendingIsOutstanding
  <2>2. QED
    BY <1>1, <1>7, <2>1 DEF Pos
<1>12. Pending # <<>> /\ Tail(Pending) = [i \in 1..(Len(Pending) - 1) |-> Pending[i + 1]]
  <2>1. Pending # <<>>
    <3>1. Len(Pending) # 0
      BY <1>4, <1>6, <1>10
    <3>2. QED
      BY <3>1, EmptySeq
  <2>2. Pending \in Seq(DescKinds)
    BY <1>10
  <2>3. QED
    BY <2>1, <2>2, Shortened, Zenon
<1>13. ASSUME NEW i \in 1..(Outstanding - (sent + 1))
       PROVE  desc[Pos((sent + 1) + (i - 1))] = Pending[i + 1]
  <2>1. i + 1 \in 1..(Outstanding - sent) /\ (sent + 1) + (i - 1) = sent + ((i + 1) - 1)
    BY <1>4, <1>6
  <2>2. QED
    BY <1>10, <2>1
<1>14. Pending' = Tail(Pending)
  <2>1. Len(Pending) - 1 = Outstanding - (sent + 1)
    BY <1>4, <1>10
  <2>2. QED
    BY <1>11, <1>12, <1>13, <2>1
<1>15. QED
  BY <1>2, <1>12, <1>14 DEF SendQueue!Take

NothingPending == (\A e \in Slots : ~own[e]) => Pending = <<>>

LEMMA NonePending == NothingPending
<1>1. SUFFICES ASSUME \A e \in Slots : ~own[e] PROVE Pending = <<>>
  BY DEF NothingPending
<1>2. Given = {}
  BY <1>1 DEF Given
<1>3. Cardinality(Given) = 0
  BY <1>2, FS_EmptySet
<1>4. QED
  BY <1>3 DEF Pending

LEMMA NonePendingNext == NothingPending'
BY NonePending, PTL

\* The NIC is stopped under a ring that is dropped, or started on the ring as it
\* is.
LEMMA SwitchSteps ==
    ASSUME ~Overtake, IInv, SInv, Orderly, Orderly',
           \/ LinkUp \/ LinkDown \/ EsdTimer \/ TxTimeout
           \/ ResetTask \/ ResetTaskShort \/ Down \/ Open
    PROVE  SendQueue!QNext
<1>1. CASE LinkUp
  <2>1. /\ ~task /\ ~carrier /\ UNCHANGED <<own, desc, cur_tx, xpc, xn, running, task>>
    BY <1>1 DEF LinkUp, ring, xmit
  <2>2. ~nic.on /\ nic'.on = TRUE
    BY <1>1, <2>1, LinkUpEffect DEF SInv, Device, IInv
  <2>3. Online = FALSE /\ Online' = TRUE
    BY <2>2 DEF Online
  <2>4. Live' <=> Live
    BY <2>1 DEF Live, InUse
  <2>5. Given' = Given
    BY <2>1 DEF Given, Further
  <2>6. Pending' = Pending
    BY <2>1, <2>4, <2>5, SamePending
  <2>7. QED
    BY <2>3, <2>6 DEF SendQueue!QNext, SendQueue!SwitchOn
<1>2. CASE \/ LinkDown \/ EsdTimer \/ TxTimeout
           \/ ResetTask \/ ResetTaskShort \/ Down \/ Open
  <2>1. nic'.on = FALSE
    <3>1. CASE LinkDown \/ EsdTimer \/ TxTimeout \/ Down
      BY <3>1, ResetNicType DEF LinkDown, EsdTimer, TxTimeout, Down, IInv
    <3>2. CASE ResetTask \/ ResetTaskShort
      <4>1. nic.on = FALSE
        BY <3>2 DEF ResetTask, ResetTaskShort, SInv, Device, InUse, IInv, States, NicStates
      <4>2. QED
        BY <3>2, <4>1, NicEffect DEF IInv
    <3>3. CASE Open
      BY <3>3 DEF Open, SInv, Device, InUse, IInv, States, NicStates
    <3>4. QED
      BY <1>2, <3>1, <3>2, <3>3
  <2>2. Pending' = <<>>
    <3>1. CASE TxTimeout \/ ResetTaskShort \/ Down
      <4>1. ~Live'
        BY <3>1 DEF TxTimeout, ResetTaskShort, Down, dev, Live, InUse
      <4>2. QED
        BY <4>1, NoneLiveNext DEF PendingIsNone
    <3>2. CASE LinkDown \/ EsdTimer \/ ResetTask \/ Open
      <4>1. \A e \in Slots : ~own'[e]
        BY <3>2 DEF LinkDown, EsdTimer, ResetTask, Open, RenewRing
      <4>2. QED
        BY <4>1, NonePendingNext DEF NothingPending
    <3>3. QED
      BY <1>2, <3>1, <3>2
  <2>3. Online' = FALSE
    BY <2>1 DEF Online
  <2>4. QED
    BY <2>2, <2>3 DEF SendQueue!QNext, SendQueue!SwitchOff
<1>3. QED
  BY <1>1, <1>2

\* The FIFO workaround leaves nothing to send.
LEMMA FifoOverEmpties ==
    ASSUME FifoOver
    PROVE  Pending' = <<>>
<1>1. \A e \in Slots : ~own'[e]
  BY DEF FifoOver, RenewRing
<1>2. QED
  BY <1>1, NonePendingNext DEF NothingPending

\* The transmit ring implements a bounded queue of whole packets, for every
\* ring size and width of the indices, where packets have fewer fragments than
\* MAX_SKB_FRAGS: packets leave in the order of the calls of start_xmit, those
\* of a late call under a stopped NIC included.
THEOREM SentInOrderCorrect ==
    ASSUME SmallPackets, ~Overtake
    PROVE  Spec => SentInOrder
<1>1. Init => SendQueue!QInit
  <2>1. SUFFICES ASSUME Init PROVE Online = FALSE /\ Pending = <<>>
    BY DEF SendQueue!QInit
  <2>2. nic.on = FALSE /\ own = [e \in Slots |-> FALSE]
    BY <2>1 DEF Init
  <2>3. QED
    BY <2>2, NonePending DEF NothingPending, Online
<1>2. /\ (States /\ (Orderly => IInv)) /\ (Orderly => IInv /\ SInv)
      /\ (Orderly => IInv /\ SInv)' /\ [Next]_vars
      => [SendQueue!QNext \/ (FifoOver /\ Pending' = <<>>)]_(SendQueue!qvars)
  <2>1. SUFFICES ASSUME States, Orderly => IInv /\ SInv, Orderly' => IInv' /\ SInv', [Next]_vars
                 PROVE  \/ SendQueue!QNext \/ (FifoOver /\ Pending' = <<>>)
                        \/ UNCHANGED SendQueue!qvars
    OBVIOUS
  <2>2. CASE UNCHANGED vars
    BY <2>2 DEF vars, ring, xmit, dev, SendQueue!qvars, Online, Orderly, Pending, Given, Further
  <2>3. CASE Next /\ ~Orderly'
    <3>1. Online' = FALSE /\ Pending' = <<>>
      BY <2>3, NoneLiveNext DEF Online, Live, PendingIsNone
    <3>2. QED
      BY <3>1 DEF SendQueue!QNext, SendQueue!SwitchOff
  <2>4. CASE Next /\ Orderly'
    <3>1. Orderly /\ IInv /\ SInv /\ IInv' /\ SInv' /\ Next
      BY <2>1, <2>4, StatesKept
    <3>2. CASE XmitHead
      BY <2>4, <3>1, <3>2, XmitHeadPuts
    <3>3. CASE NicSend
      BY <2>4, <3>1, <3>3, NicSendTakes DEF SendQueue!QNext
    <3>4. CASE FifoOver
      BY <3>4, FifoOverEmpties
    <3>5. CASE \/ Call \/ XmitEnter \/ XmitStop
               \/ NicSleep \/ Interrupt \/ PhyChange \/ ResetTaskReturn
               \/ XmitFrags \/ Poll
      BY <2>4, <3>1, <3>5, QuietPending
    <3>6. ~FifoRaces
      BY <2>4 DEF FifoRaces, Orderly
    <3>7. CASE \/ LinkUp \/ LinkDown \/ EsdTimer \/ TxTimeout
               \/ ResetTask \/ ResetTaskShort \/ Down \/ Open
      BY <2>4, <3>1, <3>7, SwitchSteps
    <3>8. QED
      BY <3>1, <3>2, <3>3, <3>4, <3>5, <3>6, <3>7 DEF Next, XmitStep, ResetStep
  <2>5. QED
    BY <2>1, <2>2, <2>3, <2>4
<1>3. QED
  BY <1>1, <1>2, Invariance, ContentsInvariance, PTL DEF Spec, SentInOrder

=============================================================================
