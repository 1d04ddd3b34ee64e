------------------------------- MODULE R8168Tx -------------------------------
(***************************************************************************)
(* The transmit ring of drivers/net/r8168/r8168_n.c, in the NAPI build the *)
(* Makefile of the repository makes.  start_xmit posts the descriptors of  *)
(* a packet at cur_tx, the NIC works through those with DescOwn, and       *)
(* tx_interrupt, called by the NAPI poll, reaps them at dirty_tx.          *)
(* start_xmit, tx_interrupt and the two timers hold tp->lock, so they do   *)
(* not overlap; the NIC works concurrently with all of them.  The link and *)
(* the ESD timer, the watchdog with its delayed reset task, and the Rx     *)
(* FIFO workaround clear the ring under a stopped NIC.  The stack looks at *)
(* the queue before start_xmit takes the lock, and a NAPI poll that is     *)
(* scheduled stays so when the NIC is reset: both may come late.           *)
(*                                                                         *)
(* The indices are u32 in the code: they are kept modulo Modulus, a        *)
(* multiple of the ring size like 2^32.  The NIC itself is external.       *)
(***************************************************************************)
EXTENDS Integers, FiniteSets

CONSTANTS
    NUM_TX_DESC,    \* size of the ring
    MAX_SKB_FRAGS,  \* the queue is awake while this many descriptors are there
    Modulus,        \* of the indices
    NrFrags,        \* nr_frags of the packets the stack sends
    Padding,        \* UseSwPaddingShortPkt
    Overtake,       \* the link timer may expire before a scheduled reset task
    MaxHeld         \* bound on the packets the driver holds

ASSUME RingAssumption ==
    /\ NUM_TX_DESC \in Nat /\ MAX_SKB_FRAGS \in Nat /\ Modulus \in Nat
    /\ 0 < MAX_SKB_FRAGS /\ MAX_SKB_FRAGS < NUM_TX_DESC
    /\ 2 * NUM_TX_DESC <= Modulus /\ Modulus % NUM_TX_DESC = 0
ASSUME PacketAssumption == NrFrags \subseteq 0..MAX_SKB_FRAGS
ASSUME FlagsAssumption == Padding \in BOOLEAN /\ Overtake \in BOOLEAN
ASSUME BoundAssumption == MaxHeld \in Nat

VARIABLES
    cur_tx, dirty_tx,
    own,            \* DescOwn of each descriptor
    desc,           \* its place in the packet: "only", "first", "mid", "last"
    len, skb,       \* ring_info: len # 0, skb # NULL
    held,           \* packets taken from the stack and not yet freed
    xpc, xe, xn,    \* start_xmit: control point, entry, further descriptors
    xpad,           \* it needs and whether the further one is padding
    queue,          \* "awake" or "stopped"
    carrier,        \* netif_carrier_ok
    running,        \* netif_running
    task,           \* rtl8168_reset_task is scheduled
    phy,            \* link_ok
    napi,           \* rtl8168_poll is scheduled
    nic             \* on, the position at, polling (NPQ), irq (TxOK),
                    \* inside a packet, broken when packets are mixed up;
                    \* history: the link timer has woken the queue over a
                    \* ring without room for a packet (crowded)

ring == <<cur_tx, dirty_tx, own, desc, len, skb, held>>
xmit == <<xpc, xe, xn, xpad>>
dev == <<queue, carrier, running, task, phy, napi>>
vars == <<ring, xmit, dev, nic>>

Slots == 0..(NUM_TX_DESC - 1)

\* u32 arithmetic on values from -Modulus to 2 * Modulus - 1.
Wrap(x) == IF x < 0 THEN x + Modulus ELSE IF x >= Modulus THEN x - Modulus ELSE x
Entry(x) == x % NUM_TX_DESC

TX_BUFFS_AVAIL == Wrap(dirty_tx + NUM_TX_DESC - cur_tx - 1)
Outstanding == Wrap(cur_tx - dirty_tx)

\* Nobody holds tp->lock.
Unlocked == xpc \in {"idle", "called"}

\* The NIC after hw_reset: its interrupts are masked and acknowledged.
ResetNic == [on |-> FALSE, at |-> 0, polling |-> FALSE, irq |-> FALSE,
             inside |-> FALSE, broken |-> nic.broken, crowded |-> nic.crowded]
StartedNic == [ResetNic EXCEPT !.on = TRUE]

\* After rtl8168_open: the NIC is not started before the link is seen up.
Init ==
    /\ cur_tx = 0 /\ dirty_tx = 0
    /\ own = [e \in Slots |-> FALSE]
    /\ desc = [e \in Slots |-> "none"]
    /\ len = [e \in Slots |-> FALSE]
    /\ skb = [e \in Slots |-> FALSE]
    /\ held = 0
    /\ xpc = "idle" /\ xe = 0 /\ xn = 0 /\ xpad = FALSE
    /\ queue = "stopped" /\ carrier = FALSE /\ running = TRUE /\ task = FALSE
    /\ phy \in BOOLEAN /\ napi = FALSE
    /\ nic = [on |-> FALSE, at |-> 0, polling |-> FALSE, irq |-> FALSE,
              inside |-> FALSE, broken |-> FALSE, crowded |-> FALSE]

-----------------------------------------------------------------------------
\* The stack finds the queue awake, under its own lock of the queue, and calls
\* start_xmit.  The bound on the packets is here.
Call ==
    /\ xpc = "idle" /\ running /\ queue = "awake"
    /\ held < MaxHeld
    /\ xpc' = "called"
    /\ UNCHANGED <<ring, xe, xn, xpad, dev, nic>>

\* start_xmit takes the lock and finds room for a packet of n fragments,
\* whatever has become of the queue.  A short one without fragments may get a
\* descriptor of padding, which the test of the room does not count.
Xmit(n, short) ==
    /\ xpc = "called"
    /\ TX_BUFFS_AVAIL >= n
    /\ ~own[Entry(cur_tx)]
    /\ xe' = Entry(cur_tx)
    /\ xpad' = (n = 0 /\ Padding /\ short)
    /\ xn' = IF xpad' THEN 1 ELSE n
    /\ xpc' = "frags"
    /\ held' = held + 1
    /\ UNCHANGED <<cur_tx, dirty_tx, own, desc, len, skb, dev, nic>>

\* err_stop: NETDEV_TX_BUSY, the packet stays with the stack.
XmitBusy(n) ==
    /\ xpc = "called"
    /\ TX_BUFFS_AVAIL < n \/ own[Entry(cur_tx)]
    /\ queue' = "stopped"
    /\ xpc' = "idle"
    /\ UNCHANGED <<ring, xe, xn, xpad, carrier, running, task, phy, napi, nic>>

\* The descriptors after the first one that a packet occupies.
Further == {Entry(cur_tx + i) : i \in 1..xn}

\* Mutant: the first descriptor is handed over before the others.
XmitFragsLate ==
    /\ xpc = "frags"
    /\ own' = [own EXCEPT ![xe] = TRUE]
    /\ desc' = [e \in Slots |-> IF e = xe THEN (IF xn = 0 THEN "only" ELSE "first")
                                ELSE IF e \notin Further THEN desc[e]
                                ELSE IF e = Entry(cur_tx + xn) THEN "last" ELSE "mid"]
    /\ len' = [e \in Slots |-> len[e] \/ (e \in Further /\ ~xpad)]
    /\ skb' = [e \in Slots |-> skb[e] \/ (xn > 0 /\ ~xpad /\ e = Entry(cur_tx + xn))]
    /\ xpc' = "head"
    /\ UNCHANGED <<cur_tx, dirty_tx, held, xe, xn, xpad, dev, nic>>

\* xmit_frags, or sw_padding_short_pkt: the further descriptors go to the
\* NIC, which does not see them before the first one.
XmitFrags ==
    /\ xpc = "frags"
    /\ own' = [e \in Slots |-> own[e] \/ e \in Further]
    /\ desc' = [e \in Slots |-> IF e \notin Further THEN desc[e]
                                ELSE IF e = Entry(cur_tx + xn) THEN "last" ELSE "mid"]
    /\ len' = [e \in Slots |-> len[e] \/ (e \in Further /\ ~xpad)]
    /\ skb' = [e \in Slots |-> skb[e] \/ (xn > 0 /\ ~xpad /\ e = Entry(cur_tx + xn))]
    /\ xpc' = "head"
    /\ UNCHANGED <<cur_tx, dirty_tx, held, xe, xn, xpad, dev, nic>>

\* The first descriptor, then cur_tx and the polling bit.  The write to
\* TxPoll is lost while the NIC is in reset.
XmitHead ==
    /\ xpc = "head"
    /\ own' = [own EXCEPT ![xe] = TRUE]
    /\ desc' = [desc EXCEPT ![xe] = IF xn = 0 THEN "only" ELSE "first"]
    /\ len' = [len EXCEPT ![xe] = TRUE]
    /\ skb' = [skb EXCEPT ![xe] = @ \/ xn = 0 \/ xpad]
    /\ cur_tx' = Wrap(cur_tx + xn + 1)
    /\ nic' = [nic EXCEPT !.polling = nic.on]
    /\ xpc' = "stop"
    /\ UNCHANGED <<dirty_tx, held, xe, xn, xpad, dev>>

\* Mutant: the queue is not stopped.
XmitStopNever ==
    /\ xpc = "stop"
    /\ xpc' = "idle"
    /\ xe' = 0 /\ xn' = 0 /\ xpad' = FALSE
    /\ UNCHANGED <<ring, dev, nic>>

\* The queue stops when another packet might not fit.  dirty_tx cannot move
\* under the lock, so the second test in the code fails again.
XmitStop ==
    /\ xpc = "stop"
    /\ queue' = IF TX_BUFFS_AVAIL < MAX_SKB_FRAGS THEN "stopped" ELSE queue
    /\ xpc' = "idle"
    /\ xe' = 0 /\ xn' = 0 /\ xpad' = FALSE
    /\ UNCHANGED <<ring, carrier, running, task, phy, napi, nic>>

-----------------------------------------------------------------------------
\* The NIC sends what its descriptor points to and gives it back.
NicSend ==
    LET d == desc[nic.at]
    IN  /\ nic.on /\ nic.polling
        /\ own[nic.at]
        /\ own' = [own EXCEPT ![nic.at] = FALSE]
        /\ nic' = [nic EXCEPT !.at = Entry(nic.at + 1),
                              !.irq = TRUE,
                              !.inside = d \in {"first", "mid"},
                              !.broken = @ \/ (nic.inside # (d \in {"mid", "last"}))
                                           \/ d = "none"]
        /\ UNCHANGED <<cur_tx, dirty_tx, desc, len, skb, held, xmit, dev>>

\* It finds nothing to send.
NicSleep ==
    /\ nic.on /\ nic.polling
    /\ ~own[nic.at]
    /\ nic' = [nic EXCEPT !.polling = FALSE]
    /\ UNCHANGED <<ring, xmit, dev>>


\* The loop of tx_interrupt ends after k descriptors.
Reapable(k) ==
    /\ \A i \in 0..(k - 1) : ~own[Entry(dirty_tx + i)]
    /\ k = Outstanding \/ own[Entry(dirty_tx + k)]

\* Mutant: the queue is left stopped.
WakeNever == FALSE

\* The queue is woken by tx_interrupt.
Wake == Wrap(dirty_tx' + NUM_TX_DESC - cur_tx - 1) >= MAX_SKB_FRAGS

\* rtl8168_interrupt acknowledges what the NIC reports, sending or reception,
\* and schedules the poll.
Interrupt ==
    /\ nic.on
    /\ nic' = [nic EXCEPT !.irq = FALSE]
    /\ napi' = TRUE
    /\ UNCHANGED <<ring, xmit, queue, carrier, running, task, phy>>

\* rtl8168_poll calls tx_interrupt under the lock.  It does not ask whether
\* the NIC is on.
Poll ==
    /\ napi /\ Unlocked
    /\ napi' = FALSE
    /\ \E k \in 0..Outstanding :
          LET reaped == {Entry(dirty_tx + i) : i \in 0..(k - 1)}
          IN  /\ Reapable(k)
              /\ dirty_tx' = Wrap(dirty_tx + k)
              /\ desc' = [e \in Slots |-> IF e \in reaped THEN "none" ELSE desc[e]]
              /\ len' = [e \in Slots |-> len[e] /\ e \notin reaped]
              /\ skb' = [e \in Slots |-> skb[e] /\ e \notin reaped]
              /\ held' = held - Cardinality({e \in reaped : skb[e]})
              /\ queue' = IF k > 0 /\ Wake THEN "awake" ELSE queue
              /\ nic' = [nic EXCEPT !.polling = @ \/ (nic.on /\ k > 0 /\ cur_tx # dirty_tx')]
    /\ UNCHANGED <<cur_tx, own, xmit, carrier, running, task, phy>>

-----------------------------------------------------------------------------
\* Mutant: the packets are forgotten, not freed.
TxClearForgets ==
    /\ held' = held
    /\ cur_tx' = 0 /\ dirty_tx' = 0
    /\ own' = [e \in Slots |-> own[e] /\ ~len[e]]
    /\ desc' = [e \in Slots |-> IF len[e] THEN "none" ELSE desc[e]]
    /\ len' = [e \in Slots |-> FALSE]
    /\ skb' = [e \in Slots |-> skb[e] /\ ~len[e]]

\* rtl8168_tx_clear: entries without a length, such as padding, are passed
\* over.
TxClear ==
    /\ held' = held - Cardinality({e \in Slots : len[e] /\ skb[e]})
    /\ cur_tx' = 0 /\ dirty_tx' = 0
    /\ own' = [e \in Slots |-> own[e] /\ ~len[e]]
    /\ desc' = [e \in Slots |-> IF len[e] THEN "none" ELSE desc[e]]
    /\ len' = [e \in Slots |-> FALSE]
    /\ skb' = [e \in Slots |-> skb[e] /\ ~len[e]]

\* tx_clear followed by init_ring, whose Tx part is done before the Rx part
\* can fail.
RenewRing ==
    /\ held' = held - Cardinality({e \in Slots : len[e] /\ skb[e]})
    /\ cur_tx' = 0 /\ dirty_tx' = 0
    /\ own' = [e \in Slots |-> FALSE]
    /\ desc' = [e \in Slots |-> "none"]
    /\ len' = [e \in Slots |-> FALSE]
    /\ skb' = [e \in Slots |-> FALSE]

PhyChange ==
    /\ phy' = ~phy
    /\ UNCHANGED <<ring, xmit, queue, carrier, running, task, napi, nic>>

\* check_link_status, from the link timer, with the link just found up.
\* hw_start does not write TxPoll.
LinkUp ==
    /\ running /\ Unlocked /\ (Overtake \/ ~task)
    /\ phy /\ ~carrier
    /\ nic' = [StartedNic EXCEPT !.crowded = @ \/ TX_BUFFS_AVAIL < MAX_SKB_FRAGS]
    /\ carrier' = TRUE
    /\ queue' = "awake"
    /\ UNCHANGED <<ring, xmit, running, task, phy, napi>>

\* Mutant: the ring is left as it is.
LinkDownKeeps ==
    /\ running /\ Unlocked
    /\ ~phy /\ carrier
    /\ queue' = "stopped"
    /\ carrier' = FALSE
    /\ nic' = ResetNic
    /\ UNCHANGED <<ring, xmit, running, task, phy, napi>>

\* And just found down.
LinkDown ==
    /\ running /\ Unlocked
    /\ ~phy /\ carrier
    /\ queue' = "stopped"
    /\ carrier' = FALSE
    /\ nic' = ResetNic
    /\ RenewRing
    /\ UNCHANGED <<xmit, running, task, phy, napi>>

\* The ESD timer finds the PCI configuration damaged.
EsdTimer ==
    /\ running /\ Unlocked
    /\ queue' = "stopped"
    /\ carrier' = FALSE
    /\ nic' = ResetNic
    /\ RenewRing
    /\ UNCHANGED <<xmit, running, task, phy, napi>>

\* The watchdog of the stack, which holds the lock that Call takes: the queue
\* has been stopped for too long.  A scheduled poll is not waited for.
TxTimeout ==
    /\ running /\ xpc = "idle"
    /\ queue = "stopped" /\ carrier
    /\ carrier' = FALSE
    /\ nic' = ResetNic
    /\ task' = TRUE
    /\ UNCHANGED <<ring, xmit, queue, running, phy, napi>>

\* rtl8168_reset_task, four jiffies later.  wait_for_quiescence lets a
\* scheduled poll end, and the queue is left as it is.
ResetTask ==
    /\ task /\ running /\ Unlocked /\ ~napi
    /\ RenewRing
    /\ nic' = [nic EXCEPT !.irq = FALSE]
    /\ task' = FALSE
    /\ UNCHANGED <<xmit, queue, carrier, running, phy, napi>>

\* It finds the Rx buffers short and schedules itself again.
ResetTaskShort ==
    /\ task /\ running /\ Unlocked /\ ~napi
    /\ TxClear
    /\ nic' = [nic EXCEPT !.irq = FALSE]
    /\ UNCHANGED <<xmit, dev>>

\* The interface is down.
ResetTaskReturn ==
    /\ task /\ ~running
    /\ task' = FALSE
    /\ UNCHANGED <<ring, xmit, queue, carrier, running, phy, napi, nic>>

\* The workaround for an Rx FIFO overflow on CFG_METHOD_1, in the interrupt
\* handler, which goes on to schedule the poll.
FifoOver ==
    /\ nic.on /\ Unlocked
    /\ RenewRing
    /\ nic' = StartedNic
    /\ queue' = "awake"
    /\ napi' = TRUE
    /\ UNCHANGED <<xmit, carrier, running, task, phy>>

\* It takes no lock, and may meet start_xmit, a poll or a timer on another cpu.
\* What the stores of the two leave behind is not followed: the behaviour ends
\* here for the driver, and nothing is claimed of what comes after.
FifoRaces ==
    /\ nic.on
    /\ RenewRing
    /\ xpc' = "lost"
    /\ xe' = 0 /\ xn' = 0 /\ xpad' = FALSE
    /\ nic' = ResetNic
    /\ UNCHANGED dev

\* rtl8168_down: the timers are off, napi_disable has waited for a scheduled
\* poll, and no start_xmit is under way.
Down ==
    /\ running /\ xpc = "idle" /\ ~napi
    /\ running' = FALSE
    /\ queue' = "stopped"
    /\ carrier' = FALSE
    /\ nic' = ResetNic
    /\ TxClear
    /\ UNCHANGED <<xmit, task, phy, napi>>

\* rtl8168_open, with init_ring on a ring that tx_clear has been over.
Open ==
    /\ ~running
    /\ running' = TRUE
    /\ RenewRing
    /\ UNCHANGED <<xmit, queue, carrier, task, phy, napi, nic>>

-----------------------------------------------------------------------------
XmitEnter == \E n \in NrFrags : XmitBusy(n) \/ \E short \in BOOLEAN : Xmit(n, short)
XmitStep == XmitFrags \/ XmitHead \/ XmitStop
ResetStep == ResetTask \/ ResetTaskShort \/ ResetTaskReturn

Next ==
    \/ Call \/ XmitEnter \/ XmitStep
    \/ NicSend \/ NicSleep \/ Interrupt \/ Poll
    \/ PhyChange \/ LinkUp \/ LinkDown \/ EsdTimer
    \/ TxTimeout \/ ResetStep \/ FifoOver \/ FifoRaces \/ Down \/ Open

Spec == Init /\ [][Next]_vars

\* start_xmit and the handlers run to their end, timers expire, the NIC
\* works while it is on, and a reset task finds Rx buffers in the end.  The
\* lock is fair: a timer or a poll that waits for it gets it.
Fairness ==
    /\ WF_vars(XmitEnter) /\ WF_vars(XmitStep) /\ WF_vars(NicSend)
    /\ WF_vars(nic.irq /\ Interrupt)
    /\ SF_vars(Poll) /\ SF_vars(LinkUp) /\ SF_vars(LinkDown) /\ SF_vars(ResetTask)
    /\ WF_vars(ResetTaskReturn)

FairSpec == Spec /\ Fairness

-----------------------------------------------------------------------------
\* Type invariant.
TypeOK ==
    /\ cur_tx \in 0..(Modulus - 1)
    /\ dirty_tx \in 0..(Modulus - 1)
    /\ own \in [Slots -> BOOLEAN]
    /\ desc \in [Slots -> {"none", "only", "first", "mid", "last"}]
    /\ len \in [Slots -> BOOLEAN]
    /\ skb \in [Slots -> BOOLEAN]
    /\ held \in Nat
    /\ xpc \in {"idle", "called", "frags", "head", "stop", "lost"}
    /\ xe \in Slots
    /\ xn \in 0..NUM_TX_DESC
    /\ xpad \in BOOLEAN
    /\ queue \in {"awake", "stopped"}
    /\ carrier \in BOOLEAN /\ running \in BOOLEAN /\ task \in BOOLEAN
    /\ phy \in BOOLEAN /\ napi \in BOOLEAN
    /\ nic \in [on : BOOLEAN, at : Slots, polling : BOOLEAN, irq : BOOLEAN,
                inside : BOOLEAN, broken : BOOLEAN, crowded : BOOLEAN]

\* The properties below are stated up to a race of the FIFO workaround
\* (xpc = "lost"), and up to the one wake-up that does not look at the ring: the
\* queue that a late poll woke after tx_timeout takes packets while the NIC is
\* off, and the link timer may find the ring without room.
Orderly == ~nic.crowded /\ xpc # "lost"

\* The observation behind that, refuted by R8168Tx_crowded.cfg.
NotCrowded == ~nic.crowded

\* Bound of the runs: a ring that is too full after that is not followed.
CrowdedBound == nic.crowded => Outstanding < NUM_TX_DESC

\* The message of start_xmit: "BUG! Tx Ring full when queue awake!".  When
\* the stack may call start_xmit, or has called it, the ring is not full.
AwakeHasRoom ==
    Orderly /\ (xpc = "called" \/ (queue = "awake" /\ xpc = "idle"))
        => Outstanding < NUM_TX_DESC

\* The packets the driver holds are exactly those its ring_info knows of: none
\* is forgotten or freed twice, through completion, reset or close.
SkbsExact ==
    Orderly =>
        held = Cardinality({e \in Slots : skb[e]})
               + IF \/ xpc = "frags"
                    \/ xpc = "head" /\ (xn = 0 \/ xpad)
                 THEN 1 ELSE 0

\* The NIC never mixes two packets up, and never waits inside a packet for a
\* descriptor it has not been given.
WholePackets == Orderly => ~nic.broken /\ (nic.inside => own[nic.at])

\* The NIC and the driver agree on the place in the ring: the descriptors of
\* the NIC are those from its position to cur_tx.  Otherwise packets wait
\* at a place where the NIC does not look.
InStep ==
    Orderly /\ nic.on /\ Unlocked =>
        \E sent \in 0..Outstanding :
            /\ nic.at = Entry(dirty_tx + sent)
            /\ \A i \in 0..(NUM_TX_DESC - 1) :
                  own[Entry(dirty_tx + i)] <=> sent <= i /\ i < Outstanding

\* What start_xmit has given to the NIC and the NIC has not sent, up to cur_tx
\* and in the order of the ring.  The further descriptors of a packet are not
\* given before the first one.  A ring that waits for the reset task or for
\* rtl8168_open counts as empty.
Online == nic.on /\ Orderly
Given == {e \in Slots : own[e] /\ ~(xpc = "head" /\ e \in Further)}
Pending ==
    IF ~running \/ task \/ ~Orderly THEN <<>>
    ELSE LET c == Cardinality(Given)
         IN  [i \in 1..c |-> desc[Entry(cur_tx + NUM_TX_DESC - c + (i - 1))]]

Packet(n) == [i \in 1..n |-> CASE n = 1 -> "only"
                               [] n > 1 /\ i = 1 -> "first"
                               [] n > 1 /\ i = n -> "last"
                               [] OTHER -> "mid"]

SendQueue == INSTANCE DescriptorQueue WITH
    Batches <- {Packet(n) : n \in 1..NUM_TX_DESC},
    Capacity <- NUM_TX_DESC,
    NicPuts <- FALSE,
    queue <- Pending,
    on <- Online

\* The ring is a queue: it is given packets as a whole, and the NIC, while it is
\* on, sends their descriptors in the order of the calls of start_xmit, each of
\* them once; none is overwritten or lost, but where the NIC is stopped or where
\* the FIFO workaround starts it anew on an empty ring.  What a late start_xmit
\* posts under a stopped NIC is there when it is started.
SentInOrder ==
    /\ SendQueue!QInit
    /\ [][SendQueue!QNext \/ (FifoOver /\ Pending' = <<>>)]_(SendQueue!qvars)

\* A packet posted while the NIC was off: its TxPoll was lost, and neither
\* hw_start nor a poll writes it again before the next start_xmit does.
Unpolled == own[nic.at] /\ ~nic.polling /\ ~task


\* The observation behind that exception, refuted by R8168Tx_unpolled.cfg: a NIC
\* that is on has been told of the packets in its ring.
TxPolled == nic.on /\ Unlocked => ~Unpolled

\* A stopped queue is woken when the link stays up.
QueueRestarts == running /\ phy ~> queue = "awake" \/ ~running \/ ~phy \/ ~Orderly

=============================================================================
