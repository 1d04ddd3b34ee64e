------------------------------- MODULE R8168Rx -------------------------------
(***************************************************************************)
(* The receive ring of drivers/net/r8168/r8168_n.c: rx_interrupt takes the *)
(* frames at cur_rx, and rx_fill gives the descriptors from dirty_rx on    *)
(* new buffers, as far as memory goes.  A frame is either copied, and its  *)
(* descriptor goes back to the NIC at once, or handed up with its buffer.  *)
(*                                                                         *)
(* rx_interrupt holds no lock.  The timers and the FIFO workaround of the  *)
(* interrupt handler renew the ring between two of its calls; where one of *)
(* them does so under a call that is running, the behaviour is not         *)
(* followed (Races).  The link timer is taken not to start the NIC while   *)
(* the reset task is pending (R8168Tx has the case where it does).  The    *)
(* NIC is external.                                                        *)
(***************************************************************************)
EXTENDS Integers, FiniteSets

CONSTANTS
    NUM_RX_DESC,    \* size of the ring
    Modulus,        \* of the indices, u32 in the code
    Budget,         \* the quota of a NAPI poll
    ResetFails      \* init_ring may find no memory after a reset

ASSUME RingAssumption ==
    /\ NUM_RX_DESC \in Nat \ {0} /\ Modulus \in Nat /\ Budget \in Nat \ {0}
    /\ 2 * NUM_RX_DESC <= Modulus /\ Modulus % NUM_RX_DESC = 0
ASSUME FlagsAssumption == ResetFails \in BOOLEAN

VARIABLES
    cur_rx, dirty_rx,
    own,            \* DescOwn
    skb,            \* Rx_skbuff[] # NULL, and then the address points to it
    frame,          \* what the NIC wrote and the driver has not read: "none",
                    \* "whole", "part" (a fragment) or "error"
    eor,            \* RingEnd is set in the last descriptor
    rpc, rcur, rleft,
                    \* rx_interrupt: "idle", called by "poll" or "task", "done"
                    \* where the poll is not yet, or "lost" in a race; its
                    \* locals cur_rx and rx_left
    carrier, phy, task,
    napi,           \* rtl8168_poll is scheduled or running
    nic,            \* on, position at, irq, and open: its interrupt mask is;
                    \* history: an interrupt was acknowledged where
                    \* rx_interrupt was done but the poll not (missed)
    wild,           \* the NIC has written where there is no buffer
    ghost           \* a descriptor was dealt with that the NIC had not written

ring == <<cur_rx, dirty_rx, own, skb, frame, eor>>
rx == <<rpc, rcur, rleft>>
dev == <<carrier, phy, task, napi>>
vars == <<ring, rx, dev, nic, wild, ghost>>

Slots == 0..(NUM_RX_DESC - 1)

\* u32 arithmetic on values from -Modulus to 2 * Modulus - 1.
Wrap(x) == IF x < 0 THEN x + Modulus ELSE IF x >= Modulus THEN x - Modulus ELSE x
Entry(x) == x % NUM_RX_DESC

\* Descriptors that await a buffer.
Behind == Wrap(cur_rx - dirty_rx)

\* hw_reset masks and acknowledges the interrupts, hw_start opens the mask.
ResetNic == [nic EXCEPT !.on = FALSE, !.at = 0, !.irq = FALSE, !.open = FALSE]
StartedNic == [nic EXCEPT !.on = TRUE, !.at = 0, !.irq = FALSE, !.open = TRUE]

\* After rtl8168_open, which fails when init_ring does.
Init ==
    /\ cur_rx = 0 /\ dirty_rx = 0
    /\ own = [e \in Slots |-> TRUE]
    /\ skb = [e \in Slots |-> TRUE]
    /\ frame = [e \in Slots |-> "none"]
    /\ eor = TRUE
    /\ rpc = "idle" /\ rcur = 0 /\ rleft = 0
    /\ carrier = FALSE /\ phy \in BOOLEAN /\ task = FALSE /\ napi = FALSE
    /\ nic = [on |-> FALSE, at |-> 0, irq |-> FALSE, open |-> FALSE, missed |-> FALSE]
    /\ wild = FALSE /\ ghost = FALSE

-----------------------------------------------------------------------------
\* The NIC stores a frame, or finds no descriptor for it (RxDescUnavail).
NicReceive(kind) ==
    /\ nic.on /\ own[nic.at]
    /\ own' = [own EXCEPT ![nic.at] = FALSE]
    /\ frame' = [frame EXCEPT ![nic.at] = kind]
    /\ wild' = (wild \/ ~skb[nic.at] \/ (nic.at = NUM_RX_DESC - 1 /\ ~eor))
    /\ nic' = [nic EXCEPT !.at = Entry(nic.at + 1), !.irq = TRUE]
    /\ UNCHANGED <<cur_rx, dirty_rx, skb, eor, rx, dev, ghost>>

NicNoDescriptor ==
    /\ nic.on /\ ~own[nic.at]
    /\ nic' = [nic EXCEPT !.irq = TRUE]
    /\ UNCHANGED <<ring, rx, dev, wild, ghost>>

-----------------------------------------------------------------------------
\* Mutant: descriptors without a buffer are not left out.
RxLeftAll == NUM_RX_DESC

\* rx_left: what is not waiting for a buffer.
RxLeft == Wrap(NUM_RX_DESC + dirty_rx - cur_rx)

Least(a, b) == IF a <= b THEN a ELSE b

\* rtl8168_interrupt masks and acknowledges, and schedules the poll.  In a poll
\* it only logs "interrupt in poll".
Interrupt ==
    /\ nic.irq /\ nic.open
    /\ nic' = [nic EXCEPT !.irq = FALSE, !.open = FALSE, !.missed = @ \/ rpc = "done"]
    /\ napi' = TRUE
    /\ UNCHANGED <<ring, rx, carrier, phy, task, wild, ghost>>

\* rtl8168_poll calls rx_interrupt, whether the NIC is still on or not.
PollBegin ==
    /\ napi /\ rpc = "idle"
    /\ rpc' = "poll"
    /\ rcur' = cur_rx
    /\ rleft' = Least(RxLeft, Budget)
    /\ UNCHANGED <<ring, dev, nic, wild, ghost>>

\* rtl8168_reset_task: wait_for_quiescence has let a scheduled poll end and
\* masks and acknowledges; what is in the ring is taken out without a quota.
TaskBegin ==
    /\ task /\ rpc = "idle" /\ ~napi
    /\ rpc' = "task"
    /\ rcur' = cur_rx
    /\ rleft' = RxLeft
    /\ nic' = [nic EXCEPT !.irq = FALSE, !.open = FALSE]
    /\ UNCHANGED <<ring, dev, wild, ghost>>

AtEntry(e) == rpc \in {"poll", "task"} /\ rleft > 0 /\ e = Entry(rcur) /\ ~own[e]

Advance ==
    /\ rcur' = Wrap(rcur + 1)
    /\ rleft' = rleft - 1

\* A receive error, a fragment, or a descriptor without the flags of a whole
\* frame, which looks like a fragment: mark_to_asic, the buffer is used again.
RxReuse(e) ==
    /\ AtEntry(e)
    /\ frame[e] # "whole"
    /\ own' = [own EXCEPT ![e] = TRUE]
    /\ frame' = [frame EXCEPT ![e] = "none"]
    /\ ghost' = (ghost \/ frame[e] = "none")
    /\ Advance
    /\ UNCHANGED <<cur_rx, dirty_rx, skb, eor, rpc, dev, nic, wild>>

\* try_rx_copy: a short frame is copied, if there is memory for it.
RxCopy(e) ==
    /\ AtEntry(e)
    /\ frame[e] = "whole"
    /\ own' = [own EXCEPT ![e] = TRUE]
    /\ frame' = [frame EXCEPT ![e] = "none"]
    /\ Advance
    /\ UNCHANGED <<cur_rx, dirty_rx, skb, eor, rpc, dev, nic, wild, ghost>>

\* Mutant: the descriptor goes back although its buffer is handed up.
RxHandUpMarks(e) ==
    /\ AtEntry(e)
    /\ frame[e] = "whole"
    /\ own' = [own EXCEPT ![e] = TRUE]
    /\ skb' = [skb EXCEPT ![e] = FALSE]
    /\ frame' = [frame EXCEPT ![e] = "none"]
    /\ Advance
    /\ UNCHANGED <<cur_rx, dirty_rx, eor, rpc, dev, nic, wild, ghost>>

\* The frame goes up with its buffer.
RxHandUp(e) ==
    /\ AtEntry(e)
    /\ frame[e] = "whole"
    /\ skb' = [skb EXCEPT ![e] = FALSE]
    /\ frame' = [frame EXCEPT ![e] = "none"]
    /\ Advance
    /\ UNCHANGED <<cur_rx, dirty_rx, own, eor, rpc, dev, nic, wild, ghost>>

\* The descriptors rx_fill goes over, and of those the ones without buffer.
ToFill == Wrap(rcur - dirty_rx)
New(delta) == {e \in {Entry(dirty_rx + i) : i \in 0..(delta - 1)} : ~skb[e]}

\* Mutant: a descriptor there is no memory for is passed over.
RxFillSkips(delta) ==
    /\ delta = ToFill
    /\ cur_rx' = rcur
    /\ dirty_rx' = Wrap(dirty_rx + delta)
    /\ UNCHANGED <<skb, own>>

\* The end of rx_interrupt: cur_rx is stored and rx_fill gives buffers to
\* delta descriptors, up to one it has no memory for.
RxFill(delta) ==
    /\ delta = ToFill \/ ~skb[Entry(dirty_rx + delta)]
    /\ cur_rx' = rcur
    /\ dirty_rx' = Wrap(dirty_rx + delta)
    /\ skb' = [e \in Slots |-> skb[e] \/ e \in New(delta)]
    /\ own' = [e \in Slots |-> own[e] \/ e \in New(delta)]

RxAtEnd == rleft = 0 \/ own[Entry(rcur)]
RxReturn(to) == rpc' = to /\ rcur' = 0 /\ rleft' = 0

\* Nobody is in rx_interrupt.
Outside == rpc \in {"idle", "done"}

\* Mutant: the poll is over although its budget is used up.
PollAgainNever == FALSE

\* A poll that has used up its budget is called again.
PollAgain == Wrap(rcur - cur_rx) >= Budget

PollEnd(delta) ==
    /\ rpc = "poll" /\ RxAtEnd
    /\ RxFill(delta)
    /\ RxReturn(IF PollAgain THEN "idle" ELSE "done")
    /\ UNCHANGED <<frame, eor, dev, nic, wild, ghost>>

\* Another one is over, and opens the mask of the NIC.
PollDone ==
    /\ rpc = "done"
    /\ rpc' = "idle"
    /\ napi' = FALSE
    /\ nic' = [nic EXCEPT !.open = TRUE]
    /\ UNCHANGED <<ring, rcur, rleft, carrier, phy, task, wild, ghost>>

-----------------------------------------------------------------------------
\* rx_clear and init_ring; its result is not looked at.  Without memory the
\* ring is left with no buffers and no RingEnd.
RenewRing(ok) ==
    /\ ok \/ ResetFails
    /\ cur_rx' = 0 /\ dirty_rx' = 0
    /\ own' = [e \in Slots |-> ok]
    /\ skb' = [e \in Slots |-> ok]
    /\ frame' = [e \in Slots |-> "none"]
    /\ eor' = ok

\* The reset task has all its buffers and renews the ring.
TaskEnd(ok) ==
    /\ rpc = "task" /\ RxAtEnd
    /\ RenewRing(ok)
    /\ task' = FALSE
    /\ RxReturn("idle")
    /\ UNCHANGED <<carrier, phy, napi, nic, wild, ghost>>

\* It has not, and schedules itself again.
TaskShort(delta) ==
    /\ rpc = "task" /\ RxAtEnd
    /\ delta # ToFill
    /\ RxFill(delta)
    /\ RxReturn("idle")
    /\ UNCHANGED <<frame, eor, dev, nic, wild, ghost>>

PhyChange ==
    /\ phy' = ~phy
    /\ UNCHANGED <<ring, rx, carrier, task, napi, nic, wild, ghost>>

\* check_link_status, from the link timer.  A late poll may be running.
LinkUp ==
    /\ rpc # "lost" /\ ~task
    /\ phy /\ ~carrier
    /\ nic' = StartedNic
    /\ carrier' = TRUE
    /\ UNCHANGED <<ring, rx, phy, task, napi, wild, ghost>>

\* Mutant: the ring is left as it is.
LinkDownKeeps(ok) ==
    /\ Outside
    /\ ~phy /\ carrier
    /\ nic' = ResetNic
    /\ carrier' = FALSE
    /\ UNCHANGED <<ring, rx, phy, task, napi, wild, ghost>>

LinkDown(ok) ==
    /\ Outside
    /\ ~phy /\ carrier
    /\ nic' = ResetNic
    /\ carrier' = FALSE
    /\ RenewRing(ok)
    /\ UNCHANGED <<rx, phy, task, napi, wild, ghost>>

\* The ESD timer finds the PCI configuration damaged.
EsdTimer(ok) ==
    /\ Outside
    /\ nic' = ResetNic
    /\ carrier' = FALSE
    /\ RenewRing(ok)
    /\ UNCHANGED <<rx, phy, task, napi, wild, ghost>>

\* The watchdog of the stack.  A poll that is scheduled or running goes on.
TxTimeout ==
    /\ rpc # "lost" /\ carrier
    /\ nic' = ResetNic
    /\ carrier' = FALSE
    /\ task' = TRUE
    /\ UNCHANGED <<ring, rx, phy, napi, wild, ghost>>

\* The workaround for an Rx FIFO overflow on CFG_METHOD_1, in the interrupt
\* handler, which goes on to schedule the poll.  hw_start has opened the mask.
FifoOver(ok) ==
    /\ nic.on /\ nic.open /\ Outside
    /\ RenewRing(ok)
    /\ nic' = StartedNic
    /\ napi' = TRUE
    /\ UNCHANGED <<rx, carrier, phy, task, wild, ghost>>

\* The workaround interrupts rx_interrupt, or a timer that renews the ring runs
\* beside it on another cpu.  What the locals of rx_interrupt do to the new ring
\* is not followed: the behaviour ends here for the driver, and nothing is
\* claimed of what comes after.
Races ==
    /\ rpc \in {"poll", "task"}
    /\ rpc' = "lost" /\ rcur' = 0 /\ rleft' = 0
    /\ RenewRing(TRUE)
    /\ nic' = ResetNic
    /\ UNCHANGED <<dev, wild, ghost>>

-----------------------------------------------------------------------------
RxEntry == \E e \in Slots : RxReuse(e) \/ RxCopy(e) \/ RxHandUp(e)
RxEnds == \/ PollDone
          \/ \E delta \in 0..ToFill : PollEnd(delta) \/ TaskShort(delta)
          \/ \E ok \in BOOLEAN : TaskEnd(ok)

Next ==
    \/ \E kind \in {"whole", "part", "error"} : NicReceive(kind)
    \/ NicNoDescriptor
    \/ Interrupt \/ PollBegin \/ TaskBegin \/ RxEntry \/ RxEnds
    \/ PhyChange \/ LinkUp \/ TxTimeout \/ Races
    \/ \E ok \in BOOLEAN : LinkDown(ok) \/ EsdTimer(ok) \/ FifoOver(ok)

Spec == Init /\ [][Next]_vars

\* Interrupts, polls and tasks that are due run and end.
Fairness ==
    /\ WF_vars(Interrupt) /\ WF_vars(PollBegin) /\ WF_vars(TaskBegin)
    /\ WF_vars(RxEntry) /\ WF_vars(RxEnds)

FairSpec == Spec /\ Fairness

-----------------------------------------------------------------------------
\* Type invariant.
TypeOK ==
    /\ cur_rx \in 0..(Modulus - 1)
    /\ dirty_rx \in 0..(Modulus - 1)
    /\ own \in [Slots -> BOOLEAN]
    /\ skb \in [Slots -> BOOLEAN]
    /\ frame \in [Slots -> {"none", "whole", "part", "error"}]
    /\ eor \in BOOLEAN
    /\ rpc \in {"idle", "poll", "task", "done", "lost"}
    /\ rcur \in 0..(Modulus - 1)
    /\ rleft \in 0..NUM_RX_DESC
    /\ carrier \in BOOLEAN /\ phy \in BOOLEAN /\ task \in BOOLEAN /\ napi \in BOOLEAN
    /\ nic \in [on : BOOLEAN, at : Slots, irq : BOOLEAN, open : BOOLEAN, missed : BOOLEAN]
    /\ wild \in BOOLEAN /\ ghost \in BOOLEAN

\* The properties below are stated up to a race for the ring.
Orderly == rpc # "lost"

\* No descriptor of the NIC is without a buffer, and it never wrote where
\* there is none, whatever part of the refills found no memory.
BufferBehindOwn == Orderly => ~wild /\ \A e \in Slots : own[e] => skb[e]

\* The indices never pass each other: at most the whole ring awaits buffers,
\* so rx_left, an unsigned difference, does not wrap around.
BehindInRing == Orderly => Behind <= NUM_RX_DESC

\* The driver looks for frames where the NIC puts them: from cur_rx on there
\* are the unread frames up to the position of the NIC, and after that its
\* own descriptors, save for those that await a buffer.  It is a claim about the
\* moments between two calls of rx_interrupt, and so up to a race for the ring.
InStep ==
    nic.on /\ Outside =>
        \E unread \in 0..(NUM_RX_DESC - Behind) :
            /\ nic.at = Entry(cur_rx + unread)
            /\ \A i \in 0..(NUM_RX_DESC - Behind - 1) :
                  /\ own[Entry(cur_rx + i)] <=> unread <= i
                  /\ frame[Entry(cur_rx + i)] # "none" <=> i < unread

\* The comment in rx_interrupt: frames seen as fragmented are "a symptom of
\* over-mtu sized frames".  Whatever is dropped or handed up is a frame.
OnlyFramesRead == Orderly => ~ghost

\* The descriptor rx_interrupt looks at next, and the frames from there on.
Start == IF Outside THEN cur_rx ELSE rcur
Written == {e \in Slots : frame[e] # "none"}
Frames ==
    IF ~Orderly THEN <<>>
    ELSE [i \in 1..Cardinality(Written) |-> frame[Entry(Start + (i - 1))]]

Queue == INSTANCE DescriptorQueue WITH
    Batches <- {<<"whole">>, <<"part">>, <<"error">>},
    Capacity <- NUM_RX_DESC,
    NicPuts <- TRUE,
    queue <- Frames,
    on <- nic.on

\* The ring is a queue: rx_interrupt takes the frames in the order in which the
\* NIC stored them, each of them once; none is overwritten, and none is lost
\* but by a reset or by the FIFO workaround, after which the NIC starts on a
\* ring without old frames.
ReadInOrder ==
    /\ Queue!QInit
    /\ [][\/ Queue!QNext
          \/ (\E ok \in BOOLEAN : FifoOver(ok)) /\ Frames' = <<>>]_(Queue!qvars)

\* Every frame is taken out of the ring, or the ring is renewed, unless an
\* interrupt came late in a poll: it is acknowledged, and the poll is past the
\* frame it was for.
FramesRead ==
    \A e \in Slots : frame[e] # "none" ~> frame[e] = "none" \/ nic.missed \/ ~Orderly

\* The observation behind that exception, refuted by R8168Rx_missed.cfg: after a
\* link that comes up under a late poll, a frame may wait for the next one.
NoneLeft ==
    \A e \in Slots : frame[e] # "none" ~> frame[e] = "none" \/ ~Orderly

=============================================================================
