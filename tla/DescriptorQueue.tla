--------------------------- MODULE DescriptorQueue ---------------------------
(***************************************************************************)
(* What a descriptor ring between the r8168 driver and its NIC promises,   *)
(* with no indices, ownership bits or buffers in it: a bounded queue.  One *)
(* side puts batches of entries in, and the other takes them out one at a  *)
(* time in the same order; the NIC does its part only while it is on.      *)
(* Entries are lost only where it is off or switched off.  A NIC that puts *)
(* entries in is switched on with none there; one that takes them out may  *)
(* find some.                                                              *)
(***************************************************************************)
EXTENDS Integers, Sequences

CONSTANTS
    Batches,        \* what can be put in at once: sequences of entries
    Capacity,       \* the size of the ring
    NicPuts         \* the NIC puts the entries in; otherwise it takes them out

VARIABLES
    queue,          \* the entries put in and not taken out
    on              \* the NIC is

qvars == <<queue, on>>

QInit == queue = <<>> /\ on = FALSE

Put(batch) ==
    /\ NicPuts => on
    /\ Len(queue) + Len(batch) <= Capacity
    /\ queue' = queue \o batch
    /\ UNCHANGED on

Take ==
    /\ queue # <<>>
    /\ NicPuts \/ on
    /\ queue' = Tail(queue)
    /\ UNCHANGED on

SwitchOn ==
    /\ ~on /\ (NicPuts => queue = <<>>)
    /\ on' = TRUE
    /\ UNCHANGED queue

\* What is still in the ring may be kept for a last look at it, or dropped.
SwitchOff ==
    /\ on' = FALSE
    /\ queue' \in {queue, <<>>}

QNext ==
    \/ \E batch \in Batches : Put(batch)
    \/ Take \/ SwitchOn \/ SwitchOff

QSpec == QInit /\ [][QNext]_qvars

=============================================================================
