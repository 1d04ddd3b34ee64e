------------------------------ MODULE StagedInit ------------------------------
(***************************************************************************)
(* What staged driver initialisation promises to a boot script, with no    *)
(* threads, files or counters in it.  The kernel image carries a list of N *)
(* init functions in link order.  Those of type "asynchronized" complete   *)
(* one after another in list order, those of type "deferred" likewise; the *)
(* two stages are not ordered with respect to each other and a "disable"   *)
(* entry never completes.  The end of the deferred stage is reported, once *)
(* and only after every deferred entry has completed.                      *)
(***************************************************************************)
EXTENDS Integers

CONSTANTS
    N,              \* number of registered init functions
    Type            \* Type[i]: the stage of the i-th one

VARIABLES
    ran,            \* the entries whose init function has returned
    ended           \* the end of the deferred stage has been reported

svars == <<ran, ended>>

Stage(k) == {i \in 1..N : Type[i] = k}

SInit ==
    /\ ran = {}
    /\ ended = FALSE

\* Entry i completes, after every earlier entry of its stage.
Complete(i) ==
    /\ i \notin ran
    /\ \E k \in {"asynchronized", "deferred"} :
          /\ Type[i] = k
          /\ \A j \in Stage(k) : j < i => j \in ran
    /\ ran' = ran \cup {i}
    /\ UNCHANGED ended

ReportEnd ==
    /\ ~ended
    /\ Stage("deferred") \subseteq ran
    /\ ended' = TRUE
    /\ UNCHANGED ran

SNext ==
    \/ \E i \in 1..N : Complete(i)
    \/ ReportEnd

SSpec == SInit /\ [][SNext]_svars

=============================================================================
