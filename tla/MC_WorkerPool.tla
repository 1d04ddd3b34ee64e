---------------------------- MODULE MC_WorkerPool ----------------------------
(***************************************************************************)
(* Small instances of WorkerPool: four cpus, of which three get a worker.   *)
(***************************************************************************)
EXTENDS WorkerPool

MCAll == {"ok", "ENOMEM", "EINTR"}
=============================================================================
