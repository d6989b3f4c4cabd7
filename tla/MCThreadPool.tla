----------------------------- MODULE MCThreadPool -----------------------------
(* Small instances of ThreadPool, and of its queue, for TLC.               *)
EXTENDS ThreadPool
=============================================================================
