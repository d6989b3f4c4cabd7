--------------------------- MODULE MCSPSCTaskQueue ---------------------------
(* Small instances of SPSCTaskQueue for TLC.                               *)
EXTENDS SPSCTaskQueue
=============================================================================
