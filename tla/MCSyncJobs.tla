----------------------------- MODULE MCSyncJobs -----------------------------
(* A small instance of SyncJobs for TLC. *)
EXTENDS SyncJobs
CONSTANT k1
OneKey == [j \in Job |-> k1]
=============================================================================
