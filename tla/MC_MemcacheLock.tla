--------------------------- MODULE MC_MemcacheLock ---------------------------
(* The run of MemcacheLock: two processes, two keys, blocks nested at most    *)
(* two deep, and every fault but a critical section that outlasts the TTL.    *)
EXTENDS MemcacheLock
=============================================================================
