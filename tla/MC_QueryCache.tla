---------------------------- MODULE MC_QueryCache ----------------------------
(* One request at a time, and a listing that shows two items. *)
EXTENDS QueryCache
MCSorts == 1 .. 3
=============================================================================
