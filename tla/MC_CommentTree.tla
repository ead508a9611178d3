---------------------------- MODULE MC_CommentTree ----------------------------
(* The run of CommentTree:  three comments, the second a response of the      *)
(* link's author to the first and the third an answer to the second.          *)
EXTENDS CommentTree

Chain == [c \in Comments |-> c - 1]
=============================================================================
