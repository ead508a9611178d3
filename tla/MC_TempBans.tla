----------------------------- MODULE MC_TempBans -----------------------------
(* TempBans: three requests, at most two at once,
   for one account, or two for two accounts. *)
EXTENDS TempBans
CONSTANT v1
MCLoads == {[staff |-> Staff, who |-> {v1}, work |-> 3],
            [staff |-> Staff, who |-> Victims, work |-> 2]}
MCDays == {2, 4}
=============================================================================
