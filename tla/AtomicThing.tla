----------------------------- MODULE AtomicThing -----------------------------
(***************************************************************************)
(* What r2/lib/db/thing.py promises the callers of Thing._commit and       *)
(* Thing._incr.  A thing is one value in the database.  Each call takes    *)
(* effect at most once, at one moment between its start and its return,    *)
(* and one that returns has done so; a commit changes the properties its   *)
(* caller has set and no others, an increment adds to what is there then;  *)
(* and the caller is left with the thing as it was at that moment.  The    *)
(* cache, the lock, transactions and stale copies are out of sight.        *)
(***************************************************************************)
EXTENDS Integers

CONSTANTS Procs, Props, Vals, Counters, Initial, Unasked

VARIABLES
    vals,     \* vals[q]: the plain properties
    count,    \* count[c]: the integer properties
    asked,    \* asked[p][q]: what p has set and not committed
    call      \* call[p]: p's operation and how far it is

Commit == [on |-> "vals", amt |-> 0]
Ops == {Commit} \cup [on : Counters, amt : {-1, 1}]

Ready == [at |-> "ready"]
Started(o) == [at |-> "started", op |-> o]
Answered(v, n) == [at |-> "answered", vals |-> v, count |-> n]

Nothing == [q \in Props |-> Unasked]

AtomicInit ==
    /\ vals = Initial
    /\ count = [c \in Counters |-> 0]
    /\ asked = [p \in Procs |-> Nothing]
    /\ call = [p \in Procs |-> Ready]

Ask(p, q, v) ==
    /\ call[p] = Ready
    /\ asked' = [asked EXCEPT ![p][q] = v]
    /\ UNCHANGED <<vals, count, call>>

\* An increment may not have changes pending (thing.py:626).
Start(p, o) ==
    /\ call[p] = Ready /\ (o # Commit => asked[p] = Nothing)
    /\ call' = [call EXCEPT ![p] = Started(o)]
    /\ UNCHANGED <<vals, count, asked>>

\* The properties p has set, and the others as they are.
Changed(p) == [q \in Props |-> IF asked[p][q] = Unasked THEN vals[q] ELSE asked[p][q]]

TakeEffect(p) ==
    /\ call[p].at = "started"
    /\ LET o == call[p].op
       IN  IF o = Commit
           THEN vals' = Changed(p) /\ UNCHANGED count
           ELSE count' = [count EXCEPT ![o.on] = @ + o.amt] /\ UNCHANGED vals
    /\ call' = [call EXCEPT ![p] = Answered(vals', count')]
    /\ UNCHANGED asked

\* The changes are done: the next call starts without any.
Return(p) ==
    /\ call[p].at = "answered"
    /\ call' = [call EXCEPT ![p] = Ready]
    /\ asked' = [asked EXCEPT ![p] = Nothing]
    /\ UNCHANGED <<vals, count>>

\* An error before the effect, or a caller that gives its changes up.
Fail(p) ==
    /\ call[p].at # "answered"
    /\ call' = [call EXCEPT ![p] = Ready]
    /\ asked' = [asked EXCEPT ![p] = Nothing]
    /\ UNCHANGED <<vals, count>>

AtomicNext ==
    \E p \in Procs :
        \/ \E q \in Props, v \in Vals : Ask(p, q, v)
        \/ \E o \in Ops : Start(p, o)
        \/ TakeEffect(p) \/ Return(p) \/ Fail(p)

AtomicSpec == AtomicInit /\ [][AtomicNext]_<<vals, count, asked, call>>
=============================================================================
