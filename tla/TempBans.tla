------------------------------ MODULE TempBans ------------------------------
(***************************************************************************)
(* Bans, mutes and timeouts that end by themselves: r2/models/trylater.py  *)
(* and who uses it: VaultTempBan and MutedAccountsByVault of               *)
(* r2/models/vault.py, TempTimeout of r2/models/bans.py, the moderators'   *)
(* POST_friend and POST_unfriend, the admins' timeout and untimeout.       *)
(*                                                                         *)
(* The restriction itself is a relation of the account (or its flag). Its  *)
(* end is a column of the TryLater row, which an hourly job works off, and *)
(* a column by subject, which says which column of the row is the          *)
(* account's and expires a little after that one is due.  Each of the      *)
(* three is written by itself, so requests and the job interleave, and     *)
(* each may die between two writes.                                        *)
(***************************************************************************)
EXTENDS Integers, FiniteSets, FiniteSetsExt

CONSTANTS
    Staff,      \* requests of moderators and admins, at once
    Victims,    \* accounts
    Uses,       \* which of "ban", "mute" and "timeout" are modelled
    None,       \* no restriction, no item
    Forever,    \* the term of a restriction that has no end
    Days,       \* the lengths a ban or a timeout may be given
    MuteDays,   \* the length of every mute
    Buffer,     \* ends that differ by less are the same ban (six hours)
    Grace,      \* how long the subject's column outlives the item (ten minutes)
    Lateness,   \* how late the job may be with an item
    MaxTime,    \* bound: the clock
    Loads,      \* bounds that alternate: [staff, who, work], how many requests
    MaxFaults   \* bound: requests and jobs that die, hooks that raise

ASSUME BanAssumption ==
    /\ Uses \subseteq {"ban", "mute", "timeout"}
    /\ None \notin Nat /\ Forever \notin Nat /\ None # Forever
    /\ None \notin Victims
    /\ None \notin [who : Victims, due : Nat, stamp : Nat]
    /\ None \notin [item : [who : Victims, due : Nat, stamp : Nat], ends : Nat]
    /\ Days \subseteq Nat \ {0} /\ MuteDays \in Nat \ {0}
    /\ Buffer \in Nat \ {0} /\ Grace \in Nat \ {0} /\ Lateness \in Nat
    /\ MaxTime \in Nat /\ MaxFaults \in Nat
    /\ Loads \subseteq [staff : SUBSET Staff, who : SUBSET Victims, work : Nat]

VARIABLES
    use, load,  \* which of the Uses and of the Loads this is
    clock,
    rel,        \* rel[v]: the account is restricted
    items,      \* the columns of the TryLater row: whose, when due, when written
    subject,    \* subject[v]: the column by subject: its item and its end, or None
    writes,     \* the write timestamp of the last item
    req,        \* req[s]: where s is, and its locals
    job,        \* where the job is, and its locals
    work, faults,
    term,       \* history: term[v]: None, Forever or when the restriction ends
    spoilt      \* history: spoilt[v]: what has come between the writes for v

vars == <<use, load, clock, rel, items, subject, writes, req, job, work, faults, term, spoilt>>
row == <<items, writes>>

Item == [who : Victims, due : Nat, stamp : Nat]
Rest == [pc |-> "idle", who |-> None, days |-> 0, new |-> FALSE, item |-> None]
JobRest == [pc |-> "idle", ready |-> {}, unripe |-> {}, left |-> {}, who |-> None]

Init ==
    /\ use \in Uses /\ load \in Loads
    /\ clock = 0
    /\ rel = [v \in Victims |-> FALSE]
    /\ items = {} /\ writes = 0
    /\ subject = [v \in Victims |-> None]
    /\ req = [s \in Staff |-> Rest]
    /\ job = JobRest
    /\ work = 0 /\ faults = 0
    /\ term = [v \in Victims |-> None]
    /\ spoilt = [v \in Victims |-> {}]

-----------------------------------------------------------------------------
\* The two rows.

\* TryLaterBySubject.search: Cassandra drops the column at the end of its TTL.
Found(v) ==
    IF subject[v] # None /\ clock < subject[v].ends THEN subject[v].item ELSE None

\* TryLater.schedule.
Add(item) ==
    /\ items' = items \cup {item}
    /\ writes' = item.stamp
NewItem(v, days) == [who |-> v, due |-> clock + days, stamp |-> writes + 1]

\* TryLaterBySubject.schedule, once the item is there.
Name(item) ==
    subject' = [subject EXCEPT ![item.who] = [item |-> item, ends |-> item.due + Grace]]

\* TryLaterBySubject.unschedule: the item the subject's column names, if both
\* are still there, and then the column, whichever item it names by then.  The
\* items of a row have times of their own: TryLater.search would take one of
\* another account's, scheduled for the same two milliseconds, along.
Cancel(v) == items' = items \ {Found(v)}
Forget(v) == subject' = [subject EXCEPT ![v] = None]

-----------------------------------------------------------------------------
\* Requests.

Goto(s, pc) == req' = [req EXCEPT ![s].pc = pc]
Done(s) == req' = [req EXCEPT ![s] = Rest]
RequestsFor(v) == {s \in Staff : req[s].who = v}

\* The job is so late with an item for v that the subject's column is gone.
Unnamed(v) == \E i \in items : i.who = v /\ i.due + Grace <= clock

Begin(s, v, days, pc) ==
    /\ req[s] = Rest /\ work < load.work
    /\ req' = [req EXCEPT ![s] = [pc |-> pc, who |-> v, days |-> days,
                                  new |-> ~rel[v], item |-> None]]
    /\ work' = work + 1
    /\ spoilt' = [spoilt EXCEPT ![v] =
           @ \cup (IF RequestsFor(v) # {} THEN {"requests"} ELSE {})
             \cup (IF job.pc # "idle" THEN {"job"} ELSE {})
             \cup (IF Unnamed(v) THEN {"late"} ELSE {})]
    /\ UNCHANGED <<use, load, clock, row, subject, job, faults>>

End(days) == IF days = 0 THEN Forever ELSE clock + days

\* POST_friend with a duration or without one (0): the relation is first.  What
\* becomes of the end is decided when it is known whether there was a ban.
Ban(s, v, days) ==
    /\ use = "ban" /\ days \in Days \cup {0}
    /\ clock + days <= MaxTime
    /\ Begin(s, v, days, "looking")
    /\ rel' = [rel EXCEPT ![v] = TRUE]
    /\ UNCHANGED term

\* A temporary ban that already ends within the buffer of the new end is kept.
SameEnd(item, days) ==
    /\ item.due - clock - days < Buffer
    /\ clock + days - item.due < Buffer

\* Mutant: a ban that becomes permanent keeps what is scheduled.
Look_Permanent(s) ==
    LET v == req[s].who
        days == req[s].days
        existing == IF req[s].new THEN None ELSE Found(v)
        keep == days > 0 /\ existing # None /\ SameEnd(existing, days)
    IN  /\ req[s].pc = "looking"
        /\ IF days > 0 /\ ~keep THEN Goto(s, "cancelling") ELSE Done(s)
        /\ term' = [term EXCEPT ![v] = IF keep THEN @ ELSE End(days)]
        /\ UNCHANGED <<use, load, clock, rel, row, subject, job, work, faults, spoilt>>

Look(s) ==
    LET v == req[s].who
        days == req[s].days
        existing == IF req[s].new THEN None ELSE Found(v)
        keep == days > 0 /\ existing # None /\ SameEnd(existing, days)
        change == IF days > 0 THEN ~keep ELSE existing # None
    IN  /\ req[s].pc = "looking"
        /\ IF change THEN Goto(s, "cancelling") ELSE Done(s)
        /\ term' = [term EXCEPT ![v] = IF keep THEN @ ELSE End(days)]
        /\ UNCHANGED <<use, load, clock, rel, row, subject, job, work, faults, spoilt>>

\* POST_friend for a mute: one that is there already is left as it is.
Mute(s, v) ==
    /\ use = "mute" /\ ~rel[v]
    /\ clock + MuteDays <= MaxTime
    /\ Begin(s, v, MuteDays, "scheduling")
    /\ rel' = [rel EXCEPT ![v] = TRUE]
    /\ term' = [term EXCEPT ![v] = clock + MuteDays]

\* user_admin.timeout
Timeout(s, v, days) ==
    /\ use = "timeout" /\ days \in Days \cup {0}
    /\ clock + days <= MaxTime
    /\ Begin(s, v, days, "cancelling")
    /\ rel' = [rel EXCEPT ![v] = TRUE]
    /\ term' = [term EXCEPT ![v] = End(days)]

\* POST_unfriend and user_admin.untimeout: what is scheduled is cancelled
\* whether there was a restriction or not.
Lift(s, v) ==
    /\ Begin(s, v, 0, "cancelling")
    /\ rel' = [rel EXCEPT ![v] = FALSE]
    /\ term' = [term EXCEPT ![v] = None]

CancelOld(s) ==
    /\ req[s].pc = "cancelling"
    /\ Cancel(req[s].who)
    /\ Goto(s, "forgetting")
    /\ UNCHANGED <<use, load, clock, rel, subject, writes, job, work, faults, term, spoilt>>

ForgetOld(s) ==
    /\ req[s].pc = "forgetting"
    /\ Forget(req[s].who)
    /\ IF req[s].days > 0 THEN Goto(s, "scheduling") ELSE Done(s)
    /\ UNCHANGED <<use, load, clock, rel, row, job, work, faults, term, spoilt>>

Schedule(s) ==
    LET item == NewItem(req[s].who, req[s].days)
    IN  /\ req[s].pc = "scheduling"
        /\ Add(item)
        /\ req' = [req EXCEPT ![s].pc = "naming", ![s].item = item]
        /\ UNCHANGED <<use, load, clock, rel, subject, job, work, faults, term, spoilt>>

NameNew(s) ==
    /\ req[s].pc = "naming"
    /\ Name(req[s].item)
    /\ Done(s)
    /\ UNCHANGED <<use, load, clock, rel, row, job, work, faults, term, spoilt>>

RequestDies(s) ==
    /\ req[s].pc # "idle" /\ faults < MaxFaults
    /\ faults' = faults + 1
    /\ spoilt' = [spoilt EXCEPT ![req[s].who] = @ \cup {"died"}]
    /\ Done(s)
    /\ UNCHANGED <<use, load, clock, rel, row, subject, job, work, term>>

Step(s) == Look(s) \/ CancelOld(s) \/ ForgetOld(s) \/ Schedule(s) \/ NameNew(s)
Asked(s) == \E v \in load.who :
    \/ \E days \in Days \cup {0} : Ban(s, v, days) \/ Timeout(s, v, days)
    \/ Mute(s, v)
    \/ Lift(s, v)

-----------------------------------------------------------------------------
\* The job: TryLater.process_ready_items for the row, with its hook.

\* Mutant: no cutoff.
StartJob_All ==
    /\ job = JobRest /\ items # {}
    /\ job' = [JobRest EXCEPT !.pc = "hook", !.ready = items, !.left = items]
    /\ spoilt' = [v \in Victims |->
           spoilt[v] \cup IF RequestsFor(v) # {} THEN {"job"} ELSE {}]
    /\ UNCHANGED <<use, load, clock, rel, row, subject, req, work, faults, term>>

StartJob ==
    LET ready == {i \in items : i.due <= clock}
    IN  /\ job = JobRest /\ ready # {}
        /\ job' = [JobRest EXCEPT !.pc = "hook", !.ready = ready,
                                  !.unripe = items \ ready, !.left = ready]
        /\ spoilt' = [v \in Victims |->
               spoilt[v] \cup IF RequestsFor(v) # {} THEN {"job"} ELSE {}]
        /\ UNCHANGED <<use, load, clock, rel, row, subject, req, work, faults, term>>

\* The row is in the order of the times due.
Soonest == CHOOSE i \in job.left : \A j \in job.left : i.due <= j.due

\* One item of on_vault_unban, unmute_hook and on_timeouts_ending: a ban loses
\* only its relation, a mute and a timeout their scheduled end too.
RunItem ==
    LET v == Soonest.who
        cancels == use = "mute" \/ (use = "timeout" /\ rel[v])
    IN  /\ job.pc = "hook" /\ job.left # {}
        /\ rel' = [rel EXCEPT ![v] = FALSE]
        /\ job' = [job EXCEPT !.left = @ \ {Soonest},
                              !.pc = IF cancels THEN "cancelling" ELSE "hook",
                              !.who = IF cancels THEN v ELSE None]
        /\ UNCHANGED <<use, load, clock, row, subject, req, work, faults, term, spoilt>>

JobCancels ==
    /\ job.pc = "cancelling"
    /\ Cancel(job.who)
    /\ job' = [job EXCEPT !.pc = "forgetting"]
    /\ UNCHANGED <<use, load, clock, rel, subject, writes, req, work, faults, term, spoilt>>

JobForgets ==
    /\ job.pc = "forgetting"
    /\ Forget(job.who)
    /\ job' = [job EXCEPT !.pc = "hook", !.who = None]
    /\ UNCHANGED <<use, load, clock, rel, row, req, work, faults, term, spoilt>>

Spoil(victims, what) ==
    spoilt' = [v \in Victims |-> spoilt[v] \cup IF v \in victims THEN {what} ELSE {}]
Owners(set) == {i.who : i \in set}

\* The hook raises on an item: those after it are not reached.
HookRaises ==
    /\ job.pc \in {"hook", "cancelling", "forgetting"} /\ faults < MaxFaults
    /\ job.pc = "hook" => job.left # {}
    /\ faults' = faults + 1
    /\ Spoil(Owners(job.ready), "raised")
    /\ job' = [job EXCEPT !.pc = "hook", !.left = {}, !.who = None]
    /\ UNCHANGED <<use, load, clock, rel, row, subject, req, work, term>>

\* TryLater.cleanup: all the ready items, reached or not.
Stamps(set) == {i.stamp : i \in set}

\* Mutant: the row delete without its timestamp.
Processed_Row ==
    IF job.unripe = {} \/ Min(Stamps(job.unripe)) > Max(Stamps(job.ready))
    THEN items
    ELSE job.ready

Processed ==
    IF job.unripe = {} \/ Min(Stamps(job.unripe)) > Max(Stamps(job.ready))
    THEN {i \in items : i.stamp <= Max(Stamps(job.ready))}
    ELSE job.ready

Cleanup ==
    /\ job.pc = "hook" /\ job.left = {}
    /\ items' = items \ Processed
    /\ job' = JobRest
    /\ UNCHANGED <<use, load, clock, rel, subject, writes, req, work, faults, term, spoilt>>

JobDies ==
    /\ job.pc # "idle" /\ faults < MaxFaults
    /\ faults' = faults + 1
    /\ Spoil(Owners(job.ready), "jobdied")
    /\ job' = JobRest
    /\ UNCHANGED <<use, load, clock, rel, row, subject, req, work, term>>

Job == StartJob \/ RunItem \/ JobCancels \/ JobForgets \/ Cleanup

\* A request is over before the clock moves; the job is never later than
\* Lateness.
Tick ==
    /\ clock < MaxTime
    /\ \A s \in Staff : req[s] = Rest
    /\ \A i \in items : clock < i.due + Lateness
    /\ clock' = clock + 1
    /\ UNCHANGED <<use, load, rel, row, subject, req, job, work, faults, term, spoilt>>

Next ==
    \/ \E s \in load.staff : Asked(s)
    \/ \E s \in Staff : Step(s) \/ RequestDies(s)
    \/ Job \/ HookRaises \/ JobDies
    \/ Tick

\* Time passes, the timer starts the job every hour, and the job and a request
\* that have begun go on.  Nobody has to ask for anything.
Fairness ==
    /\ WF_vars(Tick)
    /\ WF_vars(Job)
    /\ \A s \in Staff : WF_vars(Step(s))

Spec == Init /\ [][Next]_vars /\ Fairness

-----------------------------------------------------------------------------
\* Properties.

\* The type invariant; also, the job only has items that were due when it read
\* the row (process_ready_items's cutoff), a subject's column outlives its item
\* by the grace, and what a request or the job holds is an item once written.
TypeOK ==
    /\ use \in Uses /\ load \in Loads /\ clock \in 0..MaxTime /\ writes \in Nat
    /\ rel \in [Victims -> BOOLEAN]
    /\ items \subseteq Item
    /\ \A i \in items : i.stamp <= writes
    /\ \A v \in Victims : subject[v] # None =>
           /\ subject[v].item \in Item /\ subject[v].item.who = v
           /\ subject[v].ends = subject[v].item.due + Grace
    /\ \A s \in Staff :
           /\ req[s].pc \in {"idle", "looking", "cancelling", "forgetting",
                             "scheduling", "naming"}
           /\ req[s].pc = "idle" <=> req[s] = Rest
           /\ req[s].pc # "idle" => req[s].who \in Victims
           /\ req[s].pc = "naming" <=> req[s].item # None
    /\ job.pc \in {"idle", "hook", "cancelling", "forgetting"}
    /\ job.ready \cup job.unripe \subseteq Item /\ job.left \subseteq job.ready
    /\ \A i \in job.ready : i.due <= clock
    /\ work \in 0..load.work /\ faults \in 0..MaxFaults
    /\ \A v \in Victims : term[v] \in Nat \cup {None, Forever}

\* What makes a restriction end before its time, and what may keep it from
\* ending.  A request does not find what the job is too late with.  Only a
\* timeout cancels before it schedules whatever it finds, so only it survives a
\* job that died between the relation and the clean-up; only the end of a ban
\* leaves the subject's column of another request alone.
Hastens == {"requests", "job", "died", "late"} \cup IF use = "timeout" THEN {} ELSE {"jobdied"}
Prevents == {"requests", "died", "raised"} \cup IF use = "ban" THEN {} ELSE {"job"}

\* A ban or a timeout that was made longer, made permanent or imposed anew
\* after an earlier one is not lifted by what the earlier one had scheduled:
\* the job never ends it before its own end.
NotLiftedEarly == \A v \in Victims :
    /\ RequestsFor(v) = {}
    /\ spoilt[v] \cap Hastens = {}
    /\ term[v] = Forever \/ (term[v] \in Nat /\ clock < term[v])
    => rel[v]

\* A restriction with an end does end: the item written for it stays in the row
\* until the job has run it, though the job's clean-up deletes by write
\* timestamp whatever was not written later than what it read.
BansEnd == \A v \in Victims :
    (rel[v] /\ term[v] \in Nat /\ spoilt[v] \cap Prevents = {})
    ~> (~rel[v] \/ term[v] = Forever \/ spoilt[v] \cap Prevents # {})

=============================================================================
