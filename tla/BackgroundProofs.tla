-------------------------- MODULE BackgroundProofs --------------------------
(***************************************************************************)
(* What is done in the background, by the hourly job (TempBans) and by the *)
(* worker thread that publishes (Publisher), two specifications that share *)
(* no variable.  Restrictions that end by themselves are not lifted early, *)
(* and what is to end them stays scheduled, for any accounts, requests,    *)
(* faults and times; a consumer that has ended has sent what it added.     *)
(***************************************************************************)
EXTENDS TempBans, Publisher, WellFoundedInduction, TLAPS

Places == {"idle", "looking", "cancelling", "forgetting", "scheduling", "naming"}
Marks == {"requests", "job", "died", "raised", "jobdied", "late"}
Requests == [pc : Places, who : Victims \cup {None}, days : Nat, new : BOOLEAN,
             item : Item \cup {None}]
Columns == [item : Item, ends : Int]
Jobs == [pc : {"idle", "hook", "cancelling", "forgetting"},
         ready : SUBSET Item, unripe : SUBSET Item, left : SUBSET Item,
         who : Victims \cup {None}]

WorldInv ==
    /\ use \in Uses /\ load \in Loads /\ clock \in 0 .. MaxTime
    /\ rel \in [Victims -> BOOLEAN]
    /\ work \in 0 .. load.work /\ faults \in 0 .. MaxFaults
    /\ term \in [Victims -> Nat \cup {None, Forever}]
    /\ spoilt \in [Victims -> SUBSET Marks]

RowInv ==
    /\ writes \in Nat
    /\ items \subseteq Item
    /\ \A i \in items : i.stamp <= writes

SubjectInv ==
    /\ subject \in [Victims -> Columns \cup {None}]
    /\ \A v \in Victims : subject[v] # None =>
           /\ subject[v].item.who = v
           /\ subject[v].ends = subject[v].item.due + Grace

\* What a request holds, by where it is.
Valid(r) ==
    /\ r.pc = "idle" => r = Rest
    /\ r.pc # "idle" => r.who \in Victims
    /\ r.pc = "naming" <=> r.item # None
    /\ r.item # None => r.item.who = r.who
    /\ r.pc \in {"scheduling", "naming"} => r.days > 0
    /\ r.pc = "looking" => use = "ban"

RequestInv == req \in [Staff -> Requests] /\ \A s \in Staff : Valid(req[s])

JobInv ==
    /\ job \in Jobs
    /\ job.left \subseteq job.ready
    /\ \A i \in job.ready : i.due <= clock
    /\ \A i \in job.ready : i.stamp <= writes
    /\ job.pc = "idle" => job = JobRest
    /\ job.pc # "idle" => job.ready # {}
    /\ job.pc \in {"cancelling", "forgetting"} <=> job.who # None
    /\ job.who # None => use # "ban"

TypeInv == WorldInv /\ RowInv /\ SubjectInv /\ RequestInv /\ JobInv

LEMMA TypeInvOK == TypeInv => TypeOK
BY BanAssumption DEF TypeInv, WorldInv, RowInv, SubjectInv, RequestInv, Valid, JobInv, TypeOK,
   Requests, Columns, Jobs, Places, Rest

\* The next item, if there is one, is one of those left.
LEMMA SoonestIsLeft == ASSUME job.left # {}, job.left \subseteq Item PROVE
    Soonest \in job.left
<1> DEFINE T == {i.due : i \in job.left}
<1>1. T # {} /\ T \subseteq Nat
  BY DEF Item
<1> HIDE DEF T
<1>2. PICK d \in T : \A k \in T : <<k, d>> \notin OpToRel(<, Nat)
  BY <1>1, WFMin, NatLessThanWellFounded, Zenon
<1>3. \A k \in T : ~(k < d)
  BY <1>1, <1>2 DEF OpToRel
<1>4. \A k \in T : d <= k
  BY <1>1, <1>3
<1>5. \E i \in job.left : \A j \in job.left : i.due <= j.due
  BY <1>4 DEF T
<1> QED BY <1>5 DEF Soonest

LEMMA DaysInNat == \A days \in Days \cup {0} : days \in Nat
BY BanAssumption

\* A request that goes on, ends or begins.
LEMMA RequestMoves ==
  ASSUME RequestInv, use' = use, NEW s \in Staff, NEW r \in Requests, Valid(r),
         req' = [req EXCEPT ![s] = r]
  PROVE  RequestInv'
BY DEF RequestInv, Valid

LEMMA RequestEnds == ASSUME RequestInv, use' = use, NEW s \in Staff, Done(s) PROVE RequestInv'
<1>1. Rest \in Requests /\ Valid(Rest)
  BY DEF Rest, Requests, Places, Valid
<1> QED BY <1>1, RequestMoves DEF Done

LEMMA RequestGoes ==
  ASSUME RequestInv, use' = use, NEW s \in Staff, Goto(s, "cancelling") \/ Goto(s, "forgetting")
             \/ (Goto(s, "scheduling") /\ req[s].days > 0),
         req[s].pc \notin {"idle", "naming"}
  PROVE  RequestInv'
<1>1. PICK pc \in {"cancelling", "forgetting", "scheduling"} :
          Goto(s, pc) /\ (pc = "scheduling" => req[s].days > 0)
  OBVIOUS
<1> DEFINE r == [req[s] EXCEPT !.pc = pc]
<1>2. r = [pc |-> pc, who |-> req[s].who, days |-> req[s].days, new |-> req[s].new, item |-> None]
  BY DEF RequestInv, Requests, Valid
<1>3. r \in Requests /\ Valid(r)
  BY <1>1, <1>2 DEF RequestInv, Requests, Valid, Places
<1>4. req' = [req EXCEPT ![s] = r]
  BY <1>1 DEF Goto
<1> QED BY <1>3, <1>4, RequestMoves

\* The types of the stores and of what requests and the job hold.
LEMMA TypeInvNext == TypeInv /\ [Next]_vars => TypeInv'
<1> SUFFICES ASSUME TypeInv, [Next]_vars PROVE TypeInv'
  OBVIOUS
<1> USE BanAssumption DEF TypeInv
<1>1. ASSUME NEW s \in Staff, NEW v \in Victims, NEW days \in Nat, NEW pc \in Places,
             pc # "idle", pc # "naming", pc = "scheduling" => days > 0, pc = "looking" => use = "ban",
             Begin(s, v, days, pc)
      PROVE /\ RequestInv'
            /\ use' \in Uses /\ load' \in Loads /\ clock' \in 0 .. MaxTime
            /\ work' \in 0 .. load'.work /\ faults' \in 0 .. MaxFaults
            /\ spoilt' \in [Victims -> SUBSET Marks]
            /\ RowInv' /\ SubjectInv' /\ JobInv'
  <2> DEFINE r == [pc |-> pc, who |-> v, days |-> days, new |-> ~rel[v], item |-> None]
  <2>1. RequestInv'
    <3>1. r \in Requests /\ Valid(r)
      BY <1>1 DEF Requests, Valid, WorldInv
    <3> QED BY <1>1, <3>1, RequestMoves DEF Begin
  <2>2. spoilt' \in [Victims -> SUBSET Marks]
    BY <1>1 DEF Begin, WorldInv, Marks
  <2>3. RowInv' /\ SubjectInv' /\ JobInv'
    BY <1>1 DEF Begin, RowInv, row, SubjectInv, JobInv
  <2> QED
    BY <1>1, <2>1, <2>2, <2>3 DEF Begin, WorldInv
<1>2. ASSUME NEW s \in Staff, NEW v \in Victims, NEW days \in Days \cup {0}, Ban(s, v, days)
      PROVE TypeInv'
  BY <1>1, <1>2 DEF Ban, WorldInv, Places
<1>3. ASSUME NEW s \in Staff, NEW v \in Victims, NEW days \in Days \cup {0}, Timeout(s, v, days)
      PROVE TypeInv'
  <2>0. days \in Nat
    BY DaysInNat, Zenon
  <2>5. clock \in Nat
    BY DEF WorldInv
  <2>1. End(days) \in Nat \cup {None, Forever}
    BY <2>0, <2>5 DEF End
  <2>2. Begin(s, v, days, "cancelling") /\ rel' = [rel EXCEPT ![v] = TRUE]
        /\ term' = [term EXCEPT ![v] = End(days)]
    BY <1>3, Zenon DEF Timeout
  <2>3. rel' \in [Victims -> BOOLEAN] /\ term' \in [Victims -> Nat \cup {None, Forever}]
    BY <2>1, <2>2 DEF WorldInv
  <2> HIDE DEF TypeInv
  <2> QED BY <1>1, <2>0, <2>2, <2>3 DEF Places, WorldInv, TypeInv
<1>4. ASSUME NEW s \in Staff, NEW v \in Victims, Mute(s, v) PROVE TypeInv'
  <2>1. MuteDays \in Nat /\ MuteDays > 0 /\ clock + MuteDays \in Nat
    BY DEF WorldInv
  <2>2. Begin(s, v, MuteDays, "scheduling") /\ rel' = [rel EXCEPT ![v] = TRUE]
        /\ term' = [term EXCEPT ![v] = clock + MuteDays]
    BY <1>4, Zenon DEF Mute
  <2>3. rel' \in [Victims -> BOOLEAN] /\ term' \in [Victims -> Nat \cup {None, Forever}]
    BY <2>1, <2>2 DEF WorldInv
  <2> QED BY <1>1, <2>1, <2>2, <2>3 DEF Places, WorldInv
<1>5. ASSUME NEW s \in Staff, NEW v \in Victims, Lift(s, v) PROVE TypeInv'
  BY <1>1, <1>5 DEF Lift, WorldInv, Places
<1>6. ASSUME NEW s \in load.staff, Asked(s) PROVE TypeInv'
  BY <1>2, <1>3, <1>4, <1>5, <1>6 DEF Asked, WorldInv
<1>7. ASSUME NEW s \in Staff, Look(s) PROVE TypeInv'
  <2>1. RequestInv'
    BY <1>7, RequestGoes, RequestEnds DEF Look
  <2>2. WorldInv'
    BY <1>7 DEF Look, End, RequestInv, Valid, Requests, WorldInv
  <2>3. RowInv' /\ SubjectInv' /\ JobInv'
    BY <1>7 DEF Look, row, RowInv, SubjectInv, JobInv
  <2> QED BY <2>1, <2>2, <2>3
<1>8. ASSUME NEW s \in Staff, CancelOld(s) PROVE TypeInv'
  <2>1. RequestInv'
    BY <1>8, RequestGoes DEF CancelOld
  <2> QED
    BY <1>8, <2>1 DEF CancelOld, Cancel, WorldInv, RowInv, SubjectInv, JobInv
<1>9. ASSUME NEW s \in Staff, ForgetOld(s) PROVE TypeInv'
  <2>1. RequestInv'
    BY <1>9, RequestGoes, RequestEnds DEF ForgetOld
  <2> QED
    BY <1>9, <2>1 DEF ForgetOld, Forget, row, WorldInv, RowInv, SubjectInv, JobInv
<1>10. ASSUME NEW s \in Staff, Schedule(s) PROVE TypeInv'
  <2> DEFINE item == NewItem(req[s].who, req[s].days)
  <2>1. item \in Item /\ item # None /\ item.who = req[s].who /\ item.stamp = writes + 1
    BY <1>10 DEF Schedule, NewItem, Item, RequestInv, Valid, Requests, WorldInv, RowInv
  <2>2. items' = items \cup {item} /\ writes' = writes + 1
    BY <1>10, <2>1 DEF Schedule, Add
  <2>3. RequestInv'
    <3> DEFINE r == [req[s] EXCEPT !.pc = "naming", !.item = item]
    <3>1. r \in Requests /\ Valid(r)
      <4>1. req[s] \in Requests /\ req[s].who = item.who /\ req[s].days > 0 /\ req[s].who \in Victims
        BY <1>10, <2>1 DEF Schedule, RequestInv, Valid
      <4> HIDE DEF item
      <4>2. r \in Requests
        BY <2>1, <4>1 DEF Requests, Places
      <4>3. r.pc = "naming" /\ r.who = req[s].who /\ r.days = req[s].days /\ r.item = item
        BY <4>1 DEF Requests
      <4> HIDE DEF r
      <4> QED BY <2>1, <4>1, <4>2, <4>3 DEF Valid
    <3>2. req' = [req EXCEPT ![s] = r]
      <4>1. req' = [req EXCEPT ![s].pc = "naming", ![s].item = item]
        BY <1>10 DEF Schedule
      <4> HIDE DEF item
      <4> QED BY <4>1 DEF RequestInv
    <3> QED BY <1>10, <3>1, <3>2, RequestMoves DEF Schedule
  <2>4. RowInv' /\ JobInv'
    BY <1>10, <2>1, <2>2 DEF Schedule, RowInv, JobInv, Jobs, Item
  <2> QED
    BY <1>10, <2>3, <2>4 DEF Schedule, WorldInv, SubjectInv
<1>11. ASSUME NEW s \in Staff, NameNew(s) PROVE TypeInv'
  <2>1. RequestInv'
    BY <1>11, RequestEnds DEF NameNew
  <2>2. SubjectInv'
    BY <1>11 DEF NameNew, Name, SubjectInv, Columns, Item, RequestInv, Valid, Requests
  <2> QED
    BY <1>11, <2>1, <2>2 DEF NameNew, row, WorldInv, RowInv, JobInv
<1>12. ASSUME NEW s \in Staff, RequestDies(s) PROVE TypeInv'
  <2>1. RequestInv'
    BY <1>12, RequestEnds DEF RequestDies
  <2>2. WorldInv'
    BY <1>12 DEF RequestDies, WorldInv, RequestInv, Valid, Marks
  <2> QED
    BY <1>12, <2>1, <2>2 DEF RequestDies, row, RowInv, SubjectInv, JobInv
<1>13. CASE StartJob
  <2>1. WorldInv'
    BY <1>13 DEF StartJob, WorldInv, Marks
  <2>2. JobInv'
    <3> DEFINE ready == {i \in items : i.due <= clock}
    <3>1. job' = [pc |-> "hook", ready |-> ready, unripe |-> items \ ready, left |-> ready,
                  who |-> None]
      BY <1>13 DEF StartJob, JobRest
    <3>2. ready # {} /\ ready \subseteq Item /\ items \ ready \subseteq Item
      BY <1>13 DEF StartJob, RowInv
    <3>3. \A i \in ready : i.due <= clock /\ i.stamp <= writes
      BY DEF RowInv
    <3>4. clock' = clock /\ writes' = writes
      BY <1>13 DEF StartJob, row
    <3> HIDE DEF ready
    <3> QED BY <3>1, <3>2, <3>3, <3>4 DEF JobInv, Jobs
  <2> QED
    BY <1>13, <2>1, <2>2 DEF StartJob, row, RowInv, SubjectInv, RequestInv, Valid
<1>14. CASE RunItem
  <2>1. Soonest \in job.left /\ Soonest.who \in Victims
    BY <1>14, SoonestIsLeft DEF RunItem, JobInv, Jobs, Item
  <2>2. JobInv'
    BY <1>14, <2>1 DEF RunItem, JobInv, Jobs, row
  <2> QED
    BY <1>14, <2>1, <2>2 DEF RunItem, row, WorldInv, RowInv, SubjectInv, RequestInv, Valid
<1>15. CASE JobCancels
  BY <1>15 DEF JobCancels, Cancel, WorldInv, RowInv, SubjectInv, RequestInv, Valid, JobInv, Jobs
<1>16. CASE JobForgets
  <2>1. job.who \in Victims /\ SubjectInv'
    BY <1>16 DEF JobForgets, Forget, SubjectInv, JobInv, Jobs
  <2>2. JobInv'
    BY <1>16 DEF JobForgets, JobInv, Jobs, row
  <2> QED
    BY <1>16, <2>1, <2>2 DEF JobForgets, row, WorldInv, RowInv, RequestInv, Valid
<1>17. CASE HookRaises
  <2>1. WorldInv'
    BY <1>17 DEF HookRaises, Spoil, Marks, WorldInv
  <2>2. JobInv'
    BY <1>17 DEF HookRaises, JobInv, Jobs, row
  <2> QED
    BY <1>17, <2>1, <2>2 DEF HookRaises, row, RowInv, SubjectInv, RequestInv, Valid
<1>18. CASE Cleanup
  BY <1>18 DEF Cleanup, JobRest, WorldInv, RowInv, SubjectInv, RequestInv, Valid, JobInv, Jobs
<1>19. CASE JobDies
  BY <1>19 DEF JobDies, Spoil, Marks, JobRest, row, WorldInv, RowInv, SubjectInv, RequestInv, Valid, JobInv, Jobs
<1>20. CASE Tick
  BY <1>20 DEF Tick, row, WorldInv, RowInv, SubjectInv, RequestInv, Valid, JobInv, Jobs, Item
<1>21. CASE UNCHANGED vars
  BY <1>21 DEF vars, WorldInv, RowInv, SubjectInv, RequestInv, Valid, JobInv
<1> QED
  BY <1>6, <1>7, <1>8, <1>9, <1>10, <1>11, <1>12, <1>13, <1>14, <1>15, <1>16, <1>17, <1>18,
     <1>19, <1>20, <1>21 DEF Next, Step, Job

-----------------------------------------------------------------------------
\* Nothing is lifted early.

Free(v) == \A s \in Staff : req[s].who # v
At(v, places) == \A s \in Staff : req[s].who = v => req[s].pc \in places
Clean(v) == spoilt[v] \cap Hastens = {}
NoItems(v) == \A i \in items : i.who # v

\* What holds of an account between whose writes nothing has come.  One request
\* at a time, and the job not beside it:
AloneInv(v) ==
    /\ \A s, t \in Staff : req[s].who = v /\ req[t].who = v => s = t
    /\ job.pc # "idle" => Free(v)
\* what is scheduled, or left for the job, is the restriction's end,
EndInv(v) == At(v, {"looking"}) =>
    /\ \A i \in items : i.who = v => term[v] = i.due
    /\ \A i \in job.left : i.who = v => term[v] = i.due
\* and is what the subject's column names, if the job is not too late with it,
NamedInv(v) == At(v, {"looking", "cancelling"}) =>
    \A i \in items : i.who = v =>
        (subject[v] # None /\ subject[v].item = i) \/ i.due + Grace <= clock
\* and is gone once the restriction is lifted, or in the job's hands,
LiftedInv(v) == Free(v) /\ ~rel[v] /\ use # "timeout" =>
    \A i \in items : i.who = v => i \in job.ready
LeftInv(v) ==
    /\ \A i, k \in items : i.who = v /\ k.who = v => i = k
    /\ \A i \in items, k \in job.left : i.who = v /\ k.who = v => i = k
ForgetInv(v) == job.pc = "forgetting" /\ job.who = v =>
    \A i \in items : i.who = v => i.due + Grace <= clock
\* a request has cancelled what there was before it schedules anything,
WriteInv(v) == \A s \in Staff : req[s].who = v =>
    /\ req[s].pc = "looking" => rel[v] /\ (req[s].new => NoItems(v))
    /\ req[s].pc \in {"looking", "cancelling"} =>
           \A i \in items : i.who = v => clock < i.due + Grace
    /\ req[s].pc \in {"forgetting", "scheduling"} => NoItems(v)
    /\ req[s].pc \in {"cancelling", "forgetting", "scheduling"} /\ req[s].days > 0 =>
           term[v] = clock + req[s].days
    /\ req[s].pc = "naming" =>
           /\ req[s].item.due = term[v]
           /\ \A i \in items : i.who = v => i = req[s].item
\* and what is not restricted has no end, or its end has come.
KeptInv(v) ==
    rel[v] \/ term[v] = None \/ (Free(v) /\ term[v] \in Nat /\ term[v] <= clock)

CleanInv(v) ==
    /\ AloneInv(v) /\ EndInv(v) /\ NamedInv(v) /\ LiftedInv(v)
    /\ LeftInv(v) /\ ForgetInv(v) /\ WriteInv(v) /\ KeptInv(v)

EarlyInv == \A v \in Victims : Clean(v) => CleanInv(v)

\* A step that is not about v.
Elsewhere(v) ==
    /\ use' = use /\ clock' = clock
    /\ \A s \in Staff : req[s].who = v \/ req'[s].who = v => req'[s] = req[s]
    /\ rel'[v] = rel[v] /\ subject'[v] = subject[v] /\ term'[v] = term[v]
    /\ \A i \in items' : i.who = v => i \in items
    /\ \A i \in job.left' : i.who = v => i \in job.left
    /\ job.pc' # "idle" => job.pc # "idle"
    /\ (job.pc = "forgetting" /\ job.who = v)' => job.pc = "forgetting" /\ job.who = v
    /\ use = "timeout" \/ \A i \in items' : i.who = v /\ i \in job.ready => i \in job.ready'

LEMMA CleanElsewhere == ASSUME NEW v \in Victims, CleanInv(v), Elsewhere(v) PROVE CleanInv(v)'
<1>1. \A s \in Staff : req'[s].who = v => req[s].who = v /\ req'[s] = req[s]
  BY DEF Elsewhere
<1>2. Free(v) => Free(v)'
  BY <1>1 DEF Free
<1>3. /\ Free(v)' => Free(v)
      /\ At(v, {"looking"})' => At(v, {"looking"})
      /\ At(v, {"looking", "cancelling"})' => At(v, {"looking", "cancelling"})
  BY DEF Elsewhere, Free, At
<1>4. NoItems(v) => NoItems(v)'
  BY DEF Elsewhere, NoItems
<1>5. AloneInv(v)'
  BY <1>1, <1>2 DEF CleanInv, AloneInv, Elsewhere
<1>6. EndInv(v)'
  BY <1>3 DEF CleanInv, EndInv, Elsewhere
<1>7. NamedInv(v)'
  BY <1>3 DEF CleanInv, NamedInv, Elsewhere
<1>8. LiftedInv(v)'
  BY <1>3 DEF CleanInv, LiftedInv, Elsewhere
<1>9. LeftInv(v)' /\ ForgetInv(v)'
  BY <1>4 DEF CleanInv, LeftInv, ForgetInv, Elsewhere
<1>10. WriteInv(v)'
  BY <1>1, <1>4 DEF CleanInv, WriteInv, Elsewhere
<1>11. KeptInv(v)'
  BY <1>2 DEF CleanInv, KeptInv, Elsewhere
<1> QED BY <1>5, <1>6, <1>7, <1>8, <1>9, <1>10, <1>11 DEF CleanInv

LEMMA SpoiltStays ==
  ASSUME TypeInv, [Next]_vars PROVE use' = use /\ \A v \in Victims : spoilt[v] \subseteq spoilt'[v]
<1> USE DEF TypeInv
<1>1. ASSUME NEW s \in load.staff, Asked(s)
      PROVE use' = use /\ \A v \in Victims : spoilt[v] \subseteq spoilt'[v]
  <2>1. PICK v, days, pc : Begin(s, v, days, pc)
    BY <1>1, Zenon DEF Asked, Ban, Timeout, Mute, Lift
  <2> QED BY <2>1 DEF Begin, WorldInv
<1>2. ASSUME NEW s \in Staff, Step(s) PROVE use' = use /\ spoilt' = spoilt
  BY <1>2 DEF Step, Look, CancelOld, ForgetOld, Schedule, NameNew
<1>3. ASSUME NEW s \in Staff, RequestDies(s)
      PROVE use' = use /\ \A v \in Victims : spoilt[v] \subseteq spoilt'[v]
  BY <1>3 DEF RequestDies, WorldInv
<1>4. CASE Job
  BY <1>4 DEF Job, StartJob, RunItem, JobCancels, JobForgets, Cleanup, WorldInv
<1>5. CASE HookRaises \/ JobDies
  BY <1>5 DEF HookRaises, JobDies, Spoil, WorldInv
<1>6. CASE Tick \/ UNCHANGED vars
  BY <1>6 DEF Tick, vars
<1> QED BY <1>1, <1>2, <1>3, <1>4, <1>5, <1>6 DEF Next

\* A request that begins for an account, and is the only thing that goes on for it.
LEMMA BeginAlone ==
  ASSUME TypeInv, NEW s \in Staff, NEW v \in Victims, NEW days \in Nat, NEW pc \in Places,
         Begin(s, v, days, pc), Clean(v)'
  PROVE  /\ Free(v) /\ job = JobRest /\ job' = job
         /\ req'[s] = [pc |-> pc, who |-> v, days |-> days, new |-> ~rel[v], item |-> None]
         /\ \A t \in Staff : req'[t].who = v => t = s
         /\ items' = items /\ subject' = subject /\ clock' = clock /\ use' = use
         /\ \A i \in items : i.who = v => clock < i.due + Grace
<1> USE DEF TypeInv
<1>1. "requests" \notin spoilt'[v] /\ "job" \notin spoilt'[v] /\ "late" \notin spoilt'[v]
  BY DEF Clean, Hastens
<1>2. RequestsFor(v) = {} /\ job.pc = "idle" /\ ~Unnamed(v)
  BY <1>1 DEF Begin, WorldInv
<1>5. \A i \in items : i.who = v => clock < i.due + Grace
  BY <1>2, BanAssumption DEF Unnamed, WorldInv, RowInv, Item
<1>3. Free(v)
  BY <1>2 DEF RequestsFor, Free
<1>4. /\ req'[s] = [pc |-> pc, who |-> v, days |-> days, new |-> ~rel[v], item |-> None]
      /\ \A t \in Staff : t # s => req'[t] = req[t]
  BY DEF Begin, RequestInv
<1> QED BY <1>2, <1>3, <1>4, <1>5 DEF Begin, JobInv, Free, row

\* A request that begins for another account.
LEMMA BeginElsewhere ==
  ASSUME TypeInv, NEW s \in Staff, NEW w \in Victims, NEW days \in Nat, NEW pc \in Places,
         Begin(s, w, days, pc), NEW v \in Victims, v # w,
         rel'[v] = rel[v], term'[v] = term[v]
  PROVE  Elsewhere(v)
<1>1. \A t \in Staff : req[t].who = v \/ req'[t].who = v => req'[t] = req[t]
  <2>1. req[s].who # v /\ req'[s].who = w /\ \A t \in Staff : t # s => req'[t] = req[t]
    BY BanAssumption DEF Begin, TypeInv, RequestInv, Rest
  <2> QED BY <2>1
<1> QED BY <1>1 DEF Begin, Elsewhere, row

LEMMA AskedClean ==
  ASSUME TypeInv, NEW s \in load.staff, Asked(s), NEW v \in Victims, CleanInv(v), Clean(v)'
  PROVE  CleanInv(v)'
<1> USE BanAssumption DEF TypeInv
<1>0. s \in Staff /\ load.who \subseteq Victims /\ clock \in Nat
  BY DEF WorldInv
<1>1. ASSUME NEW w \in Victims, NEW days \in Nat, NEW pc \in Places, Begin(s, w, days, pc),
             w # v, rel'[v] = rel[v], term'[v] = term[v]
      PROVE CleanInv(v)'
  BY <1>0, <1>1, BeginElsewhere, CleanElsewhere
<1>2. ASSUME NEW days \in Nat, NEW pc \in Places, Begin(s, v, days, pc),
             pc \in {"looking", "cancelling", "scheduling"},
             pc = "looking" => term'[v] = term[v] /\ rel'[v] /\ use # "timeout",
             pc = "scheduling" => ~rel[v] /\ use # "timeout",
             pc # "looking" /\ days > 0 => term'[v] = clock + days,
             rel'[v] \/ term'[v] = None
      PROVE CleanInv(v)'
  <2>1. /\ Free(v) /\ job = JobRest /\ job' = job
        /\ req'[s] = [pc |-> pc, who |-> v, days |-> days, new |-> ~rel[v], item |-> None]
        /\ \A t \in Staff : req'[t].who = v => t = s
        /\ items' = items /\ subject' = subject /\ clock' = clock /\ use' = use
        /\ \A i \in items : i.who = v => clock < i.due + Grace
    BY <1>0, <1>2, BeginAlone
  <2>2. job.pc = "idle" /\ job.left = {} /\ job.ready = {}
    BY <2>1 DEF JobRest
  <2>3. ~rel[v] /\ use # "timeout" => NoItems(v)
    BY <2>1, <2>2 DEF CleanInv, LiftedInv, NoItems
  <2>4. AloneInv(v)' /\ LeftInv(v)' /\ ForgetInv(v)' /\ KeptInv(v)'
    BY <1>2, <2>1, <2>2 DEF CleanInv, AloneInv, LeftInv, ForgetInv, KeptInv
  <2>5. At(v, {"looking"})' => pc = "looking"
    BY <1>0, <2>1 DEF At
  <2>6. EndInv(v)' /\ NamedInv(v)'
    BY <1>2, <2>1, <2>5 DEF CleanInv, EndInv, NamedInv, Free, At
  <2>7. LiftedInv(v)'
    BY <1>0, <2>1 DEF LiftedInv, Free
  <2>8. WriteInv(v)'
    <3>1. /\ req'[s].pc = pc /\ req'[s].days = days /\ req'[s].new = ~rel[v] /\ NoItems(v)' = NoItems(v)
      BY <2>1 DEF NoItems
    <3>2. pc = "looking" => rel'[v] /\ (~rel[v] => NoItems(v)')
      BY <1>2, <2>3, <3>1
    <3>3. pc = "scheduling" => NoItems(v)'
      BY <1>2, <2>3, <3>1
    <3>4. pc # "looking" /\ days > 0 => term'[v] = clock' + days
      BY <1>2, <2>1
    <3>5. pc \notin {"forgetting", "naming"}
      BY <1>2
    <3> QED BY <2>1, <3>1, <3>2, <3>3, <3>4, <3>5 DEF WriteInv
  <2> QED BY <2>4, <2>6, <2>7, <2>8 DEF CleanInv
<1>3. ASSUME NEW w \in Victims, NEW days \in Days \cup {0}, Ban(s, w, days) PROVE CleanInv(v)'
  <2>1. days \in Nat /\ "looking" \in Places
    BY DEF Places
  <2>2. /\ Begin(s, w, days, "looking") /\ use = "ban"
        /\ rel' = [rel EXCEPT ![w] = TRUE] /\ term' = term
    BY <1>3, Zenon DEF Ban
  <2>3. rel'[w] /\ (w # v => rel'[v] = rel[v])
    BY <2>2 DEF WorldInv
  <2>4. CASE w = v
    BY <1>2, <2>1, <2>2, <2>3, <2>4
  <2> QED BY <1>1, <2>1, <2>2, <2>3, <2>4
<1>4. ASSUME NEW w \in Victims, NEW days \in Days \cup {0}, Timeout(s, w, days)
      PROVE CleanInv(v)'
  <2>1. days \in Nat
    BY DaysInNat, Zenon
  <2>2. /\ Begin(s, w, days, "cancelling") /\ rel' = [rel EXCEPT ![w] = TRUE]
        /\ term' = [term EXCEPT ![w] = End(days)]
    BY <1>4, Zenon DEF Timeout
  <2>3. days > 0 => End(days) = clock + days
    BY <2>1 DEF End
  <2> QED BY <1>1, <1>2, <2>1, <2>2, <2>3 DEF WorldInv, Places
<1>5. ASSUME NEW w \in Victims, Mute(s, w) PROVE CleanInv(v)'
  <2>1. MuteDays \in Nat
    OBVIOUS
  <2>2. /\ Begin(s, w, MuteDays, "scheduling") /\ use = "mute" /\ ~rel[w]
        /\ rel' = [rel EXCEPT ![w] = TRUE] /\ term' = [term EXCEPT ![w] = clock + MuteDays]
    BY <1>5, Zenon DEF Mute
  <2> QED BY <1>1, <1>2, <2>1, <2>2 DEF WorldInv, Places
<1>6. ASSUME NEW w \in Victims, Lift(s, w) PROVE CleanInv(v)'
  <2>1. /\ Begin(s, w, 0, "cancelling") /\ rel' = [rel EXCEPT ![w] = FALSE]
        /\ term' = [term EXCEPT ![w] = None]
    BY <1>6, Zenon DEF Lift
  <2>2. term'[w] = None /\ (w # v => rel'[v] = rel[v] /\ term'[v] = term[v])
    BY <2>1 DEF WorldInv
  <2>3. "cancelling" \in Places /\ 0 \in Nat
    BY DEF Places
  <2>4. CASE w = v
    BY <1>2, <2>1, <2>2, <2>3, <2>4
  <2> QED BY <1>1, <2>1, <2>2, <2>3, <2>4
<1> QED BY <1>0, <1>3, <1>4, <1>5, <1>6 DEF Asked

\* A request that goes on, for another account.
LEMMA StepElsewhere ==
  ASSUME TypeInv, NEW s \in Staff, Step(s) \/ RequestDies(s), NEW v \in Victims, req[s].who # v
  PROVE  Elsewhere(v)
<1> USE BanAssumption DEF TypeInv
<1> DEFINE w == req[s].who
<1>0. w \in Victims
  BY DEF Step, Look, CancelOld, ForgetOld, Schedule, NameNew, RequestDies, RequestInv, Valid
<1>1. /\ use' = use /\ clock' = clock /\ rel' = rel /\ job' = job
      /\ \A t \in Staff : t # s => req'[t] = req[t]
  BY DEF Step, Look, CancelOld, ForgetOld, Schedule, NameNew, RequestDies, Goto, Done, RequestInv
<1>2. req'[s].who # v
  <2>1. CASE Done(s)
    BY <2>1 DEF Done, Rest, RequestInv
  <2>2. ASSUME NEW pc, Goto(s, pc) PROVE req'[s].who = w
    BY <2>2 DEF Goto, RequestInv, Requests
  <2>3. CASE Schedule(s)
    BY <2>3 DEF Schedule, RequestInv, Requests
  <2> QED
    BY <2>1, <2>2, <2>3 DEF Step, Look, CancelOld, ForgetOld, NameNew, RequestDies
<1>3. subject'[v] = subject[v] /\ term'[v] = term[v]
  <2>1. CASE Look(s)
    BY <2>1 DEF Look, WorldInv
  <2>2. CASE ForgetOld(s)
    BY <2>2 DEF ForgetOld, Forget, SubjectInv
  <2>3. CASE NameNew(s)
    BY <2>3 DEF NameNew, Name, SubjectInv, RequestInv, Valid
  <2> QED
    BY <2>1, <2>2, <2>3 DEF Step, CancelOld, Schedule, RequestDies
<1>4. \A i \in items' : i.who = v => i \in items
  BY <1>0 DEF Step, Look, CancelOld, Cancel, ForgetOld, Schedule, Add, NewItem, NameNew, RequestDies, row
<1> QED BY <1>1, <1>2, <1>3, <1>4 DEF Elsewhere

LEMMA StepClean ==
  ASSUME TypeInv, NEW s \in Staff, Step(s) \/ RequestDies(s),
         NEW v \in Victims, CleanInv(v), Clean(v)'
  PROVE  CleanInv(v)'
<1> USE BanAssumption DEF TypeInv
<1>1. CASE req[s].who # v
  BY <1>1, StepElsewhere, CleanElsewhere
<1>2. CASE req[s].who = v
  <2> DEFINE days == req[s].days
  <2>1. /\ \A t \in Staff : t # s => req[t].who # v
        /\ ~Free(v) /\ job = JobRest
    BY <1>2 DEF CleanInv, AloneInv, Free, JobInv
  <2>2. /\ job.pc = "idle" /\ job.left = {} /\ job.ready = {}
        /\ use' = use /\ clock' = clock /\ rel' = rel /\ job' = job
        /\ \A t \in Staff : t # s => req'[t] = req[t] /\ req'[t].who # v
    BY <2>1 DEF JobRest, Step, Look, CancelOld, ForgetOld, Schedule, NameNew, RequestDies,
       Goto, Done, RequestInv
  <2>3. AloneInv(v)' /\ ForgetInv(v)' /\ (items' \subseteq items \/ NoItems(v)' => LeftInv(v)')
    BY <2>2 DEF CleanInv, AloneInv, LeftInv, ForgetInv, NoItems
  <2>4. days \in Nat /\ clock \in Nat /\ term[v] \in Nat \cup {None, Forever}
    BY DEF RequestInv, Requests, WorldInv
  <2>5. Done(s) => Free(v)'
    BY <2>2 DEF Done, Rest, Free, RequestInv
  <2>6. ASSUME NEW pc, Goto(s, pc)
        PROVE  /\ req'[s].pc = pc /\ req'[s].who = v /\ req'[s].days = days /\ ~Free(v)'
               /\ \A places : At(v, places)' => pc \in places
    <3>1. req'[s].pc = pc /\ req'[s].who = v /\ req'[s].days = days
      BY <1>2, <2>6 DEF Goto, RequestInv, Requests
    <3> QED BY <3>1 DEF Free, At
  <2>7. rel[v] \/ term[v] = None
    BY <2>1 DEF CleanInv, KeptInv
  <2>8. ASSUME NEW i \in items, i.who = v, At(v, {"looking", "cancelling"})
        PROVE  Found(v) = i /\ clock < i.due + Grace
    <3>1. clock < i.due + Grace
      BY <1>2, <2>8 DEF CleanInv, WriteInv, At
    <3>2. subject[v] # None /\ subject[v].item = i
      <4>1. i.due + Grace \in Int
        BY <2>8 DEF RowInv, Item
      <4> QED BY <2>4, <2>8, <3>1, <4>1 DEF CleanInv, NamedInv
    <3> QED BY <3>1, <3>2 DEF Found, SubjectInv
  <2>9. NoItems(v) /\ items' = items => NoItems(v)'
    BY DEF NoItems
  <2>10. ASSUME Done(s), NoItems(v)', rel[v] \/ term'[v] = None PROVE CleanInv(v)'
    <3>1. EndInv(v)' /\ NamedInv(v)' /\ LiftedInv(v)'
      BY <2>2, <2>10 DEF EndInv, NamedInv, LiftedInv, NoItems
    <3>2. WriteInv(v)' /\ KeptInv(v)'
      BY <2>2, <2>5, <2>10 DEF WriteInv, KeptInv, Free
    <3> QED BY <2>3, <2>10, <3>1, <3>2 DEF CleanInv
  <2>11. CASE Look(s)
    <3> DEFINE existing == IF req[s].new THEN None ELSE Found(v)
               keep == days > 0 /\ existing # None /\ SameEnd(existing, days)
               change == IF days > 0 THEN ~keep ELSE existing # None
    <3>1. /\ req[s].pc = "looking" /\ items' = items /\ subject' = subject
          /\ IF change THEN Goto(s, "cancelling") ELSE Done(s)
          /\ term'[v] = IF keep THEN term[v] ELSE End(days)
      BY <1>2, <2>11 DEF Look, row, WorldInv
    <3>2. rel[v] /\ (req[s].new => NoItems(v)) /\ At(v, {"looking"}) /\ At(v, {"looking", "cancelling"})
      BY <1>2, <2>1, <3>1 DEF CleanInv, WriteInv, At
    <3>3. CASE keep
      <4>1. EndInv(v)' /\ NamedInv(v)' /\ LiftedInv(v)'
        BY <2>2, <3>1, <3>2, <3>3 DEF CleanInv, EndInv, NamedInv, LiftedInv
      <4>2. WriteInv(v)' /\ KeptInv(v)'
        BY <2>2, <2>5, <3>1, <3>2, <3>3 DEF WriteInv, KeptInv, Free
      <4> QED BY <2>3, <3>1, <4>1, <4>2 DEF CleanInv
    <3>4. CASE ~keep /\ ~change
      <4>1. existing = None /\ Done(s)
        BY <3>1, <3>4
      <4>2. NoItems(v)
        <5> SUFFICES ASSUME NEW i \in items, i.who = v, ~req[s].new PROVE FALSE
          BY <3>2 DEF NoItems
        <5>1. Found(v) = i /\ Found(v) = None
          BY <2>8, <3>2, <4>1
        <5> QED BY <5>1 DEF RowInv, Item
      <4> QED BY <2>9, <2>10, <3>1, <3>2, <4>1, <4>2
    <3>5. CASE ~keep /\ change
      <4>1. Goto(s, "cancelling") /\ (days > 0 => term'[v] = clock + days)
        BY <2>4, <3>1, <3>5 DEF End
      <4>2. EndInv(v)' /\ NamedInv(v)' /\ LiftedInv(v)' /\ KeptInv(v)'
        BY <2>2, <2>6, <3>1, <3>2, <4>1 DEF CleanInv, EndInv, NamedInv, LiftedInv, KeptInv
      <4>3. WriteInv(v)'
        BY <1>2, <2>2, <2>6, <3>1, <4>1 DEF CleanInv, WriteInv
      <4> QED BY <2>3, <3>1, <4>2, <4>3 DEF CleanInv
    <3> QED BY <3>3, <3>4, <3>5
  <2>12. CASE CancelOld(s)
    <3>1. /\ req[s].pc = "cancelling" /\ items' = items \ {Found(v)} /\ Goto(s, "forgetting")
          /\ term' = term
      BY <1>2, <2>12 DEF CancelOld, Cancel
    <3>2. NoItems(v)'
      <4>1. At(v, {"looking", "cancelling"})
        BY <2>1, <3>1 DEF At
      <4> QED BY <2>8, <3>1, <4>1 DEF NoItems
    <3>3. EndInv(v)' /\ NamedInv(v)' /\ LiftedInv(v)' /\ KeptInv(v)'
      BY <2>2, <2>6, <2>7, <3>1, <3>2 DEF EndInv, NamedInv, LiftedInv, KeptInv, NoItems
    <3>4. days > 0 => term[v] = clock + days
      BY <1>2, <3>1 DEF CleanInv, WriteInv
    <3>5. WriteInv(v)'
      BY <2>2, <2>6, <3>1, <3>2, <3>4 DEF WriteInv
    <3> QED BY <2>3, <3>2, <3>3, <3>5 DEF CleanInv
  <2>13. CASE ForgetOld(s)
    <3>1. /\ req[s].pc = "forgetting" /\ items' = items /\ term' = term
          /\ IF days > 0 THEN Goto(s, "scheduling") ELSE Done(s)
      BY <2>13 DEF ForgetOld, row
    <3>2. NoItems(v)' /\ (days > 0 => term[v] = clock + days)
      BY <1>2, <2>9, <3>1 DEF CleanInv, WriteInv
    <3>3. CASE Done(s)
      BY <2>7, <2>10, <3>1, <3>2, <3>3
    <3>4. CASE Goto(s, "scheduling") /\ days > 0
      <4>1. EndInv(v)' /\ NamedInv(v)' /\ LiftedInv(v)' /\ KeptInv(v)'
        BY <2>2, <2>6, <2>7, <3>1, <3>2, <3>4 DEF EndInv, NamedInv, LiftedInv, KeptInv, NoItems
      <4>2. WriteInv(v)'
        BY <2>2, <2>6, <3>1, <3>2, <3>4 DEF WriteInv
      <4> QED BY <2>3, <3>2, <4>1, <4>2 DEF CleanInv
    <3> QED BY <3>1, <3>3, <3>4
  <2>14. CASE Schedule(s)
    <3> DEFINE item == NewItem(req[s].who, req[s].days)
    <3>1. /\ req[s].pc = "scheduling" /\ items' = items \cup {item} /\ term' = term
          /\ item.due = clock + days
      BY <2>14 DEF Schedule, Add, NewItem
    <3>2. req'[s].pc = "naming" /\ req'[s].who = v /\ req'[s].item = item
      BY <1>2, <2>14 DEF Schedule, RequestInv, Requests
    <3>3. NoItems(v) /\ term[v] = clock + days
      <4>1. days > 0
        BY <3>1 DEF RequestInv, Valid
      <4> QED BY <1>2, <3>1, <4>1 DEF CleanInv, WriteInv
    <3> HIDE DEF item
    <3>4. ~At(v, {"looking"})' /\ ~At(v, {"looking", "cancelling"})' /\ ~Free(v)'
      BY <3>2 DEF At, Free
    <3>5. WriteInv(v)'
      BY <2>2, <3>1, <3>2, <3>3 DEF WriteInv, NoItems
    <3>6. EndInv(v)' /\ NamedInv(v)' /\ LiftedInv(v)' /\ KeptInv(v)'
      BY <2>2, <2>7, <3>1, <3>4 DEF EndInv, NamedInv, LiftedInv, KeptInv
    <3>7. LeftInv(v)'
      BY <2>2, <3>1, <3>3 DEF LeftInv, NoItems
    <3> QED BY <2>3, <3>5, <3>6, <3>7 DEF CleanInv
  <2>15. CASE NameNew(s)
    <3> DEFINE item == req[s].item
    <3>1. /\ req[s].pc = "naming" /\ items' = items /\ term' = term /\ Done(s)
          /\ item \in Item /\ item.who = v
      BY <1>2, <2>15 DEF NameNew, row, RequestInv, Requests, Valid
    <3>2. subject'[v] # None /\ subject'[v].item = item
      BY <3>1, <2>15 DEF NameNew, Name, SubjectInv, Item
    <3>3. item.due = term[v] /\ \A i \in items : i.who = v => i = item
      BY <1>2, <3>1 DEF CleanInv, WriteInv
    <3>4. rel[v]
      BY <2>7, <3>1, <3>3 DEF Item
    <3>5. EndInv(v)' /\ NamedInv(v)' /\ LiftedInv(v)'
      BY <2>2, <3>1, <3>2, <3>3, <3>4 DEF EndInv, NamedInv, LiftedInv
    <3>6. WriteInv(v)' /\ KeptInv(v)'
      BY <2>2, <2>5, <3>1, <3>4 DEF WriteInv, KeptInv, Free
    <3> QED BY <2>3, <3>1, <3>5, <3>6 DEF CleanInv
  <2>16. CASE RequestDies(s)
    BY <1>2, <2>16 DEF RequestDies, Clean, Hastens, WorldInv
  <2> QED BY <2>11, <2>12, <2>13, <2>14, <2>15, <2>16 DEF Step
<1> QED BY <1>1, <1>2

\* The clean-up leaves none of the items that were ready: none is newer than the
\* newest of them.
LEMMA NewestIsThere == ASSUME RowInv, JobInv, job.ready # {} PROVE
    /\ Max(Stamps(job.ready)) \in Stamps(job.ready)
    /\ \A i \in job.ready : i.stamp <= Max(Stamps(job.ready))
<1> DEFINE S == Stamps(job.ready)
           T == {n \in Nat : \A x \in S : x <= n}
<1>1. S # {} /\ S \subseteq Nat /\ \A x \in S : x <= writes
  BY DEF Stamps, JobInv, Jobs, Item
<1>2. T # {} /\ T \subseteq Nat
  BY <1>1 DEF RowInv
<1>3. PICK m \in T : \A k \in T : <<k, m>> \notin OpToRel(<, Nat)
  <2> HIDE DEF T
  <2> QED BY <1>2, WFMin, NatLessThanWellFounded, Zenon
<1>4. \A k \in T : ~(k < m)
  <2> HIDE DEF T
  <2> QED BY <1>2, <1>3 DEF OpToRel
<1>5. m \in S
  <2> HIDE DEF S
  <2> SUFFICES ASSUME m \notin S PROVE FALSE
    OBVIOUS
  <2>1. m \in Nat /\ \A x \in S : x <= m - 1
    BY <1>1
  <2>2. m - 1 \in Nat
    <3>1. PICK x \in S : x \in Nat
      BY <1>1
    <3> QED BY <2>1, <3>1
  <2>3. m - 1 \in T
    BY <2>1, <2>2
  <2> QED BY <1>4, <2>1, <2>3
<1>6. \E x \in S : \A y \in S : x >= y
  <2> HIDE DEF S
  <2> QED BY <1>1, <1>5
<1>7. Max(S) \in S /\ \A y \in S : Max(S) >= y
  <2> HIDE DEF S
  <2> QED BY <1>6 DEF Max
<1>8. \A i \in job.ready : i.stamp \in S
  BY DEF Stamps
<1> HIDE DEF S
<1>9. \A i \in job.ready : i.stamp <= Max(S)
  BY <1>1, <1>7, <1>8
<1> QED BY <1>7, <1>9 DEF S

LEMMA ReadyAreRemoved == ASSUME TypeInv, Cleanup PROVE \A i \in items' : i \in items /\ i \notin job.ready
<1>1. job.ready # {}
  BY DEF TypeInv, JobInv, Cleanup
<1>2. \A i \in items : i \in job.ready => i \in Processed
  BY <1>1, NewestIsThere DEF Processed, TypeInv
<1> QED BY <1>2 DEF Cleanup

LEMMA JobClean ==
  ASSUME TypeInv, Job \/ HookRaises \/ JobDies,
         NEW v \in Victims, CleanInv(v), Clean(v)'
  PROVE  CleanInv(v)'
<1> USE BanAssumption DEF TypeInv
<1>0. /\ use' = use /\ clock' = clock /\ req' = req /\ term' = term
  BY DEF Job, StartJob, RunItem, JobCancels, JobForgets, Cleanup, HookRaises, JobDies
<1>1. /\ Free(v)' = Free(v) /\ \A places : At(v, places)' = At(v, places)
  BY <1>0 DEF Free, At
<1>2. Free(v) => WriteInv(v)' /\ At(v, {"looking"}) /\ At(v, {"looking", "cancelling"})
  BY <1>0 DEF WriteInv, Free, At
<1>3. job.pc # "idle" => Free(v)
  BY DEF CleanInv, AloneInv
<1>4. CASE StartJob
  <2> DEFINE ready == {i \in items : i.due <= clock}
  <2>1. /\ job' = [pc |-> "hook", ready |-> ready, unripe |-> items \ ready, left |-> ready,
                   who |-> None]
        /\ job = JobRest /\ items' = items /\ rel' = rel /\ subject' = subject
    BY <1>4 DEF StartJob, JobRest, row
  <2>2. Free(v)
    <3>1. RequestsFor(v) = {}
      BY <1>4 DEF StartJob, Clean, Hastens, WorldInv
    <3> QED BY <3>1 DEF RequestsFor, Free
  <2>3. AloneInv(v)' /\ ForgetInv(v)' /\ KeptInv(v)'
    BY <1>0, <1>1, <2>1, <2>2 DEF CleanInv, AloneInv, ForgetInv, KeptInv
  <2>4. EndInv(v)' /\ NamedInv(v)' /\ LeftInv(v)'
    BY <1>0, <1>2, <2>1, <2>2 DEF CleanInv, EndInv, NamedInv, LeftInv
  <2>5. LiftedInv(v)'
    BY <1>0, <1>1, <2>1 DEF CleanInv, LiftedInv, JobRest
  <2> QED BY <1>2, <2>2, <2>3, <2>4, <2>5 DEF CleanInv
<1>5. CASE RunItem
  <2> DEFINE k == Soonest
  <2>1. k \in job.left /\ k \in job.ready /\ k \in Item
    BY <1>5, SoonestIsLeft DEF RunItem, JobInv, Jobs
  <2>2. /\ job.pc = "hook" /\ items' = items /\ subject' = subject
        /\ rel' = [rel EXCEPT ![k.who] = FALSE]
        /\ job'.left = job.left \ {k} /\ job'.ready = job.ready
        /\ job'.pc \in {"cancelling", "hook"}
    BY <1>5 DEF RunItem, JobInv, Jobs, row
  <2> HIDE DEF k
  <2>3. CASE k.who # v
    <3>1. Elsewhere(v)
      BY <1>0, <2>1, <2>2, <2>3 DEF Elsewhere, WorldInv
    <3> QED BY <3>1, CleanElsewhere
  <2>4. CASE k.who = v
    <3>1. Free(v) /\ At(v, {"looking"}) /\ At(v, {"looking", "cancelling"})
      BY <1>2, <1>3, <2>2
    <3>2. term[v] = k.due /\ k.due <= clock
      BY <2>1, <2>4, <3>1 DEF CleanInv, EndInv, JobInv
    <3>3. AloneInv(v)' /\ ForgetInv(v)' /\ KeptInv(v)'
      BY <1>0, <1>1, <2>1, <2>2, <3>1, <3>2 DEF CleanInv, AloneInv, ForgetInv, KeptInv, Item
    <3>4. EndInv(v)' /\ NamedInv(v)' /\ LeftInv(v)'
      BY <1>0, <2>2, <3>1 DEF CleanInv, EndInv, NamedInv, LeftInv
    <3>5. LiftedInv(v)'
      BY <2>1, <2>2, <2>4 DEF CleanInv, LiftedInv, LeftInv
    <3> QED BY <1>2, <3>1, <3>3, <3>4, <3>5 DEF CleanInv
  <2> QED BY <2>3, <2>4
<1>6. CASE JobCancels
  <2> DEFINE w == job.who
  <2>1. /\ job.pc = "cancelling" /\ items' = items \ {Found(w)} /\ subject' = subject /\ rel' = rel
        /\ job'.left = job.left /\ job'.ready = job.ready
        /\ job'.pc = "forgetting" /\ job'.who = w
    BY <1>6 DEF JobCancels, Cancel, JobInv, Jobs
  <2>2. CASE w # v
    <3>1. Elsewhere(v)
      BY <1>0, <2>1, <2>2 DEF Elsewhere
    <3> QED BY <3>1, CleanElsewhere
  <2>3. CASE w = v
    <3>1. Free(v) /\ At(v, {"looking"}) /\ At(v, {"looking", "cancelling"})
      BY <1>2, <1>3, <2>1
    <3>2. ForgetInv(v)'
      <4> SUFFICES ASSUME NEW i \in items, i.who = v, ~(i.due + Grace <= clock) PROVE Found(v) = i
        BY <1>0, <2>1, <2>3 DEF ForgetInv
      <4>1. subject[v] # None /\ subject[v].item = i
        BY <3>1 DEF CleanInv, NamedInv
      <4>2. clock < i.due + Grace
        BY DEF RowInv, Item, WorldInv
      <4> QED BY <4>1, <4>2 DEF Found, SubjectInv
    <3>3. AloneInv(v)' /\ KeptInv(v)'
      BY <1>0, <1>1, <2>1, <3>1 DEF CleanInv, AloneInv, KeptInv
    <3>4. EndInv(v)' /\ NamedInv(v)' /\ LeftInv(v)' /\ LiftedInv(v)'
      BY <1>0, <1>1, <2>1, <3>1 DEF CleanInv, EndInv, NamedInv, LeftInv, LiftedInv
    <3> QED BY <1>2, <3>1, <3>2, <3>3, <3>4 DEF CleanInv
  <2> QED BY <2>2, <2>3
<1>7. CASE JobForgets
  <2> DEFINE w == job.who
  <2>1. /\ job.pc = "forgetting" /\ items' = items /\ subject' = [subject EXCEPT ![w] = None]
        /\ rel' = rel /\ job'.left = job.left /\ job'.ready = job.ready
        /\ job'.pc = "hook"
    BY <1>7 DEF JobForgets, Forget, JobInv, Jobs, row
  <2>2. CASE w # v
    <3>1. Elsewhere(v)
      BY <1>0, <2>1, <2>2 DEF Elsewhere, SubjectInv
    <3> QED BY <3>1, CleanElsewhere
  <2>3. CASE w = v
    <3>1. /\ Free(v) /\ At(v, {"looking"})
          /\ \A i \in items : i.who = v => i.due + Grace <= clock
      BY <1>2, <1>3, <2>1, <2>3 DEF CleanInv, ForgetInv
    <3>2. AloneInv(v)' /\ ForgetInv(v)' /\ KeptInv(v)'
      BY <1>0, <1>1, <2>1, <3>1 DEF CleanInv, AloneInv, ForgetInv, KeptInv
    <3>3. EndInv(v)' /\ NamedInv(v)' /\ LeftInv(v)' /\ LiftedInv(v)'
      BY <1>0, <1>1, <2>1, <3>1 DEF CleanInv, EndInv, NamedInv, LeftInv, LiftedInv
    <3> QED BY <1>2, <3>1, <3>2, <3>3 DEF CleanInv
  <2> QED BY <2>2, <2>3
<1>8. CASE HookRaises
  <2>1. /\ job.pc # "idle" /\ job'.pc = "hook" /\ job'.left = {} /\ job'.ready = job.ready
        /\ items' = items /\ rel' = rel /\ subject' = subject
    BY <1>8 DEF HookRaises, JobInv, Jobs, row
  <2>2. Elsewhere(v)
    BY <1>0, <2>1 DEF Elsewhere
  <2> QED BY <2>2, CleanElsewhere
<1>9. CASE Cleanup
  <2>1. job' = JobRest /\ rel' = rel /\ subject' = subject
    BY <1>9 DEF Cleanup
  <2>2. Elsewhere(v)
    BY <1>0, <1>9, <2>1, ReadyAreRemoved DEF Elsewhere, JobRest
  <2> QED BY <2>2, CleanElsewhere
<1>10. CASE JobDies
  <2>1. job' = JobRest /\ items' = items /\ rel' = rel /\ subject' = subject
    BY <1>10 DEF JobDies, row
  <2>2. use = "timeout" \/ \A i \in items : i.who = v => i \notin job.ready
    <3>1. use # "timeout" => "jobdied" \notin spoilt'[v]
      BY <1>0 DEF Clean, Hastens
    <3>2. "jobdied" \notin spoilt'[v] => v \notin Owners(job.ready)
      BY <1>10 DEF JobDies, Spoil
    <3> QED BY <3>1, <3>2 DEF Owners
  <2>3. Elsewhere(v)
    BY <1>0, <2>1, <2>2 DEF Elsewhere, JobRest
  <2> QED BY <2>3, CleanElsewhere
<1> QED BY <1>4, <1>5, <1>6, <1>7, <1>8, <1>9, <1>10 DEF Job

LEMMA TickClean ==
  ASSUME TypeInv, Tick, NEW v \in Victims, CleanInv(v) PROVE CleanInv(v)'
<1> USE BanAssumption DEF TypeInv
<1>1. Free(v)
  BY DEF Tick, Rest, Free
<1>2. /\ items' = items /\ rel' = rel /\ subject' = subject /\ req' = req /\ job' = job
      /\ term' = term /\ use' = use /\ clock' = clock + 1
  BY DEF Tick, row
<1>3. Free(v)' /\ At(v, {"looking"}) /\ At(v, {"looking", "cancelling"}) /\ WriteInv(v)'
  BY <1>1, <1>2 DEF Free, At, WriteInv
<1>4. AloneInv(v)' /\ EndInv(v)' /\ LeftInv(v)'
  BY <1>2, <1>3 DEF CleanInv, AloneInv, EndInv, LeftInv
<1>8. \A i \in items : i.due + Grace <= clock => i.due + Grace <= clock'
  BY <1>2 DEF WorldInv, RowInv, Item
<1>5. NamedInv(v)' /\ ForgetInv(v)'
  BY <1>2, <1>3, <1>8 DEF CleanInv, NamedInv, ForgetInv
<1>6. LiftedInv(v)'
  BY <1>1, <1>2 DEF CleanInv, LiftedInv
<1>7. KeptInv(v)'
  BY <1>2, <1>3 DEF CleanInv, KeptInv, WorldInv
<1> QED BY <1>3, <1>4, <1>5, <1>6, <1>7 DEF CleanInv

\* Each step keeps what holds of the accounts nothing has come between.
LEMMA EarlyNext == ASSUME TypeInv, EarlyInv, [Next]_vars PROVE EarlyInv'
<1>2. SUFFICES ASSUME NEW v \in Victims, Clean(v)' PROVE CleanInv(v)'
  BY DEF EarlyInv
<1>3. CleanInv(v)
  BY <1>2, SpoiltStays DEF EarlyInv, Clean, Hastens
<1>4. ASSUME NEW s \in load.staff, Asked(s) PROVE CleanInv(v)'
  BY <1>2, <1>3, <1>4, AskedClean
<1>5. ASSUME NEW s \in Staff, Step(s) \/ RequestDies(s) PROVE CleanInv(v)'
  BY <1>2, <1>3, <1>5, StepClean
<1>6. CASE Job \/ HookRaises \/ JobDies
  BY <1>2, <1>3, <1>6, JobClean
<1>7. CASE Tick
  BY <1>3, <1>7, TickClean
<1>8. CASE UNCHANGED vars
  BY <1>3, <1>8 DEF vars, CleanInv, AloneInv, EndInv, NamedInv, LiftedInv, LeftInv, ForgetInv,
     WriteInv, KeptInv, Free, At, NoItems
<1> QED BY <1>4, <1>5, <1>6, <1>7, <1>8 DEF Next

LEMMA EarlyInit == Init => TypeInv /\ EarlyInv
<1> SUFFICES ASSUME Init PROVE TypeInv /\ EarlyInv
  OBVIOUS
<1> USE BanAssumption DEF Init
<1>1. WorldInv /\ RowInv /\ SubjectInv
  BY DEF WorldInv, RowInv, SubjectInv
<1>2. RequestInv
  BY DEF RequestInv, Requests, Places, Valid, Rest
<1>3. JobInv
  BY DEF JobInv, Jobs, JobRest
<1>4. ASSUME NEW v \in Victims PROVE CleanInv(v)
  BY <1>4 DEF CleanInv, AloneInv, EndInv, NamedInv, LiftedInv, LeftInv, ForgetInv,
     WriteInv, KeptInv, Free, At, NoItems, Rest, JobRest
<1> QED BY <1>1, <1>2, <1>3, <1>4 DEF TypeInv, EarlyInv

\* The types, for any accounts, requests, lengths and loads.
THEOREM TypeCorrect == Spec => []TypeOK
<1>1. Init => TypeInv
  BY EarlyInit
<1> QED BY <1>1, TypeInvNext, TypeInvOK, PTL DEF Spec

\* No restriction is lifted before its end, whatever an earlier one of the account
\* had scheduled and however late the job.
THEOREM EndsInTime == Spec => []NotLiftedEarly
<1>1. TypeInv /\ EarlyInv => NotLiftedEarly
  <2> SUFFICES ASSUME TypeInv, EarlyInv, NEW v \in Victims, RequestsFor(v) = {},
                      spoilt[v] \cap Hastens = {},
                      term[v] = Forever \/ (term[v] \in Nat /\ clock < term[v])
               PROVE  rel[v]
    BY DEF NotLiftedEarly
  <2>1. KeptInv(v)
    BY DEF EarlyInv, Clean, CleanInv
  <2> QED BY <2>1, BanAssumption DEF KeptInv, TypeInv, WorldInv
<1>2. TypeInv /\ EarlyInv /\ [Next]_vars => (TypeInv /\ EarlyInv)'
  BY TypeInvNext, EarlyNext
<1> QED BY EarlyInit, <1>1, <1>2, PTL DEF Spec

-----------------------------------------------------------------------------
\* What is to end a restriction stays scheduled.

Sure(v) == spoilt[v] \cap Prevents = {}

\* An item that is to end it is in the row, and the job that has read it, if any,
\* has it before it.
Pending(v) ==
    \E i \in items : i.who = v /\ i.due = term[v] /\ (i \in job.ready => i \in job.left)

\* A restriction with an end has an item in the row that is to end it, unless one
\* of the requests for it died or overlapped another, or the hook raised: the job's
\* clean-up, which deletes by write timestamp, deletes none that has not been run.
EndIsScheduled == \A v \in Victims :
    RequestsFor(v) = {} /\ rel[v] /\ term[v] \in Nat /\ Sure(v) => Pending(v)

\* What the job has not read was written after all that it has to delete.
NewerInv == job.pc # "idle" =>
    \A i \in items : i \in job.ready \/ i \in job.unripe \/ \A k \in job.ready : k.stamp < i.stamp

OneInv(v) ==
    /\ \A s, t \in Staff : req[s].who = v /\ req[t].who = v => s = t
    /\ use # "ban" /\ job.pc # "idle" => Free(v)
RunInv(v) == job.who = v => ~rel[v]
PendingInv(v) == Free(v) /\ rel[v] /\ term[v] \in Nat => Pending(v)
OnItsWay(v) == \A s \in Staff : req[s].who = v =>
    /\ req[s].pc = "looking" /\ ~req[s].new /\ rel[v] /\ term[v] \in Nat => Pending(v)
    /\ req[s].pc \in {"cancelling", "forgetting", "scheduling"} /\ req[s].days > 0 =>
           term[v] = clock + req[s].days
    /\ req[s].pc \in {"cancelling", "forgetting"} /\ req[s].days = 0 => term[v] \notin Nat
    /\ req[s].pc = "naming" =>
           req[s].item \in items /\ req[s].item.due = term[v] /\ clock < req[s].item.due

SureInv(v) == OneInv(v) /\ RunInv(v) /\ PendingInv(v) /\ OnItsWay(v)

ScheduledInv == NewerInv /\ \A v \in Victims : Sure(v) => SureInv(v)

\* A step that takes nothing scheduled from v.
Keeps(v) ==
    /\ use' = use /\ clock' = clock
    /\ \A s \in Staff : req[s].who = v \/ req'[s].who = v => req'[s] = req[s]
    /\ rel'[v] = rel[v] /\ term'[v] = term[v]
    /\ \A i \in items : i.who = v /\ (i \in job.ready => i \in job.left) =>
           i \in items' /\ (i \in job.ready' => i \in job.left')
    /\ use = "ban" \/ Free(v) \/ (job.pc' # "idle" => job.pc # "idle")
    /\ job.who' = v => job.who = v

LEMMA SureKept == ASSUME TypeInv, NEW v \in Victims, SureInv(v), Keeps(v) PROVE SureInv(v)'
<1>1. \A s \in Staff : req'[s].who = v => req[s].who = v /\ req'[s] = req[s]
  BY DEF Keeps
<1>2. Free(v)' <=> Free(v)
  BY DEF Keeps, Free
<1>3. Pending(v) => Pending(v)'
  BY DEF Keeps, Pending
<1>4. OneInv(v)' /\ RunInv(v)' /\ PendingInv(v)'
  BY <1>1, <1>2, <1>3 DEF SureInv, OneInv, RunInv, PendingInv, Keeps
<1>5. \A s \in Staff : req[s].pc = "naming" /\ req[s].who = v /\ req[s].item \in items
          /\ clock < req[s].item.due => req[s].item \in items'
  <2> SUFFICES ASSUME NEW s \in Staff, req[s].pc = "naming", req[s].who = v, req[s].item \in items,
                      clock < req[s].item.due
               PROVE  req[s].item \in items'
    OBVIOUS
  <2>1. req[s].item \notin job.ready
    BY DEF TypeInv, WorldInv, RowInv, Item, JobInv
  <2>2. req[s].item.who = v
    BY BanAssumption DEF TypeInv, RequestInv, Valid
  <2> QED BY <2>1, <2>2 DEF Keeps
<1>6. OnItsWay(v)'
  BY <1>1, <1>3, <1>5 DEF SureInv, OnItsWay, Keeps
<1> QED BY <1>4, <1>6 DEF SureInv

LEMMA SureBegins ==
  ASSUME TypeInv, NEW s \in load.staff, Asked(s), NEW v \in Victims, SureInv(v), Sure(v)'
  PROVE  SureInv(v)'
<1> USE BanAssumption DEF TypeInv
<1>0. s \in Staff /\ load.who \subseteq Victims /\ clock \in Nat
  BY DEF WorldInv
<1>1. ASSUME NEW w \in Victims, NEW days \in Nat, NEW pc \in Places, Begin(s, w, days, pc),
             w # v, rel'[v] = rel[v], term'[v] = term[v]
      PROVE SureInv(v)'
  <2>1. Elsewhere(v)
    BY <1>0, <1>1, BeginElsewhere
  <2>2. job' = job /\ items' = items
    BY <1>1 DEF Begin, row
  <2>3. Keeps(v)
    BY <2>1, <2>2 DEF Keeps, Elsewhere
  <2> QED BY <2>3, SureKept
<1>2. ASSUME NEW days \in Nat, NEW pc \in Places, Begin(s, v, days, pc),
             pc \in {"looking", "cancelling", "scheduling"},
             pc = "looking" => term'[v] = term[v] /\ use = "ban",
             pc = "scheduling" => days > 0,
             pc # "looking" /\ days > 0 => term'[v] = clock + days,
             days = 0 /\ pc # "looking" => term'[v] \notin Nat
      PROVE SureInv(v)'
  <2>1. Free(v) /\ (use # "ban" => job.pc = "idle")
    <3>1. "requests" \notin spoilt'[v] /\ (use # "ban" => "job" \notin spoilt'[v])
      BY <1>2 DEF Sure, Prevents, Begin
    <3>2. RequestsFor(v) = {}
      BY <1>2, <3>1 DEF Begin, WorldInv
    <3>3. use # "ban" => job.pc = "idle"
      BY <1>2, <3>1 DEF Begin, WorldInv
    <3> QED BY <3>2, <3>3 DEF Free, RequestsFor
  <2>2. /\ req'[s] = [pc |-> pc, who |-> v, days |-> days, new |-> ~rel[v], item |-> None]
        /\ \A t \in Staff : t # s => req'[t] = req[t]
        /\ items' = items /\ clock' = clock /\ use' = use /\ job' = job
    BY <1>0, <1>2 DEF Begin, RequestInv, row
  <2>3. \A t \in Staff : req'[t].who = v => t = s
    BY <2>1, <2>2 DEF Free
  <2>4. job.who # v
    BY <2>1 DEF JobInv, JobRest
  <2>5. ~Free(v)'
    BY <1>0, <2>2 DEF Free
  <2>6. OneInv(v)' /\ RunInv(v)' /\ PendingInv(v)'
    BY <2>1, <2>2, <2>3, <2>4, <2>5 DEF OneInv, RunInv, PendingInv
  <2>7. pc = "looking" /\ rel[v] /\ term[v] \in Nat => Pending(v)'
    BY <1>2, <2>1, <2>2 DEF SureInv, PendingInv, Pending
  <2>8. OnItsWay(v)'
    <3>1. req'[s].pc = pc /\ req'[s].days = days /\ req'[s].new = ~rel[v]
      BY <2>2
    <3>2. pc # "naming" /\ pc # "forgetting"
      BY <1>2
    <3> QED BY <1>2, <2>2, <2>3, <2>7, <3>1, <3>2 DEF OnItsWay
  <2> QED BY <2>6, <2>8 DEF SureInv
<1>3. ASSUME NEW w \in Victims, NEW days \in Days \cup {0}, Ban(s, w, days) PROVE SureInv(v)'
  <2>1. days \in Nat /\ "looking" \in Places
    BY DEF Places
  <2>2. /\ Begin(s, w, days, "looking") /\ use = "ban"
        /\ rel' = [rel EXCEPT ![w] = TRUE] /\ term' = term
    BY <1>3, Zenon DEF Ban
  <2>3. w # v => rel'[v] = rel[v]
    BY <2>2 DEF WorldInv
  <2>4. CASE w = v
    BY <1>2, <2>1, <2>2, <2>4
  <2> QED BY <1>1, <2>1, <2>2, <2>3, <2>4
<1>4. ASSUME NEW w \in Victims, NEW days \in Days \cup {0}, Timeout(s, w, days)
      PROVE SureInv(v)'
  <2>0. days \in Nat
    BY DaysInNat, Zenon
  <2>1. days \in Nat /\ "cancelling" \in Places
    BY <2>0 DEF Places
  <2>2. /\ Begin(s, w, days, "cancelling") /\ rel' = [rel EXCEPT ![w] = TRUE]
        /\ term' = [term EXCEPT ![w] = End(days)]
    BY <1>4, Zenon DEF Timeout
  <2>3. /\ days > 0 => End(days) = clock + days
        /\ days = 0 => End(days) \notin Nat
    BY <2>1 DEF End
  <2>4. term'[w] = End(days) /\ (w # v => rel'[v] = rel[v] /\ term'[v] = term[v])
    BY <2>2 DEF WorldInv
  <2>5. CASE w = v
    BY <1>2, <2>1, <2>2, <2>3, <2>4, <2>5
  <2> QED BY <1>1, <2>1, <2>2, <2>4, <2>5
<1>5. ASSUME NEW w \in Victims, Mute(s, w) PROVE SureInv(v)'
  <2>1. MuteDays \in Nat /\ MuteDays > 0 /\ "scheduling" \in Places
    BY DEF Places
  <2>2. /\ Begin(s, w, MuteDays, "scheduling")
        /\ rel' = [rel EXCEPT ![w] = TRUE] /\ term' = [term EXCEPT ![w] = clock + MuteDays]
    BY <1>5, Zenon DEF Mute
  <2>3. term'[w] = clock + MuteDays /\ (w # v => rel'[v] = rel[v] /\ term'[v] = term[v])
    BY <2>2 DEF WorldInv
  <2>4. CASE w = v
    BY <1>2, <2>1, <2>2, <2>3, <2>4
  <2> QED BY <1>1, <2>1, <2>2, <2>3, <2>4
<1>6. ASSUME NEW w \in Victims, Lift(s, w) PROVE SureInv(v)'
  <2>1. /\ Begin(s, w, 0, "cancelling") /\ rel' = [rel EXCEPT ![w] = FALSE]
        /\ term' = [term EXCEPT ![w] = None]
    BY <1>6, Zenon DEF Lift
  <2>2. term'[w] = None /\ (w # v => rel'[v] = rel[v] /\ term'[v] = term[v])
    BY <2>1 DEF WorldInv
  <2>3. "cancelling" \in Places /\ 0 \in Nat
    BY DEF Places
  <2>4. CASE w = v
    BY <1>2, <2>1, <2>2, <2>3, <2>4
  <2> QED BY <1>1, <2>1, <2>2, <2>3, <2>4
<1> QED BY <1>0, <1>3, <1>4, <1>5, <1>6 DEF Asked

LEMMA SureSteps ==
  ASSUME TypeInv, NEW s \in Staff, Step(s) \/ RequestDies(s),
         NEW v \in Victims, SureInv(v), Sure(v)'
  PROVE  SureInv(v)'
<1> USE BanAssumption DEF TypeInv
<1>0. use' = use /\ clock' = clock /\ rel' = rel /\ job' = job
  BY DEF Step, Look, CancelOld, ForgetOld, Schedule, NameNew, RequestDies
<1>1. CASE req[s].who # v
  <2>1. Elsewhere(v)
    BY <1>1, StepElsewhere
  <2>2. \A i \in items : i.who = v => i \in items'
    <3>1. CASE CancelOld(s)
      <4>1. req[s].who \in Victims /\ items' = items \ {Found(req[s].who)}
        BY <3>1 DEF CancelOld, Cancel, RequestInv, Valid
      <4>2. Found(req[s].who) = None \/ Found(req[s].who).who = req[s].who
        BY <4>1 DEF Found, SubjectInv
      <4> QED BY <1>1, <4>1, <4>2 DEF RowInv, Item
    <3>2. CASE Schedule(s)
      BY <3>2 DEF Schedule, Add
    <3> QED BY <3>1, <3>2 DEF Step, Look, ForgetOld, NameNew, RequestDies, row
  <2>3. Keeps(v)
    BY <1>0, <2>1, <2>2 DEF Keeps, Elsewhere
  <2> QED BY <2>3, SureKept
<1>2. CASE req[s].who = v
  <2> DEFINE days == req[s].days
  <2>1. /\ \A t \in Staff : t # s => req'[t] = req[t] /\ req'[t].who # v
    BY <1>2 DEF SureInv, OneInv, Step, Look, CancelOld, ForgetOld, Schedule, NameNew, RequestDies,
       Goto, Done, RequestInv
  <2>2. ~Free(v)
    BY <1>2 DEF Free
  <2>3. OneInv(v)' /\ RunInv(v)'
    BY <1>0, <2>1, <2>2 DEF SureInv, OneInv, RunInv, Free
  <2>4. days \in Nat /\ clock \in Nat /\ (~days > 0 => days = 0)
    BY DEF RequestInv, Requests, WorldInv
  <2>5. ASSUME Done(s), rel[v] /\ term'[v] \in Nat => Pending(v)' PROVE SureInv(v)'
    <3>1. req'[s].who # v
      BY <2>5 DEF Done, Rest, RequestInv
    <3>2. OnItsWay(v)'
      BY <2>1, <3>1 DEF OnItsWay
    <3> QED BY <1>0, <2>3, <2>5, <3>2 DEF SureInv, PendingInv
  <2>6. ASSUME NEW pc \in {"cancelling", "forgetting", "scheduling"}, Goto(s, pc),
               days > 0 => term'[v] = clock + days, days = 0 => term'[v] \notin Nat
        PROVE  SureInv(v)'
    <3>1. req'[s].pc = pc /\ req'[s].who = v /\ req'[s].days = days
      BY <1>2, <2>6 DEF Goto, RequestInv, Requests
    <3>2. ~Free(v)'
      BY <3>1 DEF Free
    <3>3. OnItsWay(v)'
      BY <1>0, <2>1, <2>6, <3>1 DEF OnItsWay
    <3> QED BY <2>3, <3>2, <3>3 DEF SureInv, PendingInv
  <2>7. CASE Look(s)
    <3> DEFINE existing == IF req[s].new THEN None ELSE Found(v)
               keep == days > 0 /\ existing # None /\ SameEnd(existing, days)
               change == IF days > 0 THEN ~keep ELSE existing # None
    <3>1. /\ req[s].pc = "looking" /\ items' = items
          /\ IF change THEN Goto(s, "cancelling") ELSE Done(s)
          /\ term'[v] = IF keep THEN term[v] ELSE End(days)
      BY <1>2, <2>7 DEF Look, row, WorldInv
    <3>2. (days > 0 => End(days) = clock + days) /\ (days = 0 => End(days) \notin Nat)
      BY <2>4 DEF End
    <3>3. CASE keep
      <4>1. Done(s) /\ ~req[s].new /\ term'[v] = term[v]
        BY <3>1, <3>3
      <4>2. rel[v] /\ term[v] \in Nat => Pending(v)
        BY <1>2, <3>1, <4>1 DEF SureInv, OnItsWay
      <4>3. rel[v] /\ term'[v] \in Nat => Pending(v)'
        BY <1>0, <3>1, <4>1, <4>2 DEF Pending
      <4> QED BY <2>5, <4>1, <4>3
    <3>4. CASE ~keep
      <4>1. term'[v] = End(days) /\ (Done(s) \/ Goto(s, "cancelling"))
        BY <3>1, <3>4
      <4>2. days > 0 => Goto(s, "cancelling")
        BY <3>1, <3>4
      <4> QED BY <2>4, <2>5, <2>6, <3>2, <4>1, <4>2
    <3> QED BY <3>3, <3>4
  <2>8. CASE CancelOld(s) \/ ForgetOld(s)
    <3>1. /\ req[s].pc \in {"cancelling", "forgetting"} /\ term' = term
          /\ \/ Goto(s, "forgetting")
             \/ Goto(s, "scheduling")
             \/ Done(s) /\ ~days > 0
      BY <2>8 DEF CancelOld, ForgetOld
    <3>2. (days > 0 => term[v] = clock + days) /\ (days = 0 => term[v] \notin Nat)
      BY <1>2, <3>1 DEF SureInv, OnItsWay
    <3> QED BY <2>4, <2>5, <2>6, <3>1, <3>2
  <2>9. CASE Schedule(s)
    <3> DEFINE item == NewItem(req[s].who, req[s].days)
    <3>1. /\ req[s].pc = "scheduling" /\ items' = items \cup {item} /\ term' = term
          /\ item.due = clock + days /\ days > 0
      BY <2>9 DEF Schedule, Add, NewItem, RequestInv, Valid
    <3>2. req'[s].pc = "naming" /\ req'[s].who = v /\ req'[s].item = item
      BY <1>2, <2>9 DEF Schedule, RequestInv, Requests
    <3>3. term[v] = clock + days
      BY <1>2, <3>1 DEF SureInv, OnItsWay
    <3> HIDE DEF item
    <3>4. ~Free(v)'
      BY <3>2 DEF Free
    <3>5. OnItsWay(v)'
      BY <1>0, <2>1, <2>4, <3>1, <3>2, <3>3 DEF OnItsWay
    <3> QED BY <2>3, <3>4, <3>5 DEF SureInv, PendingInv
  <2>10. CASE NameNew(s)
    <3> DEFINE item == req[s].item
    <3>1. /\ req[s].pc = "naming" /\ items' = items /\ term' = term /\ Done(s)
          /\ item \in Item /\ item.who = v
      BY <1>2, <2>10 DEF NameNew, row, RequestInv, Requests, Valid
    <3>2. item \in items /\ item.due = term[v] /\ clock < item.due
      BY <1>2, <3>1 DEF SureInv, OnItsWay
    <3>3. item \notin job.ready
      BY <2>4, <3>1, <3>2 DEF JobInv, Item
    <3>4. Pending(v)'
      BY <1>0, <3>1, <3>2, <3>3 DEF Pending
    <3> QED BY <2>5, <3>1, <3>4
  <2>11. CASE RequestDies(s)
    BY <1>2, <2>11 DEF RequestDies, Sure, Prevents, WorldInv
  <2> QED BY <2>7, <2>8, <2>9, <2>10, <2>11 DEF Step
<1> QED BY <1>1, <1>2

\* What the clean-up deletes, though it may delete by timestamp, is what was ready.
LEMMA OnlyReadyRemoved ==
  ASSUME TypeInv, NewerInv, Cleanup, NEW i \in items, i \notin job.ready PROVE i \in items'
<1> USE DEF TypeInv
<1> DEFINE newest == Max(Stamps(job.ready))
<1>1. newest \in Stamps(job.ready) /\ newest \in Nat
  <2>1. newest \in Stamps(job.ready)
    BY NewestIsThere DEF Cleanup, JobInv
  <2> QED BY <2>1 DEF Stamps, JobInv, Jobs, Item
<1>2. i \in Item
  BY DEF RowInv
<1>3. CASE i \in job.unripe
  <2> DEFINE S == Stamps(job.unripe)
  <2>1. i.stamp \in S /\ S \subseteq Nat /\ S # {} /\ job.unripe # {}
    BY <1>3 DEF Stamps, JobInv, Jobs, Item
  <2>2. PICK m \in S : \A k \in S : <<k, m>> \notin OpToRel(<, Nat)
    <3> HIDE DEF S
    <3> QED BY <2>1, WFMin, NatLessThanWellFounded, Zenon
  <2> HIDE DEF S
  <2>3. \A k \in S : ~(k < m)
    BY <2>1, <2>2 DEF OpToRel
  <2>4. \A k \in S : m <= k
    BY <2>1, <2>3
  <2>5. Min(S) \in S /\ Min(S) <= i.stamp
    BY <2>1, <2>4 DEF Min
  <2>6. CASE Min(S) > newest
    <3>1. ~(i.stamp <= newest)
      <4>1. Min(S) \in Nat /\ i.stamp \in Nat
        BY <2>1, <2>5
      <4> HIDE DEF newest
      <4> QED BY <1>1, <2>5, <2>6, <4>1
    <3> QED BY <3>1 DEF Cleanup, Processed
  <2>7. CASE ~(Min(S) > newest)
    BY <2>1, <2>7 DEF Cleanup, Processed, S
  <2> QED BY <2>6, <2>7
<1>4. CASE i \notin job.unripe
  <2>1. \A k \in job.ready : k.stamp < i.stamp
    BY <1>4 DEF NewerInv, Cleanup
  <2>2. newest < i.stamp
    BY <1>1, <2>1 DEF Stamps
  <2>3. ~(i.stamp <= newest)
    BY <1>1, <1>2, <2>2 DEF Item
  <2> QED BY <2>3 DEF Cleanup, Processed
<1> QED BY <1>3, <1>4

LEMMA SureJob ==
  ASSUME TypeInv, NewerInv, Job \/ HookRaises \/ JobDies,
         NEW v \in Victims, SureInv(v), Sure(v)'
  PROVE  SureInv(v)'
<1> USE BanAssumption DEF TypeInv
<1>0. use' = use /\ clock' = clock /\ req' = req /\ term' = term
  BY DEF Job, StartJob, RunItem, JobCancels, JobForgets, Cleanup, HookRaises, JobDies
<1>1. Free(v)' = Free(v)
  BY <1>0 DEF Free
<1>2. CASE StartJob
  <2> DEFINE ready == {i \in items : i.due <= clock}
  <2>1. /\ job' = [pc |-> "hook", ready |-> ready, unripe |-> items \ ready, left |-> ready,
                   who |-> None]
        /\ items' = items /\ rel' = rel
    BY <1>2 DEF StartJob, JobRest, row
  <2>2. use = "ban" \/ Free(v)
    <3>1. use # "ban" => RequestsFor(v) = {}
      BY <1>2 DEF StartJob, Sure, Prevents, WorldInv
    <3> QED BY <3>1 DEF RequestsFor, Free
  <2>3. Keeps(v)
    BY <1>0, <2>1, <2>2 DEF Keeps
  <2> QED BY <2>3, SureKept
<1>3. CASE RunItem
  <2> DEFINE k == Soonest
  <2>1. k \in job.left /\ k \in Item
    BY <1>3, SoonestIsLeft DEF RunItem, JobInv, Jobs
  <2>2. /\ job.pc = "hook" /\ items' = items
        /\ rel' = [rel EXCEPT ![k.who] = FALSE]
        /\ job'.left = job.left \ {k} /\ job'.ready = job.ready
        /\ job'.who \in {k.who, None}
    BY <1>3 DEF RunItem, JobInv, Jobs, row
  <2> HIDE DEF k
  <2>3. CASE k.who # v
    <3>1. Keeps(v)
      BY <1>0, <2>1, <2>2, <2>3 DEF Keeps, WorldInv
    <3> QED BY <3>1, SureKept
  <2>4. CASE k.who = v
    <3>1. ~rel'[v]
      BY <2>2, <2>4 DEF WorldInv
    <3>2. OneInv(v)' /\ RunInv(v)' /\ PendingInv(v)'
      BY <1>0, <1>1, <2>2, <3>1 DEF SureInv, OneInv, RunInv, PendingInv
    <3>3. OnItsWay(v)'
      BY <1>0, <2>2, <3>1 DEF SureInv, OnItsWay
    <3> QED BY <3>2, <3>3 DEF SureInv
  <2> QED BY <2>3, <2>4
<1>4. CASE JobCancels
  <2> DEFINE w == job.who
  <2>1. /\ job.pc = "cancelling" /\ items' = items \ {Found(w)} /\ rel' = rel
        /\ job'.left = job.left /\ job'.ready = job.ready /\ job'.who = w
        /\ w \in Victims /\ use # "ban"
    BY <1>4 DEF JobCancels, Cancel, JobInv, Jobs
  <2>2. CASE w # v
    <3>1. Found(w) = None \/ Found(w).who = w
      BY <2>1 DEF Found, SubjectInv
    <3>2. \A i \in items : i.who = v => i \in items'
      BY <2>1, <2>2, <3>1 DEF RowInv, Item
    <3>3. Keeps(v)
      BY <1>0, <2>1, <2>2, <3>2 DEF Keeps
    <3> QED BY <3>3, SureKept
  <2>3. CASE w = v
    <3>1. Free(v) /\ ~rel[v]
      BY <2>1, <2>3 DEF SureInv, OneInv, RunInv
    <3>2. OneInv(v)' /\ RunInv(v)' /\ PendingInv(v)'
      BY <1>0, <1>1, <2>1, <3>1 DEF SureInv, OneInv, RunInv, PendingInv
    <3>3. OnItsWay(v)'
      BY <1>0, <3>1 DEF OnItsWay, Free
    <3> QED BY <3>2, <3>3 DEF SureInv
  <2> QED BY <2>2, <2>3
<1>5. CASE JobForgets
  <2>1. /\ items' = items /\ rel' = rel /\ job.pc # "idle"
        /\ job'.left = job.left /\ job'.ready = job.ready /\ job'.who = None
    BY <1>5 DEF JobForgets, JobInv, Jobs, row
  <2>2. Keeps(v)
    BY <1>0, <2>1 DEF Keeps
  <2> QED BY <2>2, SureKept
<1>6. CASE HookRaises
  <2>1. /\ job.pc # "idle" /\ job'.who = None /\ job'.ready = job.ready
        /\ items' = items /\ rel' = rel
    BY <1>6 DEF HookRaises, JobInv, Jobs, row
  <2>2. \A i \in items : i.who = v => i \notin job.ready
    <3>1. "raised" \notin spoilt'[v]
      BY DEF Sure, Prevents
    <3>2. v \notin Owners(job.ready)
      BY <1>6, <3>1 DEF HookRaises, Spoil
    <3> QED BY <3>2 DEF Owners
  <2>3. Keeps(v)
    BY <1>0, <2>1, <2>2 DEF Keeps
  <2> QED BY <2>3, SureKept
<1>7. CASE Cleanup
  <2>1. job' = JobRest /\ rel' = rel /\ job.left = {}
    BY <1>7 DEF Cleanup
  <2>2. \A i \in items : i \notin job.ready => i \in items'
    BY <1>7, OnlyReadyRemoved
  <2>3. Keeps(v)
    BY <1>0, <2>1, <2>2 DEF Keeps, JobRest
  <2> QED BY <2>3, SureKept
<1>8. CASE JobDies
  <2>1. job' = JobRest /\ items' = items /\ rel' = rel
    BY <1>8 DEF JobDies, row
  <2>2. Keeps(v)
    BY <1>0, <2>1 DEF Keeps, JobRest
  <2> QED BY <2>2, SureKept
<1> QED BY <1>2, <1>3, <1>4, <1>5, <1>6, <1>7, <1>8 DEF Job

LEMMA SureTick == ASSUME TypeInv, Tick, NEW v \in Victims, SureInv(v) PROVE SureInv(v)'
<1> USE BanAssumption DEF TypeInv
<1>1. Free(v)
  BY DEF Tick, Rest, Free
<1>2. /\ items' = items /\ rel' = rel /\ req' = req /\ job' = job /\ term' = term /\ use' = use
  BY DEF Tick, row
<1>3. Free(v)' /\ OnItsWay(v)' /\ (Pending(v) => Pending(v)')
  BY <1>1, <1>2 DEF Free, OnItsWay, Pending
<1> QED BY <1>1, <1>2, <1>3 DEF SureInv, OneInv, RunInv, PendingInv

LEMMA NewerNext == ASSUME TypeInv, NewerInv, [Next]_vars PROVE NewerInv'
<1> USE BanAssumption DEF TypeInv
<1>1. ASSUME items' \subseteq items, job' = job PROVE NewerInv'
  BY <1>1 DEF NewerInv
<1>2. ASSUME NEW s \in load.staff, Asked(s) PROVE NewerInv'
  <2>1. PICK v, days, pc : Begin(s, v, days, pc)
    BY <1>2, Zenon DEF Asked, Ban, Timeout, Mute, Lift
  <2> QED BY <1>1, <2>1 DEF Begin, row
<1>3. ASSUME NEW s \in Staff, Schedule(s) PROVE NewerInv'
  <2> DEFINE item == NewItem(req[s].who, req[s].days)
  <2>1. items' = items \cup {item} /\ job' = job /\ item.stamp = writes + 1
    BY <1>3 DEF Schedule, Add, NewItem
  <2> HIDE DEF item
  <2>2. \A k \in job.ready : k.stamp < item.stamp
    BY <2>1 DEF JobInv, Jobs, Item, RowInv
  <2> QED BY <2>1, <2>2 DEF NewerInv
<1>4. ASSUME NEW s \in Staff, Look(s) \/ CancelOld(s) \/ ForgetOld(s) \/ NameNew(s) \/ RequestDies(s)
      PROVE items' \subseteq items /\ job' = job
  BY <1>4 DEF Look, CancelOld, Cancel, ForgetOld, NameNew, RequestDies, row
<1>5. CASE StartJob
  BY <1>5 DEF StartJob, NewerInv, JobRest, row
<1>6. CASE RunItem \/ JobCancels \/ JobForgets \/ HookRaises
  <2>1. /\ job.pc # "idle" /\ items' \subseteq items
        /\ job'.ready = job.ready /\ job'.unripe = job.unripe
    BY <1>6 DEF RunItem, JobCancels, Cancel, JobForgets, HookRaises, JobInv, Jobs, row
  <2> QED BY <2>1 DEF NewerInv
<1>7. CASE Cleanup \/ JobDies
  BY <1>7 DEF Cleanup, JobDies, NewerInv, JobRest
<1>8. CASE Tick \/ UNCHANGED vars
  BY <1>1, <1>8 DEF Tick, vars, row
<1> QED BY <1>1, <1>2, <1>3, <1>4, <1>5, <1>6, <1>7, <1>8 DEF Next, Step, Job

\* Each step keeps what is to end the accounts' restrictions.
LEMMA ScheduledNext == ASSUME TypeInv, ScheduledInv, [Next]_vars PROVE ScheduledInv'
<1>1. NewerInv'
  BY NewerNext DEF ScheduledInv
<1>2. SUFFICES ASSUME NEW v \in Victims, Sure(v)' PROVE SureInv(v)'
  BY <1>1 DEF ScheduledInv
<1>3. SureInv(v) /\ NewerInv
  BY <1>2, SpoiltStays DEF ScheduledInv, Sure, Prevents
<1>4. ASSUME NEW s \in load.staff, Asked(s) PROVE SureInv(v)'
  BY <1>2, <1>3, <1>4, SureBegins
<1>5. ASSUME NEW s \in Staff, Step(s) \/ RequestDies(s) PROVE SureInv(v)'
  BY <1>2, <1>3, <1>5, SureSteps
<1>6. CASE Job \/ HookRaises \/ JobDies
  BY <1>2, <1>3, <1>6, SureJob
<1>7. CASE Tick
  BY <1>3, <1>7, SureTick
<1>8. CASE UNCHANGED vars
  BY <1>3, <1>8 DEF vars, SureInv, OneInv, RunInv, PendingInv, OnItsWay, Pending, Free
<1> QED BY <1>4, <1>5, <1>6, <1>7, <1>8 DEF Next

LEMMA ScheduledInit == Init => ScheduledInv
<1> SUFFICES ASSUME Init PROVE ScheduledInv
  OBVIOUS
<1>1. NewerInv
  BY DEF Init, JobRest, NewerInv
<1>2. ASSUME NEW v \in Victims PROVE SureInv(v)
  BY <1>2, BanAssumption DEF Init, SureInv, OneInv, RunInv, PendingInv, OnItsWay, Free, Rest, JobRest
<1> QED BY <1>1, <1>2 DEF ScheduledInv

\* Whoever is restricted for a time has an item in the row that is to end it, and
\* no clean-up deletes it before the job has run it, though it deletes by write
\* timestamp while requests write: only fairness is missing for the end to come.
THEOREM EndStaysScheduled == Spec => []EndIsScheduled
<1>2. TypeInv /\ ScheduledInv => EndIsScheduled
  BY DEF ScheduledInv, EndIsScheduled, SureInv, PendingInv, RequestsFor, Free
<1>3. TypeInv /\ ScheduledInv /\ [Next]_vars => (TypeInv /\ ScheduledInv)'
  BY TypeInvNext, ScheduledNext
<1> QED BY EarlyInit, ScheduledInit, <1>2, <1>3, PTL DEF Spec

\* While neither a request for an account nor the job is under way, its items in
\* the row are what its restriction says: one, due at the end, if there is an end
\* and none otherwise.  (A timeout is lifted by the job alone; one whose job died
\* before the clean-up leaves the item it has run.)
RowIsTheEnds == \A v \in Victims :
    /\ RequestsFor(v) = {} /\ job.pc = "idle" /\ use # "timeout"
    /\ Clean(v) /\ Sure(v)
    => /\ \A i \in items : i.who = v => rel[v] /\ i.due = term[v]
       /\ \A i, k \in items : i.who = v /\ k.who = v => i = k
       /\ rel[v] /\ term[v] \in Nat => \E i \in items : i.who = v

\* The row and the relations agree again after every request and every run of the
\* job: no restriction is left with two ends, with another's or with none, and an
\* account without one has no item for the job to find.
THEOREM RowAgrees == Spec => []RowIsTheEnds
<1>1. TypeInv /\ EarlyInv /\ ScheduledInv => RowIsTheEnds
  <2> SUFFICES ASSUME TypeInv, EarlyInv, ScheduledInv, NEW v \in Victims, RequestsFor(v) = {},
                      job.pc = "idle", use # "timeout", Clean(v), Sure(v)
               PROVE  /\ \A i \in items : i.who = v => rel[v] /\ i.due = term[v]
                      /\ \A i, k \in items : i.who = v /\ k.who = v => i = k
                      /\ rel[v] /\ term[v] \in Nat => \E i \in items : i.who = v
    BY DEF RowIsTheEnds
  <2>1. Free(v) /\ At(v, {"looking"}) /\ job.ready = {}
    BY DEF RequestsFor, Free, At, TypeInv, JobInv, JobRest
  <2>2. CleanInv(v) /\ SureInv(v)
    BY DEF EarlyInv, ScheduledInv
  <2>3. \A i \in items : i.who = v => rel[v] /\ i.due = term[v]
    BY <2>1, <2>2 DEF CleanInv, EndInv, LiftedInv
  <2>4. \A i, k \in items : i.who = v /\ k.who = v => i = k
    BY <2>2 DEF CleanInv, LeftInv
  <2>5. rel[v] /\ term[v] \in Nat => \E i \in items : i.who = v
    BY <2>1, <2>2 DEF SureInv, PendingInv, Pending
  <2> QED BY <2>3, <2>4, <2>5
<1>2. /\ TypeInv /\ EarlyInv /\ ScheduledInv /\ [Next]_vars
      => (TypeInv /\ EarlyInv /\ ScheduledInv)'
  BY TypeInvNext, EarlyNext, ScheduledNext
<1> QED BY EarlyInit, ScheduledInit, <1>1, <1>2, PTL DEF Spec

-----------------------------------------------------------------------------
\* A consumer that has ended has sent what it added.

Entries == UNION {{Entry(i, ExchangeOf[i]), Entry(i, Main)} : i \in Items}
Busy == IF worker.pc = "getting" THEN 0 ELSE 1
Sent(i) ==
    Entry(i, ExchangeOf[i]) \in published \/ Entry(i, Main) \in published
Queued(i) == \E k \in 1 .. Len(q) : q[k].item = i
InHand(i) == worker.pc \notin {"getting", "done"} /\ worker.entry.item = i

\* The count of unfinished tasks is never below what is queued or at work, and is
\* above it from the first item that was lost.
Lost == unfinished > Len(q) + Busy

EntryInv ==
    /\ fg \in {"waiting", "handling", "joining", "ended"}
    /\ added \subseteq Items
    /\ q \in Seq(Entries)
    /\ unfinished \in Nat
    /\ worker.pc \in {"getting", "connecting", "publishing", "reconnecting", "again", "done"}
    /\ worker = [pc |-> worker.pc, entry |-> worker.entry]
    /\ worker.pc # "getting" => worker.entry \in Entries

CountInv == unfinished >= Len(q) + Busy
TraceInv == \A i \in added : Sent(i) \/ Queued(i) \/ InHand(i) \/ Lost

PublisherInv == EntryInv /\ CountInv /\ TraceInv /\ EndsPublished

\* An entry is what Entry makes of its item.
LEMMA EntryFacts ==
    /\ \A i \in Items : Entry(i, ExchangeOf[i]) \in Entries /\ Entry(i, Main) \in Entries
    /\ \A e \in Entries : /\ e.item \in Items
                          /\ \/ e = Entry(e.item, ExchangeOf[e.item])
                             \/ e = Entry(e.item, Main)
BY DEF Entries, Entry

\* The count, the queue and the items: each step of the foreground and of the
\* worker keeps them.
LEMMA PublisherStep == PublisherInv /\ [PublisherNext]_publisherVars => PublisherInv'
<1> SUFFICES ASSUME PublisherInv, [PublisherNext]_publisherVars PROVE PublisherInv'
  OBVIOUS
<1> USE PublisherAssumption DEF PublisherInv
<1>1. CASE Deliver \/ Ack \/ Stop
  BY <1>1 DEF Deliver, Ack, Stop, EntryInv, CountInv, TraceInv, EndsPublished,
     Busy, Sent, Queued, InHand, Lost
<1>2. ASSUME NEW i \in Items, AddItem(i) PROVE PublisherInv'
  <2>1. EntryInv'
    BY <1>2, EntryFacts DEF AddItem, Put, EntryInv
  <2>2. Len(q') = Len(q) + 1 /\ unfinished' = unfinished + 1 /\ Busy' = Busy
    BY <1>2, EntryFacts DEF AddItem, Put, EntryInv, Busy
  <2>3. CountInv' /\ (Lost => Lost')
    BY <2>2, <1>2 DEF CountInv, Lost, Busy, EntryInv
  <2>4. /\ q'[Len(q')].item = i
        /\ \A k \in 1 .. Len(q) : k \in 1 .. Len(q') /\ q'[k] = q[k]
        /\ Len(q') \in 1 .. Len(q')
    BY <1>2, EntryFacts DEF AddItem, Put, EntryInv, Entry
  <2>5. TraceInv'
    BY <1>2, <2>3, <2>4 DEF AddItem, TraceInv, Sent, Queued, InHand
  <2>6. EndsPublished'
    BY <1>2 DEF AddItem, EndsPublished
  <2> QED BY <2>1, <2>3, <2>5, <2>6
<1>3. CASE Joined
  <2>1. Len(q) = 0 /\ Busy = 0 /\ ~Lost
    BY <1>3 DEF Joined, CountInv, Busy, Lost, EntryInv
  <2>2. \A i \in added : Sent(i)
    BY <2>1 DEF TraceInv, Queued, InHand, Busy
  <2> QED
    BY <1>3, <2>2 DEF Joined, EntryInv, CountInv, TraceInv, EndsPublished,
       Busy, Sent, Queued, InHand, Lost
<1>4. CASE Get
  <2>1. /\ Head(q) \in Entries /\ q[1] = Head(q)
        /\ q' \in Seq(Entries) /\ Len(q') = Len(q) - 1
        /\ \A k \in 1 .. Len(q) : k = 1 \/ (k - 1 \in 1 .. Len(q') /\ q'[k - 1] = q[k])
    BY <1>4 DEF Get, EntryInv
  <2>2. EntryInv'
    BY <1>4, <2>1 DEF Get, EntryInv
  <2>3. Busy = 0 /\ Busy' = 1 /\ unfinished' = unfinished
    BY <1>4 DEF Get, Busy
  <2>4. CountInv' /\ (Lost => Lost')
    BY <2>1, <2>3 DEF CountInv, Lost, EntryInv
  <2>5. \A i : Queued(i) => Queued(i)' \/ InHand(i)'
    BY <1>4, <2>1 DEF Get, Queued, InHand
  <2>6. TraceInv'
    BY <1>4, <2>4, <2>5 DEF Get, TraceInv, Sent, InHand
  <2>7. EndsPublished'
    BY <1>4 DEF Get, EndsPublished
  <2> QED BY <2>2, <2>4, <2>6, <2>7
<1>5. CASE Connect \/ PublishBreaks
  BY <1>5 DEF Connect, PublishBreaks, EntryInv, CountInv, TraceInv, EndsPublished,
     Busy, Sent, Queued, InHand, Lost
<1>6. CASE Publish
  <2>1. \A i : InHand(i) => i \in Items /\ Sent(i)'
    BY <1>6, EntryFacts DEF Publish, InHand, Sent, EntryInv
  <2>2. \A i : Sent(i) => Sent(i)'
    BY <1>6 DEF Publish, Sent
  <2>3. EntryInv' /\ CountInv' /\ (Lost => Lost')
    BY <1>6 DEF Publish, EntryInv, CountInv, Lost, Busy
  <2>4. TraceInv' /\ EndsPublished'
    BY <1>6, <2>1, <2>2, <2>3 DEF Publish, TraceInv, EndsPublished, Queued, Sent
  <2> QED BY <2>3, <2>4
<1>7. CASE AddAgain
  <2>1. worker.entry.item \in Items /\ Entry(worker.entry.item, Main) \in Entries
    BY <1>7, EntryFacts DEF AddAgain, EntryInv
  <2>2. EntryInv'
    BY <1>7, <2>1 DEF AddAgain, Put, EntryInv
  <2>3. Len(q') = Len(q) + 1 /\ unfinished' = unfinished + 1 /\ Busy = 1 /\ Busy' = 1
    BY <1>7, <2>1 DEF AddAgain, Put, EntryInv, Busy
  <2>4. CountInv' /\ (Lost => Lost')
    BY <2>3 DEF CountInv, Lost, EntryInv
  <2>5. /\ q'[Len(q')].item = worker.entry.item
        /\ \A k \in 1 .. Len(q) : k \in 1 .. Len(q') /\ q'[k] = q[k]
        /\ Len(q') \in 1 .. Len(q')
    BY <1>7, <2>1 DEF AddAgain, Put, EntryInv, Entry
  <2>6. TraceInv'
    BY <1>7, <2>4, <2>5 DEF AddAgain, TraceInv, Sent, Queued, InHand
  <2>7. EndsPublished'
    BY <1>7 DEF AddAgain, EndsPublished
  <2> QED BY <2>2, <2>4, <2>6, <2>7
<1>8. CASE TaskDone
  <2>1. Busy = 1 /\ Busy' = 0 /\ unfinished' = unfinished - 1 /\ q' = q
    BY <1>8 DEF TaskDone, Busy, Waiting
  <2>2. EntryInv' /\ CountInv' /\ (Lost => Lost')
    BY <1>8, <2>1 DEF TaskDone, EntryInv, CountInv, Lost, Waiting
  <2>3. TraceInv' /\ EndsPublished'
    BY <1>8, <2>2 DEF TaskDone, TraceInv, EndsPublished, Sent, Queued, InHand
  <2> QED BY <2>2, <2>3
<1>9. CASE Raise
  <2>1. Busy = 1 /\ Busy' = 0 /\ unfinished' = unfinished /\ q' = q
    BY <1>9 DEF Raise, Busy, Waiting
  <2>2. EntryInv' /\ CountInv' /\ Lost'
    BY <1>9, <2>1 DEF Raise, EntryInv, CountInv, Lost, Waiting
  <2>3. TraceInv' /\ EndsPublished'
    BY <1>9, <2>2 DEF Raise, TraceInv, EndsPublished
  <2> QED BY <2>2, <2>3
<1>10. CASE UNCHANGED publisherVars
  BY <1>10 DEF publisherVars, EntryInv, CountInv, TraceInv, EndsPublished,
     Busy, Sent, Queued, InHand, Lost
<1> QED
  BY <1>1, <1>2, <1>3, <1>4, <1>5, <1>6, <1>7, <1>8, <1>9, <1>10 DEF PublisherNext

\* A consumer that has ended has sent every item it added, whatever the number of
\* items and of failures.
THEOREM SentBeforeTheEnd == PublisherSpec => []EndsPublished
<1>1. PublisherInit => PublisherInv
  BY DEF PublisherInit, PublisherInv, EntryInv, CountInv, TraceInv, EndsPublished, Waiting, Busy
<1> QED BY <1>1, PublisherStep, PTL DEF PublisherSpec, PublisherInv
=============================================================================
