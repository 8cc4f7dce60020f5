--------------------------- MODULE SchedulerProofs ---------------------------
(***************************************************************************)
(* The scheduler for any schedules, operations, periods and faults, in three  *)
(* layers.  SchedInv: the types, and one run of a schedule in the worker.      *)
(* ChangesInv, when the user's changes overlap nothing (ChangesApart): what    *)
(* the user was told is stored, and an enabled schedule has its alarm or an    *)
(* operation that is going to create it.  SlotInv, of each schedule, unless  *)
(* a save brings an older entry of it back, it is retimed, or its alarm is due *)
(* while the browser is closed: the alarm and the next run are of a slot in    *)
(* which no run by alarm has begun yet, or of the one after it.               *)
(***************************************************************************)
EXTENDS Scheduler, FiniteSetTheorems, TLAPS

(* The operations in progress.                                             *)
Records ==
    [pc : {"idle", "load", "save", "clear", "arm", "late", "run"},
     op : Changes \cup {"none", "manual", "fire", "patch", "reconcile"},
     id : Ids \cup {NoId}, map : [Ids -> Schedules \cup {Nil}],
     todo : SUBSET Ids, missed : SUBSET Ids]

(* What an operation has at each of its awaits.                             *)
RecordOK(r) ==
    /\ r.pc = "idle" <=> r.op = "none"
    /\ r.pc # "idle" /\ r.op # "reconcile" => r.id \in Ids
    /\ r.pc \in {"clear", "arm"} => r.id \in Ids /\ r.op # "patch"
    /\ r.pc = "arm" => r.map[r.id].enabled
    /\ r.pc = "run" => r.op \in {"fire", "manual"}
    /\ r.pc = "late" => r.op = "reconcile"
    /\ r.pc \in {"clear", "arm"} /\ r.op = "reconcile" => r.id \in r.todo

(* A run has no await of its own: the job stays in it.                     *)
Running(j) == job[j].pc = "run"

(* The operations in progress, and the set `running` beside them.           *)
JobsOK ==
    /\ job \in [Jobs -> Records]
    /\ \A j \in Jobs : RecordOK(job[j])
    /\ running = {job[j].id : j \in {k \in Jobs : Running(k)}}
    /\ \A j, k \in Jobs : Running(j) /\ Running(k) /\ job[j].id = job[k].id => j = k

(* The schedules, their alarms and what is counted beside them.            *)
DataOK ==
    /\ store \in [Ids -> Schedules \cup {Nil}]
    /\ alarm \in [Ids -> {Off} \cup 0 .. Max({Period, CatchUpDelay})]
    /\ open \in BOOLEAN /\ awake \in BOOLEAN
    /\ orphans \in [Ids -> 0 .. 2 + stops]
    /\ acked \in [Ids -> {"none", "unknown", "enabled", "paused", "deleted"}]
    /\ inSlot \in [Ids -> 0 .. 2]
    /\ stops \in 0 .. MaxStops

(* Nothing is in progress without a worker, nor a worker without a browser.  *)
AsleepOK == (~awake => \A j \in Jobs : Free(j)) /\ (~open => ~awake)

(* What the types rest on.                                                 *)
SchedInv == DataOK /\ JobsOK /\ AsleepOK

-----------------------------------------------------------------------------
(* The larger and the smaller of two numbers.                               *)
LEMMA MaxOfTwo ==
    ASSUME NEW x \in Int, NEW y \in Int
    PROVE  /\ Max({x, y}) \in {x, y}
           /\ Max({x, y}) >= x /\ Max({x, y}) >= y
<1> DEFINE m == IF x >= y THEN x ELSE y
<1>1. m \in {x, y} /\ \A z \in {x, y} : m >= z
  OBVIOUS
<1> QED  BY <1>1 DEF Max

(* And the smaller.                                                        *)
LEMMA MinOfTwo ==
    ASSUME NEW x \in Int, NEW y \in Int
    PROVE  /\ Min({x, y}) \in {x, y}
           /\ Min({x, y}) <= x /\ Min({x, y}) <= y
<1> DEFINE m == IF x <= y THEN x ELSE y
<1>1. m \in {x, y} /\ \A z \in {x, y} : m <= z
  OBVIOUS
<1> QED  BY <1>1 DEF Min

(* The alarm of a run, and of one that is made up for.                      *)
LEMMA AlarmRange ==
    ASSUME SchedulerAssumption
    PROVE  /\ Period >= 1 /\ Grace >= 0 /\ CatchUpDelay >= 1 /\ Late \in Int /\ Late <= -1
           /\ Max({Period, CatchUpDelay}) \in Int
           /\ Max({Period, CatchUpDelay}) \in {Period, CatchUpDelay}
           /\ Max({Period, CatchUpDelay}) >= Period /\ Max({Period, CatchUpDelay}) >= CatchUpDelay
           /\ \A n \in Late .. Period : /\ Max({1, n}) \in 1 .. Period
                                         /\ Max({1, n}) = IF n >= 1 THEN n ELSE 1
           /\ Nil \notin Schedules
<1>1. Period \in Int /\ Period >= 1 /\ CatchUpDelay \in Int /\ CatchUpDelay >= 1 /\ Late \in Int /\ Grace >= 0 /\ Late <= -1
  BY DEF SchedulerAssumption, Late
<1>2. Max({Period, CatchUpDelay}) \in {Period, CatchUpDelay}
      /\ Max({Period, CatchUpDelay}) >= Period /\ Max({Period, CatchUpDelay}) >= CatchUpDelay
  BY <1>1, MaxOfTwo
<1>3. ASSUME NEW n \in Late .. Period
      PROVE  Max({1, n}) \in 1 .. Period /\ Max({1, n}) = IF n >= 1 THEN n ELSE 1
  <2>1. n \in Int
    BY <1>1
  <2>2. Max({1, n}) \in {1, n} /\ Max({1, n}) >= 1 /\ Max({1, n}) >= n
    BY <2>1, MaxOfTwo
  <2> QED  BY <1>1, <2>1, <2>2
<1>4. Nil \notin Schedules
  BY <1>1 DEF Nil, Schedules
<1> QED  BY <1>1, <1>2, <1>3, <1>4

(* An operation goes on, and neither starts nor ends a run.                  *)
LEMMA GoesOn ==
    ASSUME JobsOK, NEW j \in Jobs, NEW r \in Records, RecordOK(r),
           job' = [job EXCEPT ![j] = r], r.pc # "run", ~Running(j), UNCHANGED running
    PROVE  JobsOK'
<1>1. job' \in [Jobs -> Records] /\ \A k \in Jobs : job'[k] = IF k = j THEN r ELSE job[k]
  BY DEF JobsOK
<1>2. \A k \in Jobs : Running(k)' <=> Running(k)
  BY <1>1 DEF Running
<1>3. \A k \in Jobs : Running(k) => job'[k].id = job[k].id
  BY <1>1 DEF Running
<1>4. {job'[k].id : k \in {l \in Jobs : Running(l)'}} = {job[k].id : k \in {l \in Jobs : Running(l)}}
  BY <1>2, <1>3
<1>5. \A k \in Jobs : RecordOK(job'[k])
  BY <1>1 DEF JobsOK
<1>6. \A k, l \in Jobs : Running(k)' /\ Running(l)' /\ job'[k].id = job'[l].id => k = l
  BY <1>2, <1>3 DEF JobsOK
<1> QED  BY <1>1, <1>4, <1>5, <1>6 DEF JobsOK

(* A run starts.                                                            *)
LEMMA RunStarts ==
    ASSUME JobsOK, NEW j \in Jobs, NEW r \in Records, RecordOK(r), ~Running(j), r.pc = "run",
           job' = [job EXCEPT ![j] = r], r.id \notin running, running' = running \cup {r.id}
    PROVE  JobsOK'
<1>1. job' \in [Jobs -> Records] /\ \A k \in Jobs : job'[k] = IF k = j THEN r ELSE job[k]
  BY DEF JobsOK
<1>2. \A k \in Jobs : Running(k)' <=> k = j \/ Running(k)
  BY <1>1 DEF Running
<1>3. \A k \in Jobs : Running(k) => k # j /\ job'[k].id = job[k].id /\ job[k].id # r.id
  BY <1>1 DEF Running, JobsOK
<1>4. running' = {job'[k].id : k \in {l \in Jobs : Running(l)'}}
  <2>1. \A x \in running' : \E k \in Jobs : Running(k)' /\ x = job'[k].id
    BY <1>1, <1>2, <1>3 DEF JobsOK
  <2>2. \A k \in Jobs : Running(k)' => job'[k].id \in running'
    BY <1>1, <1>2, <1>3 DEF JobsOK
  <2> QED  BY <2>1, <2>2
<1>5. \A k \in Jobs : RecordOK(job'[k])
  BY <1>1 DEF JobsOK
<1>6. \A k, l \in Jobs : Running(k)' /\ Running(l)' /\ job'[k].id = job'[l].id => k = l
  BY <1>1, <1>2, <1>3 DEF JobsOK
<1> QED  BY <1>1, <1>4, <1>5, <1>6 DEF JobsOK

(* A run ends.                                                              *)
LEMMA RunIsOver ==
    ASSUME JobsOK, NEW j \in Jobs, NEW r \in Records, RecordOK(r), Running(j), r.pc # "run",
           job' = [job EXCEPT ![j] = r], running' = running \ {job[j].id}
    PROVE  JobsOK'
<1>1. job' \in [Jobs -> Records] /\ \A k \in Jobs : job'[k] = IF k = j THEN r ELSE job[k]
  BY DEF JobsOK
<1>2. \A k \in Jobs : Running(k)' <=> k # j /\ Running(k)
  BY <1>1 DEF Running
<1>3. \A k \in Jobs : Running(k) /\ k # j => job'[k].id = job[k].id /\ job[k].id # job[j].id
  BY <1>1 DEF JobsOK
<1>4. running' = {job'[k].id : k \in {l \in Jobs : Running(l)'}}
  <2>1. \A x \in running' : \E k \in Jobs : Running(k)' /\ x = job'[k].id
    BY <1>1, <1>2, <1>3 DEF JobsOK
  <2>2. \A k \in Jobs : Running(k)' => job'[k].id \in running'
    BY <1>1, <1>2, <1>3 DEF JobsOK
  <2> QED  BY <2>1, <2>2
<1>5. \A k \in Jobs : RecordOK(job'[k])
  BY <1>1 DEF JobsOK
<1>6. \A k, l \in Jobs : Running(k)' /\ Running(l)' /\ job'[k].id = job'[l].id => k = l
  BY <1>1, <1>2, <1>3 DEF JobsOK
<1> QED  BY <1>1, <1>4, <1>5, <1>6 DEF JobsOK

(* An operation that begins.                                                *)
LEMMA IdleOK == Idle \in Records /\ RecordOK(Idle)
<1>1. NoMap \in [Ids -> Schedules \cup {Nil}]
  BY DEF NoMap
<1> QED  BY <1>1 DEF Records, RecordOK, Idle

(* What a job has when an operation begins.                                *)
LEMMA StartedOK ==
    ASSUME NEW op \in {"create", "pause", "resume", "retime", "delete", "manual", "fire", "patch"},
           NEW i \in Ids
    PROVE  /\ Started(op, i) \in Records /\ RecordOK(Started(op, i))
           /\ Started(op, i).pc = "load" /\ Started(op, i).op = op /\ Started(op, i).id = i
<1>1. NoMap \in [Ids -> Schedules \cup {Nil}]
  BY DEF NoMap
<1>2. /\ Started(op, i).pc = "load" /\ Started(op, i).op = op /\ Started(op, i).id = i
      /\ Started(op, i) \in Records
  BY <1>1 DEF Started, Idle, Records, Changes
<1> QED  BY <1>2 DEF RecordOK

(* And when the start-up does.                                             *)
LEMMA StartUpOK ==
    /\ Started("reconcile", NoId) \in Records /\ RecordOK(Started("reconcile", NoId))
    /\ Started("reconcile", NoId).pc = "load" /\ Started("reconcile", NoId).op = "reconcile"
    /\ Started("reconcile", NoId).todo = {} /\ Started("reconcile", NoId).missed = {}
<1>1. NoMap \in [Ids -> Schedules \cup {Nil}]
  BY DEF NoMap
<1>2. /\ Started("reconcile", NoId).pc = "load" /\ Started("reconcile", NoId).op = "reconcile"
      /\ Started("reconcile", NoId).todo = {} /\ Started("reconcile", NoId).missed = {}
      /\ Started("reconcile", NoId) \in Records
  BY <1>1 DEF Started, Idle, Records
<1> QED  BY <1>2 DEF RecordOK

(* At most one run of a schedule is in progress.                            *)
LEMMA OneRun ==
    ASSUME JobsOK, NEW i \in Ids, NEW S \in SUBSET {j \in Jobs : Running(j) /\ job[j].id = i}
    PROVE  Cardinality(S) \in {0, 1}
<1>1. CASE S = {}
  BY <1>1, FS_EmptySet
<1>2. CASE S # {}
  <2>1. PICK j \in S : TRUE
    BY <1>2
  <2>2. S = {j}
    BY <2>1 DEF JobsOK
  <2> QED  BY <2>2, FS_Singleton
<1> QED  BY <1>1, <1>2

-----------------------------------------------------------------------------
(* Types.                                                                  *)

(* An operation that goes on leaves the worker and the browser running.      *)
LEMMA StaysUp ==
    ASSUME AsleepOK, NEW j \in Jobs, ~Free(j), UNCHANGED <<open, awake>>
    PROVE  AsleepOK'
BY DEF AsleepOK, Free

(* The loads of an operation on one schedule.                               *)
LEMMA LoadKeeps ==
    ASSUME SchedulerAssumption, SchedInv, NEW j \in Jobs, 
           NotFound(j) \/ LoadForCreate(j) \/ LoadForUpdate(j) \/ LoadForDelete(j)
             \/ LoadForFire(j) \/ LoadForPatch(j)
    PROVE  SchedInv'
<1> USE DEF SchedInv
<1> DEFINE i == job[j].id
<1>1. /\ job[j].pc = "load" /\ job[j].op # "reconcile"
      /\ UNCHANGED <<store, alarm, running, acked, inSlot, envVars>>
  BY DEF NotFound, LoadForCreate, LoadForUpdate, LoadForDelete, LoadForFire, LoadForPatch
<1>2. job[j] \in Records /\ RecordOK(job[j]) /\ i \in Ids
  BY <1>1 DEF JobsOK, RecordOK
<1>3. Period \in Int /\ Period >= 1 /\ Late \in Int /\ Late <= -1
  BY AlarmRange DEF SchedulerAssumption
<1>4. ASSUME NEW m \in [Ids -> Schedules \cup {Nil}], Save(j, m)
      PROVE  SchedInv'
  <2> DEFINE r == [job[j] EXCEPT !.pc = "save", !.map = m]
  <2>1. r \in Records /\ RecordOK(r) /\ r.pc # "run"
    BY <1>1, <1>2 DEF Records, RecordOK
  <2>2. job' = [job EXCEPT ![j] = r]
    BY <1>4 DEF Save, JobsOK
  <2>3. JobsOK'
    BY <1>1, <2>1, <2>2, GoesOn DEF Running
  <2> QED  BY <1>1, <2>3, StaysUp DEF DataOK, Free, envVars
<1>6. CASE NotFound(j)
  <2>1. JobsOK'
    BY <1>1, <1>6, IdleOK, GoesOn DEF NotFound, Running, Idle
  <2> QED  BY <1>1, <2>1, StaysUp DEF DataOK, Free, envVars
<1>7. CASE LoadForCreate(j)
  <2>1. Fresh \in Schedules
    BY <1>3 DEF Fresh, Schedules
  <2> QED  BY <1>4, <1>7, <2>1 DEF LoadForCreate, DataOK
<1>8. CASE LoadForUpdate(j)
  <2>1. store[i] \in Schedules
    BY <1>2, <1>8 DEF LoadForUpdate, DataOK
  <2>2. Patched(store[i], job[j].op) \in Schedules
    <3> DEFINE s == store[i]
               e == IF job[j].op = "retime" THEN s.enabled ELSE job[j].op = "resume"
               p == IF job[j].op = "retime" THEN Period ELSE s.phase
    <3>1. s.enabled \in BOOLEAN /\ s.phase \in 1 .. Period
      BY <2>1 DEF Schedules
    <3>2. e \in BOOLEAN
      BY <3>1
    <3>3. p \in 1 .. Period /\ p \in Late .. Period
      BY <3>1, <1>3
    <3>4. Patched(s, job[j].op) = [enabled |-> e, phase |-> p, next |-> p]
      BY DEF Patched
    <3> HIDE DEF s, e, p
    <3>5. Patched(s, job[j].op) \in Schedules
      BY <3>2, <3>3, <3>4 DEF Schedules
    <3> QED  BY <3>5 DEF s
  <2> QED  BY <1>4, <1>8, <2>2 DEF LoadForUpdate, DataOK
<1>9. CASE LoadForDelete(j)
  BY <1>4, <1>9 DEF LoadForDelete, DataOK
<1>10. CASE LoadForFire(j)
  <2>1. store[i] \in Schedules
    BY <1>2, <1>10 DEF LoadForFire, DataOK
  <2>2. Advanced(store[i]) \in Schedules
    BY <2>1, <1>3 DEF Advanced, Schedules
  <2> QED  BY <1>4, <1>10, <2>2 DEF LoadForFire, DataOK
<1>11. CASE LoadForPatch(j)
  BY <1>4, <1>11 DEF LoadForPatch, DataOK
<1> QED  BY <1>6, <1>7, <1>8, <1>9, <1>10, <1>11

(* The start-up loads the map, and moves the next runs that are over.       *)
LEMMA LoadAllKeeps ==
    ASSUME SchedulerAssumption, SchedInv, NEW j \in Jobs, LoadForReconcile(j)
    PROVE  SchedInv'
<1> USE DEF SchedInv
<1> DEFINE on == {i \in Ids : store[i].enabled}
           m == [i \in Ids |-> IF i \in on /\ store[i].next <= 0 THEN Advanced(store[i]) ELSE store[i]]
           r == [job[j] EXCEPT !.pc = "save", !.map = m, !.todo = on,
                               !.missed = {i \in on \cap CatchUp : store[i].next < -Grace}]
<1>1. job[j] \in Records /\ RecordOK(job[j]) /\ job[j].pc = "load" /\ job[j].op = "reconcile"
  BY DEF LoadForReconcile, JobsOK
<1>2. \A i \in on : store[i] \in Schedules /\ Advanced(store[i]) \in Schedules
  <2>1. ASSUME NEW i \in on PROVE store[i] \in Schedules
    BY DEF DataOK, Nil
  <2>2. Period \in Int /\ Period >= 1 /\ Late \in Int /\ Late <= -1
    BY AlarmRange DEF SchedulerAssumption
  <2> QED  BY <2>1, <2>2 DEF Advanced, Schedules
<1>3. m \in [Ids -> Schedules \cup {Nil}]
  BY <1>2 DEF DataOK
<1> HIDE DEF m
<1>4. r \in Records /\ RecordOK(r) /\ r.pc # "run"
  BY <1>1, <1>3 DEF Records, RecordOK
<1>5. job' = [job EXCEPT ![j] = r]
  BY DEF LoadForReconcile, m
<1>6. JobsOK'
  BY <1>1, <1>4, <1>5, GoesOn DEF Running, LoadForReconcile
<1> QED  BY <1>1, <1>6, StaysUp DEF DataOK, Free, envVars, LoadForReconcile

(* The save stores the copy, and the job goes on to its alarms or is over. *)
LEMMA SaveKeeps ==
    ASSUME SchedulerAssumption, SchedInv, NEW j \in Jobs, SaveDone(j)
    PROVE  SchedInv'
<1> USE DEF SchedInv
<1>1. job[j] \in Records /\ RecordOK(job[j]) /\ job[j].pc = "save"
  BY DEF SaveDone, JobsOK
<1>2. store' \in [Ids -> Schedules \cup {Nil}]
  BY <1>1 DEF SaveDone, Records
<1>3. ASSUME NEW r \in Records, RecordOK(r), r.pc # "run", job' = [job EXCEPT ![j] = r]
      PROVE  SchedInv'
  <2>1. JobsOK'
    BY <1>1, <1>3, GoesOn DEF Running, SaveDone
  <2> QED  BY <1>1, <1>2, <2>1, StaysUp DEF DataOK, Free, envVars, SaveDone
<1>4. CASE job' = [job EXCEPT ![j] = Idle]
  BY <1>3, <1>4, IdleOK DEF Idle
<1>5. CASE job[j].op = "reconcile" /\ \E i \in job[j].todo : job' = [job EXCEPT ![j].pc = "clear", ![j].id = i]
  <2>1. PICK i \in job[j].todo : job' = [job EXCEPT ![j].pc = "clear", ![j].id = i]
    BY <1>5
  <2> DEFINE r == [job[j] EXCEPT !.pc = "clear", !.id = i]
  <2>2. r \in Records /\ RecordOK(r) /\ r.pc # "run"
    BY <1>1, <1>5 DEF Records, RecordOK
  <2>3. job' = [job EXCEPT ![j] = r]
    BY <2>1 DEF JobsOK
  <2> QED  BY <1>3, <2>2, <2>3
<1>6. CASE job[j].op \notin {"patch", "reconcile"} /\ job' = [job EXCEPT ![j].pc = "clear"]
  <2> DEFINE r == [job[j] EXCEPT !.pc = "clear"]
  <2>1. r \in Records /\ RecordOK(r) /\ r.pc # "run"
    BY <1>1, <1>6 DEF Records, RecordOK
  <2>2. job' = [job EXCEPT ![j] = r]
    BY <1>6 DEF JobsOK
  <2> QED  BY <1>3, <2>1, <2>2
<1> QED  BY <1>4, <1>5, <1>6 DEF SaveDone

(* What follows the alarms of an operation.                                 *)
LEMMA AfterArmKeeps ==
    ASSUME SchedulerAssumption, SchedInv, NEW j \in Jobs, job[j].pc \in {"clear", "arm"}, AfterArm(j)
    PROVE  /\ JobsOK'
           /\ acked' \in [Ids -> {"none", "unknown", "enabled", "paused", "deleted"}]
           /\ inSlot' \in [Ids -> 0 .. 2]
<1> USE DEF SchedInv
<1> DEFINE i == job[j].id
<1>1. job[j] \in Records /\ RecordOK(job[j]) /\ i \in Ids /\ job[j].op # "patch" /\ ~Running(j)
  BY DEF JobsOK, RecordOK, Running
<1>2. CASE job[j].op = "reconcile" /\ Armed(j)
  <2> DEFINE rest == job[j].todo \ {i}
  <2>1. UNCHANGED <<running, acked, inSlot>>
    BY <1>2 DEF Armed
  <2>2. CASE \E k \in rest : job' = [job EXCEPT ![j].pc = "clear", ![j].id = k, ![j].todo = rest]
    <3>1. PICK k \in rest : job' = [job EXCEPT ![j].pc = "clear", ![j].id = k, ![j].todo = rest]
      BY <2>2
    <3> DEFINE r == [job[j] EXCEPT !.pc = "clear", !.id = k, !.todo = rest]
    <3>2. r \in Records /\ RecordOK(r) /\ r.pc # "run"
      BY <1>1, <1>2 DEF Records, RecordOK
    <3>3. job' = [job EXCEPT ![j] = r]
      BY <3>1 DEF JobsOK
    <3> QED  BY <1>1, <2>1, <3>2, <3>3, GoesOn DEF DataOK
  <2>3. CASE job' = [job EXCEPT ![j].pc = "late", ![j].todo = {}]
    <3> DEFINE r == [job[j] EXCEPT !.pc = "late", !.todo = {}]
    <3>1. r \in Records /\ RecordOK(r) /\ r.pc # "run"
      BY <1>1, <1>2 DEF Records, RecordOK
    <3>2. job' = [job EXCEPT ![j] = r]
      BY <2>3 DEF JobsOK
    <3> QED  BY <1>1, <2>1, <3>1, <3>2, GoesOn DEF DataOK
  <2>4. CASE job' = [job EXCEPT ![j] = Idle]
    BY <1>1, <2>1, <2>4, IdleOK, GoesOn DEF DataOK, Idle
  <2> QED  BY <1>2, <2>2, <2>3, <2>4 DEF Armed
<1>3. CASE job[j].op \in {"fire", "manual"} /\ RunOrSkip(j)
  <2>1. CASE MayRun(i) /\ job' = [job EXCEPT ![j].pc = "run", ![j].map = NoMap] /\ running' = running \cup {i}
             /\ inSlot' = IF job[j].op = "fire" THEN [inSlot EXCEPT ![i] = Min({2, @ + 1})] ELSE inSlot
    <3> DEFINE r == [job[j] EXCEPT !.pc = "run", !.map = NoMap]
    <3>1. r \in Records /\ RecordOK(r) /\ r.pc = "run" /\ r.id = i
      <4>1. NoMap \in [Ids -> Schedules \cup {Nil}]
        BY DEF NoMap
      <4> QED  BY <1>1, <1>3, <4>1 DEF Records, RecordOK, Changes
    <3>2. job' = [job EXCEPT ![j] = r]
      BY <2>1 DEF JobsOK
    <3>3. JobsOK'
      BY <1>1, <2>1, <3>1, <3>2, RunStarts DEF MayRun
    <3>4. Min({2, inSlot[i] + 1}) \in 0 .. 2
      <4>1. inSlot[i] \in 0 .. 2
        BY <1>1 DEF DataOK
      <4>2. inSlot[i] + 1 \in 1 .. 3 /\ 2 \in Int /\ inSlot[i] + 1 \in Int
        BY <4>1
      <4>3. Min({2, inSlot[i] + 1}) \in {2, inSlot[i] + 1} /\ Min({2, inSlot[i] + 1}) <= 2
        BY <4>2, MinOfTwo
      <4> QED  BY <4>2, <4>3
    <3>5. inSlot' \in [Ids -> 0 .. 2]
      <4>1. CASE inSlot' = [inSlot EXCEPT ![i] = Min({2, inSlot[i] + 1})]
        BY <3>4, <4>1 DEF DataOK
      <4>2. CASE inSlot' = inSlot
        BY <4>2 DEF DataOK
      <4> QED  BY <2>1, <4>1, <4>2
    <3>6. UNCHANGED acked
      BY <1>3 DEF RunOrSkip
    <3> QED  BY <3>3, <3>5, <3>6 DEF DataOK
  <2>2. CASE job' = [job EXCEPT ![j] = Started("patch", i)] /\ UNCHANGED <<running, inSlot>>
    <3> DEFINE r == Started("patch", i)
    <3>a. r \in Records /\ RecordOK(r) /\ r.pc # "run"
      BY <1>1, StartedOK
    <3>b. job' = [job EXCEPT ![j] = r]
      BY <2>2
    <3> HIDE DEF r
    <3>1. JobsOK'
      BY <1>1, <2>2, <3>a, <3>b, GoesOn
    <3> QED  BY <1>3, <2>2, <3>1 DEF DataOK, RunOrSkip
  <2> QED  BY <1>3, <2>1, <2>2 DEF RunOrSkip
<1>4. CASE job[j].op \in Changes /\ acked' = [acked EXCEPT ![i] = Told(job[j].op, @)]
           /\ job' = [job EXCEPT ![j] = Idle] /\ UNCHANGED <<running, inSlot>>
  <2>1. JobsOK'
    BY <1>1, <1>4, IdleOK, GoesOn DEF Idle
  <2>2. Told(job[j].op, acked[i]) \in {"none", "unknown", "enabled", "paused", "deleted"}
    BY <1>1 DEF Told, DataOK
  <2> QED  BY <1>4, <2>1, <2>2 DEF DataOK
<1> QED  BY <1>2, <1>3, <1>4 DEF AfterArm

(* The alarm is cleared; the job goes on to create one when it is enabled. *)
LEMMA ClearKeeps ==
    ASSUME SchedulerAssumption, SchedInv, NEW j \in Jobs, ClearDone(j)
    PROVE  SchedInv'
<1> USE DEF SchedInv
<1>1. job[j] \in Records /\ RecordOK(job[j]) /\ job[j].pc = "clear" /\ job[j].id \in Ids
  BY DEF ClearDone, JobsOK, RecordOK
<1>2. alarm' \in [Ids -> {Off} \cup 0 .. Max({Period, CatchUpDelay})]
  BY <1>1 DEF ClearDone, Cleared, DataOK
<1>3. JobsOK' /\ acked' \in [Ids -> {"none", "unknown", "enabled", "paused", "deleted"}] /\ inSlot' \in [Ids -> 0 .. 2]
  <2>1. CASE job[j].map[job[j].id].enabled
    <3> DEFINE r == [job[j] EXCEPT !.pc = "arm"]
    <3>1. r \in Records /\ RecordOK(r) /\ r.pc # "run"
      BY <1>1, <2>1 DEF Records, RecordOK
    <3>2. job' = [job EXCEPT ![j] = r] /\ UNCHANGED <<running, acked, inSlot>>
      BY <2>1 DEF JobsOK, ClearDone
    <3> QED  BY <1>1, <3>1, <3>2, GoesOn DEF DataOK, Running
  <2>2. CASE ~job[j].map[job[j].id].enabled
    BY <1>1, <2>2, AfterArmKeeps DEF ClearDone
  <2> QED  BY <2>1, <2>2
<1> QED  BY <1>1, <1>2, <1>3, StaysUp DEF DataOK, Free, envVars, ClearDone

(* The alarm is created, and what comes after it is done.                  *)
LEMMA ArmKeeps ==
    ASSUME SchedulerAssumption, SchedInv, NEW j \in Jobs, ArmDone(j)
    PROVE  SchedInv'
<1> USE DEF SchedInv
<1> DEFINE i == job[j].id
<1>1. job[j] \in Records /\ RecordOK(job[j]) /\ job[j].pc = "arm" /\ i \in Ids /\ job[j].map[i].enabled
  BY DEF ArmDone, JobsOK, RecordOK
<1>2. job[j].map[i] \in Schedules
  <2>1. job[j].map[i] \in Schedules \cup {Nil}
    BY <1>1 DEF Records
  <2> QED  BY <1>1, <2>1 DEF Nil
<1>3. alarm' \in [Ids -> {Off} \cup 0 .. Max({Period, CatchUpDelay})]
  <2>1. job[j].map[i].next \in Late .. Period
    BY <1>2 DEF Schedules
  <2>2. Max({1, job[j].map[i].next}) \in 0 .. Max({Period, CatchUpDelay})
    BY <2>1, AlarmRange DEF SchedulerAssumption
  <2> QED  BY <1>1, <2>2 DEF ArmDone, DataOK
<1>4. JobsOK' /\ acked' \in [Ids -> {"none", "unknown", "enabled", "paused", "deleted"}] /\ inSlot' \in [Ids -> 0 .. 2]
  BY <1>1, AfterArmKeeps DEF ArmDone
<1> QED  BY <1>1, <1>3, <1>4, StaysUp DEF DataOK, Free, envVars, ArmDone

(* The start-up creates the alarm of a missed run.                         *)
LEMMA LateKeeps ==
    ASSUME SchedulerAssumption, SchedInv, NEW j \in Jobs, LateDone(j)
    PROVE  SchedInv'
<1> USE DEF SchedInv
<1>1. job[j] \in Records /\ RecordOK(job[j]) /\ job[j].pc = "late"
  BY DEF LateDone, JobsOK
<1>2. PICK i \in job[j].missed :
        /\ alarm' = [alarm EXCEPT ![i] = CatchUpDelay]
        /\ job' = [job EXCEPT ![j] = IF job[j].missed = {i} THEN Idle
                                      ELSE [job[j] EXCEPT !.missed = job[j].missed \ {i}]]
  BY DEF LateDone
<1>3. alarm' \in [Ids -> {Off} \cup 0 .. Max({Period, CatchUpDelay})]
  <2>1. i \in Ids /\ CatchUpDelay \in 0 .. Max({Period, CatchUpDelay})
    BY <1>1, AlarmRange DEF SchedulerAssumption, Records
  <2> QED  BY <1>2, <2>1 DEF DataOK
<1>4. JobsOK'
  <2>1. CASE job[j].missed = {i}
    BY <1>1, <1>2, <2>1, IdleOK, GoesOn DEF LateDone, Running, Idle
  <2>2. CASE job[j].missed # {i}
    <3> DEFINE r == [job[j] EXCEPT !.missed = @ \ {i}]
    <3>1. r \in Records /\ RecordOK(r) /\ r.pc # "run"
      BY <1>1 DEF Records, RecordOK
    <3>2. job' = [job EXCEPT ![j] = r]
      BY <1>2, <2>2
    <3> QED  BY <1>1, <3>1, <3>2, GoesOn DEF Running, LateDone
  <2> QED  BY <2>1, <2>2
<1> QED  BY <1>1, <1>3, <1>4, StaysUp DEF DataOK, Free, envVars, LateDone

(* A run ends, here or by losing its bridge.                               *)
LEMMA RunOverKeeps ==
    ASSUME SchedulerAssumption, SchedInv, NEW j \in Jobs, RunEnds(j) \/ Disconnect(j)
    PROVE  SchedInv'
<1> USE DEF SchedInv
<1>1. /\ job[j].pc = "run" /\ job[j].id \in Ids
      /\ running' = running \ {job[j].id} /\ job' = [job EXCEPT ![j] = Started("patch", job[j].id)]
      /\ UNCHANGED <<store, alarm, open, awake, acked, inSlot, stops>>
  BY DEF RunEnds, Disconnect, Released, JobsOK, RecordOK, envVars
<1> DEFINE r == Started("patch", job[j].id)
<1>a. r \in Records /\ RecordOK(r) /\ r.pc # "run"
  BY <1>1, StartedOK
<1>b. job' = [job EXCEPT ![j] = r]
  BY <1>1
<1> HIDE DEF r
<1>2. JobsOK'
  BY <1>1, <1>a, <1>b, RunIsOver DEF Running
<1>3. orphans' \in [Ids -> 0 .. 2 + stops']
  BY <1>1 DEF RunEnds, Disconnect, DataOK, envVars, SchedulerAssumption
<1> QED  BY <1>1, <1>2, <1>3, StaysUp DEF DataOK, Free

(* The worker starts up, or the user asks for an operation.                *)
LEMMA BeginKeeps ==
    ASSUME SchedulerAssumption, SchedInv, NEW j \in Jobs,
           Wake(j) \/ \E op \in UserOps, i \in Ids : Request(j, op, i)
    PROVE  SchedInv'
<1> USE DEF SchedInv
<1>1. CASE Wake(j)
  <2>1. JobsOK'
    BY <1>1, StartUpOK, GoesOn DEF Wake, Free, Running
  <2> QED  BY <1>1, <2>1 DEF Wake, DataOK, AsleepOK
<1>2. CASE \E op \in UserOps, i \in Ids : Request(j, op, i)
  <2>1. PICK op \in UserOps, i \in Ids : Request(j, op, i)
    BY <1>2
  <2>2. op \in {"create", "pause", "resume", "retime", "delete", "manual", "fire", "patch"}
    BY DEF SchedulerAssumption, Changes
  <2> DEFINE r == Started(op, i)
  <2>a. r \in Records /\ RecordOK(r) /\ r.pc # "run"
    BY <2>2, StartedOK
  <2>b. job' = [job EXCEPT ![j] = r] /\ UNCHANGED running /\ ~Running(j)
    BY <2>1 DEF Request, Free, Running
  <2> HIDE DEF r
  <2>3. JobsOK'
    BY <2>a, <2>b, GoesOn
  <2> QED  BY <2>1, <2>3 DEF Request, DataOK, AsleepOK, envVars
<1> QED  BY <1>1, <1>2

(* An alarm rings, and the worker begins to fire its schedule.             *)
LEMMA RingKeeps ==
    ASSUME SchedulerAssumption, SchedInv, NEW i \in Ids, Ring(i)
    PROVE  SchedInv'
<1> USE DEF SchedInv
<1>1. PICK j, k \in {j \in Jobs : Free(j)} :
        \/ /\ awake /\ j = k
           /\ job' = [job EXCEPT ![j] = Started("fire", i)]
        \/ /\ ~awake /\ j # k
           /\ job' = [job EXCEPT ![j] = Started("fire", i), ![k] = Started("reconcile", NoId)]
  BY DEF Ring
<1>2. JobsOK'
  <2>1. CASE awake
    BY <1>1, <2>1, StartedOK, GoesOn DEF Ring, Free, Running
  <2>2. CASE ~awake
    <3> DEFINE r == Started("fire", i)
               q == Started("reconcile", NoId)
    <3>1. r \in Records /\ RecordOK(r) /\ q \in Records /\ RecordOK(q) /\ r.pc = "load" /\ q.pc = "load"
      BY StartedOK, StartUpOK
    <3> HIDE DEF r, q
    <3>2. job' = [job EXCEPT ![j] = r, ![k] = q] /\ j # k /\ UNCHANGED running
      BY <1>1, <2>2 DEF r, q, Ring
    <3>3. \A l \in Jobs : ~Running(l)
      BY <2>2 DEF AsleepOK, Free, Running
    <3>4. job' \in [Jobs -> Records] /\ \A l \in Jobs : job'[l] = IF l = k THEN q ELSE IF l = j THEN r ELSE job[l]
      BY <3>1, <3>2 DEF JobsOK
    <3>5. \A l \in Jobs : ~Running(l)' /\ RecordOK(job'[l])
      BY <3>1, <3>3, <3>4 DEF Running, JobsOK
    <3> QED  BY <3>2, <3>3, <3>4, <3>5 DEF JobsOK
  <2> QED  BY <2>1, <2>2
<1>3. DataOK'
  BY DEF Ring, DataOK
<1> QED  BY <1>2, <1>3 DEF Ring, AsleepOK

(* A kill ends what is in progress; scripts go on in the bridge.           *)
LEMMA ForgetKeeps ==
    ASSUME SchedInv, Forget, stops' = stops + 1, stops < MaxStops, MaxStops \in Nat
    PROVE  JobsOK' /\ (\A j \in Jobs : Free(j)') /\ orphans' \in [Ids -> 0 .. 2 + stops'] /\ stops' \in 0 .. MaxStops
<1> USE DEF SchedInv
<1>1. \A j \in Jobs : job'[j] = Idle
  BY DEF Forget
<1>2. JobsOK'
  <2>1. \A j \in Jobs : ~Running(j)'
    BY <1>1 DEF Running, Idle
  <2> QED  BY <1>1, <2>1, IdleOK DEF JobsOK, Forget
<1>3. ASSUME NEW i \in Ids PROVE orphans'[i] \in 0 .. 2 + stops'
  <2> DEFINE S == {j \in Jobs : job[j].pc = "run" /\ job[j].id = i /\ i \in Scripts}
  <2>1. S \in SUBSET {j \in Jobs : Running(j) /\ job[j].id = i}
    BY DEF Running
  <2>2. Cardinality(S) \in {0, 1}
    BY <2>1, OneRun
  <2>3. orphans'[i] = orphans[i] + Cardinality(S)
    BY DEF Forget
  <2> HIDE DEF S
  <2>4. orphans[i] \in 0 .. 2 + stops /\ stops \in Nat
    BY DEF DataOK
  <2> QED  BY <2>2, <2>3, <2>4
<1>4. orphans' \in [Ids -> 0 .. 2 + stops']
  BY <1>3 DEF Forget
<1> QED  BY <1>1, <1>2, <1>4 DEF DataOK, Free, Idle

(* The worker ends, the browser closes or opens, a script ends.            *)
LEMMA BrowserKeeps ==
    ASSUME SchedulerAssumption, SchedInv, Kill \/ CloseBrowser \/ OpenBrowser \/ \E i \in Ids : OrphanEnds(i)
    PROVE  SchedInv'
<1> USE DEF SchedInv
<1>1. CASE Kill
  <2>1. JobsOK' /\ (\A j \in Jobs : Free(j)') /\ orphans' \in [Ids -> 0 .. 2 + stops'] /\ stops' \in 0 .. MaxStops
    BY <1>1, ForgetKeeps DEF Kill, SchedulerAssumption
  <2> QED  BY <1>1, <2>1 DEF Kill, DataOK, AsleepOK
<1>2. CASE CloseBrowser
  <2>1. JobsOK' /\ (\A j \in Jobs : Free(j)') /\ orphans' \in [Ids -> 0 .. 2 + stops'] /\ stops' \in 0 .. MaxStops
    BY <1>2, ForgetKeeps DEF CloseBrowser, SchedulerAssumption
  <2>2. alarm' \in [Ids -> {Off} \cup 0 .. Max({Period, CatchUpDelay})]
    BY <1>2 DEF CloseBrowser, DataOK
  <2> QED  BY <1>2, <2>1, <2>2 DEF CloseBrowser, DataOK, AsleepOK
<1>3. CASE OpenBrowser
  <2>1. PICK j \in Jobs : job' = [job EXCEPT ![j] = Started("reconcile", NoId)]
    BY <1>3 DEF OpenBrowser
  <2>2. JobsOK'
    BY <1>3, <2>1, StartUpOK, GoesOn DEF OpenBrowser, AsleepOK, Free, Running
  <2> QED  BY <1>3, <2>2 DEF OpenBrowser, DataOK, AsleepOK
<1>4. CASE \E i \in Ids : OrphanEnds(i)
  <2>1. PICK i \in Ids : OrphanEnds(i)
    BY <1>4
  <2>2. orphans[i] \in 0 .. 2 + stops /\ orphans[i] > 0 /\ stops \in Nat
    BY <2>1 DEF OrphanEnds, DataOK
  <2>3. orphans' \in [Ids -> 0 .. 2 + stops']
    BY <2>1, <2>2 DEF OrphanEnds, DataOK
  <2>4. JobsOK'
    BY <2>1 DEF OrphanEnds, JobsOK, Running
  <2> QED  BY <2>1, <2>3, <2>4 DEF OrphanEnds, DataOK, AsleepOK, Free
<1> QED  BY <1>1, <1>2, <1>3, <1>4

(* How a schedule and its alarm get older.                                  *)
LEMMA TickData ==
    ASSUME SchedulerAssumption, DataOK, Tick, NEW i \in Ids
    PROVE  /\ store'[i] \in Schedules \cup {Nil}
           /\ store'[i].enabled = store[i].enabled
           /\ (store[i].phase = 0) <=> (store[i] = Nil)
           /\ store[i].phase = 0 => store'[i] = Nil
           /\ store[i].phase # 0 => /\ store'[i].phase = IF store[i].phase = 1 THEN Period ELSE store[i].phase - 1
                                    /\ store'[i].next = (IF store[i].next > Late THEN store[i].next - 1 ELSE Late)
           /\ alarm'[i] \in {Off} \cup 0 .. Max({Period, CatchUpDelay})
           /\ alarm'[i] = IF alarm[i] > 0 THEN alarm[i] - 1 ELSE alarm[i]
           /\ inSlot'[i] = IF store[i].phase = 1 THEN 0 ELSE inSlot[i]
<1> DEFINE M == Max({Period, CatchUpDelay})
           s == store[i]
<1>1. Period \in Int /\ Period >= 1 /\ Late \in Int /\ Late <= -1 /\ M \in Int
  BY AlarmRange DEF SchedulerAssumption
<1>2. s \in Schedules \cup {Nil} /\ alarm[i] \in {Off} \cup 0 .. M
  BY DEF DataOK
<1>3. store'[i] = (IF s = Nil THEN Nil
                   ELSE [s EXCEPT !.phase = IF s.phase = 1 THEN Period ELSE s.phase - 1,
                                  !.next = Max({Late, s.next - 1})])
      /\ alarm'[i] = (IF alarm[i] > 0 THEN alarm[i] - 1 ELSE alarm[i])
      /\ inSlot'[i] = (IF store[i].phase = 1 THEN 0 ELSE inSlot[i])
  BY DEF Tick
<1> HIDE DEF M
<1>4. alarm'[i] \in {Off} \cup 0 .. M
  BY <1>1, <1>2, <1>3 DEF Off
<1>5. CASE s # Nil
  <2>1. s \in Schedules /\ s.enabled \in BOOLEAN /\ s.next \in Late .. Period /\ s.phase \in 1 .. Period
    BY <1>2, <1>5 DEF Schedules
  <2> DEFINE p == IF s.phase = 1 THEN Period ELSE s.phase - 1
             n == Max({Late, s.next - 1})
  <2>2. s.next - 1 \in Int
    BY <1>1, <2>1
  <2>3. n \in {Late, s.next - 1} /\ n >= Late /\ n >= s.next - 1
    BY <1>1, <2>2, MaxOfTwo
  <2>4. store'[i] = [s EXCEPT !.phase = p, !.next = n]
    BY <1>3, <1>5
  <2> HIDE DEF n
  <2>5. n = (IF s.next > Late THEN s.next - 1 ELSE Late) /\ n \in Late .. Period
    BY <1>1, <2>1, <2>3
  <2>6. p \in 1 .. Period /\ s.phase # 0
    BY <1>1, <2>1
  <2> HIDE DEF p
  <2>7. store'[i].enabled = s.enabled /\ store'[i].phase = p /\ store'[i].next = n
        /\ store'[i] \in Schedules
    <3> HIDE DEF s
    <3> QED  BY <2>1, <2>4, <2>5, <2>6 DEF Schedules
  <2> QED  BY <1>3, <1>4, <1>5, <2>5, <2>6, <2>7 DEF p, M
<1>6. CASE s = Nil
  <2>1. store'[i] = Nil /\ s.phase = 0
    BY <1>3, <1>6 DEF Nil
  <2> QED  BY <1>3, <1>4, <1>6, <2>1 DEF M
<1> QED  BY <1>5, <1>6

(* Time passes: what is due moves nearer, the grid turns.                  *)
LEMMA TickKeeps ==
    ASSUME SchedulerAssumption, SchedInv, Tick
    PROVE  SchedInv'
<1> USE DEF SchedInv
<1>1. store' \in [Ids -> Schedules \cup {Nil}] /\ alarm' \in [Ids -> {Off} \cup 0 .. Max({Period, CatchUpDelay})]
  <2>1. \A i \in Ids : store'[i] \in Schedules \cup {Nil} /\ alarm'[i] \in {Off} \cup 0 .. Max({Period, CatchUpDelay})
    BY TickData
  <2> QED  BY <2>1 DEF Tick
<1>2. inSlot' \in [Ids -> 0 .. 2] /\ awake' \in BOOLEAN
  <2>1. \A i \in Ids : inSlot'[i] \in 0 .. 2
    <3> SUFFICES ASSUME NEW i \in Ids PROVE inSlot'[i] \in 0 .. 2
      OBVIOUS
    <3>1. inSlot'[i] = (IF store[i].phase = 1 THEN 0 ELSE inSlot[i])
      BY TickData
    <3>2. inSlot[i] \in 0 .. 2
      BY DEF DataOK
    <3> QED  BY <3>1, <3>2
  <2>2. inSlot' \in [Ids -> 0 .. 2]
    BY <2>1 DEF Tick
  <2>3. awake' \in {awake, FALSE}
    BY DEF Tick
  <2> QED  BY <2>2, <2>3 DEF DataOK
<1>3. JobsOK'
  BY DEF Tick, JobsOK, Running
<1>4. AsleepOK'
  BY DEF Tick, AsleepOK, Free
<1> QED  BY <1>1, <1>2, <1>3, <1>4 DEF Tick, DataOK

(* SchedInv is inductive.                                                  *)
LEMMA StepKeeps == ASSUME SchedulerAssumption, SchedInv, [Next]_vars PROVE SchedInv'
<1>1. CASE \E j \in Jobs : JobStep(j)
  BY <1>1, LoadKeeps, LoadAllKeeps, SaveKeeps, ClearKeeps, ArmKeeps, LateKeeps DEF JobStep
<1>2. CASE \E j \in Jobs : RunEnds(j) \/ Disconnect(j)
  BY <1>2, RunOverKeeps
<1>3. CASE \E j \in Jobs : Wake(j) \/ \E op \in UserOps, i \in Ids : Request(j, op, i)
  BY <1>3, BeginKeeps
<1>4. CASE \E i \in Ids : Ring(i)
  BY <1>4, RingKeeps
<1>5. CASE Kill \/ CloseBrowser \/ OpenBrowser \/ \E i \in Ids : OrphanEnds(i)
  BY <1>5, BrowserKeeps
<1>6. CASE Tick
  BY <1>6, TickKeeps
<1>7. CASE UNCHANGED vars
  BY <1>7 DEF vars, SchedInv, DataOK, JobsOK, AsleepOK, Running, Free
<1> QED  BY <1>1, <1>2, <1>3, <1>4, <1>5, <1>6, <1>7 DEF Next

(* And it holds at the start.                                              *)
LEMMA InitKeeps == ASSUME SchedulerAssumption, Init PROVE SchedInv
<1>1. Fresh \in Schedules /\ Period \in 0 .. Max({Period, CatchUpDelay})
  BY AlarmRange DEF SchedulerAssumption, Fresh, Schedules
<1>2. DataOK
  BY <1>1 DEF Init, DataOK, SchedulerAssumption
<1>3. JobsOK
  <2>1. \A j \in Jobs : job[j] = Idle
    BY DEF Init
  <2>2. \A j \in Jobs : ~Running(j)
    BY <2>1 DEF Running, Idle
  <2> QED  BY <2>1, <2>2, IdleOK DEF Init, JobsOK
<1> QED  BY <1>2, <1>3 DEF Init, SchedInv, AsleepOK

(* So it holds throughout.                                                 *)
LEMMA SchedConsistent == ASSUME SchedulerAssumption PROVE Spec => []SchedInv
<1>1. Init => SchedInv
  BY InitKeeps
<1>2. SchedInv /\ [Next]_vars => SchedInv'
  BY StepKeeps
<1> QED  BY <1>1, <1>2, PTL DEF Spec

(* The types follow from it.                                               *)
LEMMA InvTypes == SchedInv => TypeOK
<1>1. {j \in Jobs : Running(j)} = {k \in Jobs : job[k].pc = "run"}
  BY DEF Running
<1> QED  BY <1>1 DEF SchedInv, DataOK, JobsOK, TypeOK, Records

(* The types, and the set `running` (scheduler.js:230-268), for any schedules, *)
(* operations and bounds.                                                    *)
THEOREM TypesKept == ASSUME SchedulerAssumption PROVE Spec => []TypeOK
BY SchedConsistent, InvTypes, PTL

(* Only scripts leave runs in the bridge.                                  *)
LEMMA NoOrphans == ASSUME SchedulerAssumption, Scripts = {} PROVE Spec => [](\A i \in Ids : orphans[i] = 0)
<1> DEFINE P == orphans \in [Ids -> {0}]
<1>1. Init => P
  BY DEF Init
<1>2. P /\ [Next]_vars => P'
  <2> SUFFICES ASSUME P, [Next]_vars PROVE P'
    OBVIOUS
  <2>1. CASE Forget
    <3>1. \A i \in Ids : {j \in Jobs : job[j].pc = "run" /\ job[j].id = i /\ i \in Scripts} = {}
      OBVIOUS
    <3> QED  BY <2>1, <3>1, FS_EmptySet DEF Forget
  <2>2. CASE \E i \in Ids : OrphanEnds(i)
    BY <2>2 DEF OrphanEnds
  <2>3. CASE UNCHANGED orphans
    BY <2>3
  <2>4. Forget \/ (\E i \in Ids : OrphanEnds(i)) \/ UNCHANGED orphans
    BY DEF Next, JobStep, NotFound, LoadForCreate, LoadForUpdate, LoadForDelete, LoadForFire, LoadForPatch,
           LoadForReconcile, SaveDone, ClearDone, ArmDone, LateDone, RunEnds, Disconnect, Wake, Request, Ring,
           Kill, CloseBrowser, OpenBrowser, Tick, envVars, vars
  <2> QED  BY <2>1, <2>2, <2>3, <2>4
<1>3. P => \A i \in Ids : orphans[i] = 0
  OBVIOUS
<1> QED  BY <1>1, <1>2, <1>3, PTL DEF Spec

(* No schedule runs beside itself (fire, the running set, finally) when no    *)
(* run is executed in the bridge: a run in the worker ends with the worker.    *)
THEOREM RunsApart == ASSUME SchedulerAssumption, Scripts = {} PROVE Spec => []NoOverlap
<1>1. SchedInv /\ (\A i \in Ids : orphans[i] = 0) => NoOverlap
  <2> SUFFICES ASSUME SchedInv, \A i \in Ids : orphans[i] = 0, NEW i \in Ids
               PROVE  orphans[i] + Cardinality({j \in Jobs : job[j].pc = "run" /\ job[j].id = i}) <= 1
    BY DEF NoOverlap
  <2> DEFINE S == {j \in Jobs : job[j].pc = "run" /\ job[j].id = i}
  <2>1. S \in SUBSET {j \in Jobs : Running(j) /\ job[j].id = i}
    BY DEF Running
  <2>2. Cardinality(S) \in {0, 1}
    BY <2>1, OneRun DEF SchedInv
  <2> QED  BY <2>2
<1> QED  BY <1>1, SchedConsistent, NoOrphans, PTL

-----------------------------------------------------------------------------
(* The user's changes overlap no other operation between its awaits.       *)
ChangesApart == Changes \subseteq Apart

(* A change of the user is in progress.                                    *)
Changing(j) == Busy(j) /\ job[j].op \in Changes

(* A change of the user is alone between its awaits.                        *)
ChangeAlone == \A j, k \in Jobs : Changing(j) /\ Busy(k) => j = k

(* Two schedules that differ in their next run alone.                      *)
Alike(s, t) == s.enabled = t.enabled /\ s.phase = t.phase

(* The copy of the map that an operation will save, or has saved, says of     *)
(* every schedule but the one it changes what storage says of it.            *)
CopyTrue(j) ==
    job[j].pc \in {"save", "clear", "arm"} =>
        \A i \in Ids :
            \/ Alike(job[j].map[i], store[i])
            \/ job[j].pc = "save" /\ job[j].op \in Changes /\ i = job[j].id

(* The changes that the user is told of.                                   *)
Asked(op) == op \in {"create", "pause", "resume", "delete"}

(* What a change is about to make true; the user has not been told yet.      *)
ChangeTrue(j) ==
    Changing(j) =>
        LET i == job[j].id
            s == job[j].map[i]
        IN  /\ Asked(job[j].op) => acked[i] = "unknown"
            /\ job[j].pc # "load" =>
                 /\ job[j].op \in {"create", "resume"} => s.enabled
                 /\ job[j].op = "pause" => s.phase # 0 /\ ~s.enabled
                 /\ job[j].op = "delete" => s.phase = 0
                 /\ job[j].op = "retime" =>
                      /\ s.enabled = store[i].enabled /\ s.phase # 0 /\ store[i].phase # 0

(* What the user was told is so, and what is off has no alarm.             *)
ToldTrue(i) ==
    /\ acked[i] = "enabled" => store[i].enabled
    /\ acked[i] = "paused" => store[i].phase # 0 /\ ~store[i].enabled
    /\ acked[i] = "deleted" => store[i].phase = 0
    /\ acked[i] \in {"paused", "deleted"} => alarm[i] = Off

(* Only enabled schedules are armed by the start-up.                        *)
ReconcileTrue(j) ==
    job[j].op = "reconcile" =>
       /\ \A i \in job[j].todo \cup job[j].missed : store[i].enabled
       /\ job[j].pc = "load" => job[j].todo = {} /\ job[j].missed = {}

(* Job j is going to give schedule i its alarm.                              *)
WillArm(j, i) ==
    \/ /\ job[j].op = "reconcile"
       /\ \/ job[j].pc = "load"
          \/ job[j].pc \in {"save", "clear", "arm"} /\ i \in job[j].todo
    \/ job[j].op \in {"fire", "manual"} /\ job[j].id = i /\ job[j].pc \in {"load", "save", "clear", "arm"}
    \/ job[j].op \in Changes /\ job[j].id = i /\ job[j].pc \in {"clear", "arm"}

(* An enabled schedule has its alarm, or an operation is going to create it.*)
Covered(i) ==
    open /\ awake /\ store[i].enabled /\ alarm[i] = Off => \E j \in Jobs : WillArm(j, i)

(* What is true of storage and alarms when changes overlap nothing.        *)
ChangesInv ==
    /\ ChangeAlone
    /\ \A j \in Jobs : CopyTrue(j) /\ ChangeTrue(j) /\ ReconcileTrue(j)
    /\ \A i \in Ids : ToldTrue(i) /\ Covered(i)

-----------------------------------------------------------------------------
(* What the user was told, and the alarms: what a step may touch.            *)

(* A job that moves leaves the other jobs where they are.                   *)
LEMMA OthersStay ==
    ASSUME JobsOK, NEW j \in Jobs, NEW r, job' = [job EXCEPT ![j] = r]
    PROVE  job'[j] = r /\ \A k \in Jobs \ {j} : job'[k] = job[k]
BY DEF JobsOK

(* An enabled schedule exists.                                              *)
LEMMA EnabledExists ==
    ASSUME SchedulerAssumption, NEW s \in Schedules \cup {Nil}
    PROVE  /\ s.enabled \in BOOLEAN /\ s.phase \in 0 .. Period /\ s.next \in Int
           /\ s.enabled => s.phase # 0
           /\ (s.phase = 0) <=> (s = Nil)
           /\ s.phase # 0 => s \in Schedules
<1>1. Period \in Int /\ Period >= 1 /\ Late \in Int
  BY AlarmRange DEF SchedulerAssumption
<1>2. CASE s = Nil
  BY <1>1, <1>2 DEF Nil
<1>3. CASE s \in Schedules
  <2>1. s.enabled \in BOOLEAN /\ s.phase \in 1 .. Period /\ s.next \in Late .. Period
    BY <1>3 DEF Schedules
  <2>2. s # Nil
    BY <1>3, AlarmRange
  <2> QED  BY <1>1, <1>3, <2>1, <2>2
<1> QED  BY <1>2, <1>3

(* An operation of the start-up is at one of its awaits.                     *)
LEMMA StartUpBusy ==
    ASSUME JobsOK, NEW j \in Jobs
    PROVE  /\ job[j].op = "reconcile" => Busy(j)
           /\ job[j].pc \in {"load", "save", "clear", "arm", "late"} <=> Busy(j)
           /\ Free(j) => job[j].op = "none"
BY DEF JobsOK, RecordOK, Records, Busy, Free

(* No job that starts a change, and none that is busy anew beside one.       *)
LEMMA AloneStays ==
    ASSUME ChangeAlone,
           \A k \in Jobs : (Busy(k)' => Busy(k)) /\ (Changing(k)' => Changing(k))
    PROVE  ChangeAlone'
<1> SUFFICES ASSUME NEW j \in Jobs, NEW k \in Jobs, Changing(j)', Busy(k)' PROVE j = k
  BY DEF ChangeAlone
<1> QED  BY DEF ChangeAlone

(* What may start meets no change.                                          *)
LEMMA NoneChanging ==
    ASSUME ChangesApart, NEW op, MayStart(op)
    PROVE  /\ \A k \in Jobs : ~Changing(k)
           /\ op \in Changes => \A k \in Jobs : ~Busy(k)
BY DEF ChangesApart, MayStart, Changing

(* A step that moves job j only.                                            *)
LEMMA ChangesFrame ==
    ASSUME ChangesInv, NEW j \in Jobs, \A k \in Jobs \ {j} : job'[k] = job[k],
           UNCHANGED <<store, alarm, acked, open, awake>>,
           ChangeAlone', CopyTrue(j)', ChangeTrue(j)', ReconcileTrue(j)',
           \A i \in Ids : WillArm(j, i) /\ store[i].enabled => WillArm(j, i)'
    PROVE  ChangesInv'
<1>1. ASSUME NEW k \in Jobs PROVE CopyTrue(k)' /\ ChangeTrue(k)' /\ ReconcileTrue(k)'
  <2>1. CASE k = j
    BY <2>1
  <2>2. CASE k # j
    <3>1. CopyTrue(k) /\ ChangeTrue(k) /\ ReconcileTrue(k) /\ job'[k] = job[k]
      BY <2>2 DEF ChangesInv
    <3>2. CopyTrue(k)'
      BY <3>1 DEF CopyTrue
    <3>3. ChangeTrue(k)'
      BY <3>1 DEF ChangeTrue, Changing, Busy
    <3>4. ReconcileTrue(k)'
      BY <3>1 DEF ReconcileTrue
    <3> QED  BY <3>2, <3>3, <3>4
  <2> QED  BY <2>1, <2>2
<1>2. ASSUME NEW i \in Ids PROVE ToldTrue(i)' /\ Covered(i)'
  <2>1. ToldTrue(i)'
    BY DEF ChangesInv, ToldTrue
  <2>2. \A k \in Jobs : WillArm(k, i) /\ store[i].enabled => WillArm(k, i)'
    BY DEF WillArm
  <2>3. Covered(i)'
    BY <2>2 DEF ChangesInv, Covered
  <2> QED  BY <2>1, <2>3
<1> QED  BY <1>1, <1>2 DEF ChangesInv

(* The loads of an operation on one schedule.                               *)
LEMMA ChangesLoad ==
    ASSUME SchedulerAssumption, SchedInv, ChangesInv, NEW j \in Jobs,
           NotFound(j) \/ LoadForCreate(j) \/ LoadForUpdate(j) \/ LoadForDelete(j)
             \/ LoadForFire(j) \/ LoadForPatch(j)
    PROVE  ChangesInv'
<1> USE DEF SchedInv
<1> DEFINE i == job[j].id
<1>1. /\ job[j].pc = "load" /\ job[j].op # "reconcile" /\ UNCHANGED <<store, alarm, acked, open, awake>>
  BY DEF NotFound, LoadForCreate, LoadForUpdate, LoadForDelete, LoadForFire, LoadForPatch, envVars
<1>2. job[j] \in Records /\ RecordOK(job[j]) /\ i \in Ids /\ store[i] \in Schedules \cup {Nil}
  BY <1>1 DEF JobsOK, RecordOK, DataOK
<1>3. /\ store[i].enabled \in BOOLEAN /\ store[i].enabled => store[i].phase # 0
      /\ store[i].phase = 0 => store[i] = Nil
      /\ store[i] = Nil => store[i].phase = 0
  BY <1>2, EnabledExists
<1>4. CASE NotFound(j)
  <2>1. job'[j] = Idle /\ \A k \in Jobs \ {j} : job'[k] = job[k]
    BY <1>4, OthersStay DEF NotFound
  <2>2. ChangeAlone'
    <3>1. \A k \in Jobs : (Busy(k)' => Busy(k)) /\ (Changing(k)' => Changing(k))
      BY <2>1 DEF Busy, Changing, Idle
    <3> QED  BY <3>1, AloneStays DEF ChangesInv
  <2>3. CopyTrue(j)' /\ ChangeTrue(j)' /\ ReconcileTrue(j)'
    BY <2>1 DEF CopyTrue, ChangeTrue, ReconcileTrue, Changing, Busy, Idle
  <2>4. \A n \in Ids : WillArm(j, n) => n = i
    BY <1>1, <1>2 DEF WillArm
  <2>5. ~store[i].enabled
    BY <1>3, <1>4 DEF NotFound
  <2> QED  BY <1>1, <2>1, <2>2, <2>3, <2>4, <2>5, ChangesFrame
<1>5. ASSUME NEW m, Save(j, m), \A n \in Ids : Alike(m[n], store[n]) \/ (job[j].op \in Changes /\ n = i),
             job[j].op \in {"create", "resume"} => m[i].enabled,
             job[j].op = "pause" => m[i].phase # 0 /\ ~m[i].enabled,
             job[j].op = "delete" => m[i].phase = 0,
             job[j].op = "retime" => m[i].enabled = store[i].enabled /\ m[i].phase # 0 /\ store[i].phase # 0
      PROVE  ChangesInv'
  <2> DEFINE r == [job[j] EXCEPT !.pc = "save", !.map = m]
  <2>1. job' = [job EXCEPT ![j] = r]
    BY <1>5 DEF Save, JobsOK
  <2>2. r.pc = "save" /\ r.map = m /\ r.op = job[j].op /\ r.id = i
    BY <1>2 DEF Records
  <2> HIDE DEF r
  <2>3. job'[j] = r /\ \A k \in Jobs \ {j} : job'[k] = job[k]
    BY <2>1, OthersStay
  <2>4. ChangeAlone'
    <3>1. \A k \in Jobs : (Busy(k)' => Busy(k)) /\ (Changing(k)' => Changing(k))
      BY <1>1, <2>2, <2>3 DEF Busy, Changing
    <3> QED  BY <3>1, AloneStays DEF ChangesInv
  <2>5. CopyTrue(j)'
    BY <1>1, <1>5, <2>2, <2>3 DEF CopyTrue
  <2>6. ChangeTrue(j)'
    <3>1. Changing(j)' => Changing(j)
      BY <1>1, <2>2, <2>3 DEF Busy, Changing
    <3>2. Changing(j) /\ Asked(job[j].op) => acked[i] = "unknown"
      BY DEF ChangesInv, ChangeTrue
    <3> QED  BY <1>1, <1>5, <2>2, <2>3, <3>1, <3>2 DEF ChangeTrue
  <2>7. ReconcileTrue(j)'
    BY <1>1, <2>2, <2>3 DEF ReconcileTrue
  <2>8. \A n \in Ids : WillArm(j, n) => WillArm(j, n)'
    BY <1>1, <2>2, <2>3 DEF WillArm, Changes
  <2> QED  BY <1>1, <2>3, <2>4, <2>5, <2>6, <2>7, <2>8, ChangesFrame
<1>6. CASE LoadForCreate(j)
  <2> DEFINE m == [store EXCEPT ![i] = Fresh]
  <2>1. m[i] = Fresh /\ \A n \in Ids \ {i} : m[n] = store[n]
    BY <1>2 DEF DataOK
  <2>2. Save(j, m) /\ job[j].op = "create"
    BY <1>6 DEF LoadForCreate
  <2> HIDE DEF m
  <2> QED  BY <1>5, <2>1, <2>2 DEF Alike, Fresh, Changes
<1>7. CASE LoadForUpdate(j)
  <2> DEFINE p == Patched(store[i], job[j].op)
             m == [store EXCEPT ![i] = p]
  <2>1. m[i] = p /\ \A n \in Ids \ {i} : m[n] = store[n]
    BY <1>2 DEF DataOK
  <2>2. Save(j, m) /\ job[j].op \in {"pause", "resume", "retime"} /\ store[i] # Nil
    BY <1>7 DEF LoadForUpdate
  <2>3. /\ p.enabled = (IF job[j].op = "retime" THEN store[i].enabled ELSE job[j].op = "resume")
        /\ p.phase = IF job[j].op = "retime" THEN Period ELSE store[i].phase
    BY DEF Patched
  <2>4. Period # 0
    BY DEF SchedulerAssumption
  <2> HIDE DEF m, p
  <2> QED  BY <1>3, <1>5, <2>1, <2>2, <2>3, <2>4 DEF Alike, Changes
<1>8. CASE LoadForDelete(j)
  <2> DEFINE m == [store EXCEPT ![i] = Nil]
  <2>1. m[i] = Nil /\ \A n \in Ids \ {i} : m[n] = store[n]
    BY <1>2 DEF DataOK
  <2>2. Save(j, m) /\ job[j].op = "delete"
    BY <1>8 DEF LoadForDelete
  <2> HIDE DEF m
  <2> QED  BY <1>5, <2>1, <2>2 DEF Alike, Nil, Changes
<1>9. CASE LoadForFire(j)
  <2> DEFINE p == Advanced(store[i])
             m == [store EXCEPT ![i] = p]
  <2>1. m[i] = p /\ \A n \in Ids \ {i} : m[n] = store[n]
    BY <1>2 DEF DataOK
  <2>2. Save(j, m) /\ job[j].op \in {"fire", "manual"} /\ store[i] \in Schedules
    BY <1>2, <1>9 DEF LoadForFire
  <2>3. Alike(p, store[i])
    BY <2>2 DEF Advanced, Schedules, Alike
  <2> HIDE DEF m, p
  <2> QED  BY <1>5, <2>1, <2>2, <2>3 DEF Alike, Changes
<1>10. CASE LoadForPatch(j)
  BY <1>5, <1>10 DEF LoadForPatch, Alike, Changes
<1> QED  BY <1>4, <1>6, <1>7, <1>8, <1>9, <1>10

(* The load of the start-up.                                                *)
LEMMA ChangesLoadAll ==
    ASSUME SchedulerAssumption, SchedInv, ChangesInv, NEW j \in Jobs, LoadForReconcile(j)
    PROVE  ChangesInv'
<1> USE DEF SchedInv
<1> DEFINE on == {i \in Ids : store[i].enabled}
           m == [i \in Ids |-> IF i \in on /\ store[i].next <= 0 THEN Advanced(store[i]) ELSE store[i]]
           late == {i \in on \cap CatchUp : store[i].next < -Grace}
           r == [job[j] EXCEPT !.pc = "save", !.map = m, !.todo = on, !.missed = late]
<1>1. /\ job[j] \in Records /\ job[j].pc = "load" /\ job[j].op = "reconcile"
      /\ UNCHANGED <<store, alarm, acked, open, awake>>
  BY DEF LoadForReconcile, JobsOK, envVars
<1>2. \A i \in Ids : Alike(m[i], store[i])
  <2>1. ASSUME NEW i \in on PROVE Alike(Advanced(store[i]), store[i])
    <3>1. store[i] \in Schedules
      BY DEF DataOK, Nil
    <3> QED  BY <3>1 DEF Advanced, Schedules, Alike
  <2> QED  BY <2>1 DEF Alike
<1>3. job' = [job EXCEPT ![j] = r]
  BY DEF LoadForReconcile
<1>4. r.pc = "save" /\ r.map = m /\ r.op = "reconcile" /\ r.todo = on /\ r.missed = late
  BY <1>1 DEF Records
<1> HIDE DEF m, r
<1>5. job'[j] = r /\ \A k \in Jobs \ {j} : job'[k] = job[k]
  BY <1>3, OthersStay
<1>6. ChangeAlone'
  <2>1. \A k \in Jobs : (Busy(k)' => Busy(k)) /\ (Changing(k)' => Changing(k))
    BY <1>1, <1>4, <1>5 DEF Busy, Changing
  <2> QED  BY <2>1, AloneStays DEF ChangesInv
<1>7. CopyTrue(j)'
  BY <1>1, <1>2, <1>4, <1>5 DEF CopyTrue
<1>8. ChangeTrue(j)'
  BY <1>4, <1>5 DEF ChangeTrue, Changing, Changes
<1>9. ReconcileTrue(j)'
  BY <1>1, <1>4, <1>5 DEF ReconcileTrue
<1>10. \A i \in Ids : WillArm(j, i) /\ store[i].enabled => WillArm(j, i)'
  BY <1>1, <1>4, <1>5 DEF WillArm
<1> QED  BY <1>1, <1>5, <1>6, <1>7, <1>8, <1>9, <1>10, ChangesFrame

(* The saved set is in effect.                                              *)
LEMMA ChangesSave ==
    ASSUME SchedulerAssumption, SchedInv, ChangesInv, NEW j \in Jobs, SaveDone(j)
    PROVE  ChangesInv'
<1> USE DEF SchedInv
<1> DEFINE r == job[j]
           n == job[j].id
<1>1. /\ job[j] \in Records /\ RecordOK(job[j]) /\ job[j].pc = "save" /\ Busy(j)
      /\ store' = job[j].map /\ UNCHANGED <<alarm, acked, open, awake>>
  BY DEF SaveDone, JobsOK, envVars, Busy
<1>2. PICK q \in Records :
        /\ job' = [job EXCEPT ![j] = q]
        /\ \/ q = Idle /\ r.op = "patch"
           \/ q = Idle /\ r.op = "reconcile" /\ r.todo = {}
           \/ /\ q.pc = "clear" /\ q.op = r.op /\ q.todo = r.todo /\ q.missed = r.missed
              /\ q.map = r.map /\ r.op # "patch" /\ (r.op # "reconcile" => q.id = n)
  <2>1. CASE job' = [job EXCEPT ![j] = Idle] /\ (r.op = "patch" \/ (r.op = "reconcile" /\ r.todo = {}))
    BY <2>1, IdleOK
  <2>2. CASE r.op = "reconcile" /\ \E i \in r.todo : job' = [job EXCEPT ![j].pc = "clear", ![j].id = i]
    <3>1. PICK i \in r.todo : job' = [job EXCEPT ![j].pc = "clear", ![j].id = i]
      BY <2>2
    <3> DEFINE q == [job[j] EXCEPT !.pc = "clear", !.id = i]
    <3>2. job' = [job EXCEPT ![j] = q]
      BY <3>1 DEF JobsOK
    <3>3. q \in Records /\ q.pc = "clear" /\ q.op = r.op /\ q.todo = r.todo /\ q.missed = r.missed /\ q.map = job[j].map
      BY <1>1 DEF Records
    <3> HIDE DEF q
    <3> QED  BY <2>2, <3>2, <3>3
  <2>3. CASE r.op \notin {"patch", "reconcile"} /\ job' = [job EXCEPT ![j].pc = "clear"]
    <3> DEFINE q == [job[j] EXCEPT !.pc = "clear"]
    <3>2. job' = [job EXCEPT ![j] = q]
      BY <2>3 DEF JobsOK
    <3>3. q \in Records /\ q.pc = "clear" /\ q.op = r.op /\ q.todo = r.todo /\ q.missed = r.missed /\ q.map = job[j].map
          /\ q.id = n
      BY <1>1 DEF Records
    <3> HIDE DEF q
    <3> QED  BY <2>3, <3>2, <3>3
  <2> QED  BY <2>1, <2>2, <2>3 DEF SaveDone
<1>3. job'[j] = q /\ \A k \in Jobs \ {j} : job'[k] = job[k]
  BY <1>2, OthersStay
<1>4. q = Idle => q.pc = "idle" /\ q.op = "none"
  BY DEF Idle
<1>5. \A i \in Ids : Alike(store'[i], store[i]) \/ (Changing(j) /\ i = n)
  BY <1>1 DEF ChangesInv, CopyTrue, Changing
<1>6. ChangeAlone'
  <2>1. \A k \in Jobs : (Busy(k)' => Busy(k)) /\ (Changing(k)' => Changing(k))
    BY <1>1, <1>2, <1>3, <1>4 DEF Busy, Changing
  <2> QED  BY <2>1, AloneStays DEF ChangesInv
<1>7. ASSUME NEW k \in Jobs PROVE CopyTrue(k)'
  <2>1. CASE k = j
    BY <1>1, <1>2, <1>3, <1>4, <2>1 DEF CopyTrue, Alike
  <2>2. CASE k # j /\ Busy(k)
    <3>1. \A i \in Ids : Alike(store'[i], store[i])
      BY <1>1, <1>5, <2>2 DEF ChangesInv, ChangeAlone
    <3>2. CopyTrue(k) /\ job'[k] = job[k]
      BY <1>3, <2>2 DEF ChangesInv
    <3> QED  BY <3>1, <3>2 DEF CopyTrue, Alike
  <2>3. CASE k # j /\ ~Busy(k)
    BY <1>3, <2>3 DEF CopyTrue, Busy
  <2> QED  BY <2>1, <2>2, <2>3
<1>8. ASSUME NEW k \in Jobs PROVE ChangeTrue(k)'
  <2>1. CASE k = j
    <3>1. Changing(j)' => Changing(j) /\ q.pc = "clear" /\ q.op = r.op /\ q.id = n /\ r.op \in Changes
      BY <1>1, <1>2, <1>3, <1>4 DEF Changing, Busy, Changes
    <3>2. ChangeTrue(j)
      BY DEF ChangesInv
    <3> QED  BY <1>1, <1>2, <1>3, <2>1, <3>1, <3>2 DEF ChangeTrue
  <2>2. CASE k # j
    <3>1. ~Changing(k)
      BY <1>1, <2>2 DEF ChangesInv, ChangeAlone
    <3>2. ~Changing(k)'
      BY <1>3, <2>2, <3>1 DEF Changing, Busy
    <3> QED  BY <3>2 DEF ChangeTrue
  <2> QED  BY <2>1, <2>2
<1>9. ASSUME NEW k \in Jobs PROVE ReconcileTrue(k)'
  <2>0. ReconcileTrue(k)
    BY DEF ChangesInv
  <2>1. CASE k = j
    <3>1. \A i \in Ids : Alike(store'[i], store[i]) \/ r.op \in Changes
      BY <1>5 DEF Changing
    <3>2. q.op = "reconcile" => r.op = "reconcile" /\ q.todo = r.todo /\ q.missed = r.missed /\ q.pc # "load"
      BY <1>2, <1>4
    <3>3. r.todo \cup r.missed \subseteq Ids
      BY <1>1 DEF Records
    <3> QED  BY <1>3, <2>0, <2>1, <3>1, <3>2, <3>3 DEF ReconcileTrue, Alike, Changes
  <2>2. CASE k # j /\ job[k].op = "reconcile"
    <3>1. Busy(k)
      BY <2>2, StartUpBusy
    <3>2. \A i \in Ids : Alike(store'[i], store[i])
      BY <1>1, <1>5, <2>2, <3>1 DEF ChangesInv, ChangeAlone
    <3>3. job[k].todo \cup job[k].missed \subseteq Ids
      BY DEF JobsOK, Records
    <3> QED  BY <1>3, <2>0, <2>2, <3>2, <3>3 DEF ReconcileTrue, Alike
  <2>3. CASE k # j /\ job[k].op # "reconcile"
    BY <1>3, <2>3 DEF ReconcileTrue
  <2> QED  BY <2>1, <2>2, <2>3
<1>10. ASSUME NEW i \in Ids PROVE ToldTrue(i)'
  <2>1. ToldTrue(i) /\ ChangeTrue(j)
    BY DEF ChangesInv
  <2>2. CASE Alike(store'[i], store[i])
    BY <1>1, <2>1, <2>2 DEF ToldTrue, Alike
  <2>3. CASE Changing(j) /\ i = n /\ Asked(r.op)
    BY <1>1, <2>1, <2>3 DEF ToldTrue, ChangeTrue
  <2>4. CASE Changing(j) /\ i = n /\ r.op = "retime"
    BY <1>1, <2>1, <2>4 DEF ToldTrue, ChangeTrue
  <2> QED  BY <1>5, <2>2, <2>3, <2>4 DEF Changing, Changes, Asked
<1>11. ASSUME NEW i \in Ids PROVE Covered(i)'
  <2> SUFFICES ASSUME open, awake, store'[i].enabled, alarm[i] = Off PROVE \E k \in Jobs : WillArm(k, i)'
    BY <1>1 DEF Covered
  <2>1. CASE Changing(j) /\ i = n
    <3>1. WillArm(j, i)'
      BY <1>1, <1>2, <1>3, <2>1 DEF WillArm, Changing, Changes
    <3> QED  BY <3>1
  <2>2. CASE Alike(store'[i], store[i])
    <3>1. PICK k \in Jobs : WillArm(k, i)
      BY <2>2 DEF ChangesInv, Covered, Alike
    <3>2. CASE k # j
      BY <1>3, <3>1, <3>2 DEF WillArm
    <3>3. CASE k = j
      <4>1. q.pc = "clear" /\ q.op = r.op /\ q.todo = r.todo /\ (r.op # "reconcile" => q.id = n)
        BY <1>1, <1>2, <3>1, <3>3 DEF WillArm, Changes
      <4> QED  BY <1>1, <1>3, <3>1, <3>3, <4>1 DEF WillArm
    <3> QED  BY <3>2, <3>3
  <2> QED  BY <1>5, <2>1, <2>2
<1> QED  BY <1>6, <1>7, <1>8, <1>9, <1>10, <1>11 DEF ChangesInv

(* What an operation tells, and where it goes, when its alarms are done; a    *)
(* schedule whose alarm was only cleared is not enabled.                    *)
LEMMA ChangesAfterArm ==
    ASSUME SchedulerAssumption, SchedInv, ChangesInv, NEW j \in Jobs, AfterArm(j),
           job[j].pc \in {"clear", "arm"}, UNCHANGED <<store, open, awake>>,
           alarm'[job[j].id] = Off \/ store[job[j].id].enabled,
           alarm'[job[j].id] # Off \/ ~store[job[j].id].enabled,
           \A i \in Ids \ {job[j].id} : alarm'[i] = alarm[i]
    PROVE  ChangesInv'
<1> USE DEF SchedInv
<1> DEFINE r == job[j]
           n == job[j].id
<1>1. job[j] \in Records /\ RecordOK(job[j]) /\ Busy(j) /\ n \in Ids /\ r.op # "patch" /\ r.op # "none"
  BY DEF JobsOK, RecordOK, Busy
<1>2. PICK q \in Records :
        /\ job' = [job EXCEPT ![j] = q]
        /\ \/ q = Idle /\ r.op \in Changes
           \/ q = Idle /\ r.op = "reconcile" /\ r.todo \ {n} = {} /\ UNCHANGED acked
           \/ /\ q.pc = "late" /\ q.op = r.op /\ q.todo = {} /\ q.missed = r.missed
              /\ r.op = "reconcile" /\ r.todo \ {n} = {} /\ UNCHANGED acked
           \/ /\ q.pc = "clear" /\ q.op = r.op /\ q.todo = r.todo \ {n} /\ q.missed = r.missed /\ q.map = r.map
              /\ r.op = "reconcile" /\ UNCHANGED acked
           \/ q.pc = "run" /\ q.op = r.op /\ r.op \in {"fire", "manual"} /\ UNCHANGED acked
           \/ q.pc = "load" /\ q.op = "patch" /\ r.op \in {"fire", "manual"} /\ UNCHANGED acked
  <2>1. CASE r.op = "reconcile" /\ Armed(j)
    <3> DEFINE rest == r.todo \ {n}
    <3>1. CASE \E i \in rest : job' = [job EXCEPT ![j].pc = "clear", ![j].id = i, ![j].todo = rest]
      <4>1. PICK i \in rest : job' = [job EXCEPT ![j].pc = "clear", ![j].id = i, ![j].todo = rest]
        BY <3>1
      <4> DEFINE q == [job[j] EXCEPT !.pc = "clear", !.id = i, !.todo = rest]
      <4>2. job' = [job EXCEPT ![j] = q]
        BY <4>1 DEF JobsOK
      <4>3. q \in Records /\ q.pc = "clear" /\ q.op = r.op /\ q.todo = rest /\ q.missed = r.missed /\ q.map = r.map
        BY <1>1 DEF Records
      <4> HIDE DEF q
      <4> QED  BY <2>1, <4>2, <4>3 DEF Armed
    <3>2. CASE rest = {} /\ job' = [job EXCEPT ![j].pc = "late", ![j].todo = {}]
      <4> DEFINE q == [job[j] EXCEPT !.pc = "late", !.todo = {}]
      <4>2. job' = [job EXCEPT ![j] = q]
        BY <3>2 DEF JobsOK
      <4>3. q \in Records /\ q.pc = "late" /\ q.op = r.op /\ q.todo = {} /\ q.missed = r.missed
        BY <1>1 DEF Records
      <4> HIDE DEF q
      <4> QED  BY <2>1, <3>2, <4>2, <4>3 DEF Armed
    <3>3. CASE rest = {} /\ job' = [job EXCEPT ![j] = Idle]
      BY <2>1, <3>3, IdleOK DEF Armed
    <3> QED  BY <2>1, <3>1, <3>2, <3>3 DEF Armed
  <2>2. CASE r.op \in {"fire", "manual"} /\ RunOrSkip(j)
    <3>1. CASE job' = [job EXCEPT ![j].pc = "run", ![j].map = NoMap]
      <4> DEFINE q == [job[j] EXCEPT !.pc = "run", !.map = NoMap]
      <4>1. job' = [job EXCEPT ![j] = q]
        BY <3>1 DEF JobsOK
      <4>2. q \in Records /\ q.pc = "run" /\ q.op = r.op
        BY <1>1 DEF Records, NoMap
      <4> HIDE DEF q
      <4> QED  BY <2>2, <4>1, <4>2 DEF RunOrSkip
    <3>2. CASE job' = [job EXCEPT ![j] = Started("patch", n)]
      <4> DEFINE q == Started("patch", n)
      <4>1. q \in Records /\ q.pc = "load" /\ q.op = "patch"
        BY <1>1, StartedOK
      <4>2. job' = [job EXCEPT ![j] = q]
        BY <3>2
      <4> HIDE DEF q
      <4> QED  BY <2>2, <4>1, <4>2 DEF RunOrSkip
    <3> QED  BY <2>2, <3>1, <3>2 DEF RunOrSkip
  <2>3. CASE r.op \in Changes /\ job' = [job EXCEPT ![j] = Idle]
    BY <2>3, IdleOK
  <2> QED  BY <2>1, <2>2, <2>3 DEF AfterArm
<1>3. job'[j] = q /\ (\A k \in Jobs \ {j} : job'[k] = job[k]) /\ (q = Idle => q.pc = "idle" /\ q.op = "none")
  <2>1. job'[j] = q /\ (\A k \in Jobs \ {j} : job'[k] = job[k])
    BY <1>2, OthersStay
  <2>2. q = Idle => q.pc = "idle" /\ q.op = "none"
    BY DEF Idle
  <2> QED  BY <2>1, <2>2
<1>4. ~Changing(j)'
  BY <1>2, <1>3 DEF Changing, Busy, Changes
<1>5. ChangeAlone'
  <2>1. \A k \in Jobs : (Busy(k)' => Busy(k)) /\ (Changing(k)' => Changing(k))
    BY <1>1, <1>3, <1>4 DEF Busy, Changing
  <2> QED  BY <2>1, AloneStays DEF ChangesInv
<1>6. ASSUME NEW k \in Jobs PROVE CopyTrue(k)'
  <2>1. CopyTrue(k) /\ CopyTrue(j)
    BY DEF ChangesInv
  <2>2. CASE k = j
    <3>1. q.pc \in {"save", "clear", "arm"} => q.pc = "clear" /\ q.map = r.map
      BY <1>2, <1>3
    <3>2. \A i \in Ids : Alike(r.map[i], store[i])
      BY <2>1 DEF CopyTrue
    <3> QED  BY <1>3, <2>2, <3>1, <3>2 DEF CopyTrue
  <2>3. CASE k # j
    BY <1>3, <2>1, <2>3 DEF CopyTrue
  <2> QED  BY <2>2, <2>3
<1>7. ASSUME NEW k \in Jobs PROVE ChangeTrue(k)'
  <2>1. CASE k = j
    BY <1>4, <2>1 DEF ChangeTrue
  <2>2. CASE k # j /\ Changing(k)
    BY <1>1, <2>2 DEF ChangesInv, ChangeAlone
  <2>3. CASE k # j /\ ~Changing(k)
    BY <1>3, <2>3 DEF ChangeTrue, Changing, Busy
  <2> QED  BY <2>1, <2>2, <2>3
<1>8. ASSUME NEW k \in Jobs PROVE ReconcileTrue(k)'
  <2>1. ReconcileTrue(k)
    BY DEF ChangesInv
  <2>2. CASE k = j
    <3>1. q.op = "reconcile" => r.op = "reconcile" /\ q.todo \subseteq r.todo /\ q.missed = r.missed /\ q.pc # "load"
      BY <1>2, <1>3 DEF Changes
    <3> QED  BY <1>3, <2>1, <2>2, <3>1 DEF ReconcileTrue
  <2>3. CASE k # j
    BY <1>3, <2>1, <2>3 DEF ReconcileTrue
  <2> QED  BY <2>2, <2>3
<1>9. Alike(r.map[n], store[n]) /\ store[n].enabled \in BOOLEAN /\ (store[n].enabled => store[n].phase # 0)
  BY <1>1, EnabledExists DEF ChangesInv, CopyTrue, DataOK
<1>10. ASSUME NEW i \in Ids PROVE ToldTrue(i)'
  <2>1. ToldTrue(i)
    BY DEF ChangesInv
  <2>2. CASE i # n /\ acked'[i] = acked[i]
    BY <2>1, <2>2 DEF ToldTrue
  <2>3. CASE i = n /\ acked'[i] = acked[i]
    BY <1>9, <2>1, <2>3 DEF ToldTrue
  <2>4. CASE r.op \in Changes /\ acked' = [acked EXCEPT ![n] = Told(r.op, @)]
    <3>1. CASE i # n
      <4>1. acked'[i] = acked[i]
        BY <2>4, <3>1 DEF DataOK
      <4> QED  BY <2>2, <3>1, <4>1
    <3>2. CASE i = n
      <4>1. acked'[i] = Told(r.op, acked[i])
        BY <2>4, <3>2 DEF DataOK
      <4>2. /\ r.op \in {"create", "resume"} => r.map[n].enabled
            /\ r.op = "pause" => r.map[n].phase # 0 /\ ~r.map[n].enabled
            /\ r.op = "delete" => r.map[n].phase = 0
        BY <1>1, <2>4 DEF ChangesInv, ChangeTrue, Changing
      <4>3. CASE r.op \in {"create", "resume"}
        <5>1. acked'[i] = "enabled"
          BY <4>1, <4>3 DEF Told
        <5> QED  BY <1>9, <3>2, <4>2, <4>3, <5>1 DEF ToldTrue, Alike
      <4>4. CASE r.op = "pause"
        <5>1. acked'[i] = "paused"
          BY <4>1, <4>4 DEF Told
        <5> QED  BY <1>9, <3>2, <4>2, <4>4, <5>1 DEF ToldTrue, Alike
      <4>5. CASE r.op = "delete"
        <5>1. acked'[i] = "deleted"
          BY <4>1, <4>5 DEF Told
        <5> QED  BY <1>9, <3>2, <4>2, <4>5, <5>1 DEF ToldTrue, Alike
      <4>6. CASE r.op = "retime"
        <5>1. acked'[i] = acked[i]
          BY <4>1, <4>6 DEF Told
        <5> QED  BY <2>3, <3>2, <5>1
      <4> QED  BY <2>4, <4>3, <4>4, <4>5, <4>6 DEF Changes
    <3> QED  BY <3>1, <3>2
  <2>5. UNCHANGED acked \/ (r.op \in Changes /\ acked' = [acked EXCEPT ![n] = Told(r.op, @)])
    BY DEF AfterArm, Armed, RunOrSkip
  <2> QED  BY <2>2, <2>3, <2>4, <2>5
<1>11. ASSUME NEW i \in Ids PROVE Covered(i)'
  <2> SUFFICES ASSUME open, awake, store[i].enabled, alarm'[i] = Off PROVE \E k \in Jobs : WillArm(k, i)'
    BY DEF Covered
  <2>1. i # n /\ alarm[i] = Off
    BY <1>9
  <2>2. PICK k \in Jobs : WillArm(k, i)
    BY <2>1 DEF ChangesInv, Covered
  <2>3. CASE k # j
    BY <1>3, <2>2, <2>3 DEF WillArm
  <2>4. CASE k = j
    <3>1. r.op = "reconcile" /\ i \in r.todo \ {n}
      BY <2>1, <2>2, <2>4 DEF WillArm
    <3>2. q.pc = "clear" /\ q.op = "reconcile" /\ i \in q.todo
      BY <1>2, <3>1 DEF Changes
    <3> QED  BY <1>3, <2>4, <3>2 DEF WillArm
  <2> QED  BY <2>3, <2>4
<1> QED  BY <1>5, <1>6, <1>7, <1>8, <1>10, <1>11 DEF ChangesInv

(* alarms.clear is in effect.                                               *)
LEMMA ChangesClear ==
    ASSUME SchedulerAssumption, SchedInv, ChangesInv, NEW j \in Jobs, ClearDone(j)
    PROVE  ChangesInv'
<1> USE DEF SchedInv
<1> DEFINE n == job[j].id
<1>1. /\ job[j] \in Records /\ RecordOK(job[j]) /\ job[j].pc = "clear" /\ n \in Ids /\ Busy(j)
      /\ UNCHANGED <<store, open, awake>> /\ alarm' = [alarm EXCEPT ![n] = Off]
  BY DEF ClearDone, JobsOK, RecordOK, envVars, Cleared, Busy
<1>2. alarm'[n] = Off /\ \A i \in Ids \ {n} : alarm'[i] = alarm[i]
  BY <1>1 DEF DataOK
<1>3. Alike(job[j].map[n], store[n])
  BY <1>1 DEF ChangesInv, CopyTrue
<1>4. CASE job[j].map[n].enabled
  <2> DEFINE q == [job[j] EXCEPT !.pc = "arm"]
  <2>1. job' = [job EXCEPT ![j] = q] /\ UNCHANGED acked
    BY <1>4 DEF JobsOK, ClearDone
  <2>2. q.pc = "arm" /\ q.op = job[j].op /\ q.id = n /\ q.map = job[j].map /\ q.todo = job[j].todo
        /\ q.missed = job[j].missed
    BY <1>1 DEF Records
  <2> HIDE DEF q
  <2>3. job'[j] = q /\ \A k \in Jobs \ {j} : job'[k] = job[k]
    BY <2>1, OthersStay
  <2>4. ChangeAlone'
    <3>1. \A k \in Jobs : (Busy(k)' => Busy(k)) /\ (Changing(k)' => Changing(k))
      BY <1>1, <2>2, <2>3 DEF Busy, Changing
    <3> QED  BY <3>1, AloneStays DEF ChangesInv
  <2>5. ASSUME NEW k \in Jobs PROVE CopyTrue(k)' /\ ChangeTrue(k)' /\ ReconcileTrue(k)'
    <3>0. CopyTrue(k) /\ ChangeTrue(k) /\ ReconcileTrue(k)
      BY DEF ChangesInv
    <3>1. CASE k = j
      <4>1. CopyTrue(k)'
        BY <1>1, <2>2, <2>3, <3>0, <3>1 DEF CopyTrue
      <4>2. ChangeTrue(k)'
        BY <1>1, <2>1, <2>2, <2>3, <3>0, <3>1 DEF ChangeTrue, Changing, Busy
      <4>3. ReconcileTrue(k)'
        BY <1>1, <2>2, <2>3, <3>0, <3>1 DEF ReconcileTrue
      <4> QED  BY <4>1, <4>2, <4>3
    <3>2. CASE k # j
      <4>1. CopyTrue(k)'
        BY <1>1, <2>3, <3>0, <3>2 DEF CopyTrue
      <4>2. ChangeTrue(k)'
        BY <1>1, <2>1, <2>3, <3>0, <3>2 DEF ChangeTrue, Changing, Busy
      <4>3. ReconcileTrue(k)'
        BY <1>1, <2>3, <3>0, <3>2 DEF ReconcileTrue
      <4> QED  BY <4>1, <4>2, <4>3
    <3> QED  BY <3>1, <3>2
  <2>6. ASSUME NEW i \in Ids PROVE ToldTrue(i)'
    BY <1>1, <1>2, <2>1 DEF ChangesInv, ToldTrue
  <2>7. ASSUME NEW i \in Ids PROVE Covered(i)'
    <3> SUFFICES ASSUME open, awake, store[i].enabled, alarm'[i] = Off PROVE \E k \in Jobs : WillArm(k, i)'
      BY <1>1 DEF Covered
    <3>1. CASE i = n
      <4>1. WillArm(j, i)'
        <5>1. job[j].op \in Changes \cup {"manual", "fire", "reconcile"} /\ (job[j].op = "reconcile" => n \in job[j].todo)
          BY <1>1 DEF Records, RecordOK
        <5> QED  BY <2>2, <2>3, <3>1, <5>1 DEF WillArm
      <4> QED  BY <4>1
    <3>2. CASE i # n
      <4>1. PICK k \in Jobs : WillArm(k, i)
        BY <1>2, <3>2 DEF ChangesInv, Covered
      <4>2. WillArm(k, i)'
        BY <1>1, <2>2, <2>3, <3>2, <4>1 DEF WillArm
      <4> QED  BY <4>2
    <3> QED  BY <3>1, <3>2
  <2> QED  BY <2>4, <2>5, <2>6, <2>7 DEF ChangesInv
<1>5. CASE ~job[j].map[n].enabled
  <2>1. AfterArm(j)
    BY <1>5 DEF ClearDone
  <2>2. ~store[n].enabled
    BY <1>3, <1>5 DEF Alike
  <2> QED  BY <1>1, <1>2, <2>1, <2>2, ChangesAfterArm
<1> QED  BY <1>4, <1>5

(* alarms.create is in effect.                                              *)
LEMMA ChangesArm ==
    ASSUME SchedulerAssumption, SchedInv, ChangesInv, NEW j \in Jobs, ArmDone(j)
    PROVE  ChangesInv'
<1> USE DEF SchedInv
<1> DEFINE n == job[j].id
<1>1. /\ job[j] \in Records /\ RecordOK(job[j]) /\ job[j].pc = "arm" /\ n \in Ids
      /\ UNCHANGED <<store, open, awake>> /\ AfterArm(j)
      /\ alarm' = [alarm EXCEPT ![n] = Max({1, job[j].map[n].next})]
  BY DEF ArmDone, JobsOK, RecordOK, envVars
<1>2. job[j].map[n].enabled /\ Alike(job[j].map[n], store[n])
  BY <1>1 DEF ChangesInv, CopyTrue, RecordOK
<1>3. job[j].map[n].next \in Late .. Period
  <2>1. job[j].map[n] \in Schedules \cup {Nil}
    BY <1>1 DEF Records
  <2>2. job[j].map[n] \in Schedules
    BY <1>2, <2>1 DEF Nil
  <2> QED  BY <2>2 DEF Schedules
<1>4. Max({1, job[j].map[n].next}) # Off
  <2>1. Max({1, job[j].map[n].next}) \in 1 .. Period /\ Period \in Int
    BY <1>3, AlarmRange DEF SchedulerAssumption
  <2> QED  BY <2>1 DEF Off
<1>5. alarm'[n] # Off /\ \A i \in Ids \ {n} : alarm'[i] = alarm[i]
  BY <1>1, <1>4 DEF DataOK
<1> QED  BY <1>1, <1>2, <1>5, ChangesAfterArm DEF Alike

(* The alarm that makes up for a missed run.                                *)
LEMMA ChangesLate ==
    ASSUME SchedulerAssumption, SchedInv, ChangesInv, NEW j \in Jobs, LateDone(j)
    PROVE  ChangesInv'
<1> USE DEF SchedInv
<1> DEFINE r == job[j]
<1>1. /\ job[j] \in Records /\ RecordOK(job[j]) /\ job[j].pc = "late" /\ r.op = "reconcile" /\ Busy(j)
      /\ UNCHANGED <<store, acked, open, awake>>
  BY DEF LateDone, JobsOK, RecordOK, envVars, Busy
<1>2. PICK i \in r.missed :
        /\ alarm' = [alarm EXCEPT ![i] = CatchUpDelay]
        /\ job' = [job EXCEPT ![j] = IF r.missed = {i} THEN Idle ELSE [r EXCEPT !.missed = r.missed \ {i}]]
  BY DEF LateDone
<1> DEFINE q == IF r.missed = {i} THEN Idle ELSE [r EXCEPT !.missed = r.missed \ {i}]
<1>3. \/ q.pc = "idle" /\ q.op = "none"
      \/ /\ q.pc = "late" /\ q.op = "reconcile" /\ q.todo = r.todo
         /\ q.missed = r.missed \ {i}
  BY <1>1 DEF Idle, Records
<1>4. job'[j] = q /\ \A k \in Jobs \ {j} : job'[k] = job[k]
  BY <1>2, OthersStay
<1> HIDE DEF q
<1>5. i \in Ids /\ store[i].enabled
  BY <1>1 DEF ChangesInv, ReconcileTrue, Records
<1>6. alarm'[i] # Off /\ \A n \in Ids \ {i} : alarm'[n] = alarm[n]
  BY <1>2, <1>5 DEF DataOK, Off, SchedulerAssumption
<1>7. ChangeAlone'
  <2>1. \A k \in Jobs : (Busy(k)' => Busy(k)) /\ (Changing(k)' => Changing(k))
    BY <1>1, <1>3, <1>4 DEF Busy, Changing, Changes
  <2> QED  BY <2>1, AloneStays DEF ChangesInv
<1>8. ASSUME NEW k \in Jobs PROVE CopyTrue(k)' /\ ChangeTrue(k)' /\ ReconcileTrue(k)'
  <2>0. CopyTrue(k) /\ ChangeTrue(k) /\ ReconcileTrue(k)
    BY DEF ChangesInv
  <2>1. CASE k = j
    <3>1. CopyTrue(k)' /\ ChangeTrue(k)'
      BY <1>3, <1>4, <2>1 DEF CopyTrue, ChangeTrue, Changing, Busy, Changes
    <3>2. ReconcileTrue(k)'
      BY <1>1, <1>3, <1>4, <2>0, <2>1 DEF ReconcileTrue
    <3> QED  BY <3>1, <3>2
  <2>2. CASE k # j
    <3>1. CopyTrue(k)'
      BY <1>1, <1>4, <2>0, <2>2 DEF CopyTrue
    <3>2. ChangeTrue(k)'
      BY <1>1, <1>4, <2>0, <2>2 DEF ChangeTrue, Changing, Busy
    <3>3. ReconcileTrue(k)'
      BY <1>1, <1>4, <2>0, <2>2 DEF ReconcileTrue
    <3> QED  BY <3>1, <3>2, <3>3
  <2> QED  BY <2>1, <2>2
<1>9. ASSUME NEW n \in Ids PROVE ToldTrue(n)'
  <2>1. store[n].enabled => store[n].phase # 0
    BY EnabledExists DEF DataOK
  <2>2. ToldTrue(n)
    BY DEF ChangesInv
  <2> QED  BY <1>1, <1>5, <1>6, <2>1, <2>2 DEF ToldTrue
<1>10. ASSUME NEW n \in Ids PROVE Covered(n)'
  <2> SUFFICES ASSUME open, awake, store[n].enabled, alarm'[n] = Off PROVE \E k \in Jobs : WillArm(k, n)'
    BY <1>1 DEF Covered
  <2>1. PICK k \in Jobs : WillArm(k, n)
    BY <1>6 DEF ChangesInv, Covered
  <2>2. k # j
    BY <1>1, <2>1 DEF WillArm, Changes
  <2> QED  BY <1>4, <2>1, <2>2 DEF WillArm
<1> QED  BY <1>7, <1>8, <1>9, <1>10 DEF ChangesInv

(* A run ends, or its answer is lost.                                       *)
LEMMA ChangesRunOver ==
    ASSUME SchedulerAssumption, ChangesApart, SchedInv, ChangesInv, NEW j \in Jobs,
           RunEnds(j) \/ Disconnect(j)
    PROVE  ChangesInv'
<1> USE DEF SchedInv
<1> DEFINE q == Started("patch", job[j].id)
<1>1. /\ job[j].pc = "run" /\ job[j].id \in Ids /\ MayStart("patch") /\ job' = [job EXCEPT ![j] = q]
      /\ UNCHANGED <<store, alarm, acked, open, awake>>
  BY DEF RunEnds, Disconnect, JobsOK, RecordOK, envVars
<1>2. q.pc = "load" /\ q.op = "patch"
  BY <1>1, StartedOK
<1> HIDE DEF q
<1>3. job'[j] = q /\ \A k \in Jobs \ {j} : job'[k] = job[k]
  BY <1>1, OthersStay
<1>4. ChangeAlone'
  <2>1. \A k \in Jobs : ~Changing(k)'
    BY <1>1, <1>2, <1>3, NoneChanging DEF Changing, Busy, Changes
  <2> QED  BY <2>1 DEF ChangeAlone
<1>5. CopyTrue(j)' /\ ChangeTrue(j)' /\ ReconcileTrue(j)'
  BY <1>2, <1>3 DEF CopyTrue, ChangeTrue, ReconcileTrue, Changing, Changes
<1>6. \A i \in Ids : ~WillArm(j, i)
  BY <1>1 DEF WillArm, JobsOK, RecordOK, Changes
<1> QED  BY <1>1, <1>3, <1>4, <1>5, <1>6, ChangesFrame

(* The user asks for a change or a run.                                     *)
LEMMA ChangesRequest ==
    ASSUME SchedulerAssumption, ChangesApart, SchedInv, ChangesInv,
           NEW j \in Jobs, NEW op \in UserOps, NEW i \in Ids, Request(j, op, i)
    PROVE  ChangesInv'
<1> USE DEF SchedInv
<1> DEFINE q == Started(op, i)
<1>0. op \in Changes \cup {"manual"}
  BY DEF SchedulerAssumption
<1>1. /\ Free(j) /\ MayStart(op) /\ job' = [job EXCEPT ![j] = q]
      /\ UNCHANGED <<store, alarm, open, awake>>
      /\ acked' = [acked EXCEPT ![i] = IF op \in {"retime", "manual"} THEN @ ELSE "unknown"]
  BY DEF Request, envVars
<1>2. q.pc = "load" /\ q.op = op /\ q.id = i
  BY <1>0, StartedOK DEF Changes
<1> HIDE DEF q
<1>3. job'[j] = q /\ \A k \in Jobs \ {j} : job'[k] = job[k]
  BY <1>1, OthersStay
<1>4. /\ \A n \in Ids \ {i} : acked'[n] = acked[n]
      /\ acked'[i] = IF op \in {"retime", "manual"} THEN acked[i] ELSE "unknown"
  BY <1>1 DEF DataOK
<1>5. \A k \in Jobs : ~Changing(k) /\ (op \in Changes => ~Busy(k))
  BY <1>1, NoneChanging
<1>6. ChangeAlone'
  BY <1>0, <1>2, <1>3, <1>5 DEF ChangeAlone, Changing, Busy
<1>7. ASSUME NEW k \in Jobs PROVE CopyTrue(k)' /\ ChangeTrue(k)' /\ ReconcileTrue(k)'
  <2>0. CopyTrue(k) /\ ReconcileTrue(k)
    BY DEF ChangesInv
  <2>1. CASE k = j
    <3>1. CopyTrue(k)'
      BY <1>2, <1>3, <2>1 DEF CopyTrue
    <3>2. ChangeTrue(k)'
      BY <1>0, <1>2, <1>3, <1>4, <2>1 DEF ChangeTrue, Changing, Asked, Changes
    <3>3. ReconcileTrue(k)'
      BY <1>0, <1>2, <1>3, <2>1 DEF ReconcileTrue, Changes
    <3> QED  BY <3>1, <3>2, <3>3
  <2>2. CASE k # j
    <3>1. CopyTrue(k)'
      BY <1>1, <1>3, <2>0, <2>2 DEF CopyTrue
    <3>2. ChangeTrue(k)'
      BY <1>3, <1>5, <2>2 DEF ChangeTrue, Changing, Busy
    <3>3. ReconcileTrue(k)'
      BY <1>1, <1>3, <2>0, <2>2 DEF ReconcileTrue
    <3> QED  BY <3>1, <3>2, <3>3
  <2> QED  BY <2>1, <2>2
<1>8. ASSUME NEW n \in Ids PROVE ToldTrue(n)' /\ Covered(n)'
  <2>1. ToldTrue(n)'
    BY <1>1, <1>4 DEF ChangesInv, ToldTrue
  <2>2. \A k \in Jobs : WillArm(k, n) => WillArm(k, n)'
    <3>1. ~WillArm(j, n)
      BY <1>1, StartUpBusy DEF WillArm, Changes, Free
    <3> QED  BY <1>3, <3>1 DEF WillArm
  <2>3. Covered(n)'
    BY <1>1, <2>2 DEF ChangesInv, Covered
  <2> QED  BY <2>1, <2>3
<1> QED  BY <1>6, <1>7, <1>8 DEF ChangesInv

(* The worker starts: nothing else is in progress, but perhaps the run of    *)
(* the alarm that started it.                                               *)
LEMMA ChangesStart ==
    ASSUME SchedulerAssumption, SchedInv, ChangesInv, ~awake, UNCHANGED <<store, acked>>,
           NEW j \in Jobs, job'[j] = Started("reconcile", NoId),
           \A i \in Ids : alarm'[i] = Off \/ alarm'[i] = alarm[i],
           \A k \in Jobs \ {j} : job'[k] = job[k] \/ \E i \in Ids : job'[k] = Started("fire", i)
    PROVE  ChangesInv'
<1> USE DEF SchedInv
<1> DEFINE q == Started("reconcile", NoId)
<1>1. q.pc = "load" /\ q.op = "reconcile" /\ q.todo = {} /\ q.missed = {}
  BY StartUpOK
<1> HIDE DEF q
<1>2. job'[j] = q
  BY DEF q
<1>3. \A k \in Jobs \ {j} :
        \/ job'[k].pc = "load" /\ job'[k].op = "fire"
        \/ job'[k].pc = "idle" /\ job'[k].op = "none"
  <2> SUFFICES ASSUME NEW k \in Jobs \ {j}
               PROVE  \/ job'[k].pc = "load" /\ job'[k].op = "fire"
                      \/ job'[k].pc = "idle" /\ job'[k].op = "none"
    OBVIOUS
  <2>1. CASE job'[k] = job[k]
    <3>1. job[k].pc = "idle"
      BY DEF AsleepOK, Free
    <3>2. job[k].op = "none"
      BY <3>1, StartUpBusy DEF Free
    <3> QED  BY <2>1, <3>1, <3>2
  <2>2. CASE \E i \in Ids : job'[k] = Started("fire", i)
    <3>1. PICK i \in Ids : job'[k] = Started("fire", i)
      BY <2>2
    <3>2. Started("fire", i).pc = "load" /\ Started("fire", i).op = "fire"
      BY StartedOK
    <3> QED  BY <3>1, <3>2
  <2> QED  BY <2>1, <2>2
<1>4. \A k \in Jobs : ~Changing(k)' /\ CopyTrue(k)' /\ ReconcileTrue(k)'
  BY <1>1, <1>2, <1>3 DEF Changing, Changes, CopyTrue, ReconcileTrue
<1>5. ChangeAlone' /\ \A k \in Jobs : ChangeTrue(k)'
  BY <1>4 DEF ChangeAlone, ChangeTrue
<1>6. \A i \in Ids : WillArm(j, i)'
  BY <1>1, <1>2 DEF WillArm
<1>7. \A i \in Ids : ToldTrue(i)' /\ Covered(i)'
  BY <1>6 DEF ChangesInv, ToldTrue, Covered
<1> QED  BY <1>4, <1>5, <1>7 DEF ChangesInv

(* An alarm rings.                                                          *)
LEMMA ChangesRing ==
    ASSUME SchedulerAssumption, ChangesApart, SchedInv, ChangesInv, NEW i \in Ids, Ring(i)
    PROVE  ChangesInv'
<1> USE DEF SchedInv
<1>1. PICK j, k \in {j \in Jobs : Free(j)} :
        \/ /\ awake /\ j = k
           /\ job' = [job EXCEPT ![j] = Started("fire", i)]
        \/ /\ ~awake /\ j # k
           /\ job' = [job EXCEPT ![j] = Started("fire", i), ![k] = Started("reconcile", NoId)]
  BY DEF Ring
<1>2. /\ MayStart("fire") /\ UNCHANGED <<store, acked, open>> /\ alarm' = [alarm EXCEPT ![i] = Off] /\ awake' = TRUE
  BY DEF Ring
<1>3. alarm'[i] = Off /\ \A n \in Ids \ {i} : alarm'[n] = alarm[n]
  BY <1>2 DEF DataOK
<1>4. CASE ~awake
  <2> DEFINE f == Started("fire", i)
             q == Started("reconcile", NoId)
  <2>1. job' = [job EXCEPT ![j] = f, ![k] = q] /\ j # k
    BY <1>1, <1>4
  <2> HIDE DEF f, q
  <2>2. job'[k] = q /\ job'[j] = f /\ \A l \in Jobs \ {j, k} : job'[l] = job[l]
    BY <2>1 DEF JobsOK
  <2>3. job'[k] = Started("reconcile", NoId)
    BY <2>2 DEF q
  <2>4. \A l \in Jobs \ {k} : job'[l] = job[l] \/ \E n \in Ids : job'[l] = Started("fire", n)
    BY <2>2 DEF f
  <2> QED  BY <1>2, <1>3, <1>4, <2>3, <2>4, ChangesStart
<1>5. CASE awake
  <2> DEFINE q == Started("fire", i)
  <2>1. job' = [job EXCEPT ![j] = q] /\ Free(j)
    BY <1>1, <1>5
  <2>2. q.pc = "load" /\ q.op = "fire" /\ q.id = i
    BY StartedOK
  <2> HIDE DEF q
  <2>3. job'[j] = q /\ \A l \in Jobs \ {j} : job'[l] = job[l]
    BY <2>1, OthersStay
  <2>4. \A l \in Jobs : ~Changing(l)'
    BY <1>2, <2>2, <2>3, NoneChanging DEF Changing, Busy, Changes
  <2>5. ChangeAlone' /\ \A l \in Jobs : ChangeTrue(l)'
    BY <2>4 DEF ChangeAlone, ChangeTrue
  <2>6. \A l \in Jobs : CopyTrue(l)' /\ ReconcileTrue(l)'
    BY <1>2, <2>2, <2>3 DEF ChangesInv, CopyTrue, ReconcileTrue
  <2>7. ASSUME NEW n \in Ids PROVE ToldTrue(n)' /\ Covered(n)'
    <3>1. ToldTrue(n)'
      BY <1>2, <1>3 DEF ChangesInv, ToldTrue
    <3>2. Covered(n)'
      <4>1. CASE n = i
        <5>1. WillArm(j, n)'
          BY <2>2, <2>3, <4>1 DEF WillArm
        <5> QED  BY <5>1 DEF Covered
      <4>2. CASE n # i
        <5>1. \A l \in Jobs : WillArm(l, n) => WillArm(l, n)'
          <6>1. ~WillArm(j, n)
            BY <2>1, StartUpBusy DEF WillArm, Changes, Free
          <6> QED  BY <2>3, <6>1 DEF WillArm
        <5> QED  BY <1>2, <1>3, <1>5, <4>2, <5>1 DEF ChangesInv, Covered
      <4> QED  BY <4>1, <4>2
    <3> QED  BY <3>1, <3>2
  <2> QED  BY <2>5, <2>6, <2>7 DEF ChangesInv
<1> QED  BY <1>4, <1>5

(* The worker or the browser goes.                                          *)
LEMMA ChangesStop ==
    ASSUME SchedulerAssumption, SchedInv, ChangesInv, Kill \/ CloseBrowser
    PROVE  ChangesInv'
<1> USE DEF SchedInv
<1>1. /\ \A j \in Jobs : job'[j] = Idle
      /\ UNCHANGED <<store, acked>> /\ awake' = FALSE
      /\ \A i \in Ids : alarm'[i] = alarm[i] \/ alarm'[i] = Off
  BY DEF Kill, CloseBrowser, Forget
<1>2. \A j \in Jobs : job'[j].pc = "idle" /\ job'[j].op = "none"
  BY <1>1 DEF Idle
<1>3. \A j \in Jobs : ~Changing(j)' /\ CopyTrue(j)' /\ ReconcileTrue(j)' /\ ChangeTrue(j)'
  BY <1>2 DEF Changing, Busy, CopyTrue, ReconcileTrue, ChangeTrue
<1>4. \A i \in Ids : ToldTrue(i)' /\ Covered(i)'
  BY <1>1 DEF ChangesInv, ToldTrue, Covered
<1> QED  BY <1>3, <1>4 DEF ChangesInv, ChangeAlone

(* Time passes.                                                             *)
LEMMA ChangesTick ==
    ASSUME SchedulerAssumption, SchedInv, ChangesInv, Tick
    PROVE  ChangesInv'
<1> USE DEF SchedInv
<1>1. (\A j \in Jobs : ~Busy(j)) /\ UNCHANGED <<open, job, acked>> /\ (awake' => awake)
  BY DEF Tick, DataOK
<1>2. \A j \in Jobs : ~Busy(j)' /\ job[j].op # "reconcile"
  BY <1>1, StartUpBusy DEF Busy
<1>3. \A j \in Jobs : ~Changing(j)' /\ CopyTrue(j)' /\ ReconcileTrue(j)' /\ ChangeTrue(j)'
  BY <1>1, <1>2 DEF Changing, Busy, CopyTrue, ReconcileTrue, ChangeTrue
<1>4. ASSUME NEW i \in Ids PROVE ToldTrue(i)' /\ Covered(i)'
  <2>1. /\ store'[i].enabled = store[i].enabled
        /\ (store'[i].phase = 0) <=> (store[i].phase = 0)
        /\ (alarm'[i] = Off) <=> (alarm[i] = Off)
    <3>1. /\ store'[i].enabled = store[i].enabled /\ alarm'[i] = (IF alarm[i] > 0 THEN alarm[i] - 1 ELSE alarm[i])
          /\ store[i].phase = 0 => store'[i] = Nil
          /\ store[i].phase # 0 => store'[i].phase = (IF store[i].phase = 1 THEN Period ELSE store[i].phase - 1)
      BY TickData
    <3>2. store[i].phase \in Int /\ Period \in Int /\ Period # 0 /\ alarm[i] \in {Off} \cup Nat
      <4>1. store[i].phase \in 0 .. Period
        BY EnabledExists DEF DataOK
      <4>2. alarm[i] \in {Off} \cup 0 .. Max({Period, CatchUpDelay})
        BY DEF DataOK
      <4> QED  BY <4>1, <4>2, AlarmRange DEF SchedulerAssumption
    <3>3. Nil.phase = 0
      BY DEF Nil
    <3> QED  BY <3>1, <3>2, <3>3 DEF Off
  <2>2. \A j \in Jobs : WillArm(j, i) => Busy(j)
    BY DEF WillArm, Busy
  <2> QED  BY <1>1, <2>1, <2>2 DEF ChangesInv, ToldTrue, Covered
<1> QED  BY <1>3, <1>4 DEF ChangesInv, ChangeAlone

(* What the user was told, and the alarms, after every step.                *)
LEMMA ChangesStep ==
    ASSUME SchedulerAssumption, ChangesApart, SchedInv, ChangesInv, [Next]_vars
    PROVE  ChangesInv'
<1>1. CASE \E j \in Jobs : JobStep(j)
  BY <1>1, ChangesLoad, ChangesLoadAll, ChangesSave, ChangesClear, ChangesArm, ChangesLate DEF JobStep
<1>2. CASE \E j \in Jobs : RunEnds(j) \/ Disconnect(j)
  BY <1>2, ChangesRunOver
<1>3. CASE \E j \in Jobs, op \in UserOps, i \in Ids : Request(j, op, i)
  BY <1>3, ChangesRequest
<1>4. CASE (\E j \in Jobs : Wake(j)) \/ OpenBrowser
  <2>1. PICK j \in Jobs : job' = [job EXCEPT ![j] = Started("reconcile", NoId)] /\ ~awake /\ UNCHANGED <<store, alarm, acked>>
    BY <1>4 DEF Wake, OpenBrowser, SchedInv, AsleepOK
  <2> DEFINE q == Started("reconcile", NoId)
  <2>2. job' = [job EXCEPT ![j] = q]
    BY <2>1
  <2> HIDE DEF q
  <2>3. job'[j] = q /\ \A k \in Jobs \ {j} : job'[k] = job[k]
    BY <2>2, OthersStay DEF SchedInv
  <2>4. job'[j] = Started("reconcile", NoId)
    BY <2>3 DEF q
  <2> QED  BY <2>1, <2>3, <2>4, ChangesStart
<1>5. CASE \E i \in Ids : Ring(i)
  BY <1>5, ChangesRing
<1>6. CASE Kill \/ CloseBrowser
  BY <1>6, ChangesStop
<1>7. CASE Tick
  BY <1>7, ChangesTick
<1>8. CASE UNCHANGED <<store, alarm, open, awake, job, acked>>
  <2>1. ChangeAlone'
    BY <1>8 DEF ChangesInv, ChangeAlone, Changing, Busy
  <2>2. \A j \in Jobs : CopyTrue(j)' /\ ChangeTrue(j)' /\ ReconcileTrue(j)'
    BY <1>8 DEF ChangesInv, CopyTrue, ChangeTrue, ReconcileTrue, Changing, Busy
  <2>3. \A i \in Ids : ToldTrue(i)' /\ Covered(i)'
    BY <1>8 DEF ChangesInv, ToldTrue, Covered, WillArm
  <2> QED  BY <2>1, <2>2, <2>3 DEF ChangesInv
<1> QED  BY <1>1, <1>2, <1>3, <1>4, <1>5, <1>6, <1>7, <1>8 DEF Next, OrphanEnds, vars

(* It holds at the start.                                                   *)
LEMMA ChangesInit == ASSUME SchedulerAssumption, Init PROVE ChangesInv
<1>1. \A j \in Jobs : job[j].pc = "idle" /\ job[j].op = "none"
  BY DEF Init, Idle
<1>2. ChangeAlone /\ \A j \in Jobs : CopyTrue(j) /\ ChangeTrue(j) /\ ReconcileTrue(j)
  BY <1>1 DEF ChangeAlone, CopyTrue, ChangeTrue, ReconcileTrue, Changing, Busy
<1>3. ASSUME NEW i \in Ids PROVE ToldTrue(i) /\ Covered(i)
  BY DEF Init, ToldTrue, Covered, Fresh, Nil, Off, SchedulerAssumption
<1> QED  BY <1>2, <1>3 DEF ChangesInv

(* Storage and alarms agree with what the user was told, always.            *)
LEMMA ChangesConsistent ==
    ASSUME SchedulerAssumption, ChangesApart PROVE Spec => [](SchedInv /\ ChangesInv)
<1>1. Init => SchedInv /\ ChangesInv
  BY InitKeeps, ChangesInit
<1>2. SchedInv /\ ChangesInv /\ [Next]_vars => (SchedInv /\ ChangesInv)'
  BY StepKeeps, ChangesStep
<1> QED  BY <1>1, <1>2, PTL DEF Spec

(* What the user was told of a schedule stays true until the user changes it, *)
(* whatever operations of the timer and of start-up interleave and wherever   *)
(* the worker is killed (update, remove, fire, reconcile), if the changes of   *)
(* the user overlap nothing; any schedules, operations and bounds.           *)
THEOREM ToldStaysTrue == ASSUME SchedulerAssumption, ChangesApart PROVE Spec => []AckedChangeKept
<1>1. SchedInv /\ ChangesInv => AckedChangeKept
  <2> SUFFICES ASSUME SchedInv, ChangesInv, NEW i \in Ids
               PROVE  /\ acked[i] = "enabled" => store[i].enabled
                      /\ acked[i] = "paused" => store[i] # Nil /\ ~store[i].enabled
                      /\ acked[i] = "deleted" => store[i] = Nil
    BY DEF AckedChangeKept
  <2>1. ToldTrue(i) /\ ((store[i].phase = 0) <=> (store[i] = Nil))
    BY EnabledExists DEF ChangesInv, SchedInv, DataOK
  <2> QED  BY <2>1 DEF ToldTrue
<1> QED  BY <1>1, ChangesConsistent, PTL

(* Whenever nothing is in progress an enabled schedule has its alarm, and one  *)
(* that was paused or deleted has none (arm, reconcile; "a crash mid-run never *)
(* stops the schedule"), for any schedules, operations and bounds.            *)
THEOREM AlarmsAtRest == ASSUME SchedulerAssumption, ChangesApart PROVE Spec => []ArmedAtRest
<1>1. SchedInv /\ ChangesInv => ArmedAtRest
  <2> SUFFICES ASSUME SchedInv, ChangesInv, open, awake, \A j \in Jobs : ~Busy(j), NEW i \in Ids
               PROVE  /\ store[i].enabled => alarm[i] # Off
                      /\ acked[i] \in {"paused", "deleted"} => alarm[i] = Off
    BY DEF ArmedAtRest
  <2>1. \A j \in Jobs : WillArm(j, i) => Busy(j)
    BY DEF WillArm, Busy
  <2> QED  BY <2>1 DEF ChangesInv, ToldTrue, Covered
<1> QED  BY <1>1, ChangesConsistent, PTL

-----------------------------------------------------------------------------
(* At most one run by the timer in a slot.                                  *)

(* What can make the timer run a schedule twice in a slot.  An operation      *)
(* saves the whole map it has loaded, and with it an older, due entry over one *)
(* whose next run was set meanwhile.                                        *)
BroughtBack(i) ==
    \E j \in Jobs :
        /\ SaveDone(j)
        /\ job[j].map[i].enabled /\ job[j].map[i].next <= 0 /\ job[j].map[i] # store[i]

(* The user moves the grid of the schedule.                                 *)
Retimed(i) == \E j \in Jobs : job[j].op = "retime" /\ job[j].id = i

(* Its alarm has outlived the browser and is due while that is closed.       *)
Overdue(i) == ~open /\ alarm[i] = 0

(* The job has its copy of the map.                                        *)
Saving(j) == job[j].pc \in {"save", "clear", "arm"}

(* Some copy of the map, or storage, has the schedule, p ticks before its next *)
(* point of the grid.                                                       *)
Lives(i, p) ==
    /\ p # 0
    /\ store[i].phase = p \/ \E j \in Jobs : Saving(j) /\ job[j].map[i].phase = p

(* The timer is about to run the schedule.                                  *)
Firing(j, i) == Busy(j) /\ job[j].op = "fire" /\ job[j].id = i

(* The start-up is about to make up for a run of it.                         *)
MakesUp(j, i) == Busy(j) /\ job[j].op = "reconcile" /\ i \in job[j].missed

(* The user is creating it.                                                 *)
Creating(j, i) == Busy(j) /\ job[j].op = "create" /\ job[j].id = i

(* The operation sets the next run of the schedule; the others carry a copy.  *)
Sets(j, i) == job[j].op # "patch" /\ (job[j].id = i \/ job[j].op = "reconcile")

(* The next run is over, or it is the next point of the grid.               *)
NextOK(s) == s.next <= 0 \/ s.next = s.phase

(* The next run in an operation's copy, and in storage once it was saved.     *)
CopyOK(j, i) ==
    /\ Saving(j) /\ job[j].map[i].enabled =>
          /\ NextOK(job[j].map[i])
          /\ Sets(j, i) => job[j].map[i].next = job[j].map[i].phase
    /\ job[j].pc \in {"clear", "arm", "late"} /\ Sets(j, i) /\ store[i].enabled =>
          store[i].next = store[i].phase

(* The timer is about to run the schedule, the start-up to make up for one of *)
(* its runs, or the user creates it: in a slot without a run.                *)
TurnOK(j, i) ==
    /\ Firing(j, i) =>
          /\ alarm[i] # 0
          /\ \A p \in 1 .. Period : Lives(i, p) => inSlot[i] = 0
          /\ store[i].enabled => store[i].next = store[i].phase \/ store[i].next >= -Grace
          /\ Saving(j) => job[j].map[i].phase # 0
          /\ \A k \in Jobs : Firing(k, i) => k = j
    /\ MakesUp(j, i) \/ Creating(j, i) =>
          /\ inSlot[i] = 0 /\ alarm[i] # 0
          /\ \A k \in Jobs : ~Firing(k, i)
    /\ Creating(j, i) =>
          /\ \A k \in Jobs : Creating(k, i) => k = j
          /\ job[j].pc = "load" =>
                /\ alarm[i] = Off
                /\ \A p \in 1 .. Period : ~Lives(i, p)
                /\ \A k \in Jobs : ~MakesUp(k, i)

(* A schedule and its slot: the alarm and the next run are of a slot in which  *)
(* no run by alarm has begun, or of the one after it.                        *)
SlotOK(i) ==
    /\ inSlot[i] <= 1
    /\ \A p, q \in 1 .. Period : Lives(i, p) /\ Lives(i, q) => p = q
    /\ \A p \in 1 .. Period : Lives(i, p) =>
          /\ alarm[i] <= p + Grace
          /\ inSlot[i] = 1 => alarm[i] = Off \/ alarm[i] >= p
    /\ store[i].enabled =>
          /\ NextOK(store[i])
          /\ inSlot[i] = 1 => store[i].next = store[i].phase
          /\ alarm[i] # Off => store[i].next = store[i].phase \/ store[i].next >= alarm[i] - Grace
    /\ acked[i] = "none" =>
          /\ inSlot[i] = 0 /\ alarm[i] = Off
          /\ \A p \in 1 .. Period : ~Lives(i, p)
          /\ \A j \in Jobs : job[j].id # i /\ i \notin job[j].todo /\ ~MakesUp(j, i)

(* What is true of a schedule's slot.                                       *)
SlotInv(i) == SlotOK(i) /\ \A j \in Jobs : CopyOK(j, i) /\ TurnOK(j, i)

(* The numbers.                                                             *)
LEMMA SlotTypes ==
    ASSUME SchedulerAssumption, SchedInv, NEW i \in Ids
    PROVE  /\ store[i].phase \in Int /\ store[i].phase >= 0 /\ store[i].phase <= Period
           /\ store[i].next \in Int /\ store[i].next >= Late
           /\ store[i].enabled \in BOOLEAN /\ (store[i].enabled => store[i].phase # 0)
           /\ alarm[i] \in Int /\ alarm[i] >= Off /\ inSlot[i] \in Int /\ inSlot[i] >= 0
           /\ Off = -1 /\ Period \in Int /\ Period >= 1 /\ Grace \in Int /\ Grace >= 0
           /\ Late = -(Grace + 1) /\ CatchUpDelay \in Int /\ CatchUpDelay >= 1
<1>1. Period \in Int /\ Period >= 1 /\ Grace \in Int /\ Grace >= 0 /\ CatchUpDelay \in Int /\ CatchUpDelay >= 1
  BY DEF SchedulerAssumption
<1>2. store[i] \in Schedules \cup {Nil} /\ alarm[i] \in {Off} \cup 0 .. Max({Period, CatchUpDelay}) /\ inSlot[i] \in 0 .. 2
  BY DEF SchedInv, DataOK
<1>3. store[i].enabled \in BOOLEAN /\ store[i].phase \in 0 .. Period /\ store[i].next \in Int
      /\ (store[i].enabled => store[i].phase # 0)
  BY <1>2, EnabledExists
<1>4. store[i].next >= Late
  <2>1. CASE store[i] = Nil
    BY <1>1, <2>1 DEF Nil, Late
  <2>2. CASE store[i] \in Schedules
    <3>1. store[i].next \in Late .. Period
      BY <2>2 DEF Schedules
    <3> QED  BY <1>1, <3>1 DEF Late
  <2> QED  BY <1>2, <2>1, <2>2
<1>5. alarm[i] \in Int /\ alarm[i] >= Off
  BY <1>1, <1>2, AlarmRange DEF Off
<1> QED  BY <1>1, <1>2, <1>3, <1>4, <1>5 DEF Off, Late

(* The copy of an operation.                                                *)
LEMMA CopyTypes ==
    ASSUME SchedulerAssumption, SchedInv, NEW j \in Jobs, NEW i \in Ids
    PROVE  /\ job[j].map[i] \in Schedules \cup {Nil}
           /\ job[j].map[i].enabled \in BOOLEAN
           /\ job[j].map[i].phase \in Int /\ job[j].map[i].next \in Int
           /\ job[j].map[i].enabled => job[j].map[i].phase # 0 /\ job[j].map[i].phase \in 1 .. Period
                                        /\ job[j].map[i].next \in Late .. Period
<1>1. job[j].map[i] \in Schedules \cup {Nil}
  BY DEF SchedInv, JobsOK, Records
<1>2. job[j].map[i].enabled => job[j].map[i] \in Schedules
  BY <1>1, EnabledExists
<1> QED  BY <1>1, <1>2, EnabledExists DEF Schedules, SchedulerAssumption

(* The step of a job for one schedule: what lives does so already, the next    *)
(* run stays or is the next point of the grid, and so is a new alarm.         *)
StoreMoves(i) ==
    store'[i].enabled =>
        NextOK(store'[i]) /\ (store'[i] = store[i] \/ store'[i].next = store'[i].phase)

(* The alarm stays, goes, or is set for the slot.                            *)
AlarmMoves(i) ==
    \/ alarm'[i] = alarm[i] \/ alarm'[i] = Off
    \/ /\ alarm'[i] \in Int /\ alarm'[i] >= 1
       /\ store'[i].enabled => store'[i].next = store'[i].phase
       /\ \A p \in 1 .. Period : Lives(i, p)' =>
            alarm'[i] <= p + Grace /\ (inSlot'[i] = 1 => alarm'[i] >= p)
       /\ acked[i] # "none"
       /\ \A k \in Jobs : Creating(k, i) => job[k].pc # "load"

(* No run begins, or the one that the timer was about to.                     *)
RunMoves(i) ==
    \/ inSlot'[i] = inSlot[i]
    \/ /\ inSlot'[i] = 1 /\ acked'[i] # "none"
       /\ \A k \in Jobs : ~Firing(k, i)' /\ ~MakesUp(k, i)' /\ ~Creating(k, i)'
       /\ store'[i].enabled => store'[i].next = store'[i].phase
       /\ alarm'[i] = Off \/ \A p \in 1 .. Period : Lives(i, p)' => alarm'[i] >= p

(* The job stays what it is for the schedule, or ends.                       *)
TurnMoves(j, i) ==
    /\ Firing(j, i)' => Firing(j, i) /\ (Saving(j)' => job'[j].map[i].phase # 0)
    /\ MakesUp(j, i)' => MakesUp(j, i)
    /\ Creating(j, i)' => Creating(j, i) /\ (job'[j].pc = "load" => job[j].pc = "load")

(* What a job is about to do stays in a slot without a run.                   *)
LEMMA TurnStays ==
    ASSUME SchedulerAssumption, SchedInv, NEW i \in Ids, SlotInv(i), NEW k \in Jobs,
           \A p \in 1 .. Period : Lives(i, p)' => Lives(i, p),
           StoreMoves(i), AlarmMoves(i), RunMoves(i), TurnMoves(k, i),
           \A l \in Jobs : Firing(l, i)' => Firing(l, i),
           \A l \in Jobs : Creating(l, i)' => Creating(l, i) \/ \A m \in Jobs : ~Creating(m, i),
           \A l \in Jobs : MakesUp(l, i)' => MakesUp(l, i) \/ \E p \in 1 .. Period : Lives(i, p)
    PROVE  TurnOK(k, i)'
<1>1. TurnOK(k, i)
  BY DEF SlotInv
<1>2. alarm[i] # 0 => alarm'[i] # 0
  BY SlotTypes DEF AlarmMoves, Off
<1>3. Firing(k, i)' \/ MakesUp(k, i)' \/ Creating(k, i)' => inSlot'[i] = inSlot[i]
  BY DEF RunMoves
<1>4. ASSUME Firing(k, i)'
      PROVE  /\ alarm'[i] # 0
             /\ \A p \in 1 .. Period : Lives(i, p)' => inSlot'[i] = 0
             /\ store'[i].enabled => store'[i].next = store'[i].phase \/ store'[i].next >= -Grace
             /\ Saving(k)' => job'[k].map[i].phase # 0
             /\ \A l \in Jobs : Firing(l, i)' => l = k
  <2>1. Firing(k, i) /\ (Saving(k)' => job'[k].map[i].phase # 0)
    BY <1>4 DEF TurnMoves
  <2>2. store'[i].enabled => store'[i].next = store'[i].phase \/ store'[i].next >= -Grace
    BY <1>1, <2>1 DEF TurnOK, StoreMoves
  <2> QED  BY <1>1, <1>2, <1>3, <1>4, <2>1, <2>2 DEF TurnOK
<1>5. ASSUME MakesUp(k, i)' \/ Creating(k, i)'
      PROVE  inSlot'[i] = 0 /\ alarm'[i] # 0 /\ \A l \in Jobs : ~Firing(l, i)'
  BY <1>1, <1>2, <1>3, <1>5 DEF TurnOK, TurnMoves
<1>6. ASSUME Creating(k, i)'
      PROVE  /\ \A l \in Jobs : Creating(l, i)' => l = k
             /\ job'[k].pc = "load" =>
                   /\ alarm'[i] = Off
                   /\ \A p \in 1 .. Period : ~Lives(i, p)'
                   /\ \A l \in Jobs : ~MakesUp(l, i)'
  <2>1. Creating(k, i) /\ (job'[k].pc = "load" => job[k].pc = "load")
    BY <1>6 DEF TurnMoves
  <2>2. \A l \in Jobs : Creating(l, i)' => l = k
    BY <1>1, <2>1 DEF TurnOK
  <2>3. job'[k].pc = "load" => alarm'[i] = Off
    BY <1>1, <2>1 DEF TurnOK, AlarmMoves
  <2> QED  BY <1>1, <2>1, <2>2, <2>3 DEF TurnOK
<1> QED  BY <1>4, <1>5, <1>6 DEF TurnOK

(* A step that moves one job.                                               *)
LEMMA SlotMoves ==
    ASSUME SchedulerAssumption, SchedInv, NEW i \in Ids, SlotInv(i), NEW j \in Jobs,
           \A k \in Jobs \ {j} : job'[k] = job[k],
           \A p \in 1 .. Period : Lives(i, p)' => Lives(i, p),
           StoreMoves(i), AlarmMoves(i), RunMoves(i),
           Firing(j, i)' => Firing(j, i),
           Creating(j, i)' => Creating(j, i) \/ \A k \in Jobs : ~Creating(k, i),
           MakesUp(j, i)' => MakesUp(j, i) \/ \E p \in 1 .. Period : Lives(i, p),
           acked'[i] = "none" => acked[i] = "none" /\ job'[j].id # i /\ i \notin job'[j].todo,
           CopyOK(j, i)', TurnMoves(j, i) \/ TurnOK(j, i)'
    PROVE  SlotInv(i)'
<1>1. SlotOK(i) /\ \A k \in Jobs : CopyOK(k, i) /\ TurnOK(k, i)
  BY DEF SlotInv
<1>2. ASSUME NEW k \in Jobs, k # j
      PROVE  /\ Firing(k, i)' <=> Firing(k, i)
             /\ MakesUp(k, i)' <=> MakesUp(k, i)
             /\ Creating(k, i)' <=> Creating(k, i)
             /\ Saving(k)' <=> Saving(k)
             /\ Sets(k, i)' <=> Sets(k, i)
             /\ job'[k] = job[k]
  BY <1>2 DEF Firing, MakesUp, Creating, Saving, Sets, Busy
<1>3. ASSUME NEW k \in Jobs PROVE CopyOK(k, i)'
  <2>1. CASE k = j
    BY <2>1
  <2>2. CASE k # j
    BY <1>1, <1>2, <2>2 DEF CopyOK, StoreMoves
  <2> QED  BY <2>1, <2>2
<1>4. ASSUME NEW k \in Jobs PROVE TurnOK(k, i)'
  <2>1. CASE k # j
    <3>1. TurnMoves(k, i)
      BY <1>1, <1>2, <2>1 DEF TurnMoves, TurnOK
    <3>2. /\ \A l \in Jobs : Firing(l, i)' => Firing(l, i)
          /\ \A l \in Jobs : Creating(l, i)' => Creating(l, i) \/ \A m \in Jobs : ~Creating(m, i)
          /\ \A l \in Jobs : MakesUp(l, i)' => MakesUp(l, i) \/ \E p \in 1 .. Period : Lives(i, p)
      BY <1>2
    <3> QED  BY <3>1, <3>2, TurnStays
  <2>2. CASE k = j /\ TurnMoves(j, i)
    <3>2. /\ \A l \in Jobs : Firing(l, i)' => Firing(l, i)
          /\ \A l \in Jobs : Creating(l, i)' => Creating(l, i) \/ \A m \in Jobs : ~Creating(m, i)
          /\ \A l \in Jobs : MakesUp(l, i)' => MakesUp(l, i) \/ \E p \in 1 .. Period : Lives(i, p)
      BY <1>2
    <3> QED  BY <2>2, <3>2, TurnStays
  <2> QED  BY <2>1, <2>2
<1>5. SlotOK(i)'
  <2>1. inSlot'[i] <= 1
    BY <1>1 DEF SlotOK, RunMoves
  <2>2. \A p, q \in 1 .. Period : Lives(i, p)' /\ Lives(i, q)' => p = q
    BY <1>1 DEF SlotOK
  <2>3. ASSUME NEW p \in 1 .. Period, Lives(i, p)'
        PROVE  alarm'[i] <= p + Grace /\ (inSlot'[i] = 1 => alarm'[i] = Off \/ alarm'[i] >= p)
    <3>1. alarm[i] <= p + Grace /\ (inSlot[i] = 1 => alarm[i] = Off \/ alarm[i] >= p)
      BY <1>1, <2>3 DEF SlotOK
    <3>2. Off <= p + Grace
      BY DEF SchedulerAssumption, Off
    <3>3. alarm'[i] <= p + Grace
      BY <2>3, <3>1, <3>2 DEF AlarmMoves
    <3>4. ASSUME inSlot'[i] = 1 PROVE alarm'[i] = Off \/ alarm'[i] >= p
      BY <2>3, <3>1, <3>4 DEF AlarmMoves, RunMoves
    <3> QED  BY <3>3, <3>4
  <2>4. ASSUME store'[i].enabled
        PROVE  /\ NextOK(store'[i])
               /\ inSlot'[i] = 1 => store'[i].next = store'[i].phase
               /\ alarm'[i] # Off => \/ store'[i].next = store'[i].phase
                                     \/ store'[i].next >= alarm'[i] - Grace
    <3>1. NextOK(store'[i]) /\ (store'[i] = store[i] \/ store'[i].next = store'[i].phase)
      BY <2>4 DEF StoreMoves
    <3>2. CASE store'[i].next = store'[i].phase
      BY <3>1, <3>2
    <3>3. CASE store'[i] = store[i] /\ store'[i].next # store'[i].phase
      <4>1. inSlot[i] # 1 /\ (alarm[i] # Off => store[i].next >= alarm[i] - Grace)
        BY <1>1, <2>4, <3>3 DEF SlotOK
      <4> QED  BY <2>4, <3>1, <3>3, <4>1 DEF AlarmMoves, RunMoves
    <3> QED  BY <3>1, <3>2, <3>3
  <2>5. ASSUME acked'[i] = "none"
        PROVE  /\ inSlot'[i] = 0 /\ alarm'[i] = Off
               /\ \A p \in 1 .. Period : ~Lives(i, p)'
               /\ \A k \in Jobs : job'[k].id # i /\ i \notin job'[k].todo /\ ~MakesUp(k, i)'
    <3>1. /\ inSlot[i] = 0 /\ alarm[i] = Off
          /\ \A p \in 1 .. Period : ~Lives(i, p)
          /\ \A k \in Jobs : job[k].id # i /\ i \notin job[k].todo /\ ~MakesUp(k, i)
          /\ acked[i] = "none" /\ job'[j].id # i /\ i \notin job'[j].todo
      BY <1>1, <2>5 DEF SlotOK
    <3>2. alarm'[i] = Off /\ inSlot'[i] = 0
      BY <2>5, <3>1 DEF AlarmMoves, RunMoves
    <3>3. \A k \in Jobs : job'[k].id # i /\ i \notin job'[k].todo /\ ~MakesUp(k, i)'
      BY <1>2, <3>1
    <3> QED  BY <3>1, <3>2, <3>3
  <2> QED  BY <2>1, <2>2, <2>3, <2>4, <2>5 DEF SlotOK
<1> QED  BY <1>3, <1>4, <1>5 DEF SlotInv

(* A job loads the map and changes its copy of the schedule, if at all, to the *)
(* next point of the same grid.                                             *)
LEMMA SlotCopies ==
    ASSUME SchedulerAssumption, SchedInv, NEW i \in Ids, SlotInv(i), NEW j \in Jobs,
           NEW q, job' = [job EXCEPT ![j] = q], job[j].pc = "load",
           q.pc = "save", q.op = job[j].op, q.id = job[j].id,
           UNCHANGED <<store, alarm, acked, inSlot>>,
           q.map[i].phase \in {0, store[i].phase},
           q.map[i].enabled => NextOK(q.map[i]) /\ (Sets(j, i) => q.map[i].next = q.map[i].phase),
           Firing(j, i) => q.map[i].phase # 0,
           MakesUp(j, i)' => store[i].enabled /\ TurnOK(j, i)',
           i \in q.todo => i \in job[j].todo \/ store[i].enabled
    PROVE  SlotInv(i)'
<1>1. job'[j] = q /\ \A k \in Jobs \ {j} : job'[k] = job[k]
  BY OthersStay DEF SchedInv
<1>2. Busy(j) /\ Busy(j)' /\ Saving(j)' /\ ~Saving(j)
  BY <1>1 DEF Busy, Saving
<1>3. \A p \in 1 .. Period : Lives(i, p)' => Lives(i, p)
  <2> SUFFICES ASSUME NEW p \in 1 .. Period, Lives(i, p)' PROVE Lives(i, p)
    OBVIOUS
  <2>1. p # 0
    BY DEF SchedulerAssumption
  <2>2. CASE store[i].phase = p
    BY <2>1, <2>2 DEF Lives
  <2>3. CASE \E k \in Jobs : Saving(k)' /\ job'[k].map[i].phase = p
    <3>1. PICK k \in Jobs : Saving(k)' /\ job'[k].map[i].phase = p
      BY <2>3
    <3>2. CASE k = j
      BY <1>1, <2>1, <3>1, <3>2 DEF Lives
    <3>3. CASE k # j
      BY <1>1, <2>1, <3>1, <3>3 DEF Lives, Saving
    <3> QED  BY <3>2, <3>3
  <2> QED  BY <2>2, <2>3 DEF Lives
<1>4. StoreMoves(i) /\ AlarmMoves(i) /\ RunMoves(i)
  BY DEF StoreMoves, AlarmMoves, RunMoves, SlotInv, SlotOK
<1>5. /\ Firing(j, i)' => Firing(j, i) /\ (Saving(j)' => job'[j].map[i].phase # 0)
      /\ Creating(j, i)' => Creating(j, i) /\ job'[j].pc # "load"
      /\ (job[j].op # "reconcile" => (MakesUp(j, i)' => MakesUp(j, i)))
  BY <1>1, <1>2 DEF Firing, Creating, MakesUp
<1>6. MakesUp(j, i)' => \E p \in 1 .. Period : Lives(i, p)
  <2> SUFFICES ASSUME store[i].enabled PROVE \E p \in 1 .. Period : Lives(i, p)
    OBVIOUS
  <2>1. store[i].phase \in 1 .. Period /\ store[i].phase # 0
    BY SlotTypes
  <2> QED  BY <2>1 DEF Lives
<1>7. CopyOK(j, i)'
  BY <1>1 DEF CopyOK, Sets
<1>8. TurnMoves(j, i) \/ TurnOK(j, i)'
  BY <1>5 DEF TurnMoves
<1>9. acked'[i] = "none" => acked[i] = "none" /\ job'[j].id # i /\ i \notin job'[j].todo
  <2>1. acked[i] = "none" => ~store[i].enabled
    BY SlotTypes DEF SlotInv, SlotOK, Lives
  <2> QED  BY <1>1, <2>1 DEF SlotInv, SlotOK
<1> QED  BY <1>1, <1>3, <1>4, <1>5, <1>6, <1>7, <1>8, <1>9, SlotMoves

(* Nothing of the schedule but the jobs moves, and job j ends, or begins to     *)
(* record a run.                                                            *)
LEMMA SlotLeaves ==
    ASSUME SchedulerAssumption, SchedInv, NEW i \in Ids, SlotInv(i), NEW j \in Jobs,
           NEW q, job' = [job EXCEPT ![j] = q], UNCHANGED <<store, alarm, acked, inSlot>>,
           q.pc = "idle" \/ (q.pc = "load" /\ q.op = "patch"), q.id \in {NoId, job[j].id}, q.todo = {}
    PROVE  SlotInv(i)'
<1>1. job'[j] = q /\ \A k \in Jobs \ {j} : job'[k] = job[k]
  BY OthersStay DEF SchedInv
<1>2. ~Saving(j)' /\ ~Firing(j, i)' /\ ~MakesUp(j, i)' /\ ~Creating(j, i)'
  BY <1>1 DEF Saving, Firing, MakesUp, Creating, Busy
<1>3. \A p \in 1 .. Period : Lives(i, p)' => Lives(i, p)
  BY <1>1, <1>2 DEF Lives, Saving
<1>4. StoreMoves(i) /\ AlarmMoves(i) /\ RunMoves(i)
  BY DEF StoreMoves, AlarmMoves, RunMoves, SlotInv, SlotOK
<1>5. CopyOK(j, i)' /\ TurnMoves(j, i)
  BY <1>1, <1>2 DEF CopyOK, TurnMoves
<1>6. acked'[i] = "none" => acked[i] = "none" /\ job'[j].id # i /\ i \notin job'[j].todo
  BY <1>1 DEF SlotInv, SlotOK, SchedulerAssumption
<1> QED  BY <1>1, <1>2, <1>3, <1>4, <1>5, <1>6, SlotMoves

(* The loads of an operation on one schedule, but that of its creation.       *)
LEMMA SlotLoad ==
    ASSUME SchedulerAssumption, SchedInv, NEW i \in Ids, SlotInv(i), ~Retimed(i), NEW j \in Jobs,
           NotFound(j) \/ LoadForCreate(j) \/ LoadForUpdate(j) \/ LoadForDelete(j)
             \/ LoadForFire(j) \/ LoadForPatch(j),
           job[j].op # "create" \/ job[j].id # i
    PROVE  SlotInv(i)'
<1> DEFINE n == job[j].id
<1>1. /\ job[j].pc = "load" /\ job[j].op # "reconcile" /\ UNCHANGED <<store, alarm, acked, inSlot>>
  BY DEF NotFound, LoadForCreate, LoadForUpdate, LoadForDelete, LoadForFire, LoadForPatch, envVars
<1>2. job[j] \in Records /\ n \in Ids /\ store[i] \in Schedules \cup {Nil} /\ Busy(j)
  BY <1>1 DEF SchedInv, JobsOK, RecordOK, DataOK, Busy
<1>3. store[i] # Nil => store[i].phase # 0
  BY <1>2, EnabledExists
<1>4. CASE NotFound(j)
  <2> DEFINE q == Idle
  <2>1. job' = [job EXCEPT ![j] = q]
    BY <1>4 DEF NotFound
  <2>2. q.pc = "idle" /\ q.id = NoId /\ q.todo = {}
    BY DEF Idle
  <2> HIDE DEF q
  <2> QED  BY <1>1, <2>1, <2>2, SlotLeaves
<1>5. ASSUME NEW m, Save(j, m), n # i => m[i] = store[i],
             n = i => /\ m[i].phase \in {0, store[i].phase}
                      /\ m[i].enabled => NextOK(m[i])
                      /\ job[j].op # "patch" => (m[i].enabled => m[i].next = m[i].phase)
                      /\ job[j].op = "fire" => m[i].phase # 0
      PROVE  SlotInv(i)'
  <2> DEFINE q == [job[j] EXCEPT !.pc = "save", !.map = m]
  <2>1. job' = [job EXCEPT ![j] = q]
    BY <1>5 DEF Save, SchedInv, JobsOK
  <2>2. q.pc = "save" /\ q.map = m /\ q.op = job[j].op /\ q.id = n /\ q.todo = job[j].todo
    BY <1>2 DEF Records
  <2> HIDE DEF q
  <2>3. q.map[i].phase \in {0, store[i].phase}
    BY <1>5, <2>2
  <2>4. q.map[i].enabled => NextOK(q.map[i]) /\ (Sets(j, i) => q.map[i].next = q.map[i].phase)
    BY <1>1, <1>5, <2>2 DEF Sets, SlotInv, SlotOK
  <2>5. Firing(j, i) => q.map[i].phase # 0
    BY <1>5, <2>2 DEF Firing
  <2>6. ~MakesUp(j, i)'
    <3>1. job'[j] = q
      BY <2>1, OthersStay DEF SchedInv
    <3> QED  BY <1>1, <2>2, <3>1 DEF MakesUp
  <2> QED  BY <1>1, <2>1, <2>2, <2>3, <2>4, <2>5, <2>6, SlotCopies
<1>6. ASSUME NEW s PROVE /\ [store EXCEPT ![n] = s][n] = s
                         /\ n # i => [store EXCEPT ![n] = s][i] = store[i]
  BY <1>2 DEF SchedInv, DataOK
<1>7. CASE LoadForCreate(j)
  <2> DEFINE m == [store EXCEPT ![n] = Fresh]
  <2>1. n # i => m[i] = store[i]
    BY <1>6
  <2>2. Save(j, m) /\ job[j].op = "create"
    BY <1>7 DEF LoadForCreate
  <2> HIDE DEF m
  <2> QED  BY <1>5, <2>1, <2>2
<1>8. CASE LoadForUpdate(j)
  <2> DEFINE p == Patched(store[n], job[j].op)
             m == [store EXCEPT ![n] = p]
  <2>1. m[n] = p /\ (n # i => m[i] = store[i])
    BY <1>6
  <2>2. Save(j, m) /\ job[j].op \in {"pause", "resume", "retime"}
    BY <1>8 DEF LoadForUpdate
  <2>3. p.next = p.phase /\ (job[j].op \in {"pause", "resume"} => p.phase = store[n].phase)
    BY DEF Patched
  <2>4. n = i => job[j].op # "retime"
    BY DEF Retimed
  <2> HIDE DEF m, p
  <2> QED  BY <1>5, <2>1, <2>2, <2>3, <2>4 DEF NextOK
<1>9. CASE LoadForDelete(j)
  <2> DEFINE m == [store EXCEPT ![n] = Nil]
  <2>1. m[n] = Nil /\ (n # i => m[i] = store[i])
    BY <1>6
  <2>2. Save(j, m) /\ job[j].op = "delete"
    BY <1>9 DEF LoadForDelete
  <2>3. Nil.phase = 0 /\ ~Nil.enabled
    BY DEF Nil
  <2> HIDE DEF m
  <2> QED  BY <1>5, <2>1, <2>2, <2>3
<1>10. CASE LoadForFire(j)
  <2> DEFINE p == Advanced(store[n])
             m == [store EXCEPT ![n] = p]
  <2>1. m[n] = p /\ (n # i => m[i] = store[i])
    BY <1>6
  <2>2. Save(j, m) /\ job[j].op \in {"fire", "manual"} /\ store[n] # Nil
    BY <1>10 DEF LoadForFire
  <2>3. n = i => p.next = p.phase /\ p.phase = store[i].phase /\ store[i].phase # 0
    BY <1>2, <1>3, <2>2 DEF Advanced, Schedules
  <2> HIDE DEF m, p
  <2> QED  BY <1>5, <2>1, <2>2, <2>3 DEF NextOK
<1>11. CASE LoadForPatch(j)
  <2>1. store[i].enabled => NextOK(store[i])
    BY DEF SlotInv, SlotOK
  <2> QED  BY <1>5, <1>11, <2>1 DEF LoadForPatch
<1> QED  BY <1>4, <1>7, <1>8, <1>9, <1>10, <1>11

(* The load of the creation: nothing of the schedule was there before.        *)
LEMMA SlotCreate ==
    ASSUME SchedulerAssumption, SchedInv, NEW i \in Ids, SlotInv(i), NEW j \in Jobs,
           LoadForCreate(j), job[j].id = i
    PROVE  SlotInv(i)'
<1> DEFINE m == [store EXCEPT ![i] = Fresh]
           q == [job[j] EXCEPT !.pc = "save", !.map = m]
<1>1. /\ job[j] \in Records /\ job[j].pc = "load" /\ job[j].op = "create" /\ Busy(j)
      /\ job' = [job EXCEPT ![j] = q] /\ UNCHANGED <<store, alarm, acked, inSlot>>
  BY DEF LoadForCreate, Save, SchedInv, JobsOK, envVars, Busy
<1>2. q.pc = "save" /\ q.map[i] = Fresh /\ q.op = "create" /\ q.id = i
  BY <1>1 DEF Records, SchedInv, DataOK
<1> HIDE DEF q, m
<1>3. job'[j] = q /\ \A k \in Jobs \ {j} : job'[k] = job[k]
  BY <1>1, OthersStay DEF SchedInv
<1>4. Fresh.phase = Period /\ Fresh.next = Period /\ Period \in Int /\ Period >= 1 /\ Grace \in Int /\ Grace >= 0
  BY DEF Fresh, SchedulerAssumption
<1>5. Creating(j, i) /\ Creating(j, i)' /\ Busy(j)' /\ Saving(j)'
  BY <1>1, <1>2, <1>3 DEF Creating, Busy, Saving
<1>6. /\ inSlot[i] = 0 /\ alarm[i] = Off
      /\ \A p \in 1 .. Period : ~Lives(i, p)
      /\ \A k \in Jobs : ~Firing(k, i) /\ ~MakesUp(k, i) /\ (Creating(k, i) => k = j)
  BY <1>1, <1>5 DEF SlotInv, TurnOK
<1>7. \A k \in Jobs : ~Firing(k, i)' /\ ~MakesUp(k, i)' /\ (Creating(k, i)' => k = j)
  BY <1>2, <1>3, <1>6 DEF Firing, MakesUp, Creating, Busy
<1>8. ~store[i].enabled
  BY <1>6, SlotTypes DEF Lives
<1>9. ASSUME NEW p \in 1 .. Period, Lives(i, p)' PROVE p = Period
  <2>1. store[i].phase # p
    BY <1>4, <1>6 DEF Lives
  <2>2. PICK k \in Jobs : Saving(k)' /\ job'[k].map[i].phase = p
    BY <1>1, <1>9, <2>1 DEF Lives
  <2>3. k = j
    BY <1>3, <1>4, <1>6, <2>2 DEF Lives, Saving
  <2> QED  BY <1>2, <1>3, <1>4, <2>2, <2>3
<1>10. SlotOK(i)'
  <2>1. acked[i] # "none"
    BY <1>1 DEF SlotInv, SlotOK
  <2> QED  BY <1>1, <1>4, <1>6, <1>8, <1>9, <2>1 DEF SlotOK, Off
<1>11. ASSUME NEW k \in Jobs PROVE CopyOK(k, i)' /\ TurnOK(k, i)'
  <2>1. CopyOK(k, i)'
    <3>1. CASE k = j
      BY <1>1, <1>2, <1>3, <1>4, <1>8, <3>1 DEF CopyOK, NextOK
    <3>2. CASE k # j
      BY <1>1, <1>3, <1>8, <3>2 DEF CopyOK, SlotInv, Saving, Sets
    <3> QED  BY <3>1, <3>2
  <2>2. TurnOK(k, i)'
    BY <1>1, <1>2, <1>3, <1>6, <1>7 DEF TurnOK, Off
  <2> QED  BY <2>1, <2>2
<1> QED  BY <1>10, <1>11 DEF SlotInv

(* The load of the start-up: what it is to make up for was not run.           *)
LEMMA SlotLoadAll ==
    ASSUME SchedulerAssumption, SchedInv, NEW i \in Ids, SlotInv(i), NEW j \in Jobs, LoadForReconcile(j)
    PROVE  SlotInv(i)'
<1> DEFINE on == {n \in Ids : store[n].enabled}
           m == [n \in Ids |-> IF n \in on /\ store[n].next <= 0 THEN Advanced(store[n]) ELSE store[n]]
           late == {n \in on \cap CatchUp : store[n].next < -Grace}
           q == [job[j] EXCEPT !.pc = "save", !.map = m, !.todo = on, !.missed = late]
<1>1. /\ job[j] \in Records /\ job[j].pc = "load" /\ job[j].op = "reconcile" /\ Busy(j)
      /\ UNCHANGED <<store, alarm, acked, inSlot>> /\ job' = [job EXCEPT ![j] = q]
  BY DEF LoadForReconcile, SchedInv, JobsOK, envVars, Busy
<1>2. /\ m[i].phase = store[i].phase
      /\ m[i].enabled => NextOK(m[i]) /\ m[i].next = m[i].phase
  <2>1. store[i].enabled => NextOK(store[i])
    BY DEF SlotInv, SlotOK
  <2>2. CASE i \in on /\ store[i].next <= 0
    <3>1. store[i] \in Schedules
      BY <2>2 DEF SchedInv, DataOK, Nil
    <3>2. m[i] = Advanced(store[i])
      BY <2>2
    <3> HIDE DEF m
    <3> QED  BY <3>1, <3>2 DEF Advanced, Schedules, NextOK
  <2>3. CASE ~(i \in on /\ store[i].next <= 0)
    <3>1. m[i] = store[i]
      BY <2>3
    <3> HIDE DEF m
    <3> QED  BY <2>1, <2>3, <3>1 DEF NextOK
  <2> QED  BY <2>2, <2>3
<1>3. q.pc = "save" /\ q.map = m /\ q.op = "reconcile" /\ q.missed = late /\ q.id = job[j].id
      /\ (i \in q.todo => store[i].enabled)
  BY <1>1 DEF Records
<1>4. i \in late => store[i].enabled /\ store[i].next < -Grace
  OBVIOUS
<1> HIDE DEF m, q, late
<1>5. job'[j] = q /\ \A k \in Jobs \ {j} : job'[k] = job[k]
  BY <1>1, OthersStay DEF SchedInv
<1>6. ASSUME MakesUp(j, i)' PROVE store[i].enabled /\ TurnOK(j, i)'
  <2>1. store[i].enabled /\ store[i].next < -Grace
    BY <1>3, <1>4, <1>5, <1>6 DEF MakesUp
  <2>2. store[i].next # store[i].phase /\ alarm[i] \in Int
    BY <2>1, SlotTypes
  <2>3. inSlot[i] = 0
    BY <2>1, <2>2, SlotTypes DEF SlotInv, SlotOK
  <2>4. alarm[i] # 0
    BY <2>1, <2>2, SlotTypes DEF SlotInv, SlotOK
  <2>5. \A k \in Jobs : ~Firing(k, i)
    BY <2>1, <2>2, SlotTypes DEF SlotInv, TurnOK
  <2>6. \A k \in Jobs : ~Firing(k, i)'
    BY <1>1, <1>3, <1>5, <2>5 DEF Firing, Busy
  <2>7. ~Creating(j, i)' /\ ~Firing(j, i)'
    BY <1>3, <1>5 DEF Creating, Firing
  <2> QED  BY <1>1, <2>1, <2>3, <2>4, <2>6, <2>7 DEF TurnOK
<1>7. ~Firing(j, i)
  BY <1>1 DEF Firing
<1> QED  BY <1>1, <1>2, <1>3, <1>6, <1>7, SlotCopies

(* The saved set is in effect: no older entry comes back.                    *)
LEMMA SlotSave ==
    ASSUME SchedulerAssumption, SchedInv, NEW i \in Ids, SlotInv(i), ~BroughtBack(i), NEW j \in Jobs,
           SaveDone(j)
    PROVE  SlotInv(i)'
<1> DEFINE r == job[j]
<1>1. /\ job[j] \in Records /\ RecordOK(job[j]) /\ job[j].pc = "save" /\ Busy(j) /\ Saving(j)
      /\ store' = job[j].map /\ UNCHANGED <<alarm, acked, inSlot>>
  BY DEF SaveDone, SchedInv, JobsOK, envVars, Busy, Saving
<1>2. PICK q :
        /\ job' = [job EXCEPT ![j] = q]
        /\ \/ q = Idle /\ r.op \in {"patch", "reconcile"}
           \/ /\ q.pc = "clear" /\ q.op = r.op /\ q.missed = r.missed /\ q.map = r.map /\ r.op # "patch" /\ q.todo = r.todo
              /\ q.id = r.id \/ (r.op = "reconcile" /\ q.id \in r.todo)
  <2>1. CASE job' = [job EXCEPT ![j] = Idle] /\ r.op \in {"patch", "reconcile"}
    BY <2>1
  <2>2. CASE r.op = "reconcile" /\ \E x \in r.todo : job' = [job EXCEPT ![j].pc = "clear", ![j].id = x]
    <3>1. PICK x \in r.todo : job' = [job EXCEPT ![j].pc = "clear", ![j].id = x]
      BY <2>2
    <3> DEFINE q == [job[j] EXCEPT !.pc = "clear", !.id = x]
    <3>2. job' = [job EXCEPT ![j] = q]
      BY <3>1 DEF SchedInv, JobsOK
    <3>3. q.pc = "clear" /\ q.op = r.op /\ q.missed = r.missed /\ q.map = job[j].map /\ q.id = x /\ q.todo = r.todo
      BY <1>1 DEF Records
    <3> HIDE DEF q
    <3> QED  BY <2>2, <3>1, <3>2, <3>3
  <2>3. CASE r.op \notin {"patch", "reconcile"} /\ job' = [job EXCEPT ![j].pc = "clear"]
    <3> DEFINE q == [job[j] EXCEPT !.pc = "clear"]
    <3>2. job' = [job EXCEPT ![j] = q]
      BY <2>3 DEF SchedInv, JobsOK
    <3>3. q.pc = "clear" /\ q.op = r.op /\ q.missed = r.missed /\ q.map = job[j].map /\ q.id = r.id /\ q.todo = r.todo
      BY <1>1 DEF Records
    <3> HIDE DEF q
    <3> QED  BY <2>3, <3>2, <3>3
  <2> QED  BY <2>1, <2>2, <2>3 DEF SaveDone
<1>3. /\ job'[j] = q /\ (\A k \in Jobs \ {j} : job'[k] = job[k])
      /\ (q = Idle => q.pc = "idle" /\ q.op = "none" /\ q.id = NoId /\ q.todo = {})
  <2>1. job'[j] = q /\ (\A k \in Jobs \ {j} : job'[k] = job[k])
    BY <1>2, OthersStay DEF SchedInv
  <2>2. q = Idle => q.pc = "idle" /\ q.op = "none" /\ q.id = NoId /\ q.todo = {}
    BY DEF Idle
  <2> QED  BY <2>1, <2>2
<1>4. \A p \in 1 .. Period : Lives(i, p)' => Lives(i, p)
  <2> SUFFICES ASSUME NEW p \in 1 .. Period, Lives(i, p)' PROVE Lives(i, p)
    OBVIOUS
  <2>1. p # 0
    BY DEF SchedulerAssumption
  <2>2. CASE store'[i].phase = p
    BY <1>1, <2>1, <2>2 DEF Lives
  <2>3. CASE \E k \in Jobs : Saving(k)' /\ job'[k].map[i].phase = p
    <3>1. PICK k \in Jobs : Saving(k)' /\ job'[k].map[i].phase = p
      BY <2>3
    <3>2. Saving(k) /\ job[k].map[i].phase = p
      BY <1>1, <1>2, <1>3, <3>1 DEF Saving
    <3> QED  BY <2>1, <3>2 DEF Lives
  <2> QED  BY <2>2, <2>3 DEF Lives
<1>5. StoreMoves(i)
  <2> SUFFICES ASSUME store'[i].enabled
               PROVE  NextOK(store'[i]) /\ (store'[i] = store[i] \/ store'[i].next = store'[i].phase)
    BY DEF StoreMoves
  <2>1. NextOK(store'[i])
    BY <1>1 DEF SlotInv, CopyOK
  <2>2. store'[i] = store[i] \/ ~(store'[i].next <= 0)
    BY <1>1 DEF BroughtBack
  <2> QED  BY <2>1, <2>2 DEF NextOK
<1>6. AlarmMoves(i) /\ RunMoves(i)
  BY <1>1 DEF AlarmMoves, RunMoves
<1>7. CopyOK(j, i)'
  <2>1. CASE q.pc = "idle"
    BY <1>3, <2>1 DEF CopyOK, Saving
  <2>2. CASE q.pc = "clear" /\ q.op = r.op /\ q.map = r.map /\ (q.id = r.id \/ r.op = "reconcile")
    <3>1. Sets(j, i)' => Sets(j, i)
      BY <1>3, <2>2 DEF Sets
    <3>2. CopyOK(j, i) /\ job'[j].map = job[j].map
      BY <1>3, <2>2 DEF SlotInv
    <3> QED  BY <1>1, <3>1, <3>2 DEF CopyOK
  <2> QED  BY <1>2, <1>3, <2>1, <2>2
<1>8. TurnMoves(j, i)
  <2>1. TurnOK(j, i)
    BY DEF SlotInv
  <2>2. CASE q.pc = "idle"
    BY <1>3, <2>2 DEF TurnMoves, Firing, MakesUp, Creating, Busy
  <2>3. CASE q.pc = "clear" /\ q.op = r.op /\ q.map = r.map /\ q.missed = r.missed
             /\ (q.id = r.id \/ r.op = "reconcile")
    <3>1. Firing(j, i)' => Firing(j, i) /\ job'[j].map[i].phase # 0
      BY <1>1, <1>3, <2>1, <2>3 DEF Firing, TurnOK
    <3>2. (MakesUp(j, i)' => MakesUp(j, i)) /\ (Creating(j, i)' => Creating(j, i)) /\ job'[j].pc # "load"
      BY <1>1, <1>3, <2>3 DEF MakesUp, Creating
    <3> QED  BY <3>1, <3>2 DEF TurnMoves
  <2> QED  BY <1>2, <1>3, <2>2, <2>3
<1>9. acked'[i] = "none" => acked[i] = "none" /\ job'[j].id # i /\ i \notin job'[j].todo
  <2>1. acked[i] = "none" => job[j].id # i /\ i \notin job[j].todo
    BY DEF SlotInv, SlotOK
  <2> QED  BY <1>1, <1>2, <1>3, <2>1 DEF SchedulerAssumption
<1>10. TurnMoves(j, i) => /\ Firing(j, i)' => Firing(j, i)
                          /\ Creating(j, i)' => Creating(j, i)
                          /\ MakesUp(j, i)' => MakesUp(j, i)
  BY DEF TurnMoves
<1> QED  BY <1>3, <1>4, <1>5, <1>6, <1>7, <1>8, <1>9, <1>10, SlotMoves

(* What follows the alarms of an operation: a run by the timer is the first   *)
(* in its slot.                                                             *)
LEMMA SlotAfterArm ==
    ASSUME SchedulerAssumption, SchedInv, NEW i \in Ids, SlotInv(i), NEW j \in Jobs, AfterArm(j),
           job[j].pc \in {"clear", "arm"}, UNCHANGED store,
           IF job[j].id = i
           THEN \/ alarm'[i] = Off
                \/ Lives(i, alarm'[i]) /\ alarm'[i] \in 1 .. Period
           ELSE alarm'[i] = alarm[i]
    PROVE  SlotInv(i)'
<1> DEFINE r == job[j]
           n == job[j].id
<1>1. /\ job[j] \in Records /\ RecordOK(job[j]) /\ Busy(j) /\ Saving(j) /\ n \in Ids /\ r.op # "patch" /\ r.op # "none"
  BY DEF SchedInv, JobsOK, RecordOK, Busy, Saving
<1>2. PICK q :
        /\ job' = [job EXCEPT ![j] = q]
        /\ \/ q = Idle /\ UNCHANGED inSlot
           \/ /\ q.pc \in {"late", "clear"} /\ q.op = r.op /\ q.missed = r.missed /\ UNCHANGED inSlot
              /\ r.op = "reconcile" /\ q.map = r.map /\ q.todo \subseteq r.todo /\ q.id \in r.todo \cup {n}
           \/ /\ q.pc = "run" /\ q.op = r.op /\ r.op = "manual" /\ UNCHANGED inSlot /\ q.id = n /\ q.todo = r.todo
           \/ /\ q.pc = "run" /\ q.op = r.op /\ r.op = "fire" /\ q.id = n /\ q.todo = r.todo
              /\ inSlot' = [inSlot EXCEPT ![n] = Min({2, @ + 1})]
           \/ q.pc = "load" /\ q.op = "patch" /\ r.op \in {"fire", "manual"} /\ UNCHANGED inSlot /\ q.id = n /\ q.todo = {}
  <2>1. CASE r.op = "reconcile" /\ Armed(j)
    <3> DEFINE rest == r.todo \ {n}
    <3>1. CASE \E x \in rest : job' = [job EXCEPT ![j].pc = "clear", ![j].id = x, ![j].todo = rest]
      <4>1. PICK x \in rest : job' = [job EXCEPT ![j].pc = "clear", ![j].id = x, ![j].todo = rest]
        BY <3>1
      <4> DEFINE q == [job[j] EXCEPT !.pc = "clear", !.id = x, !.todo = rest]
      <4>2. job' = [job EXCEPT ![j] = q]
        BY <4>1 DEF SchedInv, JobsOK
      <4>3. q.pc = "clear" /\ q.op = r.op /\ q.missed = r.missed /\ q.map = r.map /\ q.id = x /\ q.todo = rest
        BY <1>1 DEF Records
      <4> HIDE DEF q
      <4> QED  BY <2>1, <4>2, <4>3 DEF Armed
    <3>2. CASE job' = [job EXCEPT ![j].pc = "late", ![j].todo = {}]
      <4> DEFINE q == [job[j] EXCEPT !.pc = "late", !.todo = {}]
      <4>2. job' = [job EXCEPT ![j] = q]
        BY <3>2 DEF SchedInv, JobsOK
      <4>3. q.pc = "late" /\ q.op = r.op /\ q.missed = r.missed /\ q.id = n /\ q.todo = {} /\ q.map = r.map
        BY <1>1 DEF Records
      <4> HIDE DEF q
      <4> QED  BY <1>1, <2>1, <3>2, <4>2, <4>3 DEF Armed
    <3>3. CASE job' = [job EXCEPT ![j] = Idle]
      BY <2>1, <3>3 DEF Armed
    <3> QED  BY <2>1, <3>1, <3>2, <3>3 DEF Armed
  <2>2. CASE r.op \in {"fire", "manual"} /\ RunOrSkip(j)
    <3>1. CASE job' = [job EXCEPT ![j].pc = "run", ![j].map = NoMap]
               /\ inSlot' = IF r.op = "fire" THEN [inSlot EXCEPT ![n] = Min({2, @ + 1})] ELSE inSlot
      <4> DEFINE q == [job[j] EXCEPT !.pc = "run", !.map = NoMap]
      <4>1. job' = [job EXCEPT ![j] = q]
        BY <3>1 DEF SchedInv, JobsOK
      <4>2. q.pc = "run" /\ q.op = r.op /\ q.id = n /\ q.todo = r.todo
        BY <1>1 DEF Records
      <4> HIDE DEF q
      <4> QED  BY <2>2, <3>1, <4>1, <4>2
    <3>2. CASE job' = [job EXCEPT ![j] = Started("patch", n)] /\ UNCHANGED inSlot
      <4> DEFINE q == Started("patch", n)
      <4>1. q.pc = "load" /\ q.op = "patch" /\ q.id = n /\ q.todo = {}
        <5>1. q.todo = {}
          BY DEF Started, Idle
        <5> QED  BY <1>1, <5>1, StartedOK
      <4>2. job' = [job EXCEPT ![j] = q]
        BY <3>2
      <4> HIDE DEF q
      <4> QED  BY <2>2, <3>2, <4>1, <4>2
    <3> QED  BY <2>2, <3>1, <3>2 DEF RunOrSkip
  <2>3. CASE job' = [job EXCEPT ![j] = Idle] /\ UNCHANGED inSlot
    BY <2>3
  <2> QED  BY <2>1, <2>2, <2>3 DEF AfterArm
<1>3. /\ job'[j] = q /\ (\A k \in Jobs \ {j} : job'[k] = job[k])
      /\ (q = Idle => q.pc = "idle" /\ q.op = "none" /\ q.id = NoId /\ q.todo = {})
  <2>1. job'[j] = q /\ (\A k \in Jobs \ {j} : job'[k] = job[k])
    BY <1>2, OthersStay DEF SchedInv
  <2>2. q = Idle => q.pc = "idle" /\ q.op = "none" /\ q.id = NoId /\ q.todo = {}
    BY DEF Idle
  <2> QED  BY <2>1, <2>2
<1>4. n = i => Sets(j, i) /\ (store[i].enabled => store[i].next = store[i].phase)
  BY <1>1 DEF SlotInv, CopyOK, Sets
<1>5. \A p \in 1 .. Period : Lives(i, p)' => Lives(i, p)
  <2> SUFFICES ASSUME NEW p \in 1 .. Period, Lives(i, p)' PROVE Lives(i, p)
    OBVIOUS
  <2>1. p # 0
    BY DEF SchedulerAssumption
  <2>2. CASE store'[i].phase = p
    BY <2>1, <2>2 DEF Lives
  <2>3. CASE \E k \in Jobs : Saving(k)' /\ job'[k].map[i].phase = p
    <3>1. PICK k \in Jobs : Saving(k)' /\ job'[k].map[i].phase = p
      BY <2>3
    <3>2. CASE k # j
      BY <1>3, <2>1, <3>1, <3>2 DEF Lives, Saving
    <3>3. CASE k = j
      <4>1. q.map = r.map
        BY <1>2, <1>3, <3>1, <3>3 DEF Saving
      <4> QED  BY <1>1, <1>3, <2>1, <3>1, <3>3, <4>1 DEF Lives
    <3> QED  BY <3>2, <3>3
  <2> QED  BY <2>2, <2>3 DEF Lives
<1>6. StoreMoves(i)
  BY DEF StoreMoves, SlotInv, SlotOK
<1>7. TurnMoves(j, i)
  <2>1. ASSUME Firing(j, i)' PROVE FALSE
    BY <1>2, <1>3, <2>1 DEF Firing, Busy
  <2>2. MakesUp(j, i)' => MakesUp(j, i)
    BY <1>1, <1>2, <1>3 DEF MakesUp, Busy
  <2>3. ASSUME Creating(j, i)' PROVE FALSE
    BY <1>2, <1>3, <2>3 DEF Creating, Busy
  <2> QED  BY <2>1, <2>2, <2>3 DEF TurnMoves
<1>8. CopyOK(j, i)'
  <2>1. CASE q.pc \in {"late", "clear"} /\ q.op = r.op /\ r.op = "reconcile" /\ q.map = r.map
    <3>1. Sets(j, i) /\ CopyOK(j, i)
      BY <2>1 DEF Sets, SlotInv
    <3>2. store[i].enabled => store[i].next = store[i].phase
      BY <1>1, <3>1 DEF CopyOK
    <3> QED  BY <1>1, <1>3, <2>1, <3>1, <3>2 DEF CopyOK, Saving
  <2>2. CASE q.pc \in {"idle", "run", "load"}
    BY <1>3, <2>2 DEF CopyOK, Saving
  <2> QED  BY <1>2, <1>3, <2>1, <2>2
<1>9. acked'[i] = "none" => acked[i] = "none" /\ job'[j].id # i /\ i \notin job'[j].todo
  <2>1. acked[i] = "none" => job[j].id # i /\ i \notin job[j].todo
    BY DEF SlotInv, SlotOK
  <2>2. acked'[i] = acked[i] \/ acked'[i] = Told(r.op, acked[i])
    BY <1>1 DEF AfterArm, Armed, RunOrSkip, SchedInv, DataOK
  <2>3. acked'[i] = "none" => acked[i] = "none"
    BY <2>2 DEF Told
  <2>4. acked[i] = "none" => job'[j].id # i /\ i \notin job'[j].todo
    BY <1>2, <1>3, <2>1 DEF SchedulerAssumption
  <2> QED  BY <2>3, <2>4
<1>10. AlarmMoves(i)
  <2> SUFFICES ASSUME n = i, Lives(i, alarm'[i]), alarm'[i] \in 1 .. Period
               PROVE  AlarmMoves(i)
    BY DEF AlarmMoves
  <2>1. \A p \in 1 .. Period : Lives(i, p)' => alarm'[i] = p
    BY <1>5 DEF SlotInv, SlotOK
  <2>2. acked[i] # "none" /\ \A k \in Jobs : Creating(k, i) => job[k].pc # "load"
    BY DEF SlotInv, SlotOK, TurnOK
  <2>3. Period \in Int /\ Grace \in Int /\ Grace >= 0
    BY DEF SchedulerAssumption
  <2> QED  BY <1>4, <2>1, <2>2, <2>3 DEF AlarmMoves
<1>11. RunMoves(i)
  <2>1. CASE inSlot'[i] = inSlot[i]
    BY <2>1 DEF RunMoves
  <2>2. CASE inSlot'[i] # inSlot[i]
    <3>1. q.pc = "run" /\ r.op = "fire" /\ inSlot' = [inSlot EXCEPT ![n] = Min({2, @ + 1})] /\ n = i
      BY <1>1, <1>2, <2>2 DEF SchedInv, DataOK
    <3>2. Firing(j, i) /\ TurnOK(j, i)
      BY <1>1, <3>1 DEF Firing, SlotInv
    <3>3. inSlot[i] = 0
      <4>1. r.map[i].phase # 0
        BY <1>1, <3>2 DEF TurnOK
      <4>2. r.map[i].phase \in 1 .. Period
        <5>1. r.map[i] \in Schedules
          BY <4>1, CopyTypes, EnabledExists
        <5> QED  BY <5>1 DEF Schedules
      <4>3. Lives(i, r.map[i].phase)
        BY <1>1, <4>1 DEF Lives
      <4> HIDE DEF r
      <4> QED  BY <3>2, <4>2, <4>3 DEF TurnOK
    <3>4. inSlot'[i] = 1
      <4>1. inSlot'[i] = Min({2, inSlot[i] + 1})
        BY <3>1 DEF SchedInv, DataOK
      <4>2. inSlot[i] + 1 = 1 /\ 2 \in Int /\ 1 \in Int
        BY <3>3
      <4>3. Min({2, 1}) \in {2, 1} /\ Min({2, 1}) <= 1
        BY <4>2, MinOfTwo
      <4> QED  BY <4>1, <4>2, <4>3
    <3>5. \A k \in Jobs : ~Firing(k, i)' /\ ~MakesUp(k, i)' /\ ~Creating(k, i)'
      <4>1. ~Firing(j, i)' /\ ~MakesUp(j, i)' /\ ~Creating(j, i)'
        BY <1>3, <3>1 DEF Firing, MakesUp, Creating, Busy
      <4>2. ASSUME NEW k \in Jobs, k # j PROVE ~Firing(k, i)' /\ ~MakesUp(k, i)' /\ ~Creating(k, i)'
        <5>1. TurnOK(k, i) /\ job'[k] = job[k]
          BY <1>3, <4>2 DEF SlotInv
        <5>2. ~Firing(k, i)
          BY <3>2, <4>2 DEF TurnOK
        <5>3. ~MakesUp(k, i) /\ ~Creating(k, i)
          BY <3>2, <5>1 DEF TurnOK
        <5> QED  BY <5>1, <5>2, <5>3 DEF Firing, MakesUp, Creating, Busy
      <4> QED  BY <4>1, <4>2
    <3>6. acked'[i] # "none"
      BY <1>9, <3>1 DEF SlotInv, SlotOK
    <3>7. alarm'[i] = Off \/ \A p \in 1 .. Period : Lives(i, p)' => alarm'[i] >= p
      <4> SUFFICES ASSUME Lives(i, alarm'[i]), alarm'[i] \in 1 .. Period, NEW p \in 1 .. Period, Lives(i, p)'
                   PROVE  alarm'[i] >= p
        BY <3>1
      <4>1. alarm'[i] = p
        BY <1>5 DEF SlotInv, SlotOK
      <4> QED  BY <4>1
    <3> QED  BY <1>4, <3>1, <3>4, <3>5, <3>6, <3>7 DEF RunMoves
  <2> QED  BY <2>1, <2>2
<1>12. TurnMoves(j, i) => /\ Firing(j, i)' => Firing(j, i)
                          /\ Creating(j, i)' => Creating(j, i)
                          /\ MakesUp(j, i)' => MakesUp(j, i)
  BY DEF TurnMoves
<1> QED  BY <1>3, <1>5, <1>6, <1>7, <1>8, <1>9, <1>10, <1>11, <1>12, SlotMoves

(* alarms.clear is in effect.                                               *)
LEMMA SlotClear ==
    ASSUME SchedulerAssumption, SchedInv, NEW i \in Ids, SlotInv(i), NEW j \in Jobs, ClearDone(j)
    PROVE  SlotInv(i)'
<1> DEFINE n == job[j].id
<1>1. /\ job[j] \in Records /\ RecordOK(job[j]) /\ job[j].pc = "clear" /\ n \in Ids /\ Busy(j) /\ Saving(j)
      /\ UNCHANGED store /\ alarm' = [alarm EXCEPT ![n] = Off]
  BY DEF ClearDone, SchedInv, JobsOK, RecordOK, Cleared, Busy, Saving
<1>2. IF n = i THEN alarm'[i] = Off ELSE alarm'[i] = alarm[i]
  BY <1>1 DEF SchedInv, DataOK
<1>3. CASE ~job[j].map[n].enabled
  BY <1>1, <1>2, <1>3, SlotAfterArm DEF ClearDone
<1>4. CASE job[j].map[n].enabled
  <2> DEFINE q == [job[j] EXCEPT !.pc = "arm"]
  <2>1. job' = [job EXCEPT ![j] = q] /\ UNCHANGED <<acked, inSlot>>
    BY <1>4 DEF SchedInv, JobsOK, ClearDone
  <2>2. /\ q.pc = "arm" /\ q.op = job[j].op /\ q.id = n /\ q.map = job[j].map
        /\ q.missed = job[j].missed /\ q.todo = job[j].todo
    BY <1>1 DEF Records
  <2> HIDE DEF q
  <2>3. job'[j] = q /\ \A k \in Jobs \ {j} : job'[k] = job[k]
    BY <2>1, OthersStay DEF SchedInv
  <2>4. \A p \in 1 .. Period : Lives(i, p)' => Lives(i, p)
    <3>1. \A k \in Jobs : Saving(k)' => Saving(k) /\ job'[k].map = job[k].map
      BY <1>1, <2>2, <2>3 DEF Saving
    <3> QED  BY <1>1, <3>1 DEF Lives
  <2>5. StoreMoves(i) /\ AlarmMoves(i) /\ RunMoves(i)
    BY <1>1, <1>2, <2>1 DEF StoreMoves, AlarmMoves, RunMoves, SlotInv, SlotOK
  <2>6. CopyOK(j, i)'
    BY <1>1, <2>2, <2>3 DEF CopyOK, Saving, Sets, SlotInv
  <2>7. TurnOK(j, i)
    BY DEF SlotInv
  <2>8. /\ Firing(j, i)' => Firing(j, i) /\ job'[j].map[i].phase # 0
        /\ MakesUp(j, i)' => MakesUp(j, i)
        /\ Creating(j, i)' => Creating(j, i)
        /\ job'[j].pc # "load"
    BY <1>1, <2>2, <2>3, <2>7 DEF Firing, MakesUp, Creating, TurnOK
  <2>9. TurnMoves(j, i)
    BY <2>8 DEF TurnMoves
  <2>10. acked'[i] = "none" => acked[i] = "none" /\ job'[j].id # i /\ i \notin job'[j].todo
    BY <2>1, <2>2, <2>3 DEF SlotInv, SlotOK
  <2> QED  BY <2>3, <2>4, <2>5, <2>6, <2>8, <2>9, <2>10, SlotMoves
<1> QED  BY <1>3, <1>4

(* alarms.create is in effect.                                              *)
LEMMA SlotArm ==
    ASSUME SchedulerAssumption, SchedInv, NEW i \in Ids, SlotInv(i), NEW j \in Jobs, ArmDone(j)
    PROVE  SlotInv(i)'
<1> DEFINE n == job[j].id
           s == job[j].map[n]
<1>1. /\ job[j] \in Records /\ RecordOK(job[j]) /\ job[j].pc = "arm" /\ n \in Ids /\ s.enabled /\ job[j].op # "patch"
      /\ UNCHANGED store /\ AfterArm(j) /\ Saving(j)
      /\ alarm' = [alarm EXCEPT ![n] = Max({1, s.next})]
  BY DEF ArmDone, SchedInv, JobsOK, RecordOK, Saving
<1>2. s.phase \in 1 .. Period /\ s.next \in Late .. Period
  BY <1>1, CopyTypes
<1>3. Max({1, s.next}) = IF s.next >= 1 THEN s.next ELSE 1
  BY <1>2, AlarmRange DEF SchedulerAssumption
<1>4. n # i => alarm'[i] = alarm[i]
  BY <1>1 DEF SchedInv, DataOK
<1>5. n = i => Lives(i, alarm'[i]) /\ alarm'[i] \in 1 .. Period
  <2> SUFFICES ASSUME n = i PROVE Lives(i, alarm'[i]) /\ alarm'[i] \in 1 .. Period
    OBVIOUS
  <2>1. s.next = s.phase
    BY <1>1 DEF SlotInv, CopyOK, Sets
  <2>2. alarm'[i] = Max({1, s.next})
    BY <1>1 DEF SchedInv, DataOK
  <2>3. alarm'[i] = s.phase
    <3> HIDE DEF s
    <3> QED  BY <1>2, <1>3, <2>1, <2>2 DEF SchedulerAssumption
  <2>4. Lives(i, s.phase)
    BY <1>1, <1>2 DEF Lives, SchedulerAssumption
  <2> HIDE DEF s
  <2> QED  BY <1>2, <2>3, <2>4
<1> QED  BY <1>1, <1>4, <1>5, SlotAfterArm

(* The alarm that makes up for a missed run: its slot has had no run.         *)
LEMMA SlotLate ==
    ASSUME SchedulerAssumption, CatchUpDelay <= Grace + 1, SchedInv, NEW i \in Ids, SlotInv(i),
           NEW j \in Jobs, LateDone(j)
    PROVE  SlotInv(i)'
<1> DEFINE r == job[j]
<1>1. /\ job[j] \in Records /\ job[j].pc = "late" /\ r.op = "reconcile" /\ Busy(j)
      /\ UNCHANGED <<store, acked, inSlot>>
  BY DEF LateDone, SchedInv, JobsOK, RecordOK, envVars, Busy
<1>2. PICK x \in r.missed :
        /\ alarm' = [alarm EXCEPT ![x] = CatchUpDelay]
        /\ job' = [job EXCEPT ![j] = IF r.missed = {x} THEN Idle ELSE [r EXCEPT !.missed = r.missed \ {x}]]
  BY DEF LateDone
<1> DEFINE q == IF r.missed = {x} THEN Idle ELSE [r EXCEPT !.missed = r.missed \ {x}]
<1>3. \/ q.pc = "idle" /\ q.op = "none" /\ q.id = NoId /\ q.todo = {}
      \/ /\ q.pc = "late" /\ q.op = "reconcile" /\ q.missed = r.missed \ {x} /\ q.id = r.id
         /\ q.todo = r.todo /\ q.map = r.map
  BY <1>1 DEF Idle, Records
<1>4. job'[j] = q /\ \A k \in Jobs \ {j} : job'[k] = job[k]
  BY <1>2, OthersStay DEF SchedInv
<1> HIDE DEF q
<1>5. x \in Ids
  BY <1>1 DEF Records
<1>6. \A p \in 1 .. Period : Lives(i, p)' => Lives(i, p)
  <2>1. \A k \in Jobs : Saving(k)' => Saving(k) /\ job'[k].map = job[k].map
    BY <1>1, <1>3, <1>4 DEF Saving
  <2> QED  BY <1>1, <2>1 DEF Lives
<1>7. store[i].enabled => store[i].next = store[i].phase
  BY <1>1 DEF SlotInv, CopyOK, Sets
<1>8. StoreMoves(i) /\ RunMoves(i)
  BY <1>1 DEF StoreMoves, RunMoves, SlotInv, SlotOK
<1>9. AlarmMoves(i)
  <2>1. CASE x # i
    BY <1>2, <1>5, <2>1 DEF AlarmMoves, SchedInv, DataOK
  <2>2. CASE x = i
    <3>1. alarm'[i] = CatchUpDelay
      BY <1>2, <2>2 DEF SchedInv, DataOK
    <3>2. MakesUp(j, i)
      BY <1>1, <2>2 DEF MakesUp
    <3>3. inSlot[i] = 0 /\ acked[i] # "none" /\ \A k \in Jobs : Creating(k, i) => job[k].pc # "load"
      BY <3>2 DEF SlotInv, SlotOK, TurnOK
    <3>4. CatchUpDelay \in Int /\ CatchUpDelay >= 1 /\ Grace \in Int
      BY DEF SchedulerAssumption
    <3> QED  BY <1>1, <1>7, <3>1, <3>3, <3>4 DEF AlarmMoves
  <2> QED  BY <2>1, <2>2
<1>10. CopyOK(j, i)'
  BY <1>1, <1>3, <1>4, <1>7 DEF CopyOK, Saving
<1>11. /\ ~Firing(j, i)' /\ ~Creating(j, i)'
       /\ MakesUp(j, i)' => MakesUp(j, i)
  BY <1>1, <1>3, <1>4 DEF Firing, Creating, MakesUp, Busy
<1>12. TurnMoves(j, i)
  BY <1>11 DEF TurnMoves
<1>13. acked'[i] = "none" => acked[i] = "none" /\ job'[j].id # i /\ i \notin job'[j].todo
  BY <1>1, <1>3, <1>4 DEF SlotInv, SlotOK, SchedulerAssumption
<1> QED  BY <1>4, <1>6, <1>8, <1>9, <1>10, <1>11, <1>12, <1>13, SlotMoves

(* A run ends; its record of the run, if any, follows.                     *)
LEMMA SlotRunOver ==
    ASSUME SchedulerAssumption, SchedInv, NEW i \in Ids, SlotInv(i), NEW j \in Jobs,
           RunEnds(j) \/ Disconnect(j)
    PROVE  SlotInv(i)'
<1> DEFINE q == Started("patch", job[j].id)
<1>1. /\ job[j].pc = "run" /\ job[j].id \in Ids /\ job' = [job EXCEPT ![j] = q]
      /\ UNCHANGED <<store, alarm, acked, inSlot>>
  BY DEF RunEnds, Disconnect, SchedInv, JobsOK, RecordOK, envVars
<1>2. q.pc = "load" /\ q.op = "patch" /\ q.id = job[j].id /\ q.todo = {}
  <2>1. q.todo = {}
    BY DEF Started, Idle
  <2> QED  BY <1>1, <2>1, StartedOK
<1> HIDE DEF q
<1> QED  BY <1>1, <1>2, SlotLeaves

(* The user asks for an operation.                                          *)
LEMMA SlotRequest ==
    ASSUME SchedulerAssumption, SchedInv, NEW i \in Ids, SlotInv(i), NEW j \in Jobs,
           NEW op \in UserOps, NEW n \in Ids, Request(j, op, n)
    PROVE  SlotInv(i)'
<1> DEFINE q == Started(op, n)
<1>1. /\ job[j].pc = "idle" /\ job' = [job EXCEPT ![j] = q] /\ UNCHANGED <<store, alarm, inSlot>>
      /\ op = "create" <=> acked[n] = "none" /\ store[n] = Nil
      /\ acked'[n] = (IF op \in {"retime", "manual"} THEN acked[n] ELSE "unknown")
      /\ n # i => acked'[i] = acked[i]
  BY DEF Request, Free, envVars, SchedInv, DataOK
<1>2. op \in {"create", "pause", "resume", "retime", "delete", "manual"}
  BY DEF SchedulerAssumption, Changes
<1>3. q.pc = "load" /\ q.op = op /\ q.id = n /\ q.todo = {} /\ q.missed = {}
  <2>1. q.todo = {} /\ q.missed = {}
    BY DEF Started, Idle
  <2> QED  BY <1>2, <2>1, StartedOK
<1> HIDE DEF q
<1>4. job'[j] = q /\ \A k \in Jobs \ {j} : job'[k] = job[k]
  BY <1>1, OthersStay DEF SchedInv
<1>5. ~Saving(j)' /\ ~Firing(j, i)' /\ ~MakesUp(j, i)' /\ CopyOK(j, i)'
  BY <1>2, <1>3, <1>4 DEF Saving, Firing, MakesUp, CopyOK
<1>6. \A p \in 1 .. Period : Lives(i, p)' => Lives(i, p)
  BY <1>1, <1>4, <1>5 DEF Lives, Saving
<1>7. StoreMoves(i) /\ AlarmMoves(i) /\ RunMoves(i)
  BY <1>1 DEF StoreMoves, AlarmMoves, RunMoves, SlotInv, SlotOK
<1>8. acked'[i] = "none" => acked[i] = "none" /\ job'[j].id # i /\ i \notin job'[j].todo
  <2>1. acked[i] = "none" => store[i] = Nil
    <3>1. store[i].phase = 0 => store[i] = Nil
      BY EnabledExists DEF SchedInv, DataOK
    <3>2. store[i].phase # 0 => store[i].phase \in 1 .. Period
      BY SlotTypes
    <3> QED  BY <3>1, <3>2 DEF SlotInv, SlotOK, Lives
  <2> QED  BY <1>1, <1>3, <1>4, <2>1
<1>9. CASE op # "create" \/ n # i
  <2>1. ~Creating(j, i)'
    BY <1>3, <1>4, <1>9 DEF Creating
  <2>2. TurnMoves(j, i)
    BY <1>5, <2>1 DEF TurnMoves
  <2> QED  BY <1>4, <1>5, <1>6, <1>7, <1>8, <2>1, <2>2, SlotMoves
<1>10. CASE op = "create" /\ n = i
  <2>1. /\ inSlot[i] = 0 /\ alarm[i] = Off
        /\ \A p \in 1 .. Period : ~Lives(i, p)
        /\ \A k \in Jobs : job[k].id # i /\ ~MakesUp(k, i)
    BY <1>1, <1>10 DEF SlotInv, SlotOK
  <2>2. \A k \in Jobs : ~Creating(k, i) /\ ~Firing(k, i)
    BY <2>1 DEF Creating, Firing
  <2>3. \A k \in Jobs : ~Firing(k, i)' /\ ~MakesUp(k, i)' /\ (Creating(k, i)' => k = j)
    BY <1>4, <1>5, <2>1, <2>2 DEF Firing, MakesUp, Creating, Busy
  <2>4. TurnOK(j, i)'
    BY <1>1, <1>6, <2>1, <2>3 DEF TurnOK, Off
  <2> QED  BY <1>4, <1>5, <1>6, <1>7, <1>8, <2>2, <2>4, SlotMoves
<1> QED  BY <1>9, <1>10

(* The start-up begins, an alarm rings, or both.                             *)
LEMMA SlotBegins ==
    ASSUME SchedulerAssumption, SchedInv, NEW i \in Ids, SlotInv(i), NEW j \in Jobs, NEW x,
           \A l \in Jobs :
               \/ job'[l] = job[l]
               \/ /\ job[l].pc = "idle"
                  /\ job'[l].pc = "load" /\ job'[l].todo = {} /\ job'[l].missed = {}
                  /\ \/ job'[l].op = "reconcile" /\ job'[l].id = NoId
                     \/ job'[l].op = "fire" /\ l = j /\ job'[l].id = x,
           UNCHANGED <<store, acked, inSlot>>,
           IF x = i THEN alarm[i] = 0 /\ alarm'[i] = Off ELSE alarm'[i] = alarm[i]
    PROVE  SlotInv(i)'
<1>1. SlotOK(i) /\ \A k \in Jobs : CopyOK(k, i) /\ TurnOK(k, i)
  BY DEF SlotInv
<1>2. ASSUME NEW k \in Jobs
      PROVE  /\ Saving(k)' <=> Saving(k)
             /\ Saving(k) => job'[k] = job[k]
             /\ MakesUp(k, i)' <=> MakesUp(k, i)
             /\ Creating(k, i)' <=> Creating(k, i)
             /\ Creating(k, i) => job'[k] = job[k]
             /\ Firing(k, i) => Firing(k, i)' /\ job'[k] = job[k]
             /\ Firing(k, i)' => Firing(k, i) \/ (k = j /\ x = i /\ ~Saving(k))
  BY DEF Saving, MakesUp, Creating, Firing, Busy, SchedulerAssumption
<1>3. \A p \in 1 .. Period : Lives(i, p)' <=> Lives(i, p)
  BY <1>2 DEF Lives
<1>4. Off = -1 /\ Grace \in Int /\ Grace >= 0 /\ Period \in Int /\ alarm[i] \in Int
  BY SlotTypes
<1>5. SlotOK(i)'
  <2>1. acked[i] = "none" => x # i /\ \A k \in Jobs : job'[k].id # i /\ i \notin job'[k].todo /\ ~MakesUp(k, i)'
    BY <1>1, <1>2, <1>4 DEF SlotOK, SchedulerAssumption
  <2>2. \A p \in 1 .. Period : Lives(i, p)' =>
          alarm'[i] <= p + Grace /\ (inSlot'[i] = 1 => alarm'[i] = Off \/ alarm'[i] >= p)
    BY <1>1, <1>3, <1>4 DEF SlotOK
  <2>3. alarm'[i] = alarm[i] \/ alarm'[i] = Off
    OBVIOUS
  <2> QED  BY <1>1, <1>3, <2>1, <2>2, <2>3 DEF SlotOK
<1>6. ASSUME NEW k \in Jobs PROVE CopyOK(k, i)'
  <2>1. CASE job'[k] = job[k]
    BY <1>1, <2>1 DEF CopyOK, Saving, Sets
  <2>2. CASE job'[k].pc = "load"
    BY <2>2 DEF CopyOK, Saving
  <2> QED  BY <2>1, <2>2
<1>7. ASSUME NEW k \in Jobs PROVE TurnOK(k, i)'
  <2>1. CASE x # i
    <3>1. \A l \in Jobs : Firing(l, i)' <=> Firing(l, i)
      BY <1>2, <2>1
    <3>2. (Firing(k, i) => job'[k] = job[k]) /\ (Creating(k, i) => job'[k] = job[k])
      BY <1>2
    <3>3. /\ \A l \in Jobs : MakesUp(l, i)' <=> MakesUp(l, i)
          /\ \A l \in Jobs : Creating(l, i)' <=> Creating(l, i)
          /\ Saving(k)' <=> Saving(k)
      BY <1>2
    <3> QED  BY <1>1, <1>3, <2>1, <3>1, <3>2, <3>3 DEF TurnOK
  <2>2. CASE x = i
    <3>1. alarm[i] = 0 /\ alarm'[i] = -1
      BY <1>4, <2>2
    <3>2. \A l \in Jobs : ~Firing(l, i) /\ ~MakesUp(l, i) /\ ~Creating(l, i)
      BY <1>1, <3>1 DEF TurnOK
    <3>3. \A l \in Jobs : ~MakesUp(l, i)' /\ ~Creating(l, i)' /\ (Firing(l, i)' => l = j /\ ~Saving(l)')
      BY <1>2, <3>2
    <3>4. \A p \in 1 .. Period : Lives(i, p) => inSlot[i] = 0
      <4> SUFFICES ASSUME NEW p \in 1 .. Period, Lives(i, p) PROVE inSlot[i] = 0
        OBVIOUS
      <4>1. inSlot[i] # 1
        BY <1>1, <1>4, <3>1 DEF SlotOK
      <4>2. inSlot[i] <= 1 /\ inSlot[i] \in Int /\ inSlot[i] >= 0
        BY <1>1, SlotTypes DEF SlotOK
      <4> QED  BY <4>1, <4>2
    <3>5. store[i].enabled => store[i].next = store[i].phase \/ store[i].next >= -Grace
      <4>1. store[i].enabled => store[i].next = store[i].phase \/ store[i].next >= 0 - Grace
        BY <1>1, <1>4, <3>1 DEF SlotOK
      <4> QED  BY <1>4, <4>1
    <3> QED  BY <1>3, <3>1, <3>3, <3>4, <3>5 DEF TurnOK
  <2> QED  BY <2>1, <2>2
<1> QED  BY <1>5, <1>6, <1>7 DEF SlotInv

(* The worker starts for another event, or with the browser.                 *)
LEMMA SlotUp ==
    ASSUME SchedulerAssumption, SchedInv, NEW i \in Ids, SlotInv(i),
           (\E j \in Jobs : Wake(j)) \/ OpenBrowser
    PROVE  SlotInv(i)'
<1>1. PICK j \in Jobs : job' = [job EXCEPT ![j] = Started("reconcile", NoId)]
  BY DEF Wake, OpenBrowser
<1>2. ~awake /\ UNCHANGED <<store, inSlot, acked, alarm>>
  BY DEF Wake, OpenBrowser, SchedInv, AsleepOK
<1> DEFINE q == Started("reconcile", NoId)
<1>3. q.pc = "load" /\ q.op = "reconcile" /\ q.id = NoId /\ q.missed = {} /\ q.todo = {}
  BY StartUpOK DEF Started, Idle
<1>4. job' = [job EXCEPT ![j] = q]
  BY <1>1
<1> HIDE DEF q
<1>5. job'[j] = q /\ \A k \in Jobs \ {j} : job'[k] = job[k]
  BY <1>4, OthersStay DEF SchedInv
<1>6. \A l \in Jobs : job[l].pc = "idle"
  BY <1>2 DEF SchedInv, AsleepOK, Free
<1>7. NoId # i
  BY DEF SchedulerAssumption
<1> QED  BY <1>2, <1>3, <1>5, <1>6, <1>7, SlotBegins

(* An alarm rings.                                                         *)
LEMMA SlotRing ==
    ASSUME SchedulerAssumption, SchedInv, NEW i \in Ids, SlotInv(i), NEW x \in Ids, Ring(x)
    PROVE  SlotInv(i)'
<1>1. PICK j, k \in {j \in Jobs : Free(j)} :
        \/ /\ awake /\ j = k
           /\ job' = [job EXCEPT ![j] = Started("fire", x)]
        \/ /\ ~awake /\ j # k
           /\ job' = [job EXCEPT ![j] = Started("fire", x), ![k] = Started("reconcile", NoId)]
  BY DEF Ring
<1>2. /\ UNCHANGED <<store, acked, inSlot>> /\ alarm[x] = 0
      /\ alarm' = [alarm EXCEPT ![x] = Off]
  BY DEF Ring
<1>3. IF x = i THEN alarm[i] = 0 /\ alarm'[i] = Off ELSE alarm'[i] = alarm[i]
  BY <1>2 DEF SchedInv, DataOK
<1> DEFINE f == Started("fire", x)
           q == Started("reconcile", NoId)
<1>4. /\ f.pc = "load" /\ f.op = "fire" /\ f.id = x /\ f.missed = {} /\ f.todo = {}
      /\ q.pc = "load" /\ q.op = "reconcile" /\ q.id = NoId /\ q.missed = {} /\ q.todo = {}
  <2>1. f.pc = "load" /\ f.op = "fire" /\ f.id = x
    BY StartedOK
  <2>2. f.missed = {} /\ f.todo = {} /\ q.id = NoId
    BY DEF Started, Idle
  <2> QED  BY <2>1, <2>2, StartUpOK
<1>5. \/ job' = [job EXCEPT ![j] = f]
      \/ j # k /\ job' = [job EXCEPT ![j] = f, ![k] = q]
  BY <1>1
<1> HIDE DEF f, q
<1>6. job'[j] = f /\ \A l \in Jobs \ {j} : job'[l] = job[l] \/ (l = k /\ job'[l] = q)
  BY <1>5 DEF SchedInv, JobsOK
<1>7. job[j].pc = "idle" /\ job[k].pc = "idle"
  BY DEF Free
<1>8. \A l \in Jobs :
        \/ job'[l] = job[l]
        \/ /\ job[l].pc = "idle"
           /\ job'[l].pc = "load" /\ job'[l].todo = {} /\ job'[l].missed = {}
           /\ \/ job'[l].op = "reconcile" /\ job'[l].id = NoId
              \/ job'[l].op = "fire" /\ l = j /\ job'[l].id = x
  BY <1>4, <1>6, <1>7
<1> QED  BY <1>2, <1>3, <1>8, SlotBegins

(* The worker or the browser goes.                                          *)
LEMMA SlotStop ==
    ASSUME SchedulerAssumption, SchedInv, NEW i \in Ids, SlotInv(i), Kill \/ CloseBrowser
    PROVE  SlotInv(i)'
<1>1. /\ \A j \in Jobs : job'[j] = Idle
      /\ UNCHANGED <<store, acked, inSlot>>
      /\ alarm'[i] = alarm[i] \/ alarm'[i] = Off
  BY DEF Kill, CloseBrowser, Forget
<1>2. \A j \in Jobs : job'[j].pc = "idle" /\ job'[j].op = "none" /\ job'[j].id = NoId /\ job'[j].todo = {}
  BY <1>1 DEF Idle
<1>3. \A j \in Jobs : ~Saving(j)' /\ ~Firing(j, i)' /\ ~MakesUp(j, i)' /\ ~Creating(j, i)'
  BY <1>2 DEF Saving, Firing, MakesUp, Creating, Busy
<1>4. \A j \in Jobs : CopyOK(j, i)' /\ TurnOK(j, i)'
  BY <1>2, <1>3 DEF CopyOK, TurnOK
<1>5. \A p \in 1 .. Period : Lives(i, p)' => Lives(i, p)
  BY <1>1, <1>3 DEF Lives
<1>6. SlotOK(i)'
  <2>1. SlotOK(i) /\ Off = -1 /\ Grace \in Int /\ Grace >= 0 /\ Period \in Int
    BY SlotTypes DEF SlotInv
  <2>2. \A p \in 1 .. Period : Lives(i, p)' =>
          alarm'[i] <= p + Grace /\ (inSlot'[i] = 1 => alarm'[i] = Off \/ alarm'[i] >= p)
    BY <1>1, <1>5, <2>1 DEF SlotOK
  <2>3. \A j \in Jobs : job'[j].id # i /\ i \notin job'[j].todo /\ ~MakesUp(j, i)'
    BY <1>2, <1>3 DEF SchedulerAssumption
  <2> QED  BY <1>1, <1>5, <2>1, <2>2, <2>3 DEF SlotOK
<1> QED  BY <1>4, <1>6 DEF SlotInv

(* Time passes: the alarm gets nearer as the point of the grid does.          *)
LEMMA SlotTick ==
    ASSUME SchedulerAssumption, SchedInv, NEW i \in Ids, SlotInv(i), ~Overdue(i), Tick
    PROVE  SlotInv(i)'
<1>1. (\A j \in Jobs : ~Busy(j)) /\ UNCHANGED <<open, job, acked>>
  BY DEF Tick
<1>2. \A j \in Jobs : /\ job[j].pc \in {"idle", "run"} /\ ~Saving(j) /\ ~Saving(j)'
                      /\ ~Firing(j, i)' /\ ~MakesUp(j, i)' /\ ~Creating(j, i)'
  BY <1>1 DEF Busy, Saving, Firing, MakesUp, Creating
<1>3. \A j \in Jobs : CopyOK(j, i)' /\ TurnOK(j, i)'
  BY <1>1, <1>2 DEF CopyOK, TurnOK
<1> DEFINE p == store[i].phase
           n == store[i].next
           a == alarm[i]
           c == inSlot[i]
           e == store[i].enabled
           P == store'[i].phase
           N == store'[i].next
           A == alarm'[i]
           C == inSlot'[i]
<1>4. /\ p \in Int /\ p >= 0 /\ p <= Period /\ n \in Int /\ n >= Late
      /\ e \in BOOLEAN /\ (e => p # 0)
      /\ a \in Int /\ a >= -1 /\ c \in Int /\ c >= 0
      /\ Off = -1 /\ Period \in Int /\ Period >= 1 /\ Grace \in Int /\ Grace >= 0 /\ Late = -(Grace + 1)
  BY SlotTypes
<1>5. /\ store'[i].enabled = e
      /\ p = 0 => P = 0 /\ N = 0
      /\ p # 0 => /\ P = (IF p = 1 THEN Period ELSE p - 1)
                  /\ N = (IF n > Late THEN n - 1 ELSE Late)
      /\ A = (IF a > 0 THEN a - 1 ELSE a)
      /\ C = (IF p = 1 THEN 0 ELSE c)
  <2>1. Nil.phase = 0 /\ Nil.next = 0
    BY DEF Nil
  <2> QED  BY <2>1, TickData DEF SchedInv
<1>6. a # 0
  BY DEF Tick, Overdue
<1>7. \A x \in 1 .. Period : (Lives(i, x) <=> x = p) /\ (Lives(i, x)' <=> x = P)
  <2>1. \A x \in 1 .. Period : x # 0
    BY <1>4
  <2> QED  BY <1>2, <2>1 DEF Lives
<1>8. p # 0 => p \in 1 .. Period /\ P \in 1 .. Period
  BY <1>4, <1>5
<1>9. /\ c <= 1
      /\ p # 0 => a <= p + Grace /\ (c = 1 => a = Off \/ a >= p)
      /\ e => /\ n <= 0 \/ n = p
              /\ c = 1 => n = p
              /\ a # Off => n = p \/ n >= a - Grace
      /\ acked[i] = "none" => c = 0 /\ a = Off /\ p = 0
           /\ \A j \in Jobs : job[j].id # i /\ i \notin job[j].todo
  <2>1. SlotOK(i)
    BY DEF SlotInv
  <2> QED  BY <1>7, <1>8, <2>1 DEF SlotOK, NextOK
<1>10. /\ C <= 1
       /\ p # 0 => A <= P + Grace /\ (C = 1 => A = Off \/ A >= P)
       /\ acked[i] = "none" => C = 0 /\ A = Off /\ P = 0
  <2> HIDE DEF p, n, a, c, e, P, N, A, C
  <2> QED  BY <1>4, <1>5, <1>6, <1>9
<1>11. e => /\ N <= 0 \/ N = P
            /\ C = 1 => N = P
            /\ A # Off => N = P \/ N >= A - Grace
  <2> HIDE DEF p, n, a, c, e, P, N, A, C
  <2> SUFFICES ASSUME e PROVE /\ N <= 0 \/ N = P
                              /\ C = 1 => N = P
                              /\ A # Off => N = P \/ N >= A - Grace
    OBVIOUS
  <2>1. CASE n = p /\ p # 1
    BY <1>4, <1>5, <2>1
  <2>2. CASE n = p /\ p = 1
    BY <1>4, <1>5, <1>6, <1>9, <2>2
  <2>3. CASE n # p
    BY <1>4, <1>5, <1>6, <1>9, <2>3
  <2> QED  BY <2>1, <2>2, <2>3
<1>12. SlotOK(i)'
  <2>1. \A x, y \in 1 .. Period : Lives(i, x)' /\ Lives(i, y)' => x = y
    BY <1>7
  <2>2. \A x \in 1 .. Period : Lives(i, x)' =>
          alarm'[i] <= x + Grace /\ (inSlot'[i] = 1 => alarm'[i] = Off \/ alarm'[i] >= x)
    BY <1>4, <1>5, <1>7, <1>10
  <2>3. store'[i].enabled =>
          /\ NextOK(store'[i])
          /\ inSlot'[i] = 1 => store'[i].next = store'[i].phase
          /\ alarm'[i] # Off => store'[i].next = store'[i].phase \/ store'[i].next >= alarm'[i] - Grace
    BY <1>5, <1>11 DEF NextOK
  <2>4. acked'[i] = "none" =>
          /\ inSlot'[i] = 0 /\ alarm'[i] = Off
          /\ \A x \in 1 .. Period : ~Lives(i, x)'
          /\ \A j \in Jobs : job'[j].id # i /\ i \notin job'[j].todo /\ ~MakesUp(j, i)'
    BY <1>1, <1>2, <1>4, <1>7, <1>9, <1>10
  <2> QED  BY <1>10, <2>1, <2>2, <2>3, <2>4 DEF SlotOK
<1> QED  BY <1>3, <1>12 DEF SlotInv

(* Every step.                                                             *)
LEMMA SlotStep ==
    ASSUME SchedulerAssumption, CatchUpDelay <= Grace + 1, SchedInv, NEW i \in Ids, SlotInv(i),
           [Next]_vars, [~BroughtBack(i)]_vars, ~Retimed(i), ~Overdue(i)
    PROVE  SlotInv(i)'
<1>1. CASE UNCHANGED <<store, alarm, job, acked, inSlot>>
  <2>1. \A j \in Jobs : /\ Saving(j)' <=> Saving(j)
                        /\ Sets(j, i)' <=> Sets(j, i)
                        /\ Firing(j, i)' <=> Firing(j, i)
                        /\ MakesUp(j, i)' <=> MakesUp(j, i)
                        /\ Creating(j, i)' <=> Creating(j, i)
    BY <1>1 DEF Saving, Sets, Firing, MakesUp, Creating, Busy
  <2>2. \A p \in 1 .. Period : Lives(i, p)' <=> Lives(i, p)
    BY <1>1, <2>1 DEF Lives
  <2>3. SlotOK(i)'
    BY <1>1, <2>1, <2>2 DEF SlotInv, SlotOK
  <2>4. ASSUME NEW j \in Jobs PROVE CopyOK(j, i)' /\ TurnOK(j, i)'
    <3>1. CopyOK(j, i) /\ TurnOK(j, i)
      BY DEF SlotInv
    <3>2. CopyOK(j, i)'
      BY <1>1, <2>1, <3>1 DEF CopyOK
    <3>3. TurnOK(j, i)'
      BY <1>1, <2>1, <2>2, <3>1 DEF TurnOK
    <3> QED  BY <3>2, <3>3
  <2> QED  BY <2>3, <2>4 DEF SlotInv
<1>2. ASSUME NEW j \in Jobs, SaveDone(j) PROVE SlotInv(i)'
  <2>1. CASE ~BroughtBack(i)
    BY <1>2, <2>1, SlotSave
  <2>2. CASE UNCHANGED vars
    BY <1>1, <2>2 DEF vars
  <2> QED  BY <2>1, <2>2
<1>3. ASSUME NEW j \in Jobs, JobStep(j) PROVE SlotInv(i)'
  <2>1. CASE LoadForCreate(j) /\ job[j].id = i
    BY <2>1, SlotCreate
  <2>2. CASE ~(LoadForCreate(j) /\ job[j].id = i)
    <3>1. NotFound(j) \/ LoadForUpdate(j) \/ LoadForDelete(j) \/ LoadForFire(j) \/ LoadForPatch(j)
            => job[j].op # "create"
      BY DEF NotFound, LoadForUpdate, LoadForDelete, LoadForFire, LoadForPatch
    <3> QED  BY <1>2, <1>3, <2>2, <3>1, SlotLoad, SlotLoadAll, SlotClear, SlotArm, SlotLate DEF JobStep
  <2> QED  BY <2>1, <2>2
<1>4. CASE \E j \in Jobs : RunEnds(j) \/ Disconnect(j)
  BY <1>4, SlotRunOver
<1>5. CASE \E j \in Jobs, op \in UserOps, x \in Ids : Request(j, op, x)
  BY <1>5, SlotRequest
<1>6. CASE (\E j \in Jobs : Wake(j)) \/ OpenBrowser
  BY <1>6, SlotUp
<1>7. CASE \E x \in Ids : Ring(x)
  BY <1>7, SlotRing
<1>8. CASE Kill \/ CloseBrowser
  BY <1>8, SlotStop
<1>9. CASE Tick
  BY <1>9, SlotTick
<1>10. CASE \E x \in Ids : OrphanEnds(x)
  BY <1>1, <1>10 DEF OrphanEnds
<1>11. CASE UNCHANGED vars
  BY <1>1, <1>11 DEF vars
<1> QED  BY <1>3, <1>4, <1>5, <1>6, <1>7, <1>8, <1>9, <1>10, <1>11 DEF Next

(* It holds at the start.                                                   *)
LEMMA SlotInit == ASSUME SchedulerAssumption, NEW i \in Ids, Init PROVE SlotInv(i)
<1>1. \A j \in Jobs : job[j].pc = "idle" /\ job[j].op = "none" /\ job[j].id = NoId /\ job[j].todo = {}
  BY DEF Init, Idle
<1>2. \A j \in Jobs : ~Saving(j) /\ ~Firing(j, i) /\ ~MakesUp(j, i) /\ ~Creating(j, i)
  BY <1>1 DEF Saving, Firing, MakesUp, Creating, Busy
<1>3. \A j \in Jobs : CopyOK(j, i) /\ TurnOK(j, i)
  BY <1>1, <1>2 DEF CopyOK, TurnOK
<1>4. SlotOK(i)
  <2>1. /\ inSlot[i] = 0
        /\ i \in Initial => store[i] = Fresh /\ alarm[i] = Period /\ acked[i] = "enabled"
        /\ i \notin Initial => store[i] = Nil /\ alarm[i] = Off
    BY DEF Init
  <2>2. Fresh.next = Period /\ Fresh.phase = Period /\ Nil.next = 0 /\ Nil.phase = 0 /\ ~Nil.enabled
    BY DEF Fresh, Nil
  <2>3. Period \in Int /\ Period >= 1 /\ Grace \in Int /\ Grace >= 0
    BY DEF SchedulerAssumption
  <2>4. \A j \in Jobs : job[j].id # i
    BY <1>1 DEF SchedulerAssumption
  <2>5. \A p \in 1 .. Period : Lives(i, p) => i \in Initial /\ p = Period
    BY <1>2, <2>1, <2>2, <2>3 DEF Lives
  <2>6. CASE i \in Initial
    BY <2>1, <2>2, <2>3, <2>5, <2>6 DEF SlotOK, NextOK
  <2>7. CASE i \notin Initial
    BY <1>1, <1>2, <2>1, <2>2, <2>4, <2>5, <2>7 DEF SlotOK
  <2> QED  BY <2>6, <2>7
<1> QED  BY <1>3, <1>4 DEF SlotInv

(* One schedule among any others: the timer runs it at most once in a slot     *)
(* (fire, reconcile, saveAll), unless a save brings an older entry of it back, *)
(* it is retimed, or its alarm is due while the browser is closed.             *)
THEOREM OnceForOne ==
    ASSUME SchedulerAssumption, CatchUpDelay <= Grace + 1, NEW i \in Ids
    PROVE  Spec /\ [][~BroughtBack(i)]_vars /\ [](~Retimed(i) /\ ~Overdue(i)) => [](inSlot[i] <= 1)
<1>1. Init => SlotInv(i)
  BY SlotInit
<1>2. SchedInv /\ SlotInv(i) /\ ~Retimed(i) /\ ~Overdue(i) /\ [Next]_vars /\ [~BroughtBack(i)]_vars => SlotInv(i)'
  BY SlotStep
<1>3. SlotInv(i) => inSlot[i] <= 1
  BY DEF SlotInv, SlotOK
<1> QED  BY <1>1, <1>2, <1>3, SchedConsistent, PTL DEF Spec

(* The timer runs a schedule at most once in a slot (fire, reconcileOnStartup:  *)
(* "fires once at the next start-up instead of being replayed"), for any number *)
(* of schedules and of operations of any kind that overlap in any way, whatever *)
(* is killed, closed or made up for, and whether or not alarms outlive the     *)
(* browser, when a run is made up for within the grace: unless saveAll brings   *)
(* back an older, due entry of the schedule, the user retimes it, or its alarm  *)
(* is due while the browser is closed.                                       *)
THEOREM OncePerSlot ==
    ASSUME SchedulerAssumption, CatchUpDelay <= Grace + 1
    PROVE  Spec /\ [][\A i \in Ids : ~BroughtBack(i)]_vars /\ [](\A i \in Ids : ~Retimed(i) /\ ~Overdue(i))
             => []OneRunPerSlot
<1> DEFINE SlotsInv == \A i \in Ids : SlotInv(i)
           InTime == \A i \in Ids : ~Retimed(i) /\ ~Overdue(i)
<1>1. Init => SlotsInv
  BY SlotInit
<1>2. SchedInv /\ SlotsInv /\ InTime /\ [Next]_vars /\ [\A i \in Ids : ~BroughtBack(i)]_vars => SlotsInv'
  <2> SUFFICES ASSUME SchedInv, SlotsInv, InTime, [Next]_vars, [\A i \in Ids : ~BroughtBack(i)]_vars,
                      NEW i \in Ids
               PROVE  SlotInv(i)'
    OBVIOUS
  <2>1. SlotInv(i) /\ ~Retimed(i) /\ ~Overdue(i) /\ [~BroughtBack(i)]_vars
    OBVIOUS
  <2> QED  BY <2>1, SlotStep
<1>3. SlotsInv => OneRunPerSlot
  BY DEF SlotInv, SlotOK, OneRunPerSlot
<1> QED  BY <1>1, <1>2, <1>3, SchedConsistent, PTL DEF Spec

=============================================================================
