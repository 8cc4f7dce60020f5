------------------------------ MODULE Scheduler ------------------------------
(***************************************************************************)
(* Scheduled runs (extension/background/scheduler.js): schedules live in    *)
(* one map under one storage key; every operation loads the map, changes    *)
(* its copy and saves the whole copy, then clears and creates alarms, with  *)
(* an await at each of these calls.  Operations of the user, alarms and the *)
(* start-up reconcile interleave at the awaits.                             *)
(*                                                                         *)
(* Times are relative to now and count ticks; every Tick brings the future  *)
(* one tick nearer.  A schedule is due at the points of a grid ("every",    *)
(* anchored where it was created or retimed; a daily one has such a grid    *)
(* too); phase is the distance to the next point strictly after now, which  *)
(* is what nextFireTime returns.  Storage and alarm calls take no ticks.    *)
(***************************************************************************)
EXTENDS Integers, FiniteSets, FiniteSetsExt

CONSTANTS
    Ids,           \* schedules
    NoId,          \* of a job that works on no schedule, or on all
    Jobs,          \* operations that can be in progress together
    Initial,       \* schedules that exist and are armed at the start
    Scripts,       \* schedules whose run executes in the bridge
    CatchUp,       \* schedules with catchUp on (the default)
    Period,        \* ticks between two points of the grid
    Grace,         \* ticks a run may be late before it counts as missed (60 s)
    CatchUpDelay,  \* ticks from start-up to the catch-up alarm (5 s)
    AlarmsPersist, \* alarms may survive the closing of the browser
    Apart,         \* operations assumed never to overlap another one
    UserOps,       \* what the user does
    MaxStops       \* bound on kills of the worker and closings of the browser

Nil == [enabled |-> FALSE, phase |-> 0, next |-> 0]   \* no such schedule
Off == -1                                               \* no such alarm
Late == -(Grace + 1)        \* "next" of a missed run, however long ago
Changes == {"create", "pause", "resume", "retime", "delete"}

\* What the constants are.
SchedulerAssumption ==
    /\ Period \in Nat \ {0} /\ Grace \in Nat /\ CatchUpDelay \in Nat \ {0}
    /\ NoId \notin Ids /\ Initial \subseteq Ids
    /\ Scripts \subseteq Ids /\ CatchUp \subseteq Ids
    /\ AlarmsPersist \in BOOLEAN
    /\ Apart \subseteq Changes \cup {"manual", "fire", "patch"}
    /\ UserOps \subseteq Changes \cup {"manual"} /\ MaxStops \in Nat

VARIABLES
    store,    \* storage.local["autodom.schedules"]
    alarm,    \* ticks to each schedule's alarm, or Off
    open,     \* the browser runs
    awake,    \* the service worker runs
    job,      \* the operations in progress
    running,  \* the in-memory set of schedules with a run in progress
    orphans,  \* runs the bridge still executes for nobody
    acked,    \* what the user was last told of a schedule
    inSlot,   \* runs by alarm since the last grid point
    stops     \* kills and closings so far

vars == <<store, alarm, open, awake, job, running, orphans, acked, inSlot, stops>>
envVars == <<open, awake, orphans, stops>>

Schedules == [enabled : BOOLEAN, phase : 1 .. Period, next : Late .. Period]
NoMap == [i \in Ids |-> Nil]
Idle == [pc |-> "idle", op |-> "none", id |-> NoId, map |-> NoMap,
         todo |-> {}, missed |-> {}]
Started(op, id) == [Idle EXCEPT !.pc = "load", !.op = op, !.id = id]

Fresh == [enabled |-> TRUE, phase |-> Period, next |-> Period]

Init ==
    /\ store = [i \in Ids |-> IF i \in Initial THEN Fresh ELSE Nil]
    /\ alarm = [i \in Ids |-> IF i \in Initial THEN Period ELSE Off]
    /\ open = TRUE /\ awake = TRUE
    /\ job = [j \in Jobs |-> Idle]
    /\ running = {}
    /\ orphans = [i \in Ids |-> 0]
    /\ acked = [i \in Ids |-> IF i \in Initial THEN "enabled" ELSE "none"]
    /\ inSlot = [i \in Ids |-> 0]
    /\ stops = 0

\* A job between two awaits; a run takes longer than that.
Busy(j) == job[j].pc \notin {"idle", "run"}
Free(j) == job[j].pc = "idle"

\* May op start now?  What is Apart meets no other operation's awaits, except
\* those of the reconcile that starts together with it.
MayStart(op) ==
    \A j \in Jobs : Busy(j) => op \notin Apart /\ job[j].op \notin Apart

-----------------------------------------------------------------------------
(* The awaits of an operation: load, save, alarms.clear, alarms.create.    *)

\* The user creates, changes, deletes or runs a schedule; ids are never
\* used twice.
Request(j, op, i) ==
    /\ awake /\ Free(j) /\ MayStart(op)
    /\ op \in UserOps
    /\ \A k \in Jobs : job[k].id = i => job[k].op \notin Changes
    /\ op = "create" <=> acked[i] = "none" /\ store[i] = Nil
    /\ job' = [job EXCEPT ![j] = Started(op, i)]
    /\ acked' = [acked EXCEPT ![i] = IF op \in {"retime", "manual"} THEN @ ELSE "unknown"]
    /\ UNCHANGED <<store, alarm, running, inSlot, envVars>>

Save(j, map) == job' = [job EXCEPT ![j].pc = "save", ![j].map = map]

\* "Schedule not found", or nothing to patch.
NotFound(j) ==
    /\ job[j].pc = "load" /\ job[j].op \notin {"create", "reconcile"}
    /\ store[job[j].id] = Nil
    /\ job' = [job EXCEPT ![j] = Idle]
    /\ UNCHANGED <<store, alarm, running, acked, inSlot, envVars>>

LoadForCreate(j) ==
    /\ job[j].pc = "load" /\ job[j].op = "create"
    /\ Save(j, [store EXCEPT ![job[j].id] = Fresh])
    /\ UNCHANGED <<store, alarm, running, acked, inSlot, envVars>>

\* normalizeSchedule would look at the patch only, where enabled is missing.
PatchedMutant(s, op) ==
    LET enabled == op # "pause"
        phase   == IF op = "retime" THEN Period ELSE s.phase
    IN  [enabled |-> enabled, phase |-> phase, next |-> phase]

\* The schedule after an update; a new "every" moves the grid to now.
Patched(s, op) ==
    LET enabled == IF op = "retime" THEN s.enabled ELSE op = "resume"
        phase   == IF op = "retime" THEN Period ELSE s.phase
    IN  [enabled |-> enabled, phase |-> phase, next |-> phase]

LoadForUpdate(j) ==
    LET i == job[j].id
    IN  /\ job[j].pc = "load" /\ job[j].op \in {"pause", "resume", "retime"}
        /\ store[i] # Nil
        /\ Save(j, [store EXCEPT ![i] = Patched(@, job[j].op)])
        /\ UNCHANGED <<store, alarm, running, acked, inSlot, envVars>>

LoadForDelete(j) ==
    LET i == job[j].id
    IN  /\ job[j].pc = "load" /\ job[j].op = "delete"
        /\ store[i] # Nil
        /\ Save(j, [store EXCEPT ![i] = Nil])
        /\ UNCHANGED <<store, alarm, running, acked, inSlot, envVars>>

\* fire would leave nextRunAt where it was.
AdvancedMutant(s) == s

\* computeNext from now.
Advanced(s) == [s EXCEPT !.next = s.phase]

LoadForFire(j) ==
    LET i == job[j].id
    IN  /\ job[j].pc = "load" /\ job[j].op \in {"fire", "manual"}
        /\ store[i] # Nil
        /\ Save(j, [store EXCEPT ![i] = Advanced(@)])
        /\ UNCHANGED <<store, alarm, running, acked, inSlot, envVars>>

\* patch loads again: the run took long and the map may have changed.
LoadForPatch(j) ==
    /\ job[j].pc = "load" /\ job[j].op = "patch"
    /\ store[job[j].id] # Nil
    /\ Save(j, store)
    /\ UNCHANGED <<store, alarm, running, acked, inSlot, envVars>>

\* Start-up: the enabled schedules get a next run after now.  A run whose
\* alarm rings in this tick counts as past: it rang some milliseconds ago.
LoadForReconcile(j) ==
    LET on == {i \in Ids : store[i].enabled}
    IN  /\ job[j].pc = "load" /\ job[j].op = "reconcile"
        /\ job' = [job EXCEPT ![j] =
             [@ EXCEPT !.pc = "save",
                       !.map = [i \in Ids |->
                           IF i \in on /\ store[i].next <= 0
                           THEN Advanced(store[i]) ELSE store[i]],
                       !.todo = on,
                       !.missed = {i \in on \cap CatchUp : store[i].next < -Grace}]]
        /\ UNCHANGED <<store, alarm, running, acked, inSlot, envVars>>

\* The set is in effect; what the operation does next.
SaveDone(j) ==
    LET r == job[j]
    IN  /\ r.pc = "save"
        /\ store' = r.map
        /\ \/ /\ r.op = "patch"
              /\ job' = [job EXCEPT ![j] = Idle]
           \/ /\ r.op = "reconcile" /\ r.todo = {}
              /\ job' = [job EXCEPT ![j] = Idle]
           \/ /\ r.op = "reconcile"
              /\ \E i \in r.todo :
                   job' = [job EXCEPT ![j].pc = "clear", ![j].id = i]
           \/ /\ r.op \notin {"patch", "reconcile"}
              /\ job' = [job EXCEPT ![j].pc = "clear"]
        /\ UNCHANGED <<alarm, running, acked, inSlot, envVars>>

\* What the user is told when op has completed.
Told(op, old) ==
    CASE op \in {"create", "resume"} -> "enabled"
      [] op = "pause" -> "paused"
      [] op = "delete" -> "deleted"
      [] OTHER -> old

\* reconcile: the next schedule to arm, then the catch-up alarms, then done.
Armed(j) ==
    LET rest == job[j].todo \ {job[j].id}
    IN  /\ \/ /\ rest # {}
              /\ \E i \in rest :
                   job' = [job EXCEPT ![j].pc = "clear", ![j].id = i, ![j].todo = rest]
           \/ /\ rest = {} /\ job[j].missed # {}
              /\ job' = [job EXCEPT ![j].pc = "late", ![j].todo = {}]
           \/ /\ rest = {} /\ job[j].missed = {}
              /\ job' = [job EXCEPT ![j] = Idle]
        /\ UNCHANGED <<running, acked, inSlot>>

\* fire would not look whether a run is in progress.
MayRunMutant(i) == TRUE

MayRun(i) == i \notin running

\* fire: run, or record that the run was skipped.
RunOrSkip(j) ==
    LET i == job[j].id
    IN  /\ \/ /\ MayRun(i)
              /\ running' = running \cup {i}
              /\ inSlot' = IF job[j].op = "fire"
                           THEN [inSlot EXCEPT ![i] = Min({2, @ + 1})] ELSE inSlot
              /\ job' = [job EXCEPT ![j].pc = "run", ![j].map = NoMap]
           \/ /\ ~MayRun(i)
              /\ job' = [job EXCEPT ![j] = Started("patch", i)]
              /\ UNCHANGED <<running, inSlot>>
        /\ UNCHANGED acked

\* What follows arm().
AfterArm(j) ==
    \/ job[j].op = "reconcile" /\ Armed(j)
    \/ job[j].op \in {"fire", "manual"} /\ RunOrSkip(j)
    \/ /\ job[j].op \in Changes
       /\ acked' = [acked EXCEPT ![job[j].id] = Told(job[j].op, @)]
       /\ job' = [job EXCEPT ![j] = Idle]
       /\ UNCHANGED <<running, inSlot>>

\* arm would keep the alarm of a schedule that is no longer enabled.
ClearedMutant(i) == IF store[i].enabled THEN [alarm EXCEPT ![i] = Off] ELSE alarm

Cleared(i) == [alarm EXCEPT ![i] = Off]

\* alarms.clear is in effect; only an enabled schedule gets a new alarm.
ClearDone(j) ==
    LET i == job[j].id
    IN  /\ job[j].pc = "clear"
        /\ alarm' = Cleared(i)
        /\ IF job[j].map[i].enabled
           THEN /\ job' = [job EXCEPT ![j].pc = "arm"]
                /\ UNCHANGED <<running, acked, inSlot>>
           ELSE AfterArm(j)
        /\ UNCHANGED <<store, envVars>>

\* alarms.create at the next run, or at once when that is past.
ArmDone(j) ==
    LET i == job[j].id
    IN  /\ job[j].pc = "arm"
        /\ alarm' = [alarm EXCEPT ![i] = Max({1, job[j].map[i].next})]
        /\ AfterArm(j)
        /\ UNCHANGED <<store, envVars>>

\* reconcile: the alarm that makes up for a missed run.
LateDone(j) ==
    /\ job[j].pc = "late"
    /\ \E i \in job[j].missed :
         /\ alarm' = [alarm EXCEPT ![i] = CatchUpDelay]
         /\ job' = [job EXCEPT ![j] = IF job[j].missed = {i} THEN Idle
                                      ELSE [job[j] EXCEPT !.missed = @ \ {i}]]
    /\ UNCHANGED <<store, running, acked, inSlot, envVars>>

\* fire would forget the finally.
ReleasedMutant(i) == running

Released(i) == running \ {i}

\* The workflow, script or prompt run settles, and its result is recorded.
RunEnds(j) ==
    /\ job[j].pc = "run" /\ MayStart("patch")
    /\ running' = Released(job[j].id)
    /\ job' = [job EXCEPT ![j] = Started("patch", job[j].id)]
    /\ UNCHANGED <<store, alarm, acked, inSlot, envVars>>

\* The socket to the bridge closes: the wait for a script run ends, the
\* script does not.
Disconnect(j) ==
    /\ job[j].pc = "run" /\ job[j].id \in Scripts /\ MayStart("patch")
    /\ orphans[job[j].id] < 2
    /\ running' = Released(job[j].id)
    /\ orphans' = [orphans EXCEPT ![job[j].id] = @ + 1]
    /\ job' = [job EXCEPT ![j] = Started("patch", job[j].id)]
    /\ UNCHANGED <<store, alarm, open, awake, acked, inSlot, stops>>

OrphanEnds(i) ==
    /\ orphans[i] > 0
    /\ orphans' = [orphans EXCEPT ![i] = @ - 1]
    /\ UNCHANGED <<store, alarm, open, awake, job, running, acked, inSlot, stops>>

-----------------------------------------------------------------------------
(* The browser.                                                            *)

\* An alarm rings: the worker, started for it if need be, calls onAlarm.
\* Starting the worker runs reconcile first.
Ring(i) ==
    /\ open /\ alarm[i] = 0 /\ MayStart("fire")
    /\ alarm' = [alarm EXCEPT ![i] = Off]
    /\ awake' = TRUE
    /\ \E j, k \in {j \in Jobs : Free(j)} :
         \/ /\ awake /\ j = k
            /\ job' = [job EXCEPT ![j] = Started("fire", i)]
         \/ /\ ~awake /\ j # k
            /\ job' = [job EXCEPT ![j] = Started("fire", i),
                                  ![k] = Started("reconcile", NoId)]
    /\ UNCHANGED <<store, open, running, orphans, acked, inSlot, stops>>

\* Any other event starts the worker.
Wake(j) ==
    /\ open /\ ~awake /\ Free(j)
    /\ \A i \in Ids : alarm[i] # 0
    /\ awake' = TRUE
    /\ job' = [job EXCEPT ![j] = Started("reconcile", NoId)]
    /\ UNCHANGED <<store, alarm, open, running, orphans, acked, inSlot, stops>>

\* What is lost with the worker's memory.
Forget ==
    /\ job' = [j \in Jobs |-> Idle]
    /\ running' = {}
    /\ orphans' = [i \in Ids |-> orphans[i] +
          Cardinality({j \in Jobs : job[j].pc = "run" /\ job[j].id = i /\ i \in Scripts})]

\* The worker is killed in the middle of anything.
Kill ==
    /\ awake /\ stops < MaxStops
    /\ awake' = FALSE /\ stops' = stops + 1
    /\ Forget
    /\ UNCHANGED <<store, alarm, open, acked, inSlot>>

CloseBrowser ==
    /\ open /\ stops < MaxStops
    /\ open' = FALSE /\ awake' = FALSE /\ stops' = stops + 1
    /\ Forget
    /\ \/ AlarmsPersist /\ UNCHANGED alarm
       \/ alarm' = [i \in Ids |-> Off]
    /\ UNCHANGED <<store, acked, inSlot>>

OpenBrowser ==
    /\ ~open
    /\ open' = TRUE /\ awake' = TRUE
    /\ \E j \in Jobs : job' = [job EXCEPT ![j] = Started("reconcile", NoId)]
    /\ UNCHANGED <<store, alarm, running, orphans, acked, inSlot, stops>>

\* Time passes; an idle worker may be suspended.  Alarms ring in time while
\* the browser runs.
Tick ==
    /\ \A j \in Jobs : ~Busy(j)
    /\ open => \A i \in Ids : alarm[i] # 0
    /\ store' = [i \in Ids |->
         IF store[i] = Nil THEN Nil
         ELSE [store[i] EXCEPT !.phase = IF @ = 1 THEN Period ELSE @ - 1,
                               !.next = Max({Late, @ - 1})]]
    /\ alarm' = [i \in Ids |-> IF alarm[i] > 0 THEN alarm[i] - 1 ELSE alarm[i]]
    /\ inSlot' = [i \in Ids |-> IF store[i].phase = 1 THEN 0 ELSE inSlot[i]]
    /\ awake' \in IF \A j \in Jobs : Free(j) THEN {awake, FALSE} ELSE {awake}
    /\ UNCHANGED <<open, job, running, orphans, acked, stops>>

JobStep(j) ==
    \/ NotFound(j) \/ LoadForCreate(j) \/ LoadForUpdate(j) \/ LoadForDelete(j)
    \/ LoadForFire(j) \/ LoadForPatch(j) \/ LoadForReconcile(j)
    \/ SaveDone(j) \/ ClearDone(j) \/ ArmDone(j) \/ LateDone(j)

Next ==
    \/ \E j \in Jobs :
         \/ JobStep(j) \/ RunEnds(j) \/ Disconnect(j) \/ Wake(j)
         \/ \E op \in UserOps, i \in Ids : Request(j, op, i)
    \/ \E i \in Ids : Ring(i) \/ OrphanEnds(i)
    \/ Kill \/ CloseBrowser \/ OpenBrowser \/ Tick

Spec == Init /\ [][Next]_vars

(***************************************************************************)
(* Awaits are answered, alarms ring, time passes, runs end, the browser is   *)
(* opened again, and other events (tabs, navigation, the update check) wake  *)
(* the worker.                                                              *)
(***************************************************************************)
Fairness ==
    /\ \A j \in Jobs : WF_vars(JobStep(j)) /\ WF_vars(RunEnds(j))
    /\ \A i \in Ids : WF_vars(Ring(i))
    /\ WF_vars(Tick) /\ WF_vars(OpenBrowser) /\ WF_vars(\E j \in Jobs : Wake(j))

FairSpec == Spec /\ Fairness

-----------------------------------------------------------------------------
(* Properties.                                                             *)

\* Types; the set `running` of the worker names exactly the runs in progress
\* (scheduler.js:235-268).
TypeOK ==
    /\ store \in [Ids -> Schedules \cup {Nil}]
    /\ alarm \in [Ids -> {Off} \cup 0 .. Max({Period, CatchUpDelay})]
    /\ open \in BOOLEAN /\ awake \in BOOLEAN
    /\ job \in [Jobs -> [pc : {"idle", "load", "save", "clear", "arm", "late", "run"},
                         op : Changes \cup {"none", "manual", "fire", "patch", "reconcile"},
                         id : Ids \cup {NoId},
                         map : [Ids -> Schedules \cup {Nil}],
                         todo : SUBSET Ids, missed : SUBSET Ids]]
    /\ running = {job[j].id : j \in {k \in Jobs : job[k].pc = "run"}}
    /\ orphans \in [Ids -> 0 .. 2 + stops]
    /\ acked \in [Ids -> {"none", "unknown", "enabled", "paused", "deleted"}]
    /\ inSlot \in [Ids -> 0 .. 2]
    /\ stops \in 0 .. MaxStops

\* A schedule never runs beside itself, in the worker or in the bridge: "a
\* run is skipped if the previous run of the same schedule is still going"
\* (docs/WORKFLOWS.md:197).
NoOverlap ==
    \A i \in Ids :
        orphans[i] + Cardinality({j \in Jobs : job[j].pc = "run" /\ job[j].id = i}) <= 1

\* The timer runs a schedule at most once per slot, whatever crashes, closes
\* or catches up in between: a missed run "fires once at the next start-up
\* instead of being replayed" (scheduler.js:11-13).
OneRunPerSlot == \A i \in Ids : inSlot[i] <= 1

\* What the user was told stays true until the user changes it: a paused
\* schedule stays paused, a deleted one stays deleted, a created one is kept.
AckedChangeKept ==
    \A i \in Ids :
        /\ acked[i] = "enabled" => store[i].enabled
        /\ acked[i] = "paused" => store[i] # Nil /\ ~store[i].enabled
        /\ acked[i] = "deleted" => store[i] = Nil

\* Whenever the worker is at rest the enabled schedules have an alarm, wherever
\* it was killed before ("a crash mid-run never stops the schedule",
\* scheduler.js:226), and one the user has paused or deleted has none.
ArmedAtRest ==
    open /\ awake /\ (\A j \in Jobs : ~Busy(j))
        => \A i \in Ids :
             /\ store[i].enabled => alarm[i] # Off
             /\ acked[i] \in {"paused", "deleted"} => alarm[i] = Off

\* The user is busy with a schedule: changes it, deletes it or runs it by hand.
Touched(i) == \E j \in Jobs : job[j].id = i /\ job[j].op \in UserOps

\* An enabled schedule that is left alone goes on running by its alarm: no kill
\* of the worker between two awaits leaves it without an alarm, and no run
\* blocks it for good.
KeepsRunning ==
    \A i \in Ids :
        <>[](store[i].enabled /\ ~Touched(i)) =>
            []<>(\E j \in Jobs : /\ job[j].op = "fire" /\ job[j].id = i
                                  /\ job[j].pc = "run")

=============================================================================
