---------------------------- MODULE MCScheduler ----------------------------
(***************************************************************************)
(* Two small instances of Scheduler in one run, told apart by the rigid     *)
(* variable scene.  "changes": a schedule is created and changed while runs  *)
(* by alarm, by hand and of the start-up overlap it.  "slots": a schedule    *)
(* that runs in the bridge is left alone for long stretches.                 *)
(***************************************************************************)
EXTENDS Integers, FiniteSets

CONSTANTS Ids, NoId, Jobs, Period, Grace, CatchUp

VARIABLES
    scene, store, alarm, open, awake, job, running, orphans, acked, inSlot, stops

Edits == {"create", "pause", "resume", "retime", "delete"}

Changes == INSTANCE Scheduler WITH
    Initial <- {}, Scripts <- {}, CatchUpDelay <- 1, AlarmsPersist <- FALSE,
    Apart <- Edits, UserOps <- Edits \cup {"manual"}, MaxStops <- 2

Slots == INSTANCE Scheduler WITH
    Initial <- Ids, Scripts <- Ids, CatchUpDelay <- 2, AlarmsPersist <- FALSE,
    Apart <- Edits \cup {"manual", "patch"}, UserOps <- (Edits \ {"retime"}) \cup {"manual"},
    MaxStops <- 3

ASSUME ScenesAssumption == Changes!SchedulerAssumption /\ Slots!SchedulerAssumption

sceneVars == <<scene, store, alarm, open, awake, job, running, orphans, acked, inSlot, stops>>

Init ==
    /\ scene \in {"changes", "slots"}
    /\ IF scene = "changes" THEN Changes!Init ELSE Slots!Init

Next ==
    /\ UNCHANGED scene
    /\ \/ scene = "changes" /\ Changes!Next
       \/ scene = "slots" /\ Slots!Next

Spec == Init /\ [][Next]_sceneVars

\* Of the scene that has a liveness property.
FairSpec == Spec /\ Slots!Fairness

-----------------------------------------------------------------------------
(* The properties, stated in Scheduler.                                    *)

\* `running` names the runs in progress, and a schedule does not run beside
\* itself; one that runs in the bridge does when the worker was killed meanwhile.
NoOverlap == IF scene = "changes" THEN Changes!TypeOK /\ Changes!NoOverlap ELSE Slots!TypeOK

\* What the user was told stays true.
AckedChangeKept == IF scene = "changes" THEN Changes!AckedChangeKept ELSE Slots!AckedChangeKept

\* At rest the enabled schedules have an alarm.
ArmedAtRest == IF scene = "changes" THEN Changes!ArmedAtRest ELSE Slots!ArmedAtRest

\* At most one run by alarm per slot.
OneRunPerSlot == scene = "slots" => Slots!OneRunPerSlot

\* A schedule that is left alone goes on running.
KeepsRunning == scene = "slots" => Slots!KeepsRunning

=============================================================================
