------------------------- MODULE MCSchedulerProofs -------------------------
(***************************************************************************)
(* What the run of MCScheduler checks of its scenes, proved for any           *)
(* schedules, jobs, periods and graces: a behaviour stays in one scene, and   *)
(* is there one of the scheduler with the constants of the scene, of which    *)
(* SchedulerProofs proves it.                                               *)
(***************************************************************************)
EXTENDS MCScheduler, TLAPS

ChangesProofs == INSTANCE SchedulerProofs WITH
    Initial <- {}, Scripts <- {}, CatchUpDelay <- 1, AlarmsPersist <- FALSE,
    Apart <- Edits, UserOps <- Edits \cup {"manual"}, MaxStops <- 2

SlotsProofs == INSTANCE SchedulerProofs WITH
    Initial <- Ids, Scripts <- Ids, CatchUpDelay <- 2, AlarmsPersist <- FALSE,
    Apart <- Edits \cup {"manual", "patch"}, UserOps <- (Edits \ {"retime"}) \cup {"manual"},
    MaxStops <- 3

-----------------------------------------------------------------------------
(* The scenes.                                                             *)

(* What a kill forgets: the sizes of the two instances are the same.        *)
LEMMA ChangesForget == Changes!Forget <=> ChangesProofs!Forget
<1>1. Changes!Idle = ChangesProofs!Idle
  BY DEF Changes!Idle, ChangesProofs!Idle, Changes!NoMap, ChangesProofs!NoMap, Changes!Nil,
         ChangesProofs!Nil
<1> DEFINE lost(i) == {j \in Jobs : job[j].pc = "run" /\ job[j].id = i /\ i \in {}}
<1>2. ASSUME NEW S PROVE Changes!Cardinality(S) = ChangesProofs!Cardinality(S)
  BY Zenon DEF Changes!Cardinality, ChangesProofs!Cardinality
<1>3. \A i \in Ids : Changes!Cardinality(lost(i)) = ChangesProofs!Cardinality(lost(i))
  BY <1>2
<1>4. [i \in Ids |-> orphans[i] + Changes!Cardinality(lost(i))]
        = [i \in Ids |-> orphans[i] + ChangesProofs!Cardinality(lost(i))]
  <2> HIDE DEF lost
  <2> QED  BY <1>3
<1> QED  BY <1>1, <1>4, Zenon DEF Changes!Forget, ChangesProofs!Forget

(* The instance of the proofs has the definitions of that of the run.        *)
LEMMA ChangesSame ==
    /\ Changes!SchedulerAssumption => ChangesProofs!SchedulerAssumption
    /\ Changes!Init <=> ChangesProofs!Init
    /\ [Changes!Next]_(Changes!vars) <=> [ChangesProofs!Next]_(ChangesProofs!vars)
<1>1. Changes!SchedulerAssumption => ChangesProofs!SchedulerAssumption
  BY DEF Changes!SchedulerAssumption, ChangesProofs!SchedulerAssumption, Changes!Changes,
         ChangesProofs!Changes
<1>2. Changes!Init <=> ChangesProofs!Init
  BY DEF Changes!Init, ChangesProofs!Init, Changes!Nil, ChangesProofs!Nil, Changes!Off,
         ChangesProofs!Off, Changes!NoMap, ChangesProofs!NoMap,
         Changes!Idle, ChangesProofs!Idle, Changes!Fresh, ChangesProofs!Fresh
<1>3. Changes!Next <=> ChangesProofs!Next
  BY ChangesForget DEF Changes!Next, ChangesProofs!Next, Changes!JobStep, ChangesProofs!JobStep,
         Changes!NotFound, ChangesProofs!NotFound, Changes!envVars, ChangesProofs!envVars,
         Changes!LoadForCreate, ChangesProofs!LoadForCreate, Changes!Save,
         ChangesProofs!Save, Changes!LoadForUpdate, ChangesProofs!LoadForUpdate,
         Changes!Patched, ChangesProofs!Patched, Changes!LoadForDelete,
         ChangesProofs!LoadForDelete, Changes!LoadForFire, ChangesProofs!LoadForFire,
         Changes!Advanced, ChangesProofs!Advanced, Changes!LoadForPatch,
         ChangesProofs!LoadForPatch, Changes!LoadForReconcile,
         ChangesProofs!LoadForReconcile, Changes!SaveDone, ChangesProofs!SaveDone,
         Changes!ClearDone, ChangesProofs!ClearDone, Changes!Cleared, ChangesProofs!Cleared,
         Changes!Off, ChangesProofs!Off, Changes!AfterArm, ChangesProofs!AfterArm,
         Changes!Armed, ChangesProofs!Armed, Changes!RunOrSkip, ChangesProofs!RunOrSkip,
         Changes!MayRun, ChangesProofs!MayRun, Changes!Min, ChangesProofs!Min,
         Changes!Changes, ChangesProofs!Changes, Changes!Told, ChangesProofs!Told,
         Changes!ArmDone, ChangesProofs!ArmDone, Changes!Max, ChangesProofs!Max,
         Changes!LateDone, ChangesProofs!LateDone, Changes!RunEnds, ChangesProofs!RunEnds,
         Changes!MayStart, ChangesProofs!MayStart, Changes!Busy, ChangesProofs!Busy,
         Changes!Released, ChangesProofs!Released, Changes!Disconnect,
         ChangesProofs!Disconnect, Changes!Wake, ChangesProofs!Wake, Changes!Free,
         ChangesProofs!Free, Changes!Request, ChangesProofs!Request, Changes!Ring,
         ChangesProofs!Ring, Changes!OrphanEnds, ChangesProofs!OrphanEnds, Changes!Kill,
         ChangesProofs!Kill, Changes!CloseBrowser, ChangesProofs!CloseBrowser,
         Changes!OpenBrowser, ChangesProofs!OpenBrowser, Changes!Tick, ChangesProofs!Tick,
         Changes!Late, ChangesProofs!Late, Changes!Nil, ChangesProofs!Nil, Changes!NoMap,
         ChangesProofs!NoMap, Changes!Idle, ChangesProofs!Idle, Changes!Fresh,
         ChangesProofs!Fresh, Changes!Started, ChangesProofs!Started
<1>4. UNCHANGED Changes!vars <=> UNCHANGED ChangesProofs!vars
  BY DEF Changes!vars, ChangesProofs!vars
<1> QED  BY <1>1, <1>2, <1>3, <1>4

(* A behaviour of the scene is one of the scheduler with its constants.      *)
LEMMA ChangesPart == Spec /\ scene = "changes" => ChangesProofs!Spec /\ [](scene = "changes")
<1>1. Init /\ scene = "changes" => ChangesProofs!Init
  BY ChangesSame DEF Init
<1>2. scene = "changes" /\ [Next]_sceneVars => (scene = "changes")'
  BY DEF Next, sceneVars
<1>3. scene = "changes" /\ [Next]_sceneVars => [ChangesProofs!Next]_(ChangesProofs!vars)
  <2>1. scene = "changes" /\ [Next]_sceneVars => [Changes!Next]_(Changes!vars)
    BY DEF Next, sceneVars, Changes!vars
  <2> QED  BY <2>1, ChangesSame
<1> QED  BY <1>1, <1>2, <1>3, PTL DEF Spec, ChangesProofs!Spec

(* What a kill forgets: the sizes of the two instances are the same.        *)
LEMMA SlotsForget == Slots!Forget <=> SlotsProofs!Forget
<1>1. Slots!Idle = SlotsProofs!Idle
  BY DEF Slots!Idle, SlotsProofs!Idle, Slots!NoMap, SlotsProofs!NoMap, Slots!Nil, SlotsProofs!Nil
<1> DEFINE lost(i) == {j \in Jobs : job[j].pc = "run" /\ job[j].id = i /\ i \in Ids}
<1>2. ASSUME NEW S PROVE Slots!Cardinality(S) = SlotsProofs!Cardinality(S)
  BY Zenon DEF Slots!Cardinality, SlotsProofs!Cardinality
<1>3. \A i \in Ids : Slots!Cardinality(lost(i)) = SlotsProofs!Cardinality(lost(i))
  BY <1>2
<1>4. [i \in Ids |-> orphans[i] + Slots!Cardinality(lost(i))]
        = [i \in Ids |-> orphans[i] + SlotsProofs!Cardinality(lost(i))]
  <2> HIDE DEF lost
  <2> QED  BY <1>3
<1> QED  BY <1>1, <1>4, Zenon DEF Slots!Forget, SlotsProofs!Forget

(* The instance of the proofs has the definitions of that of the run.        *)
LEMMA SlotsSame ==
    /\ Slots!SchedulerAssumption => SlotsProofs!SchedulerAssumption
    /\ Slots!Init <=> SlotsProofs!Init
    /\ [Slots!Next]_(Slots!vars) <=> [SlotsProofs!Next]_(SlotsProofs!vars)
<1>1. Slots!SchedulerAssumption => SlotsProofs!SchedulerAssumption
  BY DEF Slots!SchedulerAssumption, SlotsProofs!SchedulerAssumption, Slots!Changes,
         SlotsProofs!Changes
<1>2. Slots!Init <=> SlotsProofs!Init
  BY DEF Slots!Init, SlotsProofs!Init, Slots!Nil, SlotsProofs!Nil, Slots!Off, SlotsProofs!Off,
         Slots!NoMap, SlotsProofs!NoMap,
         Slots!Idle, SlotsProofs!Idle, Slots!Fresh, SlotsProofs!Fresh
<1>3. Slots!Next <=> SlotsProofs!Next
  BY SlotsForget DEF Slots!Next, SlotsProofs!Next, Slots!JobStep, SlotsProofs!JobStep,
         Slots!NotFound,
         SlotsProofs!NotFound, Slots!envVars, SlotsProofs!envVars, Slots!LoadForCreate,
         SlotsProofs!LoadForCreate, Slots!Save, SlotsProofs!Save, Slots!LoadForUpdate,
         SlotsProofs!LoadForUpdate, Slots!Patched, SlotsProofs!Patched, Slots!LoadForDelete,
         SlotsProofs!LoadForDelete, Slots!LoadForFire, SlotsProofs!LoadForFire,
         Slots!Advanced, SlotsProofs!Advanced, Slots!LoadForPatch, SlotsProofs!LoadForPatch,
         Slots!LoadForReconcile, SlotsProofs!LoadForReconcile, Slots!SaveDone,
         SlotsProofs!SaveDone, Slots!ClearDone, SlotsProofs!ClearDone, Slots!Cleared,
         SlotsProofs!Cleared, Slots!Off, SlotsProofs!Off, Slots!AfterArm,
         SlotsProofs!AfterArm, Slots!Armed, SlotsProofs!Armed, Slots!RunOrSkip,
         SlotsProofs!RunOrSkip, Slots!MayRun, SlotsProofs!MayRun, Slots!Min, SlotsProofs!Min,
         Slots!Changes, SlotsProofs!Changes, Slots!Told, SlotsProofs!Told, Slots!ArmDone,
         SlotsProofs!ArmDone, Slots!Max, SlotsProofs!Max, Slots!LateDone,
         SlotsProofs!LateDone, Slots!RunEnds, SlotsProofs!RunEnds, Slots!MayStart,
         SlotsProofs!MayStart, Slots!Busy, SlotsProofs!Busy, Slots!Released,
         SlotsProofs!Released, Slots!Disconnect, SlotsProofs!Disconnect, Slots!Wake,
         SlotsProofs!Wake, Slots!Free, SlotsProofs!Free, Slots!Request, SlotsProofs!Request,
         Slots!Ring, SlotsProofs!Ring, Slots!OrphanEnds, SlotsProofs!OrphanEnds, Slots!Kill,
         SlotsProofs!Kill, Slots!CloseBrowser, SlotsProofs!CloseBrowser, Slots!OpenBrowser,
         SlotsProofs!OpenBrowser, Slots!Tick, SlotsProofs!Tick, Slots!Late, SlotsProofs!Late,
         Slots!Nil, SlotsProofs!Nil, Slots!NoMap, SlotsProofs!NoMap, Slots!Idle,
         SlotsProofs!Idle, Slots!Fresh, SlotsProofs!Fresh, Slots!Started, SlotsProofs!Started
<1>4. UNCHANGED Slots!vars <=> UNCHANGED SlotsProofs!vars
  BY DEF Slots!vars, SlotsProofs!vars
<1> QED  BY <1>1, <1>2, <1>3, <1>4

(* A behaviour of the scene is one of the scheduler with its constants.      *)
LEMMA SlotsPart == Spec /\ scene = "slots" => SlotsProofs!Spec /\ [](scene = "slots")
<1>1. Init /\ scene = "slots" => SlotsProofs!Init
  BY SlotsSame DEF Init
<1>2. scene = "slots" /\ [Next]_sceneVars => (scene = "slots")'
  BY DEF Next, sceneVars
<1>3. scene = "slots" /\ [Next]_sceneVars => [SlotsProofs!Next]_(SlotsProofs!vars)
  <2>1. scene = "slots" /\ [Next]_sceneVars => [Slots!Next]_(Slots!vars)
    BY DEF Next, sceneVars, Slots!vars
  <2> QED  BY <2>1, SlotsSame
<1> QED  BY <1>1, <1>2, <1>3, PTL DEF Spec, SlotsProofs!Spec

-----------------------------------------------------------------------------
(* The theorems.                                                           *)

(* The user's changes overlap nothing in either scene.                       *)
LEMMA EditsApart == ChangesProofs!ChangesApart /\ SlotsProofs!ChangesApart
BY DEF ChangesProofs!ChangesApart, ChangesProofs!Changes, SlotsProofs!ChangesApart,
       SlotsProofs!Changes, Edits

(* A behaviour is of one of the two scenes.                                 *)
LEMMA TwoScenes == Spec => (scene = "changes" \/ scene = "slots")
BY DEF Spec, Init

(* Runs stay apart (fire, the running set, finally): for any schedules, jobs,  *)
(* periods and kills of the worker, `running` names the runs in progress, and  *)
(* in the scene without runs in the bridge no schedule runs beside itself.     *)
THEOREM RunsApartThere == Spec => []NoOverlap
<1>1. ChangesProofs!Spec => []ChangesProofs!TypeOK /\ []ChangesProofs!NoOverlap
  BY ChangesSame, ScenesAssumption, ChangesProofs!TypesKept, ChangesProofs!RunsApart
<1>2. SlotsProofs!Spec => []SlotsProofs!TypeOK
  BY SlotsSame, ScenesAssumption, SlotsProofs!TypesKept
<1>3. scene = "changes" /\ ChangesProofs!TypeOK /\ ChangesProofs!NoOverlap => NoOverlap
  <2>1. ASSUME NEW S PROVE Changes!Cardinality(S) = ChangesProofs!Cardinality(S)
    BY Zenon DEF Changes!Cardinality, ChangesProofs!Cardinality
  <2>2. ChangesProofs!NoOverlap => Changes!NoOverlap
    BY <2>1 DEF Changes!NoOverlap, ChangesProofs!NoOverlap
  <2>3. ChangesProofs!TypeOK => Changes!TypeOK
    BY DEF Changes!TypeOK, ChangesProofs!TypeOK, Changes!Schedules, ChangesProofs!Schedules,
           Changes!Late, ChangesProofs!Late, Changes!Nil, ChangesProofs!Nil, Changes!Off,
           ChangesProofs!Off, Changes!Max, ChangesProofs!Max, Changes!Changes,
           ChangesProofs!Changes
  <2> QED  BY <2>2, <2>3 DEF NoOverlap
<1>4. scene = "slots" /\ SlotsProofs!TypeOK => NoOverlap
  BY DEF NoOverlap, Slots!TypeOK, SlotsProofs!TypeOK, Slots!Schedules, SlotsProofs!Schedules,
         Slots!Late, SlotsProofs!Late, Slots!Nil, SlotsProofs!Nil, Slots!Off, SlotsProofs!Off,
         Slots!Max, SlotsProofs!Max, Slots!Changes, SlotsProofs!Changes
<1> QED  BY <1>1, <1>2, <1>3, <1>4, ChangesPart, SlotsPart, TwoScenes, PTL

(* What the user was told stays true (create, update, delete, loadAll,         *)
(* saveAll): for any schedules, jobs and faults, when no change of the user     *)
(* overlaps another operation, a schedule that was reported as enabled, paused *)
(* or deleted is stored that way.                                           *)
THEOREM ToldStaysTrueThere == Spec => []AckedChangeKept
<1>1. ChangesProofs!Spec => []ChangesProofs!AckedChangeKept
  BY ChangesSame, ScenesAssumption, EditsApart, ChangesProofs!ToldStaysTrue
<1>2. SlotsProofs!Spec => []SlotsProofs!AckedChangeKept
  BY SlotsSame, ScenesAssumption, EditsApart, SlotsProofs!ToldStaysTrue
<1>3. scene = "changes" /\ ChangesProofs!AckedChangeKept => AckedChangeKept
  BY DEF AckedChangeKept, Changes!AckedChangeKept, ChangesProofs!AckedChangeKept, Changes!Nil,
         ChangesProofs!Nil
<1>4. scene = "slots" /\ SlotsProofs!AckedChangeKept => AckedChangeKept
  BY DEF AckedChangeKept, Slots!AckedChangeKept, SlotsProofs!AckedChangeKept, Slots!Nil,
         SlotsProofs!Nil
<1> QED  BY <1>1, <1>2, <1>3, <1>4, ChangesPart, SlotsPart, TwoScenes, PTL

(* Alarms follow the schedules (armAlarm, clearAlarm, reconcileOnStartup): for  *)
(* any schedules, jobs and faults, whenever nothing is in progress an enabled  *)
(* schedule has its alarm, and one that was paused or deleted has none.        *)
THEOREM AlarmsAtRestThere == Spec => []ArmedAtRest
<1>1. ChangesProofs!Spec => []ChangesProofs!ArmedAtRest
  BY ChangesSame, ScenesAssumption, EditsApart, ChangesProofs!AlarmsAtRest
<1>2. SlotsProofs!Spec => []SlotsProofs!ArmedAtRest
  BY SlotsSame, ScenesAssumption, EditsApart, SlotsProofs!AlarmsAtRest
<1>3. scene = "changes" /\ ChangesProofs!ArmedAtRest => ArmedAtRest
  BY DEF ArmedAtRest, Changes!ArmedAtRest, ChangesProofs!ArmedAtRest, Changes!Off,
         ChangesProofs!Off, Changes!Busy, ChangesProofs!Busy
<1>4. scene = "slots" /\ SlotsProofs!ArmedAtRest => ArmedAtRest
  BY DEF ArmedAtRest, Slots!ArmedAtRest, SlotsProofs!ArmedAtRest, Slots!Off, SlotsProofs!Off,
         Slots!Busy, SlotsProofs!Busy
<1> QED  BY <1>1, <1>2, <1>3, <1>4, ChangesPart, SlotsPart, TwoScenes, PTL

=============================================================================
