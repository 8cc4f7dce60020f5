------------------------------ MODULE MCParts ------------------------------
(***************************************************************************)
(* Small machines that do not interact, in one run: the rigid variable part *)
(* says which one a behaviour is of, and the others stay as they start.     *)
(***************************************************************************)
EXTENDS Integers, Sequences, FiniteSets, TLC

CONSTANTS
    Workflows, Replays, Healing, Editors, Deleting,  \* WorkflowStore
    Reports, NoList,                                 \* RunHistory
    Calls,                                           \* WorkflowRecorder
    DayLen, ShiftAt, Horizon, Steps,                 \* FireTimes
    Messages, Restarts,                              \* SelfRestart
    Servers, NoProc, Rounds, MaxTries, MaxEnds       \* BridgeElection

VARIABLES
    part,
    wfs, undo, writer, chain,
    disk, cache, loading, timer, writes, sig, events, clear, seen, kills,
    rec, stored, saves, due, worker, early, page, msgs, call, made, draft, heard, lost, recKills,
    gap, spec, from, fire,
    client, inp, out, bridge, took,
    proc, port, lock, ends,
    install, running, ready, kept, task, timers, agent, open, job, told, recent, reloads, hitches

\* Of the first workflow two runs end and it is edited, the second is deleted.
OwnerOf == [x \in {"r1", "r2", "u"} |-> "w1"] @@ [x \in {"r3", "d"} |-> "w2"]

Store == INSTANCE WorkflowStore WITH Of <- OwnerOf, Apart <- TRUE
History == INSTANCE RunHistory WITH Prompt <- TRUE, MaxKills <- 1
Recorder == INSTANCE WorkflowRecorder WITH
                Apart <- TRUE, MaxRecordings <- 2, MaxSteps <- 3, MaxKills <- 2
\* No change of the clock, to summer time and back to winter time.
Fire == INSTANCE FireTimes WITH Gaps <- {0, 1, -1}
Restart == INSTANCE SelfRestart
Election == INSTANCE BridgeElection WITH Procs <- Servers, Overlap <- FALSE
Updates == INSTANCE UpdateFlow WITH MaxAttempts <- 1, Apart <- TRUE, MaxEvents <- 2,
               stored <- kept, msgs <- told, events <- hitches

ASSUME PartsAssumption ==
    /\ Store!WorkflowStoreAssumption /\ History!RunHistoryAssumption
    /\ Recorder!WorkflowRecorderAssumption /\ Fire!FireTimesAssumption
    /\ Restart!SelfRestartAssumption /\ Election!BridgeElectionAssumption
    /\ Updates!UpdateFlowAssumption

storeVars == <<wfs, undo, writer, chain>>
historyVars == <<disk, cache, loading, timer, writes, sig, events, clear, seen, kills>>
recorderVars == <<rec, stored, saves, due, worker, early, page, msgs, call, made, draft, heard, lost, recKills>>
fireVars == <<gap, spec, from, fire>>
restartVars == <<client, inp, out, bridge, took>>
electionVars == <<proc, port, lock, ends>>
updateVars == <<install, running, ready, kept, task, timers, agent, open, job, told, recent, reloads, hitches>>
partVars == <<part, storeVars, historyVars, recorderVars, fireVars, restartVars, electionVars, updateVars>>

\* Updates are off: no task goes on, and there is nothing to get.
NoUpdates ==
    /\ install = [managed |-> TRUE, works |-> TRUE] /\ running = TRUE /\ ready = TRUE
    /\ kept = Updates!Store0 /\ task = [t \in Updates!Tasks |-> [at |-> "off", tries |-> 0]]
    /\ timers = {} /\ agent = "over" /\ open = TRUE /\ job = "off" /\ told = << >>
    /\ recent = Updates!None /\ reloads = 0 /\ hitches = 0

Init ==
    /\ part \in {"store", "history", "recorder", "fire", "restart", "election", "updates"}
    /\ Store!Init /\ History!Init /\ Recorder!Init
    /\ Election!Init
    /\ Restart!Init /\ (part = "restart" \/ client.stateful)
    /\ IF part = "updates" THEN Updates!Init ELSE NoUpdates
    /\ IF part = "fire" THEN Fire!Init ELSE gap = 0 /\ spec = [kind |-> "every", anchor |-> 0, step |-> 1] /\ from = 0 /\ fire = 1

Next ==
    \/ /\ part = "store" /\ Store!Next
       /\ UNCHANGED <<part, historyVars, recorderVars, fireVars, restartVars, electionVars, updateVars>>
    \/ /\ part = "history" /\ History!Next
       /\ UNCHANGED <<part, storeVars, recorderVars, fireVars, restartVars, electionVars, updateVars>>
    \/ /\ part = "recorder" /\ Recorder!Next
       /\ UNCHANGED <<part, storeVars, historyVars, fireVars, restartVars, electionVars, updateVars>>
    \/ /\ part = "fire" /\ Fire!Next
       /\ UNCHANGED <<part, storeVars, historyVars, recorderVars, restartVars, electionVars, updateVars>>
    \/ /\ part = "restart" /\ Restart!Next
       /\ UNCHANGED <<part, storeVars, historyVars, recorderVars, fireVars, electionVars, updateVars>>
    \/ /\ part = "election" /\ Election!Next
       /\ UNCHANGED <<part, storeVars, historyVars, recorderVars, fireVars, restartVars, updateVars>>
    \/ /\ part = "updates" /\ Updates!Next
       /\ UNCHANGED <<part, storeVars, historyVars, recorderVars, fireVars, restartVars, electionVars>>

Spec == Init /\ [][Next]_partVars

\* The Fairness of the three modules that have one, each in its part: nothing of
\* it is enabled in the others.
RestartFair(p) ==
    /\ WF_restartVars(part = "restart" /\ Restart!Serve(p))
    /\ WF_restartVars(part = "restart" /\ Restart!Answer(p))
    /\ WF_restartVars(part = "restart" /\ Restart!Spawn(p))
    /\ WF_restartVars(part = "restart" /\ Restart!RelayIn(p))
    /\ WF_restartVars(part = "restart" /\ Restart!RelayOut(p))

ElectionFair(p) ==
    /\ \A t \in Election!Tasks : WF_electionVars(part = "election" /\ Election!Task(p, t))
    /\ WF_electionVars(part = "election" /\ Election!Connection(p))
    /\ WF_electionVars(part = "election" /\ Election!LinkCloses(p))
    /\ WF_electionVars(part = "election" /\ Election!LockFile(p))
    /\ WF_electionVars(part = "election" /\ Election!Closing(p))
    /\ WF_electionVars(part = "election" /\ Election!Nudge(p) /\ proc'[p].tries = 1)

UpdatesFair ==
    /\ WF_updateVars(part = "updates" /\ Updates!WorkerStep)
    /\ WF_updateVars(part = "updates" /\ Updates!Connect)
    /\ WF_updateVars(part = "updates" /\ (Updates!JobEnds \/ Updates!JobFails))
    /\ WF_updateVars(part = "updates" /\ Updates!BrowserReady)
    /\ WF_updateVars(part = "updates" /\ Updates!RunEnds)
    /\ WF_updateVars(part = "updates" /\ Updates!HalfAnHour)

FairSpec ==
    /\ Spec
    /\ WF_restartVars(part = "restart" /\ Restart!Receive) /\ \A p \in Restart!Procs : RestartFair(p)
    /\ \A p \in Servers : ElectionFair(p)
    /\ UpdatesFair

-----------------------------------------------------------------------------
(* The properties of the parts, stated in their modules.                   *)

\* WorkflowStore: runs are counted once, and no edit is undone by them; and
\* RunHistory: finished runs are in the stored history, cleared ones are not.
StoreKept == Store!TypeOK /\ Store!StoreKept /\ History!TypeOK /\ History!HistoryKept

\* WorkflowStore: every run keeps what it needs to be undone.
UndoKept == Store!UndoKept

\* WorkflowRecorder: no step is lost but with a worker, and the stop is final.
RecordingKept == Recorder!TypeOK /\ Recorder!RecordingKept

\* FireTimes: the next run is the first slot after the moment.
FirstSlotAfter == part = "fire" => Fire!FirstSlotAfter

\* SelfRestart: the client cannot tell that its bridge has been restarted.
SessionKept == Restart!SessionKept

\* BridgeElection: what processes believe to be is true, and in SelfRestart a
\* successor that is not ready has been sent nothing of the client's.
RolesTrue == Election!RolesTrue /\ Restart!TypeOK

\* BridgeElection: in the end all processes have or have joined the primary.
Joined == Election!Joined

\* UpdateFlow: no reload loop, a true status, and the update comes in the end.
UpdatesKept ==
    [](part = "updates" => Updates!TypeOK /\ Updates!ReloadsBounded /\ Updates!StatusTrue) /\ Updates!Updated

=============================================================================
