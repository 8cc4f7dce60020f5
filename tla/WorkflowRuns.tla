---------------------------- MODULE WorkflowRuns ----------------------------
(***************************************************************************)
(* Runs of workflows (extension/background/workflow-engine.js): single runs *)
(* and one batch of runs with bounded concurrency, which the user, the agent *)
(* or a takeover of a tab pauses, resumes and cancels at any time.          *)
(*                                                                         *)
(* A run looks at its flags only between two steps; between that look and   *)
(* the step there is an await, unless the digest of the page that the step  *)
(* before has left is at hand.  Every run has a tab of its own.             *)
(***************************************************************************)
EXTENDS Naturals, Sequences, FiniteSets, SequencesExt

CONSTANTS
    NItems,       \* runs of the batch (specs.length)
    Solos,        \* runs that are started by themselves
    NoRun,
    Steps,        \* steps of a workflow
    Concurrency   \* of the batch

Items == 1 .. NItems
Runs == Items \cup Solos

ASSUME WorkflowRunsAssumption ==
    /\ NItems \in Nat \ {0} /\ Steps \in Nat \ {0} /\ Concurrency \in Nat \ {0}
    /\ Solos \cap Items = {} /\ NoRun \notin Runs

VARIABLES
    run,      \* every run: where it is, its report, its flags and its tab
    runs,     \* the ids in the map of live runs, in the order they were added
    current,  \* currentRunId
    item,     \* status of the entries of the batch
    batch     \* the batch

vars == <<run, runs, current, item, batch>>

Stages == {"idle", "find", "digest", "act", "paused", "shot", "persist", "closing", "over"}
Outcomes == {"passed", "failed", "cancelled"}

Init ==
    /\ run = [r \in Runs |-> [at |-> "idle", status |-> "none", step |-> 0, cancel |-> FALSE,
                              paused |-> FALSE, tab |-> "none", late |-> 0]]
    /\ runs = <<>> /\ current = NoRun
    /\ item = [i \in Items |-> "queued"]
    /\ batch = [st |-> "none", next |-> 1, cancel |-> FALSE]

Live == ToSet(runs)
Running(r) == run[r].status = "running"
Busy(r) == run[r].at \notin {"idle", "over"}

-----------------------------------------------------------------------------
(* The loop over the steps: what happens with a run from one await to the   *)
(* next; x is the run's record.                                            *)

\* The final status; the flags are not read any more.
Finish(x, status) == [x EXCEPT !.at = "persist", !.status = status, !.step = 0,
                               !.cancel = FALSE, !.paused = FALSE, !.late = 0]

\* late counts the steps a run starts after it was told to pause or to stop.
Act(x) == [x EXCEPT !.at = "act", !.late = IF x.cancel \/ x.paused THEN @ + 1 ELSE @]

\* The flags would be looked at after the step only when the run was paused.
StepMutant(x, carried) ==
    IF x.tab = "closed" THEN Finish(x, "failed")
    ELSE IF carried THEN Act(x) ELSE [x EXCEPT !.at = "digest"]

\* A run that is told to pause or to stop does not start its next step.
Step(x, carried) ==
    IF x.cancel THEN Finish(x, "cancelled")
    ELSE IF x.tab = "closed" THEN Finish(x, "failed")
    ELSE IF carried THEN Act(x)
    ELSE [x EXCEPT !.at = "digest"]

Top(x, carried) ==
    IF x.step = Steps THEN Finish(x, "passed")
    ELSE IF x.paused /\ ~x.cancel THEN [x EXCEPT !.at = "paused"]
    ELSE Step(x, carried)

\* The run goes on as y.
Continue(r, y) ==
    /\ run' = [run EXCEPT ![r] = y]
    /\ UNCHANGED <<runs, current, item, batch>>

\* The digest of the page before the step has come.
Digested(r) == run[r].at = "digest" /\ Continue(r, Act(run[r]))

\* A step that passed, was skipped or is optional; its digest may have failed.
StepDone(r) ==
    /\ run[r].at = "act"
    /\ \E carried \in BOOLEAN : Continue(r, Top([run[r] EXCEPT !.step = @ + 1], carried))

\* A failed step: a screenshot is taken before the report says so.
StepFails(r) ==
    /\ run[r].at = "act"
    /\ Continue(r, [run[r] EXCEPT !.at = "shot"])

Shot(r) == run[r].at = "shot" /\ Continue(r, Finish(run[r], "failed"))

\* A paused run would only wait for its flags.
WakesMutant(x) == ~x.paused \/ x.cancel

\* The wait of a paused run also ends with its tab.
Wakes(x) == ~x.paused \/ x.cancel \/ x.tab = "closed"

Wake(r) == run[r].at = "paused" /\ Wakes(run[r]) /\ Continue(r, Step(run[r], FALSE))

-----------------------------------------------------------------------------
(* runWorkflow, its end, and the batch.                                    *)

\* A worker of the batch takes another entry.
Takes(b) == ~b.cancel /\ b.next <= NItems

\* The worker that had entry i goes on; after the last one the batch is
\* finished and its entries get their final status.  f are the runs without
\* i's, g the entries.
WorkerGoesOn(f, g) ==
    LET rest == {i \in Items : f[i].at \notin {"idle", "over"}}
    IN  IF Takes(batch)
        THEN /\ run' = [f EXCEPT ![batch.next].at = "find"]
             /\ batch' = [batch EXCEPT !.next = @ + 1]
             /\ item' = g
        ELSE /\ run' = f
             /\ batch' = IF rest = {} THEN [batch EXCEPT !.st = "finished"] ELSE batch
             /\ item' = IF rest # {} THEN g
                        ELSE [i \in Items |-> IF g[i] = "queued" THEN "cancelled"
                                              ELSE IF g[i] = "running" THEN "failed" ELSE g[i]]

\* One worker more than the concurrency would start.
StartingMutant == {i \in Items : i <= Concurrency + 1}

\* The entries the workers start with.
Starting == {i \in Items : i <= Concurrency}

StartBatch ==
    /\ batch.st = "none"
    /\ batch' = [batch EXCEPT !.st = "running", !.next = Cardinality(Starting) + 1]
    /\ run' = [r \in Runs |-> IF r \in Starting THEN [run[r] EXCEPT !.at = "find"] ELSE run[r]]
    /\ UNCHANGED <<runs, current, item>>

StartSolo(r) ==
    /\ r \in Solos /\ run[r].at = "idle"
    /\ run' = [run EXCEPT ![r].at = "find"]
    /\ UNCHANGED <<runs, current, item, batch>>

\* The workflow has been found and the tab opened: trackRun, and the first
\* look at the flags, which are new.
Track(r) ==
    /\ run[r].at = "find"
    /\ run' = [run EXCEPT ![r] = [@ EXCEPT !.at = "digest", !.status = "running", !.tab = "open"]]
    /\ runs' = Append(runs, r) /\ current' = r
    /\ item' = IF r \in Items THEN [item EXCEPT ![r] = "running"] ELSE item
    /\ UNCHANGED <<batch>>

\* No workflow, no tab, missing values.
FindFails(r) ==
    /\ run[r].at = "find"
    /\ LET f == [run EXCEPT ![r].at = "over"]
       IN  IF r \in Items THEN WorkerGoesOn(f, [item EXCEPT ![r] = "failed"])
           ELSE run' = f /\ UNCHANGED <<item, batch>>
    /\ UNCHANGED <<runs, current>>

\* The newest run would be forgotten without a successor.
NextCurrentMutant(m) == NoRun

\* Another run that goes on: the one added last.
NextCurrent(m) ==
    LET still == {i \in DOMAIN m : Running(m[i])}
    IN  IF still = {} THEN NoRun ELSE m[Max(still)]

\* The report is stored: retireRun.
Persisted(r) ==
    /\ run[r].at = "persist"
    /\ run' = [run EXCEPT ![r].at = "closing"]
    /\ current' = IF current = r THEN NextCurrent(runs) ELSE current
    /\ UNCHANGED <<runs, item, batch>>

\* closeIfOwned has returned: the promise of the run resolves.
Closed(r) ==
    /\ run[r].at = "closing"
    /\ LET f == [run EXCEPT ![r].at = "over", ![r].tab = "closed"]
       IN  IF r \in Items THEN WorkerGoesOn(f, [item EXCEPT ![r] = run[r].status])
           ELSE run' = f /\ UNCHANGED <<item, batch>>
    /\ UNCHANGED <<runs, current>>

\* A run whose status is final leaves the map: five minutes after its end, when
\* twenty others have finished after it, or with clearRunHistory.
Forget(r) ==
    /\ ~Running(r)
    /\ \E i \in DOMAIN runs : runs[i] = r /\ runs' = RemoveAt(runs, i)
    /\ UNCHANGED <<run, current, item, batch>>

-----------------------------------------------------------------------------
(* run_cancel, run_pause, run_resume, takeover of a tab, closing of a tab.  *)

\* setRunState: the runs among S that are in the map and running.
SetRunState(S, F(_)) ==
    /\ run' = [r \in Runs |-> IF r \in S \cap Live /\ Running(r) THEN F(run[r]) ELSE run[r]]
    /\ UNCHANGED <<runs, current, item>>

\* The report would say "cancelled" at once.
CancelledMutant(x) == [x EXCEPT !.cancel = TRUE, !.paused = FALSE, !.status = "cancelled"]

Cancelled(x) == [x EXCEPT !.cancel = TRUE, !.paused = FALSE]
Paused(x) == [x EXCEPT !.paused = TRUE]
Resumed(x) == [x EXCEPT !.paused = FALSE, !.late = IF x.cancel THEN @ ELSE 0]

\* By run, by the tab of a run, or all of them.
Targets == {{r} : r \in Runs} \cup {Runs}

Cancel(S) == SetRunState(S, Cancelled) /\ UNCHANGED batch
Pause(S) == SetRunState(S, Paused) /\ UNCHANGED batch
Resume(S) == SetRunState(S, Resumed) /\ UNCHANGED batch

\* run_cancel of the batch; an entry that is being looked up has no run yet.
CancelBatch ==
    /\ batch.st # "none"
    /\ batch' = [batch EXCEPT !.cancel = TRUE]
    /\ SetRunState(Items, Cancelled)

PauseBatch == batch.st # "none" /\ Pause(Items)
ResumeBatch == batch.st # "none" /\ Resume(Items)

\* The user closes the tab of a run; onTabRemoved notes it.
TabCloses(r) ==
    /\ run[r].tab = "open" /\ Running(r)
    /\ run' = [run EXCEPT ![r].tab = "closed"]
    /\ UNCHANGED <<runs, current, item, batch>>

-----------------------------------------------------------------------------
RunStep(r) ==
    \/ Track(r) \/ FindFails(r) \/ Digested(r) \/ StepDone(r) \/ StepFails(r)
    \/ Shot(r) \/ Wake(r) \/ Persisted(r) \/ Closed(r)

Next ==
    \/ StartBatch
    \/ \E r \in Runs : RunStep(r) \/ StartSolo(r) \/ Forget(r) \/ TabCloses(r)
    \/ \E S \in Targets : Cancel(S) \/ Pause(S) \/ Resume(S)
    \/ CancelBatch \/ PauseBatch \/ ResumeBatch

Spec == Init /\ [][Next]_vars

\* Awaits return: browser calls, page calls and storage calls end or time out.
FairSpec == Spec /\ \A r \in Runs : WF_vars(RunStep(r))

-----------------------------------------------------------------------------
(* batchView.                                                              *)

ItemView(i) ==
    IF run[i].status # "none" /\ (i \in Live \/ run[i].at = "over") THEN run[i].status ELSE item[i]

ViewStatus ==
    IF \E i \in Items : ItemView(i) \in {"running", "queued"} THEN "running"
    ELSE IF batch.cancel THEN "cancelled"
    ELSE IF \E i \in Items : ItemView(i) = "failed" THEN "failed" ELSE "passed"

-----------------------------------------------------------------------------
(* Properties.                                                             *)

\* Types; the report of a run says "running" exactly while it is in its loop.
TypeOK ==
    /\ run \in [Runs -> [at : Stages, status : {"none", "running"} \cup Outcomes,
                         step : 0 .. Steps, cancel : BOOLEAN, paused : BOOLEAN,
                         tab : {"none", "open", "closed"}, late : 0 .. Steps]]
    /\ \A r \in Runs : Running(r) <=> run[r].at \in {"digest", "act", "paused", "shot"}
    /\ runs \in Seq(Runs) /\ IsInjective(runs)
    /\ current \in Runs \cup {NoRun}
    /\ item \in [Items -> {"queued", "running"} \cup Outcomes]
    /\ batch \in [st : {"none", "running", "finished"}, next : 1 .. NItems + 1, cancel : BOOLEAN]

\* A run that was told to stop or to pause ("run_cancel stops a run",
\* docs/WORKFLOWS.md:94) performs at most the step it was about to start,
\* whatever it is told meanwhile.
StopsAtStep == \A r \in Runs : run[r].late <= 1

\* When the batch is reported as passed, failed or cancelled, nothing of it
\* acts on a page any more or will.
SettledMeansStopped ==
    batch.st # "none" /\ ViewStatus # "running" =>
        \A i \in Items : run[i].at \notin {"find", "digest", "act", "paused", "shot"}

\* The batch never has more runs in progress than its concurrency, and when it
\* is finished every entry has a final status that nothing changes.
BatchBound ==
    /\ Cardinality({i \in Items : Busy(i)}) <= Concurrency
    /\ batch.st = "finished" => \A i \in Items : ~Busy(i) /\ item[i] \in Outcomes

\* While a run is going on the run shown to the user is one that goes on or
\* whose report is being stored.
CurrentShown ==
    (\E r \in Runs : Running(r)) =>
        current # NoRun /\ (Running(current) \/ run[current].at = "persist")

\* What is reported of runs and batches is true.
ReportsTrue == TypeOK /\ SettledMeansStopped /\ BatchBound /\ CurrentShown

\* Every run and every batch comes to an end unless it stays paused, and a
\* paused run ends with its tab.
RunsEnd ==
    /\ \A r \in Runs : []<>(~Busy(r) \/ (run[r].paused /\ run[r].tab = "open"))
    /\ []<>(batch.st # "running" \/ \E i \in Items : run[i].paused)

=============================================================================
