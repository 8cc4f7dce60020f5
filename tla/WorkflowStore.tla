---------------------------- MODULE WorkflowStore ----------------------------
(***************************************************************************)
(* Saved workflows (extension/background/workflow-engine.js): one map under *)
(* one storage key, which every change loads and saves as a whole, with an  *)
(* await at each of the two.  Finishing runs, which count themselves in     *)
(* their workflow's statistics and may have healed its steps, queue up on a *)
(* chain; the undo data they keep afterwards and the changes of the user    *)
(* do not.                                                                 *)
(***************************************************************************)
EXTENDS Naturals, Sequences, FiniteSets

CONSTANTS
    Workflows,
    Replays,      \* runs
    Healing,      \* those that heal a step
    Editors,      \* changes by the user or the agent
    Deleting,     \* those that delete a workflow
    Of,           \* the workflow of a run or of a change
    Apart         \* the assumption Undisturbed below is made

Writers == Replays \cup Editors

\* What the constants are.
WorkflowStoreAssumption ==
    /\ Replays \cap Editors = {} /\ Healing \subseteq Replays /\ Deleting \subseteq Editors
    /\ Of \in [Writers -> Workflows] /\ Apart \in BOOLEAN /\ IsFiniteSet(Replays)

VARIABLES
    wfs,     \* storage.local["autodom.workflows"]
    undo,    \* the runs in storage.session["autodom.runUndo"]
    writer,  \* runs and changes: how far each one is, and the copies it has read
    chain    \* persistChain: runs that are being persisted, in order

vars == <<wfs, undo, writer, chain>>

\* The changes that the steps of a workflow contain, and its count of runs.
Contents == [there : BOOLEAN, steps : SUBSET Writers, runs : 0 .. Cardinality(Replays)]
Fresh == [there |-> TRUE, steps |-> {}, runs |-> 0]
Gone == [there |-> FALSE, steps |-> {}, runs |-> 0]

Init ==
    /\ wfs = [w \in Workflows |-> Fresh]
    /\ undo = {}
    /\ writer = [x \in Writers |-> [pc |-> "idle", mine |-> Gone, all |-> wfs, undo |-> {}]]
    /\ chain = <<>>

At(x, S) == writer[x].pc \in S
Going(x) == ~At(x, {"idle", "over"})

\* The assumption under which no change is lost: a change by the user, from
\* reading the workflow to saving it, is alone with the map, and no run that
\* heals the workflow is in progress then.
Undisturbed(x) ==
    Apart => IF x \in Editors
             THEN /\ \A y \in Editors : ~Going(y)
                  /\ \A r \in Replays : ~At(r, {"got", "loaded"})
                  /\ \A r \in Healing : Going(r) => Of[r] # Of[x]
             ELSE \A y \in Editors : ~Going(y)

Set(x, rec) == writer' = [writer EXCEPT ![x] = rec]

-----------------------------------------------------------------------------
(* Runs.                                                                   *)

\* findWorkflow: the run has a copy of its own.
Start(r) ==
    /\ At(r, {"idle"}) /\ wfs[Of[r]].there
    /\ r \in Healing => Undisturbed(r)
    /\ Set(r, [writer[r] EXCEPT !.pc = "runs", !.mine = wfs[Of[r]]])
    /\ UNCHANGED <<wfs, undo, chain>>

\* The end of the run: serialized.
Ends(r) ==
    /\ At(r, {"runs"})
    /\ Set(r, [writer[r] EXCEPT !.pc = "queued"])
    /\ chain' = Append(chain, r)
    /\ UNCHANGED <<wfs, undo>>

\* Finishing runs would not wait for each other.
MyTurnMutant(r) == TRUE

MyTurn(r) == Head(chain) = r

\* The run's own copy would be stored.
CountedMutant(r) == [writer[r].mine EXCEPT !.runs = @ + 1]

\* What is stored now, with one run more and the steps as healed.
Counted(r) ==
    LET stored == wfs[Of[r]]
    IN  [stored EXCEPT !.runs = @ + 1,
                       !.steps = IF r \in Healing THEN writer[r].mine.steps \cup {r} ELSE @]

\* getWorkflow; the run of a deleted workflow stores no statistics.
Get(r) ==
    /\ At(r, {"queued"}) /\ MyTurn(r) /\ Undisturbed(r)
    /\ Set(r, IF Counted(r).there
              THEN [writer[r] EXCEPT !.pc = "got", !.mine = Counted(r)]
              ELSE [writer[r] EXCEPT !.pc = "stored"])
    /\ UNCHANGED <<wfs, undo, chain>>

\* The run history has the report (RunHistory): the next run has its turn.
Leave(r) ==
    /\ At(r, {"stored"})
    /\ chain' = Tail(chain)
    /\ Set(r, [writer[r] EXCEPT !.pc = "saved"])
    /\ UNCHANGED <<wfs, undo>>

\* saveUndo: read, then write.
UndoRead(r) ==
    /\ At(r, {"saved"})
    /\ Set(r, [writer[r] EXCEPT !.pc = "undoing", !.undo = undo])
    /\ UNCHANGED <<wfs, undo, chain>>

UndoWrite(r) ==
    /\ At(r, {"undoing"})
    /\ undo' = writer[r].undo \cup {r}
    /\ Set(r, [writer[r] EXCEPT !.pc = "over"])
    /\ UNCHANGED <<wfs, chain>>

-----------------------------------------------------------------------------
(* putWorkflow, workflow_save and workflow_delete.                         *)

\* workflow_get, and the edited workflow comes back with workflow_save.
StartEdit(u) ==
    /\ u \in Editors /\ At(u, {"idle"}) /\ wfs[Of[u]].there /\ Undisturbed(u)
    /\ Set(u, [writer[u] EXCEPT !.pc = "got",
                 !.mine = IF u \in Deleting THEN Gone
                          ELSE [wfs[Of[u]] EXCEPT !.steps = @ \cup {u}]])
    /\ UNCHANGED <<wfs, undo, chain>>

LoadAll(x) ==
    /\ At(x, {"got"})
    /\ Set(x, [writer[x] EXCEPT !.pc = "loaded", !.all = wfs])
    /\ UNCHANGED <<wfs, undo, chain>>

SaveAll(x) ==
    /\ At(x, {"loaded"})
    /\ wfs' = [writer[x].all EXCEPT ![Of[x]] = writer[x].mine]
    /\ Set(x, [writer[x] EXCEPT !.pc = IF x \in Editors THEN "over" ELSE "stored"])
    /\ UNCHANGED <<undo, chain>>

-----------------------------------------------------------------------------
Next ==
    \/ \E r \in Replays :
         Start(r) \/ Ends(r) \/ Get(r) \/ Leave(r) \/ UndoRead(r) \/ UndoWrite(r)
    \/ \E u \in Editors : StartEdit(u)
    \/ \E x \in Writers : LoadAll(x) \/ SaveAll(x)

Spec == Init /\ [][Next]_vars

-----------------------------------------------------------------------------
(* Properties.                                                             *)

\* The runs whose statistics have been stored, of workflow w.
Finished(w) == {r \in Replays : Of[r] = w /\ At(r, {"stored", "saved", "undoing", "over"})}

\* Types, and the order of the chain: only its first run has read the map.
TypeOK ==
    /\ wfs \in [Workflows -> Contents] /\ undo \subseteq Replays
    /\ \A x \in Writers : /\ writer[x].mine \in Contents /\ writer[x].undo \subseteq Replays
                          /\ writer[x].all \in [Workflows -> Contents]
    /\ \A r \in Replays : At(r, {"got", "loaded", "stored"}) => Head(chain) = r

\* Every finished run is counted exactly once in the statistics of its workflow,
\* however many runs end together.
RunsCounted == \A w \in Workflows : wfs[w].there => wfs[w].runs = Cardinality(Finished(w))

\* An acknowledged save or delete is not undone by runs that were in progress
\* and end afterwards.
EditsKept ==
    \A u \in Editors : At(u, {"over"}) =>
        IF u \in Deleting THEN ~wfs[Of[u]].there
        ELSE wfs[Of[u]].there => u \in wfs[Of[u]].steps

\* What ended is in the stored workflows: runs, saves and deletes.
StoreKept == RunsCounted /\ EditsKept

\* "Every run keeps what it needs to reverse its safe changes ... for the 20
\* most recent runs" (docs/WORKFLOWS.md:116, 130).
UndoKept == \A r \in Replays : At(r, {"over"}) => r \in undo

=============================================================================
