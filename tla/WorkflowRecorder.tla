-------------------------- MODULE WorkflowRecorder --------------------------
(***************************************************************************)
(* The workflow recorder (extension/background/workflow-engine.js): at most *)
(* one recording, in memory and, behind a timer, in storage.session, so that *)
(* it goes on after the worker was killed.  The steps come as messages from *)
(* the recorder in the page and as navigations of the tab, which also start *)
(* a worker that was killed; until that worker has read the recording back  *)
(* it queues them.                                                         *)
(***************************************************************************)
EXTENDS Naturals, Sequences, Functions

CONSTANTS
    Calls,          \* calls of start and stop that can be in progress together
    Apart,          \* calls of start and stop never overlap
    MaxRecordings, MaxSteps, MaxKills  \* bounds

\* What the constants are.
WorkflowRecorderAssumption ==
    /\ Apart \in BOOLEAN
    /\ MaxRecordings \in Nat /\ MaxSteps \in Nat /\ MaxKills \in Nat

VARIABLES
    rec,      \* the recording in memory: its nonce and its steps
    stored,   \* storage.session["autodom.wfRecording"]
    saves,    \* writes to it that are on their way, in order
    due,      \* recPersistTimer is set
    worker,   \* "down", "reading" (hydrate) or "ready"
    early,    \* earlyEvents
    page,     \* nonce of the recorder in the page, and steps of any kind so far
    msgs,     \* steps on their way to the worker
    call,     \* calls of start and stop
    made,     \* recordings so far
    draft,    \* the draft that each recording has left
    heard,    \* per recording: the steps that reached a worker while it was on
    lost,     \* steps and recordings lost with a worker
    recKills

vars == <<rec, stored, saves, due, worker, early, page, msgs, call, made, draft, heard, lost, recKills>>

Nonces == 1 .. MaxRecordings
None == [id |-> 0, steps |-> <<>>]
Quiet == [pc |-> "idle", rec |-> None, waits |-> 0]

Init ==
    /\ rec = None /\ stored = None /\ saves = <<>> /\ due = FALSE
    /\ worker = "ready" /\ early = <<>>
    /\ page = [id |-> 0, steps |-> 0] /\ msgs = <<>>
    /\ call = [c \in Calls |-> Quiet] /\ made = 0
    /\ draft = [n \in Nonces |-> None] /\ heard = [n \in Nonces |-> {}]
    /\ lost = {} /\ recKills = 0

\* What storage holds when all writes have landed.
Latest == IF saves = <<>> THEN stored ELSE saves[Len(saves)]

\* writeRecNow with the recording r.
WriteNow(r) == saves' = Append(saves, r) /\ due' = FALSE

\* schedulePersistRec: at once when the last write is a second old.
Schedule(r) == WriteNow(r) \/ (due' = TRUE /\ UNCHANGED saves)

-----------------------------------------------------------------------------
(* Steps.                                                                  *)

\* A step of the recorder in the page, or a navigation of the tab (nonce 0),
\* which ends that recorder.
Act(navigates) ==
    /\ page.steps < MaxSteps
    /\ navigates \/ page.id # 0
    /\ page' = [id |-> IF navigates THEN 0 ELSE page.id, steps |-> page.steps + 1]
    /\ msgs' = Append(msgs, [id |-> IF navigates THEN 0 ELSE page.id, step |-> page.steps + 1])
    /\ UNCHANGED <<rec, stored, saves, due, worker, early, call, made, draft, heard, lost, recKills>>

\* The steps that recording r takes: its own and the navigations.
Taken(r, events) == SelectSeq(events, LAMBDA e : r.id # 0 /\ e.id \in {0, r.id})
StepsOf(events) == [k \in DOMAIN events |-> events[k].step]

\* New steps would be put before those that are there.
WithMutant(r, events) == [r EXCEPT !.steps = StepsOf(Taken(r, events)) \o @]

With(r, events) == [r EXCEPT !.steps = @ \o StepsOf(Taken(r, events))]

Hears(r, events) ==
    IF r.id = 0 THEN heard
    ELSE [heard EXCEPT ![r.id] = @ \cup Range(StepsOf(Taken(r, events)))]

\* Steps would not be queued while the recording is read back.
EarlyMutant == early

Early == Append(early, Head(msgs))

\* whenHydrated(handleStepMessage); a message starts a worker that is down.
Deliver ==
    /\ msgs # <<>> /\ msgs' = Tail(msgs)
    /\ IF worker = "ready"
       THEN /\ rec' = With(rec, <<Head(msgs)>>)
            /\ heard' = Hears(rec, <<Head(msgs)>>)
            /\ IF rec' = rec THEN UNCHANGED <<saves, due>> ELSE Schedule(rec')
            /\ UNCHANGED <<worker, early>>
       ELSE /\ worker' = "reading" /\ early' = Early
            /\ heard' = Hears(stored, <<Head(msgs)>>)
            /\ UNCHANGED <<rec, saves, due>>
    /\ UNCHANGED <<stored, page, call, made, draft, lost, recKills>>

\* Any other event starts the worker, too.
WakeUp ==
    /\ worker = "down" /\ worker' = "reading"
    /\ UNCHANGED <<rec, stored, saves, due, early, page, msgs, call, made, draft, heard, lost, recKills>>

\* doHydrate: the queued events are replayed.
Hydrate ==
    /\ worker = "reading" /\ worker' = "ready"
    /\ rec' = With(stored, early) /\ early' = <<>>
    /\ IF rec' = stored THEN UNCHANGED <<saves, due>> ELSE Schedule(rec')
    /\ UNCHANGED <<stored, page, msgs, call, made, draft, heard, lost, recKills>>

\* The recorder is injected into the page the tab has navigated to.
NavigationCompleted ==
    /\ worker = "ready" /\ rec.id # 0 /\ page.id = 0
    /\ page' = [page EXCEPT !.id = rec.id]
    /\ UNCHANGED <<rec, stored, saves, due, worker, early, msgs, call, made, draft, heard, lost, recKills>>

TimerFires ==
    /\ due /\ WriteNow(rec)
    /\ UNCHANGED <<rec, stored, worker, early, page, msgs, call, made, draft, heard, lost, recKills>>

\* A write lands: whoever waits for it comes nearer to its turn.
WriteLands ==
    /\ saves # <<>> /\ stored' = Head(saves) /\ saves' = Tail(saves)
    /\ call' = [c \in Calls |-> [call[c] EXCEPT !.waits = IF @ = 0 THEN 0 ELSE @ - 1]]
    /\ UNCHANGED <<rec, due, worker, early, page, msgs, made, draft, heard, lost, recKills>>

-----------------------------------------------------------------------------
(* workflow_record_start and workflow_record_stop.                         *)

MayCall(c) ==
    /\ call[c].pc = "idle" /\ worker = "ready"
    /\ Apart => \A d \in Calls : call[d].pc = "idle"

\* There is no recording: the tab is looked up and opens its page.
StartChecks(c) ==
    /\ MayCall(c) /\ rec.id = 0 /\ made < MaxRecordings
    /\ call' = [call EXCEPT ![c].pc = "tab"]
    /\ UNCHANGED <<rec, stored, saves, due, worker, early, page, msgs, made, draft, heard, lost, recKills>>

StartRecords(c) ==
    /\ call[c].pc = "tab"
    /\ made < MaxRecordings /\ made' = made + 1
    /\ rec' = [id |-> made + 1, steps |-> <<>>]
    /\ WriteNow(rec')
    /\ call' = [call EXCEPT ![c].pc = "inject", ![c].rec = rec']
    /\ UNCHANGED <<stored, worker, early, page, msgs, draft, heard, lost, recKills>>

\* The page has the recorder, or cannot have it.
Injected(c) ==
    /\ call[c].pc = "inject"
    /\ \/ page' = [page EXCEPT !.id = rec.id] /\ UNCHANGED <<rec, saves, due, heard>>
       \/ /\ rec' = None /\ WriteNow(None)
          /\ heard' = [heard EXCEPT ![call[c].rec.id] = {}]
          /\ UNCHANGED page
    /\ call' = [call EXCEPT ![c] = Quiet]
    /\ UNCHANGED <<stored, worker, early, msgs, made, draft, lost, recKills>>

\* The end of the recording would be written behind the timer.
EndWriteMutant == due' = TRUE /\ UNCHANGED saves

EndWrite == WriteNow(None)

\* recordStop and onTabRemoved: the recording ends, and that is written.
StopEnds(c) ==
    /\ MayCall(c) /\ rec.id # 0
    /\ EndWrite
    /\ call' = [call EXCEPT ![c] = [pc |-> "stop", rec |-> rec, waits |-> Len(saves')]]
    /\ rec' = None
    /\ UNCHANGED <<stored, worker, early, page, msgs, made, draft, heard, lost, recKills>>

\* The write has landed, the page has no recorder any more, and the draft is
\* stored.
StopReturns(c) ==
    /\ call[c].pc = "stop" /\ call[c].waits = 0
    /\ call' = [call EXCEPT ![c].pc = "stopped"]
    /\ draft' = [draft EXCEPT ![call[c].rec.id] = call[c].rec]
    /\ page' = [page EXCEPT !.id = 0]
    /\ UNCHANGED <<rec, stored, saves, due, worker, early, msgs, made, heard, lost, recKills>>

\* The caller has its answer.
Answered(c) ==
    /\ call[c].pc = "stopped"
    /\ call' = [call EXCEPT ![c] = Quiet]
    /\ UNCHANGED <<rec, stored, saves, due, worker, early, page, msgs, made, draft, heard, lost, recKills>>

\* The steps of recordings that end and have left no draft yet.
Stopping == UNION {Range(call[c].rec.steps) : c \in {d \in Calls : call[d].pc = "stop"}}

\* The memory goes; of the writes on their way the first ones still land.
Kill ==
    /\ recKills < MaxKills /\ recKills' = recKills + 1 /\ worker # "down"
    /\ worker' = "down" /\ rec' = None /\ early' = <<>> /\ saves' = <<>> /\ due' = FALSE
    /\ \E k \in 0 .. Len(saves) : stored' = IF k = 0 THEN stored ELSE saves[k]
    /\ lost' = lost \cup ((Range(rec.steps) \cup Range(StepsOf(early)) \cup Stopping) \ Range(stored'.steps))
    /\ call' = [c \in Calls |-> Quiet]
    /\ UNCHANGED <<page, msgs, made, draft, heard>>

-----------------------------------------------------------------------------
Next ==
    \/ Deliver \/ WakeUp \/ Hydrate \/ NavigationCompleted \/ TimerFires \/ WriteLands \/ Kill
    \/ \E navigates \in BOOLEAN : Act(navigates)
    \/ \E c \in Calls :
         StartChecks(c) \/ StartRecords(c) \/ Injected(c)
         \/ StopEnds(c) \/ StopReturns(c) \/ Answered(c)

Spec == Init /\ [][Next]_vars

-----------------------------------------------------------------------------
(* Properties.                                                             *)

Recordings == [id : 0 .. MaxRecordings, steps : Seq(1 .. MaxSteps)]

\* Types; what is in memory and not in storage is on its way or has a timer.
TypeOK ==
    /\ rec \in Recordings /\ stored \in Recordings /\ saves \in Seq(Recordings)
    /\ worker \in {"down", "reading", "ready"} /\ due \in BOOLEAN
    /\ page \in [id : 0 .. MaxRecordings, steps : 0 .. MaxSteps]
    /\ call \in [Calls -> [pc : {"idle", "tab", "inject", "stop", "stopped"},
                           rec : Recordings, waits : Nat]]
    /\ made \in 0 .. MaxRecordings /\ recKills \in 0 .. MaxKills
    /\ lost \subseteq 1 .. MaxSteps
    /\ worker = "ready" /\ rec # Latest => due

Increasing(s) == \A k \in 1 .. Len(s) - 1 : s[k] < s[k + 1]

\* Each once and in the order in which they were made, also when the worker was
\* killed in between.
StepsInOrder == Increasing(rec.steps) /\ \A n \in Nonces : Increasing(draft[n].steps)

\* In the recording or in its draft, or waiting for one of them, unless the
\* worker was killed before it was written.
StepsKept ==
    \A n \in 1 .. made : heard[n] \subseteq
        lost \cup Range(draft[n].steps) \cup Stopping \cup Range(StepsOf(early))
             \cup (IF rec.id = n THEN Range(rec.steps) ELSE {})
             \cup (IF worker # "ready" /\ stored.id = n THEN Range(stored.steps) ELSE {})

\* Neither this worker nor a later one goes on with it.
StoppedStays ==
    \A c \in Calls : call[c].pc = "stopped" =>
        \A r \in {rec, stored} \cup Range(saves) : r.id # call[c].rec.id

\* The steps that reached a worker while a recording was on are kept, in their
\* order, and a recording whose stop was answered is over.
RecordingKept == StepsInOrder /\ StepsKept /\ StoppedStays

=============================================================================
