----------------------------- MODULE UpdateFlow -----------------------------
(***************************************************************************)
(* How the extension gets a new release (background/service-worker.js): the  *)
(* checks, the update that the browser has ready (a managed install) or that *)
(* the bridge puts on the disk (an unpacked one), and the reload that applies *)
(* it, asked for by the user or automatic.  There is one release to get.     *)
(***************************************************************************)
EXTENDS Naturals, Sequences

CONSTANTS
    MaxAttempts, \* UPDATE_MAX_RELOAD_ATTEMPTS
    Apart,       \* TRUE: the user asks for a reload while nothing else is recorded
    MaxEvents    \* bound: requests of the user, failures, connections that break,
                 \* and ends of the worker, together

UpdateFlowAssumption ==
    MaxAttempts \in Nat \ {0} /\ Apart \in BOOLEAN /\ MaxEvents \in Nat

VARIABLES
    install, \* managed: by the browser; works: a reload loads what is ready
    running, \* the version in use is the new one
    ready,   \* it is what the next reload finds
    stored,  \* what is in storage.local
    task,    \* what the worker is doing
    timers,  \* reloads that are due: "auto", "user", "bridge"
    agent,   \* a run of the agent is going, or over
    open,    \* the socket of the bridge
    job,     \* the update on the disk: off, on, or on with nobody to tell
    msgs,
    recent,  \* auxiliary: of the last ten minutes, the automatic reloads, and the
             \* reloads asked for in vain whose marks were removed
    reloads, \* auxiliary: reloads that the user asked for in vain
    events

vars == <<install, running, ready, stored, task, timers, agent, open, job, msgs,
          recent, reloads, events>>
bridgeVars == <<open, job, msgs>>
userVars == <<agent, recent, reloads, events>>

\* check: a look for updates; event: onUpdateAvailable; click: the user;
\* installed: onInstalled; opened: the end of ws.onopen.
Tasks == {"check", "event", "click", "installed", "opened"}

\* pendingUpdate; selfUpdateStatus, without (old, with) ten minutes of age or
\* after a progress report, which has no age; the attempt of the last ten
\* minutes; the age of the mark of a requested reload; applyAttempt of the
\* lifecycle; whether a check is due; "Auto-apply updates".
Store0 == [pending |-> FALSE, self |-> "none", cool |-> FALSE, asked |-> "no",
           tries |-> 0, due |-> TRUE, auto |-> FALSE]
Idle == [at |-> "idle", tries |-> 0]
None == [auto |-> 0, vain |-> 0]

Init ==
    /\ install \in [managed : BOOLEAN, works : BOOLEAN]
    /\ running = FALSE /\ ready = FALSE
    /\ stored \in {[Store0 EXCEPT !.auto = auto] : auto \in BOOLEAN}
    /\ task = [t \in Tasks |-> Idle]
    /\ timers = {} /\ agent = "going"
    /\ open = TRUE /\ job = "off" /\ msgs = << >>
    /\ recent = None /\ reloads = 0
    /\ events = 0

Downloading(self) == self \in {"sent", "old", "progress"}

\* Task t goes on at another place.  A task remembers what it has decided as its
\* place, and the attempts that it has read.
At(t, at) == task[t].at = at
Goes(t, at) == task' = [task EXCEPT ![t] = [Idle EXCEPT !.at = at]]
GoesReading(t, at) == task' = [task EXCEPT ![t] = [at |-> at, tries |-> stored.tries]]
Writes(record) == stored' = record

Works == UNCHANGED <<install, running, ready, userVars>>
Plain == Works /\ UNCHANGED <<timers, bridgeVars>>

-----------------------------------------------------------------------------
(* A check for updates: at start-up, by the alarm, or by the user (forced).  *)

\* _sanitizeStoredUpdateState: what is done or was asked for in vain is removed.
Clean(forced) ==
    LET vain == stored.asked = "long" /\ stored.pending /\ ~running
    IN  /\ At("check", IF forced THEN "forced" ELSE "begin")
        /\ Writes(CASE running -> [stored EXCEPT !.pending = FALSE, !.asked = "no"]
                     [] vain    -> [stored EXCEPT !.pending = FALSE, !.asked = "no", !.cool = FALSE]
                     [] OTHER   -> stored)
        /\ Goes("check", CASE stored'.pending -> "auto"
                            [] ~stored'.pending /\ ~forced /\ ~stored.due -> "idle"
                            [] OTHER -> "ask")
        /\ recent' = [recent EXCEPT !.vain = IF vain THEN @ + 1 ELSE @]
        /\ UNCHANGED <<install, running, ready, timers, bridgeVars, agent, reloads, events>>

\* The published manifest and the browser are asked, or cannot be.  A managed
\* install may have an update that is ready; another one reads of it.  Whatever
\* comes of it is recorded.
Asked ==
    /\ At("check", "ask")
    /\ Writes([stored EXCEPT !.due = FALSE])
    /\ \/ /\ Goes("check", CASE running -> "ended"
                             [] ~running /\ install.managed /\ ready -> "pend"
                             [] OTHER -> "found")
          /\ Plain
       \/ /\ events < MaxEvents /\ events' = events + 1 /\ Goes("check", "ended")
          /\ UNCHANGED <<install, running, ready, timers, bridgeVars, agent, recent, reloads>>

\* The browser tells of an update that is ready.
Available ==
    /\ At("event", "idle") /\ install.managed /\ ready /\ ~running /\ ~stored.pending
    /\ Goes("event", "pend")
    /\ Plain /\ UNCHANGED stored

\* _setPendingUpdate
Pend(t) ==
    /\ At(t, "pend")
    /\ Writes([stored EXCEPT !.pending = ~running])
    /\ Goes(t, IF running THEN "idle" ELSE "read")
    /\ Plain

\* _recordUpdateLifecycle reads it all, and writes it all.
LifecycleRead(t) ==
    /\ \/ At(t, "read") /\ GoesReading(t, "record")
       \/ At(t, "found") /\ GoesReading(t, "note")
       \/ At(t, "ended") /\ GoesReading(t, "end")
    /\ Plain /\ UNCHANGED stored

Recorded(t) ==
    /\ \/ At(t, "record") /\ Goes(t, "auto")
       \/ At(t, "note") /\ Goes(t, "bridge")
       \/ At(t, "end") /\ Goes(t, "idle")
    /\ Writes([stored EXCEPT !.tries = task[t].tries]) /\ Plain

-----------------------------------------------------------------------------
(* Applying it without being asked.                                        *)

\* The cooldown would not be looked at.
MayAutoMutant == stored.auto

\* The switch is on, and the last attempt is ten minutes ago.
MayAuto == stored.auto /\ ~stored.cool

\* _maybeAutoApplyPendingUpdate, up to its write.
Auto(t) ==
    /\ At(t, "auto")
    /\ Goes(t, IF agent # "going" /\ MayAuto THEN "mark" ELSE "idle")
    /\ Plain /\ UNCHANGED stored

Mark(t) ==
    /\ At(t, "mark") /\ Goes(t, "idle")
    /\ Writes([stored EXCEPT !.cool = TRUE]) /\ timers' = timers \cup {"auto"}
    /\ Works /\ UNCHANGED bridgeVars

\* _maybeAutoSelfUpdateViaBridge, likewise.
Bridge ==
    /\ At("check", "bridge")
    /\ Goes("check", IF /\ ~install.managed /\ ~running /\ open /\ agent # "going"
                        /\ MayAuto /\ ~Downloading(stored.self)
                     THEN "markBridge" ELSE "idle")
    /\ Plain /\ UNCHANGED stored

MarkBridge ==
    /\ At("check", "markBridge") /\ Goes("check", "start")
    /\ Writes([stored EXCEPT !.cool = TRUE]) /\ Plain

\* The click of the user ends with the start of the update; the automatic one
\* records its attempt, which counts as the first.
Started(t) == IF t = "check" THEN "attempt" ELSE "idle"

\* _startBridgeSelfUpdate
Start(t) ==
    /\ At(t, "start")
    /\ Writes([stored EXCEPT !.self = IF open THEN "sent" ELSE @])
    /\ Goes(t, IF open THEN "send" ELSE Started(t)) /\ Plain

\* The socket may be gone, or closing: then nothing is sent and nobody is told.
Send(t) ==
    /\ At(t, "send") /\ Goes(t, Started(t))
    /\ IF open
       THEN /\ job' = IF job = "off" THEN "on" ELSE job
            /\ msgs' = IF job = "off" THEN msgs ELSE Append(msgs, "failed")
            /\ UNCHANGED stored
       ELSE /\ stored' \in {stored, [stored EXCEPT !.self = "failed"]}
            /\ UNCHANGED <<job, msgs>>
    /\ Works /\ UNCHANGED <<timers, open>>

Attempted ==
    /\ At("check", "attempt") /\ Goes("check", "idle")
    /\ Writes([stored EXCEPT !.tries = 1]) /\ Plain

-----------------------------------------------------------------------------
(* The bridge: _runSelfUpdateInBackground.                                 *)

Tell(message) == msgs' = IF job = "on" THEN Append(msgs, message) ELSE msgs
BridgeStep == UNCHANGED <<install, running, stored, task, timers, open, agent, recent, reloads>>

JobProgress ==
    /\ job = "on" /\ msgs = << >> /\ stored.self # "progress"
    /\ Tell("progress")
    /\ BridgeStep /\ UNCHANGED <<ready, job, events>>

\* The files are replaced, if they are not the newest already.
JobEnds ==
    /\ job # "off" /\ job' = "off"
    /\ ready' = TRUE
    /\ Tell(IF ready THEN "same" ELSE "new")
    /\ BridgeStep /\ UNCHANGED events

JobFails ==
    /\ job # "off" /\ job' = "off" /\ events < MaxEvents
    /\ Tell("failed") /\ events' = events + 1
    /\ BridgeStep /\ UNCHANGED ready

\* The reload of a finished update would be left to the popup.
ReloadOnMutant(message) == {}

\* A result that has changed the files of the extension reloads it.
ReloadOn(message) == IF message = "new" THEN {"bridge"} ELSE {}

Receive ==
    /\ msgs # << >> /\ msgs' = Tail(msgs)
    /\ Writes([stored EXCEPT !.self = CASE Head(msgs) = "progress" -> "progress"
                                        [] Head(msgs) = "failed" -> "failed"
                                        [] OTHER -> "complete"])
    /\ timers' = timers \cup ReloadOn(Head(msgs))
    /\ Works /\ UNCHANGED <<task, open, job>>

Lost == open' = FALSE /\ msgs' = << >> /\ job' = IF job = "off" THEN "off" ELSE "alone"

Drop ==
    /\ open /\ events < MaxEvents
    /\ Lost /\ events' = events + 1
    /\ UNCHANGED <<install, running, ready, stored, task, timers, agent, recent, reloads>>

Connect ==
    /\ ~open /\ open' = TRUE
    /\ task' = [task EXCEPT !["opened"] = [Idle EXCEPT !.at = "look"]]
    /\ Works /\ UNCHANGED <<stored, timers, job, msgs>>

\* A download would be taken for abandoned only by its age.
AbandonedMutant(self) == self = "old"

\* A download whose result can never arrive: older than ten minutes, or of
\* unknown age.
Abandoned(self) == self \in {"old", "progress"}

StaleRead ==
    /\ At("opened", "look")
    /\ Goes("opened", IF Abandoned(stored.self) THEN "stale" ELSE "idle")
    /\ Plain /\ UNCHANGED stored

StaleCleared ==
    /\ At("opened", "stale") /\ Goes("opened", "idle")
    /\ Writes([stored EXCEPT !.self = "failed"]) /\ Plain

-----------------------------------------------------------------------------
(* The user, the reload and the rest of the world.                         *)

Click(t, at) ==
    /\ events < MaxEvents /\ At(t, "idle") /\ events' = events + 1
    /\ Goes(t, at)
    /\ UNCHANGED <<install, running, ready, stored, timers, bridgeVars, agent, recent, reloads>>

\* Who asks during a check waits for that one.
ClickCheck == (Apart => At("click", "idle")) /\ Click("check", "forced")
ClickUpdate == ~install.managed /\ open /\ Click("click", "start")
ClickApply ==
    /\ stored.pending /\ (Apart => At("check", "idle") /\ At("event", "idle"))
    /\ Click("click", "apply")

\* Attempts would not be limited.
MayApplyMutant == TRUE

MayApply == stored.tries < MaxAttempts

\* AUTODOM_APPLY_UPDATE, which the popup offers for a pending update: what it
\* has read decides, and the attempt is counted from there.
Apply ==
    /\ At("click", "apply")
    /\ CASE ~stored.pending \/ running -> Goes("click", "none")
         [] stored.pending /\ ~running /\ MayApply -> GoesReading("click", "request")
         [] OTHER -> Goes("click", "ended")
    /\ Plain /\ UNCHANGED stored

NoneToApply ==
    /\ At("click", "none") /\ Goes("click", "idle")
    /\ Writes([stored EXCEPT !.pending = FALSE, !.cool = FALSE]) /\ Plain

Request ==
    /\ At("click", "request")
    /\ Writes([stored EXCEPT !.asked = "just"])
    /\ task' = [task EXCEPT !["click"].at = "count"] /\ Plain

Count ==
    /\ At("click", "count") /\ Goes("click", "idle")
    /\ Writes([stored EXCEPT !.tries = task["click"].tries + 1])
    /\ timers' = timers \cup {"user"}
    /\ Works /\ UNCHANGED bridgeVars

\* The worker ends, and a new one looks for updates.
StartsAnew(installed) ==
    /\ task' = [t \in Tasks |-> IF t = "installed" /\ installed THEN [Idle EXCEPT !.at = "forget"]
                                ELSE IF t = "check" THEN [Idle EXCEPT !.at = "begin"] ELSE Idle]
    /\ timers' = {} /\ agent' = IF agent = "going" THEN "over" ELSE agent
    /\ Lost

\* chrome.runtime.reload.  An unpacked extension is always installed again.
Reload(cause) ==
    LET new == running \/ (install.works /\ ready)
    IN  /\ cause \in timers
        /\ running' = new
        /\ StartsAnew(new # running \/ ~install.managed)
        /\ recent' = [recent EXCEPT !.auto = IF cause = "auto" THEN @ + 1 ELSE @]
        /\ reloads' = IF cause = "user" /\ ~new THEN reloads + 1 ELSE reloads
        /\ UNCHANGED <<install, ready, stored, events>>

Kill ==
    /\ events < MaxEvents /\ events' = events + 1
    /\ StartsAnew(FALSE)
    /\ UNCHANGED <<install, running, ready, stored, recent, reloads>>

\* onInstalled: nothing is pending any more, and attempts count from nought.
Forget ==
    /\ At("installed", "forget")
    /\ Writes([stored EXCEPT !.pending = FALSE, !.asked = "no", !.cool = FALSE, !.self = "none"])
    /\ Goes("installed", "applied") /\ Plain

Applied ==
    /\ At("installed", "applied")
    /\ Writes([stored EXCEPT !.tries = 0])
    /\ Goes("installed", "idle") /\ Plain

\* The browser has loaded the update of a managed install.
BrowserReady ==
    /\ install.managed /\ ~ready /\ ready' = TRUE
    /\ UNCHANGED <<install, running, stored, task, timers, bridgeVars, userVars>>

RunEnds == agent = "going" /\ agent' = "over"
           /\ UNCHANGED <<install, running, ready, stored, task, timers, bridgeVars, recent, reloads, events>>

\* Minutes pass: two, ten (then a download is old), thirty (then the alarm
\* rings).  The awaits of the worker, its reloads and messages take none.
Quiet == timers = {} /\ msgs = << >> /\ \A t \in Tasks : At(t, "idle")
Passing == Quiet /\ UNCHANGED <<install, running, ready, timers, bridgeVars, agent, reloads, events>>

Long(asked) == IF asked = "just" THEN "long" ELSE asked

\* The cooldown would never be over.
ColdMutant == [stored EXCEPT !.asked = Long(@), !.self = IF @ = "sent" THEN "old" ELSE @]

\* Ten minutes later.
Cold == [stored EXCEPT !.asked = Long(@), !.cool = FALSE, !.self = IF @ = "sent" THEN "old" ELSE @]
TwoMinutes == Passing /\ stored.asked = "just" /\ Writes([stored EXCEPT !.asked = "long"]) /\ UNCHANGED <<task, recent>>
TenMinutes ==
    /\ Passing /\ (Cold # stored \/ recent # None)
    /\ Writes(Cold) /\ recent' = None /\ UNCHANGED task
HalfAnHour ==
    /\ Passing /\ Writes([Cold EXCEPT !.due = TRUE]) /\ recent' = None
    /\ Goes("check", "begin")

Step(t) == Pend(t) \/ LifecycleRead(t) \/ Recorded(t) \/ Auto(t) \/ Mark(t) \/ Start(t) \/ Send(t)
CheckStep == Clean(FALSE) \/ Clean(TRUE) \/ Asked \/ Bridge \/ MarkBridge \/ Attempted
OtherStep == StaleRead \/ StaleCleared \/ Apply \/ NoneToApply \/ Request \/ Count \/ Forget \/ Applied

Next ==
    \/ Available
    \/ \E t \in Tasks : Step(t)
    \/ CheckStep \/ OtherStep
    \/ JobProgress \/ JobEnds \/ JobFails \/ Receive
    \/ Drop \/ Connect \/ Kill
    \/ ClickCheck \/ ClickUpdate \/ ClickApply
    \/ \E cause \in {"auto", "user", "bridge"} : Reload(cause)
    \/ BrowserReady \/ RunEnds
    \/ TwoMinutes \/ TenMinutes \/ HalfAnHour

Spec == Init /\ [][Next]_vars

\* Awaits and timers of the worker end before the next minute, the bridge is
\* found again and ends its work, the browser gets what is published, runs end,
\* and time passes.
WorkerStep ==
    \/ \E t \in Tasks : Step(t)
    \/ CheckStep \/ OtherStep \/ Receive
    \/ \E cause \in {"auto", "user", "bridge"} : Reload(cause)

Fairness ==
    /\ WF_vars(WorkerStep) /\ WF_vars(Connect) /\ WF_vars(JobEnds \/ JobFails)
    /\ WF_vars(BrowserReady) /\ WF_vars(RunEnds) /\ WF_vars(HalfAnHour)

FairSpec == Spec /\ Fairness

-----------------------------------------------------------------------------
(* Properties.                                                             *)

\* Types.
TypeOK ==
    /\ install \in [managed : BOOLEAN, works : BOOLEAN]
    /\ stored \in [pending : BOOLEAN, self : {"none", "sent", "old", "progress", "complete", "failed"},
                   cool : BOOLEAN, asked : {"no", "just", "long"}, tries : 0 .. MaxAttempts + 1,
                   due : BOOLEAN, auto : BOOLEAN]
    /\ timers \subseteq {"auto", "user", "bridge"} /\ job \in {"off", "on", "alone"}

\* An update that a reload does not apply makes no reload loop: the user can
\* ask for MaxAttempts reloads ("ineffective reload -> bounded blocked state",
\* RELEASE-READINESS-4.3.0.md:26), and within ten minutes of an automatic reload
\* another one comes only for a reload that was asked for in vain, whose
\* clean-up removes the cooldown too, and one for each of these.
ReloadsBounded ==
    /\ reloads <= MaxAttempts
    /\ recent.auto + (IF "auto" \in timers THEN 1 ELSE 0) <= 1 + recent.vain

\* A download that reports progress is shown as long as it goes on, or its
\* result is on its way.
StatusTrue ==
    stored.self = "progress" /\ open /\ At("opened", "idle") => job = "on" \/ msgs # << >>

\* The mark of a download that was lost before its first report stays until the
\* socket opens once more ten minutes later: no update begins by itself.
Stuck == stored.self \in {"sent", "old"} /\ job # "on" /\ msgs = << >> /\ \A t \in Tasks : ~At(t, "send")

\* The result of a download was lost, or the reload: the files are new, and
\* the bridge says "already current" from now on.
Stranded == ~install.managed /\ ready /\ msgs = << >> /\ timers = {}

\* An update that can be applied is applied in the end when "Auto-apply
\* updates" is on; after a failure or a step of the user it may also be stuck
\* or stranded.
Disturbed == events > 0 /\ (Stuck \/ Stranded)
Updated == []<>(stored.auto /\ install.works => running \/ Disturbed)

=============================================================================
