----------------------------- MODULE AgentRuns -----------------------------
(***************************************************************************)
(* The agent loop of the service worker (background/service-worker.js):      *)
(* runs that a chat panel or a schedule starts, the lock of each panel, the  *)
(* handle through which a run is stopped, the three ways in which a run asks *)
(* a model and acts, and the path of each of its tool calls.                 *)
(***************************************************************************)
EXTENDS Integers

CONSTANTS
    Runs, NoRun,
    Scheduled,  \* runs of a schedule: they take no lock
    PanelOf,    \* the panel a run is asked for on
    Path,       \* "vision", "quick" or "turns", for each run
    MaxTurns,   \* AGENT_MAX_TURNS
    MaxActs,    \* bound: tool calls that one answer of a model asks for
    MaxKills    \* bound: ends of the worker

AgentRunsAssumption ==
    /\ NoRun \notin Runs /\ Scheduled \subseteq Runs
    /\ Path \in [Runs -> {"vision", "quick", "turns"}]
    /\ MaxTurns \in Nat \ {0} /\ MaxActs \in Nat \ {0} /\ MaxKills \in Nat

VARIABLES
    run,
    locks,  \* _agentRunLocks
    active, \* _activeAgentRun
    newest, \* auxiliary: the run whose handle was made last
    kills

vars == <<run, locks, active, newest, kills>>

\* What a run does (at), in which of the three paths; why it calls a tool (use);
\* the calls left of the last answer, the turns taken, the abort signal.
NewRun(r) == [at |-> "idle", path |-> Path[r], use |-> "act", left |-> 0, turns |-> 0, aborted |-> FALSE]

Init ==
    /\ run = [r \in Runs |-> NewRun(r)]
    /\ locks = {}
    /\ active = NoRun
    /\ newest = NoRun
    /\ kills = 0

Started(r) == run[r].at \notin {"idle", "opening", "over"}
Goes(r, record) == run' = [run EXCEPT ![r] = record]
Same == UNCHANGED <<locks, active, newest, kills>>

-----------------------------------------------------------------------------
(* The handle and the lock.                                                *)

\* CHAT_AI_MESSAGE is refused while the panel has a run.
Chat(r) ==
    /\ run[r].at = "idle" /\ r \notin Scheduled /\ PanelOf[r] \notin locks
    /\ Goes(r, [run[r] EXCEPT !.at = "opening"])
    /\ locks' = locks \cup {PanelOf[r]}
    /\ UNCHANGED <<active, newest, kills>>

Schedule(r) ==
    /\ run[r].at = "idle" /\ r \in Scheduled
    /\ Goes(r, [run[r] EXCEPT !.at = "opening"])
    /\ Same

\* The handle of whatever run would be dropped.
UnhandledMutant(r) == NoRun

\* _endAgentRunHandle
Unhandled(r) == IF active = r THEN NoRun ELSE active

Over(r) ==
    /\ Goes(r, [NewRun(r) EXCEPT !.at = "over", !.aborted = run[r].aborted])
    /\ active' = Unhandled(r)
    /\ locks' = IF r \in Scheduled THEN locks ELSE locks \ {PanelOf[r]}
    /\ UNCHANGED <<newest, kills>>

\* The tab is found and the run gets its handle, the only one that a stop sees.
\* The first two paths begin with a look at the page, the last with its model.
Open(r) ==
    /\ run[r].at = "opening"
    /\ Goes(r, CASE run[r].path = "vision" -> [run[r] EXCEPT !.at = "gate", !.use = "snapshot"]
                 [] run[r].path = "quick"  -> [run[r] EXCEPT !.at = "gate", !.use = "shot"]
                 [] run[r].path = "turns"  -> [run[r] EXCEPT !.at = "model"])
    /\ active' = r /\ newest' = r
    /\ UNCHANGED <<locks, kills>>

\* No model, or no tab.
OpenFails(r) == run[r].at = "opening" /\ Over(r)

\* STOP_AGENT_RUN, and ABORT_AI_CHAT as far as the handle goes.
Stop ==
    /\ active # NoRun /\ ~run[active].aborted
    /\ Goes(active, [run[active] EXCEPT !.aborted = TRUE])
    /\ Same

-----------------------------------------------------------------------------
(* One call of a tool: executeAgentTool, which returns its failures.        *)

\* A call that was stopped while the gate asked would run.
RefusedMutant(r) == FALSE

\* _throwIfCancelled, and the lanes refuse a call that is aborted.
Refused(r) == run[r].aborted

\* Rate limit, takeover and the Ask Before Act gate let the call pass.
Passes(r) ==
    /\ run[r].at = "gate" /\ ~Refused(r)
    /\ Goes(r, [run[r] EXCEPT !.at = "lanes"])
    /\ Same

Granted(r) ==
    /\ run[r].at = "lanes" /\ ~Refused(r)
    /\ Goes(r, [run[r] EXCEPT !.at = "tool"])
    /\ Same

\* The top of the loop of a path that takes turns: stopped, timed out, out of
\* turns, or the model is asked again.
LoopTop(r, record) ==
    \/ record.turns < MaxTurns /\ ~record.aborted /\ Goes(r, [record EXCEPT !.at = "model"]) /\ Same
    \/ Over(r)

\* What a path before the turns could not do is left to them.
FallBack(r) == LoopTop(r, [run[r] EXCEPT !.path = "turns", !.left = 0, !.turns = 0])

\* No step of an answer would look at the signal before it.
StopsMutant(r) == FALSE

\* isAborted, before each step of an answer.
Stops(r) == run[r].aborted

\* The next of the calls that an answer asks for: a tool, a plan to be
\* approved, the end (respond_to_user, a loop of equal calls), or a tool that
\* the vision path does not know.
NextCall(r, record) ==
    \/ Stops(r) /\ Over(r)
    \/ /\ ~Stops(r)
       /\ \/ Goes(r, [record EXCEPT !.at = "gate", !.use = "act", !.left = @ - 1]) /\ Same
          \/ record.path # "vision" /\ Goes(r, [record EXCEPT !.at = "plan", !.left = @ - 1]) /\ Same
          \/ record.path = "turns" /\ Over(r)
          \/ record.path = "vision" /\ FallBack(r)

\* What a path does with the result of its call: ok or not.
Continue(r, ok) ==
    \/ /\ run[r].use = "snapshot"
       /\ Goes(r, [run[r] EXCEPT !.at = "gate", !.use = "shot"]) /\ Same
    \/ /\ run[r].use = "shot" /\ run[r].path = "vision"
       /\ Goes(r, [run[r] EXCEPT !.at = "model"]) /\ Same
    \/ /\ run[r].use = "shot" /\ run[r].path = "quick"
       /\ LoopTop(r, run[r])
    \/ /\ run[r].use = "act" /\ run[r].path = "vision" /\ ~ok
       /\ FallBack(r)
    \/ /\ run[r].use = "act" /\ (run[r].path # "vision" \/ ok) /\ run[r].left > 0
       /\ NextCall(r, run[r])
    \/ /\ run[r].use = "act" /\ run[r].left = 0
       /\ \/ run[r].path = "vision" /\ ok /\ Over(r)
          \/ run[r].path = "quick" /\ Goes(r, [run[r] EXCEPT !.at = "gate", !.use = "shot"]) /\ Same
          \/ run[r].path = "turns" /\ LoopTop(r, run[r])

\* The call is denied, blocked, refused as cancelled, or gets no lane.
CallFails(r) == run[r].at \in {"gate", "lanes"} /\ Continue(r, FALSE)

ToolEnds(r) == run[r].at = "tool" /\ \E ok \in BOOLEAN : Continue(r, ok)

-----------------------------------------------------------------------------
(* The model and the plan.                                                 *)

Answered(r, n) == [run[r] EXCEPT !.left = n, !.turns = IF run[r].path = "vision" THEN @ ELSE @ + 1]

\* The answer: calls of tools, or in the paths with turns a last reply.
ModelAnswers(r) ==
    /\ run[r].at = "model"
    /\ \/ \E n \in 1 .. MaxActs : NextCall(r, Answered(r, n))
       \/ run[r].path = "vision" /\ FallBack(r)
       \/ run[r].path # "vision" /\ Over(r)

\* The request fails, or is aborted with the run.  A path before the turns
\* leaves the failure to them.
ModelFails(r) ==
    /\ run[r].at = "model"
    /\ \/ (run[r].aborted \/ run[r].path = "turns") /\ Over(r)
       \/ ~run[r].aborted /\ run[r].path # "turns" /\ FallBack(r)

\* The user decides; an answer that does not come in time is an approval, and
\* so is a panel that cannot be reached.
PlanApproved(r) ==
    /\ run[r].at = "plan"
    /\ IF run[r].left > 0 THEN NextCall(r, run[r])
       ELSE \/ run[r].path = "quick" /\ Goes(r, [run[r] EXCEPT !.at = "gate", !.use = "shot"]) /\ Same
            \/ run[r].path = "turns" /\ LoopTop(r, run[r])

PlanRejected(r) == run[r].at = "plan" /\ Over(r)

-----------------------------------------------------------------------------

\* The worker ends, and with it every run, lock and handle.
Kill ==
    /\ kills < MaxKills
    /\ run' = [r \in Runs |-> IF run[r].at = "idle" THEN run[r] ELSE [NewRun(r) EXCEPT !.at = "over"]]
    /\ locks' = {} /\ active' = NoRun /\ newest' = NoRun
    /\ kills' = kills + 1

AllOver == (\A r \in Runs : run[r].at = "over") /\ UNCHANGED vars

Next ==
    \/ \E r \in Runs : Chat(r) \/ Schedule(r) \/ Open(r) \/ OpenFails(r)
    \/ Stop
    \/ \E r \in Runs : Passes(r) \/ Granted(r) \/ CallFails(r) \/ ToolEnds(r)
    \/ \E r \in Runs : ModelAnswers(r) \/ ModelFails(r) \/ PlanApproved(r) \/ PlanRejected(r)
    \/ Kill
    \/ AllOver

Spec == Init /\ [][Next]_vars

-----------------------------------------------------------------------------
(* Properties.                                                             *)

\* Types.
TypeOK ==
    /\ run \in [Runs -> [at : {"idle", "opening", "gate", "lanes", "tool", "model", "plan", "over"},
                         path : {"vision", "quick", "turns"}, use : {"snapshot", "shot", "act"},
                         left : 0 .. MaxActs, turns : 0 .. MaxTurns, aborted : BOOLEAN]]
    /\ locks \subseteq {PanelOf[r] : r \in Runs \ Scheduled}
    /\ {active, newest} \subseteq Runs \cup {NoRun}

\* The user can stop what goes on: a panel is locked exactly by the one run in
\* progress on it, and the handle names the newest run as long as that goes on
\* and never one that is over ("Only one run can be active at a time",
\* service-worker.js:1140, holds of the handle, not of the runs).
HandleTrue ==
    /\ \A r, q \in Runs \ Scheduled :
         run[r].at \notin {"idle", "over"} /\ run[q].at \notin {"idle", "over"} /\ PanelOf[r] = PanelOf[q] => r = q
    /\ locks = {PanelOf[r] : r \in {q \in Runs \ Scheduled : run[q].at \notin {"idle", "over"}}}
    /\ active = IF newest # NoRun /\ Started(newest) THEN newest ELSE NoRun

\* A run that was stopped starts no tool and shows no plan, whatever gate, lane
\* or model it waited for when the stop came.
ActsNoMore ==
    \A r \in Runs : run[r].aborted /\ run'[r].at \in {"lanes", "tool", "plan"} => run'[r].at = run[r].at

StopObeyed == [][ActsNoMore]_vars

=============================================================================
