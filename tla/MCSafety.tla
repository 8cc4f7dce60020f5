------------------------------ MODULE MCSafety ------------------------------
(***************************************************************************)
(* Machines that do not interact, in one run: scripts that await each call,  *)
(* whose calls are held; calls without batches that wait for lanes; the      *)
(* agent loop; the decision about each of its calls; and chat requests at    *)
(* the bridge.  The rigid variable part says which one a behaviour is of,    *)
(* and the others stay as they start.                                        *)
(***************************************************************************)
EXTENDS CodeMode, TLC

CONSTANTS
    a, b,                                                         \* ToolLanes
    Agents, NoAgent, Scheduled, PanelOf, Path, MaxTurns, MaxActs, \* AgentRuns
    Sites, Acts, SiteOf, Destructive, Shown, MaxRestarts,         \* AskBeforeAct
    Kinds, MaxDrops,                                              \* ChatRequests
    MaxKills                                                      \* ends of the worker

VARIABLES
    part,
    pc, wake, pendingError, wanted, acquired, at, holder, keyQ, shared, exclusive,
    gateQ, held, aborted, late, micro, arrived,
    agent, locks, active, newest, agentKills,
    ask, rules, change, granted, taken, session, reading, mine, restarts,
    req, counter, conn, open, up, down, job, proc, dead, queue, drops, chatKills

\* Two names that no definition of any part tells apart: of the attended
\* scripts, of plain calls of tools, and of chat requests.
Twins == Runs \ Unattended

\* Two recordings, one of them exclusive, and two plain calls, three of them on
\* tab 2: key 1 is "recorder", keys 2 and 3 are tabs.
LaneCalls == {a, b} \cup Twins

Lanes == INSTANCE ToolLanes WITH
    Calls <- LaneCalls, Keys <- {1, 2, 3},
    Need <- a :> {1, 3} @@ b :> {1, 2} @@ [c \in Twins |-> {2}],
    Exclusive <- {a}, Parent <- [c \in LaneCalls |-> NoCall],
    Abortable <- Twins, Timed <- {b}, Impatient <- {}

\* A panel with a run that plans by the screen and one that takes quick steps,
\* and a scheduled run that takes turns.
OnePanel == [c \in Agents |-> "panel"]
ThreePaths == "v" :> "vision" @@ "q" :> "quick" @@ "s" :> "turns"

Agent == INSTANCE AgentRuns WITH
    Runs <- Agents, NoRun <- NoAgent, run <- agent, kills <- agentKills

\* Two sites, calls of either tier on the first one.
TwoSites == [c \in {"m1", "d"} |-> "s1"] @@ [c \in {"m2"} |-> "s2"]

Asking == INSTANCE AskBeforeAct WITH Single <- TRUE

Chat == INSTANCE ChatRequests WITH
    Reqs <- Twins, NoReq <- NoRun, aborted <- dead, kills <- chatKills

ASSUME PartsAssumption ==
    /\ Lanes!CallsAssumption /\ Lanes!KeysAssumption /\ Lanes!ScenarioAssumption
    /\ Agent!AgentRunsAssumption /\ Asking!AskBeforeActAssumption /\ Chat!ChatRequestsAssumption

laneVars == <<pc, wake, pendingError, wanted, acquired, at, holder, keyQ, shared, exclusive,
              gateQ, held, aborted, late, micro, arrived>>
agentVars == <<agent, locks, active, newest, agentKills>>
askVars == <<ask, rules, change, granted, taken, session, reading, mine, restarts>>
chatVars == <<req, counter, conn, open, up, down, job, proc, dead, queue, drops, chatKills>>

MCInit ==
    /\ part \in {"scripts", "lanes", "agent", "ask", "chat"}
    /\ Init /\ Lanes!Init /\ Agent!Init /\ Asking!Init /\ Chat!Init

MCNext ==
    \/ part = "scripts" /\ Next /\ UNCHANGED <<part, laneVars, agentVars, askVars, chatVars>>
    \/ part = "lanes" /\ Lanes!Next /\ UNCHANGED <<part, vars, agentVars, askVars, chatVars>>
    \/ part = "agent" /\ Agent!Next /\ UNCHANGED <<part, vars, laneVars, askVars, chatVars>>
    \/ part = "ask" /\ Asking!Next /\ UNCHANGED <<part, vars, laneVars, agentVars, chatVars>>
    \/ part = "chat" /\ Chat!Next /\ UNCHANGED <<part, vars, laneVars, agentVars, askVars>>

mcVars == <<part, vars, laneVars, agentVars, askVars, chatVars>>

MCSpec == MCInit /\ [][MCNext]_mcVars

\* Held calls are interchangeable, and so are the twins.
Symmetry == Permutations(Calls) \cup Permutations(Twins)

-----------------------------------------------------------------------------
(* The properties of the other parts, stated in their modules.             *)

\* ToolLanes: an exclusive call runs alone, and calls that cannot overlap run in
\* the order in which they were made.
LanesOrdered == Lanes!ExclusiveAlone /\ Lanes!ArrivalOrder

\* AgentRuns: the handle of the stop is that of the newest run, and a panel has
\* one run at a time.
HandleTrue == Agent!TypeOK /\ Agent!HandleTrue

\* AskBeforeAct: what has run was allowed by the user, now or by a rule.
UserDecides == Asking!UserDecides

\* AskBeforeAct: no call begins on a tab that the user has taken over.
TakeoverHeld == [][part = "ask" => Asking!NotTakenOver]_mcVars

\* ChatRequests: a request that waits is not forgotten and gets no answer but its
\* own, and its CLI can be killed.
ChatTrue == Chat!TypeOK /\ Chat!ChatTrue /\ Chat!CliKnown

\* AgentRuns and ChatRequests: what was stopped acts no more.
StopObeyed == [][Agent!ActsNoMore /\ Chat!ActsNoMore]_mcVars

=============================================================================
