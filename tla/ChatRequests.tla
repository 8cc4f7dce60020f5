---------------------------- MODULE ChatRequests ----------------------------
(***************************************************************************)
(* A chat message that the bridge answers: the requests that wait in the     *)
(* service worker, the jobs that the server runs for them (a CLI that drives *)
(* the browser, a CLI or a provider that only answers, a tool named by the   *)
(* words, the queue for the agent of the IDE), and the user's stop, which    *)
(* ends the waiting at once and follows the request to the server.           *)
(***************************************************************************)
EXTENDS Integers, Sequences, FiniteSets

CONSTANTS
    Reqs, NoReq,
    Kinds,    \* who is to answer: "agent", "cli", "direct", "intent", "ide"
    MaxDrops, \* bound: connections that break
    MaxKills  \* bound: ends of the worker

ChatRequestsAssumption ==
    /\ IsFiniteSet(Reqs) /\ NoReq \notin Reqs
    /\ Kinds \subseteq {"agent", "cli", "direct", "intent", "ide"}
    /\ MaxDrops \in Nat /\ MaxKills \in Nat

VARIABLES
    req,     \* the requests as the worker sees them; those that wait are pendingAiRequests
    counter, \* aiCallIdCounter
    conn,    \* the number of the last connection
    open,    \* it is open
    up, down,
    job,     \* what the server does for each request
    proc,    \* activeCliProviderProcesses, by id
    aborted, \* abortedAiRequests, ids
    queue,   \* pendingChatRequests
    drops, kills

vars == <<req, counter, conn, open, up, down, job, proc, aborted, queue, drops, kills>>
workerVars == <<req, counter, conn, open, drops, kills>>

Ids == 1 .. Cardinality(Reqs)
NewReq == [st |-> "new", id |-> 0, by |-> NoReq, ide |-> FALSE]
NewJob == [at |-> "none", kind |-> "none", id |-> 0, conn |-> 0]

Init ==
    /\ req = [r \in Reqs |-> NewReq]
    /\ counter = 0 /\ conn = 1 /\ open = TRUE
    /\ up = << >> /\ down = << >>
    /\ job = [r \in Reqs |-> NewJob]
    /\ proc = [i \in Ids |-> NoReq]
    /\ aborted = {} /\ queue = {}
    /\ drops = 0 /\ kills = 0

Waiting(r) == req[r].st = "waiting"
Working(r) == job[r].at \notin {"none", "over"}
Stopped(r) == job[r].id \in aborted

-----------------------------------------------------------------------------
(* The worker.                                                             *)

\* CHAT_AI_MESSAGE on the path of the bridge.  The words, the mode and the
\* settings say who is to answer.
Chat(r, kind) ==
    /\ req[r].st = "new" /\ open
    /\ counter' = counter + 1
    /\ req' = [req EXCEPT ![r] = [NewReq EXCEPT !.st = "waiting", !.id = counter + 1]]
    /\ up' = Append(up, [type |-> "request", id |-> counter + 1, req |-> r, kind |-> kind, conn |-> conn])
    /\ UNCHANGED <<conn, open, down, job, proc, aborted, queue, drops, kills>>

\* STOP_AGENT_RUN for a run of the bridge; ABORT_AI_CHAT does this for every
\* request that waits.
Stop(r) ==
    /\ Waiting(r)
    /\ req' = [req EXCEPT ![r].st = "stopped"]
    /\ up' = Append(up, [type |-> "abort", id |-> req[r].id, req |-> r, kind |-> "none", conn |-> conn])
    /\ UNCHANGED <<counter, conn, open, down, job, proc, aborted, queue, drops, kills>>

\* AI_CHAT_RESPONSE: an answer that nobody waits for is dropped.
Receive ==
    /\ down # << >>
    /\ down' = Tail(down)
    /\ req' = [r \in Reqs |-> IF Waiting(r) /\ req[r].id = Head(down).id
                              THEN [req[r] EXCEPT !.st = "replied", !.by = Head(down).req, !.ide = Head(down).ide]
                              ELSE req[r]]
    /\ UNCHANGED <<counter, conn, open, up, job, proc, aborted, queue, drops, kills>>

\* What was sent may still reach the server; what it sent is lost.
Broken(outcome) ==
    /\ req' = [r \in Reqs |-> IF Waiting(r) THEN [req[r] EXCEPT !.st = outcome] ELSE req[r]]
    /\ open' = FALSE
    /\ down' = << >> /\ up' \in {up, << >>}
    /\ UNCHANGED <<conn, job, proc, aborted, queue>>

\* resolvePendingAiRequests
Drop ==
    /\ open /\ drops < MaxDrops
    /\ Broken("failed")
    /\ drops' = drops + 1 /\ UNCHANGED <<counter, kills>>

Kill ==
    /\ kills < MaxKills
    /\ Broken("lost")
    /\ counter' = 0
    /\ kills' = kills + 1 /\ UNCHANGED drops

Connect ==
    /\ ~open
    /\ open' = TRUE /\ conn' = conn + 1
    /\ UNCHANGED <<req, counter, up, down, job, proc, aborted, queue, drops, kills>>

-----------------------------------------------------------------------------
(* The server.                                                             *)

\* An answer would go to the extension that is connected, whichever asked.
LivesMutant(c) == open

\* The socket that the request came over is open.
Lives(c) == open /\ c = conn

SetJob(r, record) == job' = [job EXCEPT ![r] = record]
At(r, at) == [job[r] EXCEPT !.at = at]
Kind(r) == job[r].kind

\* AiAbortError: the job ends without an answer.
Ends(r) == SetJob(r, At(r, "over")) /\ UNCHANGED <<down, queue>>

\* _safeSendAiResponse, of an answer or an error, unless the request was stopped.
Reply(r) ==
    /\ SetJob(r, At(r, "over"))
    /\ down' = IF ~Stopped(r) /\ Lives(job[r].conn)
               THEN Append(down, [id |-> job[r].id, req |-> r, ide |-> FALSE]) ELSE down

\* The work of a request of each kind, after the look at the page that the
\* words may ask for.  An agent looks, and then asks its CLI.
Work(kind) ==
    CASE kind = "agent"  -> {"look", "spawn"}
      [] kind = "cli"    -> {"spawn"}
      [] kind = "direct" -> {"fetch"}
      [] kind = "intent" -> {"look", "act"}
      [] kind = "ide"    -> {"queue"}

\* _routeViaIdeQueue: the request is put into the queue, and is answered: it
\* was queued.
Queued(r) ==
    /\ job[r].at = "queue"
    /\ queue' = queue \cup {r}
    /\ Reply(r)
    /\ UNCHANGED <<proc, aborted, up, workerVars>>

TakeRequest(m, r) ==
    LET start(at) == [at |-> at, kind |-> m.kind, id |-> m.id, conn |-> m.conn]
    IN  /\ m.type = "request"
        /\ IF m.id \in aborted \/ ~open
           THEN SetJob(r, start("over"))
           ELSE \E at \in Work(m.kind) \cup {"look"} : SetJob(r, start(at))
        /\ UNCHANGED <<down, proc, aborted, queue>>

\* A stop would leave the process of a job alone.
KilledMutant(i) == proc

\* _killCliProviderProcess
Killed(i) == [proc EXCEPT ![i] = NoReq]

\* _handleAiChatAbort: the job will see it, its CLI is killed.
TakeAbort(m) ==
    /\ m.type = "abort"
    /\ aborted' = aborted \cup {m.id}
    /\ proc' = Killed(m.id)
    /\ UNCHANGED <<job, down, queue>>

Take ==
    /\ up # << >> /\ up' = Tail(up)
    /\ TakeRequest(Head(up), Head(up).req) \/ TakeAbort(Head(up))
    /\ UNCHANGED workerVars

\* A step of a job would not look whether its request was stopped.
MustEndMutant(r) == FALSE

\* _checkAbort, and the checks of callCliBrowserAgent and runCliPrompt.
MustEnd(r) == Stopped(r)

\* The next thing that a job waits for, unless its request was stopped.
GoesTo(r, next) ==
    \/ MustEnd(r) /\ Ends(r)
    \/ ~MustEnd(r) /\ (\E at \in next : SetJob(r, At(r, at))) /\ UNCHANGED <<down, queue>>

\* The look is over.  The provider is asked without another check.
Looked(r) ==
    /\ job[r].at = "look"
    /\ \/ Kind(r) # "direct" /\ GoesTo(r, Work(Kind(r)))
       \/ Kind(r) = "direct" /\ SetJob(r, At(r, "fetch")) /\ UNCHANGED <<down, queue>>
       \/ Reply(r) /\ UNCHANGED queue
    /\ UNCHANGED <<proc, aborted, up, workerVars>>

\* A tool has acted (act, and more for every second one of an agent): an agent
\* goes on, and looks without a check to repair its plan; a job that was asked
\* for by its words is done.
Acted(r) ==
    /\ job[r].at \in {"act", "more"}
    /\ \/ Kind(r) = "agent" /\ GoesTo(r, {"look", IF job[r].at = "act" THEN "more" ELSE "act", "spawn"})
       \/ Kind(r) = "agent" /\ SetJob(r, At(r, "look")) /\ UNCHANGED <<down, queue>>
       \/ Reply(r) /\ UNCHANGED queue
    /\ UNCHANGED <<proc, aborted, up, workerVars>>

\* runCliPrompt, when it knows what the CLI is to be started with.
Spawn(r) ==
    /\ job[r].at = "spawn"
    /\ GoesTo(r, {"cli"})
    /\ proc' = IF Stopped(r) THEN proc ELSE [proc EXCEPT ![job[r].id] = r]
    /\ UNCHANGED <<aborted, up, workerVars>>

\* The process ends, by itself or killed, and its entry is deleted.
CliEnds(r) ==
    /\ job[r].at = "cli"
    /\ proc' = [proc EXCEPT ![job[r].id] = NoReq]
    /\ \/ Kind(r) = "agent" /\ GoesTo(r, {"look", "act", "spawn"})
       \/ IF Stopped(r) THEN Ends(r) ELSE Reply(r) /\ UNCHANGED queue
    /\ UNCHANGED <<aborted, up, workerVars>>

\* The provider has answered, or its stream was left because of the stop.
Fetched(r) ==
    /\ job[r].at = "fetch"
    /\ \/ Reply(r) /\ UNCHANGED queue
       \/ Stopped(r) /\ Ends(r)
    /\ UNCHANGED <<proc, aborted, up, workerVars>>

\* Five minutes after the stop; by then the job has seen it.
Evict(i) ==
    /\ i \in aborted /\ \A r \in Reqs : Working(r) => job[r].id # i
    /\ aborted' = aborted \ {i}
    /\ UNCHANGED <<job, proc, up, down, queue, workerVars>>

\* respond_to_chat: the answer of the agent of the IDE, over the socket of the
\* request.
Respond(r) ==
    /\ r \in queue
    /\ queue' = queue \ {r}
    /\ down' = IF Lives(job[r].conn) THEN Append(down, [id |-> job[r].id, req |-> r, ide |-> TRUE]) ELSE down
    /\ UNCHANGED <<job, proc, aborted, up, workerVars>>

QueueExpires(r) ==
    /\ r \in queue
    /\ queue' = queue \ {r}
    /\ UNCHANGED <<job, proc, aborted, up, down, workerVars>>

\* Whether connected or not, with all answers shown or given up.
AllSettled ==
    /\ up = << >> /\ down = << >> /\ queue = {}
    /\ \A r \in Reqs : req[r].st \notin {"new", "waiting"} /\ ~Working(r)
    /\ UNCHANGED vars

Next ==
    \/ \E r \in Reqs : Stop(r) \/ \E kind \in Kinds : Chat(r, kind)
    \/ Receive \/ Drop \/ Kill \/ Connect
    \/ Take
    \/ \E r \in Reqs : Queued(r) \/ Looked(r) \/ Acted(r) \/ Spawn(r) \/ CliEnds(r) \/ Fetched(r)
    \/ \E r \in Reqs : Respond(r) \/ QueueExpires(r)
    \/ \E i \in Ids : Evict(i)
    \/ AllSettled

Spec == Init /\ [][Next]_vars

-----------------------------------------------------------------------------
(* Properties.                                                             *)

\* Types.
TypeOK ==
    /\ req \in [Reqs -> [st : {"new", "waiting", "replied", "stopped", "failed", "lost"},
                         id : Ids \cup {0}, by : Reqs \cup {NoReq}, ide : BOOLEAN]]
    /\ job \in [Reqs -> [at : {"none", "look", "act", "more", "spawn", "cli", "fetch", "queue", "over"},
                         kind : Kinds \cup {"none"}, id : Ids \cup {0},
                         conn : 0 .. MaxDrops + MaxKills + 1]]
    /\ proc \in [Ids -> Reqs \cup {NoReq}]
    /\ aborted \subseteq Ids /\ queue \subseteq {r \in Reqs : Kind(r) = "ide"}

\* An id that an earlier worker used, and that was stopped then, is given out
\* again: the server takes the new request for a stopped one.
Haunted(r) == \E q \in Reqs \ {r} : req[q].id = req[r].id /\ req[q].st = "stopped"

\* An answer is the answer to its request, and a request that waits is on its
\* way, or worked on, or its answer is on its way (there is no timeout by
\* default: "the chat bar Stop action is the source of truth for cancelling",
\* service-worker.js:6263).
ChatTrue ==
    /\ \A r \in Reqs : req[r].by \in {r, NoReq}
    /\ \A r \in Reqs : Waiting(r) =>
         \/ \E i \in DOMAIN up : up[i].type = "request" /\ up[i].req = r
         \/ Working(r)
         \/ \E i \in DOMAIN down : down[i].id = req[r].id
         \/ Haunted(r)

\* The CLI of a job is known under the id of its request until it was killed,
\* and killed if the request was stopped, as long as the ids are not given out
\* again by another worker.
CliKnown ==
    kills = 0 => \A r \in Reqs :
        job[r].at = "cli" => proc[job[r].id] = IF Stopped(r) THEN NoReq ELSE r

\* And the job begins to act no more, nor asks its CLI again ("short-circuit
\* before doing more work", index.js:3128).
ActsNoMore ==
    \A r \in Reqs : Working(r) /\ Stopped(r) /\ job'[r] # job[r] => job'[r].at \notin {"act", "more", "cli"}

StopObeyed == [][ActsNoMore]_vars

\* The answer of the agent of the IDE is shown, unless the user stopped the
\* request ("Send your answer to a pending AutoDOM chat panel request",
\* index.js:10955).
AnswerShown ==
    \A r \in Reqs : /\ down # << >> /\ down' = Tail(down) /\ open'
                    /\ Head(down).ide /\ Head(down).req = r /\ req[r].st # "stopped"
                    => req'[r].by = r /\ req'[r].ide

IdeAnswerShown == [][AnswerShown]_vars

=============================================================================
