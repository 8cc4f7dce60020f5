----------------------------- MODULE BridgeCalls -----------------------------
(***************************************************************************)
(* The path of a tool call: MCP server process -> (primary process) ->      *)
(* browser extension and back (server/index.js, service-worker.js).  Every  *)
(* IDE has a server process of its own; the one that owns the port is the   *)
(* primary and holds the socket of the extension, the others relay their    *)
(* calls through it.  Calls wait for the extension to come back, time out   *)
(* and are cancelled; processes die, start and take over; the socket of the *)
(* extension drops and its worker is killed.                                *)
(*                                                                         *)
(* Timers may expire at any moment.  The confirmation of destructive calls, *)
(* the domain guardrails and the lanes inside the extension are elsewhere.  *)
(***************************************************************************)
EXTENDS Naturals, FiniteSets, Sequences, SequencesExt, FiniteSetsExt

CONSTANTS
    Procs,      \* server processes
    NoProc,     \* no process
    Calls,      \* tool calls
    NoCall,     \* no call
    Home,       \* the process that each call is made at
    First,      \* the primary at the start
    MaxDrops,   \* bound on losses of the extension's socket
    MaxKills,   \* bound on kills of the extension's worker
    MaxCrashes, \* bound on deaths of server processes
    MaxFaults   \* bound on all of these together

ASSUME BridgeCallsAssumption ==
    /\ IsFiniteSet(Calls)
    /\ NoProc \notin Procs /\ NoCall \notin Calls
    /\ Home \in [Calls -> Procs] /\ First \in Procs
    /\ MaxDrops \in Nat /\ MaxKills \in Nat /\ MaxCrashes \in Nat /\ MaxFaults \in Nat

VARIABLES
    role,      \* "primary", "proxy" or "off"
    linked,    \* the processes with an open link to the primary
    counter,   \* callIdCounter
    pending,   \* pendingCalls: who waits for which id
    held,      \* relayed calls that wait for the extension at the primary
    fwd, back, \* messages on each link, to and from the primary
    ext,       \* the process that the extension's socket leads to
    down, up,  \* messages on that socket, to and from the extension
    work,      \* the extension's entry for each call
    registry,  \* _inflightBridgeCalls: the call registered under each id
    call,      \* what the MCP client sees of each call
    begun,     \* how often the extension has started a call
    told,      \* relayed calls that the primary was asked to cancel
    faults     \* drops, kills, crashes; has the extension's socket ever closed?

bridgeVars == <<role, linked, counter, held>>
linkVars == <<fwd, back>>
sockVars == <<ext, down, up>>
swVars == <<work, registry, begun>>
vars == <<bridgeVars, pending, linkVars, sockVars, swVars, call, told, faults>>

Ids == 1 .. 3 * Cardinality(Calls)   \* more than a process gives out
NoWork == [st |-> "none", id |-> 0, aborted |-> FALSE]

Init ==
    /\ role = [p \in Procs |-> IF p = First THEN "primary" ELSE "proxy"]
    /\ linked = Procs \ {First}
    /\ counter = [p \in Procs |-> 0]
    /\ pending = [p \in Procs |-> {}]
    /\ held = [p \in Procs |-> {}]
    /\ fwd = [p \in Procs |-> <<>>] /\ back = [p \in Procs |-> <<>>]
    /\ ext = First /\ down = <<>> /\ up = <<>>
    /\ work = [c \in Calls |-> NoWork]
    /\ registry = [i \in Ids |-> NoCall]
    /\ call = [c \in Calls |-> [st |-> "idle", aborted |-> FALSE, answer |-> "none"]]
    /\ begun = [c \in Calls |-> 0]
    /\ told = {}
    /\ faults = [drop |-> 0, kill |-> 0, crash |-> 0, lost |-> FALSE]

Primary(p) == role[p] = "primary"
NoPrimary == \A p \in Procs : ~Primary(p)
ThePrimary == CHOOSE p \in Procs : Primary(p)

MoreFaults == faults.drop + faults.kill + faults.crash < MaxFaults

-----------------------------------------------------------------------------
(* Messages.                                                               *)

Call(id, c) == [type |-> "call", id |-> id, call |-> c]
Cancel(id) == [type |-> "cancel", id |-> id, call |-> NoCall]
Result(id, what) == [id |-> id, what |-> what]

\* What p sends reaches the extension while it is connected to p, else it is
\* dropped without notice.
ToExt(p, msgs) == IF ext = p THEN down \o msgs ELSE down

Answer(c, what) == call' = [call EXCEPT ![c].st = "done", ![c].answer = what]

\* A pending entry: a call of p itself, one that p has proxied (sid = id) or
\* one that p relays for the process "from", which knows it as sid.
Entry(id, c, from, sid) == [id |-> id, call |-> c, from |-> from, sid |-> sid]
Relayed(p, r) == r.from # p
Proxied(p, r) == r.from = p /\ r.sid # 0

\* Entry r of p gets a result.
Deliver(p, r, what) ==
    IF Relayed(p, r)
    THEN /\ back' = IF r.from \in linked
                    THEN [back EXCEPT ![r.from] = Append(@, Result(r.sid, what))]
                    ELSE back
         /\ UNCHANGED call
    ELSE Answer(r.call, what) /\ UNCHANGED back

-----------------------------------------------------------------------------
(* callExtensionTool.                                                      *)

\* The extension, or for a secondary the link, is there.
Ready(p) == IF Primary(p) THEN ext = p ELSE role[p] = "proxy" /\ p \in linked

\* The client's abort listener runs right after the call was sent when the
\* client cancelled while it waited.
SendCall(c) ==
    LET p   == Home[c]
        id  == counter[p] + 1
        out == IF call[c].aborted THEN <<Call(id, c), Cancel(id)>> ELSE <<Call(id, c)>>
        sid == IF Primary(p) THEN 0 ELSE id
    IN  /\ call[c].st \in {"idle", "waiting"} /\ Ready(p)
        /\ counter' = [counter EXCEPT ![p] = id]
        /\ IF call[c].aborted
           THEN Answer(c, "cancelled") /\ UNCHANGED pending
           ELSE /\ call' = [call EXCEPT ![c].st = "pending"]
                /\ pending' = [pending EXCEPT ![p] = @ \cup {Entry(id, c, p, sid)}]
        /\ IF Primary(p)
           THEN down' = down \o out /\ UNCHANGED fwd
           ELSE fwd' = [fwd EXCEPT ![p] = @ \o out] /\ UNCHANGED down
        /\ UNCHANGED <<role, linked, held, back, ext, up, swVars, told, faults>>

\* The extension or the primary is away: wait for it.
Wait(c) ==
    /\ call[c].st = "idle" /\ role[Home[c]] # "off" /\ ~Ready(Home[c])
    /\ call' = [call EXCEPT ![c].st = "waiting"]
    /\ UNCHANGED <<bridgeVars, pending, linkVars, sockVars, swVars, told, faults>>

\* It did not come back within the grace period.
GiveUp(c) ==
    /\ call[c].st = "waiting" /\ ~Ready(Home[c])
    /\ Answer(c, "error")
    /\ UNCHANGED <<bridgeVars, pending, linkVars, sockVars, swVars, told, faults>>

\* p stops waiting for r: tell whoever works on it.
Tell(p, r) ==
    IF Proxied(p, r)
    THEN /\ fwd' = IF p \in linked
                   THEN [fwd EXCEPT ![p] = Append(@, Cancel(r.id))] ELSE fwd
         /\ UNCHANGED down
    ELSE down' = ToExt(p, <<Cancel(r.id)>>) /\ UNCHANGED fwd

\* The call's own timeout, or the backstop of a relayed call.
Timeout(p, r) ==
    /\ r \in pending[p]
    /\ pending' = [pending EXCEPT ![p] = @ \ {r}]
    /\ Tell(p, r)
    /\ Deliver(p, r, "timeout")
    /\ UNCHANGED <<bridgeVars, ext, up, swVars, told, faults>>

\* The MCP client cancels; a call that still waits finds out when it is sent.
ClientCancels(c) ==
    LET p == Home[c]
    IN  /\ call[c].st \in {"waiting", "pending"} /\ ~call[c].aborted
        /\ IF call[c].st = "waiting"
           THEN /\ call' = [call EXCEPT ![c].aborted = TRUE]
                /\ UNCHANGED <<pending, fwd, down>>
           ELSE \E r \in pending[p] :
                  /\ r.call = c
                  /\ pending' = [pending EXCEPT ![p] = @ \ {r}]
                  /\ Tell(p, r)
                  /\ call' = [call EXCEPT ![c] =
                       [st |-> "done", aborted |-> TRUE, answer |-> "cancelled"]]
        /\ UNCHANGED <<bridgeVars, back, ext, up, swVars, told, faults>>

-----------------------------------------------------------------------------
(* The primary's side of a link.                                           *)

\* The secondary's number of the call would be used as it is.
RelayIdMutant(p, sid) == sid

\* "We hijack the ID to map it back": the id under which p relays a call.
RelayId(p, sid) == counter[p] + 1

\* dispatch: the call of process "from", known there as sid, goes to the
\* extension; from is NoProc when its link has closed meanwhile.
Dispatch(p, from, sid, c) ==
    LET id == RelayId(p, sid)
    IN  /\ counter' = [counter EXCEPT ![p] = id]
        /\ pending' = [pending EXCEPT ![p] = @ \cup {Entry(id, c, from, sid)}]
        /\ down' = ToExt(p, <<Call(id, c)>>)

Shift(chan, s) == [chan EXCEPT ![s] = Tail(@)]

RelayCall(p, s) ==
    /\ Primary(p) /\ s \in linked /\ fwd[s] # <<>> /\ Head(fwd[s]).type = "call"
    /\ fwd' = Shift(fwd, s)
    /\ LET m == Head(fwd[s])
       IN  \/ ext = p /\ Dispatch(p, s, m.id, m.call) /\ UNCHANGED held
           \/ /\ ext # p
              /\ held' = [held EXCEPT ![p] = @ \cup {[call |-> m.call, from |-> s, sid |-> m.id]}]
              /\ UNCHANGED <<counter, pending, down>>
    /\ UNCHANGED <<role, linked, back, ext, up, swVars, call, told, faults>>

\* The wait for the extension would be taken up twice.
UnheldMutant(p, h) == held

Unheld(p, h) == [held EXCEPT ![p] = @ \ {h}]

\* The extension is back in time.
HeldResumes(p, h) ==
    /\ h \in held[p] /\ ext = p
    /\ held' = Unheld(p, h)
    /\ Dispatch(p, h.from, h.sid, h.call)
    /\ UNCHANGED <<role, linked, linkVars, ext, up, swVars, call, told, faults>>

\* "Chrome extension is not connected to the primary server."
HeldExpires(p, h) ==
    /\ h \in held[p] /\ ext # p
    /\ held' = Unheld(p, h)
    /\ back' = IF h.from \in linked
               THEN [back EXCEPT ![h.from] = Append(@, Result(h.sid, "error"))] ELSE back
    /\ UNCHANGED <<role, linked, counter, pending, fwd, sockVars, swVars, call, told, faults>>

\* INTERNAL_PROXY_CANCEL: _proxyCalls of the link knows the relayed calls.
RelayCancel(p, s) ==
    /\ Primary(p) /\ s \in linked /\ fwd[s] # <<>> /\ Head(fwd[s]).type = "cancel"
    /\ fwd' = Shift(fwd, s)
    /\ LET sid  == Head(fwd[s]).id
           mine == {r \in pending[p] : r.from = s /\ Relayed(p, r) /\ r.sid = sid}
       IN  /\ pending' = [pending EXCEPT ![p] = @ \ mine]
           /\ down' = ToExt(p, SetToSeq({Cancel(r.id) : r \in mine}))
           /\ told' = told \cup {h.call : h \in {h \in held[p] : h.from = s /\ h.sid = sid}}
                           \cup {r.call : r \in mine}
    /\ UNCHANGED <<bridgeVars, back, ext, up, swVars, call, faults>>

\* TOOL_RESULT from the extension; an id that nobody waits for is ignored.
TakeResult(p) ==
    /\ ext = p /\ up # <<>>
    /\ up' = Tail(up)
    /\ LET m    == Head(up)
           mine == {r \in pending[p] : r.id = m.id}
       IN  /\ pending' = [pending EXCEPT ![p] = @ \ mine]
           /\ IF mine = {} THEN UNCHANGED <<back, call>>
              ELSE \E r \in mine : Deliver(p, r, m.what)
    /\ UNCHANGED <<bridgeVars, fwd, ext, down, swVars, told, faults>>

\* TOOL_RESULT from the primary.
TakeRelayed(s) ==
    /\ s \in linked /\ back[s] # <<>>
    /\ back' = Shift(back, s)
    /\ LET m    == Head(back[s])
           mine == {r \in pending[s] : r.id = m.id}
       IN  /\ pending' = [pending EXCEPT ![s] = @ \ mine]
           /\ IF mine = {} THEN UNCHANGED call
              ELSE \E r \in mine : Answer(r.call, m.what)
    /\ UNCHANGED <<bridgeVars, fwd, sockVars, swVars, told, faults>>

-----------------------------------------------------------------------------
(* The extension.                                                          *)

\* TOOL_CALL: a later call takes over the id of an earlier one.
Register ==
    /\ down # <<>> /\ Head(down).type = "call"
    /\ LET m == Head(down)
       IN  /\ work' = [work EXCEPT ![m.call] = [st |-> "queued", id |-> m.id, aborted |-> FALSE]]
           /\ registry' = [registry EXCEPT ![m.id] = m.call]
    /\ down' = Tail(down)
    /\ UNCHANGED <<bridgeVars, pending, linkVars, ext, up, begun, call, told, faults>>

Alive(c) == work[c].st \in {"queued", "running"}

\* TOOL_CANCEL
CancelWork ==
    /\ down # <<>> /\ Head(down).type = "cancel"
    /\ LET c == registry[Head(down).id]
       IN  work' = IF c = NoCall THEN work ELSE [work EXCEPT ![c].aborted = TRUE]
    /\ down' = Tail(down)
    /\ UNCHANGED <<bridgeVars, pending, linkVars, ext, up, registry, begun, call, told, faults>>

\* The entry's own timer.
Deadline(c) ==
    /\ Alive(c) /\ ~work[c].aborted
    /\ work' = [work EXCEPT ![c].aborted = TRUE]
    /\ UNCHANGED <<bridgeVars, pending, linkVars, sockVars, registry, begun, call, told, faults>>

\* The call's turn; a cancelled one is not started.
Begin(c) ==
    /\ work[c].st = "queued" /\ ~work[c].aborted
    /\ work' = [work EXCEPT ![c].st = "running"]
    /\ begun' = [begun EXCEPT ![c] = Min({2, @ + 1})]
    /\ UNCHANGED <<bridgeVars, pending, linkVars, sockVars, registry, call, told, faults>>

\* _finishBridgeCall would forget whoever holds the id now.
DeregisteredMutant(c) == [registry EXCEPT ![work[c].id] = NoCall]

Deregistered(c) ==
    [registry EXCEPT ![work[c].id] = IF @ = c THEN NoCall ELSE @]

\* The result goes to the socket that is open now.
Finish(c) ==
    /\ work[c].st = "running" \/ (work[c].st = "queued" /\ work[c].aborted)
    /\ \E what \in {c} \cup (IF work[c].aborted THEN {"cancelled"} ELSE {}) :
         /\ what = c => work[c].st = "running"
         /\ up' = IF ext = NoProc THEN up ELSE Append(up, Result(work[c].id, what))
    /\ registry' = Deregistered(c)
    /\ work' = [work EXCEPT ![c].st = "over"]
    /\ UNCHANGED <<bridgeVars, pending, linkVars, ext, down, begun, call, told, faults>>

-----------------------------------------------------------------------------
(* Connections and failures.                                               *)

Silent == ext' = NoProc /\ down' = <<>> /\ up' = <<>>

\* "A dropped WebSocket does NOT cancel anything: the bridge may reconnect."
Drop ==
    /\ ext # NoProc /\ faults.drop < MaxDrops /\ MoreFaults
    /\ faults' = [faults EXCEPT !.drop = @ + 1, !.lost = TRUE]
    /\ Silent
    /\ UNCHANGED <<bridgeVars, pending, linkVars, swVars, call, told>>

KillWorker ==
    /\ faults.kill < MaxKills /\ MoreFaults
    /\ faults' = [faults EXCEPT !.kill = @ + 1, !.lost = TRUE]
    /\ Silent
    /\ work' = [c \in Calls |-> NoWork]
    /\ registry' = [i \in Ids |-> NoCall]
    /\ UNCHANGED <<bridgeVars, pending, linkVars, begun, call, told>>

Connect(p) ==
    /\ ext = NoProc /\ Primary(p)
    /\ ext' = p
    /\ UNCHANGED <<bridgeVars, pending, linkVars, down, up, swVars, call, told, faults>>

\* The primary would leave the calls of a closed link to their backstop.
OrphansMutant(p, s) == {}

\* The calls that p relays for s when the link to s closes.
Orphans(p, s) == {r \in pending[p] : r.from = s /\ Relayed(p, r)}

\* A process dies with its client; its sockets close.
Crash(p) ==
    /\ role[p] # "off" /\ faults.crash < MaxCrashes /\ MoreFaults
    /\ faults' = [faults EXCEPT !.crash = @ + 1, !.lost = @ \/ ext = p]
    /\ role' = [role EXCEPT ![p] = "off"]
    /\ counter' = [counter EXCEPT ![p] = 0]
    /\ call' = [c \in Calls |->
         IF Home[c] = p /\ call[c].st \in {"waiting", "pending"}
         THEN [call[c] EXCEPT !.st = "lost"] ELSE call[c]]
    /\ \/ /\ Primary(p)
          /\ linked' = {}
          /\ pending' = [pending EXCEPT ![p] = {}]
          /\ held' = [held EXCEPT ![p] = {}]
          /\ fwd' = [q \in Procs |-> <<>>] /\ back' = fwd'
          /\ IF ext = p THEN Silent ELSE UNCHANGED sockVars
       \/ /\ ~Primary(p)
          /\ linked' = linked \ {p}
          /\ fwd' = [fwd EXCEPT ![p] = <<>>] /\ back' = [back EXCEPT ![p] = <<>>]
          /\ IF p \in linked
             THEN LET q == ThePrimary
                      o == Orphans(q, p)
                  IN  /\ pending' = [pending EXCEPT ![p] = {}, ![q] = @ \ o]
                      /\ held' = [held EXCEPT ![q] =
                           {[h EXCEPT !.from = IF @ = p THEN NoProc ELSE @] : h \in @}]
                      /\ down' = ToExt(q, SetToSeq({Cancel(r.id) : r \in o}))
             ELSE pending' = [pending EXCEPT ![p] = {}] /\ UNCHANGED <<held, down>>
          /\ UNCHANGED <<ext, up>>
    /\ UNCHANGED <<swVars, told>>

\* A process starts, or recovers after its link closed: it takes the port if
\* it is free, else it links to the primary.
Join(p) ==
    /\ role[p] = "off" \/ (role[p] = "proxy" /\ p \notin linked)
    /\ \/ /\ NoPrimary
          /\ role' = [role EXCEPT ![p] = "primary"] /\ UNCHANGED linked
       \/ /\ ~NoPrimary
          /\ role' = [role EXCEPT ![p] = "proxy"] /\ linked' = linked \cup {p}
    /\ UNCHANGED <<counter, held, pending, linkVars, sockVars, swVars, call, told, faults>>

\* "... closed and recovery window expired."
RecoveryExpires(p) ==
    /\ role[p] = "proxy" /\ p \notin linked /\ pending[p] # {}
    /\ pending' = [pending EXCEPT ![p] = {}]
    /\ call' = [c \in Calls |-> IF \E r \in pending[p] : r.call = c
                                THEN [call[c] EXCEPT !.st = "done", !.answer = "error"]
                                ELSE call[c]]
    /\ UNCHANGED <<bridgeVars, linkVars, sockVars, swVars, told, faults>>

-----------------------------------------------------------------------------
ClientStep(c) == SendCall(c) \/ Wait(c) \/ GiveUp(c)

LinkStep(p) ==
    \/ TakeResult(p) \/ TakeRelayed(p)
    \/ \E s \in Procs : RelayCall(p, s) \/ RelayCancel(p, s)
    \/ \E h \in held[p] : HeldResumes(p, h) \/ HeldExpires(p, h)

Timers(p) == \E r \in pending[p] : Timeout(p, r)

ExtensionStep ==
    \/ Register \/ CancelWork
    \/ \E c \in Calls : Begin(c) \/ Finish(c)

\* Every call has been answered and nothing is left to do.
Rest ==
    /\ \A c \in Calls : call[c].st \in {"done", "lost"} /\ ~Alive(c)
    /\ UNCHANGED vars

Next ==
    \/ \E c \in Calls : ClientStep(c) \/ ClientCancels(c) \/ Deadline(c)
    \/ \E p \in Procs :
         \/ LinkStep(p) \/ Timers(p)
         \/ Connect(p) \/ Crash(p) \/ Join(p) \/ RecoveryExpires(p)
    \/ ExtensionStep \/ Drop \/ KillWorker
    \/ Rest

Spec == Init /\ [][Next]_vars

\* Timers expire, sockets deliver and the extension makes progress; nothing
\* obliges anything to connect again.
Fairness ==
    /\ \A c \in Calls : WF_vars(GiveUp(c)) /\ WF_vars(SendCall(c) /\ call[c].st = "waiting")
    /\ \A p \in Procs : WF_vars(Timers(p))

FairSpec == Spec /\ Fairness

-----------------------------------------------------------------------------
(* Properties.                                                             *)

\* Types; one process owns the port, the ids that a process waits for are
\* distinct and were given out by it (callIdCounter, index.js:872), and the
\* process of a client that waits has an entry that an answer or a timer will
\* settle.
TypeOK ==
    /\ role \in [Procs -> {"primary", "proxy", "off"}]
    /\ Cardinality({p \in Procs : Primary(p)}) <= 1
    /\ linked \subseteq {p \in Procs : role[p] = "proxy"}
    /\ counter \in [Procs -> 0 .. Cardinality(Calls)]
    /\ \A p \in Procs :
         /\ \A r \in pending[p] :
              /\ r \in [id : Ids, call : Calls, from : Procs \cup {NoProc}, sid : 0 .. Cardinality(Calls)]
              /\ r.id <= counter[p]
         /\ \A r, q \in pending[p] : r.id = q.id => r = q
         /\ held[p] \subseteq [call : Calls, from : Procs \cup {NoProc}, sid : Ids]
    /\ ext \in Procs \cup {NoProc} /\ (ext # NoProc => Primary(ext))
    /\ work \in [Calls -> [st : {"none", "queued", "running", "over"},
                           id : 0 .. Cardinality(Calls), aborted : BOOLEAN]]
    /\ registry \in [Ids -> Calls \cup {NoCall}]
    /\ \A c \in Calls :
         /\ call[c].st \in {"idle", "waiting", "pending", "done", "lost"}
         /\ call[c].st = "pending" => \E r \in pending[Home[c]] : r.call = c
    /\ begun \in [Calls -> 0 .. 2]

\* The entries and ids of the processes are consistent, and a client never gets
\* the result of another call, as long as no process has died: "the server just
\* ignores the stale id" (service-worker.js:3958).  The ids of the next primary
\* start at 1 again, so a take-over is left out of that part.
OwnResult ==
    /\ TypeOK
    /\ faults.crash = 0 =>
        \A c \in Calls : call[c].answer \in {c, "none", "timeout", "cancelled", "error"}

\* The extension starts a call at most once, whatever waits, drops, crashes
\* and takes over in between: a click is never repeated.
StartedOnce == \A c \in Calls : begun[c] <= 1

\* While no socket has dropped: once all messages have arrived, the extension
\* works on nothing that nobody waits for (a client that cancelled, timed out
\* or died has had its call stopped).
NoAbandonedWork ==
    ~faults.lost /\ down = <<>> /\ (\A p \in Procs : fwd[p] = <<>>)
    => \A c \in Calls : Alive(c) /\ ~work[c].aborted => call[c].st = "pending"

\* A registered call can be cancelled until it is over, or a newer call takes
\* over its id: the end of an older call under that id does not unregister it.
StaysCancellable ==
    [][\A c \in Calls :
         Alive(c) /\ Alive(c)' /\ registry[work[c].id] = c
         => registry'[work[c].id] # NoCall]_vars

\* A cancelled relayed call is stopped, not sent: "stop the extension from
\* working on it" (index.js:3712).
CancelledNotSent ==
    [][\A p \in Procs, c \in told : \A r \in pending'[p] \ pending[p] : r.call # c]_vars

\* Every call is answered, or dies with its process: a call is made once, so
\* there is always a time at which no call waits.
Answered == []<>(\A c \in Calls : call[c].st \notin {"waiting", "pending"})

=============================================================================
