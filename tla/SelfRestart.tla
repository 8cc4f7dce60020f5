---------------------------- MODULE SelfRestart ----------------------------
(***************************************************************************)
(* In-place restart of a bridge onto a newer version (restartInPlace in     *)
(* server/index.js, server/self-restart.js): the process of the client      *)
(* stops reading, starts a successor and stays behind as a relay of the     *)
(* client's pipes, which replays the handshake of the session to the        *)
(* successor.  The successor can be replaced in the same way.               *)
(*                                                                         *)
(* The messages of the client are numbered.  One with a handshake sends 1,  *)
(* initialize, and after its answer 2, the notification "initialized"; one  *)
(* without it sends requests only.  A message passes a pipe as a whole.     *)
(***************************************************************************)
EXTENDS Naturals, Sequences, Functions

CONSTANTS
    Messages,   \* messages of the client
    Restarts    \* bound on restarts

\* What the constants are.
SelfRestartAssumption == Messages \in Nat /\ Messages > 2 /\ Restarts \in Nat

VARIABLES
    client,  \* whether it uses a handshake, what it has sent and the answers it has got
    inp,     \* the pipe to the stdin of each process
    out,     \* the pipe from its stdout
    bridge,  \* the processes
    took     \* messages of the client that a server has taken, in order

vars == <<client, inp, out, bridge, took>>

Procs == 0 .. Restarts
INITIALIZE == 1
INITIALIZED == 2

NoBridge == [st |-> "none", captured |-> <<>>, settled |-> FALSE, work |-> {},
             ready |-> FALSE, drop |-> FALSE, queued |-> <<>>]

Init ==
    /\ client \in [stateful : BOOLEAN, sent : {0}, got : {[k \in 1 .. Messages |-> 0]}]
    /\ inp = [p \in Procs |-> <<>>] /\ out = [p \in Procs |-> <<>>]
    /\ bridge = [p \in Procs |-> IF p = 0 THEN [NoBridge EXCEPT !.st = "serving"] ELSE NoBridge]
    /\ took = <<>>

Handshake == IF client.stateful THEN {INITIALIZE, INITIALIZED} ELSE {}
Notifications == Handshake \ {INITIALIZE}

-----------------------------------------------------------------------------
(* The client.                                                             *)

\* The notification follows the answer to initialize.
Send ==
    /\ client.sent < Messages
    /\ client.stateful /\ client.sent = INITIALIZE => client.got[INITIALIZE] > 0
    /\ client' = [client EXCEPT !.sent = @ + 1]
    /\ inp' = [inp EXCEPT ![0] = Append(@, [nr |-> client.sent + 1, replay |-> FALSE])]
    /\ UNCHANGED <<out, bridge, took>>

Receive ==
    /\ out[0] # <<>>
    /\ client' = [client EXCEPT !.got[Head(out[0])] = @ + 1]
    /\ out' = [out EXCEPT ![0] = Tail(@)]
    /\ UNCHANGED <<inp, bridge, took>>

-----------------------------------------------------------------------------
(* A process that serves its stdin.                                        *)

\* createHandshakeTap: it remembers the two messages of the handshake, and is
\* settled with the second one or with a request that comes first.
Tapped(b, m) ==
    IF b.settled THEN b
    ELSE IF m.nr \in Handshake
         THEN IF m.nr = INITIALIZED /\ b.captured = <<>> THEN b
              ELSE [b EXCEPT !.captured = Append(@, m.nr), !.settled = m.nr = INITIALIZED]
         ELSE [b EXCEPT !.settled = b.captured = <<>>]

\* A session that was not initialised is refused.
Takes(b, m) == m.nr \in Handshake \/ ~client.stateful \/ INITIALIZED \in Range(b.captured)

Serve(p) ==
    /\ bridge[p].st = "serving" /\ inp[p] # <<>>
    /\ LET m == Head(inp[p])
           b == Tapped(bridge[p], m)
       IN  /\ bridge' = [bridge EXCEPT ![p] =
                            [b EXCEPT !.work = IF m.nr \in Notifications THEN @ ELSE @ \cup {m.nr}]]
           /\ took' = IF ~m.replay /\ Takes(bridge[p], m) THEN Append(took, m.nr) ELSE took
    /\ inp' = [inp EXCEPT ![p] = Tail(@)]
    /\ UNCHANGED <<client, out>>

\* Requests are answered in any order.
Answer(p) ==
    \E k \in bridge[p].work :
        /\ bridge' = [bridge EXCEPT ![p].work = @ \ {k}]
        /\ out' = [out EXCEPT ![p] = Append(@, k)]
        /\ UNCHANGED <<client, inp, took>>

-----------------------------------------------------------------------------
(* restartInPlace and startRelay.                                          *)

\* A restart would not wait for the end of the handshake.
IdleMutant(b) == TRUE

\* bridgeIdleForRestart, as far as the messages tell: calls of the extension
\* are waited for, other work goes on and is answered by this process.
Idle(b) == b.settled

\* From here on what the client sends waits in the pipe.
StopReading(p) ==
    /\ p < Restarts /\ bridge[p].st = "serving" /\ Idle(bridge[p])
    /\ bridge' = [bridge EXCEPT ![p].st = "paused"]
    /\ UNCHANGED <<client, inp, out, took>>

\* The lines to replay: all of the handshake or nothing.
Replay(b) == IF INITIALIZED \in Range(b.captured) THEN b.captured ELSE <<>>

\* closeBridgeResources has returned.
Spawn(p) ==
    /\ bridge[p].st = "paused"
    /\ LET replay == Replay(bridge[p]) # <<>>
       IN  /\ bridge' = [bridge EXCEPT
                ![p] = [@ EXCEPT !.st = "relay", !.ready = ~replay, !.drop = replay],
                ![p + 1] = [NoBridge EXCEPT !.st = "serving"]]
           /\ inp' = [inp EXCEPT ![p + 1] =
                IF replay THEN <<[nr |-> INITIALIZE, replay |-> TRUE]>> ELSE <<>>]
    /\ UNCHANGED <<client, out, took>>

\* Queued input would be thrown away.
FlushedMutant(b) == <<>>

Flushed(b) == b.queued

\* becomeReady: the rest of the handshake, then what has been queued.
BecomeReady(p, b) ==
    /\ bridge' = [bridge EXCEPT ![p] = [b EXCEPT !.ready = TRUE, !.queued = <<>>]]
    /\ inp' = [inp EXCEPT ![p + 1] = IF b.ready THEN @
                ELSE Append(@, [nr |-> INITIALIZED, replay |-> TRUE]) \o Flushed(b)]

RelayIn(p) ==
    /\ bridge[p].st = "relay" /\ inp[p] # <<>>
    /\ IF bridge[p].ready
       THEN /\ inp' = [inp EXCEPT ![p] = Tail(@), ![p + 1] = Append(@, Head(inp[p]))]
            /\ UNCHANGED bridge
       ELSE /\ inp' = [inp EXCEPT ![p] = Tail(@)]
            /\ bridge' = [bridge EXCEPT ![p].queued = Append(@, Head(inp[p]))]
    /\ UNCHANGED <<client, out, took>>

\* The answer to the replayed initialize, which the client has got already.
Dropped(p, k) == bridge[p].drop /\ k = INITIALIZE

RelayOut(p) ==
    /\ bridge[p].st = "relay" /\ out[p + 1] # <<>>
    /\ IF Dropped(p, Head(out[p + 1]))
       THEN /\ BecomeReady(p, [bridge[p] EXCEPT !.drop = FALSE])
            /\ out' = [out EXCEPT ![p + 1] = Tail(@)]
       ELSE /\ out' = [out EXCEPT ![p + 1] = Tail(@), ![p] = Append(@, Head(out[p + 1]))]
            /\ UNCHANGED <<inp, bridge>>
    /\ UNCHANGED <<client, took>>

\* The successor has not answered for five seconds.
Timeout(p) ==
    /\ bridge[p].st = "relay" /\ ~bridge[p].ready
    /\ BecomeReady(p, bridge[p])
    /\ UNCHANGED <<client, out, took>>

-----------------------------------------------------------------------------
Progress(p) == Serve(p) \/ Answer(p) \/ Spawn(p) \/ RelayIn(p) \/ RelayOut(p)

Next ==
    \/ Send \/ Receive
    \/ \E p \in Procs : Progress(p) \/ StopReading(p) \/ Timeout(p)

Spec == Init /\ [][Next]_vars

\* Pipes deliver, and requests are answered.
Goes(p) ==
    /\ WF_vars(Serve(p)) /\ WF_vars(Answer(p)) /\ WF_vars(Spawn(p))
    /\ WF_vars(RelayIn(p)) /\ WF_vars(RelayOut(p))

Fairness == WF_vars(Receive) /\ \A p \in Procs : Goes(p)

FairSpec == Spec /\ Fairness

-----------------------------------------------------------------------------
(* Properties.                                                             *)

\* Types; a relay that is not ready yet has sent nothing of the client's.
TypeOK ==
    /\ client \in [stateful : BOOLEAN, sent : 0 .. Messages, got : [1 .. Messages -> 0 .. Restarts + 1]]
    /\ \A p \in Procs :
         /\ inp[p] \in Seq([nr : 1 .. Messages, replay : BOOLEAN])
         /\ out[p] \in Seq(1 .. Messages)
         /\ bridge[p].st \in {"none", "serving", "paused", "relay"}
         /\ bridge[p].st = "relay" /\ ~bridge[p].ready => \A m \in Range(inp[p + 1]) : m.replay
    /\ took \in Seq(1 .. Messages)

\* Served means served in the order in which it was sent: what comes after a gap
\* or twice does not count.
InOrder(s) == IF \A i \in DOMAIN s : s[i] = i THEN Len(s) ELSE Messages + 1

Session == INSTANCE StdioSession WITH
    notes <- Notifications, sent <- client.sent, served <- InOrder(took), answered <- client.got

\* The client cannot tell that its bridge has been restarted: every message of
\* it is served once and in order, every request is answered once, by whatever
\* process ("a 2025-era stdio session is stateful and the new process must be
\* told the handshake already happened", self-restart.js:17-21).
SessionKept == Session!FairSpec

=============================================================================
