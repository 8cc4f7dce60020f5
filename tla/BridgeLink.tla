----------------------------- MODULE BridgeLink -----------------------------
(***************************************************************************)
(* The socket of the extension to the bridge (extension/background/         *)
(* service-worker.js): connecting, the fallback to the port that worked     *)
(* last, the retries, the watchdog, and what is restored in a new worker.   *)
(*                                                                         *)
(* A worker is killed with its memory, its sockets and its timers; the      *)
(* settings, the flag that the bridge is wanted and the alarm of the        *)
(* watchdog stay.  A handler of a socket acts on the global variables,      *)
(* whichever socket it belongs to.                                          *)
(***************************************************************************)
EXTENDS Naturals, FiniteSets

CONSTANTS
    Ports, NoPort,
    Default,      \* the port a worker starts with
    Socks, NoSock,
    Calm,         \* see Attentive
    MaxCommands, MaxKills, MaxTroubles   \* bounds of the model

ASSUME BridgeLinkAssumption ==
    /\ Default \in Ports /\ NoPort \notin Ports /\ NoSock \notin Socks
    /\ Calm \in BOOLEAN /\ {MaxCommands, MaxKills, MaxTroubles} \subseteq Nat
    /\ \E s, t \in Socks : s # t

VARIABLES
    sw,      \* memory of the worker, its sockets, and what it has stored
    stage,  \* "down", or how far it has restored its state
    boot,    \* what it has read of the storage for that
    listens, \* what listens on a port
    asked,   \* what the user has asked for: the port, and if it should run
    spent    \* commands, kills and troubles so far

vars == <<sw, stage, boot, listens, asked, spent>>

Closed == [st |-> "none", port |-> NoPort]

Fresh(disk) ==
    [want |-> FALSE, auto |-> FALSE, port |-> Default, requested |-> Default, last |-> Default,
     tried |-> FALSE, startup |-> FALSE, timedOut |-> FALSE, connected |-> FALSE, beat |-> FALSE,
     ws |-> NoSock, retry |-> "off", retryPort |-> NoPort, fix |-> NoPort,
     sock |-> [s \in Socks |-> Closed], disk |-> disk]

Init ==
    /\ \E p \in Ports, a \in BOOLEAN : sw = Fresh([port |-> p, auto |-> a, flag |-> FALSE])
    /\ stage = "starting" /\ boot = sw.disk
    /\ listens \in [Ports -> {"up", "down"}]
    /\ asked = [port |-> sw.disk.port, run |-> IF sw.disk.auto THEN "on" ELSE "off"]
    /\ spent = [commands |-> 0, kills |-> 0, troubles |-> 0]

-----------------------------------------------------------------------------
(* Functions of the worker, as functions of its state m.                   *)

\* readyState OPEN: of a lost socket the worker has not heard yet.
IsOpen(m) == m.ws # NoSock /\ m.sock[m.ws].st \in {"open", "lost"}
IsConnecting(m) == m.ws # NoSock /\ m.sock[m.ws].st = "connecting"

\* The flag in the storage, with which the alarm of the watchdog comes and goes.
SetWant(m, b) == [m EXCEPT !.want = b, !.disk.flag = b]

Connect(m, p) ==
    IF IsOpen(m) \/ IsConnecting(m) THEN [m EXCEPT !.port = p]
    ELSE LET s == CHOOSE x \in Socks : m.sock[x].st = "none"
         IN  [m EXCEPT !.port = p, !.ws = s, !.sock[s] = [st |-> "connecting", port |-> p]]

StopAuto(m) == [m EXCEPT !.retry = "off", !.retryPort = NoPort]

Blocked(m) == ~m.want \/ m.connected \/ m.timedOut

TryConnect(m, p) == IF Blocked(m) THEN m ELSE [Connect(m, p) EXCEPT !.retry = "armed"]

\* The handle of a timer that has fired counts as a retry under way.
StartAuto(m, p, later) ==
    IF m.retry # "off" /\ m.retryPort = p THEN [m EXCEPT !.port = p]
    ELSE LET n == [StopAuto(m) EXCEPT !.port = p, !.retryPort = p]
         IN  IF later THEN [n EXCEPT !.retry = "armed"] ELSE TryConnect(n, p)

Gone(m, s) == [m EXCEPT !.sock[s] = Closed]

\* ws.onclose = null and ws.close(): of this socket only an error is heard yet.
Mute(m) ==
    LET n == [m EXCEPT !.ws = NoSock]
    IN  CASE m.ws = NoSock -> n
          [] IsConnecting(m) -> [n EXCEPT !.sock[m.ws].st = "aborted"]
          [] OTHER -> Gone(n, m.ws)

Disconnect(m) == [Mute(m) EXCEPT !.connected = FALSE, !.beat = FALSE]

FallsBack(m) == m.auto /\ ~m.connected /\ m.last # m.port /\ ~m.tried

Fallback(m) == StartAuto([m EXCEPT !.tried = TRUE], m.last, TRUE)

\* Without an open socket in ws, the greeting throws before the keepalive starts.
OnOpen(m, s) ==
    LET n == StopAuto([m EXCEPT !.sock[s].st = "open", !.connected = TRUE, !.startup = FALSE,
                                !.tried = FALSE, !.last = m.port])
    IN  IF n.ws # NoSock /\ ~IsConnecting(n) THEN [n EXCEPT !.beat = TRUE] ELSE n

OnError(m) ==
    IF m.startup THEN [m EXCEPT !.startup = FALSE]
    ELSE IF FallsBack(m) THEN Fallback(m) ELSE m

\* Whatever was tried, the next attempt would be at the port of this one.
OnCloseMutant(m) ==
    LET n == [m EXCEPT !.ws = NoSock, !.connected = FALSE, !.beat = FALSE]
    IN  IF n.want THEN StartAuto(n, n.port, TRUE) ELSE StopAuto(n)

OnClose(m) ==
    LET n == [m EXCEPT !.ws = NoSock, !.connected = FALSE, !.beat = FALSE]
    IN  CASE n.timedOut -> StopAuto(SetWant([n EXCEPT !.timedOut = FALSE], FALSE))
          [] ~n.timedOut /\ FallsBack(n) -> Fallback(n)
          [] ~n.timedOut /\ ~FallsBack(n) /\ n.want -> StartAuto(n, n.requested, TRUE)
          [] OTHER -> StopAuto(n)

-----------------------------------------------------------------------------
(* Events of the sockets and timers.                                       *)

Same == UNCHANGED <<stage, boot, listens, asked, spent>>

Opens(s) ==
    /\ sw.sock[s].st = "connecting" /\ listens[sw.sock[s].port] = "up"
    /\ sw' = OnOpen(sw, s) /\ Same

\* The error and the close are events of one task.
Fails(s) ==
    /\ sw.sock[s].st = "connecting" /\ listens[sw.sock[s].port] # "up"
    /\ sw' = OnClose(OnError(Gone(sw, s))) /\ Same

Closes(s) ==
    /\ sw.sock[s].st \in {"lost", "closing"}
    /\ sw' = OnClose(Gone(sw, s)) /\ Same

Aborts(s) ==
    /\ sw.sock[s].st = "aborted"
    /\ sw' = OnError(Gone(sw, s)) /\ Same

\* "Server unresponsive, disconnecting..."
Unanswered ==
    /\ sw.beat /\ IsOpen(sw) /\ listens[sw.sock[sw.ws].port] = "hung"
    /\ sw' = [sw EXCEPT !.sock[sw.ws].st = "closing"] /\ Same

\* The server names its own port.
ServerInfo(s) ==
    /\ sw.sock[s].st = "open" /\ listens[sw.sock[s].port] = "up"
    /\ sw' = [sw EXCEPT !.last = sw.sock[s].port] /\ Same

Retry ==
    /\ sw.retry = "armed"
    /\ sw' = IF Blocked(sw) THEN [sw EXCEPT !.retry = "spent"] ELSE TryConnect(sw, sw.retryPort)
    /\ Same

Tick ==
    /\ stage # "down" /\ sw.disk.flag /\ ~Blocked(sw) /\ ~IsConnecting(sw)
    /\ sw' = Connect(sw, sw.requested) /\ Same

-----------------------------------------------------------------------------
(* Commands of the user.                                                   *)

\* No socket is on its way out, of which the worker will hear.
Quiet == \A s \in Socks : sw.sock[s].st \notin {"lost", "closing", "aborted"}

\* The worker is up when it is told something.
Attentive == stage = "up" /\ sw.fix = NoPort /\ Quiet

MayCommand ==
    /\ stage # "down" /\ (Calm => Attentive) /\ spent.commands < MaxCommands
    /\ spent' = [spent EXCEPT !.commands = @ + 1]
    /\ UNCHANGED <<stage, boot, listens>>

\* What Connect in the popup, a chat message and Fix have in common.
Wanted(m, p) ==
    SetWant([m EXCEPT !.port = p, !.requested = p, !.startup = FALSE, !.timedOut = FALSE,
                      !.disk.port = p], TRUE)

Start(p) ==
    /\ MayCommand
    /\ sw' = Connect(Wanted(sw, p), p)
    /\ asked' = [port |-> p, run |-> "on"]

\* A retry under way would not be stopped.
StopMutant ==
    /\ MayCommand
    /\ sw' = Disconnect(SetWant([sw EXCEPT !.tried = FALSE], FALSE))
    /\ asked' = [asked EXCEPT !.run = "off"]

Stop ==
    /\ MayCommand
    /\ sw' = Disconnect(StopAuto(SetWant([sw EXCEPT !.auto = FALSE, !.disk.auto = FALSE,
                                                    !.tried = FALSE], FALSE)))
    /\ asked' = [asked EXCEPT !.run = "off"]

AutoOn ==
    /\ MayCommand
    /\ LET n == SetWant([sw EXCEPT !.auto = TRUE, !.disk.auto = TRUE, !.tried = FALSE,
                                   !.startup = FALSE], TRUE)
       IN  sw' = IF n.connected THEN n ELSE StartAuto(n, n.port, FALSE)
    /\ asked' = [asked EXCEPT !.run = "on"]

\* What is connected goes on, and so does a socket that is connecting.
AutoOff ==
    /\ MayCommand
    /\ LET n == [sw EXCEPT !.auto = FALSE, !.disk.auto = FALSE, !.tried = FALSE, !.startup = FALSE]
       IN  sw' = IF n.connected THEN n ELSE StopAuto(SetWant(n, FALSE))
    /\ asked' = IF sw.connected \/ asked.run # "on" THEN asked ELSE [asked EXCEPT !.run = "let"]

\* A chat message for the bridge, while there is no connection.
Chat ==
    /\ MayCommand /\ ~IsOpen(sw)
    /\ sw' = StartAuto(Connect(Wanted(sw, sw.port), sw.port), sw.port, TRUE)
    /\ asked' = [asked EXCEPT !.run = "on"]

FixBegins ==
    /\ MayCommand /\ sw.fix = NoPort
    /\ sw' = [sw EXCEPT !.fix = sw.requested]
    /\ UNCHANGED asked

\* After its awaits Fix goes back to the port, or to the only one that answers.
FixEnds(p) ==
    /\ sw.fix # NoPort
    /\ p = sw.fix \/ (listens[sw.fix] # "up" /\ {q \in Ports : listens[q] = "up"} = {p})
    /\ Calm => Quiet
    /\ LET n == StopAuto([Wanted(sw, p) EXCEPT !.tried = FALSE, !.fix = NoPort])
           k == IF IsOpen(n) THEN n ELSE Mute(n)
       IN  sw' = IF k.connected THEN k ELSE StartAuto(Connect(k, p), p, TRUE)
    /\ asked' = [port |-> p, run |-> "on"]
    /\ UNCHANGED <<stage, boot, listens, spent>>

-----------------------------------------------------------------------------
(* The worker and the bridges.                                             *)

Kill ==
    /\ stage # "down" /\ spent.kills < MaxKills
    /\ sw' = Fresh(sw.disk) /\ stage' = "down"
    /\ spent' = [spent EXCEPT !.kills = @ + 1]
    /\ UNCHANGED <<boot, listens, asked>>

Wake ==
    /\ stage = "down"
    /\ stage' = "starting" /\ boot' = sw.disk
    /\ UNCHANGED <<sw, listens, asked, spent>>

LoadSettings ==
    /\ stage = "starting"
    /\ sw' = [sw EXCEPT !.auto = boot.auto, !.tried = FALSE, !.port = boot.port,
                        !.requested = boot.port, !.last = boot.port]
    /\ stage' = "loaded" /\ boot' = [boot EXCEPT !.flag = sw.disk.flag]
    /\ UNCHANGED <<listens, asked, spent>>

\* The flag would not be read back.
LoadFlagMutant ==
    /\ stage = "loaded"
    /\ sw' = [SetWant(sw, boot.auto) EXCEPT !.startup = boot.auto]
    /\ stage' = "flagged"
    /\ UNCHANGED <<boot, listens, asked, spent>>

LoadFlag ==
    /\ stage = "loaded"
    /\ LET w == boot.auto \/ boot.flag IN sw' = [SetWant(sw, w) EXCEPT !.startup = w]
    /\ stage' = "flagged"
    /\ UNCHANGED <<boot, listens, asked, spent>>

Restored ==
    /\ stage = "flagged"
    /\ sw' = IF sw.want THEN StartAuto(sw, boot.port, FALSE) ELSE StopAuto(sw)
    /\ stage' = "up"
    /\ UNCHANGED <<boot, listens, asked, spent>>

MayTrouble ==
    /\ spent.troubles < MaxTroubles
    /\ spent' = [spent EXCEPT !.troubles = @ + 1]
    /\ UNCHANGED <<stage, boot>>

\* With a bridge go its connections.
BridgeEnds(p) ==
    /\ MayTrouble /\ listens[p] # "down"
    /\ listens' = [listens EXCEPT ![p] = "down"]
    /\ sw' = [sw EXCEPT !.sock = [s \in Socks |->
                 IF sw.sock[s] = [st |-> "open", port |-> p] THEN [sw.sock[s] EXCEPT !.st = "lost"]
                 ELSE sw.sock[s]]]
    /\ UNCHANGED asked

BridgeStarts(p) ==
    /\ listens[p] = "down" /\ listens' = [listens EXCEPT ![p] = "up"]
    /\ MayTrouble /\ UNCHANGED <<sw, asked>>

BridgeHangs(p) ==
    /\ listens[p] = "up" /\ listens' = [listens EXCEPT ![p] = "hung"]
    /\ MayTrouble /\ UNCHANGED <<sw, asked>>

BridgeRecovers(p) ==
    /\ listens[p] = "hung" /\ listens' = [listens EXCEPT ![p] = "up"]
    /\ MayTrouble /\ UNCHANGED <<sw, asked>>

\* The server ends the session for inactivity.
SessionTimeout(s) ==
    /\ MayTrouble /\ sw.sock[s].st = "open" /\ listens[sw.sock[s].port] = "up"
    /\ sw' = IF sw.auto THEN StartAuto(Disconnect(sw), sw.port, FALSE)
             ELSE Disconnect(StopAuto(SetWant([sw EXCEPT !.timedOut = TRUE], FALSE)))
    /\ asked' = IF sw.auto THEN asked ELSE [asked EXCEPT !.run = "off"]
    /\ UNCHANGED listens

-----------------------------------------------------------------------------

SockStep(s) == Opens(s) \/ Fails(s) \/ Closes(s) \/ Aborts(s)
Restore == LoadSettings \/ LoadFlag \/ Restored
Command ==
    \/ Stop \/ AutoOn \/ AutoOff \/ Chat \/ FixBegins
    \/ \E p \in Ports : Start(p)
Trouble ==
    \/ Kill
    \/ \E p \in Ports : BridgeEnds(p) \/ BridgeStarts(p) \/ BridgeHangs(p) \/ BridgeRecovers(p)
    \/ \E s \in Socks : SessionTimeout(s)

Next ==
    \/ \E s \in Socks : SockStep(s) \/ ServerInfo(s)
    \/ Unanswered \/ Retry \/ Tick \/ Wake \/ Restore
    \/ \E p \in Ports : FixEnds(p)
    \/ Command \/ Trouble

Spec == Init /\ [][Next]_vars

\* Events are delivered, timers fire, and the alarm wakes the worker.
Fairness ==
    /\ \A s \in Socks : WF_vars(SockStep(s))
    /\ WF_vars(Unanswered) /\ WF_vars(Retry) /\ WF_vars(Tick)
    /\ WF_vars(Wake /\ sw.disk.flag) /\ WF_vars(Restore)
    /\ WF_vars(\E p \in Ports : FixEnds(p))

FairSpec == Spec /\ Fairness

-----------------------------------------------------------------------------

\* Types.
TypeOK ==
    /\ sw \in [want : BOOLEAN, auto : BOOLEAN, port : Ports, requested : Ports, last : Ports,
               tried : BOOLEAN, startup : BOOLEAN, timedOut : BOOLEAN, connected : BOOLEAN,
               beat : BOOLEAN, ws : Socks \cup {NoSock}, retry : {"off", "armed", "spent"},
               retryPort : Ports \cup {NoPort}, fix : Ports \cup {NoPort},
               sock : [Socks -> [st : {"none", "connecting", "open", "lost", "closing", "aborted"},
                                 port : Ports \cup {NoPort}]],
               disk : [port : Ports, auto : BOOLEAN, flag : BOOLEAN]]
    /\ stage \in {"down", "starting", "loaded", "flagged", "up"}
    /\ boot \in [port : Ports, auto : BOOLEAN, flag : BOOLEAN]
    /\ listens \in [Ports -> {"up", "hung", "down"}]
    /\ asked \in [port : Ports, run : {"on", "off", "let"}]

\* The worker says that it is connected exactly while its socket is, and has no other one.
StatusTrue ==
    /\ sw.connected <=> sw.ws # NoSock /\ ~IsConnecting(sw)
    /\ sw.connected => sw.beat
    /\ \A s \in Socks \ {sw.ws} : sw.sock[s].st \in {"none", "aborted"}

\* Once it was stopped, the worker neither connects nor tries, nor does the next one.
StopIsFinal ==
    asked.run = "off" => sw.ws = NoSock /\ sw.retry # "armed" /\ ~sw.want /\ ~sw.disk.flag

\* A worker wants the bridge when the user does, whatever the one before was told.
WantKept == stage = "up" => (sw.want <=> asked.run = "on")

UnderWay == sw.connected \/ IsConnecting(sw) \/ sw.retry = "armed"

\* As long as the bridge is wanted, the next attempt is under way, without the watchdog.
KeepsTrying == stage = "up" /\ sw.want /\ ~sw.timedOut => UnderWay

\* What the worker says of its connection is true (onopen, onclose and
\* disconnectWebSocket act on the same variables); a Connect and a Stop of the
\* user hold for the next worker too; and while the bridge is wanted and missing,
\* an attempt is under way or armed.
LinkTrue == TypeOK /\ StatusTrue /\ StopIsFinal /\ WantKept /\ KeepsTrying

\* connectWebSocket, startAutoConnect and the watchdog: if the bridge stays
\* wanted and one listens on the port in the end, the extension is connected
\* to a bridge and stays so, whatever was lost, hung, killed or tried before.
Reconnects ==
    <>[](sw.disk.flag /\ ~sw.timedOut /\ (stage = "up" => listens[sw.requested] = "up"))
        => <>[](sw.connected /\ IsOpen(sw))

=============================================================================
