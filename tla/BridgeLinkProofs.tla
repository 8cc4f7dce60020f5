-------------------------- MODULE BridgeLinkProofs --------------------------
(***************************************************************************)
(* What the extension says of its connection is true, and what its user has *)
(* asked for holds, for any ports, bridges, commands, kills and troubles,    *)
(* when commands are calm: LinkInv is inductive and gives LinkTrue.          *)
(***************************************************************************)
EXTENDS BridgeLink, TLAPS

USE BridgeLinkAssumption

-----------------------------------------------------------------------------
(* The invariant: what holds of the memory of a worker at any time.         *)

\* What a worker's memory holds.
SockStates == {"none", "connecting", "open", "lost", "closing", "aborted"}
Sockets == [Socks -> [st : SockStates, port : Ports \cup {NoPort}]]
Disks == [port : Ports, auto : BOOLEAN, flag : BOOLEAN]

Memories ==
    [want : BOOLEAN, auto : BOOLEAN, port : Ports, requested : Ports, last : Ports,
     tried : BOOLEAN, startup : BOOLEAN, timedOut : BOOLEAN, connected : BOOLEAN,
     beat : BOOLEAN, ws : Socks \cup {NoSock}, retry : {"off", "armed", "spent"},
     retryPort : Ports \cup {NoPort}, fix : Ports \cup {NoPort}, sock : Sockets, disk : Disks]

\* Beside ws there is at most one socket, which was let go while it connected.
Aside(m) ==
    /\ \A s \in Socks \ {m.ws} : m.sock[s].st \in {"none", "aborted"}
    /\ \A s, t \in Socks : m.sock[s].st = "aborted" /\ m.sock[t].st = "aborted" => s = t
    /\ \A s \in Socks : m.sock[s].st # "none" => m.sock[s].port \in Ports

\* What the worker says of the socket in ws.
Status(m) ==
    /\ m.ws # NoSock => m.sock[m.ws].st \in {"connecting", "open", "lost", "closing"}
    /\ m.connected <=> m.ws # NoSock /\ ~IsConnecting(m)
    /\ m.connected => m.beat

\* A retry is under way only when it would connect.
Tries(m) ==
    /\ m.retry # "spent"
    /\ m.retry = "armed" => m.retryPort \in Ports /\ ~Blocked(m)

\* After the end of a session there is no socket from which a fallback comes.
Over(m) ==
    m.timedOut => m.ws = NoSock /\ (m.auto => \A s \in Socks : m.sock[s].st # "aborted")

WorkerOK(m) == m \in Memories /\ Aside(m) /\ Status(m) /\ Tries(m) /\ Over(m)

\* As long as the bridge is wanted, something is under way.
Going(m) == m.want /\ ~m.timedOut => m.connected \/ IsConnecting(m) \/ m.retry = "armed"

\* What is stored is what the worker goes by.
Stored(m) == m.want = m.disk.flag /\ m.auto = m.disk.auto /\ (m.auto => m.want)

\* Until the worker wants the bridge it has no sockets and no timers.
Dormant(m) ==
    /\ ~m.want /\ m.ws = NoSock /\ m.retry = "off" /\ ~m.timedOut
    /\ \A s \in Socks : m.sock[s].st = "none"

\* What a new worker has read, and what it still has to read, is what is stored.
Restoring ==
    /\ stage \in {"down", "starting", "loaded"} => Dormant(sw)
    /\ stage \in {"starting", "loaded"} => boot.auto = sw.disk.auto /\ boot.flag = sw.disk.flag
    /\ stage = "loaded" => sw.auto = sw.disk.auto
    /\ stage \in {"flagged", "up"} => Stored(sw)
    /\ stage # "up" => sw.fix = NoPort

\* What the user has asked for is what is stored.
Obeyed ==
    /\ asked.run = "on" <=> sw.disk.auto \/ sw.disk.flag
    /\ asked.run = "off" => sw.ws = NoSock /\ ~sw.want

\* The types of the rest.
OthersOK ==
    /\ stage \in {"down", "starting", "loaded", "flagged", "up"}
    /\ boot \in Disks /\ listens \in [Ports -> {"up", "hung", "down"}]
    /\ asked \in [port : Ports, run : {"on", "off", "let"}]

\* The inductive invariant.
LinkInv ==
    /\ OthersOK /\ WorkerOK(sw) /\ Restoring /\ Obeyed
    /\ stage = "up" => Going(sw)

-----------------------------------------------------------------------------
(* The functions of the worker.                                            *)

(* Setting one variable of a memory gives a memory.                         *)
LEMMA MemoryUpdate ==
    ASSUME NEW m \in Memories
    PROVE  /\ \A b \in BOOLEAN :
                /\ [m EXCEPT !.want = b] \in Memories
                /\ [m EXCEPT !.auto = b] \in Memories
                /\ [m EXCEPT !.tried = b] \in Memories
                /\ [m EXCEPT !.startup = b] \in Memories
                /\ [m EXCEPT !.timedOut = b] \in Memories
                /\ [m EXCEPT !.connected = b] \in Memories
                /\ [m EXCEPT !.beat = b] \in Memories
           /\ \A p \in Ports :
                /\ [m EXCEPT !.port = p] \in Memories
                /\ [m EXCEPT !.requested = p] \in Memories
                /\ [m EXCEPT !.last = p] \in Memories
           /\ \A p \in Ports \cup {NoPort} :
                /\ [m EXCEPT !.retryPort = p] \in Memories
                /\ [m EXCEPT !.fix = p] \in Memories
           /\ \A r \in {"off", "armed", "spent"} : [m EXCEPT !.retry = r] \in Memories
           /\ \A s \in Socks \cup {NoSock} : [m EXCEPT !.ws = s] \in Memories
           /\ \A k \in Sockets : [m EXCEPT !.sock = k] \in Memories
           /\ \A d \in Disks : [m EXCEPT !.disk = d] \in Memories
BY DEF Memories

\* What trying to connect leaves alone, and the sockets.
Keeps(n, m) ==
    /\ n.want = m.want /\ n.auto = m.auto /\ n.disk = m.disk /\ n.timedOut = m.timedOut
    /\ n.connected = m.connected /\ n.beat = m.beat /\ n.fix = m.fix
KeepsSocks(n, m) == n.ws = m.ws /\ n.sock = m.sock

(* What the invariant says of a worker depends on these variables only.     *)
LEMMA SameOK ==
    ASSUME NEW m, WorkerOK(m), NEW n \in Memories, Keeps(n, m), KeepsSocks(n, m),
           n.retry = m.retry, n.retryPort = m.retryPort
    PROVE  WorkerOK(n)
BY DEF WorkerOK, Aside, Status, Tries, Over, Blocked, IsConnecting, Keeps, KeepsSocks

(* Beside them a retry may be stopped or armed.                             *)
LEMMA TriesOK ==
    ASSUME NEW m, WorkerOK(m), NEW n \in Memories, Keeps(n, m), KeepsSocks(n, m), Tries(n)
    PROVE  WorkerOK(n)
BY DEF WorkerOK, Aside, Status, Over, IsConnecting, Keeps, KeepsSocks

(* stopAutoConnect changes nothing but the retry.                           *)
LEMMA StopAutoFacts ==
    ASSUME NEW m \in Memories
    PROVE  /\ StopAuto(m) \in Memories
           /\ Keeps(StopAuto(m), m) /\ KeepsSocks(StopAuto(m), m)
           /\ StopAuto(m).retry = "off"
BY DEF Memories, StopAuto, Keeps, KeepsSocks

(* _setShouldRunMcp stores what it sets.                                    *)
LEMMA SetWantFacts ==
    ASSUME NEW m \in Memories, NEW b \in BOOLEAN
    PROVE  LET n == SetWant(m, b)
           IN  /\ n \in Memories
               /\ Keeps(n, [m EXCEPT !.want = b, !.disk.flag = b]) /\ KeepsSocks(n, m)
               /\ n.retry = m.retry /\ n.retryPort = m.retryPort
BY DEF Memories, Disks, SetWant, Keeps, KeepsSocks

(* A socket that is not in use.                                             *)
LEMMA SpareSocket ==
    ASSUME NEW m \in Memories, Aside(m), m.ws # NoSock => m.sock[m.ws].st = "none"
    PROVE  \E s \in Socks : m.sock[s].st = "none"
BY DEF Memories, Sockets, SockStates, Aside

(* connectWebSocket, when there is no connection, leaves a socket           *)
(* connecting.                                                              *)
LEMMA ConnectFacts ==
    ASSUME NEW m, WorkerOK(m), NEW p \in Ports, ~m.connected, ~m.timedOut
    PROVE  LET n == Connect(m, p)
           IN  /\ WorkerOK(n) /\ Keeps(n, m) /\ IsConnecting(n)
               /\ n.retry = m.retry /\ n.retryPort = m.retryPort
<1> DEFINE n == Connect(m, p)
<1>1. CASE IsConnecting(m)
  <2>1. n = [m EXCEPT !.port = p]
    BY <1>1 DEF Connect
  <2>2. n \in Memories
    BY <2>1, MemoryUpdate DEF WorkerOK
  <2> QED
    BY <1>1, <2>1, <2>2 DEF WorkerOK, Memories, Aside, Status, Tries, Over, Blocked, IsConnecting, IsOpen, Keeps
<1>2. CASE ~IsConnecting(m)
  <2>1. m.ws = NoSock
    BY <1>2 DEF WorkerOK, Status
  <2> DEFINE s == CHOOSE x \in Socks : m.sock[x].st = "none"
  <2>2. s \in Socks /\ m.sock[s].st = "none"
    BY <2>1, SpareSocket DEF WorkerOK
  <2>3. n = [m EXCEPT !.port = p, !.ws = s, !.sock[s] = [st |-> "connecting", port |-> p]]
    BY <1>2, <2>1 DEF Connect, IsOpen
  <2> HIDE DEF s, n
  <2>4. n \in Memories
    BY <2>2, <2>3 DEF WorkerOK, Memories, Sockets, SockStates
  <2>5. /\ n.ws = s /\ n.sock = [m.sock EXCEPT ![s] = [st |-> "connecting", port |-> p]]
        /\ Keeps(n, m) /\ n.retry = m.retry /\ n.retryPort = m.retryPort
    BY <2>3 DEF WorkerOK, Memories, Keeps
  <2>6. Aside(n) /\ Status(n) /\ Over(n) /\ IsConnecting(n)
    BY <2>1, <2>2, <2>5 DEF WorkerOK, Memories, Sockets, Aside, Status, Over, IsConnecting, Keeps
  <2>7. Tries(n)
    BY <2>5 DEF WorkerOK, Tries, Blocked, Keeps
  <2> QED  BY <2>4, <2>5, <2>6, <2>7 DEF WorkerOK, n
<1> QED  BY <1>1, <1>2

(* A retry that is due later.                                               *)
LEMMA LaterFacts ==
    ASSUME NEW m \in Memories, Tries(m), ~Blocked(m), NEW p \in Ports
    PROVE  LET n == StartAuto(m, p, TRUE)
           IN  /\ n \in Memories /\ Tries(n) /\ n.retry = "armed"
               /\ Keeps(n, m) /\ KeepsSocks(n, m)
BY DEF Memories, Tries, Blocked, StartAuto, StopAuto, Keeps, KeepsSocks

(* A retry at once.                                                         *)
LEMMA NowFacts ==
    ASSUME NEW m, WorkerOK(m), NEW p \in Ports
    PROVE  LET n == StartAuto(m, p, FALSE)
           IN  /\ WorkerOK(n) /\ Keeps(n, m) /\ Going(n)
               /\ Blocked(m) => KeepsSocks(n, m)
<1> DEFINE n == StartAuto(m, p, FALSE)
           k == [StopAuto(m) EXCEPT !.port = p, !.retryPort = p]
<1>1. m \in Memories
  BY DEF WorkerOK
<1>2. CASE m.retry # "off" /\ m.retryPort = p
  <2>1. n = [m EXCEPT !.port = p]
    BY <1>2 DEF StartAuto
  <2> HIDE DEF n
  <2>2. m.retry = "armed"
    BY <1>2 DEF WorkerOK, Memories, Tries
  <2>3. n \in Memories /\ Keeps(n, m) /\ KeepsSocks(n, m) /\ n.retry = m.retry /\ n.retryPort = m.retryPort
    BY <1>1, <2>1, MemoryUpdate DEF Memories, Keeps, KeepsSocks
  <2> QED  BY <2>2, <2>3, SameOK DEF Going, n
<1>3. CASE ~(m.retry # "off" /\ m.retryPort = p)
  <2>1. n = TryConnect(k, p)
    BY <1>3 DEF StartAuto
  <2>2. k \in Memories /\ Keeps(k, m) /\ KeepsSocks(k, m) /\ k.retry = "off" /\ k.retryPort = p
    BY <1>1 DEF Memories, StopAuto, Keeps, KeepsSocks
  <2> HIDE DEF n, k
  <2>3. WorkerOK(k) /\ (Blocked(k) <=> Blocked(m))
    BY <2>2 DEF WorkerOK, Aside, Status, Tries, Over, Blocked, IsConnecting, Keeps, KeepsSocks
  <2>4. CASE Blocked(m)
    <3>1. n = k
      BY <2>1, <2>3, <2>4 DEF TryConnect
    <3> QED  BY <2>2, <2>3, <2>4, <3>1 DEF Going, Blocked, Keeps, n
  <2>5. CASE ~Blocked(m)
    <3> DEFINE c == Connect(k, p)
    <3>1. WorkerOK(c) /\ Keeps(c, k) /\ IsConnecting(c) /\ c.retryPort = p
      BY <2>2, <2>3, <2>5, ConnectFacts DEF Blocked
    <3>2. n = [c EXCEPT !.retry = "armed"]
      BY <2>1, <2>3, <2>5 DEF TryConnect
    <3> HIDE DEF c
    <3>3. WorkerOK(n) /\ Keeps(n, c) /\ n.retry = "armed"
      <4>1. c \in Memories /\ n \in Memories
        BY <3>1, <3>2, MemoryUpdate DEF WorkerOK
      <4>2. n.ws = c.ws /\ n.sock = c.sock /\ Keeps(n, c) /\ n.retry = "armed" /\ n.retryPort = c.retryPort
        BY <3>2, <4>1 DEF Memories, Keeps
      <4> QED
        BY <2>2, <2>5, <3>1, <4>1, <4>2 DEF WorkerOK, Aside, Status, Tries, Over, Blocked, IsConnecting, Keeps
    <3> QED  BY <2>2, <2>5, <3>1, <3>3 DEF Going, Keeps, n
  <2> QED  BY <2>4, <2>5
<1> QED  BY <1>2, <1>3

(* The error of a socket: the fallback at most is armed.                    *)
LEMMA OnErrorFacts ==
    ASSUME NEW m \in Memories, Tries(m), m.auto /\ ~m.connected => ~Blocked(m)
    PROVE  LET n == OnError(m)
           IN  /\ n \in Memories /\ Tries(n) /\ Keeps(n, m) /\ KeepsSocks(n, m)
               /\ m.retry = "armed" => n.retry = "armed"
<1> DEFINE n == OnError(m)
           t == [m EXCEPT !.tried = TRUE]
<1>1. CASE m.startup
  <2>1. n = [m EXCEPT !.startup = FALSE]
    BY <1>1 DEF OnError
  <2> HIDE DEF n
  <2>2. n \in Memories /\ Keeps(n, m) /\ KeepsSocks(n, m) /\ n.retry = m.retry /\ n.retryPort = m.retryPort
    BY <2>1 DEF Memories, Keeps, KeepsSocks
  <2> QED  BY <2>2 DEF Tries, Blocked, Keeps, n
<1>2. CASE ~m.startup /\ FallsBack(m)
  <2>1. n = StartAuto(t, m.last, TRUE)
    BY <1>2 DEF OnError, Fallback, Memories
  <2>2. t \in Memories /\ Keeps(t, m) /\ KeepsSocks(t, m) /\ t.retry = m.retry /\ t.retryPort = m.retryPort
    BY DEF Memories, Keeps, KeepsSocks
  <2>3. Tries(t) /\ ~Blocked(t) /\ m.last \in Ports
    BY <1>2, <2>2 DEF Tries, Blocked, Keeps, FallsBack, Memories
  <2> HIDE DEF n, t
  <2>4. n \in Memories /\ Tries(n) /\ Keeps(n, t) /\ KeepsSocks(n, t) /\ n.retry = "armed"
    BY <2>1, <2>2, <2>3, LaterFacts
  <2> QED  BY <2>2, <2>4 DEF Keeps, KeepsSocks, n
<1>3. CASE ~m.startup /\ ~FallsBack(m)
  BY <1>3 DEF OnError, Keeps, KeepsSocks
<1> QED  BY <1>1, <1>2, <1>3

(* The close of a socket: an attempt is armed when the bridge is wanted.    *)
LEMMA OnCloseFacts ==
    ASSUME NEW m \in Memories, Tries(m), ~m.timedOut, m.auto => m.want,
           \A s \in Socks : m.sock[s].st \in {"none", "aborted"}, Aside(m)
    PROVE  LET n == OnClose(m)
           IN  /\ WorkerOK(n) /\ Going(n) /\ n.ws = NoSock
               /\ n.want = m.want /\ n.auto = m.auto /\ n.disk = m.disk /\ n.fix = m.fix
<1> DEFINE k == [m EXCEPT !.ws = NoSock, !.connected = FALSE, !.beat = FALSE]
           t == [k EXCEPT !.tried = TRUE]
           n == OnClose(m)
<1>1. /\ k \in Memories
      /\ k.want = m.want /\ k.auto = m.auto /\ k.disk = m.disk /\ k.fix = m.fix /\ k.timedOut = m.timedOut
      /\ k.ws = NoSock /\ k.sock = m.sock /\ ~k.connected /\ k.retry = m.retry /\ k.retryPort = m.retryPort
  BY DEF Memories
<1>2. WorkerOK(k)
  BY <1>1 DEF WorkerOK, Aside, Status, Tries, Over, Blocked, IsConnecting
<1>3. CASE FallsBack(k)
  <2>1. n = StartAuto(t, k.last, TRUE)
    BY <1>1, <1>3 DEF OnClose, Fallback, Memories
  <2> HIDE DEF k, n
  <2>2. t \in Memories /\ Keeps(t, k) /\ KeepsSocks(t, k) /\ t.retry = k.retry /\ t.retryPort = k.retryPort
    BY <1>1 DEF Memories, Keeps, KeepsSocks
  <2>3. WorkerOK(t) /\ ~Blocked(t) /\ k.last \in Ports
    BY <1>1, <1>2, <1>3, <2>2, SameOK DEF Blocked, Keeps, FallsBack, Memories
  <2> HIDE DEF t
  <2>4. n \in Memories /\ Tries(n) /\ n.retry = "armed" /\ Keeps(n, t) /\ KeepsSocks(n, t)
    BY <2>1, <2>2, <2>3, LaterFacts DEF WorkerOK
  <2>5. WorkerOK(n)
    BY <2>3, <2>4 DEF WorkerOK, Aside, Status, Over, IsConnecting, Keeps, KeepsSocks
  <2> QED  BY <1>1, <2>2, <2>4, <2>5 DEF Going, Keeps, KeepsSocks, n
<1>4. CASE ~FallsBack(k) /\ k.want
  <2>1. n = StartAuto(k, k.requested, TRUE)
    BY <1>1, <1>4 DEF OnClose
  <2> HIDE DEF k, n
  <2>2. n \in Memories /\ Tries(n) /\ n.retry = "armed" /\ Keeps(n, k) /\ KeepsSocks(n, k)
    <3>1. k.requested \in Ports
      BY <1>1 DEF Memories
    <3>2. Tries(k) /\ ~Blocked(k)
      BY <1>1, <1>2, <1>4 DEF WorkerOK, Blocked
    <3> QED  BY <1>1, <2>1, <3>1, <3>2, LaterFacts
  <2>3. WorkerOK(n)
    BY <1>2, <2>2 DEF WorkerOK, Aside, Status, Over, IsConnecting, Keeps, KeepsSocks
  <2> QED  BY <1>1, <2>2, <2>3 DEF Going, Keeps, KeepsSocks, n
<1>5. CASE ~FallsBack(k) /\ ~k.want
  <2>1. n = StopAuto(k)
    BY <1>1, <1>5 DEF OnClose
  <2> HIDE DEF k, n
  <2>2. n \in Memories /\ Keeps(n, k) /\ KeepsSocks(n, k) /\ n.retry = "off"
    BY <1>1, <2>1, StopAutoFacts
  <2>3. WorkerOK(n)
    BY <1>2, <2>2 DEF WorkerOK, Aside, Status, Tries, Over, IsConnecting, Keeps, KeepsSocks
  <2> QED  BY <1>1, <1>5, <2>2, <2>3 DEF Going, Keeps, KeepsSocks, n
<1> QED  BY <1>3, <1>4, <1>5

(* The socket in ws opens.                                                  *)
LEMMA OnOpenFacts ==
    ASSUME NEW m, WorkerOK(m), IsConnecting(m)
    PROVE  LET n == OnOpen(m, m.ws)
           IN  /\ WorkerOK(n) /\ n.connected
               /\ n.want = m.want /\ n.auto = m.auto /\ n.disk = m.disk /\ n.fix = m.fix
<1> DEFINE o == [m EXCEPT !.sock[m.ws].st = "open", !.connected = TRUE, !.startup = FALSE,
                          !.tried = FALSE, !.last = m.port]
           k == StopAuto(o)
           n == OnOpen(m, m.ws)
<1>1. m \in Memories /\ m.ws \in Socks /\ m.port \in Ports
  BY DEF WorkerOK, Memories, IsConnecting
<1>2. /\ o \in Memories
      /\ o.want = m.want /\ o.auto = m.auto /\ o.disk = m.disk /\ o.fix = m.fix /\ o.timedOut = m.timedOut
      /\ o.ws = m.ws /\ o.sock = [m.sock EXCEPT ![m.ws].st = "open"] /\ o.connected
  <2>1. [m.sock EXCEPT ![m.ws].st = "open"] \in Sockets
    BY <1>1 DEF Memories, Sockets, SockStates
  <2>2. o = [m EXCEPT !.sock = [m.sock EXCEPT ![m.ws].st = "open"], !.connected = TRUE,
                      !.startup = FALSE, !.tried = FALSE, !.last = m.port]
    BY <1>1 DEF Memories
  <2> HIDE DEF o
  <2> QED  BY <1>1, <2>1, <2>2 DEF Memories
<1> HIDE DEF o
<1>3. k \in Memories /\ Keeps(k, o) /\ KeepsSocks(k, o) /\ k.retry = "off"
  BY <1>2, StopAutoFacts
<1>4. ~IsConnecting(k) /\ k.ws # NoSock
  BY <1>1, <1>2, <1>3 DEF IsConnecting, KeepsSocks, Memories, Sockets
<1>5. n = [k EXCEPT !.beat = TRUE]
  BY <1>4 DEF OnOpen, o
<1> HIDE DEF n, k
<1>6. /\ n \in Memories /\ n.retry = "off" /\ n.connected /\ n.beat /\ n.timedOut = m.timedOut
      /\ n.ws = m.ws /\ n.sock = [m.sock EXCEPT ![m.ws].st = "open"]
      /\ n.want = m.want /\ n.auto = m.auto /\ n.disk = m.disk /\ n.fix = m.fix
  <2>1. n \in Memories /\ KeepsSocks(n, k) /\ n.retry = k.retry /\ n.beat
    BY <1>3, <1>5 DEF Memories, KeepsSocks
  <2>2. /\ n.want = k.want /\ n.auto = k.auto /\ n.disk = k.disk /\ n.fix = k.fix
        /\ n.timedOut = k.timedOut /\ n.connected = k.connected
    BY <1>3, <1>5 DEF Memories
  <2> QED  BY <1>2, <1>3, <2>1, <2>2 DEF Keeps, KeepsSocks
<1>7. Aside(n) /\ Status(n) /\ Tries(n) /\ Over(n)
  BY <1>1, <1>6 DEF WorkerOK, Memories, Sockets, Aside, Status, Tries, Over, IsConnecting
<1> QED  BY <1>6, <1>7 DEF WorkerOK, n

(* A socket is let go.                                                      *)
LEMMA MuteFacts ==
    ASSUME NEW m \in Memories, Aside(m), IsConnecting(m) => \A s \in Socks : m.sock[s].st # "aborted"
    PROVE  LET n == Mute(m)
           IN  /\ n \in Memories /\ Aside(n) /\ n.ws = NoSock /\ Keeps(n, m)
               /\ n.retry = m.retry /\ n.retryPort = m.retryPort
               /\ \A s \in Socks : n.sock[s].st = "aborted" => IsConnecting(m) \/ m.sock[s].st = "aborted"
<1> DEFINE n == Mute(m)
           k == [m EXCEPT !.ws = NoSock]
<1>0. /\ k \in Memories /\ k.ws = NoSock /\ k.sock = m.sock /\ Keeps(k, m)
      /\ k.retry = m.retry /\ k.retryPort = m.retryPort
  BY DEF Memories, Keeps
<1>1. CASE m.ws = NoSock
  <2>1. n = k
    BY <1>1 DEF Mute, IsConnecting
  <2> HIDE DEF k, n
  <2> QED  BY <1>0, <1>1, <2>1 DEF Aside, n
<1>2. CASE IsConnecting(m)
  <2>1. n = [k EXCEPT !.sock[m.ws].st = "aborted"] /\ m.ws \in Socks
    BY <1>2 DEF Mute, IsConnecting, Memories
  <2> HIDE DEF k, n
  <2>2. n \in Memories /\ n.sock = [m.sock EXCEPT ![m.ws].st = "aborted"]
    <3>1. [m.sock EXCEPT ![m.ws].st = "aborted"] \in Sockets
      BY <2>1 DEF Memories, Sockets, SockStates
    <3>2. n = [k EXCEPT !.sock = [m.sock EXCEPT ![m.ws].st = "aborted"]]
      BY <1>0, <2>1 DEF Memories
    <3> QED  BY <1>0, <3>1, <3>2 DEF Memories
  <2>3. n.ws = NoSock /\ Keeps(n, k) /\ n.retry = k.retry /\ n.retryPort = k.retryPort
    BY <1>0, <2>1 DEF Memories, Keeps
  <2>4. Aside(n)
    BY <1>2, <2>1, <2>2, <2>3 DEF Aside, IsConnecting, Memories, Sockets
  <2> QED  BY <1>0, <1>2, <2>2, <2>3, <2>4 DEF Keeps, n
<1>3. CASE m.ws # NoSock /\ ~IsConnecting(m)
  <2>1. n = [k EXCEPT !.sock[m.ws] = Closed] /\ m.ws \in Socks
    BY <1>3 DEF Mute, Gone, Memories
  <2> HIDE DEF k, n
  <2>2. n \in Memories /\ n.sock = [m.sock EXCEPT ![m.ws] = Closed]
    <3>1. [m.sock EXCEPT ![m.ws] = Closed] \in Sockets
      BY <2>1 DEF Memories, Sockets, SockStates, Closed
    <3>2. n = [k EXCEPT !.sock = [m.sock EXCEPT ![m.ws] = Closed]]
      BY <1>0, <2>1 DEF Memories
    <3> QED  BY <1>0, <3>1, <3>2 DEF Memories
  <2>3. n.ws = NoSock /\ Keeps(n, k) /\ n.retry = k.retry /\ n.retryPort = k.retryPort
    BY <1>0, <2>1 DEF Memories, Keeps
  <2>4. /\ Aside(n)
        /\ \A s \in Socks : n.sock[s].st = "aborted" => m.sock[s].st = "aborted"
    BY <1>3, <2>1, <2>2, <2>3 DEF Aside, Memories, Sockets, Closed
  <2> QED  BY <1>0, <2>2, <2>3, <2>4 DEF Keeps, n
<1> QED  BY <1>1, <1>2, <1>3

(* disconnectWebSocket leaves no socket in use.                             *)
LEMMA DisconnectFacts ==
    ASSUME NEW m \in Memories, Aside(m), IsConnecting(m) => \A s \in Socks : m.sock[s].st # "aborted"
    PROVE  LET n == Disconnect(m)
           IN  /\ n \in Memories /\ Aside(n) /\ Status(n) /\ n.ws = NoSock
               /\ n.want = m.want /\ n.auto = m.auto /\ n.disk = m.disk /\ n.fix = m.fix
               /\ n.timedOut = m.timedOut /\ n.retry = m.retry /\ n.retryPort = m.retryPort
               /\ \A s \in Socks : n.sock[s].st = "aborted" => IsConnecting(m) \/ m.sock[s].st = "aborted"
<1> DEFINE k == Mute(m)
           n == Disconnect(m)
<1>1. /\ k \in Memories /\ Aside(k) /\ k.ws = NoSock /\ Keeps(k, m)
      /\ k.retry = m.retry /\ k.retryPort = m.retryPort
      /\ \A s \in Socks : k.sock[s].st = "aborted" => IsConnecting(m) \/ m.sock[s].st = "aborted"
  BY MuteFacts
<1>2. n = [k EXCEPT !.connected = FALSE, !.beat = FALSE]
  BY DEF Disconnect
<1> HIDE DEF k, n
<1>3. /\ n \in Memories /\ n.ws = NoSock /\ n.sock = k.sock /\ ~n.connected
      /\ n.want = k.want /\ n.auto = k.auto /\ n.disk = k.disk /\ n.fix = k.fix
      /\ n.timedOut = k.timedOut /\ n.retry = k.retry /\ n.retryPort = k.retryPort
  BY <1>1, <1>2 DEF Memories
<1> QED  BY <1>1, <1>3 DEF Aside, Status, IsConnecting, Keeps, n

(* A Connect of the user is stored, and ends a timed-out session.           *)
LEMMA WantedFacts ==
    ASSUME NEW m, WorkerOK(m), NEW p \in Ports
    PROVE  LET n == Wanted(m, p)
           IN  /\ WorkerOK(n) /\ KeepsSocks(n, m)
               /\ n.want /\ n.disk.flag /\ ~n.timedOut
               /\ n.auto = m.auto /\ n.disk.auto = m.disk.auto /\ n.fix = m.fix
               /\ n.connected = m.connected
<1> DEFINE k == [m EXCEPT !.port = p, !.requested = p, !.startup = FALSE, !.timedOut = FALSE,
                          !.disk.port = p]
           n == Wanted(m, p)
<1>1. /\ k \in Memories /\ KeepsSocks(k, m) /\ k.retry = m.retry /\ k.retryPort = m.retryPort
      /\ ~k.timedOut /\ k.auto = m.auto /\ k.disk.auto = m.disk.auto /\ k.fix = m.fix
      /\ k.connected = m.connected /\ k.beat = m.beat
  <2>1. m \in Memories /\ [m.disk EXCEPT !.port = p] \in Disks
    BY DEF WorkerOK, Memories, Disks
  <2>2. k = [m EXCEPT !.port = p, !.requested = p, !.startup = FALSE, !.timedOut = FALSE,
                      !.disk = [m.disk EXCEPT !.port = p]]
    BY <2>1 DEF Memories
  <2> HIDE DEF k
  <2>3. k \in Memories /\ k.disk = [m.disk EXCEPT !.port = p]
    BY <2>1, <2>2 DEF Memories
  <2>4. /\ KeepsSocks(k, m) /\ k.retry = m.retry /\ k.retryPort = m.retryPort
        /\ ~k.timedOut /\ k.auto = m.auto /\ k.fix = m.fix
        /\ k.connected = m.connected /\ k.beat = m.beat
    BY <2>1, <2>2 DEF Memories, KeepsSocks
  <2>5. k.disk.auto = m.disk.auto
    BY <2>1, <2>3 DEF Memories, Disks
  <2> QED  BY <2>3, <2>4, <2>5
<1>2. n = [k EXCEPT !.want = TRUE, !.disk.flag = TRUE]
  BY DEF Wanted, SetWant
<1> HIDE DEF k, n
<1>3. /\ n \in Memories /\ KeepsSocks(n, k) /\ n.retry = k.retry /\ n.retryPort = k.retryPort
      /\ n.want /\ n.disk.flag /\ n.timedOut = k.timedOut /\ n.auto = k.auto
      /\ n.disk.auto = k.disk.auto /\ n.fix = k.fix /\ n.connected = k.connected /\ n.beat = k.beat
  BY <1>1, <1>2 DEF Memories, Disks, KeepsSocks
<1>4. WorkerOK(n)
  BY <1>1, <1>3 DEF WorkerOK, Aside, Status, Tries, Over, Blocked, IsConnecting, KeepsSocks
<1> QED  BY <1>1, <1>3, <1>4 DEF KeepsSocks, n

-----------------------------------------------------------------------------
(* Events of the sockets and timers.                                       *)

(* The types are part of the invariant.                                     *)
LEMMA LinkTypes == LinkInv => TypeOK
BY DEF LinkInv, OthersOK, WorkerOK, TypeOK, Memories, Sockets, SockStates, Disks

(* The invariant gives each part of LinkTrue.                               *)
LEMMA LinkImplies == LinkInv => LinkTrue
<1> SUFFICES ASSUME LinkInv PROVE LinkTrue
  OBVIOUS
<1>1. StatusTrue
  BY DEF LinkInv, WorkerOK, Aside, Status, StatusTrue
<1>2. StopIsFinal
  BY DEF LinkInv, WorkerOK, Obeyed, Tries, Blocked, StopIsFinal
<1>3. WantKept
  BY DEF LinkInv, Restoring, Stored, Obeyed, WantKept
<1>4. KeepsTrying
  BY DEF LinkInv, Going, KeepsTrying, UnderWay
<1> QED  BY <1>1, <1>2, <1>3, <1>4, LinkTypes DEF LinkTrue

(* A worker that has read what it has to do goes on as it should.           *)
LEMMA EventKeeps ==
    ASSUME LinkInv, stage \in {"flagged", "up"}, UNCHANGED <<stage, boot, listens, asked>>,
           WorkerOK(sw'), sw'.want = sw.want, sw'.auto = sw.auto, sw'.disk = sw.disk,
           sw'.fix = sw.fix, asked.run = "off" => sw'.ws = NoSock, stage = "up" => Going(sw')
    PROVE  LinkInv'
<1>1. OthersOK'
  BY DEF LinkInv, OthersOK
<1>2. Restoring'
  BY DEF LinkInv, Restoring, Stored
<1>3. Obeyed'
  BY DEF LinkInv, Obeyed
<1> QED  BY <1>1, <1>2, <1>3 DEF LinkInv

(* Only a worker that has read what it has to do has a socket.              *)
LEMMA InUse ==
    ASSUME LinkInv, NEW s \in Socks, sw.sock[s].st # "none"
    PROVE  /\ stage \in {"flagged", "up"} /\ Stored(sw)
           /\ sw.sock[s].st # "aborted" => s = sw.ws /\ ~sw.timedOut /\ asked.run # "off"
           /\ sw.sock[s].st = "aborted" => s # sw.ws /\ (sw.auto => ~sw.timedOut)
<1>1. stage \in {"flagged", "up"}
  BY DEF LinkInv, OthersOK, Restoring, Dormant
<1>2. sw.sock[s].st # "aborted" => s = sw.ws
  BY DEF LinkInv, WorkerOK, Aside
<1>3. s = sw.ws => sw.ws # NoSock
  OBVIOUS
<1> QED  BY <1>1, <1>2, <1>3 DEF LinkInv, WorkerOK, Restoring, Obeyed, Status, Over

(* A socket that is gone is not in use any more.                            *)
LEMMA GoneFacts ==
    ASSUME NEW m, WorkerOK(m), NEW s \in Socks
    PROVE  LET n == Gone(m, s)
           IN  /\ n \in Memories /\ Keeps(n, m) /\ n.ws = m.ws /\ Tries(n)
               /\ n.retry = m.retry /\ n.retryPort = m.retryPort
               /\ n.sock = [m.sock EXCEPT ![s] = Closed]
               /\ Aside(n)
<1> DEFINE n == Gone(m, s)
<1>1. m \in Memories /\ [m.sock EXCEPT ![s] = Closed] \in Sockets
  BY DEF WorkerOK, Memories, Sockets, SockStates, Closed
<1>2. n = [m EXCEPT !.sock = [m.sock EXCEPT ![s] = Closed]]
  BY <1>1 DEF Gone, Memories
<1> HIDE DEF n
<1>3. /\ n \in Memories /\ Keeps(n, m) /\ n.ws = m.ws
      /\ n.retry = m.retry /\ n.retryPort = m.retryPort
      /\ n.sock = [m.sock EXCEPT ![s] = Closed]
  BY <1>1, <1>2 DEF Memories, Keeps
<1>4. Tries(n)
  BY <1>3 DEF WorkerOK, Tries, Blocked, Keeps
<1>5. Aside(n)
  BY <1>1, <1>3 DEF WorkerOK, Memories, Sockets, Aside, Closed
<1> QED  BY <1>3, <1>4, <1>5 DEF n

(* A connection is open: no retry is left, and the worker says so.          *)
LEMMA OpensStep == ASSUME LinkInv, NEW s \in Socks, Opens(s) PROVE LinkInv'
<1>1. /\ stage \in {"flagged", "up"} /\ s = sw.ws /\ asked.run # "off" /\ IsConnecting(sw)
  BY InUse DEF Opens, IsConnecting
<1>2. sw' = OnOpen(sw, sw.ws) /\ UNCHANGED <<stage, boot, listens, asked>>
  BY <1>1 DEF Opens, Same
<1>3. /\ WorkerOK(sw') /\ sw'.connected
      /\ sw'.want = sw.want /\ sw'.auto = sw.auto /\ sw'.disk = sw.disk /\ sw'.fix = sw.fix
  BY <1>1, <1>2, OnOpenFacts DEF LinkInv
<1> QED  BY <1>1, <1>2, <1>3, EventKeeps DEF Going

(* A connection failed: the fallback or the next attempt is armed.          *)
LEMMA FailsStep == ASSUME LinkInv, NEW s \in Socks, Fails(s) PROVE LinkInv'
<1> DEFINE m == Gone(sw, s)
           n == OnError(m)
<1>1. /\ stage \in {"flagged", "up"} /\ Stored(sw) /\ s = sw.ws /\ ~sw.timedOut /\ asked.run # "off"
  BY InUse DEF Fails
<1>2. /\ m \in Memories /\ Keeps(m, sw) /\ Tries(m) /\ m.sock = [sw.sock EXCEPT ![s] = Closed]
      /\ Aside(m)
  BY GoneFacts DEF LinkInv
<1>3. \A t \in Socks : m.sock[t].st \in {"none", "aborted"}
  BY <1>1, <1>2 DEF LinkInv, WorkerOK, Memories, Sockets, Aside, Closed
<1>4. m.auto /\ ~m.connected => ~Blocked(m)
  BY <1>1, <1>2 DEF Keeps, Stored, Blocked
<1> HIDE DEF m
<1>5. n \in Memories /\ Tries(n) /\ Keeps(n, m) /\ KeepsSocks(n, m)
  BY <1>2, <1>4, OnErrorFacts
<1> HIDE DEF n
<1>6. /\ ~n.timedOut /\ (n.auto => n.want) /\ Aside(n)
      /\ \A t \in Socks : n.sock[t].st \in {"none", "aborted"}
  BY <1>1, <1>2, <1>3, <1>5 DEF Keeps, KeepsSocks, Stored, Aside
<1>7. sw' = OnClose(n) /\ UNCHANGED <<stage, boot, listens, asked>>
  BY DEF Fails, Same, m, n
<1>8. /\ WorkerOK(sw') /\ Going(sw')
      /\ sw'.want = n.want /\ sw'.auto = n.auto /\ sw'.disk = n.disk /\ sw'.fix = n.fix
  BY <1>5, <1>6, <1>7, OnCloseFacts
<1> QED  BY <1>1, <1>2, <1>5, <1>7, <1>8, EventKeeps DEF Keeps

(* A connection is lost: the next attempt is armed.                         *)
LEMMA ClosesStep == ASSUME LinkInv, NEW s \in Socks, Closes(s) PROVE LinkInv'
<1> DEFINE m == Gone(sw, s)
<1>1. /\ stage \in {"flagged", "up"} /\ Stored(sw) /\ s = sw.ws /\ ~sw.timedOut /\ asked.run # "off"
  BY InUse DEF Closes
<1>2. /\ m \in Memories /\ Keeps(m, sw) /\ Tries(m) /\ m.sock = [sw.sock EXCEPT ![s] = Closed]
      /\ Aside(m)
  BY GoneFacts DEF LinkInv
<1>3. \A t \in Socks : m.sock[t].st \in {"none", "aborted"}
  BY <1>1, <1>2 DEF LinkInv, WorkerOK, Memories, Sockets, Aside, Closed
<1>4. sw' = OnClose(m) /\ UNCHANGED <<stage, boot, listens, asked>>
  BY DEF Closes, Same
<1>5. ~m.timedOut /\ (m.auto => m.want)
  BY <1>1, <1>2 DEF Keeps, Stored
<1> HIDE DEF m
<1>6. /\ WorkerOK(sw') /\ Going(sw')
      /\ sw'.want = m.want /\ sw'.auto = m.auto /\ sw'.disk = m.disk /\ sw'.fix = m.fix
  BY <1>2, <1>3, <1>4, <1>5, OnCloseFacts
<1> QED  BY <1>1, <1>2, <1>4, <1>6, EventKeeps DEF Keeps

(* The error of a socket that was let go at most arms the fallback.         *)
LEMMA AbortsStep == ASSUME LinkInv, NEW s \in Socks, Aborts(s) PROVE LinkInv'
<1> DEFINE m == Gone(sw, s)
<1>1. stage \in {"flagged", "up"} /\ Stored(sw) /\ s # sw.ws /\ (sw.auto => ~sw.timedOut)
  BY InUse DEF Aborts
<1>2. /\ m \in Memories /\ Keeps(m, sw) /\ m.ws = sw.ws /\ Tries(m) /\ m.retry = sw.retry
      /\ m.sock = [sw.sock EXCEPT ![s] = Closed] /\ Aside(m)
  BY GoneFacts DEF LinkInv
<1>3. m.auto /\ ~m.connected => ~Blocked(m)
  BY <1>1, <1>2 DEF Keeps, Stored, Blocked
<1>4. sw' = OnError(m) /\ UNCHANGED <<stage, boot, listens, asked>>
  BY DEF Aborts, Same
<1>5. /\ sw' \in Memories /\ Tries(sw') /\ Keeps(sw', m) /\ KeepsSocks(sw', m)
      /\ m.retry = "armed" => sw'.retry = "armed"
  BY <1>2, <1>3, <1>4, OnErrorFacts
<1> HIDE DEF m
<1>6. /\ sw'.ws = sw.ws /\ (IsConnecting(sw) => IsConnecting(sw'))
      /\ \A t \in Socks : sw'.sock[t] \in {sw.sock[t], Closed}
      /\ sw.ws # NoSock => sw'.sock[sw.ws] = sw.sock[sw.ws]
  BY <1>1, <1>2, <1>5 DEF LinkInv, WorkerOK, Memories, Sockets, KeepsSocks, IsConnecting
<1>7. WorkerOK(sw')
  BY <1>1, <1>2, <1>5, <1>6 DEF LinkInv, WorkerOK, Aside, Status, Over, IsConnecting, Keeps, KeepsSocks, Closed
<1> QED  BY <1>1, <1>2, <1>4, <1>5, <1>6, <1>7, EventKeeps DEF LinkInv, Keeps, Going, Obeyed

(* The socket of a hung bridge closes.                                      *)
LEMMA UnansweredStep == ASSUME LinkInv, Unanswered PROVE LinkInv'
<1> DEFINE s == sw.ws
           k == [sw.sock EXCEPT ![s].st = "closing"]
<1>1. /\ s \in Socks /\ sw.sock[s].st \in {"open", "lost"} /\ sw \in Memories
      /\ sw' = [sw EXCEPT !.sock[s].st = "closing"] /\ UNCHANGED <<stage, boot, listens, asked>>
  BY DEF Unanswered, Same, IsOpen, LinkInv, WorkerOK, Memories
<1>2. stage \in {"flagged", "up"} /\ asked.run # "off"
  BY <1>1, InUse
<1>3. k \in Sockets /\ sw' = [sw EXCEPT !.sock = k]
  BY <1>1 DEF Memories, Sockets, SockStates
<1>4. /\ sw' \in Memories /\ Keeps(sw', sw) /\ sw'.ws = s /\ sw'.sock = k
      /\ sw'.retry = sw.retry /\ sw'.retryPort = sw.retryPort
  BY <1>1, <1>3 DEF Memories, Keeps
<1>5. Aside(sw') /\ Status(sw') /\ Over(sw')
  BY <1>1, <1>4 DEF LinkInv, WorkerOK, Memories, Sockets, Aside, Status, Over, IsConnecting, Keeps
<1>6. Tries(sw')
  BY <1>4 DEF LinkInv, WorkerOK, Tries, Blocked, Keeps
<1>7. sw.connected
  BY <1>1 DEF LinkInv, WorkerOK, Status, IsConnecting
<1> QED  BY <1>1, <1>2, <1>4, <1>5, <1>6, <1>7, EventKeeps DEF WorkerOK, Keeps, Going

(* The port that worked last is noted.                                      *)
LEMMA ServerInfoStep == ASSUME LinkInv, NEW s \in Socks, ServerInfo(s) PROVE LinkInv'
<1>1. /\ sw \in Memories /\ stage \in {"flagged", "up"} /\ sw.sock[s].port \in Ports
      /\ asked.run # "off"
  BY InUse DEF ServerInfo, LinkInv, WorkerOK, Aside
<1>2. sw' = [sw EXCEPT !.last = sw.sock[s].port] /\ UNCHANGED <<stage, boot, listens, asked>>
  BY DEF ServerInfo, Same
<1>3. /\ sw' \in Memories /\ Keeps(sw', sw) /\ KeepsSocks(sw', sw)
      /\ sw'.retry = sw.retry /\ sw'.retryPort = sw.retryPort
  BY <1>1, <1>2 DEF Memories, Keeps, KeepsSocks
<1>4. WorkerOK(sw')
  BY <1>3, SameOK DEF LinkInv
<1> QED
  BY <1>1, <1>2, <1>3, <1>4, EventKeeps DEF LinkInv, Keeps, KeepsSocks, Going, IsConnecting

(* A retry connects and arms the next one.                                  *)
LEMMA RetryStep == ASSUME LinkInv, Retry PROVE LinkInv'
<1> DEFINE c == Connect(sw, sw.retryPort)
<1>1. /\ WorkerOK(sw) /\ ~Blocked(sw) /\ sw.retryPort \in Ports
      /\ stage \in {"flagged", "up"} /\ asked.run # "off"
  BY DEF Retry, LinkInv, WorkerOK, OthersOK, Tries, Restoring, Dormant, Obeyed, Blocked
<1>2. sw' = [c EXCEPT !.retry = "armed"] /\ UNCHANGED <<stage, boot, listens, asked>>
  BY <1>1 DEF Retry, Same, TryConnect
<1>3. WorkerOK(c) /\ Keeps(c, sw) /\ IsConnecting(c) /\ c.retry = "armed"
  BY <1>1, ConnectFacts DEF Blocked, Retry
<1> HIDE DEF c
<1>4. /\ sw' \in Memories /\ Keeps(sw', c) /\ KeepsSocks(sw', c)
      /\ sw'.retry = c.retry /\ sw'.retryPort = c.retryPort
  BY <1>2, <1>3 DEF WorkerOK, Memories, Keeps, KeepsSocks
<1>5. WorkerOK(sw')
  BY <1>3, <1>4, SameOK
<1> QED  BY <1>1, <1>2, <1>3, <1>4, <1>5, EventKeeps DEF Keeps, Going

(* The watchdog connects.                                                   *)
LEMMA TickStep == ASSUME LinkInv, Tick PROVE LinkInv'
<1>1. /\ WorkerOK(sw) /\ ~Blocked(sw) /\ sw.requested \in Ports
      /\ stage \in {"flagged", "up"} /\ asked.run # "off"
  BY DEF Tick, LinkInv, WorkerOK, Memories, OthersOK, Restoring, Dormant, Obeyed, Blocked
<1>2. sw' = Connect(sw, sw.requested) /\ UNCHANGED <<stage, boot, listens, asked>>
  BY DEF Tick, Same
<1>3. WorkerOK(sw') /\ Keeps(sw', sw) /\ IsConnecting(sw')
  BY <1>1, <1>2, ConnectFacts DEF Blocked
<1> QED  BY <1>1, <1>2, <1>3, EventKeeps DEF Keeps, Going

-----------------------------------------------------------------------------
(* Commands of the user.                                                   *)

(* A command is stored, and what was asked for last is what is stored.      *)
LEMMA CommandKeeps ==
    ASSUME LinkInv, stage = "up", UNCHANGED <<stage, boot, listens>>,
           asked' \in [port : Ports, run : {"on", "off", "let"}],
           WorkerOK(sw'), Stored(sw'), Going(sw'),
           asked'.run = "on" <=> sw'.disk.flag, asked'.run = "off" => sw'.ws = NoSock
    PROVE  LinkInv'
BY DEF LinkInv, OthersOK, Restoring, Stored, Obeyed

(* When a command comes, the worker is up and its socket is not on its way  *)
(* out.                                                                     *)
LEMMA AtCommand ==
    ASSUME Calm, LinkInv, MayCommand
    PROVE  /\ stage = "up" /\ WorkerOK(sw) /\ Stored(sw) /\ sw.fix = NoPort
           /\ \A s \in Socks : sw.sock[s].st # "aborted"
           /\ sw.connected <=> IsOpen(sw)
           /\ UNCHANGED <<stage, boot, listens>>
           /\ asked \in [port : Ports, run : {"on", "off", "let"}]
<1>1. stage = "up" /\ sw.fix = NoPort /\ Quiet
  BY DEF MayCommand, Attentive
<1>2. sw.connected <=> IsOpen(sw)
  BY <1>1 DEF LinkInv, WorkerOK, Status, Memories, IsOpen, IsConnecting, Quiet
<1> QED  BY <1>1, <1>2 DEF LinkInv, Restoring, OthersOK, MayCommand, Quiet

(* Connect.                                                                 *)
LEMMA StartStep == ASSUME Calm, LinkInv, NEW p \in Ports, Start(p) PROVE LinkInv'
<1> DEFINE m == Wanted(sw, p)
<1>1. /\ stage = "up" /\ WorkerOK(sw) /\ Stored(sw)
      /\ sw.connected <=> IsOpen(sw)
      /\ UNCHANGED <<stage, boot, listens>>
  BY AtCommand DEF Start
<1>2. /\ WorkerOK(m) /\ KeepsSocks(m, sw) /\ m.want /\ m.disk.flag /\ ~m.timedOut
      /\ m.auto = sw.auto /\ m.disk.auto = sw.disk.auto /\ m.connected = sw.connected
  BY <1>1, WantedFacts
<1>3. sw' = Connect(m, p) /\ asked' = [port |-> p, run |-> "on"]
  BY DEF Start
<1> HIDE DEF m
<1>4. CASE m.connected
  <2>1. sw' = [m EXCEPT !.port = p]
    BY <1>1, <1>2, <1>3, <1>4 DEF Connect, IsOpen, KeepsSocks
  <2>2. /\ sw' \in Memories /\ Keeps(sw', m) /\ KeepsSocks(sw', m)
        /\ sw'.retry = m.retry /\ sw'.retryPort = m.retryPort
    BY <1>2, <2>1 DEF WorkerOK, Memories, Keeps, KeepsSocks
  <2>3. WorkerOK(sw')
    BY <1>2, <2>2, SameOK
  <2> QED
    BY <1>1, <1>2, <1>3, <1>4, <2>2, <2>3, CommandKeeps DEF Keeps, Stored, Going
<1>5. CASE ~m.connected
  <2>1. WorkerOK(sw') /\ Keeps(sw', m) /\ IsConnecting(sw')
    BY <1>2, <1>3, <1>5, ConnectFacts
  <2> QED  BY <1>1, <1>2, <1>3, <2>1, CommandKeeps DEF Keeps, Stored, Going
<1> QED  BY <1>4, <1>5

(* Stop.                                                                    *)
LEMMA StopStep == ASSUME Calm, LinkInv, Stop PROVE LinkInv'
<1> DEFINE k == [sw EXCEPT !.auto = FALSE, !.disk.auto = FALSE, !.tried = FALSE]
           w == SetWant(k, FALSE)
           o == StopAuto(w)
<1>1. /\ stage = "up" /\ WorkerOK(sw)
      /\ \A s \in Socks : sw.sock[s].st # "aborted"
      /\ UNCHANGED <<stage, boot, listens>> /\ asked \in [port : Ports, run : {"on", "off", "let"}]
  BY AtCommand DEF Stop
<1>2. k \in Memories /\ KeepsSocks(k, sw) /\ ~k.auto /\ ~k.disk.auto
  BY <1>1 DEF WorkerOK, Memories, Disks, KeepsSocks
<1>3. sw' = Disconnect(o) /\ asked' = [asked EXCEPT !.run = "off"]
  BY DEF Stop
<1> HIDE DEF k
<1>4. w \in Memories /\ KeepsSocks(w, k) /\ ~w.want /\ ~w.auto /\ w.disk = [k.disk EXCEPT !.flag = FALSE]
  BY <1>2 DEF SetWant, Memories, Disks, KeepsSocks
<1> HIDE DEF w
<1>5. o \in Memories /\ Keeps(o, w) /\ KeepsSocks(o, w) /\ o.retry = "off"
  BY <1>4, StopAutoFacts
<1> HIDE DEF o
<1>6. ~o.want /\ ~o.auto /\ ~o.disk.flag /\ ~o.disk.auto /\ KeepsSocks(o, sw)
  BY <1>2, <1>4, <1>5 DEF Keeps, KeepsSocks, Memories, Disks
<1>7. Aside(o) /\ \A s \in Socks : o.sock[s].st # "aborted"
  BY <1>1, <1>6 DEF WorkerOK, Aside, KeepsSocks
<1>8. /\ sw' \in Memories /\ Aside(sw') /\ Status(sw') /\ sw'.ws = NoSock /\ sw'.retry = "off"
      /\ sw'.want = o.want /\ sw'.auto = o.auto /\ sw'.disk = o.disk
  BY <1>3, <1>5, <1>7, DisconnectFacts
<1>9. WorkerOK(sw') /\ Stored(sw') /\ Going(sw')
  BY <1>6, <1>8 DEF WorkerOK, Tries, Over, Stored, Going, Memories, Disks
<1> QED  BY <1>1, <1>3, <1>6, <1>8, <1>9, CommandKeeps

(* Auto-connect is switched on.                                             *)
LEMMA AutoOnStep == ASSUME Calm, LinkInv, AutoOn PROVE LinkInv'
<1> DEFINE k == [sw EXCEPT !.auto = TRUE, !.disk.auto = TRUE, !.tried = FALSE, !.startup = FALSE]
           n == SetWant(k, TRUE)
<1>1. /\ stage = "up" /\ WorkerOK(sw)
      /\ \A s \in Socks : sw.sock[s].st # "aborted"
      /\ UNCHANGED <<stage, boot, listens>> /\ asked \in [port : Ports, run : {"on", "off", "let"}]
  BY AtCommand DEF AutoOn
<1>2. /\ k \in Memories /\ KeepsSocks(k, sw) /\ k.auto /\ k.disk.auto
      /\ k.retry = sw.retry /\ k.retryPort = sw.retryPort /\ k.timedOut = sw.timedOut
      /\ k.connected = sw.connected /\ k.beat = sw.beat
  BY <1>1 DEF WorkerOK, Memories, Disks, KeepsSocks
<1>3. /\ sw' = IF n.connected THEN n ELSE StartAuto(n, n.port, FALSE)
      /\ asked' = [asked EXCEPT !.run = "on"]
  BY DEF AutoOn
<1> HIDE DEF k
<1>4. /\ n \in Memories /\ KeepsSocks(n, k) /\ n.want /\ n.auto /\ n.disk = [k.disk EXCEPT !.flag = TRUE]
      /\ n.retry = k.retry /\ n.retryPort = k.retryPort /\ n.timedOut = k.timedOut
      /\ n.connected = k.connected /\ n.beat = k.beat
  BY <1>2 DEF SetWant, Memories, Disks, KeepsSocks
<1> HIDE DEF n
<1>5. n.disk.flag /\ n.disk.auto /\ n.port \in Ports
  BY <1>2, <1>4 DEF Memories, Disks
<1>6. WorkerOK(n) /\ Stored(n)
  <2>1. KeepsSocks(n, sw) /\ n.retry = sw.retry /\ n.retryPort = sw.retryPort
        /\ n.timedOut = sw.timedOut /\ n.connected = sw.connected /\ n.beat = sw.beat
    BY <1>2, <1>4 DEF KeepsSocks
  <2>2. Aside(n) /\ Status(n)
    BY <1>1, <2>1 DEF WorkerOK, Aside, Status, IsConnecting, KeepsSocks
  <2>3. Tries(n) /\ Over(n)
    BY <1>1, <1>4, <2>1 DEF WorkerOK, Tries, Over, Blocked, KeepsSocks
  <2>4. Stored(n)
    BY <1>4, <1>5 DEF Stored, Memories, Disks
  <2> QED  BY <1>4, <2>2, <2>3, <2>4 DEF WorkerOK
<1>7. CASE n.connected
  BY <1>1, <1>3, <1>4, <1>5, <1>6, <1>7, CommandKeeps DEF Going
<1>8. CASE ~n.connected
  <2>1. WorkerOK(sw') /\ Keeps(sw', n) /\ Going(sw')
    BY <1>3, <1>5, <1>6, <1>8, NowFacts
  <2> QED  BY <1>1, <1>3, <1>5, <1>6, <2>1, CommandKeeps DEF Keeps, Stored
<1> QED  BY <1>7, <1>8

(* Auto-connect is switched off.                                            *)
LEMMA AutoOffStep == ASSUME Calm, LinkInv, AutoOff PROVE LinkInv'
<1> DEFINE n == [sw EXCEPT !.auto = FALSE, !.disk.auto = FALSE, !.tried = FALSE, !.startup = FALSE]
           w == SetWant(n, FALSE)
           o == StopAuto(w)
<1>1. /\ stage = "up" /\ WorkerOK(sw) /\ Stored(sw) /\ Obeyed
      /\ UNCHANGED <<stage, boot, listens>> /\ asked \in [port : Ports, run : {"on", "off", "let"}]
  BY AtCommand DEF AutoOff, LinkInv
<1>2. /\ n \in Memories /\ KeepsSocks(n, sw) /\ ~n.auto /\ ~n.disk.auto /\ n.disk.flag = sw.disk.flag
      /\ n.retry = sw.retry /\ n.retryPort = sw.retryPort /\ n.timedOut = sw.timedOut
      /\ n.connected = sw.connected /\ n.beat = sw.beat /\ n.want = sw.want
  BY <1>1 DEF WorkerOK, Memories, Disks, KeepsSocks
<1>3. /\ sw' = IF n.connected THEN n ELSE o
      /\ asked' = IF sw.connected \/ asked.run # "on" THEN asked ELSE [asked EXCEPT !.run = "let"]
  BY DEF AutoOff
<1> HIDE DEF n
<1>4. WorkerOK(n)
  BY <1>1, <1>2 DEF WorkerOK, Aside, Status, Tries, Over, Blocked, IsConnecting, KeepsSocks
<1>5. CASE sw.connected
  <2>1. sw' = n /\ asked' = asked
    BY <1>2, <1>3, <1>5
  <2>2. Stored(n) /\ Going(n)
    BY <1>1, <1>2, <1>5 DEF Stored, Going, Memories, Disks, WorkerOK
  <2>3. asked.run = "on" <=> n.disk.flag
    BY <1>1, <1>2 DEF Stored, Obeyed, WorkerOK, Memories, Disks
  <2>4. asked.run = "off" => n.ws = NoSock
    BY <1>1, <1>2 DEF Obeyed, KeepsSocks
  <2> QED  BY <1>1, <1>4, <2>1, <2>2, <2>3, <2>4, CommandKeeps
<1>6. CASE ~sw.connected
  <2>1. w \in Memories /\ KeepsSocks(w, n) /\ ~w.want /\ ~w.auto /\ w.disk = [n.disk EXCEPT !.flag = FALSE]
        /\ w.timedOut = n.timedOut /\ w.connected = n.connected /\ w.beat = n.beat
    BY <1>2 DEF SetWant, Memories, Disks, KeepsSocks
  <2> HIDE DEF w
  <2>2. o \in Memories /\ Keeps(o, w) /\ KeepsSocks(o, w) /\ o.retry = "off"
    BY <2>1, StopAutoFacts
  <2> HIDE DEF o
  <2>3. sw' = o
    BY <1>2, <1>3, <1>6
  <2>4. ~o.want /\ ~o.auto /\ ~o.disk.flag /\ ~o.disk.auto /\ KeepsSocks(o, sw)
    BY <1>2, <2>1, <2>2 DEF Keeps, KeepsSocks, Memories, Disks
  <2>5. WorkerOK(o)
    BY <1>2, <1>4, <2>1, <2>2 DEF WorkerOK, Aside, Status, Tries, Over, IsConnecting, Keeps, KeepsSocks
  <2>6. Stored(o) /\ Going(o)
    BY <2>2, <2>4 DEF Stored, Going, Memories, Disks
  <2>7. /\ asked'.run # "on" /\ asked' \in [port : Ports, run : {"on", "off", "let"}]
        /\ asked'.run = "off" => asked.run = "off"
    BY <1>1, <1>3, <1>6
  <2>8. asked'.run = "off" => o.ws = NoSock
    BY <1>1, <2>4, <2>7 DEF Obeyed, KeepsSocks
  <2> QED  BY <1>1, <2>3, <2>4, <2>5, <2>6, <2>7, <2>8, CommandKeeps
<1> QED  BY <1>5, <1>6

(* A chat message connects.                                                 *)
LEMMA ChatStep == ASSUME Calm, LinkInv, Chat PROVE LinkInv'
<1> DEFINE m == Wanted(sw, sw.port)
           c == Connect(m, sw.port)
<1>1. /\ stage = "up" /\ WorkerOK(sw) /\ Stored(sw) /\ ~sw.connected /\ sw.port \in Ports
      /\ UNCHANGED <<stage, boot, listens>> /\ asked \in [port : Ports, run : {"on", "off", "let"}]
  BY AtCommand DEF Chat, WorkerOK, Memories
<1>2. /\ WorkerOK(m) /\ m.want /\ m.disk.flag /\ ~m.timedOut
      /\ m.auto = sw.auto /\ m.disk.auto = sw.disk.auto /\ ~m.connected
  BY <1>1, WantedFacts
<1>3. sw' = StartAuto(c, sw.port, TRUE) /\ asked' = [asked EXCEPT !.run = "on"]
  BY DEF Chat
<1> HIDE DEF m
<1>4. WorkerOK(c) /\ Keeps(c, m) /\ IsConnecting(c)
  BY <1>1, <1>2, ConnectFacts
<1> HIDE DEF c
<1>5. c \in Memories /\ Tries(c) /\ ~Blocked(c)
  BY <1>2, <1>4 DEF WorkerOK, Blocked, Keeps
<1>6. /\ sw' \in Memories /\ Tries(sw') /\ sw'.retry = "armed" /\ Keeps(sw', c) /\ KeepsSocks(sw', c)
  BY <1>1, <1>3, <1>5, LaterFacts
<1>7. WorkerOK(sw')
  BY <1>4, <1>6, TriesOK
<1>8. sw'.want = m.want /\ sw'.auto = m.auto /\ sw'.disk = m.disk
  BY <1>4, <1>6 DEF Keeps
<1>9. Stored(sw') /\ Going(sw') /\ sw'.disk.flag
  <2>1. WorkerOK(sw) /\ sw.auto = sw.disk.auto
    BY <1>1 DEF Stored
  <2>2. m \in Memories
    BY <1>2 DEF WorkerOK
  <2>3. sw'.want = sw'.disk.flag /\ sw'.auto = sw'.disk.auto /\ sw'.want
    BY <1>2, <1>8, <2>1, <2>2 DEF Memories, Disks
  <2> QED  BY <1>2, <1>6, <1>8, <2>3 DEF Stored, Going
<1> QED  BY <1>1, <1>3, <1>7, <1>9, CommandKeeps

(* Fix begins: nothing changes but that.                                    *)
LEMMA FixBeginsStep == ASSUME Calm, LinkInv, FixBegins PROVE LinkInv'
<1>1. /\ stage = "up" /\ WorkerOK(sw) /\ UNCHANGED <<stage, boot, listens, asked>>
  BY AtCommand DEF FixBegins
<1>2. sw' = [sw EXCEPT !.fix = sw.requested]
  BY DEF FixBegins
<1>3. /\ sw' \in Memories /\ KeepsSocks(sw', sw)
      /\ sw'.retry = sw.retry /\ sw'.retryPort = sw.retryPort
      /\ sw'.want = sw.want /\ sw'.auto = sw.auto /\ sw'.disk = sw.disk /\ sw'.timedOut = sw.timedOut
      /\ sw'.connected = sw.connected /\ sw'.beat = sw.beat
  BY <1>1, <1>2 DEF WorkerOK, Memories, KeepsSocks
<1>4. WorkerOK(sw') /\ (Going(sw) => Going(sw'))
  BY <1>1, <1>3 DEF WorkerOK, Aside, Status, Tries, Over, Blocked, IsConnecting, KeepsSocks, Going
<1> QED
  BY <1>1, <1>3, <1>4 DEF LinkInv, OthersOK, Restoring, Stored, Obeyed, KeepsSocks

(* Fix connects from a clean slate, unless the socket is open.              *)
LEMMA FixEndsStep == ASSUME Calm, LinkInv, NEW p \in Ports, FixEnds(p) PROVE LinkInv'
<1> DEFINE w == [Wanted(sw, p) EXCEPT !.tried = FALSE, !.fix = NoPort]
           n == StopAuto(w)
           k == IF IsOpen(n) THEN n ELSE Mute(n)
           c == Connect(k, p)
<1>1. /\ stage = "up" /\ WorkerOK(sw) /\ Stored(sw) /\ Quiet
      /\ UNCHANGED <<stage, boot, listens>> /\ asked' = [port |-> p, run |-> "on"]
  BY DEF FixEnds, LinkInv, OthersOK, Restoring
<1>2. \A s \in Socks : sw.sock[s].st \notin {"lost", "closing", "aborted"}
  BY <1>1 DEF Quiet
<1>3. sw' = IF k.connected THEN k ELSE StartAuto(c, p, TRUE)
  BY DEF FixEnds
<1>4. /\ w \in Memories /\ KeepsSocks(w, sw) /\ w.want /\ w.disk.flag /\ ~w.timedOut
      /\ w.auto = sw.auto /\ w.disk.auto = sw.disk.auto /\ w.connected = sw.connected
      /\ WorkerOK(w)
  <2> DEFINE v == Wanted(sw, p)
  <2>1. /\ WorkerOK(v) /\ KeepsSocks(v, sw) /\ v.want /\ v.disk.flag /\ ~v.timedOut
        /\ v.auto = sw.auto /\ v.disk.auto = sw.disk.auto /\ v.connected = sw.connected
    BY <1>1, WantedFacts
  <2> HIDE DEF v
  <2>2. w = [v EXCEPT !.tried = FALSE, !.fix = NoPort]
    BY DEF v
  <2> HIDE DEF w
  <2>3. /\ w \in Memories /\ KeepsSocks(w, v) /\ w.want = v.want /\ w.disk = v.disk /\ w.timedOut = v.timedOut
        /\ w.auto = v.auto /\ w.connected = v.connected /\ w.beat = v.beat
        /\ w.retry = v.retry /\ w.retryPort = v.retryPort
    BY <2>1, <2>2 DEF WorkerOK, Memories, KeepsSocks
  <2>4. WorkerOK(w)
    BY <2>1, <2>3 DEF WorkerOK, Aside, Status, Tries, Over, Blocked, IsConnecting, KeepsSocks
  <2> QED  BY <2>1, <2>3, <2>4 DEF KeepsSocks
<1> HIDE DEF w
<1>5. n \in Memories /\ Keeps(n, w) /\ KeepsSocks(n, w) /\ n.retry = "off" /\ WorkerOK(n)
  BY <1>4, StopAutoFacts, TriesOK DEF Tries
<1> HIDE DEF n
<1>6. Stored(n) /\ n.want /\ n.disk.flag /\ ~n.timedOut
  BY <1>1, <1>4, <1>5 DEF Keeps, Stored
<1>7. CASE IsOpen(n)
  <2>1. k = n /\ n.connected
    BY <1>5, <1>7 DEF WorkerOK, Status, IsOpen, IsConnecting
  <2>2. sw' = n
    BY <1>3, <2>1
  <2> QED  BY <1>1, <1>5, <1>6, <2>1, <2>2, CommandKeeps DEF Going
<1>8. CASE ~IsOpen(n)
  <2>1. k = Mute(n)
    BY <1>8
  <2>2. /\ n.ws = sw.ws /\ n.sock = sw.sock
        /\ n.ws # NoSock => n.ws \in Socks
    BY <1>4, <1>5 DEF KeepsSocks, Memories
  <2>3. n.ws # NoSock => IsConnecting(n)
    BY <1>2, <1>5, <1>8, <2>2 DEF WorkerOK, Status, IsOpen, IsConnecting
  <2>4. ~n.connected
    BY <1>5, <2>3 DEF WorkerOK, Status
  <2>5. k \in Memories /\ Aside(k) /\ k.ws = NoSock /\ Keeps(k, n) /\ k.retry = n.retry
    BY <1>2, <1>5, <2>1, <2>2, MuteFacts DEF WorkerOK
  <2> HIDE DEF k
  <2>6. WorkerOK(k) /\ ~k.connected /\ ~k.timedOut /\ k.want
    BY <1>5, <1>6, <2>4, <2>5 DEF WorkerOK, Status, Tries, Over, IsConnecting, Keeps
  <2>7. WorkerOK(c) /\ Keeps(c, k) /\ IsConnecting(c)
    BY <2>6, ConnectFacts
  <2> HIDE DEF c
  <2>8. c \in Memories /\ Tries(c) /\ ~Blocked(c)
    BY <2>6, <2>7 DEF WorkerOK, Blocked, Keeps
  <2>9. /\ sw' \in Memories /\ Tries(sw') /\ sw'.retry = "armed" /\ Keeps(sw', c) /\ KeepsSocks(sw', c)
    BY <1>3, <2>6, <2>8, LaterFacts
  <2>10. WorkerOK(sw')
    BY <2>7, <2>9, TriesOK
  <2>11. Stored(sw') /\ Going(sw') /\ sw'.disk.flag
    BY <1>6, <2>5, <2>7, <2>9 DEF Stored, Going, Keeps
  <2> QED  BY <1>1, <2>10, <2>11, CommandKeeps
<1> QED  BY <1>7, <1>8

-----------------------------------------------------------------------------
(* The worker and the bridges.                                             *)

(* A new worker knows nothing and wants nothing.                            *)
LEMMA FreshFacts ==
    ASSUME NEW d \in Disks
    PROVE  WorkerOK(Fresh(d)) /\ Dormant(Fresh(d)) /\ Fresh(d).disk = d /\ Fresh(d).fix = NoPort
<1>1. [s \in Socks |-> Closed] \in Sockets
  BY DEF Sockets, SockStates, Closed
<1>2. Fresh(d) \in Memories
  BY <1>1 DEF Fresh, Memories
<1>3. \A s \in Socks : Fresh(d).sock[s].st = "none"
  BY DEF Fresh, Closed
<1> QED
  BY <1>2, <1>3 DEF WorkerOK, Dormant, Aside, Status, Tries, Over, IsConnecting, Fresh

(* At the start what is stored is what was asked for.                       *)
LEMMA InitLink == Init => LinkInv
<1> SUFFICES ASSUME Init PROVE LinkInv
  OBVIOUS
<1>1. PICK p \in Ports, a \in BOOLEAN : sw = Fresh([port |-> p, auto |-> a, flag |-> FALSE])
  BY DEF Init
<1> DEFINE d == [port |-> p, auto |-> a, flag |-> FALSE]
<1>2. d \in Disks /\ d.auto = a /\ d.flag = FALSE /\ d.port = p
  BY DEF Disks
<1> HIDE DEF d
<1>3. WorkerOK(sw) /\ Dormant(sw) /\ sw.disk = d /\ sw.fix = NoPort
  BY <1>1, <1>2, FreshFacts DEF d
<1>4. /\ stage = "starting" /\ boot = d
      /\ listens \in [Ports -> {"up", "down"}]
      /\ asked = [port |-> p, run |-> IF a THEN "on" ELSE "off"]
  BY <1>2, <1>3 DEF Init
<1>5. OthersOK
  BY <1>2, <1>4 DEF OthersOK
<1> QED  BY <1>2, <1>3, <1>4, <1>5 DEF LinkInv, Restoring, Obeyed, Dormant

(* A killed worker leaves what is stored.                                   *)
LEMMA KillStep == ASSUME LinkInv, Kill PROVE LinkInv'
<1>1. sw.disk \in Disks /\ sw' = Fresh(sw.disk) /\ stage' = "down" /\ UNCHANGED <<boot, listens, asked>>
  BY DEF Kill, LinkInv, WorkerOK, Memories
<1>2. WorkerOK(sw') /\ Dormant(sw') /\ sw'.disk = sw.disk /\ sw'.fix = NoPort
  BY <1>1, FreshFacts
<1> QED  BY <1>1, <1>2 DEF LinkInv, OthersOK, Restoring, Obeyed, Dormant

(* A new worker reads what is stored.                                       *)
LEMMA WakeStep == ASSUME LinkInv, Wake PROVE LinkInv'
<1>1. sw.disk \in Disks
  BY DEF LinkInv, WorkerOK, Memories
<1> QED  BY <1>1 DEF Wake, LinkInv, OthersOK, Restoring, Obeyed

(* It takes the settings over,                                              *)
LEMMA LoadSettingsStep == ASSUME LinkInv, LoadSettings PROVE LinkInv'
<1>1. /\ stage = "starting" /\ stage' = "loaded" /\ boot' = [boot EXCEPT !.flag = sw.disk.flag]
      /\ UNCHANGED <<listens, asked>>
      /\ sw' = [sw EXCEPT !.auto = boot.auto, !.tried = FALSE, !.port = boot.port,
                          !.requested = boot.port, !.last = boot.port]
  BY DEF LoadSettings
<1>2. /\ sw \in Memories /\ boot \in Disks /\ Dormant(sw) /\ WorkerOK(sw) /\ boot.auto = sw.disk.auto
      /\ sw.fix = NoPort
  BY <1>1 DEF LinkInv, WorkerOK, OthersOK, Restoring
<1>3. /\ sw' \in Memories /\ KeepsSocks(sw', sw) /\ sw'.auto = boot.auto /\ sw'.disk = sw.disk
      /\ sw'.want = sw.want /\ sw'.retry = sw.retry /\ sw'.timedOut = sw.timedOut
      /\ sw'.connected = sw.connected /\ sw'.beat = sw.beat /\ sw'.fix = sw.fix
  BY <1>1, <1>2 DEF Memories, Disks, KeepsSocks
<1>4. WorkerOK(sw') /\ Dormant(sw')
  BY <1>2, <1>3 DEF WorkerOK, Dormant, Aside, Status, Tries, Over, IsConnecting, KeepsSocks
<1>5. boot' \in Disks /\ boot'.auto = sw.disk.auto /\ boot'.flag = sw.disk.flag
  BY <1>1, <1>2 DEF Disks, Memories
<1> QED  BY <1>1, <1>2, <1>3, <1>4, <1>5 DEF LinkInv, OthersOK, Restoring, Obeyed, Dormant

(* wants the bridge when the settings or the flag say so,                   *)
LEMMA LoadFlagStep == ASSUME LinkInv, LoadFlag PROVE LinkInv'
<1> DEFINE w == boot.auto \/ boot.flag
           k == SetWant(sw, w)
<1>1. /\ stage = "loaded" /\ stage' = "flagged" /\ UNCHANGED <<boot, listens, asked>>
      /\ sw' = [k EXCEPT !.startup = w]
  BY DEF LoadFlag
<1>2. /\ sw \in Memories /\ boot \in Disks /\ Dormant(sw) /\ WorkerOK(sw) /\ sw.auto = sw.disk.auto
      /\ sw.fix = NoPort /\ boot.auto = sw.disk.auto /\ boot.flag = sw.disk.flag /\ w \in BOOLEAN
  BY <1>1 DEF LinkInv, WorkerOK, OthersOK, Restoring
<1>3. w <=> sw.disk.auto \/ sw.disk.flag
  BY <1>2
<1> HIDE DEF w
<1>4. /\ k \in Memories /\ KeepsSocks(k, sw) /\ k.want = w /\ k.disk = [sw.disk EXCEPT !.flag = w]
      /\ k.retry = sw.retry /\ k.timedOut = sw.timedOut /\ k.auto = sw.auto
      /\ k.connected = sw.connected /\ k.beat = sw.beat /\ k.fix = sw.fix
  BY <1>2 DEF SetWant, Memories, Disks, KeepsSocks
<1> HIDE DEF k
<1>5. /\ sw' \in Memories /\ KeepsSocks(sw', k) /\ sw'.want = w /\ sw'.disk = k.disk
      /\ sw'.retry = k.retry /\ sw'.timedOut = k.timedOut /\ sw'.auto = k.auto
      /\ sw'.connected = k.connected /\ sw'.beat = k.beat /\ sw'.fix = k.fix
  BY <1>1, <1>2, <1>4 DEF Memories, KeepsSocks
<1>6. sw'.disk.flag = w /\ sw'.disk.auto = sw.disk.auto
  BY <1>2, <1>4, <1>5 DEF Memories, Disks
<1>7. WorkerOK(sw')
  BY <1>2, <1>4, <1>5 DEF WorkerOK, Dormant, Aside, Status, Tries, Over, IsConnecting, KeepsSocks
<1>8. Restoring'
  BY <1>1, <1>2, <1>3, <1>4, <1>5, <1>6 DEF Restoring, Stored
<1>9. Obeyed'
  BY <1>1, <1>2, <1>3, <1>4, <1>5, <1>6 DEF LinkInv, Obeyed, KeepsSocks
<1> QED  BY <1>1, <1>7, <1>8, <1>9 DEF LinkInv, OthersOK

(* and then connects.                                                       *)
LEMMA RestoredStep == ASSUME LinkInv, Restored PROVE LinkInv'
<1>1. /\ stage = "flagged" /\ stage' = "up" /\ UNCHANGED <<boot, listens, asked>>
      /\ sw' = IF sw.want THEN StartAuto(sw, boot.port, FALSE) ELSE StopAuto(sw)
  BY DEF Restored
<1>2. /\ WorkerOK(sw) /\ sw \in Memories /\ boot.port \in Ports /\ Stored(sw)
  BY <1>1 DEF LinkInv, WorkerOK, OthersOK, Disks, Restoring
<1>3. WorkerOK(sw') /\ Keeps(sw', sw) /\ Going(sw') /\ (~sw.want => KeepsSocks(sw', sw))
  <2>1. CASE sw.want
    BY <1>1, <1>2, <2>1, NowFacts
  <2>2. CASE ~sw.want
    <3>1. sw' \in Memories /\ Keeps(sw', sw) /\ KeepsSocks(sw', sw) /\ sw'.retry = "off"
      BY <1>1, <1>2, <2>2, StopAutoFacts
    <3> QED  BY <1>2, <2>2, <3>1, TriesOK DEF Tries, Going, Keeps
  <2> QED  BY <2>1, <2>2
<1> QED  BY <1>1, <1>2, <1>3 DEF LinkInv, OthersOK, Restoring, Stored, Obeyed, Keeps, KeepsSocks

(* A bridge that starts, hangs or recovers is not noticed at once.          *)
LEMMA BridgeStep ==
    ASSUME LinkInv, NEW p \in Ports, BridgeStarts(p) \/ BridgeHangs(p) \/ BridgeRecovers(p)
    PROVE  LinkInv'
<1>1. /\ listens' \in [Ports -> {"up", "hung", "down"}] /\ UNCHANGED <<sw, stage, boot, asked>>
  BY DEF LinkInv, OthersOK, BridgeStarts, BridgeHangs, BridgeRecovers, MayTrouble
<1> QED  BY <1>1 DEF LinkInv, OthersOK, Restoring, Obeyed

(* A bridge that ends closes its sockets: they are lost, and not heard of   *)
(* yet.                                                                     *)
LEMMA BridgeEndsStep == ASSUME LinkInv, NEW p \in Ports, BridgeEnds(p) PROVE LinkInv'
<1> DEFINE k == [s \in Socks |-> IF sw.sock[s] = [st |-> "open", port |-> p]
                                 THEN [sw.sock[s] EXCEPT !.st = "lost"] ELSE sw.sock[s]]
<1>1. /\ listens' \in [Ports -> {"up", "hung", "down"}] /\ UNCHANGED <<stage, boot, asked>>
      /\ sw' = [sw EXCEPT !.sock = k]
  BY DEF LinkInv, OthersOK, BridgeEnds, MayTrouble
<1>2. WorkerOK(sw) /\ sw \in Memories
  BY DEF LinkInv, WorkerOK
<1>3. k \in Sockets
  BY <1>2 DEF Memories, Sockets, SockStates
<1>4. \A s \in Socks : \/ k[s] = sw.sock[s]
                       \/ sw.sock[s].st = "open" /\ k[s].st = "lost" /\ k[s].port = sw.sock[s].port
  BY <1>2 DEF Memories, Sockets
<1> HIDE DEF k
<1>5. /\ sw' \in Memories /\ Keeps(sw', sw) /\ sw'.ws = sw.ws /\ sw'.sock = k
      /\ sw'.retry = sw.retry /\ sw'.retryPort = sw.retryPort
  BY <1>1, <1>2, <1>3 DEF Memories, Keeps
<1>6. sw.ws # NoSock => sw.ws \in Socks
  BY <1>2 DEF Memories
<1>7. Aside(sw') /\ Over(sw')
  BY <1>2, <1>4, <1>5 DEF WorkerOK, Aside, Over, Keeps
<1>8. Status(sw') /\ Tries(sw') /\ (IsConnecting(sw') <=> IsConnecting(sw))
  BY <1>2, <1>4, <1>5, <1>6 DEF WorkerOK, Status, Tries, Blocked, IsConnecting, Keeps
<1>9. Dormant(sw) => Dormant(sw')
  BY <1>4, <1>5 DEF Dormant, Keeps
<1> QED
  BY <1>1, <1>5, <1>7, <1>8, <1>9
  DEF LinkInv, OthersOK, WorkerOK, Restoring, Stored, Obeyed, Going, Keeps

(* The end of a session is a stop, or a new attempt with auto-connect.      *)
LEMMA SessionTimeoutStep == ASSUME LinkInv, NEW s \in Socks, SessionTimeout(s) PROVE LinkInv'
<1>1. /\ stage \in {"flagged", "up"} /\ Stored(sw) /\ s = sw.ws /\ ~sw.timedOut /\ asked.run # "off"
      /\ WorkerOK(sw) /\ sw \in Memories /\ sw.connected /\ ~IsConnecting(sw)
  BY InUse DEF SessionTimeout, LinkInv, WorkerOK, Status, IsConnecting
<1>2. UNCHANGED <<stage, boot, listens>>
  BY DEF SessionTimeout, MayTrouble
<1>3. sw.retry = "off" /\ sw.port \in Ports
  BY <1>1 DEF WorkerOK, Tries, Blocked, Memories
<1>4. CASE sw.auto
  <2> DEFINE m == Disconnect(sw)
  <2>1. sw' = StartAuto(m, sw.port, FALSE) /\ asked' = asked
    BY <1>4 DEF SessionTimeout
  <2>2. /\ m \in Memories /\ Aside(m) /\ Status(m) /\ m.ws = NoSock
        /\ m.want = sw.want /\ m.auto = sw.auto /\ m.disk = sw.disk /\ m.fix = sw.fix
        /\ m.timedOut = sw.timedOut /\ m.retry = sw.retry
    BY <1>1, DisconnectFacts DEF WorkerOK
  <2> HIDE DEF m
  <2>3. WorkerOK(m)
    BY <1>1, <1>3, <2>2 DEF WorkerOK, Tries, Over
  <2>4. WorkerOK(sw') /\ Keeps(sw', m) /\ Going(sw')
    BY <1>3, <2>1, <2>3, NowFacts
  <2> QED  BY <1>1, <1>2, <2>1, <2>2, <2>4, EventKeeps DEF Keeps
<1>5. CASE ~sw.auto
  <2> DEFINE k == [sw EXCEPT !.timedOut = TRUE]
             w == SetWant(k, FALSE)
             o == StopAuto(w)
  <2>1. sw' = Disconnect(o) /\ asked' = [asked EXCEPT !.run = "off"]
    BY <1>5 DEF SessionTimeout
  <2>2. k \in Memories /\ KeepsSocks(k, sw) /\ k.auto = sw.auto /\ k.disk = sw.disk /\ k.fix = sw.fix
    BY <1>1 DEF Memories, KeepsSocks
  <2> HIDE DEF k
  <2>3. /\ w \in Memories /\ KeepsSocks(w, k) /\ ~w.want /\ w.auto = k.auto
        /\ w.disk = [k.disk EXCEPT !.flag = FALSE] /\ w.fix = k.fix
    BY <2>2 DEF SetWant, Memories, Disks, KeepsSocks
  <2> HIDE DEF w
  <2>4. o \in Memories /\ Keeps(o, w) /\ KeepsSocks(o, w) /\ o.retry = "off"
    BY <2>3, StopAutoFacts
  <2> HIDE DEF o
  <2>5. /\ ~o.want /\ ~o.auto /\ ~o.disk.flag /\ ~o.disk.auto /\ o.fix = sw.fix /\ KeepsSocks(o, sw)
    <3>1. ~o.want /\ ~o.auto /\ o.fix = sw.fix /\ KeepsSocks(o, sw)
      BY <1>5, <2>2, <2>3, <2>4 DEF Keeps, KeepsSocks
    <3>2. ~o.disk.flag /\ o.disk.auto = sw.disk.auto
      BY <1>1, <2>2, <2>3, <2>4 DEF Keeps, Memories, Disks
    <3> QED  BY <1>1, <1>5, <3>1, <3>2 DEF Stored
  <2>6. Aside(o) /\ ~IsConnecting(o)
    BY <1>1, <2>5 DEF WorkerOK, Aside, KeepsSocks, IsConnecting
  <2>7. /\ sw' \in Memories /\ Aside(sw') /\ Status(sw') /\ sw'.ws = NoSock /\ sw'.retry = "off"
        /\ sw'.want = o.want /\ sw'.auto = o.auto /\ sw'.disk = o.disk /\ sw'.fix = o.fix
    BY <2>1, <2>4, <2>6, DisconnectFacts
  <2>8. WorkerOK(sw') /\ Stored(sw') /\ Going(sw')
    BY <2>5, <2>7 DEF WorkerOK, Tries, Over, Stored, Going, Memories, Disks
  <2>9. OthersOK' /\ asked'.run = "off"
    BY <1>2, <2>1 DEF LinkInv, OthersOK
  <2>10. Restoring' /\ Obeyed'
    BY <1>1, <1>2, <2>5, <2>7, <2>8, <2>9 DEF LinkInv, Restoring, Obeyed
  <2> QED  BY <2>8, <2>9, <2>10 DEF LinkInv
<1> QED  BY <1>4, <1>5

-----------------------------------------------------------------------------

(* Every step keeps the invariant.                                          *)
LEMMA StepLink == ASSUME Calm, LinkInv, [Next]_vars PROVE LinkInv'
<1>1. CASE UNCHANGED vars
  BY <1>1 DEF vars, LinkInv, OthersOK, Restoring, Obeyed
<1>2. CASE \E s \in Socks : SockStep(s) \/ ServerInfo(s)
  BY <1>2, OpensStep, FailsStep, ClosesStep, AbortsStep, ServerInfoStep DEF SockStep
<1>3. CASE Unanswered \/ Retry \/ Tick \/ Wake
  BY <1>3, UnansweredStep, RetryStep, TickStep, WakeStep
<1>4. CASE Restore
  BY <1>4, LoadSettingsStep, LoadFlagStep, RestoredStep DEF Restore
<1>5. CASE \E p \in Ports : FixEnds(p)
  BY <1>5, FixEndsStep
<1>6. CASE Command
  BY <1>6, StopStep, AutoOnStep, AutoOffStep, ChatStep, FixBeginsStep, StartStep DEF Command
<1>7. CASE Trouble
  BY <1>7, KillStep, BridgeEndsStep, BridgeStep, SessionTimeoutStep DEF Trouble
<1> QED  BY <1>1, <1>2, <1>3, <1>4, <1>5, <1>6, <1>7 DEF Next

(* The invariant is inductive, for calm commands.                           *)
THEOREM LinkKept == ASSUME Calm PROVE Spec => []LinkInv
<1>1. Init => LinkInv
  BY InitLink
<1>2. LinkInv /\ [Next]_vars => LinkInv'
  BY StepLink
<1> QED  BY <1>1, <1>2, PTL DEF Spec

(* What the worker says of its connection is true, a Connect and a Stop hold  *)
(* for the next worker too, and an attempt is under way while the bridge is   *)
(* wanted (connectWebSocket, startAutoConnect), whatever is lost or killed.   *)
THEOREM LinkIsTrue == ASSUME Calm PROVE Spec => []LinkTrue
BY LinkKept, LinkImplies, PTL

=============================================================================
