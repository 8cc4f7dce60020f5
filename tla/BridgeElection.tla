--------------------------- MODULE BridgeElection ---------------------------
(***************************************************************************)
(* Which bridge process owns the port (server/index.js): a process that     *)
(* starts cleans up and then elects, one that has lost the primary recovers. *)
(* Both try to bind the port and, when it is taken, to join its owner with   *)
(* the token that they read in the lock file.  Processes are killed, shut    *)
(* down, or replaced by a successor and left behind as a relay.             *)
(*                                                                         *)
(* The retries of a bind are left out: it is given up at some moment at      *)
(* which the port is taken.  The tokens are the processes' own              *)
(* (AUTODOM_TOKEN is not set), and a connection to the owner of the port     *)
(* with its token does not fail.                                           *)
(***************************************************************************)
EXTENDS Naturals, FiniteSets

CONSTANTS
    Procs,
    NoProc,
    Rounds,    \* MAX_ELECTION_ROUNDS
    MaxTries,  \* MAX_RECOVERY_ATTEMPTS
    Overlap,   \* recoverBridge can be called while the election is going on
    MaxEnds    \* bound on processes that end

\* What the constants are.
BridgeElectionAssumption ==
    /\ NoProc \notin Procs /\ Rounds \in Nat \ {0} /\ MaxTries \in Nat \ {0}
    /\ Overlap \in BOOLEAN /\ MaxEnds \in Nat

VARIABLES
    proc,   \* the processes
    port,   \* the process that has bound the port
    lock,   \* the process whose pid and token are in the lock file
    ends

vars == <<proc, port, lock, ends>>

Tasks == {"elect", "recover"}

Off == [st |-> "off", role |-> "bootstrapping", task |-> [t \in Tasks |-> "none"], round |-> 1,
        tries |-> 0, conn |-> "idle", token |-> NoProc, link |-> NoProc, write |-> FALSE]

Gone == [Off EXCEPT !.st = "gone"]

Init ==
    /\ proc = [p \in Procs |-> Off]
    /\ port = NoProc /\ lock = NoProc /\ ends = 0

Alive(p) == proc[p].st \notin {"off", "gone"}
Dead == {p \in Procs : ~Alive(p)}
Up(p) == proc[p].st = "up"
Primary(p) == Up(p) /\ proc[p].role = "primary"
Doing(p, t, what) == proc[p].task[t] = what
Binding(p) == \E t \in Tasks : Doing(p, t, "bound")

\* bridgeHandedOver() would not know.
HandedOverMutant(x) == FALSE

\* bridgeHandedOver.
HandedOver(x) == x.st # "up"

\* Process p goes on as x.
Goes(p, x) == proc' = [proc EXCEPT ![p] = x]

-----------------------------------------------------------------------------
(* ensureProxyClientConnected: one connection attempt for all who want one. *)

\* Task t of x could not bind the port.
Join(x, t) ==
    IF x.link # NoProc THEN [x EXCEPT !.role = "proxy", !.task[t] = "none"]
    ELSE [x EXCEPT !.role = "proxy", !.task[t] = "connect",
                   !.conn = IF @ = "idle" THEN "lock" ELSE @]

Waiting(x) == {t \in Tasks : x.task[t] = "connect"}

Linked(x) ==
    [x EXCEPT !.conn = "idle", !.token = NoProc, !.link = x.token,
              !.role = IF Waiting(x) = {} THEN @ ELSE "proxy",
              !.task = [t \in Tasks |-> IF t \in Waiting(x) THEN "none" ELSE @[t]]]

\* The attempt has failed for task t of x.
Failed(x, t) ==
    IF t = "elect" /\ x.round < Rounds
    THEN [x EXCEPT !.role = "bootstrapping", !.task[t] = "bind", !.round = @ + 1]
    ELSE [x EXCEPT !.role = "degraded", !.task[t] = "none"]

\* Both tasks may have waited, in either order.
NotLinked(x) ==
    LET y == [x EXCEPT !.conn = "idle", !.token = NoProc]
    IN  CASE Waiting(x) = {} -> {y}
          [] Waiting(x) = Tasks -> {Failed(Failed(y, "elect"), "recover"),
                                    Failed(Failed(y, "recover"), "elect")}
          [] OTHER -> {Failed(y, t) : t \in Waiting(x)}

\* readProxyAuthToken.
ReadToken(p) ==
    /\ Alive(p) /\ proc[p].conn = "lock"
    /\ IF lock # NoProc THEN Goes(p, [proc[p] EXCEPT !.conn = "open", !.token = lock])
       ELSE \E x \in NotLinked(proc[p]) : Goes(p, x)
    /\ UNCHANGED <<port, lock, ends>>

\* The owner of the port lets in who has its token.
OpenLink(p) ==
    /\ Alive(p) /\ proc[p].conn = "open"
    /\ IF port = proc[p].token THEN Goes(p, Linked(proc[p]))
       ELSE \E x \in NotLinked(proc[p]) : Goes(p, x)
    /\ UNCHANGED <<port, lock, ends>>

-----------------------------------------------------------------------------
(* bootstrapBridge, tryBecomePrimary, recoverBridge.                       *)

Start(p) ==
    /\ proc[p].st = "off"
    /\ Goes(p, [Off EXCEPT !.st = "up", !.task.elect = "clean"])
    /\ UNCHANGED <<port, lock, ends>>

\* cleanupStaleProcesses: a lock of a dead process, or an orphaned owner of the
\* port, which is stopped first.  The lock is removed later.
Clean(p) ==
    /\ Alive(p) /\ Doing(p, "elect", "clean")
    /\ \/ /\ lock \in Dead
          /\ Goes(p, [proc[p] EXCEPT !.task.elect = "rm"])
          /\ UNCHANGED <<port, ends>>
       \/ /\ port \notin {NoProc, p} /\ ends < MaxEnds /\ ends' = ends + 1
          /\ proc' = [proc EXCEPT ![port] = Gone, ![p].task["elect"] = "rm"]
          /\ port' = NoProc
       \/ /\ lock \notin Dead
          /\ Goes(p, [proc[p] EXCEPT !.task.elect = "bind"])
          /\ UNCHANGED <<port, ends>>
    /\ UNCHANGED lock

\* Whatever it says by now.
RemoveStale(p) ==
    /\ Alive(p) /\ Doing(p, "elect", "rm")
    /\ lock' = NoProc
    /\ Goes(p, [proc[p] EXCEPT !.task.elect = "bind"])
    /\ UNCHANGED <<port, ends>>

Bind(p, t) ==
    /\ Alive(p) /\ Doing(p, t, "bind")
    /\ IF port = NoProc /\ ~HandedOver(proc[p])
       THEN port' = p /\ Goes(p, [proc[p] EXCEPT !.task[t] = "bound"])
       ELSE Goes(p, Join(proc[p], t)) /\ UNCHANGED port
    /\ UNCHANGED <<lock, ends>>

\* The server listens; a process that was handed over meanwhile gives the port
\* back.
Bound(p, t) ==
    /\ Alive(p) /\ Doing(p, t, "bound")
    /\ IF HandedOver(proc[p])
       THEN port' = NoProc /\ Goes(p, Join(proc[p], t))
       ELSE /\ Goes(p, [proc[p] EXCEPT !.role = "primary", !.task[t] = "none", !.write = TRUE])
            /\ UNCHANGED port
    /\ UNCHANGED <<lock, ends>>

\* recoverBridge.
Recovering(x) ==
    IF HandedOver(x) \/ x.role = "primary" \/ x.task["recover"] # "none" THEN x
    ELSE IF x.tries = MaxTries THEN [x EXCEPT !.role = "degraded"]
    ELSE [x EXCEPT !.tries = @ + 1, !.task["recover"] = "bind"]

\* The connection to the primary closes: its process is gone or has closed it.
LinkCloses(p) ==
    /\ Alive(p) /\ proc[p].link \notin {NoProc, port}
    /\ Goes(p, Recovering([proc[p] EXCEPT !.link = NoProc]))
    /\ UNCHANGED <<port, lock, ends>>

\* A tool call of a secondary without a connection asks for one.
CallConnects(p) ==
    /\ Up(p) /\ proc[p].role = "proxy" /\ proc[p].link = NoProc /\ proc[p].conn = "idle"
    /\ Goes(p, [proc[p] EXCEPT !.conn = "lock"])
    /\ UNCHANGED <<port, lock, ends>>

\* A tool call in vain, diagnostics, or SIGUSR2; the attempts of the last minute
\* count, and SIGUSR2 forgets them.
Nudge(p) ==
    /\ Up(p) /\ proc[p].role # "primary" /\ proc[p].link = NoProc
    /\ Overlap \/ Doing(p, "elect", "none")
    /\ \E tries \in {0, proc[p].tries} : Goes(p, Recovering([proc[p] EXCEPT !.tries = tries]))
    /\ UNCHANGED <<port, lock, ends>>

-----------------------------------------------------------------------------
(* The lock file.                                                          *)

\* The primary would write it only once.
LostMutant(p) == FALSE

Lost(p) == lock # p

Reassert(p) ==
    /\ Primary(p) /\ Lost(p) /\ ~proc[p].write
    /\ Goes(p, [proc[p] EXCEPT !.write = TRUE])
    /\ UNCHANGED <<port, lock, ends>>

\* writeLockFile, which does not look at anything again.
WriteLock(p) ==
    /\ Alive(p) /\ proc[p].write
    /\ lock' = p /\ Goes(p, [proc[p] EXCEPT !.write = FALSE])
    /\ UNCHANGED <<port, ends>>

-----------------------------------------------------------------------------
(* Ends.                                                                   *)

Ends == ends < MaxEnds /\ ends' = ends + 1

\* shutdown, or restartInPlace once it has begun.
HandOver(p) ==
    /\ Up(p) /\ Ends
    /\ Goes(p, [proc[p] EXCEPT !.st = "closing"])
    /\ UNCHANGED <<port, lock>>

\* closeBridgeResources, up to the look at the lock file.
Close(p) ==
    /\ proc[p].st = "closing"
    /\ port' = IF port = p /\ ~Binding(p) THEN NoProc ELSE port
    /\ Goes(p, [proc[p] EXCEPT !.link = NoProc, !.st = IF lock = p THEN "removing" ELSE "closed"])
    /\ UNCHANGED <<lock, ends>>

RemoveOwn(p) ==
    /\ proc[p].st = "removing"
    /\ lock' = NoProc
    /\ Goes(p, [proc[p] EXCEPT !.st = "closed"])
    /\ UNCHANGED <<port, ends>>

Exits(p) ==
    /\ proc' = [proc EXCEPT ![p] = Gone]
    /\ port' = IF port = p THEN NoProc ELSE port

\* After a shutdown; a restarted process stays behind as a relay instead.
Exit(p) == proc[p].st = "closed" /\ Exits(p) /\ UNCHANGED <<lock, ends>>

Kill(p) == Alive(p) /\ Ends /\ Exits(p) /\ UNCHANGED lock

-----------------------------------------------------------------------------
Connection(p) == ReadToken(p) \/ OpenLink(p)
Task(p, t) == (t = "elect" /\ (Clean(p) \/ RemoveStale(p))) \/ Bind(p, t) \/ Bound(p, t)
LockFile(p) == Reassert(p) \/ WriteLock(p)
Closing(p) == Close(p) \/ RemoveOwn(p)

Next ==
    \E p \in Procs :
        \/ Start(p) \/ \E t \in Tasks : Task(p, t)
        \/ Connection(p) \/ LinkCloses(p) \/ LockFile(p)
        \/ CallConnects(p) \/ Nudge(p)
        \/ HandOver(p) \/ Closing(p) \/ Exit(p) \/ Kill(p)

Spec == Init /\ [][Next]_vars

\* Awaits and timers end, and calls or nudges keep coming to a process that has
\* no connection, the nudge that forgets earlier attempts among them.
Fairness ==
    \A p \in Procs :
        /\ \A t \in Tasks : WF_vars(Task(p, t))
        /\ WF_vars(Connection(p)) /\ WF_vars(LinkCloses(p))
        /\ WF_vars(LockFile(p)) /\ WF_vars(Closing(p))
        /\ WF_vars(Nudge(p) /\ proc'[p].tries = 1)

FairSpec == Spec /\ Fairness

-----------------------------------------------------------------------------
(* Properties.                                                             *)

Roles == {"bootstrapping", "primary", "proxy", "degraded"}

TypeOK ==
    /\ proc \in [Procs -> [st : {"off", "up", "closing", "removing", "closed", "gone"}, role : Roles,
                           task : [Tasks -> {"none", "clean", "rm", "bind", "bound", "connect"}],
                           round : 1 .. Rounds, tries : 0 .. MaxTries, conn : {"idle", "lock", "open"},
                           token : Procs \cup {NoProc}, link : Procs \cup {NoProc}, write : BOOLEAN]]
    /\ port \in Procs \cup {NoProc} /\ lock \in Procs \cup {NoProc} /\ ends \in 0 .. MaxEnds

\* "Exactly one instance per port owns the WebSocket listener (PRIMARY); every
\* other instance forwards tool calls to it (PROXY)" (index.js:1918-1919).
OwnerIsPrimary ==
    \A p \in Procs :
        Up(p) /\ port = p /\ (\A t \in Tasks : Doing(p, t, "none")) => proc[p].role = "primary"

\* What a process believes to be: a primary has the port, a secondary is
\* connected to another process or looking for one, and a process that was
\* handed over has given the port back for good (index.js:2471-2473).
RolesTrue ==
    /\ TypeOK
    /\ \A p \in Procs :
         /\ Primary(p) => port = p
         /\ Up(p) /\ proc[p].role = "proxy" /\ proc[p].link = NoProc =>
              \E t \in Tasks : proc[p].task[t] # "none"
         /\ proc[p].st \in {"removing", "closed", "gone"} /\ ~Binding(p) => port # p
    /\ OwnerIsPrimary

\* In the end every process that is left has the port, or is connected to its
\* owner, whose token is in the lock file for those that come later.
Joined ==
    \A p \in Procs :
        <>[](Up(p) => /\ port # NoProc /\ lock = port
                      /\ port = p \/ proc[p].link = port)

=============================================================================
