------------------------------ MODULE ToolLanes ------------------------------
(***************************************************************************)
(* The lane scheduler of the extension (extension/background/tool-lanes.js) *)
(* as the service worker uses it: every tool call acquires a shared or      *)
(* exclusive pass through a FIFO gate and then a set of FIFO key mutexes,   *)
(* runs its handler, and releases both.                                     *)
(*                                                                         *)
(* JavaScript runs one job at a time.  A settled promise does not continue  *)
(* its function at once: the continuation is appended to the microtask      *)
(* queue ("micro").  Timers fire only when that queue is empty; arrivals,   *)
(* aborts and handler completions may come from a job of any other part of  *)
(* the worker and interleave with the continuations of the lanes.           *)
(*                                                                         *)
(* Keys are numbers so that the order in which acquire() sorts them is      *)
(* "<".  A batch_actions call is the Parent of its steps: they share its    *)
(* heldLanes set, signal and deadline, and run one after the other while    *)
(* the batch handler runs.                                                  *)
(***************************************************************************)
EXTENDS Integers, FiniteSets, Sequences, SequencesExt

CONSTANTS
    Calls,      \* acquire() invocations, one ticket each
    NoCall,     \* "null" for a ticket
    Keys,       \* lane keys, in sort order
    Need,       \* Need[c]: the keys call c asks for
    Exclusive,  \* calls that ask for the exclusive gate
    Parent,     \* Parent[c]: the batch call c is a step of, or NoCall
    Abortable,  \* top-level calls with a signal
    Timed,      \* top-level calls with a deadline
    Impatient   \* calls with an acquireTimeoutMs

GATE_KEY == 0   \* the marker of the gate in a heldLanes set

ASSUME CallsAssumption == NoCall \notin Calls
ASSUME KeysAssumption == Keys \subseteq Nat \ {GATE_KEY}
ASSUME ScenarioAssumption ==
    /\ Need \in [Calls -> SUBSET Keys]
    /\ Parent \in [Calls -> Calls \cup {NoCall}]
    /\ \A c \in Calls : Parent[c] # NoCall => Parent[Parent[c]] = NoCall
    /\ Exclusive \subseteq Calls
    /\ Abortable \subseteq Calls
    /\ Timed \subseteq Calls
    /\ Impatient \subseteq Calls

VARIABLES
    pc,         \* where each call is in acquire() and run()
    wake,       \* how the promise a call awaits was settled
    pendingError, \* ticket.pendingError is set
    wanted,     \* ticket.keys: the keys left after heldLanes is subtracted
    acquired,   \* ticket.acquired
    at,         \* the key whose lock a call in pc "key" awaits
    holder,     \* keyLocks[k].holder
    keyQ,       \* keyLocks[k].queue
    shared,     \* gate.shared
    exclusive,  \* gate.exclusive
    gateQ,      \* gate.queue
    held,       \* the heldLanes set of each top-level call
    aborted,    \* top-level calls whose signal is aborted
    late,       \* top-level calls whose deadline has passed
    micro,      \* the microtask queue: calls with a continuation to run
    arrived     \* ticket ids: the order in which acquire() was called

lockVars == <<holder, keyQ, shared, exclusive, gateQ>>
vars == <<pc, wake, pendingError, wanted, acquired, at, lockVars, held,
          aborted, late, micro, arrived>>

\* The call whose context (signal, deadline, heldLanes) c runs under.
Root(c) == IF Parent[c] = NoCall THEN c ELSE Parent[c]
Steps(c) == {d \in Calls : Parent[d] = c}

Waiting(c) == pc[c] \in {"gate", "key"}
Executing(c) == pc[c] \in {"running", "orphaned"}   \* the handler runs
Settled(c) == pc[c] \in {"failed", "done"}

Init ==
    /\ pc = [c \in Calls |-> "idle"]
    /\ wake = [c \in Calls |-> "none"]
    /\ pendingError = [c \in Calls |-> FALSE]
    /\ wanted = [c \in Calls |-> {}]
    /\ acquired = [c \in Calls |-> {}]
    /\ at = [c \in Calls |-> GATE_KEY]
    /\ holder = [k \in Keys |-> NoCall]
    /\ keyQ = [k \in Keys |-> <<>>]
    /\ shared = {}
    /\ exclusive = NoCall
    /\ gateQ = <<>>
    /\ held = [c \in Calls |-> {}]
    /\ aborted = {}
    /\ late = {}
    /\ micro = <<>>
    /\ arrived = <<>>

-----------------------------------------------------------------------------
(* The gate and the keys.  An operator named "...Mutant" is a broken form   *)
(* of the one that follows it; no definition of the system uses it.  It     *)
(* exists to be swapped in, so that TLC shows which property notices.      *)

\* An exclusive call would not wait for the running ones to drain.
CanGrantMutant(c, sh, ex) == ex = NoCall

\* canGrant: may a call pass the gate when sh and ex already have?
CanGrant(c, sh, ex) ==
    /\ ex = NoCall
    /\ c \in Exclusive => sh = {}

\* grantGate for a set of calls: either one exclusive call or shared ones.
GrantGate(S, sh, ex) ==
    /\ shared' = sh \cup (S \ Exclusive)
    /\ exclusive' = IF S \cap Exclusive = {} THEN ex
                    ELSE CHOOSE c \in S \cap Exclusive : TRUE

\* pumpGate would let one waiter through and forget to look at the next.
AdmittedMutant(q, sh, ex) == IF q # <<>> /\ CanGrant(Head(q), sh, ex) THEN 1 ELSE 0

\* How many waiters pumpGate takes from the front of q: a grantable
\* exclusive one, or every shared one up to the next exclusive one.
Admitted(q, sh, ex) ==
    IF q = <<>> \/ ~CanGrant(Head(q), sh, ex) THEN 0
    ELSE IF Head(q) \in Exclusive THEN 1
    ELSE Cardinality({n \in 1 .. Len(q) :
                        \A i \in 1 .. n : q[i] \notin Exclusive})

\* pumpGate on queue q; the calls it lets through.
Passed(q, sh, ex) == SubSeq(q, 1, Admitted(q, sh, ex))
PumpGate(q, sh, ex) ==
    /\ gateQ' = SubSeq(q, Admitted(q, sh, ex) + 1, Len(q))
    /\ GrantGate(ToSet(Passed(q, sh, ex)), sh, ex)

NextWaiter(k) == Head(keyQ[k])

\* unlockKey + pumpKey on a set of freed keys: each goes to its first waiter.
PumpKeys(freed) ==
    /\ holder' = [k \in Keys |->
           IF k \notin freed THEN holder[k]
           ELSE IF keyQ[k] = <<>> THEN NoCall ELSE NextWaiter(k)]
    /\ keyQ' = [k \in Keys |->
           IF k \in freed /\ keyQ[k] # <<>> THEN Tail(keyQ[k]) ELSE keyQ[k]]

\* The keys among freed that somebody waits for, and the waiters PumpKeys(freed)
\* resolves, in the reverse key order in which releaseTicket walks acquired.
Handed(freed) == {k \in freed : keyQ[k] # <<>>}
HandedInOrder(freed) ==
    LET lent   == Handed(freed)
        Nth(i) == CHOOSE k \in lent : Cardinality({j \in lent : j >= k}) = i
    IN  [i \in 1 .. Cardinality(lent) |-> NextWaiter(Nth(i))]

\* Releasing would always take the gate's marker out of heldLanes.
GatePassMutant(c) == {GATE_KEY}

\* The gate's marker, for a ticket with a gateMode.
GatePass(c) == IF c \in shared \/ exclusive = c THEN {GATE_KEY} ELSE {}

-----------------------------------------------------------------------------
(* releaseTicket of a ticket that acquired got, with jobs left in the       *)
(* microtask queue: the end of run(), the catch branch of acquire() and the *)
(* watchdog all end here.  The keys are unlocked before the gate.          *)
ReleaseTicket(c, got, jobs) ==
    LET freed  == {k \in got : holder[k] = c}
        inGate == c \in shared \/ exclusive = c
        sh     == shared \ {c}
        ex     == IF exclusive = c THEN NoCall ELSE exclusive
        passed == IF inGate THEN Passed(gateQ, sh, ex) ELSE <<>>
        woken  == {NextWaiter(k) : k \in Handed(freed)} \cup ToSet(passed)
    IN  /\ PumpKeys(freed)
        /\ IF inGate THEN PumpGate(gateQ, sh, ex)
           ELSE UNCHANGED <<shared, exclusive, gateQ>>
        /\ wake' = [d \in Calls |-> IF d = c THEN "none"
                                    ELSE IF d \in woken THEN "granted"
                                    ELSE wake[d]]
        /\ micro' = jobs \o HandedInOrder(freed) \o passed
        /\ held' = [held EXCEPT ![Root(c)] =
                      @ \ (got \cup GatePass(c))]
        /\ acquired' = [acquired EXCEPT ![c] = {}]
        /\ UNCHANGED <<pendingError, wanted, at, aborted, late>>

\* lockKey would look at the queue only.
KeyFreeMutant(k) == keyQ[k] = <<>>

KeyFree(k) == holder[k] = NoCall /\ keyQ[k] = <<>>

\* lockKey(k, c), the await that follows it, and the rest of the job.
LockKey(c, k, jobs) ==
    /\ pc' = [pc EXCEPT ![c] = "key"]
    /\ at' = [at EXCEPT ![c] = k]
    /\ IF KeyFree(k)
       THEN /\ holder' = [holder EXCEPT ![k] = c]
            /\ wake' = [wake EXCEPT ![c] = "granted"]
            /\ micro' = Append(jobs, c)
            /\ UNCHANGED keyQ
       ELSE /\ keyQ' = [keyQ EXCEPT ![k] = Append(@, c)]
            /\ wake' = [wake EXCEPT ![c] = "none"]
            /\ micro' = jobs
            /\ UNCHANGED holder

\* lockGate would let a call overtake the ones that already queue.
GateFreeMutant(c) == CanGrant(c, shared, exclusive)

GateFree(c) == gateQ = <<>> /\ CanGrant(c, shared, exclusive)

\* lockGate(c) and the await that follows it.
LockGate(c) ==
    /\ pc' = [pc EXCEPT ![c] = "gate"]
    /\ IF GateFree(c)
       THEN /\ GrantGate({c}, shared, exclusive)
            /\ wake' = [wake EXCEPT ![c] = "granted"]
            /\ micro' = Append(micro, c)
            /\ UNCHANGED gateQ
       ELSE /\ gateQ' = Append(gateQ, c)
            /\ UNCHANGED <<shared, exclusive, wake, micro>>

\* The end of acquire(): the call has all it asked for and its handler runs.
Start(c, got, jobs) ==
    /\ pc' = [pc EXCEPT ![c] = "running"]
    /\ acquired' = [acquired EXCEPT ![c] = got]
    /\ held' = [held EXCEPT ![Root(c)] = @ \cup got \cup GatePass(c)]
    /\ wake' = [wake EXCEPT ![c] = "none"]
    /\ micro' = jobs

-----------------------------------------------------------------------------
(* acquire(): the part that runs at once, then one step per continuation.  *)

\* A batch handler starts its steps one after the other while it runs.
MayArrive(c) ==
    /\ pc[c] = "idle"
    /\ Parent[c] # NoCall =>
         /\ Executing(Parent[c])
         /\ \A d \in Steps(Parent[c]) : pc[d] = "idle" \/ Settled(d)

Cancelled(c) == Root(c) \in aborted \cup late
NeedsGate(c) == GATE_KEY \notin held[Root(c)]
StillWanted(c) == Need[c] \ held[Root(c)]
First(k, S) == k \in S /\ \A j \in S : k <= j

ArriveRefused(c) ==
    /\ MayArrive(c)
    /\ arrived' = Append(arrived, c)
    /\ Cancelled(c)
    /\ pc' = [pc EXCEPT ![c] = "failed"]
    /\ UNCHANGED <<wake, pendingError, wanted, acquired, at, lockVars, held,
                   aborted, late, micro>>

ArriveAtGate(c) ==
    /\ MayArrive(c)
    /\ arrived' = Append(arrived, c)
    /\ ~Cancelled(c)
    /\ NeedsGate(c) /\ (StillWanted(c) # {} \/ c \in Exclusive)
    /\ wanted' = [wanted EXCEPT ![c] = StillWanted(c)]
    /\ LockGate(c)
    /\ UNCHANGED <<pendingError, acquired, at, holder, keyQ, held, aborted, late>>

\* A batch step whose batch passed the gate goes straight to its keys.
ArriveAtKeys(c) ==
    /\ MayArrive(c)
    /\ arrived' = Append(arrived, c)
    /\ ~Cancelled(c)
    /\ ~NeedsGate(c)
    /\ wanted' = [wanted EXCEPT ![c] = StillWanted(c)]
    /\ \E k \in Keys : First(k, StillWanted(c)) /\ LockKey(c, k, micro)
    /\ UNCHANGED <<pendingError, acquired, shared, exclusive, gateQ, held,
                   aborted, late>>

\* Nothing left to wait for: a step on its batch's own tab, or a call that
\* asked for no lane.
ArriveAndRun(c) ==
    /\ MayArrive(c)
    /\ arrived' = Append(arrived, c)
    /\ ~Cancelled(c)
    /\ StillWanted(c) = {}
    /\ NeedsGate(c) => c \notin Exclusive
    /\ Start(c, {}, micro)
    /\ UNCHANGED <<pendingError, wanted, at, lockVars, aborted, late>>

\* A key granted just as the call was cancelled would not be recorded.
GotMutant(c) == IF pc[c] = "key" /\ wake[c] = "granted" /\ ~pendingError[c]
                THEN acquired[c] \cup {at[c]} ELSE acquired[c]

\* What c has acquired once its continuation has run.
Got(c) == IF pc[c] = "key" /\ wake[c] = "granted"
          THEN acquired[c] \cup {at[c]} ELSE acquired[c]

\* The promise c awaits is settled and its continuation is the next microtask.
IsNextJob(c) == wake[c] # "none" /\ micro # <<>> /\ Head(micro) = c

\* Nothing would be checked again once the last lane is granted.
FailsMutant(c) == wake[c] = "rejected" \/ pendingError[c]

Fails(c) ==
    \/ wake[c] = "rejected"
    \/ pendingError[c]
    \/ wanted[c] = Got(c) /\ Cancelled(c)

ResumeRejected(c) ==
    /\ IsNextJob(c)
    /\ Fails(c)
    /\ ReleaseTicket(c, Got(c), Tail(micro))
    /\ pc' = [pc EXCEPT ![c] = "failed"]
    /\ UNCHANGED arrived

ResumeNextKey(c) ==
    /\ IsNextJob(c)
    /\ ~Fails(c)
    /\ acquired' = [acquired EXCEPT ![c] = Got(c)]
    /\ \E k \in Keys : First(k, wanted[c] \ Got(c)) /\ LockKey(c, k, Tail(micro))
    /\ UNCHANGED <<pendingError, wanted, shared, exclusive, gateQ, held,
                   aborted, late, arrived>>

ResumeStart(c) ==
    /\ IsNextJob(c)
    /\ ~Fails(c)
    /\ wanted[c] = Got(c)
    /\ Start(c, Got(c), Tail(micro))
    /\ UNCHANGED <<pendingError, wanted, at, lockVars, aborted, late, arrived>>

-----------------------------------------------------------------------------
(* What can happen to a call from outside.                                 *)

\* The handler of run() returns or throws, and its finally block releases.
Finish(c) ==
    /\ Executing(c)
    /\ \A d \in Steps(c) : pc[d] = "idle" \/ Settled(d)
    /\ pc' = [pc EXCEPT ![c] = "done"]
    /\ IF pc[c] = "running" THEN ReleaseTicket(c, acquired[c], micro)
       ELSE UNCHANGED <<wake, pendingError, wanted, acquired, at, lockVars,
                        held, aborted, late, micro>>
    /\ UNCHANGED arrived

\* dropWaiter.  Dropping a key waiter never frees the key, since only a held
\* key has waiters; dropping a gate waiter can let the ones behind it pass.
DropWaiter(c) ==
    \/ /\ wake[c] # "none"
       /\ pendingError' = [pendingError EXCEPT ![c] = TRUE]
       /\ UNCHANGED <<wake, lockVars, micro>>
    \/ /\ wake[c] = "none" /\ pc[c] = "key"
       /\ \E i \in 1 .. Len(keyQ[at[c]]) :
            /\ keyQ[at[c]][i] = c
            /\ keyQ' = [keyQ EXCEPT ![at[c]] = RemoveAt(@, i)]
       /\ wake' = [wake EXCEPT ![c] = "rejected"]
       /\ micro' = Append(micro, c)
       /\ UNCHANGED <<pendingError, holder, shared, exclusive, gateQ>>
    \/ /\ wake[c] = "none" /\ pc[c] = "gate"
       /\ \E i \in 1 .. Len(gateQ) :
            LET rest   == RemoveAt(gateQ, i)
                passed == Passed(rest, shared, exclusive)
            IN  /\ gateQ[i] = c
                /\ PumpGate(rest, shared, exclusive)
                /\ wake' = [d \in Calls |-> IF d = c THEN "rejected"
                                            ELSE IF d \in ToSet(passed) THEN "granted"
                                            ELSE wake[d]]
                /\ micro' = Append(micro \o passed, c)
       /\ UNCHANGED <<pendingError, holder, keyQ>>

\* The signal of x's context aborts; only a call in acquire() listens to it.
Abort(x) ==
    /\ x \in Abortable /\ Root(x) = x /\ x \notin aborted /\ ~Settled(x)
    /\ aborted' = aborted \cup {x}
    /\ \/ \E c \in Calls : Root(c) = x /\ Waiting(c) /\ DropWaiter(c)
       \/ /\ \A c \in Calls : Root(c) = x => ~Waiting(c)
          /\ UNCHANGED <<wake, pendingError, lockVars, micro>>
    /\ UNCHANGED <<pc, wanted, acquired, at, held, late, arrived>>

\* The acquireTimeoutMs timer of a call that still waits.
AcquireTimeout(c) ==
    /\ micro = <<>>
    /\ c \in Impatient /\ Waiting(c)
    /\ DropWaiter(c)
    /\ UNCHANGED <<pc, wanted, acquired, at, held, aborted, late, arrived>>

\* now() >= deadline from here on.
DeadlinePasses(x) ==
    /\ x \in Timed /\ Root(x) = x /\ x \notin late /\ ~Settled(x)
    /\ late' = late \cup {x}
    /\ UNCHANGED <<pc, wake, pendingError, wanted, acquired, at, lockVars, held,
                   aborted, micro, arrived>>

\* The watchdog would flag the call but not release it.
WatchdogMutant(c) ==
    /\ micro = <<>>
    /\ pc[c] = "running" /\ Root(c) \in late
    /\ pc' = [pc EXCEPT ![c] = "orphaned"]
    /\ UNCHANGED <<wake, pendingError, wanted, acquired, at, lockVars, held,
                   aborted, late, micro, arrived>>

\* watchdogGraceMs after the deadline a running call loses its lanes.
Watchdog(c) ==
    /\ micro = <<>>
    /\ pc[c] = "running" /\ Root(c) \in late
    /\ ReleaseTicket(c, acquired[c], micro)
    /\ pc' = [pc EXCEPT ![c] = "orphaned"]
    /\ UNCHANGED arrived

\* Every call has ended: nothing more to do.
AllSettled ==
    /\ \A c \in Calls : Settled(c) \/ (pc[c] = "idle" /\ Parent[c] # NoCall)
    /\ UNCHANGED vars

Next ==
    \/ \E c \in Calls :
         \/ ArriveRefused(c) \/ ArriveAtGate(c) \/ ArriveAtKeys(c) \/ ArriveAndRun(c)
         \/ ResumeRejected(c) \/ ResumeNextKey(c) \/ ResumeStart(c)
         \/ Finish(c) \/ Watchdog(c)
         \/ Abort(c) \/ AcquireTimeout(c) \/ DeadlinePasses(c)
    \/ AllSettled

Spec == Init /\ [][Next]_vars

(***************************************************************************)
(* Continuations and timers always run in the end.  A handler with a        *)
(* deadline may hang forever (the watchdog is there for it); one without,   *)
(* an agent-run call, is assumed to return.                                *)
(***************************************************************************)
Fairness ==
    \A c \in Calls :
        /\ WF_vars(ResumeRejected(c) \/ ResumeNextKey(c) \/ ResumeStart(c))
        /\ WF_vars(AcquireTimeout(c))
        /\ WF_vars(DeadlinePasses(c))
        /\ WF_vars(Watchdog(c))
        /\ Root(c) \notin Timed => WF_vars(Finish(c))

FairSpec == Spec /\ Fairness

-----------------------------------------------------------------------------
(* Properties.                                                             *)

\* Types of what the locks and tickets hold.
LockTypeOK ==
    /\ pc \in [Calls -> {"idle", "gate", "key", "running", "orphaned",
                         "failed", "done"}]
    /\ wake \in [Calls -> {"none", "granted", "rejected"}]
    /\ pendingError \in [Calls -> BOOLEAN]
    /\ wanted \in [Calls -> SUBSET Keys]
    /\ acquired \in [Calls -> SUBSET Keys]
    /\ at \in [Calls -> Keys \cup {GATE_KEY}]
    /\ holder \in [Keys -> Calls \cup {NoCall}]
    /\ keyQ \in [Keys -> Seq(Calls)]
    /\ gateQ \in Seq(Calls)
    /\ held \in [Calls -> SUBSET (Keys \cup {GATE_KEY})]

\* Types of the locks, the gate and the calls (tool-lanes.js:54-58).
TypeOK ==
    /\ LockTypeOK
    /\ shared \subseteq Calls /\ exclusive \in Calls \cup {NoCall}
    /\ aborted \subseteq Calls /\ late \subseteq Calls
    /\ micro \in Seq(Calls) /\ arrived \in Seq(Calls)

\* A call whose own lanes and whose batch's lanes are still in force.
Protected(c) == pc[c] = "running" /\ pc[Root(c)] = "running"

\* No two handlers of different contexts work on the same lane at once,
\* whether they took it themselves or inherited it from their batch; only a
\* handler the watchdog has given up on can overlap ("two calls on the same
\* tab run one after another").
LaneExclusion ==
    \A c, d \in Calls :
        Protected(c) /\ Protected(d) /\ Root(c) # Root(d)
            => Need[c] \cap Need[d] = {}

\* An exclusive call that passed the gate itself runs alone: no other call
\* that asked for lanes runs, apart from orphans.
ExclusiveAlone ==
    \A c, d \in Calls :
        /\ c \in Exclusive /\ Parent[c] = NoCall /\ Protected(c)
        /\ Protected(d) /\ Root(d) # c
        => Need[d] = {}

\* No lost wake-up: a queue with waiters is blocked by somebody who still has
\* to release, whatever mix of aborts, timeouts and grants came before.
QueuesAreBlocked ==
    /\ \A k \in Keys : keyQ[k] # <<>> => holder[k] # NoCall
    /\ gateQ # <<>> => ~CanGrant(Head(gateQ), shared, exclusive)

\* Nothing leaks: whoever holds a key or the gate is a call that is waiting
\* for more or running, never one that failed, finished or was orphaned.
HoldersAreLive ==
    /\ \A k \in Keys : holder[k] # NoCall =>
         pc[holder[k]] \in {"key", "running"}
    /\ \A c \in shared \cup ({exclusive} \ {NoCall}) :
         pc[c] \in {"gate", "key", "running"}

\* heldLanes says exactly what the running calls of a context hold, so a
\* batch step never skips a lane its batch does not have.
HeldLanesTruthful ==
    \A c \in Calls : Root(c) = c =>
        LET own == {d \in Calls : Root(d) = c /\ pc[d] = "running"}
        IN  held[c] = {k \in Keys : holder[k] \in own}
                        \cup {g \in {GATE_KEY} : own \cap (shared \cup {exclusive}) # {}}

\* The types of the locks, and that no wake-up is lost, nothing leaks and
\* heldLanes is true, when the scheduler rests between two events.
LocksSound == TypeOK /\ QueuesAreBlocked /\ HoldersAreLive /\ HeldLanesTruthful

\* Two calls that cannot overlap run in the order in which they were made, as
\* long as the later one needs the first lane of the earlier one, or one of
\* them is exclusive.
ArrivalOrder ==
    \A i, j \in DOMAIN arrived :
        LET c == arrived[i]
            d == arrived[j]
        IN  /\ i < j
            /\ Parent[c] = NoCall /\ Parent[d] = NoCall
            /\ \/ \E k \in Keys : First(k, Need[c]) /\ k \in Need[d]
               \/ {c, d} \cap Exclusive # {} /\ Need[d] # {}
            /\ pc[d] = "running"
            => ~(Waiting(c) /\ wake[c] # "rejected")

\* A handler never starts for a call that was aborted or late before it got
\* all its lanes ("skipped, not run").
NoLateStart ==
    [][\A c \in Calls : pc[c] # "running" /\ pc'[c] = "running"
         => ~Cancelled(c) /\ ~pendingError[c]]_vars

\* Nobody waits for ever, even when a handler with a deadline hangs and two
\* batches hold the lanes each other's next step wants.
WaitersMoveOn == \A c \in Calls : Waiting(c) ~> ~Waiting(c)

-----------------------------------------------------------------------------
(* The inductive invariant behind LaneExclusion.                           *)

\* A settled promise belongs to a call that still waits, and the waiters of a
\* queue are distinct calls whose promise is pending for that very lock.
WaitersPending ==
    /\ \A c \in Calls : wake[c] # "none" => Waiting(c)
    /\ \A k \in Keys : \A i \in 1 .. Len(keyQ[k]) :
         /\ pc[keyQ[k][i]] = "key" /\ wake[keyQ[k][i]] = "none" /\ at[keyQ[k][i]] = k
         /\ \A j \in 1 .. Len(keyQ[k]) : keyQ[k][i] = keyQ[k][j] => i = j
    /\ \A i \in 1 .. Len(gateQ) :
         /\ pc[gateQ[i]] = "gate" /\ wake[gateQ[i]] = "none"
         /\ \A j \in 1 .. Len(gateQ) : gateQ[i] = gateQ[j] => i = j

\* Every key a ticket has recorded, or is about to record, is locked for it.
TicketsHoldKeys ==
    /\ \A c \in Calls : \A k \in acquired[c] : holder[k] = c
    /\ \A c \in Calls : acquired[c] # {} => pc[c] \in {"key", "running"}
    /\ \A c \in Calls : pc[c] = "key" => at[c] \in Keys
    /\ \A c \in Calls :
         pc[c] = "key" /\ wake[c] = "granted" => holder[at[c]] = c

\* heldLanes names only keys that running calls of its context hold.
HeldLanesCovered ==
    \A x \in Calls : \A k \in held[x] \cap Keys :
        \E d \in Calls : Root(d) = x /\ pc[d] = "running" /\ k \in acquired[d]

\* A batch's handler outlives its steps.
InsideBatch(c) == Parent[c] # NoCall => Executing(Parent[c])

\* What c does not take itself, as part of w, its running batch holds.
NeedsMet(c, w) ==
    (Root(c) # c => pc[Root(c)] = "running") =>
        Need[c] \subseteq w \cup (IF Root(c) = c THEN {} ELSE acquired[Root(c)])

NeedsCovered ==
    /\ \A c \in Calls : pc[c] = "idle" => wanted[c] = {}
    /\ \A c \in Calls : pc[c] = "running" => wanted[c] = acquired[c]
    /\ \A c \in Calls :
         pc[c] \in {"gate", "key", "running"} => NeedsMet(c, wanted[c])

StepsInsideBatch ==
    \A c \in Calls :
        pc[c] \in {"gate", "key", "running", "orphaned"} => InsideBatch(c)

\* The bookkeeping of the scheduler is consistent: what tickets, queues, wake-ups
\* and heldLanes (tool-lanes.js:54-172) say of a lane agrees.
LaneInv ==
    /\ LockTypeOK
    /\ WaitersPending
    /\ TicketsHoldKeys
    /\ HeldLanesCovered
    /\ NeedsCovered
    /\ StepsInsideBatch

=============================================================================
