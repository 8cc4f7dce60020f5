------------------------------ MODULE CodeMode ------------------------------
(***************************************************************************)
(* Code Mode (server/codemode/index.js, sandbox.js) with the confirmations *)
(* of the server (server/index.js): scripts whose tool calls may be held   *)
(* for approval.                                                           *)
(*                                                                         *)
(* A held call pauses its script.  One hold of a script is reported at a   *)
(* time, to the MCP call that waits for the script; it is then decided by  *)
(* confirm_action or cancel_action, or expires.  Three clocks run: the     *)
(* deadline of a script, stopped while a hold is reported, though code that *)
(* runs meanwhile is held to the old deadline; the life of a confirmation, *)
(* from the moment the call is held; the life of a paused script, from the *)
(* moment its hold is reported.  Time passes in ticks; no tick passes a timer *)
(* that is due, and a tool call lasts at most one.                         *)
(***************************************************************************)
EXTENDS Integers, Sequences, FiniteSets

CONSTANTS
    Runs,         \* scripts
    Unattended,   \* those started by a schedule
    Calls,        \* tool calls of the scripts
    NoCall, NoRun,
    MaxSuspended, \* MAX_SUSPENDED_RUNS
    Lifetime,     \* ticks in SUSPEND_TTL_MS, and in the life of a confirmation
    Timeout,      \* ticks in timeoutMs
    Parallel      \* a script may have several calls in progress

ASSUME CodeModeAssumption ==
    /\ Unattended \subseteq Runs /\ IsFiniteSet(Calls)
    /\ NoCall \notin Calls /\ NoRun \notin Runs
    /\ MaxSuspended \in Nat /\ Lifetime \in Nat \ {0} /\ Timeout \in Nat
    /\ Parallel \in BOOLEAN

VARIABLES
    run,       \* scripts: the states of run() and the controls of their sandboxes
    call,      \* tool calls
    suspended, \* the reported holds, by their confirmation
    confirm    \* pendingConfirmations: ticks left, or Off

vars == <<run, call, suspended, confirm>>

Off == -1

NewRun == [st |-> "new", waiter |-> FALSE, active |-> NoCall, queue |-> << >>,
           paused |-> FALSE, time |-> Timeout, old |-> 0, ttl |-> Off]
NewCall == [st |-> "none", run |-> NoRun, told |-> FALSE, aged |-> FALSE, ran |-> 0]

Init ==
    /\ run = [r \in Runs |-> NewRun]
    /\ call = [k \in Calls |-> NewCall]
    /\ suspended = {}
    /\ confirm = [k \in Calls |-> Off]

Live(r) == run[r].st = "live"
Pending(k) == confirm[k] # Off
OnHold(k) == k \in suspended /\ run[call[k].run].active = k

Going == {"inflight", "approved"}

-----------------------------------------------------------------------------
(* The end of a script.                                                    *)

\* The hold that was reported would be forgotten.
HoldsMutant(r) == {run[r].queue[i] : i \in DOMAIN run[r].queue}

Holds(r) == {run[r].queue[i] : i \in DOMAIN run[r].queue} \cup ({run[r].active} \ {NoCall})

\* Held calls that nobody has approved: their promises are never settled.
Undecided(r) == {k \in Holds(r) : call[k].st = "held"}

\* settleRun, where the calls and the confirmations are by now c and cf.
Settle(r, outcome, c, cf) ==
    /\ run' = [run EXCEPT ![r] = [NewRun EXCEPT !.st = outcome]]
    /\ suspended' = suspended \ Holds(r)
    /\ call' = [k \in Calls |-> IF k \in Undecided(r) THEN [c[k] EXCEPT !.st = "dropped"] ELSE c[k]]
    /\ confirm' = [k \in Calls |-> IF k \in Holds(r) THEN Off ELSE cf[k]]

\* A script that awaits each of its calls makes no step in the middle of one.
MayGoOn(r) ==
    /\ Live(r)
    /\ Parallel \/ \A k \in Calls : call[k].run = r => call[k].st \notin Going \cup {"held"}

Ends(r) == MayGoOn(r) /\ Settle(r, "over", call, confirm)

Deadline(r) ==
    /\ Live(r) /\ ~run[r].paused /\ run[r].time = 0
    /\ Settle(r, "timedout", call, confirm)

\* The interrupt handler of the sandbox keeps to the old deadline in a pause.
Interrupted(r) ==
    /\ MayGoOn(r) /\ run[r].paused /\ run[r].old = 0
    /\ Settle(r, "timedout", call, confirm)

\* "Approval expired; the script was discarded"
Discard(r) ==
    /\ Live(r) /\ run[r].ttl = 0
    /\ Settle(r, "over", call, confirm)

\* The client cancels the MCP call that waits: the script's calls are aborted.
ClientCancels(r) ==
    /\ Live(r) /\ run[r].waiter
    /\ Settle(r, "over",
              [k \in Calls |-> IF call[k].run = r /\ call[k].st = "inflight"
                               THEN [call[k] EXCEPT !.st = "dropped"] ELSE call[k]],
              confirm)

-----------------------------------------------------------------------------
(* Calls and holds.                                                        *)

Start(r) ==
    /\ run[r].st = "new"
    /\ run' = [run EXCEPT ![r] = [NewRun EXCEPT !.st = "live", !.waiter = TRUE]]
    /\ UNCHANGED <<call, suspended, confirm>>

HostCall(r, k) ==
    /\ MayGoOn(r) /\ call[k].st = "none"
    /\ call' = [call EXCEPT ![k] = [NewCall EXCEPT !.st = "inflight", !.run = r]]
    /\ UNCHANGED <<run, suspended, confirm>>

\* The call is not held: it has run, whether its script is still there or not.
Returns(k) ==
    /\ call[k].st = "inflight"
    /\ call' = [call EXCEPT ![k].st = "done", ![k].ran = @ + 1]
    /\ UNCHANGED <<run, suspended, confirm>>

\* A confirmation would live less long than a paused script.
LifeMutant == Lifetime - 1

\* The life of a confirmation, _holdForConfirmation.
Life == Lifetime

\* The life of a paused script would not be limited.
TtlMutant == Off

\* The life of a paused script.
Ttl == Lifetime

\* The last place would be given away twice.
TooManyMutant == Cardinality(suspended) > MaxSuspended

TooMany == Cardinality(suspended) >= MaxSuspended

\* Nobody can approve, or too many scripts are paused: the script stops.  The
\* confirmation of an unattended call is dropped, the other is left and named
\* in the outcome of the script.
HoldStops(k) ==
    LET r  == call[k].run
        c  == [call EXCEPT ![k].st = "dropped", ![k].told = r \notin Unattended /\ run[r].waiter]
        cf == [confirm EXCEPT ![k] = IF r \in Unattended THEN Off ELSE Life]
    IN  /\ call[k].st = "inflight" /\ (r \in Unattended \/ TooMany)
        /\ IF Live(r) THEN Settle(r, "over", c, cf)
           ELSE call' = c /\ confirm' = cf /\ UNCHANGED <<run, suspended>>

\* holdOutput: the caller is told of one hold, while the clock stands.
Report(r, k, rest, stands, c) ==
    /\ run' = [run EXCEPT ![r] = [run[r] EXCEPT
                     !.active = k, !.queue = rest, !.waiter = FALSE, !.paused = stands, !.ttl = Ttl,
                     !.old = IF run[r].paused THEN run[r].old ELSE run[r].time]]
    /\ call' = [c EXCEPT ![k].told = TRUE]

\* The call is held; another hold of the script may be reported already.  When
\* the script is gone nobody waits for the hold.
HoldPauses(k) ==
    LET r == call[k].run
        c == [call EXCEPT ![k].st = IF Live(r) THEN "held" ELSE "dropped"]
    IN  /\ call[k].st = "inflight" /\ r \notin Unattended /\ ~TooMany
        /\ confirm' = [confirm EXCEPT ![k] = Life]
        /\ \/ /\ Live(r) /\ run[r].active = NoCall
              /\ Report(r, k, << >>, TRUE, c)
              /\ suspended' = suspended \cup {k}
           \/ /\ Live(r) /\ run[r].active # NoCall
              /\ run' = [run EXCEPT ![r].queue = Append(@, k)]
              /\ call' = c /\ UNCHANGED suspended
           \/ /\ ~Live(r)
              /\ call' = c /\ UNCHANGED <<run, suspended>>

-----------------------------------------------------------------------------
(* Decisions.                                                              *)

\* The clock would go on whenever a hold is decided.
GoesOnMutant(r) == TRUE

\* The clock goes on when no other hold is left.
GoesOn(r) == run[r].queue = << >>

\* takeSuspended(k), then nextOutcome: the next hold, or the MCP call waits.
Take(r, k, c) ==
    LET q == run[r].queue
    IN  IF q = << >>
        THEN /\ run' = [run EXCEPT ![r] = [run[r] EXCEPT
                          !.active = NoCall, !.ttl = Off, !.waiter = TRUE, !.paused = ~GoesOn(r), !.old = 0]]
             /\ suspended' = suspended \ {k} /\ call' = c
        ELSE /\ Report(r, Head(q), Tail(q), ~GoesOn(r), c)
             /\ suspended' = (suspended \ {k}) \cup {Head(q)}

\* The confirmation would be deleted only when the call has run.
UsedMutant(k) == confirm

Used(k) == [confirm EXCEPT ![k] = Off]

\* confirm_action: the call runs, for its script or on its own.
Approve(k) ==
    /\ Pending(k) /\ call[k].told
    /\ confirm' = Used(k)
    /\ call' = [call EXCEPT ![k] = [call[k] EXCEPT !.st = "approved", !.aged = FALSE, !.ran = @ + 1]]
    /\ UNCHANGED <<run, suspended>>

\* resume: the call may be of no paused script, or the script gone by now.
ApprovedReturns(k) ==
    LET c == [call EXCEPT ![k].st = "done"]
    IN  /\ call[k].st = "approved"
        /\ IF OnHold(k) THEN Take(call[k].run, k, c)
           ELSE call' = c /\ UNCHANGED <<run, suspended>>
        /\ UNCHANGED confirm

\* cancel_action: ApprovalDenied in the script.
Deny(k) ==
    LET c == [call EXCEPT ![k].st = "done"]
    IN  /\ Pending(k) /\ call[k].told
        /\ confirm' = Used(k)
        /\ IF OnHold(k) THEN Take(call[k].run, k, c)
           ELSE call' = c /\ UNCHANGED <<run, suspended>>

-----------------------------------------------------------------------------
(* Time.                                                                   *)

ConfirmExpires(k) ==
    /\ confirm[k] = 0
    /\ confirm' = [confirm EXCEPT ![k] = Off]
    /\ UNCHANGED <<run, call, suspended>>

Due == \/ \E k \in Calls : confirm[k] = 0 \/ (call[k].st \in Going /\ call[k].aged)
       \/ \E r \in Runs : Live(r) /\ (run[r].ttl = 0 \/ (~run[r].paused /\ run[r].time = 0))

Less(n) == IF n = Off THEN Off ELSE n - 1

Tick ==
    /\ ~Due
    /\ run' = [r \in Runs |->
         IF Live(r) THEN [run[r] EXCEPT !.time = IF run[r].paused THEN @ ELSE @ - 1,
                                       !.old = IF @ > 0 THEN @ - 1 ELSE 0, !.ttl = Less(@)]
         ELSE run[r]]
    /\ confirm' = [k \in Calls |-> Less(confirm[k])]
    /\ call' = [k \in Calls |-> [call[k] EXCEPT !.aged = call[k].st \in Going]]
    /\ UNCHANGED suspended

Timers ==
    \/ \E r \in Runs : Deadline(r) \/ Discard(r)
    \/ \E k \in Calls : ConfirmExpires(k)

Results == \E k \in Calls : Returns(k) \/ HoldStops(k) \/ HoldPauses(k) \/ ApprovedReturns(k)

Next ==
    \/ \E r \in Runs : Start(r) \/ Ends(r) \/ ClientCancels(r) \/ Interrupted(r) \/ \E k \in Calls : HostCall(r, k)
    \/ Results
    \/ \E k \in Calls : Approve(k) \/ Deny(k)
    \/ Timers
    \/ Tick

Spec == Init /\ [][Next]_vars

\* Calls return, timers fire and time passes; nobody has to decide anything,
\* and a script need not end by itself.
FairSpec == Spec /\ WF_vars(Results) /\ WF_vars(Timers) /\ WF_vars(Tick)

-----------------------------------------------------------------------------
(* Properties.                                                             *)

\* Types; what is suspended is exactly the hold reported of each live script.
TypeOK ==
    /\ run \in [Runs -> [st : {"new", "live", "over", "timedout"}, waiter : BOOLEAN, active : Calls \cup {NoCall},
                         queue : Seq(Calls), paused : BOOLEAN, time : 0 .. Timeout, old : 0 .. Timeout, ttl : Off .. Lifetime]]
    /\ call \in [Calls -> [st : {"none", "held", "done", "dropped"} \cup Going, run : Runs \cup {NoRun},
                           told : BOOLEAN, aged : BOOLEAN, ran : 0 .. 2]]
    /\ suspended = {run[r].active : r \in {r \in Runs : Live(r)}} \ {NoCall}
    /\ confirm \in [Calls -> Off .. Lifetime]

\* "at most 8 scripts can be paused at once" (README.md:245), though places
\* are counted when a call is held and taken when a hold is reported.
PausedBound == Cardinality(suspended) <= MaxSuspended

\* A call runs once, however it is approved: when it is not held, or after one
\* confirm_action, also when approvals, denials and expiries race.
RanOnce == \A k \in Calls : call[k].ran <= 1

\* The clock of a script stands exactly while a hold of it is reported: no
\* deadline fires on a human, and none is left without a clock (index.js:303,
\* 452; a script that has several holds resumes its clock after the last).
ClockStands == \A r \in Runs : Live(r) => (run[r].paused <=> run[r].active # NoCall)

\* Time does not pass with a reported hold that can no longer be decided: the
\* life of a paused script "Matches the lifetime of a held confirmation"
\* (codemode/index.js:70).
HoldOpen ==
    [][Tick => \A k \in suspended : Pending(k) \/ call[k].st = "approved"]_vars

\* A script that is started ends, whatever it does and whoever decides or not.
RunEnds == \A r \in Runs : Live(r) ~> ~Live(r)

-----------------------------------------------------------------------------
(* The inductive invariant behind PausedBound, RanOnce and ClockStands.    *)

ScriptTypeOK ==
    /\ run \in [Runs -> [st : {"new", "live", "over", "timedout"}, waiter : BOOLEAN, active : Calls \cup {NoCall},
                         queue : Seq(Calls), paused : BOOLEAN, time : Int, old : Int, ttl : Int]]
    /\ call \in [Calls -> [st : {"none", "held", "done", "dropped"} \cup Going, run : Runs \cup {NoRun},
                           told : BOOLEAN, aged : BOOLEAN, ran : Nat]]
    /\ suspended \subseteq Calls
    /\ confirm \in [Calls -> Int]

\* What can still run has not run: a call in flight, and one with a confirmation.
RunsAhead ==
    \A k \in Calls :
        /\ call[k].st # "none" => call[k].run \in Runs
        /\ call[k].st \in {"none", "inflight"} => call[k].ran = 0 /\ ~Pending(k)
        /\ Pending(k) => call[k].ran = 0

\* The clocks of all scripts are right, those that are over included.
ClocksStand == \A r \in Runs : run[r].paused <=> run[r].active # NoCall

\* What the calls, the confirmations and the clocks say of a script agrees
\* (codemode/index.js:295-305, 424-454; index.js:767-798, 9083-9155).
ScriptInv == ScriptTypeOK /\ RunsAhead /\ ClocksStand /\ RanOnce /\ PausedBound

=============================================================================
