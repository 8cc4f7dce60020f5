----------------------------- MODULE RunHistory -----------------------------
(***************************************************************************)
(* The history of workflow runs (extension/background/workflow-engine.js):  *)
(* a copy in memory serves reads and takes the reports of finished runs; it *)
(* is written to storage behind a timer, through a chain of writes.  The    *)
(* storage event of a write that is not the last one it started is taken    *)
(* for somebody else's and replaces the copy.  The user clears the history  *)
(* at any time, and the worker may be killed.                               *)
(*                                                                         *)
(* A list is the set of the runs in it: its order and its limit are left   *)
(* out.                                                                    *)
(***************************************************************************)
EXTENDS Naturals, Sequences, FiniteSets

CONSTANTS
    Reports,  \* runs that finish
    NoList,   \* no list: nothing in memory, or no such key in storage
    Prompt,   \* the assumption Quiet below is made
    MaxKills  \* bound on kills of the worker

\* What the constants are.
RunHistoryAssumption ==
    /\ Prompt \in BOOLEAN /\ MaxKills \in Nat
    /\ IsFiniteSet(Reports) /\ \A S \in SUBSET Reports : S # NoList

VARIABLES
    disk,     \* storage.local["autodom.workflowRuns"]
    cache,    \* runsCache
    loading,  \* what loadRuns has read and not yet taken over: none, or one list
    timer,    \* runsWriteTimer is set
    writes,   \* runsWriteChain: the lists to be written, the first one in flight
    sig,      \* runsWrittenSig: the list it stands for
    events,   \* storage events on their way
    clear,    \* clearRunHistory: how far it is, and how many writes it waits for
    seen,     \* per run: not finished, in the history, cleared, lost with the worker
    kills

vars == <<disk, cache, loading, timer, writes, sig, events, clear, seen, kills>>

Init ==
    /\ disk = NoList /\ cache = NoList /\ loading = <<>> /\ timer = FALSE
    /\ writes = <<>> /\ sig = NoList /\ events = <<>>
    /\ clear = [st |-> "none", waits |-> 0]
    /\ seen = [r \in Reports |-> "running"] /\ kills = 0

\* The list in a storage value; runsSig is the same for no value and an empty one.
List(v) == IF v = NoList THEN {} ELSE v
With(status) == {r \in Reports : seen[r] = status}

\* The assumption under which the history is kept: while clearRunHistory waits
\* or the event of a write is on its way no run finishes and no write starts,
\* and a write starts when the one before it is over (the timer leaves 300 ms
\* for all that, the end of a batch leaves none).
Quiet == Prompt => events = <<>> /\ clear.st # "waits"
Written == Quiet /\ (Prompt => writes = <<>>)

\* A change of the stored value is announced.
Store(v) ==
    /\ disk' = v
    /\ events' = IF v = disk THEN events ELSE Append(events, v)

-----------------------------------------------------------------------------
(* loadRuns, pushRun, flushRuns.                                           *)

LoadReads ==
    /\ cache = NoList /\ loading = <<>>
    /\ loading' = <<disk>>
    /\ UNCHANGED <<disk, cache, timer, writes, sig, events, clear, seen, kills>>

\* A list that is there by now stays.
Loaded(v) == IF cache = NoList THEN List(v) ELSE cache

LoadReturns ==
    /\ loading # <<>>
    /\ cache' = Loaded(loading[1])
    /\ loading' = <<>>
    /\ UNCHANGED <<disk, timer, writes, sig, events, clear, seen, kills>>

\* A report comes when the list is loaded.
Push(r) ==
    /\ seen[r] = "running" /\ cache # NoList /\ loading = <<>> /\ Quiet
    /\ cache' = cache \cup {r}
    /\ timer' = TRUE
    /\ seen' = [seen EXCEPT ![r] = "kept"]
    /\ UNCHANGED <<disk, loading, writes, sig, events, clear, kills>>

\* The timer, or the end of a batch.
Flush ==
    /\ timer /\ cache # NoList /\ Written
    /\ timer' = FALSE
    /\ writes' = Append(writes, cache)
    /\ sig' = cache
    /\ UNCHANGED <<disk, cache, loading, events, clear, seen, kills>>

WriteLands ==
    /\ writes # <<>>
    /\ Store(Head(writes))
    /\ writes' = Tail(writes)
    /\ clear' = [clear EXCEPT !.waits = IF @ = 0 THEN 0 ELSE @ - 1]
    /\ UNCHANGED <<cache, loading, timer, sig, seen, kills>>

\* The event of an own write would be taken over, too.
OwnMutant(v) == FALSE

Own(v) == sig # NoList /\ List(v) = sig

\* onChanged.
Event ==
    /\ events # <<>>
    /\ LET v == Head(events)
       IN  IF Own(v) THEN UNCHANGED <<cache, sig>>
           ELSE cache' = List(v) /\ sig' = List(v)
    /\ events' = Tail(events)
    /\ UNCHANGED <<disk, loading, timer, writes, clear, seen, kills>>

-----------------------------------------------------------------------------
(* "Clear run history", kills.                                             *)

\* The popup's handler removes the key.
ClearStarts ==
    /\ clear.st = "none"
    /\ Store(NoList)
    /\ clear' = [clear EXCEPT !.st = "removed"]
    /\ UNCHANGED <<cache, loading, timer, writes, sig, seen, kills>>

\* clearRunHistory: every report up to here is given up.
ClearEngine ==
    /\ clear.st = "removed"
    /\ timer' = FALSE /\ cache' = {} /\ sig' = {}
    /\ clear' = [st |-> "waits", waits |-> Len(writes)]
    /\ seen' = [r \in Reports |-> IF seen[r] = "kept" THEN "cleared" ELSE seen[r]]
    /\ UNCHANGED <<disk, loading, writes, events, kills>>

\* The key would be removed at once.
WritesOverMutant == TRUE

WritesOver == clear.waits = 0

\* When the writes that were in flight are over the key is removed again.
ClearRemoves ==
    /\ clear.st = "waits" /\ WritesOver
    /\ Store(NoList)
    /\ clear' = [clear EXCEPT !.st = "done", !.waits = 0]
    /\ UNCHANGED <<cache, loading, timer, writes, sig, seen, kills>>

\* What has not been written is lost; a write in flight may land.
Kill ==
    /\ kills < MaxKills /\ kills' = kills + 1
    /\ \/ Store(disk)
       \/ writes # <<>> /\ Store(Head(writes))
    /\ cache' = NoList /\ loading' = <<>> /\ timer' = FALSE /\ writes' = <<>> /\ sig' = NoList
    /\ clear' = IF clear.st \in {"none", "done"} THEN clear ELSE [st |-> "none", waits |-> 0]
    /\ seen' = [r \in Reports |-> IF seen[r] = "kept" /\ r \notin List(disk') THEN "lost" ELSE seen[r]]

-----------------------------------------------------------------------------
Next ==
    \/ LoadReads \/ LoadReturns \/ Flush \/ WriteLands \/ Event
    \/ ClearStarts \/ ClearEngine \/ ClearRemoves \/ Kill
    \/ \E r \in Reports : Push(r)

Spec == Init /\ [][Next]_vars

-----------------------------------------------------------------------------
(* Properties.                                                             *)

AtRest == ~timer /\ writes = <<>> /\ events = <<>> /\ clear.st \in {"none", "done"}

Lists == {NoList} \cup SUBSET Reports

\* Types; the timer is only set when there is something to write.
TypeOK ==
    /\ disk \in Lists /\ cache \in Lists /\ sig \in Lists
    /\ timer \in BOOLEAN /\ (timer => cache # NoList)
    /\ loading \in Seq(Lists) /\ writes \in Seq(SUBSET Reports) /\ events \in Seq(Lists)
    /\ clear \in [st : {"none", "removed", "waits", "done"}, waits : 0 .. Cardinality(Reports)]
    /\ seen \in [Reports -> {"running", "kept", "cleared", "lost"}]
    /\ kills \in 0 .. MaxKills

\* A history whose clearing was acknowledged does not come back ("so the old
\* history is not written back", workflow-engine.js:1531-1532).
ClearedStays ==
    clear.st = "done" => With("cleared") \cap List(disk) = {} /\ With("cleared") \cap List(cache) = {}

\* When nothing is under way the report of every finished run is in the stored
\* history, except those that were cleared, for good, and those of the last
\* 300 ms before a kill of the worker; runs that end while the history is
\* cleared "land in the emptied history" (workflow-engine.js:1532-1533).
HistoryKept == AtRest => With("kept") \subseteq List(disk) /\ ClearedStays

=============================================================================
