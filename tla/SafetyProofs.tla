---------------------------- MODULE SafetyProofs ----------------------------
(***************************************************************************)
(* What the run of MCSafety checks of its parts, proved for any constants:    *)
(* of Code Mode, for any scripts, calls, limits and lifetimes (ScriptInv and   *)
(* ScriptsOK), of the action gate, for any sites, calls and tiers (DecidedInv), *)
(* of the agent loop, for any runs, panels, paths and limits (AgentInv), and of *)
(* the chat requests, for any requests, kinds, drops and ends of the worker     *)
(* (ChatInv).  Each invariant is inductive for its part, and a step of another  *)
(* part leaves it.  The lanes of the run are an instance of ToolLanesProofs.    *)
(***************************************************************************)
EXTENDS MCSafety, FiniteSetTheorems, TLAPS

-----------------------------------------------------------------------------
(* Code Mode.                                                              *)

(* The invariant in three parts: one of scripts, one of calls with their    *)
(* confirmations, one of the places.  An action changes each as a whole.   *)

RunRecords ==
    [st : {"new", "live", "over", "timedout"}, waiter : BOOLEAN, active : Calls \cup {NoCall},
     queue : Seq(Calls), paused : BOOLEAN, time : Int, old : Int, ttl : Int]

CallRecords ==
    [st : {"none", "held", "done", "dropped"} \cup Going, run : Runs \cup {NoRun},
     told : BOOLEAN, aged : BOOLEAN, ran : Nat]

RunsOK(rn) ==
    rn \in [Runs -> RunRecords] /\ \A r \in Runs : rn[r].paused <=> rn[r].active # NoCall

\* What a call is, with n ticks left to its confirmation.
CallOK(c, n) ==
    /\ c \in CallRecords /\ n \in Int
    /\ c.st # "none" => c.run \in Runs
    /\ c.st \in {"none", "inflight"} => c.ran = 0 /\ n = Off
    /\ n # Off => c.ran = 0
    /\ c.ran <= 1

CallsOK(c, cf) ==
    /\ c \in [Calls -> CallRecords] /\ cf \in [Calls -> Int]
    /\ \A k \in Calls : CallOK(c[k], cf[k])

PlacesOK(s) == s \subseteq Calls /\ Cardinality(s) <= MaxSuspended

(* The invariant is its three parts.                                       *)
LEMMA Parts ==
    ScriptInv <=> RunsOK(run) /\ CallsOK(call, confirm) /\ PlacesOK(suspended)
BY DEF ScriptInv, ScriptTypeOK, RunsAhead, ClocksStand, RanOnce, PausedBound, Pending,
       RunsOK, CallsOK, CallOK, PlacesOK, RunRecords, CallRecords

(* The same of the next state.                                             *)
LEMMA PartsNext ==
    ScriptInv' <=> RunsOK(run') /\ CallsOK(call', confirm') /\ PlacesOK(suspended')
BY DEF ScriptInv, ScriptTypeOK, RunsAhead, ClocksStand, RanOnce, PausedBound, Pending,
       RunsOK, CallsOK, CallOK, PlacesOK, RunRecords, CallRecords

(* Giving places back keeps the limit.                                     *)
LEMMA FewerPlaces ==
    ASSUME NEW s, PlacesOK(s), NEW t, t \subseteq s
    PROVE  PlacesOK(t)
<1>1. IsFiniteSet(s)
  BY FS_Subset, CodeModeAssumption DEF PlacesOK
<1>2. Cardinality(t) <= Cardinality(s) /\ Cardinality(s) \in Nat /\ Cardinality(t) \in Nat
  BY <1>1, FS_Subset, FS_CardinalityType
<1> QED  BY <1>2, CodeModeAssumption DEF PlacesOK

(* A free place can be taken.                                              *)
LEMMA OneMorePlace ==
    ASSUME NEW s, PlacesOK(s), NEW k \in Calls, Cardinality(s) < MaxSuspended
    PROVE  PlacesOK(s \cup {k})
<1>1. IsFiniteSet(s)
  BY FS_Subset, CodeModeAssumption DEF PlacesOK
<1>2. Cardinality(s) \in Nat
  BY <1>1, FS_CardinalityType
<1>3. CASE k \in s
  <2>1. s \cup {k} = s
    BY <1>3
  <2> QED  BY <2>1
<1>4. CASE k \notin s
  <2>1. Cardinality(s \cup {k}) = Cardinality(s) + 1
    BY <1>1, <1>4, FS_AddElement
  <2> QED  BY <1>2, <2>1, CodeModeAssumption DEF PlacesOK
<1> QED  BY <1>3, <1>4

(* A place that is left can be taken by another hold.                      *)
LEMMA PlaceHandedOn ==
    ASSUME NEW s, PlacesOK(s), NEW k \in s, NEW j \in Calls
    PROVE  PlacesOK((s \ {k}) \cup {j})
<1>1. IsFiniteSet(s) /\ s \ {k} \subseteq Calls
  BY FS_Subset, CodeModeAssumption DEF PlacesOK
<1>2. /\ Cardinality(s \ {k}) = Cardinality(s) - 1 /\ Cardinality(s) \in Nat
      /\ IsFiniteSet(s \ {k})
  BY <1>1, FS_RemoveElement, FS_CardinalityType
<1>3. PlacesOK(s \ {k}) /\ Cardinality(s \ {k}) < MaxSuspended
  BY <1>1, <1>2, CodeModeAssumption DEF PlacesOK
<1> QED  BY <1>3, OneMorePlace

(* A call and its confirmation can be replaced.                            *)
LEMMA OneCall ==
    ASSUME NEW c, NEW cf, CallsOK(c, cf), NEW k \in Calls, NEW x, NEW n, CallOK(x, n)
    PROVE  CallsOK([c EXCEPT ![k] = x], [cf EXCEPT ![k] = n])
BY DEF CallsOK, CallOK

(* A call can be replaced, its confirmation unchanged.                     *)
LEMMA OnlyCall ==
    ASSUME NEW c, NEW cf, CallsOK(c, cf), NEW k \in Calls, NEW x, CallOK(x, cf[k])
    PROVE  CallsOK([c EXCEPT ![k] = x], cf)
BY DEF CallsOK, CallOK

(* A call that is dropped, with its confirmation or without.               *)
LEMMA Dropped ==
    ASSUME NEW c, NEW n, NEW m \in {n, Off}, CallOK(c, n), c.st # "none"
    PROVE  CallOK([c EXCEPT !.st = "dropped"], m)
BY DEF CallOK, CallRecords, Off

(* A script can be replaced.                                               *)
LEMMA OneRun ==
    ASSUME RunsOK(run), NEW r \in Runs, NEW x \in RunRecords, x.paused <=> x.active # NoCall
    PROVE  RunsOK([run EXCEPT ![r] = x])
BY DEF RunsOK

(* What reporting a hold does to a script.                                 *)
LEMMA ReportedRun ==
    ASSUME NEW x \in RunRecords, NEW k \in Calls, NEW q \in Seq(Calls), NEW n \in Int, NEW t \in Int
    PROVE  [x EXCEPT !.active = k, !.queue = q, !.waiter = FALSE, !.paused = TRUE, !.ttl = t,
                     !.old = n] \in RunRecords
BY DEF RunRecords

(* What settling the last hold does to a script.                           *)
LEMMA ResumedRun ==
    ASSUME NEW x \in RunRecords, NEW k \in Calls \cup {NoCall}, NEW n \in Int, NEW t \in Int
    PROVE  [x EXCEPT !.active = k, !.ttl = t, !.waiter = TRUE, !.paused = FALSE,
                     !.old = n] \in RunRecords
BY DEF RunRecords

(* A script that starts, or ends, has a clock and no hold.                 *)
LEMMA FreshRun ==
    ASSUME RunsOK(run), NEW r \in Runs, NEW s \in {"live", "over", "timedout"},
           NEW x \in {[NewRun EXCEPT !.st = s], [NewRun EXCEPT !.st = s, !.waiter = TRUE]}
    PROVE  RunsOK([run EXCEPT ![r] = x])
<1>1. << >> \in Seq(Calls) /\ Off \in Int
  BY DEF Off
<1>2. NewRun \in RunRecords
  BY <1>1, CodeModeAssumption DEF NewRun, RunRecords
<1>3. x \in RunRecords
  BY <1>2 DEF RunRecords
<1>4. x.active = NoCall /\ x.paused = FALSE
  BY DEF NewRun
<1> QED  BY <1>3, <1>4, OneRun

-----------------------------------------------------------------------------
(* What several actions do.                                                *)

(* The end of a script, whatever the call that ends it does.               *)
LEMMA SettleKeeps ==
    ASSUME RunsOK(run), PlacesOK(suspended), NEW r \in Runs, NEW s \in {"over", "timedout"},
           NEW c, NEW cf, CallsOK(c, cf), Settle(r, s, c, cf),
           \A k \in Calls : call[k].st = "held" => c[k].st # "none"
    PROVE  ScriptInv'
<1>1. RunsOK(run')
  <2>1. run' = [run EXCEPT ![r] = [NewRun EXCEPT !.st = s]]
    BY DEF Settle
  <2> QED  BY <2>1, FreshRun
<1>2. CallsOK(call', confirm')
  <2>1. ASSUME NEW k \in Calls
        PROVE  CallOK(call'[k], confirm'[k])
    <3>1. CallOK(c[k], cf[k]) /\ confirm'[k] \in {cf[k], Off}
      BY DEF Settle, CallsOK
    <3>2. CASE k \in Undecided(r)
      <4>1. call'[k] = [c[k] EXCEPT !.st = "dropped"] /\ c[k].st # "none"
        BY <3>2 DEF Settle, Undecided
      <4> QED  BY <3>1, <4>1, Dropped
    <3>3. CASE k \notin Undecided(r)
      <4>1. call'[k] = c[k]
        BY <3>3 DEF Settle
      <4> QED  BY <3>1, <4>1 DEF CallOK, Off
    <3> QED  BY <3>2, <3>3
  <2> QED  BY <2>1 DEF Settle, CallsOK, CallOK
<1>3. PlacesOK(suspended')
  <2>1. suspended' \subseteq suspended
    BY DEF Settle
  <2> QED  BY <2>1, FewerPlaces
<1> QED  BY <1>1, <1>2, <1>3, PartsNext

(* A hold is reported, and the clock stands.                               *)
LEMMA ReportKeeps ==
    ASSUME RunsOK(run), NEW r \in Runs, NEW k \in Calls, NEW rest \in Seq(Calls),
           NEW c, CallsOK(c, confirm'), Report(r, k, rest, TRUE, c)
    PROVE  RunsOK(run') /\ CallsOK(call', confirm')
<1>1. RunsOK(run')
  <2> DEFINE x == [run[r] EXCEPT
                     !.active = k, !.queue = rest, !.waiter = FALSE, !.paused = TRUE, !.ttl = Ttl,
                     !.old = IF run[r].paused THEN run[r].old ELSE run[r].time]
  <2>1. run[r] \in RunRecords
    BY DEF RunsOK
  <2>2. x \in RunRecords
    <3>1. Ttl \in Int
      BY CodeModeAssumption DEF Ttl
    <3>2. (IF run[r].paused THEN run[r].old ELSE run[r].time) \in Int
      BY <2>1 DEF RunRecords
    <3> QED  BY <2>1, <3>1, <3>2, ReportedRun
  <2>3. x.paused = TRUE /\ x.active = k
    BY <2>1 DEF RunRecords
  <2>4. run' = [run EXCEPT ![r] = x]
    BY DEF Report
  <2> HIDE DEF x
  <2> QED  BY <2>2, <2>3, <2>4, CodeModeAssumption, OneRun
<1>2. CallOK([c[k] EXCEPT !.told = TRUE], confirm'[k])
  BY DEF CallsOK, CallOK, CallRecords
<1>3. call' = [c EXCEPT ![k] = [c[k] EXCEPT !.told = TRUE]]
  BY DEF Report
<1> QED  BY <1>1, <1>2, <1>3, OnlyCall

(* A hold is settled: its place goes to the next hold, or the clock goes on. *)
LEMMA TakeKeeps ==
    ASSUME RunsOK(run), PlacesOK(suspended), NEW r \in Runs, NEW k \in suspended,
           NEW c, CallsOK(c, confirm'), Take(r, k, c)
    PROVE  ScriptInv'
<1>1. run[r] \in RunRecords
  BY DEF RunsOK
<1>2. CASE run[r].queue = << >>
  <2>1. RunsOK(run')
    <3> DEFINE x == [run[r] EXCEPT
                       !.active = NoCall, !.ttl = Off, !.waiter = TRUE, !.paused = FALSE, !.old = 0]
    <3>1. x \in RunRecords
      <4>1. Off \in Int /\ 0 \in Int /\ NoCall \in Calls \cup {NoCall}
        BY DEF Off
      <4> QED  BY <1>1, <4>1, ResumedRun, Zenon
    <3>2. x.paused = FALSE /\ x.active = NoCall
      BY <1>1 DEF RunRecords
    <3>3. run' = [run EXCEPT ![r] = x]
      BY <1>2 DEF Take, GoesOn
    <3> HIDE DEF x
    <3> QED  BY <3>1, <3>2, <3>3, OneRun
  <2>2. PlacesOK(suspended')
    <3>1. suspended' \subseteq suspended
      BY <1>2 DEF Take
    <3> QED  BY <3>1, FewerPlaces
  <2>3. CallsOK(call', confirm')
    BY <1>2 DEF Take
  <2> QED  BY <2>1, <2>2, <2>3, PartsNext
<1>3. CASE run[r].queue # << >>
  <2>1. Head(run[r].queue) \in Calls /\ Tail(run[r].queue) \in Seq(Calls)
    BY <1>1, <1>3 DEF RunRecords
  <2>2. Report(r, Head(run[r].queue), Tail(run[r].queue), TRUE, c)
    BY <1>3 DEF Take, GoesOn
  <2>3. RunsOK(run') /\ CallsOK(call', confirm')
    BY <2>1, <2>2, ReportKeeps
  <2>4. PlacesOK(suspended')
    <3>1. suspended' = (suspended \ {k}) \cup {Head(run[r].queue)}
      BY <1>3 DEF Take
    <3> QED  BY <2>1, <3>1, PlaceHandedOn
  <2> QED  BY <2>3, <2>4, PartsNext
<1> QED  BY <1>2, <1>3

-----------------------------------------------------------------------------
(* The actions.                                                            *)

(* A script that starts.                                                   *)
LEMMA StartKeeps ==
    ASSUME ScriptInv, NEW r \in Runs, Start(r)
    PROVE  ScriptInv'
<1>1. RunsOK(run) /\ CallsOK(call', confirm') /\ PlacesOK(suspended')
  BY Parts DEF Start
<1>2. RunsOK(run')
  BY <1>1, FreshRun DEF Start
<1> QED  BY <1>1, <1>2, PartsNext

(* A script that ends by itself, or that a timer ends.                     *)
LEMMA EndKeeps ==
    ASSUME ScriptInv, NEW r \in Runs, NEW s \in {"over", "timedout"}, Settle(r, s, call, confirm)
    PROVE  ScriptInv'
<1>1. RunsOK(run) /\ CallsOK(call, confirm) /\ PlacesOK(suspended)
  BY Parts
<1>2. \A k \in Calls : call[k].st = "held" => call[k].st # "none"
  OBVIOUS
<1> QED  BY <1>1, <1>2, SettleKeeps

(* A script that its client cancels.                                       *)
LEMMA CancelKeeps ==
    ASSUME ScriptInv, NEW r \in Runs, ClientCancels(r)
    PROVE  ScriptInv'
<1> DEFINE c == [k \in Calls |-> IF call[k].run = r /\ call[k].st = "inflight"
                                 THEN [call[k] EXCEPT !.st = "dropped"] ELSE call[k]]
<1>1. RunsOK(run) /\ CallsOK(call, confirm) /\ PlacesOK(suspended)
  BY Parts
<1>2. Settle(r, "over", c, confirm)
  BY DEF ClientCancels
<1>3. ASSUME NEW k \in Calls
      PROVE  /\ c[k] \in CallRecords /\ CallOK(c[k], confirm[k])
             /\ call[k].st = "held" => c[k].st # "none"
  <2>1. CallOK(call[k], confirm[k])
    BY <1>1 DEF CallsOK
  <2>2. CASE call[k].run = r /\ call[k].st = "inflight"
    <3>1. c[k] = [call[k] EXCEPT !.st = "dropped"] /\ call[k].st # "none"
      BY <2>2
    <3>2. CallOK(c[k], confirm[k])
      BY <2>1, <3>1, Dropped
    <3> QED  BY <2>2, <3>2 DEF CallOK
  <2>3. CASE ~(call[k].run = r /\ call[k].st = "inflight")
    <3>1. c[k] = call[k]
      BY <2>3
    <3> QED  BY <2>1, <3>1 DEF CallOK
  <2> QED  BY <2>2, <2>3
<1>4. c \in [Calls -> CallRecords]
  BY <1>3
<1> HIDE DEF c
<1>5. CallsOK(c, confirm)
  BY <1>1, <1>3, <1>4 DEF CallsOK
<1> QED  BY <1>1, <1>2, <1>3, <1>5, SettleKeeps

(* Steps of a call that leave the scripts alone.                           *)
LEMMA CallStepKeeps ==
    ASSUME ScriptInv, UNCHANGED <<run, suspended>>, NEW k \in Calls, NEW x, NEW n,
           CallOK(x, n), call' = [call EXCEPT ![k] = x], confirm' = [confirm EXCEPT ![k] = n]
    PROVE  ScriptInv'
<1>1. RunsOK(run') /\ CallsOK(call, confirm) /\ PlacesOK(suspended')
  BY Parts
<1>2. CallsOK(call', confirm')
  BY <1>1, OneCall
<1> QED  BY <1>1, <1>2, PartsNext

(* What the invariant says of one call.                                    *)
LEMMA CallFacts ==
    ASSUME ScriptInv, NEW k \in Calls
    PROVE  /\ call[k] \in CallRecords /\ confirm[k] \in Int /\ CallOK(call[k], confirm[k])
           /\ call = [call EXCEPT ![k] = call[k]] /\ confirm = [confirm EXCEPT ![k] = confirm[k]]
BY Parts DEF CallsOK

(* A script makes a call.                                                  *)
LEMMA HostCallKeeps ==
    ASSUME ScriptInv, NEW r \in Runs, NEW k \in Calls, HostCall(r, k)
    PROVE  ScriptInv'
<1> DEFINE x == [NewCall EXCEPT !.st = "inflight", !.run = r]
<1>1. CallOK(call[k], confirm[k]) /\ call[k].st = "none" /\ UNCHANGED <<run, suspended>>
      /\ confirm' = [confirm EXCEPT ![k] = confirm[k]] /\ call' = [call EXCEPT ![k] = x]
  BY CallFacts DEF HostCall
<1>2. NewCall \in CallRecords /\ NewCall.ran = 0
  BY DEF NewCall, CallRecords
<1>3. CallOK(x, confirm[k])
  BY <1>1, <1>2 DEF CallOK, CallRecords, Going
<1> HIDE DEF x
<1> QED  BY <1>1, <1>3, CallStepKeeps

(* A call that runs now, for its script or by itself.                      *)
LEMMA RunsNow ==
    ASSUME NEW y, NEW n, CallOK(y, n), y.ran = 0, y.st # "none",
           NEW s \in {"approved", "done"}
    PROVE  /\ CallOK([y EXCEPT !.st = s, !.ran = @ + 1], Off)
           /\ CallOK([y EXCEPT !.st = s, !.aged = FALSE, !.ran = @ + 1], Off)
<1>1. y \in CallRecords /\ y.run \in Runs
  BY DEF CallOK
<1>2. ASSUME NEW x, NEW flag \in BOOLEAN,
             x \in {[y EXCEPT !.st = s, !.ran = 1], [y EXCEPT !.st = s, !.aged = flag, !.ran = 1]}
      PROVE  CallOK(x, Off)
  <2>1. x \in CallRecords
    <3>1. ASSUME NEW m \in Nat, NEW t \in {"none", "held", "done", "dropped"} \cup Going
          PROVE  /\ [y EXCEPT !.st = t, !.ran = m] \in CallRecords
                 /\ [y EXCEPT !.st = t, !.aged = flag, !.ran = m] \in CallRecords
      BY <1>1 DEF CallRecords
    <3>2. s \in {"none", "held", "done", "dropped"} \cup Going /\ 1 \in Nat
      BY DEF Going
    <3>3. /\ [y EXCEPT !.st = s, !.ran = 1] \in CallRecords
          /\ [y EXCEPT !.st = s, !.aged = flag, !.ran = 1] \in CallRecords
      BY <3>1, <3>2
    <3> QED  BY <1>2, <3>3
  <2>2. x.st = s /\ x.run = y.run /\ x.ran = 1
    BY <1>1, <1>2 DEF CallRecords
  <2> QED  BY <1>1, <2>1, <2>2 DEF CallOK, Off
<1>3. y.ran + 1 = 1
  OBVIOUS
<1> QED  BY <1>2, <1>3

(* A call that is not held has run.                                        *)
LEMMA ReturnsKeeps ==
    ASSUME ScriptInv, NEW k \in Calls, Returns(k)
    PROVE  ScriptInv'
<1> DEFINE x == [call[k] EXCEPT !.st = "done", !.ran = @ + 1]
<1>1. CallOK(call[k], confirm[k]) /\ call[k].st = "inflight" /\ UNCHANGED <<run, suspended>>
      /\ confirm' = [confirm EXCEPT ![k] = confirm[k]]
  BY CallFacts DEF Returns
<1>2. call' = [call EXCEPT ![k] = x]
  BY DEF Returns
<1>3. call[k].ran = 0 /\ confirm[k] = Off
  BY <1>1 DEF CallOK
<1>4. CallOK(x, Off)
  BY <1>1, <1>3, RunsNow
<1> HIDE DEF x
<1> QED  BY <1>1, <1>2, <1>3, <1>4, CallStepKeeps

(* An approval uses up the confirmation, and the call runs.                *)
LEMMA ApproveKeeps ==
    ASSUME ScriptInv, NEW k \in Calls, Approve(k)
    PROVE  ScriptInv'
<1> DEFINE x == [call[k] EXCEPT !.st = "approved", !.aged = FALSE, !.ran = @ + 1]
<1>1. CallOK(call[k], confirm[k]) /\ confirm[k] # Off /\ UNCHANGED <<run, suspended>>
      /\ confirm' = [confirm EXCEPT ![k] = Off]
  BY CallFacts DEF Approve, Pending, Used
<1>2. call' = [call EXCEPT ![k] = x]
  BY DEF Approve
<1>3. call[k].ran = 0 /\ call[k].st # "none"
  BY <1>1 DEF CallOK
<1>4. CallOK(x, Off)
  BY <1>1, <1>3, RunsNow
<1> HIDE DEF x
<1> QED  BY <1>1, <1>2, <1>4, CallStepKeeps

(* A confirmation that expires.                                            *)
LEMMA HoldExpiresKeeps ==
    ASSUME ScriptInv, NEW k \in Calls, ConfirmExpires(k)
    PROVE  ScriptInv'
<1>1. CallOK(call[k], confirm[k]) /\ UNCHANGED <<run, suspended>>
      /\ confirm' = [confirm EXCEPT ![k] = Off] /\ call' = [call EXCEPT ![k] = call[k]]
  BY CallFacts DEF ConfirmExpires
<1>2. CallOK(call[k], Off)
  BY <1>1 DEF CallOK, Off
<1> QED  BY <1>1, <1>2, CallStepKeeps

(* A call that has not run and is held, refused or settled: m ticks remain  *)
(* to its confirmation.                                                    *)
LEMMA NotRun ==
    ASSUME NEW y, NEW n, CallOK(y, n), y.st # "none", y.ran = 0, NEW m \in Int, NEW flag \in BOOLEAN,
           NEW s \in {"held", "dropped"}
    PROVE  CallOK([y EXCEPT !.st = s], m) /\ CallOK([y EXCEPT !.st = s, !.told = flag], m)
BY DEF CallOK, CallRecords

(* A call that is over.                                                    *)
LEMMA CallOver ==
    ASSUME NEW y, NEW n, CallOK(y, n), y.st # "none", NEW m \in {n, Off}
    PROVE  CallOK([y EXCEPT !.st = "done"], m)
BY DEF CallOK, CallRecords, Off

(* A hold that nobody can decide, or for which there is no place, stops its *)
(* script.                                                                 *)
LEMMA HoldStopsKeeps ==
    ASSUME ScriptInv, NEW k \in Calls, HoldStops(k)
    PROVE  ScriptInv'
<1> DEFINE r  == call[k].run
           flag  == r \notin Unattended /\ run[r].waiter
           x  == [call[k] EXCEPT !.st = "dropped", !.told = flag]
           n  == IF r \in Unattended THEN Off ELSE Life
           c  == [call EXCEPT ![k] = x]
           cf == [confirm EXCEPT ![k] = n]
<1>1. RunsOK(run) /\ CallsOK(call, confirm) /\ PlacesOK(suspended)
  BY Parts
<1>2. CallOK(call[k], confirm[k]) /\ call[k].st = "inflight" /\ call[k].ran = 0 /\ r \in Runs
  BY CallFacts DEF HoldStops, CallOK
<1>3. flag \in BOOLEAN
  BY <1>1, <1>2 DEF RunsOK, RunRecords
<1>4. n \in Int
  BY CodeModeAssumption DEF Life, Off
<1>5. IF Live(r) THEN Settle(r, "over", c, cf)
      ELSE call' = c /\ confirm' = cf /\ UNCHANGED <<run, suspended>>
  BY DEF HoldStops
<1>6. x.st = "dropped" /\ \A j \in Calls \ {k} : c[j] = call[j]
  BY <1>1, <1>2 DEF CallOK, CallRecords, CallsOK
<1>7. c[k] = x
  BY <1>1 DEF CallsOK
<1> HIDE DEF flag, n
<1>8. CallOK(x, n)
  BY <1>2, <1>3, <1>4, NotRun
<1> HIDE DEF x
<1>9. CallsOK(c, cf)
  BY <1>1, <1>8, OneCall
<1>10. \A j \in Calls : call[j].st = "held" => c[j].st # "none"
  BY <1>6, <1>7
<1>11. CASE ~Live(r)
  BY <1>5, <1>8, <1>11, CallStepKeeps
<1>12. CASE Live(r)
  <2> HIDE DEF c, cf, r
  <2>1. Settle(r, "over", c, cf)
    BY <1>5, <1>12
  <2> QED  BY <1>1, <1>2, <1>9, <1>10, <2>1, SettleKeeps
<1> QED  BY <1>11, <1>12

(* A call that is held: a place is taken, or the hold waits its turn.      *)
LEMMA HoldPausesKeeps ==
    ASSUME ScriptInv, NEW k \in Calls, HoldPauses(k)
    PROVE  ScriptInv'
<1> DEFINE r == call[k].run
           s == IF Live(r) THEN "held" ELSE "dropped"
           x == [call[k] EXCEPT !.st = s]
           c == [call EXCEPT ![k] = x]
<1>1. RunsOK(run) /\ CallsOK(call, confirm) /\ PlacesOK(suspended)
  BY Parts
<1>2. CallOK(call[k], confirm[k]) /\ call[k].st = "inflight" /\ call[k].ran = 0 /\ r \in Runs
  BY CallFacts DEF HoldPauses, CallOK
<1>3. confirm' = [confirm EXCEPT ![k] = Life] /\ Life \in Int
  BY CodeModeAssumption DEF HoldPauses, Life
<1>4. \/ /\ Live(r) /\ run[r].active = NoCall
         /\ Report(r, k, << >>, TRUE, c)
         /\ suspended' = suspended \cup {k}
      \/ /\ run' = [run EXCEPT ![r].queue = Append(@, k)]
         /\ call' = c /\ UNCHANGED suspended
      \/ call' = c /\ UNCHANGED <<run, suspended>>
  BY DEF HoldPauses
<1>5. s \in {"held", "dropped"}
  OBVIOUS
<1> HIDE DEF s
<1>6. CallOK(x, Life)
  BY <1>2, <1>3, <1>5, NotRun
<1> HIDE DEF x
<1>7. CallsOK(c, confirm')
  BY <1>1, <1>3, <1>6, OneCall
<1> HIDE DEF c, r
<1>8. CASE Report(r, k, << >>, TRUE, c) /\ suspended' = suspended \cup {k}
  <2>1. << >> \in Seq(Calls)
    OBVIOUS
  <2>2. RunsOK(run') /\ CallsOK(call', confirm')
    BY <1>1, <1>2, <1>7, <1>8, <2>1, ReportKeeps
  <2>3. Cardinality(suspended) < MaxSuspended
    <3>1. Cardinality(suspended) \in Nat
      BY <1>1, FS_Subset, FS_CardinalityType, CodeModeAssumption DEF PlacesOK
    <3> QED  BY <3>1, CodeModeAssumption DEF HoldPauses, TooMany
  <2>4. PlacesOK(suspended')
    BY <1>1, <1>8, <2>3, OneMorePlace
  <2> QED  BY <2>2, <2>4, PartsNext
<1>9. CASE run' = [run EXCEPT ![r].queue = Append(@, k)] /\ call' = c /\ UNCHANGED suspended
  <2> DEFINE y == [run[r] EXCEPT !.queue = Append(@, k)]
  <2>1. run[r] \in RunRecords /\ (run[r].paused <=> run[r].active # NoCall)
    BY <1>1, <1>2 DEF RunsOK
  <2>2. Append(run[r].queue, k) \in Seq(Calls)
    BY <2>1 DEF RunRecords
  <2>3. y \in RunRecords /\ y.paused = run[r].paused /\ y.active = run[r].active
    BY <2>1, <2>2 DEF RunRecords
  <2>4. run' = [run EXCEPT ![r] = y]
    BY <1>9
  <2> HIDE DEF y
  <2>5. RunsOK(run')
    BY <1>1, <1>2, <2>1, <2>3, <2>4, OneRun
  <2> QED  BY <1>1, <1>7, <1>9, <2>5, PartsNext
<1>10. CASE call' = c /\ UNCHANGED <<run, suspended>>
  BY <1>1, <1>7, <1>10, PartsNext
<1> QED  BY <1>4, <1>8, <1>9, <1>10

(* The call of a hold that was approved or denied is over.                 *)
LEMMA DecidedKeeps ==
    ASSUME ScriptInv, NEW k \in Calls, call[k].st # "none",
           NEW n \in {confirm[k], Off}, confirm' = [confirm EXCEPT ![k] = n],
           NEW c, c = [call EXCEPT ![k].st = "done"],
           IF OnHold(k) THEN Take(call[k].run, k, c) ELSE call' = c /\ UNCHANGED <<run, suspended>>
    PROVE  ScriptInv'
<1> DEFINE x == [call[k] EXCEPT !.st = "done"]
<1>1. RunsOK(run) /\ CallsOK(call, confirm) /\ PlacesOK(suspended)
  BY Parts
<1>2. CallOK(call[k], confirm[k]) /\ call[k].run \in Runs
  BY CallFacts DEF CallOK
<1>3. CallOK(x, n)
  BY <1>2, CallOver
<1>4. c = [call EXCEPT ![k] = x]
  OBVIOUS
<1> HIDE DEF x
<1>5. CASE OnHold(k)
  <2>1. Take(call[k].run, k, c) /\ k \in suspended
    BY <1>5 DEF OnHold
  <2>2. CallsOK([call EXCEPT ![k] = x], [confirm EXCEPT ![k] = n])
    BY <1>1, <1>3, OneCall
  <2>3. CallsOK(c, confirm')
    BY <1>4, <2>2
  <2> QED  BY <1>1, <1>2, <2>1, <2>3, TakeKeeps
<1>6. CASE ~OnHold(k)
  BY <1>3, <1>4, <1>6, CallStepKeeps
<1> QED  BY <1>5, <1>6

(* An approved call returns.                                               *)
LEMMA ApprovedReturnsKeeps ==
    ASSUME ScriptInv, NEW k \in Calls, ApprovedReturns(k)
    PROVE  ScriptInv'
<1> DEFINE c == [call EXCEPT ![k].st = "done"]
<1>1. confirm' = [confirm EXCEPT ![k] = confirm[k]] /\ call[k].st # "none"
  BY CallFacts DEF ApprovedReturns
<1>2. IF OnHold(k) THEN Take(call[k].run, k, c) ELSE call' = c /\ UNCHANGED <<run, suspended>>
  BY DEF ApprovedReturns
<1> QED  BY <1>1, <1>2, DecidedKeeps

(* A hold is denied.                                                       *)
LEMMA DenyKeeps ==
    ASSUME ScriptInv, NEW k \in Calls, Deny(k)
    PROVE  ScriptInv'
<1> DEFINE c == [call EXCEPT ![k].st = "done"]
<1>1. confirm' = [confirm EXCEPT ![k] = Off] /\ call[k].st # "none"
  BY CallFacts DEF Deny, Used, Pending, CallOK
<1>2. IF OnHold(k) THEN Take(call[k].run, k, c) ELSE call' = c /\ UNCHANGED <<run, suspended>>
  BY DEF Deny
<1> QED  BY <1>1, <1>2, DecidedKeeps

(* The clocks of the confirmations and of the scripts run on.              *)
LEMMA TickKeeps ==
    ASSUME ScriptInv, Tick
    PROVE  ScriptInv'
<1>1. RunsOK(run) /\ CallsOK(call, confirm) /\ PlacesOK(suspended)
  BY Parts
<1>2. RunsOK(run')
  <2>1. ASSUME NEW r \in Runs
        PROVE  /\ run'[r] \in RunRecords
               /\ run'[r].paused = run[r].paused /\ run'[r].active = run[r].active
    <3>1. run[r] \in RunRecords
      BY <1>1 DEF RunsOK
    <3>2. CASE ~Live(r)
      BY <3>1, <3>2 DEF Tick
    <3>3. CASE Live(r)
      <4> DEFINE t == IF run[r].paused THEN run[r].time ELSE run[r].time - 1
                 n == IF run[r].old > 0 THEN run[r].old - 1 ELSE 0
                 l == Less(run[r].ttl)
      <4>1. t \in Int /\ n \in Int /\ l \in Int
        BY <3>1 DEF RunRecords, Less, Off
      <4>2. run'[r] = [run[r] EXCEPT !.time = t, !.old = n, !.ttl = l]
        BY <3>3, Zenon DEF Tick
      <4> HIDE DEF t, n, l
      <4>3. run'[r] \in RunRecords
        BY <3>1, <4>1, <4>2 DEF RunRecords
      <4>4. run'[r].paused = run[r].paused /\ run'[r].active = run[r].active
        BY <3>1, <4>2 DEF RunRecords
      <4> QED  BY <4>3, <4>4
    <3> QED  BY <3>2, <3>3
  <2>2. run' = [r \in Runs |-> run'[r]]
    BY DEF Tick
  <2> QED  BY <1>1, <2>1, <2>2 DEF RunsOK
<1>3. CallsOK(call', confirm')
  <2>1. ASSUME NEW k \in Calls
        PROVE  /\ call'[k] \in CallRecords /\ confirm'[k] \in Int
               /\ CallOK(call'[k], confirm'[k])
    <3>1. CallOK(call[k], confirm[k])
      BY <1>1 DEF CallsOK
    <3>2. /\ confirm'[k] \in Int
          /\ confirm[k] = Off => confirm'[k] = Off
      <4>1. confirm'[k] = Less(confirm[k]) /\ confirm[k] \in Int
        BY <3>1 DEF Tick, CallOK
      <4> QED  BY <4>1 DEF Less, Off
    <3> DEFINE flag == call[k].st \in Going
    <3>3. call'[k] = [call[k] EXCEPT !.aged = flag]
      BY Zenon DEF Tick
    <3>4. flag \in BOOLEAN
      BY <3>1 DEF CallOK
    <3> HIDE DEF flag
    <3>5. /\ call'[k] \in CallRecords
          /\ call'[k].st = call[k].st /\ call'[k].run = call[k].run /\ call'[k].ran = call[k].ran
      BY <3>1, <3>3, <3>4 DEF CallOK, CallRecords
    <3> QED  BY <3>1, <3>2, <3>5 DEF CallOK
  <2>2. call' = [k \in Calls |-> call'[k]] /\ confirm' = [k \in Calls |-> confirm'[k]]
    BY DEF Tick
  <2> QED  BY <2>1, <2>2 DEF CallsOK
<1>4. PlacesOK(suspended')
  BY <1>1 DEF Tick
<1> QED  BY <1>2, <1>3, <1>4, PartsNext

-----------------------------------------------------------------------------
(* The theorems.                                                           *)

(* Nothing is held, and no call has run, at the start.                     *)
LEMMA InitKeeps == Init => ScriptInv
<1> SUFFICES ASSUME Init PROVE ScriptInv
  OBVIOUS
<1>1. RunsOK(run)
  <2>1. << >> \in Seq(Calls) /\ Off \in Int
    BY DEF Off
  <2>2. NewRun \in RunRecords /\ ~NewRun.paused /\ NewRun.active = NoCall
    BY <2>1, CodeModeAssumption DEF NewRun, RunRecords
  <2> QED  BY <2>2 DEF Init, RunsOK
<1>2. CallsOK(call, confirm)
  <2>1. NewCall \in CallRecords /\ NewCall.ran = 0 /\ NewCall.st = "none"
    BY DEF NewCall, CallRecords
  <2>2. CallOK(NewCall, Off)
    BY <2>1 DEF CallOK, Off
  <2> QED  BY <2>1, <2>2 DEF Init, CallsOK, CallOK
<1>3. PlacesOK(suspended)
  BY FS_EmptySet, CodeModeAssumption DEF Init, PlacesOK
<1> QED  BY <1>1, <1>2, <1>3, Parts

(* Every step keeps the invariant, one case for each action.               *)
LEMMA NextKeeps == ScriptInv /\ [Next]_vars => ScriptInv'
<1> SUFFICES ASSUME ScriptInv, [Next]_vars PROVE ScriptInv'
  OBVIOUS
<1>1. CASE \E r \in Runs : Start(r)
  BY <1>1, StartKeeps
<1>2. CASE \E r \in Runs : Ends(r) \/ Interrupted(r) \/ Deadline(r) \/ Discard(r)
  BY <1>2, EndKeeps DEF Ends, Interrupted, Deadline, Discard
<1>3. CASE \E r \in Runs : ClientCancels(r)
  BY <1>3, CancelKeeps
<1>4. CASE \E r \in Runs, k \in Calls : HostCall(r, k)
  BY <1>4, HostCallKeeps
<1>5. CASE \E k \in Calls : Returns(k) \/ ConfirmExpires(k)
  BY <1>5, ReturnsKeeps, HoldExpiresKeeps
<1>6. CASE \E k \in Calls : HoldStops(k) \/ HoldPauses(k)
  BY <1>6, HoldStopsKeeps, HoldPausesKeeps
<1>7. CASE \E k \in Calls : Approve(k) \/ Deny(k) \/ ApprovedReturns(k)
  BY <1>7, ApproveKeeps, DenyKeeps, ApprovedReturnsKeeps
<1>8. CASE Tick
  BY <1>8, TickKeeps
<1>9. CASE UNCHANGED vars
  <2>1. RunsOK(run') /\ CallsOK(call', confirm') /\ PlacesOK(suspended')
    BY <1>9, Parts DEF vars
  <2> QED  BY <2>1, PartsNext
<1> QED  BY <1>1, <1>2, <1>3, <1>4, <1>5, <1>6, <1>7, <1>8, <1>9 DEF Next, Results, Timers

(* ScriptInv is invariant: settleRun, hold, resume and the confirmations   *)
(* keep scripts, calls and places in agreement, in any order of results,   *)
(* decisions, expiries and ends.                                           *)
THEOREM ScriptsConsistent == Spec => []ScriptInv
<1>1. Init => ScriptInv
  BY InitKeeps
<1>2. ScriptInv /\ [Next]_vars => ScriptInv'
  BY NextKeeps
<1> QED  BY <1>1, <1>2, PTL DEF Spec

(* No call runs twice, whatever races with its approval (index.js:9083).   *)
THEOREM CallsRunOnce == Spec => []RanOnce
<1>1. ScriptInv => RanOnce
  BY DEF ScriptInv
<1> QED  BY <1>1, ScriptsConsistent, PTL

(* No more than MaxSuspended scripts are paused at once                    *)
(* (codemode/index.js:70, 424-454).                                        *)
THEOREM PlacesBounded == Spec => []PausedBound
<1>1. ScriptInv => PausedBound
  BY DEF ScriptInv
<1> QED  BY <1>1, ScriptsConsistent, PTL

(* The clock of a live script stands exactly while a hold is reported      *)
(* (codemode/index.js:295-305, 452).                                       *)
THEOREM ClocksRight == Spec => []ClockStands
<1>1. ScriptInv => ClockStands
  BY DEF ScriptInv, ClocksStand, ClockStands
<1> QED  BY <1>1, ScriptsConsistent, PTL

-----------------------------------------------------------------------------
(* The exact types, the places, and the scripts that await each call.        *)

(* The exact types, the relation between the places and the scripts, and the  *)
(* calls that a script may hold.                                             *)
ExactRecords ==
    [st : {"new", "live", "over", "timedout"}, waiter : BOOLEAN, active : Calls \cup {NoCall},
     queue : Seq(Calls), paused : BOOLEAN, time : 0 .. Timeout, old : 0 .. Timeout, ttl : Off .. Lifetime]

\* The call was made by the script.
Of(k, r) == call[k].st # "none" /\ call[k].run = r

HoldsOwn(r) ==
    /\ run[r].active # NoCall => Of(run[r].active, r)
    /\ \A i \in DOMAIN run[r].queue : Of(run[r].queue[i], r)

Reported(k) == \E r \in Runs : Live(r) /\ run[r].active = k /\ k # NoCall

ExactInv ==
    /\ run \in [Runs -> ExactRecords]
    /\ confirm \in [Calls -> Off .. Lifetime]
    /\ suspended \subseteq Calls /\ \A k \in Calls : k \in suspended <=> Reported(k)
    /\ \A r \in Runs : HoldsOwn(r)

(* A script that awaits each call has one call that is not over, which may be  *)
(* its hold; a hold that is reported and not decided has as long to live as    *)
(* its confirmation.                                                         *)
Busy(k, r) == call[k].run = r /\ call[k].st \in Going \cup {"held"}

Even(k, r) == \/ run[r].ttl # Off /\ confirm[k] = run[r].ttl
              \/ run[r].ttl = 0 /\ confirm[k] = Off

SerialOK(r) ==
    /\ run[r].st = "new" => \A k \in Calls : ~Of(k, r)
    /\ Live(r) =>
         /\ run[r].queue = << >>
         /\ \A j, k \in Calls : Busy(j, r) /\ Busy(k, r) => j = k
         /\ \A k \in Calls : call[k].run = r /\ Pending(k) => call[k].st = "held"
         /\ \A k \in Calls : call[k].run = r /\ call[k].st \in {"held", "approved"} => run[r].active = k
         /\ run[r].active # NoCall =>
              /\ call[run[r].active].st \in {"held", "approved"}
              /\ call[run[r].active].st = "held" => Even(run[r].active, r)

SerialInv == \A r \in Runs : SerialOK(r)

(* TypeOK is what the two invariants say of the types and the places.        *)
LEMMA ExactTypes == ASSUME ScriptInv, ExactInv PROVE TypeOK
<1>1. call \in [Calls -> [st : {"none", "held", "done", "dropped"} \cup Going, run : Runs \cup {NoRun},
                          told : BOOLEAN, aged : BOOLEAN, ran : 0 .. 2]]
  <2>1. ASSUME NEW k \in Calls
        PROVE  call[k] \in [st : {"none", "held", "done", "dropped"} \cup Going, run : Runs \cup {NoRun},
                            told : BOOLEAN, aged : BOOLEAN, ran : 0 .. 2]
    <3>1. call[k] \in CallRecords /\ call[k].ran <= 1 /\ call[k].ran \in Nat
      BY CallFacts DEF CallOK, CallRecords
    <3> QED  BY <3>1 DEF CallRecords
  <2> QED  BY <2>1 DEF ScriptInv, ScriptTypeOK
<1>2. suspended = {run[r].active : r \in {r \in Runs : Live(r)}} \ {NoCall}
  <2>1. ASSUME NEW k PROVE k \in suspended <=> \E r \in Runs : Live(r) /\ run[r].active = k /\ k # NoCall
    <3>1. \A r \in Runs : run[r].active \in Calls \cup {NoCall}
      BY DEF ExactInv, ExactRecords
    <3> QED  BY <3>1 DEF ExactInv, Reported
  <2> QED  BY <2>1
<1> QED
  BY <1>1, <1>2 DEF ExactInv, ExactRecords, TypeOK

\* A call that was made stays one of its script.
Kept == \A k \in Calls : call[k].st # "none" => call'[k].st # "none" /\ call'[k].run = call[k].run

(* One script changes, with the place of its hold.                           *)
LEMMA OneScriptExact ==
    ASSUME ExactInv, Kept, confirm' \in [Calls -> Off .. Lifetime], suspended' \subseteq Calls,
           NEW r \in Runs, NEW x \in ExactRecords, run' = [run EXCEPT ![r] = x],
           x.active # NoCall => Of(x.active, r), \A i \in DOMAIN x.queue : Of(x.queue[i], r),
           \A k \in suspended' : \/ k \in suspended /\ k # run[r].active
                                 \/ x.st = "live" /\ k = x.active,
           x.st = "live" /\ x.active # NoCall => x.active \in suspended',
           \A k \in suspended \ suspended' : Of(k, r)
    PROVE  ExactInv'
<1>1. run' \in [Runs -> ExactRecords] /\ run'[r] = x /\ \A q \in Runs \ {r} : run'[q] = run[q]
  BY DEF ExactInv
<1>2. \A q \in Runs \ {r} : HoldsOwn(q)'
  <2> TAKE q \in Runs \ {r}
  <2>1. run'[q] = run[q] /\ HoldsOwn(q) /\ run[q] \in ExactRecords
    BY <1>1 DEF ExactInv
  <2>2. \A i \in DOMAIN run[q].queue : run[q].queue[i] \in Calls
    BY <2>1 DEF ExactRecords
  <2>3. run[q].active \in Calls \cup {NoCall}
    BY <2>1 DEF ExactRecords
  <2> QED
    BY <2>1, <2>2, <2>3 DEF HoldsOwn, Of, Kept
<1>3. HoldsOwn(r)'
  <2>1. \A i \in DOMAIN x.queue : x.queue[i] \in Calls
    BY DEF ExactRecords
  <2>2. x.active \in Calls \cup {NoCall}
    BY DEF ExactRecords
  <2> QED
    BY <1>1, <2>1, <2>2 DEF HoldsOwn, Of, Kept
<1>4. ASSUME NEW k \in suspended' PROVE Reported(k)'
  <2>1. k \in Calls /\ k # NoCall
    BY CodeModeAssumption
  <2>2. CASE k \in suspended /\ k # run[r].active
    <3>1. PICK q \in Runs : Live(q) /\ run[q].active = k
      BY <2>1, <2>2 DEF ExactInv, Reported
    <3>2. run'[q] = run[q]
      BY <1>1, <2>2, <3>1
    <3> QED  BY <2>1, <3>1, <3>2 DEF Reported, Live
  <2>3. CASE x.st = "live" /\ k = x.active
    BY <1>1, <2>1, <2>3 DEF Reported, Live
  <2> QED  BY <2>2, <2>3
<1>5. ASSUME NEW k \in Calls, Reported(k)' PROVE k \in suspended'
  <2>1. PICK q \in Runs : Live(q)' /\ run'[q].active = k /\ k # NoCall
    BY <1>5 DEF Reported
  <2>2. CASE q = r
    BY <1>1, <2>1, <2>2 DEF Live
  <2>3. CASE q # r
    <3>1. Live(q) /\ run[q].active = k /\ Of(k, q)
      BY <1>1, <2>1, <2>3 DEF Live, ExactInv, HoldsOwn
    <3>2. k \in suspended
      BY <2>1, <3>1 DEF ExactInv, Reported
    <3> QED  BY <2>3, <3>1, <3>2 DEF Of
  <2> QED  BY <2>2, <2>3
<1> QED
  BY <1>1, <1>2, <1>3, <1>4, <1>5 DEF ExactInv

(* Only calls change.                                                       *)
LEMMA CallsExact ==
    ASSUME ExactInv, Kept, confirm' \in [Calls -> Off .. Lifetime], UNCHANGED <<run, suspended>>
    PROVE  ExactInv'
<1>1. ASSUME NEW q \in Runs PROVE HoldsOwn(q)'
  <2>1. HoldsOwn(q) /\ run[q] \in ExactRecords
    BY DEF ExactInv
  <2>2. \A i \in DOMAIN run[q].queue : run[q].queue[i] \in Calls
    BY <2>1 DEF ExactRecords
  <2>3. run[q].active \in Calls \cup {NoCall}
    BY <2>1 DEF ExactRecords
  <2> QED
    BY <2>1, <2>2, <2>3 DEF HoldsOwn, Of, Kept
<1> QED
  BY <1>1 DEF ExactInv, Reported, Live

(* What changes is of one script.                                           *)
LEMMA OneScriptSerial ==
    ASSUME ExactInv, SerialInv, NEW r \in Runs, \A q \in Runs \ {r} : run'[q] = run[q],
           \A k \in Calls : call'[k] # call[k] \/ confirm'[k] # confirm[k]
                              => (call[k].st = "none" \/ call[k].run = r) /\ call'[k].run = r,
           SerialOK(r)'
    PROVE  SerialInv'
<1> SUFFICES ASSUME NEW q \in Runs \ {r} PROVE SerialOK(q)'
  BY DEF SerialInv
<1>1. SerialOK(q) /\ run'[q] = run[q] /\ HoldsOwn(q) /\ run[q].active \in Calls \cup {NoCall}
  BY DEF SerialInv, ExactInv, ExactRecords
<1>2. \A k \in Calls : call'[k].run = q => call'[k] = call[k] /\ confirm'[k] = confirm[k]
  OBVIOUS
<1>3. \A k \in Calls : Of(k, q) => call'[k] = call[k] /\ confirm'[k] = confirm[k]
  BY DEF Of
<1>4. run[q].st = "new" => \A k \in Calls : ~Of(k, q)'
  BY <1>1, <1>2 DEF SerialOK, Of
<1>5. ASSUME Live(q)
      PROVE  /\ run[q].queue = << >>
             /\ \A j, k \in Calls : Busy(j, q)' /\ Busy(k, q)' => j = k
             /\ \A k \in Calls : call'[k].run = q /\ Pending(k)' => call'[k].st = "held"
             /\ \A k \in Calls : call'[k].run = q /\ call'[k].st \in {"held", "approved"} => run[q].active = k
  BY <1>1, <1>2, <1>5 DEF SerialOK, Busy, Pending
<1>6. ASSUME Live(q), run[q].active # NoCall
      PROVE  /\ call'[run[q].active].st \in {"held", "approved"}
             /\ call'[run[q].active].st = "held" => Even(run[q].active, q)'
  BY <1>1, <1>3, <1>6 DEF SerialOK, HoldsOwn, Even
<1> QED
  BY <1>1, <1>4, <1>5, <1>6 DEF SerialOK, Live

\* The invariant: scripts that await each call are serial.
ScriptsOK == ExactInv /\ (Parallel \/ SerialInv)

(* The empty sequence has no elements.                                       *)
LEMMA NoHolds == << >> \in Seq(Calls) /\ DOMAIN << >> = {}
OBVIOUS

(* A script that starts, or ends, has the whole time and no hold.            *)
LEMMA FreshExact ==
    ASSUME NEW s \in {"live", "over", "timedout"},
           NEW x \in {[NewRun EXCEPT !.st = s], [NewRun EXCEPT !.st = s, !.waiter = TRUE]}
    PROVE  x \in ExactRecords /\ x.active = NoCall /\ x.queue = << >> /\ x.st = s
<1>1. Off \in Off .. Lifetime /\ Timeout \in 0 .. Timeout /\ 0 \in 0 .. Timeout
  BY CodeModeAssumption DEF Off
<1>2. NewRun \in ExactRecords
  BY <1>1, NoHolds DEF NewRun, ExactRecords
<1>3. x \in ExactRecords
  BY <1>2 DEF ExactRecords
<1> QED
  BY <1>3 DEF NewRun

(* A call that a script holds or reports is one of its calls.                *)
LEMMA HoldsOf ==
    ASSUME ExactInv, NEW r \in Runs
    PROVE  /\ run[r] \in ExactRecords
           /\ Holds(r) \subseteq Calls /\ \A k \in Holds(r) : Of(k, r)
           /\ run[r].active = NoCall \/ run[r].active \in Holds(r)
<1>1. run[r] \in ExactRecords /\ HoldsOwn(r)
  BY DEF ExactInv
<1>2. run[r].active \in Calls \cup {NoCall} /\ \A i \in DOMAIN run[r].queue : run[r].queue[i] \in Calls
  BY <1>1 DEF ExactRecords
<1> QED
  BY <1>1, <1>2 DEF HoldsOwn, Holds

(* A reported hold is of the live script that reports it.                    *)
LEMMA ReportedOf ==
    ASSUME ExactInv, NEW k \in suspended
    PROVE  /\ k \in Calls /\ call[k].run \in Runs /\ Live(call[k].run)
           /\ run[call[k].run].active = k /\ call[k].st # "none"
<1>1. PICK q \in Runs : Live(q) /\ run[q].active = k /\ k # NoCall
  BY DEF ExactInv, Reported
<1>2. Of(k, q) /\ k \in Calls
  BY <1>1 DEF ExactInv, HoldsOwn
<1> QED
  BY <1>1, <1>2 DEF Of

(* The end of a script: its holds are of no other.                           *)
LEMMA SettleExact ==
    ASSUME ScriptInv, ScriptsOK, NEW r \in Runs, NEW s \in {"over", "timedout"},
           NEW c \in [Calls -> CallRecords], NEW cf \in [Calls -> Off .. Lifetime], Settle(r, s, c, cf),
           \A k \in Calls : c[k].run = call[k].run /\ (call[k].st # "none" => c[k].st # "none"),
           \A k \in Calls : c[k] # call[k] \/ cf[k] # confirm[k] => Of(k, r)
    PROVE  ScriptsOK'
<1> DEFINE x == [NewRun EXCEPT !.st = s]
<1>1. /\ run' = [run EXCEPT ![r] = x] /\ suspended' = suspended \ Holds(r)
      /\ \A k \in Calls : call'[k] = IF k \in Undecided(r) THEN [c[k] EXCEPT !.st = "dropped"] ELSE c[k]
      /\ \A k \in Calls : confirm'[k] = IF k \in Holds(r) THEN Off ELSE cf[k]
      /\ confirm' = [k \in Calls |-> IF k \in Holds(r) THEN Off ELSE cf[k]]
  BY DEF Settle
<1>2. x \in ExactRecords /\ x.active = NoCall /\ x.queue = << >> /\ x.st = s
  BY FreshExact
<1> HIDE DEF x
<1>3. /\ Holds(r) \subseteq Calls /\ \A k \in Holds(r) : Of(k, r)
      /\ run[r].active = NoCall \/ run[r].active \in Holds(r)
  BY HoldsOf DEF ScriptsOK
<1>4. \A k \in Calls : call'[k].run = call[k].run /\ (call[k].st # "none" => call'[k].st # "none")
  <2> TAKE k \in Calls
  <2>1. c[k] \in CallRecords
    OBVIOUS
  <2>2. [c[k] EXCEPT !.st = "dropped"].run = c[k].run /\ [c[k] EXCEPT !.st = "dropped"].st = "dropped"
    BY <2>1 DEF CallRecords
  <2> QED  BY <1>1, <2>2
<1>5. confirm' \in [Calls -> Off .. Lifetime]
  BY <1>1, CodeModeAssumption DEF Off
<1>6. suspended \subseteq Calls
  BY DEF ScriptsOK, ExactInv
<1>7. ExactInv'
  <2>1. Kept
    BY <1>4 DEF Kept
  <2>2. \A k \in suspended' : k \in suspended /\ k # run[r].active
    BY <1>1, <1>3, <1>6, CodeModeAssumption
  <2>3. \A k \in suspended \ suspended' : Of(k, r)
    BY <1>1, <1>3
  <2>4. suspended' \subseteq Calls
    BY <1>1, <1>6
  <2> QED
    BY <1>1, <1>2, <1>5, <2>1, <2>2, <2>3, <2>4, NoHolds, OneScriptExact DEF ScriptsOK
<1>8. ASSUME SerialInv PROVE SerialInv'
  <2>1. \A q \in Runs \ {r} : run'[q] = run[q]
    BY <1>1 DEF ScriptsOK, ExactInv
  <2>2. \A k \in Calls : call'[k] # call[k] \/ confirm'[k] # confirm[k] => Of(k, r)
    BY <1>1, <1>3 DEF Undecided
  <2>3. run'[r].st = s
    BY <1>1, <1>2 DEF ScriptsOK, ExactInv
  <2>4. SerialOK(r)'
    BY <2>3 DEF SerialOK, Live
  <2>5. \A k \in Calls : call'[k] # call[k] \/ confirm'[k] # confirm[k]
                           => (call[k].st = "none" \/ call[k].run = r) /\ call'[k].run = r
    BY <1>4, <2>2 DEF Of
  <2> QED
    BY <1>8, <2>1, <2>4, <2>5, OneScriptSerial DEF ScriptsOK
<1> QED
  BY <1>7, <1>8 DEF ScriptsOK

(* A script that starts.                                                     *)
LEMMA StartExact == ASSUME ScriptInv, ScriptsOK, NEW r \in Runs, Start(r) PROVE ScriptsOK'
<1> DEFINE x == [NewRun EXCEPT !.st = "live", !.waiter = TRUE]
<1>1. run[r].st = "new" /\ run' = [run EXCEPT ![r] = x] /\ UNCHANGED <<call, suspended, confirm>>
  BY DEF Start
<1>2. x \in ExactRecords /\ x.active = NoCall /\ x.queue = << >> /\ x.st = "live"
  BY FreshExact
<1> HIDE DEF x
<1>3. \A k \in suspended : k # run[r].active
  <2> SUFFICES ASSUME NEW k \in suspended, k = run[r].active PROVE FALSE
    OBVIOUS
  <2>1. k \in Calls /\ Live(call[k].run) /\ k # NoCall
    BY ReportedOf, CodeModeAssumption DEF ScriptsOK
  <2>2. Of(k, r)
    BY <2>1, HoldsOf DEF ScriptsOK
  <2> QED  BY <1>1, <2>1, <2>2 DEF Of, Live
<1>4. ExactInv'
  <2>1. Kept /\ confirm' \in [Calls -> Off .. Lifetime] /\ suspended' \subseteq Calls /\ suspended' = suspended
    BY <1>1 DEF Kept, ScriptsOK, ExactInv
  <2> QED
    BY <1>1, <1>2, <1>3, <2>1, NoHolds, OneScriptExact DEF ScriptsOK
<1>5. ASSUME SerialInv PROVE SerialInv'
  <2>1. run'[r] = x /\ \A q \in Runs \ {r} : run'[q] = run[q]
    BY <1>1 DEF ScriptsOK, ExactInv
  <2>2. \A k \in Calls : call[k].st = "none" \/ call[k].run # r
    BY <1>1, <1>5 DEF SerialInv, SerialOK, Of
  <2>3. \A k \in Calls : call[k].run = r => ~Pending(k)
    BY <2>2, CallFacts DEF CallOK, Pending
  <2>4. SerialOK(r)'
    BY <1>1, <1>2, <2>1, <2>2, <2>3 DEF SerialOK, Live, Busy, Going, Pending
  <2> QED
    BY <1>1, <1>5, <2>1, <2>4, OneScriptSerial DEF ScriptsOK
<1> QED
  BY <1>4, <1>5 DEF ScriptsOK

(* A script that its client cancels.                                         *)
LEMMA CancelExact == ASSUME ScriptInv, ScriptsOK, NEW r \in Runs, ClientCancels(r) PROVE ScriptsOK'
<1> DEFINE c == [k \in Calls |-> IF call[k].run = r /\ call[k].st = "inflight"
                                 THEN [call[k] EXCEPT !.st = "dropped"] ELSE call[k]]
<1>1. Settle(r, "over", c, confirm)
  BY DEF ClientCancels
<1>2. ASSUME NEW k \in Calls
      PROVE  /\ c[k] \in CallRecords /\ c[k].run = call[k].run
             /\ call[k].st # "none" => c[k].st # "none"
             /\ c[k] # call[k] => Of(k, r)
  <2>1. call[k] \in CallRecords
    BY CallFacts
  <2>2. /\ [call[k] EXCEPT !.st = "dropped"] \in CallRecords
        /\ [call[k] EXCEPT !.st = "dropped"].run = call[k].run
        /\ [call[k] EXCEPT !.st = "dropped"].st = "dropped"
    BY <2>1 DEF CallRecords
  <2> QED  BY <2>1, <2>2 DEF Of
<1>3. c \in [Calls -> CallRecords]
  BY <1>2
<1> HIDE DEF c
<1>4. confirm \in [Calls -> Off .. Lifetime]
  BY DEF ScriptsOK, ExactInv
<1> QED
  BY <1>1, <1>2, <1>3, <1>4, SettleExact

(* A script that ends by itself, or that a timer ends.                       *)
LEMMA EndExact ==
    ASSUME ScriptInv, ScriptsOK, NEW r \in Runs, NEW s \in {"over", "timedout"}, Settle(r, s, call, confirm)
    PROVE  ScriptsOK'
<1>1. call \in [Calls -> CallRecords]
  BY DEF ScriptInv, ScriptTypeOK, CallRecords
<1>2. confirm \in [Calls -> Off .. Lifetime]
  BY DEF ScriptsOK, ExactInv
<1> QED
  BY <1>1, <1>2, SettleExact

(* A script that awaits each call waits for one, of which nothing else is    *)
(* left when it is not held.                                                 *)
LEMMA OneBusy ==
    ASSUME ScriptInv, ScriptsOK, ~Parallel, NEW k \in Calls, call[k].st # "none"
    PROVE  /\ call[k].run \in Runs /\ run[call[k].run].st # "new"
           /\ call[k].st # "held" /\ Live(call[k].run) => ~Pending(k)
           /\ call[k].st \in {"held", "approved"} /\ Live(call[k].run) => run[call[k].run].active = k /\ OnHold(k)
           /\ call[k].st = "inflight" /\ Live(call[k].run) => run[call[k].run].active = NoCall
<1>1. call[k].run \in Runs
  BY CallFacts DEF CallOK
<1> DEFINE r == call[k].run
<1>2. SerialOK(r) /\ Of(k, r) /\ run[r].active \in Calls \cup {NoCall}
  BY <1>1, HoldsOf DEF ScriptsOK, SerialInv, Of, ExactRecords
<1>3. run[r].st # "new"
  BY <1>2 DEF SerialOK
<1>4. call[k].st \in {"held", "approved"} /\ Live(r) => run[r].active = k /\ OnHold(k)
  <2>1. k # NoCall
    BY CodeModeAssumption
  <2>2. Live(r) /\ run[r].active = k => k \in suspended
    BY <1>1, <2>1 DEF ScriptsOK, ExactInv, Reported
  <2> QED  BY <1>2, <2>2 DEF SerialOK, OnHold
<1>5. ASSUME call[k].st = "inflight", Live(r), run[r].active # NoCall PROVE FALSE
  <2>1. run[r].active \in Calls /\ call[run[r].active].st \in {"held", "approved"} /\ call[run[r].active].run = r
    BY <1>1, <1>2, <1>5 DEF SerialOK, ScriptsOK, ExactInv, HoldsOwn, Of
  <2>2. Busy(run[r].active, r) /\ Busy(k, r)
    BY <1>5, <2>1 DEF Busy, Going
  <2> QED  BY <1>2, <1>5, <2>1, <2>2 DEF SerialOK
<1> QED
  BY <1>1, <1>2, <1>3, <1>4, <1>5 DEF SerialOK

(* One call of a script changes, and no script.                              *)
LEMMA OneCallExact ==
    ASSUME ScriptInv, ScriptsOK, NEW k \in Calls, NEW y, NEW n \in Off .. Lifetime, y.st # "none",
           call' = [call EXCEPT ![k] = y], confirm' = [confirm EXCEPT ![k] = n], UNCHANGED <<run, suspended>>,
           y.run \in Runs, call[k].st # "none" => y.run = call[k].run,
           ~Parallel /\ SerialInv => SerialOK(y.run)'
    PROVE  ScriptsOK'
<1>1. /\ call'[k] = y /\ \A j \in Calls \ {k} : call'[j] = call[j]
      /\ confirm'[k] = n /\ \A j \in Calls \ {k} : confirm'[j] = confirm[j]
  BY DEF ScriptsOK, ExactInv, ScriptInv, ScriptTypeOK
<1>2. Kept /\ confirm' \in [Calls -> Off .. Lifetime]
  BY <1>1 DEF Kept, ScriptsOK, ExactInv
<1>3. ExactInv'
  BY <1>2, CallsExact DEF ScriptsOK
<1>4. ASSUME ~Parallel, SerialInv PROVE SerialInv'
  <2>1. \A j \in Calls : call'[j] # call[j] \/ confirm'[j] # confirm[j]
                           => (call[j].st = "none" \/ call[j].run = y.run) /\ call'[j].run = y.run
    BY <1>1
  <2> QED
    BY <1>4, <2>1, OneScriptSerial DEF ScriptsOK
<1> QED
  BY <1>3, <1>4 DEF ScriptsOK

(* A script makes a call: it waits for no other.                             *)
LEMMA HostCallExact ==
    ASSUME ScriptInv, ScriptsOK, NEW r \in Runs, NEW k \in Calls, HostCall(r, k) PROVE ScriptsOK'
<1>0. PICK y : y = [NewCall EXCEPT !.st = "inflight", !.run = r]
  OBVIOUS
<1>1. /\ MayGoOn(r) /\ call[k].st = "none" /\ UNCHANGED <<run, suspended, confirm>>
      /\ call' = [call EXCEPT ![k] = y] /\ confirm' = [confirm EXCEPT ![k] = confirm[k]]
  BY <1>0, CallFacts DEF HostCall
<1>2. y.st = "inflight" /\ y.run = r /\ confirm[k] \in Off .. Lifetime
  BY <1>0 DEF NewCall, ScriptsOK, ExactInv
<1>3. call'[k] = y /\ \A j \in Calls \ {k} : call'[j] = call[j]
  BY <1>1 DEF ScriptInv, ScriptTypeOK
<1>4. ~Pending(k)
  BY <1>1, CallFacts DEF CallOK, Pending
<1>5. ASSUME ~Parallel, SerialInv PROVE SerialOK(r)'
  <2>1. SerialOK(r) /\ Live(r) /\ \A j \in Calls : call[j].run = r => call[j].st \notin Going \cup {"held"}
    BY <1>1, <1>5 DEF MayGoOn, SerialInv
  <2>2. run[r].active = NoCall
    <3>1. SUFFICES ASSUME run[r].active # NoCall PROVE FALSE
      OBVIOUS
    <3>2. run[r].active \in Calls /\ call[run[r].active].run = r
      BY <3>1, HoldsOf DEF Of, ScriptsOK
    <3> QED  BY <2>1, <3>1, <3>2 DEF SerialOK, Going
  <2>3. run[r].queue = << >>
    BY <2>1 DEF SerialOK
  <2>4. \A j \in Calls : Busy(j, r)' => j = k
    BY <1>3, <2>1 DEF Busy
  <2>5. \A j \in Calls : call'[j].run = r /\ Pending(j)' => call'[j].st = "held"
    BY <1>1, <1>3, <1>4, <2>1 DEF SerialOK, Pending
  <2>6. \A j \in Calls : call'[j].run = r => call'[j].st \notin {"held", "approved"}
    BY <1>2, <1>3, <2>1 DEF Going
  <2> QED
    BY <1>1, <2>1, <2>2, <2>3, <2>4, <2>5, <2>6 DEF SerialOK, Live
<1> QED
  BY <1>1, <1>2, <1>5, OneCallExact

(* A call that is over for its script: a live script has no hold of it.      *)
LEMMA OverSerial ==
    ASSUME ScriptInv, ScriptsOK, ~Parallel, SerialInv, NEW k \in Calls, call[k].st # "none",
           NEW y \in CallRecords, y.st \in {"done", "dropped"}, y.run = call[k].run,
           call' = [call EXCEPT ![k] = y], UNCHANGED run,
           confirm' = confirm \/ \E n \in Int : confirm' = [confirm EXCEPT ![k] = n],
           Live(y.run) => run[y.run].active # k /\ ~Pending(k)'
    PROVE  SerialOK(y.run)'
<1> DEFINE r == y.run
<1>1. call'[k] = y /\ \A j \in Calls \ {k} : call'[j] = call[j] /\ confirm'[j] = confirm[j]
  BY CallFacts DEF ScriptInv, ScriptTypeOK
<1>2. r \in Runs /\ run[r].st # "new" /\ SerialOK(r)
  BY OneBusy DEF SerialInv
<1>3. CASE ~Live(r)
  BY <1>2, <1>3 DEF SerialOK, Live
<1>4. CASE Live(r)
  <2>1. run[r].active # k /\ ~Pending(k)'
    BY <1>4
  <2>2. \A j \in Calls : Busy(j, r)' => Busy(j, r)
    BY <1>1 DEF Busy, Going
  <2>3. \A j \in Calls : call'[j].run = r /\ Pending(j)' => call'[j].st = "held"
    BY <1>1, <1>2, <1>4, <2>1 DEF SerialOK, Pending
  <2>4. \A j \in Calls : call'[j].run = r /\ call'[j].st \in {"held", "approved"} => run[r].active = j
    BY <1>1, <1>2, <1>4 DEF SerialOK
  <2>5. run[r].active # NoCall => /\ call'[run[r].active].st \in {"held", "approved"}
                                  /\ call'[run[r].active].st = "held" => Even(run[r].active, r)'
    <3>1. run[r].active = NoCall \/ run[r].active \in Calls
      BY <1>2, HoldsOf DEF ScriptsOK
    <3> QED  BY <1>1, <1>2, <1>4, <2>1, <3>1 DEF SerialOK, Even
  <2>6. run[r].queue = << >> /\ \A i, j \in Calls : Busy(i, r)' /\ Busy(j, r)' => i = j
    BY <1>2, <1>4, <2>2 DEF SerialOK
  <2> QED
    BY <1>4, <2>3, <2>4, <2>5, <2>6 DEF SerialOK, Live
<1> QED  BY <1>3, <1>4

(* A call that is not held has run.                                          *)
LEMMA ReturnsExact == ASSUME ScriptInv, ScriptsOK, NEW k \in Calls, Returns(k) PROVE ScriptsOK'
<1>0. PICK y : y = [call[k] EXCEPT !.st = "done", !.ran = @ + 1]
  OBVIOUS
<1>1. /\ call[k].st = "inflight" /\ UNCHANGED <<run, suspended, confirm>>
      /\ call' = [call EXCEPT ![k] = y] /\ confirm' = [confirm EXCEPT ![k] = confirm[k]]
  BY <1>0, CallFacts DEF Returns
<1>2. call[k] \in CallRecords /\ call[k].ran \in Nat /\ call[k].run \in Runs
  BY <1>1, CallFacts DEF CallOK, CallRecords
<1>3. y.st = "done" /\ y.run = call[k].run /\ y \in CallRecords /\ confirm[k] \in Off .. Lifetime
  <2>1. call[k].ran + 1 \in Nat
    BY <1>2
  <2>2. y = [call[k] EXCEPT !.st = "done", !.ran = call[k].ran + 1]
    BY <1>0
  <2>3. y.st = "done" /\ y.run = call[k].run /\ y \in CallRecords
    BY <1>2, <2>1, <2>2 DEF CallRecords
  <2> QED  BY <2>3 DEF ScriptsOK, ExactInv
<1>4. ASSUME ~Parallel, SerialInv PROVE SerialOK(y.run)'
  <2>1. Live(y.run) => run[y.run].active # k /\ ~Pending(k)'
    <3>1. ~Pending(k)
      BY <1>1, CallFacts DEF CallOK, Pending
    <3>2. ~Pending(k)'
      BY <1>1, <3>1 DEF Pending
    <3>3. Live(y.run) => run[y.run].active = NoCall
      BY <1>1, <1>3, <1>4, OneBusy
    <3> QED  BY <3>2, <3>3, CodeModeAssumption
  <2> QED  BY <1>1, <1>3, <1>4, <2>1, OverSerial
<1> QED
  BY <1>1, <1>2, <1>3, <1>4, OneCallExact

(* An approval: the hold is the one that the script has.                     *)
LEMMA ApproveExact == ASSUME ScriptInv, ScriptsOK, NEW k \in Calls, Approve(k) PROVE ScriptsOK'
<1>0. PICK y : y = [call[k] EXCEPT !.st = "approved", !.aged = FALSE, !.ran = @ + 1]
  OBVIOUS
<1>1. /\ Pending(k) /\ UNCHANGED <<run, suspended>>
      /\ call' = [call EXCEPT ![k] = y] /\ confirm' = [confirm EXCEPT ![k] = Off]
  BY <1>0 DEF Approve, Used
<1>2. call[k] \in CallRecords /\ call[k].st # "none" /\ call[k].run \in Runs
  BY <1>1, CallFacts DEF CallOK, Pending
<1>3. y.st = "approved" /\ y.run = call[k].run /\ Off \in Off .. Lifetime
  BY <1>0, <1>2, CodeModeAssumption DEF CallRecords, Off
<1>4. /\ call'[k] = y /\ confirm'[k] = Off
      /\ \A j \in Calls \ {k} : call'[j] = call[j] /\ confirm'[j] = confirm[j]
  BY <1>1 DEF ScriptInv, ScriptTypeOK
<1>5. ASSUME ~Parallel, SerialInv PROVE SerialOK(y.run)'
  <2> DEFINE r == y.run
  <2>1. r \in Runs /\ run[r].st # "new" /\ SerialOK(r) /\ (Live(r) => call[k].st = "held" /\ run[r].active = k)
    <3>1. r \in Runs /\ run[r].st # "new" /\ SerialOK(r)
      BY <1>2, <1>3, <1>5, OneBusy DEF SerialInv
    <3>2. Live(r) => call[k].st = "held"
      BY <1>1, <1>3, <3>1 DEF SerialOK
    <3> QED  BY <1>2, <1>3, <1>5, <3>1, <3>2, OneBusy
  <2>2. CASE ~Live(r)
    BY <1>1, <2>1, <2>2 DEF SerialOK, Live
  <2>3. CASE Live(r)
    <3>1. \A j \in Calls : Busy(j, r)' => Busy(j, r)
      BY <1>3, <1>4, <2>1, <2>3 DEF Busy, Going
    <3>2. run[r].queue = << >> /\ \A i, j \in Calls : Busy(i, r)' /\ Busy(j, r)' => i = j
      BY <2>1, <2>3, <3>1 DEF SerialOK
    <3>3. \A j \in Calls : call'[j].run = r /\ Pending(j)' => call'[j].st = "held"
      BY <1>4, <2>1, <2>3 DEF SerialOK, Pending
    <3>4. \A j \in Calls : call'[j].run = r /\ call'[j].st \in {"held", "approved"} => run[r].active = j
      BY <1>4, <2>1, <2>3 DEF SerialOK
    <3> QED
      BY <1>1, <1>3, <1>4, <2>1, <2>3, <3>2, <3>3, <3>4 DEF SerialOK, Live
  <2> QED  BY <2>2, <2>3
<1> QED
  BY <1>1, <1>2, <1>3, <1>5, OneCallExact


(* A confirmation that expires: so does its script, if it is its hold.       *)
LEMMA ExpiresExact == ASSUME ScriptInv, ScriptsOK, NEW k \in Calls, ConfirmExpires(k) PROVE ScriptsOK'
<1>0. PICK y : y = call[k]
  OBVIOUS
<1>1. /\ confirm[k] = 0 /\ UNCHANGED <<run, suspended, call>>
      /\ call' = [call EXCEPT ![k] = y] /\ confirm' = [confirm EXCEPT ![k] = Off]
  BY <1>0, CallFacts DEF ConfirmExpires
<1>2. y.st # "none" /\ y.run \in Runs
  BY <1>0, <1>1, CallFacts DEF CallOK, Off
<1>3. Off \in Off .. Lifetime
  BY CodeModeAssumption DEF Off
<1>4. confirm'[k] = Off /\ \A j \in Calls \ {k} : confirm'[j] = confirm[j]
  BY <1>1 DEF ScriptInv, ScriptTypeOK
<1>5. ASSUME ~Parallel, SerialInv PROVE SerialOK(y.run)'
  <2> DEFINE r == y.run
  <2>1. SerialOK(r) /\ run[r].st # "new"
    BY <1>0, <1>2, <1>5, OneBusy DEF SerialInv
  <2>2. CASE ~Live(r)
    BY <1>1, <2>1, <2>2 DEF SerialOK, Live
  <2>3. CASE Live(r)
    <3>1. \A j \in Calls : Pending(j)' => Pending(j)
      BY <1>4 DEF Pending
    <3>2. ASSUME run[r].active # NoCall, call[run[r].active].st = "held" PROVE Even(run[r].active, r)'
      <4>1. Even(run[r].active, r) /\ run[r].active \in Calls
        BY <1>0, <1>2, <2>1, <2>3, <3>2, HoldsOf DEF SerialOK, ScriptsOK
      <4> QED  BY <1>1, <1>4, <4>1 DEF Even, Off
    <3> QED
      BY <1>1, <2>1, <2>3, <3>1, <3>2 DEF SerialOK, Live, Busy
  <2> QED  BY <2>2, <2>3
<1> QED
  BY <1>0, <1>1, <1>2, <1>3, <1>5, OneCallExact


(* A hold is reported: it is of the script, and in no place of another.      *)
LEMMA ReportExact ==
    ASSUME ScriptInv, ExactInv, Kept, NEW r \in Runs, Live(r), NEW k \in Calls, Of(k, r),
           NEW rest \in Seq(Calls), \A i \in DOMAIN rest : Of(rest[i], r),
           NEW stands \in BOOLEAN, NEW c, Report(r, k, rest, stands, c),
           confirm' \in [Calls -> Off .. Lifetime], suspended' = (suspended \ {run[r].active}) \cup {k}
    PROVE  /\ ExactInv'
           /\ run'[r].st = "live" /\ run'[r].active = k /\ run'[r].queue = rest /\ run'[r].ttl = Lifetime
<1> DEFINE n == IF run[r].paused THEN run[r].old ELSE run[r].time
           x == [run[r] EXCEPT !.active = k, !.queue = rest, !.waiter = FALSE, !.paused = stands, !.ttl = Ttl,
                               !.old = n]
<1>1. run[r] \in ExactRecords /\ run' = [run EXCEPT ![r] = x] /\ run[r].st = "live"
  BY DEF Report, ExactInv, Live
<1>2. n \in 0 .. Timeout /\ Ttl \in Off .. Lifetime /\ Ttl = Lifetime
  BY <1>1, CodeModeAssumption DEF ExactRecords, Ttl, Off
<1> HIDE DEF n
<1>3. x \in ExactRecords /\ x.st = "live" /\ x.active = k /\ x.queue = rest /\ x.ttl = Lifetime
  BY <1>1, <1>2 DEF ExactRecords
<1> HIDE DEF x
<1>4. \A j \in suspended' : (j \in suspended /\ j # run[r].active) \/ (x.st = "live" /\ j = x.active)
  BY <1>3
<1>5. suspended' \subseteq Calls /\ x.active \in suspended'
  BY <1>3 DEF ExactInv
<1>6. \A j \in suspended \ suspended' : Of(j, r)
  <2>1. \A j \in suspended \ suspended' : j = run[r].active /\ j # NoCall
    BY CodeModeAssumption DEF ExactInv
  <2> QED  BY <2>1, HoldsOf
<1>7. ExactInv'
  BY <1>1, <1>3, <1>4, <1>5, <1>6, OneScriptExact
<1>8. run'[r] = x
  BY <1>1 DEF ExactInv
<1> QED
  BY <1>3, <1>7, <1>8

(* A hold is settled: its place goes to the next hold of the script, or to   *)
(* none.                                                                     *)
LEMMA TakeExact ==
    ASSUME ScriptInv, ScriptsOK, NEW k \in Calls, NEW y \in CallRecords, y.st = "done", y.run = call[k].run,
           OnHold(k), Take(call[k].run, k, [call EXCEPT ![k] = y]),
           NEW n \in Off .. Lifetime, confirm' = [confirm EXCEPT ![k] = n], ~Parallel /\ SerialInv => n = Off
    PROVE  ScriptsOK'
<1>0. PICK r : r = y.run
  OBVIOUS
<1>1. /\ k \in suspended /\ run[r].active = k /\ r \in Runs /\ Live(r) /\ call[k].st # "none"
      /\ Of(k, r) /\ r = call[k].run
  BY <1>0, ReportedOf DEF OnHold, ScriptsOK, Of
<1> DEFINE c == [call EXCEPT ![k] = y]
           q == run[r].queue
<1>2. run[r] \in ExactRecords /\ run[r].st = "live" /\ q \in Seq(Calls) /\ \A i \in DOMAIN q : Of(q[i], r)
  BY <1>1 DEF ScriptsOK, ExactInv, ExactRecords, HoldsOwn, Live
<1>3. /\ confirm' \in [Calls -> Off .. Lifetime] /\ confirm'[k] = n
      /\ \A j \in Calls \ {k} : confirm'[j] = confirm[j]
  BY DEF ScriptsOK, ExactInv
<1>4. /\ c[k] = y /\ \A j \in Calls \ {k} : c[j] = call[j]
  BY DEF ScriptInv, ScriptTypeOK
<1>5. CASE q = << >>
  <2> DEFINE x == [run[r] EXCEPT !.active = NoCall, !.ttl = Off, !.waiter = TRUE, !.paused = FALSE, !.old = 0]
  <2>1. run' = [run EXCEPT ![r] = x] /\ suspended' = suspended \ {k} /\ call' = c
    BY <1>0, <1>5 DEF Take, GoesOn
  <2>2. Off \in Off .. Lifetime /\ 0 \in 0 .. Timeout
    BY CodeModeAssumption DEF Off
  <2>3. x \in ExactRecords /\ x.active = NoCall /\ x.queue = << >> /\ x.st = "live"
    BY <1>2, <1>5, <2>2 DEF ExactRecords
  <2> HIDE DEF x, c
  <2>4. Kept
    BY <1>0, <1>1, <1>4, <2>1 DEF Kept
  <2>5. suspended' \subseteq Calls /\ \A j \in suspended \ suspended' : Of(j, r)
    BY <1>1, <2>1 DEF ScriptsOK, ExactInv
  <2>6. \A j \in suspended' : j \in suspended /\ j # run[r].active
    BY <1>1, <2>1
  <2>7. ExactInv'
    BY <1>1, <1>3, <2>1, <2>3, <2>4, <2>5, <2>6, NoHolds, OneScriptExact DEF ScriptsOK
  <2>8. ASSUME ~Parallel, SerialInv PROVE SerialInv'
    <3>1. run'[r] = x /\ \A p \in Runs \ {r} : run'[p] = run[p]
      BY <1>1, <2>1 DEF ScriptsOK, ExactInv
    <3>2. SerialOK(r) /\ n = Off
      BY <1>1, <2>8 DEF SerialInv
    <3>3. \A j \in Calls : Busy(j, r)' => Busy(j, r)
      BY <1>4, <2>1 DEF Busy, Going
    <3>4. \A i, j \in Calls : Busy(i, r)' /\ Busy(j, r)' => i = j
      BY <1>1, <3>2, <3>3 DEF SerialOK
    <3>5. \A j \in Calls : call'[j].run = r /\ Pending(j)' => call'[j].st = "held"
      BY <1>1, <1>3, <1>4, <2>1, <3>2 DEF SerialOK, Pending
    <3>6. \A j \in Calls : call'[j].run = r => call'[j].st \notin {"held", "approved"}
      BY <1>1, <1>4, <2>1, <3>2 DEF SerialOK
    <3>7. SerialOK(r)'
      BY <2>3, <3>1, <3>4, <3>5, <3>6 DEF SerialOK, Live
    <3>8. \A j \in Calls : call'[j] # call[j] \/ confirm'[j] # confirm[j]
                             => (call[j].st = "none" \/ call[j].run = r) /\ call'[j].run = r
      BY <1>0, <1>1, <1>3, <1>4, <2>1
    <3> QED
      BY <1>1, <2>8, <3>1, <3>7, <3>8, OneScriptSerial DEF ScriptsOK
  <2> QED  BY <2>7, <2>8 DEF ScriptsOK
<1>6. CASE q # << >>
  <2>1. PICK h, rest : h = Head(q) /\ rest = Tail(q)
    OBVIOUS
  <2>2. /\ h \in Calls /\ rest \in Seq(Calls) /\ h = q[1] /\ 1 \in DOMAIN q
        /\ \A i \in DOMAIN rest : i + 1 \in DOMAIN q /\ rest[i] = q[i + 1]
    BY <1>2, <1>6, <2>1
  <2>3. Of(h, r) /\ \A i \in DOMAIN rest : Of(rest[i], r)
    BY <1>2, <2>2
  <2>4. Report(r, h, rest, TRUE, c) /\ suspended' = (suspended \ {k}) \cup {h}
    BY <1>0, <1>6, <2>1 DEF Take, GoesOn
  <2>5. call' = [c EXCEPT ![h] = [c[h] EXCEPT !.told = TRUE]]
    BY <2>4 DEF Report
  <2>6. \A j \in Calls : call'[j].run = c[j].run /\ call'[j].st = c[j].st
    <3>1. c \in [Calls -> CallRecords]
      BY DEF ScriptInv, ScriptTypeOK, CallRecords
    <3> QED  BY <2>2, <2>5, <3>1 DEF CallRecords
  <2> HIDE DEF c
  <2>7. Kept
    BY <1>0, <1>1, <1>4, <2>6 DEF Kept
  <2>8. ExactInv'
    BY <1>1, <1>3, <2>2, <2>3, <2>4, <2>7, ReportExact DEF ScriptsOK
  <2>9. ~(~Parallel /\ SerialInv)
    BY <1>1, <1>6 DEF SerialInv, SerialOK
  <2> QED  BY <2>8, <2>9 DEF ScriptsOK
<1> QED  BY <1>5, <1>6

(* A call that is settled, and that is not the hold that is reported.        *)
LEMMA NotHeldExact ==
    ASSUME ScriptInv, ScriptsOK, NEW k \in Calls, call[k].st # "none",
           NEW y \in CallRecords, y.st = "done", y.run = call[k].run, ~OnHold(k),
           call' = [call EXCEPT ![k] = y], UNCHANGED <<run, suspended>>,
           NEW n \in Off .. Lifetime, confirm' = [confirm EXCEPT ![k] = n],
           ~Parallel /\ SerialInv => n = Off \/ ~Live(y.run)
    PROVE  ScriptsOK'
<1>1. y.run \in Runs
  BY CallFacts DEF CallOK
<1>2. ASSUME ~Parallel, SerialInv PROVE SerialOK(y.run)'
  <2>1. Live(y.run) => ~Pending(k)'
    BY <1>2 DEF Pending, ScriptsOK, ExactInv
  <2>2. ASSUME Live(y.run), run[y.run].active = k PROVE FALSE
    <3>1. k # NoCall /\ k \in suspended
      BY <1>1, <2>2, CodeModeAssumption DEF ScriptsOK, ExactInv, Reported
    <3> QED  BY <2>2, <3>1 DEF OnHold
  <2>3. n \in Int
    BY DEF Off
  <2> QED  BY <1>2, <2>1, <2>2, <2>3, OverSerial
<1> QED
  BY <1>1, <1>2, OneCallExact

(* An approved call has run.                                                 *)
LEMMA ApprovedExact == ASSUME ScriptInv, ScriptsOK, NEW k \in Calls, ApprovedReturns(k) PROVE ScriptsOK'
<1>0. PICK y : y = [call[k] EXCEPT !.st = "done"]
  OBVIOUS
<1>1. call[k].st = "approved" /\ UNCHANGED confirm /\ confirm' = [confirm EXCEPT ![k] = confirm[k]]
  BY CallFacts DEF ApprovedReturns
<1>2. call[k] \in CallRecords
  BY CallFacts
<1>3. y \in CallRecords /\ y.st = "done" /\ y.run = call[k].run
  BY <1>0, <1>2 DEF CallRecords
<1>4. PICK n : n = confirm[k]
  OBVIOUS
<1>5. n \in Off .. Lifetime
  BY <1>4 DEF ScriptsOK, ExactInv
<1>6. ~Parallel /\ SerialInv => n = Off \/ ~Live(call[k].run)
  BY <1>1, <1>4, OneBusy DEF Pending
<1>7. CASE OnHold(k)
  <2>1. Take(call[k].run, k, [call EXCEPT ![k] = y])
    BY <1>0, <1>7 DEF ApprovedReturns
  <2>2. Live(call[k].run)
    BY <1>7, ReportedOf DEF OnHold, ScriptsOK
  <2> QED  BY <1>1, <1>3, <1>4, <1>5, <1>6, <1>7, <2>1, <2>2, TakeExact
<1>8. CASE ~OnHold(k)
  <2>1. call' = [call EXCEPT ![k] = y] /\ UNCHANGED <<run, suspended>>
    BY <1>0, <1>8 DEF ApprovedReturns
  <2>2. ASSUME ~Parallel, SerialInv PROVE ~Live(y.run)
    BY <1>1, <1>3, <1>8, <2>2, OneBusy
  <2> QED  BY <1>1, <1>3, <1>4, <1>5, <1>8, <2>1, <2>2, NotHeldExact
<1> QED  BY <1>7, <1>8

(* A denied call does not run.                                               *)
LEMMA DenyExact == ASSUME ScriptInv, ScriptsOK, NEW k \in Calls, Deny(k) PROVE ScriptsOK'
<1>0. PICK y : y = [call[k] EXCEPT !.st = "done"]
  OBVIOUS
<1>1. Pending(k) /\ confirm' = [confirm EXCEPT ![k] = Off] /\ Off \in Off .. Lifetime
  BY CodeModeAssumption DEF Deny, Used, Off
<1>2. call[k] \in CallRecords /\ call[k].st # "none"
  BY <1>1, CallFacts DEF CallOK, Pending
<1>3. y \in CallRecords /\ y.st = "done" /\ y.run = call[k].run
  BY <1>0, <1>2 DEF CallRecords
<1>4. CASE OnHold(k)
  <2>1. Take(call[k].run, k, [call EXCEPT ![k] = y])
    BY <1>0, <1>4 DEF Deny
  <2> QED  BY <1>1, <1>3, <1>4, <2>1, TakeExact
<1>5. CASE ~OnHold(k)
  <2>1. call' = [call EXCEPT ![k] = y] /\ UNCHANGED <<run, suspended>>
    BY <1>0, <1>5 DEF Deny
  <2> QED  BY <1>1, <1>2, <1>3, <1>5, <2>1, NotHeldExact
<1> QED  BY <1>4, <1>5

(* A hold that ends its script, or that comes after its end.                 *)
LEMMA HoldStopsExact == ASSUME ScriptInv, ScriptsOK, NEW k \in Calls, HoldStops(k) PROVE ScriptsOK'
<1>0. PICK r, y, n : /\ r = call[k].run
                     /\ y = [call[k] EXCEPT !.st = "dropped", !.told = r \notin Unattended /\ run[r].waiter]
                     /\ n = IF r \in Unattended THEN Off ELSE Life
  OBVIOUS
<1>1. call[k] \in CallRecords /\ call[k].st = "inflight" /\ r \in Runs
  BY <1>0, CallFacts DEF HoldStops, CallOK
<1>2. n \in Off .. Lifetime
  BY <1>0, CodeModeAssumption DEF Off, Life
<1>3. y \in CallRecords /\ y.st = "dropped" /\ y.run = r
  <2>1. run[r].waiter \in BOOLEAN
    BY <1>1 DEF ScriptsOK, ExactInv, ExactRecords
  <2> QED  BY <1>0, <1>1, <2>1 DEF CallRecords
<1> DEFINE c == [call EXCEPT ![k] = y]
           cf == [confirm EXCEPT ![k] = n]
<1>4. /\ c \in [Calls -> CallRecords] /\ c[k] = y /\ \A j \in Calls \ {k} : c[j] = call[j]
      /\ cf \in [Calls -> Off .. Lifetime] /\ \A j \in Calls \ {k} : cf[j] = confirm[j]
  BY <1>2, <1>3 DEF ScriptInv, ScriptTypeOK, CallRecords, ScriptsOK, ExactInv
<1>5. CASE Live(r)
  <2>1. Settle(r, "over", c, cf)
    BY <1>0, <1>5 DEF HoldStops
  <2> HIDE DEF c, cf
  <2>2. /\ \A j \in Calls : c[j].run = call[j].run /\ (call[j].st # "none" => c[j].st # "none")
        /\ \A j \in Calls : c[j] # call[j] \/ cf[j] # confirm[j] => Of(j, r)
    BY <1>0, <1>1, <1>3, <1>4 DEF Of
  <2> QED  BY <1>1, <1>4, <2>1, <2>2, SettleExact
<1>6. CASE ~Live(r)
  <2>1. call' = c /\ confirm' = cf /\ UNCHANGED <<run, suspended>>
    BY <1>0, <1>6 DEF HoldStops
  <2>2. ASSUME ~Parallel, SerialInv PROVE SerialOK(y.run)'
    BY <1>0, <1>1, <1>3, <1>6, <2>1, <2>2, OneBusy DEF SerialOK, Live
  <2> QED  BY <1>0, <1>1, <1>2, <1>3, <2>1, <2>2, OneCallExact
<1> QED  BY <1>5, <1>6

(* A hold that waits for its decision: it is reported, or after another, or  *)
(* its script is gone.                                                       *)
LEMMA HoldPausesExact == ASSUME ScriptInv, ScriptsOK, NEW k \in Calls, HoldPauses(k) PROVE ScriptsOK'
<1>0. PICK r, y : r = call[k].run /\ y = [call[k] EXCEPT !.st = IF Live(r) THEN "held" ELSE "dropped"]
  OBVIOUS
<1>1. /\ call[k] \in CallRecords /\ call[k].st = "inflight" /\ r \in Runs /\ Of(k, r)
      /\ confirm' = [confirm EXCEPT ![k] = Life]
  BY <1>0, CallFacts DEF HoldPauses, CallOK, Of
<1>2. Life = Lifetime /\ Life \in Off .. Lifetime /\ Lifetime # Off
  BY CodeModeAssumption DEF Off, Life
<1>3. y \in CallRecords /\ y.run = r /\ y.st = IF Live(r) THEN "held" ELSE "dropped"
  BY <1>0, <1>1 DEF CallRecords
<1> DEFINE c == [call EXCEPT ![k] = y]
<1>4. /\ c \in [Calls -> CallRecords] /\ c[k] = y /\ \A j \in Calls \ {k} : c[j] = call[j]
      /\ confirm' \in [Calls -> Off .. Lifetime] /\ confirm'[k] = Life
      /\ \A j \in Calls \ {k} : confirm'[j] = confirm[j]
  BY <1>1, <1>2, <1>3 DEF ScriptInv, ScriptTypeOK, CallRecords, ScriptsOK, ExactInv
<1>5. run[r] \in ExactRecords /\ HoldsOwn(r) /\ run[r].active \in Calls \cup {NoCall} /\ run[r].queue \in Seq(Calls)
  BY <1>1 DEF ScriptsOK, ExactInv, ExactRecords
<1>6. CASE Live(r) /\ run[r].active = NoCall
  <2>1. Report(r, k, << >>, TRUE, c) /\ suspended' = suspended \cup {k}
    BY <1>0, <1>6 DEF HoldPauses
  <2>2. call' = [c EXCEPT ![k] = [c[k] EXCEPT !.told = TRUE]]
    BY <2>1 DEF Report
  <2>3. /\ call'[k].run = r /\ call'[k].st = "held"
        /\ \A j \in Calls \ {k} : call'[j] = call[j]
    BY <1>3, <1>4, <1>6, <2>2 DEF CallRecords
  <2> HIDE DEF c
  <2>4. Kept
    BY <1>0, <1>1, <2>3 DEF Kept
  <2>5. suspended' = (suspended \ {run[r].active}) \cup {k}
    BY <1>6, <2>1, CodeModeAssumption DEF ScriptsOK, ExactInv
  <2>6. /\ ExactInv'
        /\ run'[r].st = "live" /\ run'[r].active = k /\ run'[r].queue = << >> /\ run'[r].ttl = Lifetime
    BY <1>1, <1>4, <1>6, <2>1, <2>4, <2>5, NoHolds, ReportExact DEF ScriptsOK
  <2>7. ASSUME ~Parallel, SerialInv PROVE SerialInv'
    <3>1. SerialOK(r)
      BY <1>1, <2>7 DEF SerialInv
    <3>2. \A i, j \in Calls : Busy(i, r)' /\ Busy(j, r)' => i = j
      <4>1. \A j \in Calls : Busy(j, r)' => Busy(j, r)
        BY <1>0, <1>1, <2>3 DEF Busy, Going
      <4> QED  BY <1>6, <3>1, <4>1 DEF SerialOK
    <3>3. \A j \in Calls : call'[j].run = r /\ Pending(j)' => call'[j].st = "held"
      BY <1>4, <1>6, <2>3, <3>1 DEF SerialOK, Pending
    <3>4. \A j \in Calls : call'[j].run = r /\ call'[j].st \in {"held", "approved"} => j = k
      BY <1>6, <2>3, <3>1, CodeModeAssumption DEF SerialOK
    <3>5. Even(k, r)'
      BY <1>2, <1>4, <2>6 DEF Even
    <3>6. SerialOK(r)'
      BY <2>3, <2>6, <3>2, <3>3, <3>4, <3>5 DEF SerialOK, Live
    <3>7. \A q \in Runs \ {r} : run'[q] = run[q]
      BY <2>1 DEF Report, ScriptsOK, ExactInv
    <3>8. \A j \in Calls : call'[j] # call[j] \/ confirm'[j] # confirm[j]
                             => (call[j].st = "none" \/ call[j].run = r) /\ call'[j].run = r
      BY <1>0, <1>4, <2>3
    <3> QED
      BY <1>1, <2>7, <3>6, <3>7, <3>8, OneScriptSerial DEF ScriptsOK
  <2> QED  BY <2>6, <2>7 DEF ScriptsOK
<1>7. CASE Live(r) /\ run[r].active # NoCall
  <2> DEFINE x == [run[r] EXCEPT !.queue = Append(run[r].queue, k)]
  <2>1. run' = [run EXCEPT ![r] = x] /\ call' = c /\ UNCHANGED suspended
    BY <1>0, <1>7 DEF HoldPauses
  <2>2. /\ Append(run[r].queue, k) \in Seq(Calls)
        /\ \A i \in DOMAIN Append(run[r].queue, k) :
              Append(run[r].queue, k)[i] = k \/ (i \in DOMAIN run[r].queue /\ Append(run[r].queue, k)[i] = run[r].queue[i])
    BY <1>5
  <2>3. x \in ExactRecords /\ x.active = run[r].active /\ x.queue = Append(run[r].queue, k) /\ x.st = "live"
    BY <1>5, <1>7, <2>2 DEF ExactRecords, Live
  <2> HIDE DEF x, c
  <2>4. Kept
    BY <1>0, <1>3, <1>4, <1>7, <2>1 DEF Kept
  <2>5. Of(x.active, r) /\ \A i \in DOMAIN x.queue : Of(x.queue[i], r)
    BY <1>1, <1>5, <1>7, <2>2, <2>3 DEF HoldsOwn
  <2>6. suspended' \subseteq Calls /\ x.active \in suspended'
    BY <1>1, <1>5, <1>7, <2>1, <2>3 DEF ScriptsOK, ExactInv, Reported
  <2>7. \A j \in suspended' : (j \in suspended /\ j # run[r].active) \/ (x.st = "live" /\ j = x.active)
    BY <2>1, <2>3
  <2>8. ExactInv'
    <3>1. \A j \in suspended \ suspended' : Of(j, r)
      BY <2>1
    <3>2. ExactInv /\ confirm' \in [Calls -> Off .. Lifetime]
      BY <1>4 DEF ScriptsOK
    <3> QED  BY <1>1, <2>1, <2>3, <2>4, <2>5, <2>6, <2>7, <3>1, <3>2, OneScriptExact
  <2>9. ASSUME ~Parallel, SerialInv PROVE FALSE
    BY <1>0, <1>1, <1>7, <2>9, OneBusy
  <2> QED  BY <2>8, <2>9 DEF ScriptsOK
<1>8. CASE ~Live(r)
  <2>1. call' = c /\ UNCHANGED <<run, suspended>>
    BY <1>0, <1>8 DEF HoldPauses
  <2>2. ASSUME ~Parallel, SerialInv PROVE SerialOK(y.run)'
    BY <1>0, <1>1, <1>3, <1>8, <2>1, <2>2, OneBusy DEF SerialOK, Live
  <2>3. /\ y.st # "none" /\ y.run \in Runs /\ y.run = call[k].run /\ Life \in Off .. Lifetime
        /\ call' = [call EXCEPT ![k] = y] /\ confirm' = [confirm EXCEPT ![k] = Life]
    BY <1>0, <1>1, <1>2, <1>3, <1>8, <2>1
  <2> HIDE DEF c
  <2> QED  BY <2>1, <2>2, <2>3, OneCallExact
<1> QED  BY <1>6, <1>7, <1>8

(* A tick passes no timer that is due: none of the clocks goes below zero.   *)
LEMMA TickExact == ASSUME ScriptInv, ScriptsOK, Tick PROVE ScriptsOK'
<1>1. /\ run' = [r \in Runs |->
              IF Live(r) THEN [run[r] EXCEPT !.time = IF run[r].paused THEN @ ELSE @ - 1,
                                            !.old = IF @ > 0 THEN @ - 1 ELSE 0, !.ttl = Less(@)]
              ELSE run[r]]
      /\ confirm' = [k \in Calls |-> Less(confirm[k])]
      /\ call' = [k \in Calls |-> [call[k] EXCEPT !.aged = call[k].st \in Going]]
      /\ UNCHANGED suspended /\ ~Due
  BY DEF Tick
<1>2. \A n \in Off .. Lifetime : n # 0 => Less(n) \in Off .. Lifetime /\ (Less(n) = Off <=> n = Off)
  BY CodeModeAssumption DEF Less, Off
<1>3. ASSUME NEW r \in Runs
      PROVE  /\ run'[r] \in ExactRecords /\ run'[r].st = run[r].st /\ run'[r].active = run[r].active
             /\ run'[r].queue = run[r].queue
             /\ Live(r) => run[r].ttl # 0 /\ run'[r].ttl = Less(run[r].ttl)
  <2>1. run[r] \in ExactRecords
    BY DEF ScriptsOK, ExactInv
  <2>2. CASE ~Live(r)
    BY <1>1, <2>1, <2>2
  <2>3. CASE Live(r)
    <3>1. run[r].ttl # 0 /\ (run[r].paused \/ run[r].time # 0)
      BY <1>1, <2>3 DEF Due
    <3>2. PICK t, o, n : /\ t = IF run[r].paused THEN run[r].time ELSE run[r].time - 1
                         /\ o = IF run[r].old > 0 THEN run[r].old - 1 ELSE 0
                         /\ n = Less(run[r].ttl)
      OBVIOUS
    <3>3. t \in 0 .. Timeout /\ o \in 0 .. Timeout /\ n \in Off .. Lifetime
      BY <1>2, <2>1, <3>1, <3>2, CodeModeAssumption DEF ExactRecords
    <3>4. run'[r] = [run[r] EXCEPT !.time = t, !.old = o, !.ttl = n]
      BY <1>1, <2>3, <3>2
    <3> QED  BY <2>1, <3>1, <3>2, <3>3, <3>4 DEF ExactRecords
  <2> QED  BY <2>2, <2>3
<1>4. ASSUME NEW k \in Calls
      PROVE  /\ call'[k].st = call[k].st /\ call'[k].run = call[k].run
             /\ confirm'[k] \in Off .. Lifetime /\ confirm'[k] = Less(confirm[k]) /\ confirm[k] # 0
             /\ Pending(k)' <=> Pending(k)
  <2>1. call[k] \in CallRecords /\ confirm[k] \in Off .. Lifetime
    BY CallFacts DEF ScriptsOK, ExactInv
  <2>2. confirm[k] # 0
    BY <1>1 DEF Due
  <2>3. call'[k] = [call[k] EXCEPT !.aged = call[k].st \in Going] /\ confirm'[k] = Less(confirm[k])
    BY <1>1
  <2>4. call'[k].st = call[k].st /\ call'[k].run = call[k].run
    BY <2>1, <2>3 DEF CallRecords
  <2> QED  BY <1>2, <2>1, <2>2, <2>3, <2>4 DEF Pending
<1>5. ExactInv'
  <2>1. run' \in [Runs -> ExactRecords] /\ confirm' \in [Calls -> Off .. Lifetime]
    <3>1. run' \in [Runs -> ExactRecords]
      BY <1>1, <1>3
    <3>2. confirm' \in [Calls -> Off .. Lifetime]
      BY <1>1, <1>4
    <3> QED  BY <3>1, <3>2
  <2>2. suspended' \subseteq Calls /\ \A k \in Calls : k \in suspended' <=> Reported(k)'
    <3>1. \A k \in Calls : Reported(k)' <=> Reported(k)
      BY <1>3 DEF Reported, Live
    <3> QED  BY <1>1, <3>1 DEF ScriptsOK, ExactInv
  <2>3. \A r \in Runs : HoldsOwn(r)'
    <3> TAKE r \in Runs
    <3>1. run[r] \in ExactRecords /\ HoldsOwn(r)
      BY DEF ScriptsOK, ExactInv
    <3>2. run[r].active \in Calls \cup {NoCall} /\ \A i \in DOMAIN run[r].queue : run[r].queue[i] \in Calls
      BY <3>1 DEF ExactRecords
    <3> QED  BY <1>3, <1>4, <3>1, <3>2 DEF HoldsOwn, Of
  <2> QED  BY <2>1, <2>2, <2>3 DEF ExactInv
<1>6. ASSUME ~Parallel, SerialInv PROVE SerialInv'
  <2> SUFFICES ASSUME NEW r \in Runs PROVE SerialOK(r)'
    BY DEF SerialInv
  <2>1. SerialOK(r) /\ run[r].active \in Calls \cup {NoCall} /\ run[r].ttl \in Off .. Lifetime
    BY <1>6 DEF SerialInv, ScriptsOK, ExactInv, ExactRecords
  <2>2. ASSUME Live(r), run[r].active # NoCall, call[run[r].active].st = "held" PROVE Even(run[r].active, r)'
    <3>1. run[r].ttl # Off /\ confirm[run[r].active] = run[r].ttl
      BY <1>3, <2>1, <2>2 DEF SerialOK, Even
    <3> QED  BY <1>2, <1>3, <1>4, <2>1, <2>2, <3>1 DEF Even
  <2>3. \A k \in Calls : (Of(k, r)' <=> Of(k, r)) /\ (Busy(k, r)' <=> Busy(k, r))
    BY <1>4 DEF Of, Busy
  <2> QED
    BY <1>3, <1>4, <2>1, <2>2, <2>3 DEF SerialOK, Live
<1> QED  BY <1>5, <1>6 DEF ScriptsOK

(* The first state.                                                          *)
LEMMA InitExact == Init => ScriptsOK
<1> SUFFICES ASSUME Init PROVE ScriptsOK
  OBVIOUS
<1>1. \A r \in Runs : run[r] = NewRun
  BY DEF Init
<1>2. \A k \in Calls : call[k].st = "none" /\ confirm[k] = Off
  BY DEF Init, NewCall
<1>3. /\ NewRun \in ExactRecords /\ NewRun.st = "new" /\ NewRun.active = NoCall /\ NewRun.queue = << >>
  <2>1. Off \in Off .. Lifetime /\ Timeout \in 0 .. Timeout /\ 0 \in 0 .. Timeout
    BY CodeModeAssumption DEF Off
  <2> QED  BY <2>1, NoHolds DEF NewRun, ExactRecords
<1>4. run \in [Runs -> ExactRecords] /\ confirm \in [Calls -> Off .. Lifetime] /\ suspended = {}
  BY <1>3, CodeModeAssumption DEF Init, Off
<1>5. \A r \in Runs : ~Live(r) /\ run[r].active = NoCall /\ run[r].queue = << >>
  BY <1>1, <1>3 DEF Live
<1>6. \A r \in Runs : HoldsOwn(r)
  BY <1>5, NoHolds DEF HoldsOwn
<1>7. \A k \in Calls : k \in suspended <=> Reported(k)
  BY <1>4, <1>5 DEF Reported
<1>8. SerialInv
  BY <1>2, <1>5 DEF SerialInv, SerialOK, Of
<1> QED
  BY <1>4, <1>6, <1>7, <1>8 DEF ScriptsOK, ExactInv

(* Every step keeps it.                                                      *)
LEMMA NextExact == ScriptInv /\ ScriptsOK /\ [Next]_vars => ScriptsOK'
<1> SUFFICES ASSUME ScriptInv, ScriptsOK, [Next]_vars PROVE ScriptsOK'
  OBVIOUS
<1>1. CASE \E r \in Runs : Start(r) \/ Ends(r) \/ ClientCancels(r) \/ Interrupted(r) \/ \E k \in Calls : HostCall(r, k)
  <2>1. ASSUME NEW r \in Runs, Ends(r) \/ Interrupted(r) PROVE ScriptsOK'
    BY <2>1, EndExact DEF Ends, Interrupted
  <2> QED  BY <1>1, <2>1, StartExact, CancelExact, HostCallExact
<1>2. CASE Results
  BY <1>2, ReturnsExact, HoldStopsExact, HoldPausesExact, ApprovedExact DEF Results
<1>3. CASE \E k \in Calls : Approve(k) \/ Deny(k)
  BY <1>3, ApproveExact, DenyExact
<1>4. CASE Timers
  <2>1. ASSUME NEW r \in Runs, Deadline(r) \/ Discard(r) PROVE ScriptsOK'
    BY <2>1, EndExact DEF Deadline, Discard
  <2> QED  BY <1>4, <2>1, ExpiresExact DEF Timers
<1>5. CASE Tick
  BY <1>5, TickExact
<1>6. CASE UNCHANGED vars
  BY <1>6 DEF vars, ScriptsOK, ExactInv, HoldsOwn, Of, Reported, Live, SerialInv, SerialOK, Busy, Even, Pending
<1> QED
  BY <1>1, <1>2, <1>3, <1>4, <1>5, <1>6 DEF Next

(* The exact relation of the places and the scripts is an invariant: a place *)
(* is taken by the hold that a live script reports, and by nothing else, and *)
(* all clocks stay in their range (codemode/index.js:295-305, 424-454).      *)
THEOREM TypesHold == Spec => []TypeOK
<1>1. Spec => []ScriptInv
  BY ScriptsConsistent
<1>2. ScriptInv /\ ScriptsOK => TypeOK
  BY ExactTypes DEF ScriptsOK
<1> QED
  BY <1>1, <1>2, InitExact, NextExact, PTL DEF Spec

(* While scripts await each of their calls, no time passes with a reported   *)
(* hold that can no longer be decided: the paused script lives exactly as    *)
(* long as the confirmation of its hold (codemode/index.js:70, 424-454;      *)
(* index.js:767-798).                                                        *)
THEOREM HoldStaysOpen == ASSUME ~Parallel PROVE Spec => HoldOpen
<1>1. ASSUME ScriptInv, ScriptsOK, [Next]_vars
      PROVE  [Tick => \A k \in suspended : Pending(k) \/ call[k].st = "approved"]_vars
  <2> SUFFICES ASSUME Tick, NEW k \in suspended PROVE Pending(k) \/ call[k].st = "approved"
    OBVIOUS
  <2>1. PICK r \in Runs : r = call[k].run /\ Live(r) /\ run[r].active = k /\ k \in Calls
    BY <1>1, ReportedOf DEF ScriptsOK
  <2>2. SerialOK(r) /\ k # NoCall
    BY <1>1, <2>1, CodeModeAssumption DEF ScriptsOK, SerialInv
  <2>3. run[r].ttl # 0
    BY <2>1 DEF Tick, Due
  <2> QED
    BY <2>1, <2>2, <2>3 DEF SerialOK, Even, Pending
<1>2. Spec => []ScriptInv
  BY ScriptsConsistent
<1> QED
  BY <1>1, <1>2, InitExact, NextExact, PTL DEF Spec, HoldOpen

-----------------------------------------------------------------------------
(* The action gate: what is said of one call.  A rule that a call is about to write is       *)
(* permitted, and what it will write with it was permitted when it was read  *)
(* and is still, since nothing is revoked meanwhile.                        *)

AskRecords ==
    [st : {"idle", "check", "prompt", "persist", "saving", "allowed", "running", "over"},
     card : {"none", "shown"} \cup Asking!Answers, known : BOOLEAN, map : SUBSET Sites]

Agreed(x) == x.card \in {"once", "site"}

WritesPermitted(c) ==
    /\ ask[c].st \in {"persist", "saving"} => ask[c].card = "site" /\ Asking!Site(c) \in granted
    /\ ask[c].st = "saving" => change.st = "none" /\ ask[c].map \subseteq granted

RunsPermitted(c) ==
    ask[c].st \in {"allowed", "running"} => Agreed(ask[c]) \/ (c \notin Destructive /\ ask[c].known)

RulesPermitted ==
    /\ rules \subseteq granted \cup Asking!Leaving
    /\ change.st = "saving" => change.map \subseteq granted

DecidedInv ==
    /\ Asking!TypeOK
    /\ RulesPermitted
    /\ \A c \in Acts : WritesPermitted(c) /\ RunsPermitted(c)

(* What the theorem says of UserDecides is in the invariant.                *)
LEMMA DecidedImplies == DecidedInv => Asking!UserDecides
BY DEF DecidedInv, RulesPermitted, RunsPermitted, Agreed, Asking!UserDecides

(* Nothing is asked, stored or permitted at the start.                    *)
LEMMA InitDecided == ASSUME Asking!AskBeforeActAssumption, Asking!Init PROVE DecidedInv
<1>1. Asking!NotMade \in AskRecords /\ ask = [c \in Acts |-> Asking!NotMade]
  BY DEF Asking!Init, Asking!NotMade, AskRecords
<1>2. ask \in [Acts -> AskRecords]
  BY <1>1
<1>3. Asking!TypeOK
  BY <1>2 DEF Asking!AskBeforeActAssumption, Asking!Init, Asking!TypeOK, AskRecords, Asking!NoChange
<1> QED
  BY <1>3 DEF Asking!Init, DecidedInv, RulesPermitted, WritesPermitted, RunsPermitted, Asking!NotMade, Asking!NoChange

-----------------------------------------------------------------------------
(* A step of one call leaves the others as they are.                        *)

(* A step that changes call c, and the rules and the permissions only so that *)
(* no call loses what it relies on, keeps the invariant.                     *)
LEMMA OneAsk ==
    ASSUME DecidedInv, NEW c \in Acts, NEW x \in AskRecords, Asking!Goes(c, x),
           UNCHANGED <<change, Asking!takeoverVars, restarts>>,
           granted \subseteq granted', granted' \subseteq Sites, rules' \subseteq Sites,
           rules' \subseteq granted' \cup Asking!Leaving,
           (WritesPermitted(c) /\ RunsPermitted(c))'
    PROVE  DecidedInv'
<1>1. \A d \in Acts : d # c => ask'[d] = ask[d]
  BY DEF Asking!Goes, DecidedInv, Asking!TypeOK
<1>2. Asking!TypeOK'
  BY DEF Asking!Goes, DecidedInv, Asking!TypeOK, AskRecords, Asking!takeoverVars
<1>3. RulesPermitted'
  BY DEF DecidedInv, RulesPermitted, Asking!Leaving
<1>4. \A d \in Acts : (WritesPermitted(d) /\ RunsPermitted(d))'
  <2> TAKE d \in Acts
  <2>1. CASE d = c  BY <2>1
  <2>2. CASE d # c
    BY <1>1, <2>2 DEF DecidedInv, WritesPermitted, RunsPermitted, Agreed, Asking!Site
  <2> QED  BY <2>1, <2>2
<1> QED  BY <1>2, <1>3, <1>4 DEF DecidedInv

-----------------------------------------------------------------------------
(* The steps of a call.                                                    *)

(* A new call touches neither rules nor permissions.                      *)
LEMMA CallKeeps == ASSUME DecidedInv, NEW c \in Acts, Asking!Call(c) PROVE DecidedInv'
<1> DEFINE x == [ask[c] EXCEPT !.st = IF Asking!Site(c) \in taken THEN "over" ELSE "check"]
<1>1. x \in AskRecords /\ x.st \in {"over", "check"} /\ ask'[c] = x /\ Asking!Goes(c, x)
  BY DEF DecidedInv, Asking!TypeOK, AskRecords, Asking!Call, Asking!Goes
<1>2. (WritesPermitted(c) /\ RunsPermitted(c))'
  BY <1>1 DEF WritesPermitted, RunsPermitted
<1> HIDE DEF x
<1> QED
  BY <1>1, <1>2, OneAsk DEF Asking!Call, Asking!ruleVars, DecidedInv, Asking!TypeOK, RulesPermitted

(* A call that a rule allows is one of a site with a permission, which is noted.*)
LEMMA CheckKeeps == ASSUME DecidedInv, NEW c \in Acts, Asking!Check(c) PROVE DecidedInv'
<1> DEFINE known == Asking!Site(c) \in granted \cup Asking!Leaving
           x == IF Asking!Allowed(c) THEN [ask[c] EXCEPT !.st = "allowed", !.known = known]
                              ELSE [ask[c] EXCEPT !.st = "prompt", !.card = "shown"]
<1>0. known \in BOOLEAN /\ Asking!Goes(c, x) /\ (Asking!Allowed(c) => known)
  BY DEF Asking!Check, DecidedInv, RulesPermitted, Asking!Allowed
<1> HIDE DEF known
<1>1. x \in AskRecords /\ x.st \in {"allowed", "prompt"} /\ ask'[c] = x /\ Asking!Goes(c, x)
  BY <1>0 DEF DecidedInv, Asking!TypeOK, AskRecords, Asking!Goes
<1>2. x.st = "allowed" => c \notin Destructive /\ x.known
  BY <1>0 DEF DecidedInv, Asking!TypeOK, Asking!Allowed
<1>3. (WritesPermitted(c) /\ RunsPermitted(c))'
  BY <1>1, <1>2 DEF WritesPermitted, RunsPermitted
<1> HIDE DEF x
<1> QED
  BY <1>1, <1>3, OneAsk DEF Asking!Check, Asking!ruleVars, DecidedInv, Asking!TypeOK, RulesPermitted

(* An answer that counts is a permission; a late one changes no state of the call.*)
LEMMA ClickKeeps ==
    ASSUME Asking!AskBeforeActAssumption, DecidedInv, NEW c \in Acts, NEW answer \in Asking!Answers,
           Asking!Click(c, answer)
    PROVE  DecidedInv'
<1> DEFINE x == IF ask[c].st # "prompt" THEN [ask[c] EXCEPT !.card = answer]
                ELSE [ask[c] EXCEPT !.card = answer,
                          !.st = CASE answer = "once" -> "allowed"
                                   [] answer = "site" -> "persist"
                                   [] answer = "deny" -> "over"]
<1>1. Asking!Goes(c, x) /\ ask[c].card = "shown" /\ UNCHANGED <<Asking!ruleVars, Asking!takeoverVars, restarts>>
  BY DEF Asking!Click
<1>2. ask[c] \in AskRecords /\ Asking!Site(c) \in Sites
  BY DEF Asking!AskBeforeActAssumption, DecidedInv, Asking!TypeOK, AskRecords, Asking!Site
<1>3. /\ x \in AskRecords /\ ask'[c] = x
      /\ \/ ask[c].st # "prompt" /\ x.st = ask[c].st /\ x.known = ask[c].known /\ granted' = granted
         \/ ask[c].st = "prompt" /\ answer = "once" /\ x.st = "allowed" /\ x.card = "once" /\ granted' = granted
         \/ /\ ask[c].st = "prompt" /\ x.st = "persist" /\ x.card = "site"
            /\ granted' = granted \cup {Asking!Site(c)}
         \/ ask[c].st = "prompt" /\ x.st = "over" /\ granted' = granted
  BY <1>1, <1>2 DEF Asking!Click, Asking!Goes, Asking!Answers, AskRecords, DecidedInv, Asking!TypeOK
<1>4. (WritesPermitted(c) /\ RunsPermitted(c))'
  BY <1>1, <1>3 DEF DecidedInv, WritesPermitted, RunsPermitted, Agreed, Asking!Site
<1>5. granted \subseteq granted' /\ granted' \subseteq Sites
  BY <1>2, <1>3 DEF DecidedInv, Asking!TypeOK
<1> HIDE DEF x
<1> QED
  BY <1>1, <1>3, <1>4, <1>5, OneAsk DEF Asking!ruleVars, DecidedInv, Asking!TypeOK, RulesPermitted

(* A call that nobody answers ends.                                       *)
LEMMA ExpiresKeeps == ASSUME DecidedInv, NEW c \in Acts, Asking!Expires(c) PROVE DecidedInv'
<1> DEFINE x == [ask[c] EXCEPT !.st = "over"]
<1>1. x \in AskRecords /\ x.st = "over" /\ ask'[c] = x /\ Asking!Goes(c, x)
  BY DEF DecidedInv, Asking!TypeOK, AskRecords, Asking!Expires, Asking!Goes
<1>2. (WritesPermitted(c) /\ RunsPermitted(c))'
  BY <1>1 DEF WritesPermitted, RunsPermitted
<1> HIDE DEF x
<1> QED
  BY <1>1, <1>2, OneAsk DEF Asking!Expires, Asking!ruleVars, DecidedInv, Asking!TypeOK, RulesPermitted

(* A call reads the rules only when no change of them is on its way, so what *)
(* it has read is permitted.                                                *)
LEMMA PersistLoadsKeeps ==
    ASSUME DecidedInv, NEW c \in Acts, Asking!PersistLoads(c) PROVE DecidedInv'
<1> DEFINE x == [ask[c] EXCEPT !.st = "saving", !.map = rules]
<1>1. /\ x \in AskRecords /\ ask'[c] = x /\ Asking!Goes(c, x)
      /\ x.st = "saving" /\ x.map = rules /\ x.card = ask[c].card
  BY DEF DecidedInv, Asking!TypeOK, AskRecords, Asking!PersistLoads, Asking!Goes
<1>2. change.st = "none" /\ rules \subseteq granted /\ UNCHANGED <<change, granted>>
  BY DEF Asking!PersistLoads, Asking!ruleVars, DecidedInv, RulesPermitted, Asking!Leaving
<1>3. (WritesPermitted(c) /\ RunsPermitted(c))'
  BY <1>1, <1>2 DEF Asking!PersistLoads, DecidedInv, WritesPermitted, RunsPermitted, Asking!Site
<1> HIDE DEF x
<1> QED
  BY <1>1, <1>3, OneAsk DEF Asking!PersistLoads, Asking!ruleVars, DecidedInv, Asking!TypeOK, RulesPermitted

(* What is written was permitted when it was read, and nothing was revoked since.*)
LEMMA PersistSavesKeeps == ASSUME DecidedInv, NEW c \in Acts, Asking!PersistSaves(c) PROVE DecidedInv'
<1> DEFINE x == [ask[c] EXCEPT !.st = "allowed"]
<1>1. /\ x \in AskRecords /\ ask'[c] = x /\ Asking!Goes(c, x)
      /\ x.st = "allowed" /\ x.card = ask[c].card
  BY DEF DecidedInv, Asking!TypeOK, AskRecords, Asking!PersistSaves, Asking!Goes
<1>2. ask[c].card = "site" /\ rules' \subseteq granted /\ UNCHANGED granted
  BY DEF Asking!PersistSaves, DecidedInv, WritesPermitted
<1>3. (WritesPermitted(c) /\ RunsPermitted(c))'
  BY <1>1, <1>2 DEF WritesPermitted, RunsPermitted, Agreed
<1> HIDE DEF x
<1> QED
  BY <1>1, <1>2, <1>3, OneAsk DEF Asking!PersistSaves, DecidedInv, Asking!TypeOK

(* A call that begins was allowed before.                                 *)
LEMMA BeginKeeps == ASSUME DecidedInv, NEW c \in Acts, Asking!Begin(c) PROVE DecidedInv'
<1>1. PICK st \in {"running", "over"} : Asking!Goes(c, [ask[c] EXCEPT !.st = st])
  BY DEF Asking!Begin
<1> DEFINE x == [ask[c] EXCEPT !.st = st]
<1>2. /\ x \in AskRecords /\ ask'[c] = x /\ Asking!Goes(c, x)
      /\ x.st \in {"running", "over"} /\ x.card = ask[c].card /\ x.known = ask[c].known
  BY <1>1 DEF DecidedInv, Asking!TypeOK, AskRecords, Asking!Goes
<1>3. (WritesPermitted(c) /\ RunsPermitted(c))'
  BY <1>2 DEF Asking!Begin, DecidedInv, WritesPermitted, RunsPermitted, Agreed
<1> HIDE DEF x
<1> QED
  BY <1>2, <1>3, OneAsk DEF Asking!Begin, Asking!ruleVars, DecidedInv, Asking!TypeOK, RulesPermitted

-----------------------------------------------------------------------------
(* The steps of the user and of the worker.                                *)

(* Nothing is revoked while a call makes a rule.                            *)
LEMMA RevokeKeeps ==
    ASSUME DecidedInv, NEW of \in SUBSET Sites, Asking!Revoke(of) PROVE DecidedInv'
<1>1. /\ change' = [st |-> "saving", of |-> of, map |-> rules \ of] /\ granted' = granted \ of
      /\ change.st = "none" /\ Asking!Persisting = {} /\ UNCHANGED <<ask, rules, Asking!takeoverVars, restarts>>
  BY DEF Asking!Revoke
<1>2. Asking!TypeOK'
  BY <1>1 DEF DecidedInv, Asking!TypeOK, Asking!takeoverVars
<1>3. RulesPermitted'
  BY <1>1 DEF DecidedInv, RulesPermitted, Asking!Leaving
<1>4. \A c \in Acts : (WritesPermitted(c) /\ RunsPermitted(c))'
  BY <1>1 DEF DecidedInv, WritesPermitted, RunsPermitted, Agreed, Asking!Persisting
<1> QED  BY <1>2, <1>3, <1>4 DEF DecidedInv

(* The map without the revoked rules is stored, and they are no longer leaving.*)
LEMMA RevokeSavesKeeps == ASSUME DecidedInv, Asking!RevokeSaves PROVE DecidedInv'
<1>1. /\ rules' = change.map /\ change' = Asking!NoChange /\ change.st = "saving"
      /\ UNCHANGED <<ask, granted, Asking!takeoverVars, restarts>>
  BY DEF Asking!RevokeSaves
<1>2. Asking!TypeOK'
  BY <1>1 DEF DecidedInv, Asking!TypeOK, Asking!takeoverVars, Asking!NoChange
<1>3. RulesPermitted'
  BY <1>1 DEF DecidedInv, RulesPermitted, Asking!Leaving, Asking!NoChange
<1>4. \A c \in Acts : (WritesPermitted(c) /\ RunsPermitted(c))'
  BY <1>1 DEF DecidedInv, WritesPermitted, RunsPermitted, Agreed, Asking!Site
<1> QED  BY <1>2, <1>3, <1>4 DEF DecidedInv

(* Taking a tab over changes no rule and no permission.                   *)
LEMMA TakeoverKeeps ==
    ASSUME DecidedInv, UNCHANGED <<ask, rules, change, granted, restarts>>, Asking!TypeOK' PROVE DecidedInv'
BY DEF DecidedInv, RulesPermitted, WritesPermitted, RunsPermitted, Agreed, Asking!Leaving, Asking!Site

(* What a write that lands at the end of the worker leaves was permitted.   *)
LEMMA AskKillKeeps == ASSUME Asking!AskBeforeActAssumption, DecidedInv, Asking!Kill PROVE DecidedInv'
<1>1. \A c \in Acts : ask[c] \in AskRecords /\ Asking!Site(c) \in Sites
  BY DEF Asking!AskBeforeActAssumption, DecidedInv, Asking!TypeOK, AskRecords, Asking!Site
<1>2. rules' = rules \/ (change.st = "saving" /\ rules' = change.map)
        \/ \E c \in Acts : ask[c].st = "saving" /\ rules' = ask[c].map \cup {Asking!Site(c)}
  BY DEF Asking!Kill
<1>3. rules' \subseteq Sites /\ rules' \subseteq granted \cup Asking!Leaving
  BY <1>1, <1>2 DEF DecidedInv, Asking!TypeOK, RulesPermitted, WritesPermitted, AskRecords
<1>4. \A c \in Acts : /\ ask'[c] \in AskRecords /\ ask'[c].st \in {"idle", "running", "over"}
                      /\ ask'[c].st = "running" => ask'[c] = ask[c]
  BY <1>1 DEF Asking!Kill, AskRecords
<1>5. ask' \in [Acts -> AskRecords]
  BY <1>4 DEF Asking!Kill
<1>6. Asking!TypeOK'
  <2>1. restarts' \in 0 .. MaxRestarts
    BY DEF Asking!AskBeforeActAssumption, Asking!Kill, DecidedInv, Asking!TypeOK
  <2> QED
    BY <1>3, <1>5, <2>1 DEF Asking!Kill, DecidedInv, Asking!TypeOK, AskRecords, Asking!NoChange, Asking!Leaving
<1>7. RulesPermitted'
  BY <1>3 DEF Asking!Kill, RulesPermitted, Asking!Leaving, Asking!NoChange
<1>8. \A c \in Acts : (WritesPermitted(c) /\ RunsPermitted(c))'
  BY <1>4 DEF DecidedInv, WritesPermitted, RunsPermitted, Agreed
<1> QED  BY <1>6, <1>7, <1>8 DEF DecidedInv

-----------------------------------------------------------------------------
(* The theorem.                                                            *)

(* DecidedInv is inductive.                                               *)
LEMMA StepDecided == ASSUME Asking!AskBeforeActAssumption, DecidedInv, [Asking!Next]_(Asking!vars) PROVE DecidedInv'
<1>1. ASSUME NEW c \in Acts,
             Asking!Call(c) \/ Asking!Check(c) \/ Asking!Expires(c) \/ Asking!PersistLoads(c) \/ Asking!PersistSaves(c)
               \/ Asking!Begin(c) \/ \E answer \in Asking!Answers : Asking!Click(c, answer)
      PROVE  DecidedInv'
  BY <1>1, CallKeeps, CheckKeeps, ExpiresKeeps, PersistLoadsKeeps, PersistSavesKeeps, BeginKeeps,
     ClickKeeps
<1>2. CASE Asking!RevokeSaves
  BY <1>2, RevokeSavesKeeps
<1>3. CASE Asking!Kill
  BY <1>3, AskKillKeeps
<1>4. CASE \E of \in SUBSET Sites : Asking!Revoke(of)
  BY <1>4, RevokeKeeps
<1>5. CASE Asking!Restored
  BY <1>5, TakeoverKeeps DEF Asking!Restored, Asking!ruleVars, DecidedInv, Asking!TypeOK
<1>6. ASSUME NEW s \in Sites, NEW on \in BOOLEAN, Asking!TakeOver(s, on)
      PROVE  DecidedInv'
  BY <1>6, TakeoverKeeps DEF Asking!TakeOver, Asking!ruleVars, DecidedInv, Asking!TypeOK
<1>7. CASE UNCHANGED Asking!vars
  BY <1>7, TakeoverKeeps DEF Asking!vars, Asking!ruleVars, Asking!takeoverVars, DecidedInv, Asking!TypeOK
<1> QED
  BY <1>1, <1>2, <1>3, <1>4, <1>5, <1>6, <1>7 DEF Asking!Next

(* A step of the run is one of the gate, or leaves it alone.                *)
LEMMA AskSteps == [MCNext]_mcVars => [Asking!Next]_(Asking!vars)
<1>1. UNCHANGED askVars <=> UNCHANGED Asking!vars
  BY DEF askVars, Asking!vars, Asking!ruleVars, Asking!takeoverVars
<1> QED
  BY <1>1 DEF MCNext, mcVars

(* The user decides (executeAgentTool, resolveDecision): for any sites, calls, *)
(* tiers and restarts no rule is in force that the user has not made or has    *)
(* revoked since, and what runs was allowed for this call, or by a rule of its *)
(* site and is not destructive.  No two changes of the rules overlap in the    *)
(* run: they load and save the whole map.                                   *)
THEOREM UserDecidesThere == MCSpec => []UserDecides
<1>1. MCInit => DecidedInv
  BY InitDecided, PartsAssumption DEF MCInit
<1>2. DecidedInv /\ [MCNext]_mcVars => DecidedInv'
  BY AskSteps, StepDecided, PartsAssumption
<1>3. DecidedInv => UserDecides
  BY DecidedImplies DEF UserDecides
<1> QED
  BY <1>1, <1>2, <1>3, PTL DEF MCSpec

-----------------------------------------------------------------------------
(* The agent loop.  Whatever a run does is one of two things, as far as the  *)
(* properties are concerned: it goes on (Moves) or it is over (Over).  A run  *)
(* that asks its model has a turn left to count.                             *)

InProgress == {"opening", "gate", "lanes", "tool", "model", "plan"}

AgentRecords ==
    [at : {"idle", "over"} \cup InProgress,
     path : {"vision", "quick", "turns"}, use : {"snapshot", "shot", "act"},
     left : 0 .. MaxActs, turns : 0 .. MaxTurns, aborted : BOOLEAN]

RecordOK(x) ==
    /\ x \in AgentRecords
    /\ x.at \in {"idle", "opening"} => x.turns = 0
    /\ x.at = "model" /\ x.path # "vision" => x.turns < MaxTurns

AgentInv ==
    /\ Agent!TypeOK /\ Agent!HandleTrue
    /\ \A r \in Agents : RecordOK(agent[r])

(* A run goes on, and calls no tool and shows no plan when it is stopped.    *)
Moves(r) ==
    \E x \in AgentRecords :
        /\ RecordOK(x) /\ x.at \in InProgress \ {"opening"}
        /\ agent[r].aborted => x.at \in {"gate", "model"}
        /\ Agent!Goes(r, x) /\ Agent!Same

-----------------------------------------------------------------------------
(* What the operators of a run come down to.                                *)

(* The top of the loop asks the model again or ends the run.              *)
LEMMA LoopTopDoes ==
    ASSUME NEW r \in Agents, NEW x, RecordOK(x), x.aborted = agent[r].aborted, Agent!LoopTop(r, x)
    PROVE  Moves(r) \/ Agent!Over(r)
<1>1. SUFFICES ASSUME x.turns < MaxTurns, Agent!Goes(r, [x EXCEPT !.at = "model"]), Agent!Same
               PROVE  Moves(r)
  BY DEF Agent!LoopTop
<1> DEFINE y == [x EXCEPT !.at = "model"]
<1>2. RecordOK(y) /\ y.at = "model"
  BY <1>1 DEF RecordOK, AgentRecords, InProgress
<1> QED
  BY <1>1, <1>2 DEF Moves, RecordOK, InProgress

(* Falling back to the turns starts them afresh, or ends the run.         *)
LEMMA FallBackDoes ==
    ASSUME Agent!AgentRunsAssumption, NEW r \in Agents, RecordOK(agent[r]), Agent!FallBack(r)
    PROVE  Moves(r) \/ Agent!Over(r)
<1> DEFINE x == [agent[r] EXCEPT !.path = "turns", !.left = 0, !.turns = 0]
<1>1. MaxTurns \in Nat /\ MaxActs \in Nat /\ 0 < MaxTurns
  BY DEF Agent!AgentRunsAssumption
<1>2. agent[r] \in AgentRecords
  BY DEF RecordOK
<1>3. x \in AgentRecords /\ x.turns = 0 /\ x.aborted = agent[r].aborted
  <2>1. 0 \in 0 .. MaxTurns /\ 0 \in 0 .. MaxActs
    BY <1>1
  <2> QED
    BY <1>2, <2>1 DEF AgentRecords
<1>4. RecordOK(x)
  BY <1>1, <1>3 DEF RecordOK
<1>5. Agent!LoopTop(r, x)
  BY DEF Agent!FallBack
<1> HIDE DEF x
<1> QED
  BY <1>3, <1>4, <1>5, LoopTopDoes

(* The next call of an answer goes to the gate, unless the run is stopped.*)
LEMMA NextCallDoes ==
    ASSUME Agent!AgentRunsAssumption, NEW r \in Agents, RecordOK(agent[r]),
           NEW x \in AgentRecords, x.left > 0, Agent!NextCall(r, x)
    PROVE  Moves(r) \/ Agent!Over(r)
<1>1. CASE Agent!Over(r)
  BY <1>1
<1>2. CASE Agent!FallBack(r)
  BY <1>2, FallBackDoes
<1>3. ASSUME ~agent[r].aborted, NEW there \in {"gate", "plan"}, NEW use \in {"act", x.use},
             Agent!Goes(r, [x EXCEPT !.at = there, !.use = use, !.left = @ - 1]), Agent!Same
      PROVE  Moves(r)
  <2> DEFINE y == [x EXCEPT !.at = there, !.use = use, !.left = @ - 1]
  <2>1. x.left - 1 \in 0 .. MaxActs
    BY DEF Agent!AgentRunsAssumption, AgentRecords
  <2>2. y \in AgentRecords /\ y.at = there
    BY <2>1 DEF AgentRecords, InProgress
  <2> QED
    BY <1>3, <2>2 DEF Moves, RecordOK, InProgress
<1>4. CASE ~agent[r].aborted /\ Agent!Goes(r, [x EXCEPT !.at = "gate", !.use = "act", !.left = @ - 1]) /\ Agent!Same
  BY <1>3, <1>4
<1>5. CASE ~agent[r].aborted /\ Agent!Goes(r, [x EXCEPT !.at = "plan", !.left = @ - 1]) /\ Agent!Same
  <2>1. [x EXCEPT !.at = "plan", !.left = @ - 1] = [x EXCEPT !.at = "plan", !.use = x.use, !.left = @ - 1]
    BY DEF AgentRecords
  <2> QED
    BY <1>3, <1>5, <2>1
<1> QED
  BY <1>1, <1>2, <1>4, <1>5 DEF Agent!NextCall, Agent!Stops

(* The run looks at the page.                                              *)
LEMMA ShotDoes ==
    ASSUME NEW r \in Agents, RecordOK(agent[r]), Agent!Goes(r, [agent[r] EXCEPT !.at = "gate", !.use = "shot"]), Agent!Same
    PROVE  Moves(r)
<1> DEFINE y == [agent[r] EXCEPT !.at = "gate", !.use = "shot"]
<1>1. RecordOK(y) /\ y.at = "gate"
  BY DEF RecordOK, AgentRecords, InProgress
<1> QED
  BY <1>1 DEF Moves, RecordOK, InProgress

(* After a tool the run goes on to its next call or its model, or is over.*)
LEMMA ContinueDoes ==
    ASSUME Agent!AgentRunsAssumption, NEW r \in Agents, RecordOK(agent[r]), NEW ok \in BOOLEAN, Agent!Continue(r, ok)
    PROVE  Moves(r) \/ Agent!Over(r)
<1>1. CASE Agent!Goes(r, [agent[r] EXCEPT !.at = "gate", !.use = "shot"]) /\ Agent!Same
  BY <1>1, ShotDoes
<1>2. CASE agent[r].path = "vision" /\ Agent!Goes(r, [agent[r] EXCEPT !.at = "model"]) /\ Agent!Same
  <2> DEFINE y == [agent[r] EXCEPT !.at = "model"]
  <2>1. RecordOK(y) /\ y.at = "model"
    BY <1>2 DEF RecordOK, AgentRecords, InProgress
  <2> QED
    BY <1>2, <2>1 DEF Moves, RecordOK, InProgress
<1>3. CASE Agent!LoopTop(r, agent[r])
  BY <1>3, LoopTopDoes
<1>4. CASE Agent!FallBack(r)
  BY <1>4, FallBackDoes
<1>5. CASE agent[r].left > 0 /\ Agent!NextCall(r, agent[r])
  BY <1>5, NextCallDoes DEF RecordOK
<1>6. CASE Agent!Over(r)
  BY <1>6
<1> QED
  BY <1>1, <1>2, <1>3, <1>4, <1>5, <1>6 DEF Agent!Continue

-----------------------------------------------------------------------------
(* The two things a run does keep the invariant.                            *)

(* What the handle and the locks depend on is who is in progress, and who has *)
(* started: a step that changes neither keeps what is said of them.         *)
LEMMA SameProgress ==
    ASSUME AgentInv, NEW r \in Agents, NEW x \in AgentRecords, RecordOK(x), Agent!Goes(r, x), Agent!Same,
           x.at \in InProgress <=> agent[r].at \in InProgress,
           x.at \in {"idle", "opening", "over"} <=> agent[r].at \in {"idle", "opening", "over"}
    PROVE  AgentInv'
<1>1. agent' \in [Agents -> AgentRecords] /\ \A q \in Agents : RecordOK(agent[q])'
  BY DEF AgentInv, Agent!TypeOK, Agent!Goes, AgentRecords, RecordOK, InProgress
<1>2. Agent!TypeOK'
  BY <1>1 DEF AgentInv, Agent!TypeOK, Agent!Same, AgentRecords, InProgress
<1>3. \A q \in Agents : /\ agent'[q].at \in {"idle", "over"} <=> agent[q].at \in {"idle", "over"}
                        /\ Agent!Started(q)' <=> Agent!Started(q)
  <2> TAKE q \in Agents
  <2>1. agent[q] \in AgentRecords /\ agent'[q] = IF q = r THEN x ELSE agent[q]
    BY DEF AgentInv, Agent!TypeOK, Agent!Goes, AgentRecords, InProgress
  <2> QED
    BY <2>1 DEF Agent!Started, AgentRecords, InProgress
<1>4. Agent!HandleTrue'
  <2>1. newest # NoAgent => newest \in Agents
    BY DEF AgentInv, Agent!TypeOK
  <2>2. locks' = {PanelOf[q] : q \in {p \in Agents \ Scheduled : agent'[p].at \notin {"idle", "over"}}}
    BY <1>3 DEF AgentInv, Agent!HandleTrue, Agent!Same
  <2>3. active' = IF newest' # NoAgent /\ Agent!Started(newest)' THEN newest' ELSE NoAgent
    BY <1>3, <2>1 DEF AgentInv, Agent!HandleTrue, Agent!Same
  <2>4. \A p, q \in Agents \ Scheduled :
          agent'[p].at \notin {"idle", "over"} /\ agent'[q].at \notin {"idle", "over"} /\ PanelOf[p] = PanelOf[q]
            => p = q
    BY <1>3 DEF AgentInv, Agent!HandleTrue
  <2> QED
    BY <2>2, <2>3, <2>4 DEF Agent!HandleTrue, Agent!Started, Agent!Same
<1> QED
  BY <1>1, <1>2, <1>4 DEF AgentInv

(* A run that goes on keeps the invariant.                                *)
LEMMA MovesKeeps ==
    ASSUME AgentInv, NEW r \in Agents, agent[r].at \in InProgress \ {"opening"}, Moves(r)
    PROVE  AgentInv'
<1>1. PICK x \in AgentRecords : RecordOK(x) /\ x.at \in InProgress \ {"opening"} /\ Agent!Goes(r, x) /\ Agent!Same
  BY DEF Moves
<1>2. /\ x.at \in InProgress /\ agent[r].at \in InProgress
      /\ x.at \notin {"idle", "opening", "over"} /\ agent[r].at \notin {"idle", "opening", "over"}
  BY <1>1 DEF InProgress
<1> QED
  BY <1>1, <1>2, SameProgress

(* The run that is over was the only one of its panel, and only its own       *)
(* handle goes with it.                                                     *)
LEMMA OverKeeps ==
    ASSUME Agent!AgentRunsAssumption, AgentInv, NEW r \in Agents, agent[r].at \in InProgress, Agent!Over(r)
    PROVE  AgentInv'
<1> DEFINE x == [Agent!NewRun(r) EXCEPT !.at = "over", !.aborted = agent[r].aborted]
<1>1. x \in AgentRecords /\ RecordOK(x) /\ x.at = "over"
  <2>1. 0 \in 0 .. MaxTurns /\ 0 \in 0 .. MaxActs
    BY DEF Agent!AgentRunsAssumption
  <2>2. agent[r].aborted \in BOOLEAN /\ Path[r] \in {"vision", "quick", "turns"}
    BY DEF Agent!AgentRunsAssumption, AgentInv, RecordOK, AgentRecords
  <2>3. x \in AgentRecords /\ x.at = "over"
    BY <2>1, <2>2 DEF Agent!NewRun, AgentRecords
  <2> QED
    BY <2>3 DEF RecordOK
<1>2. /\ agent' = [agent EXCEPT ![r] = x] /\ active' = Agent!Unhandled(r) /\ newest' = newest
      /\ locks' = IF r \in Scheduled THEN locks ELSE locks \ {PanelOf[r]}
  BY DEF Agent!Over, Agent!Goes
<1> HIDE DEF x
<1>3. \A q \in Agents : agent'[q] = IF q = r THEN x ELSE agent[q]
  BY <1>2 DEF AgentInv, Agent!TypeOK
<1>4. agent' \in [Agents -> AgentRecords] /\ \A q \in Agents : RecordOK(agent[q])'
  BY <1>1, <1>2, <1>3 DEF AgentInv, Agent!TypeOK, AgentRecords, RecordOK, InProgress
<1>5. Agent!TypeOK'
  BY <1>2, <1>4 DEF AgentInv, Agent!TypeOK, Agent!Unhandled, AgentRecords, InProgress
<1>6. \A p, q \in Agents \ Scheduled :
          agent'[p].at \notin {"idle", "over"} /\ agent'[q].at \notin {"idle", "over"} /\ PanelOf[p] = PanelOf[q]
            => p = q
  BY <1>1, <1>3 DEF AgentInv, Agent!HandleTrue
<1>7. locks' = {PanelOf[q] : q \in {p \in Agents \ Scheduled : agent'[p].at \notin {"idle", "over"}}}
  <2>1. CASE r \in Scheduled
    BY <1>1, <1>2, <1>3, <2>1 DEF AgentInv, Agent!HandleTrue
  <2>2. CASE r \notin Scheduled
    <3>1. agent[r].at \notin {"idle", "over"}
      BY DEF InProgress
    <3>2. \A q \in Agents \ Scheduled :
            agent'[q].at \notin {"idle", "over"}
              <=> agent[q].at \notin {"idle", "over"} /\ PanelOf[q] # PanelOf[r]
      BY <1>1, <1>3, <2>2, <3>1 DEF AgentInv, Agent!HandleTrue
    <3> QED
      BY <1>2, <2>2, <3>2 DEF AgentInv, Agent!HandleTrue
  <2> QED  BY <2>1, <2>2
<1>8. active' = IF newest' # NoAgent /\ Agent!Started(newest)' THEN newest' ELSE NoAgent
  <2>1. newest # NoAgent => newest \in Agents
    BY DEF AgentInv, Agent!TypeOK
  <2>2. r # NoAgent
    BY DEF Agent!AgentRunsAssumption
  <2>3. active = IF newest # NoAgent /\ Agent!Started(newest) THEN newest ELSE NoAgent
    BY DEF AgentInv, Agent!HandleTrue
  <2>4. CASE newest = r
    BY <1>1, <1>2, <1>3, <2>2, <2>3, <2>4 DEF Agent!Unhandled, Agent!Started
  <2>5. CASE newest # r
    <3>1. newest # NoAgent => agent'[newest] = agent[newest]
      BY <1>3, <2>1, <2>5
    <3>2. active' = active /\ newest' = newest
      BY <1>2, <2>2, <2>3, <2>5 DEF Agent!Unhandled
    <3> QED
      BY <2>3, <3>1, <3>2 DEF Agent!Started
  <2> QED  BY <2>4, <2>5
<1> QED
  BY <1>4, <1>5, <1>6, <1>7, <1>8 DEF AgentInv, Agent!HandleTrue, Agent!Started

-----------------------------------------------------------------------------
(* The actions.                                                            *)

(* The steps of a run that has its handle.                                  *)
AgentStep(r) ==
    \/ Agent!Passes(r) \/ Agent!Granted(r) \/ Agent!CallFails(r) \/ Agent!ToolEnds(r)
    \/ Agent!ModelAnswers(r) \/ Agent!ModelFails(r) \/ Agent!PlanApproved(r) \/ Agent!PlanRejected(r)

(* Every step of a run that has its handle is one of the two.             *)
LEMMA AgentStepDoes ==
    ASSUME Agent!AgentRunsAssumption, NEW r \in Agents, RecordOK(agent[r]), AgentStep(r)
    PROVE  /\ agent[r].at \in InProgress \ {"opening"}
           /\ Moves(r) \/ Agent!Over(r)
<1>1. agent[r].at \in InProgress \ {"opening"}
  BY DEF AgentStep, Agent!Passes, Agent!Granted, Agent!CallFails, Agent!ToolEnds, Agent!ModelAnswers, Agent!ModelFails,
         Agent!PlanApproved,
         Agent!PlanRejected, InProgress
<1> SUFFICES Moves(r) \/ Agent!Over(r)
  BY <1>1
<1>2. ASSUME NEW there \in {"lanes", "tool"}, ~agent[r].aborted, Agent!Goes(r, [agent[r] EXCEPT !.at = there]), Agent!Same
      PROVE  Moves(r)
  <2> DEFINE y == [agent[r] EXCEPT !.at = there]
  <2>1. RecordOK(y) /\ y.at = there
    BY DEF RecordOK, AgentRecords, InProgress
  <2> QED
    BY <1>2, <2>1 DEF Moves, RecordOK, InProgress
<1>3. CASE Agent!Passes(r) \/ Agent!Granted(r)
  BY <1>2, <1>3 DEF Agent!Passes, Agent!Granted, Agent!Refused
<1>4. CASE Agent!CallFails(r) \/ Agent!ToolEnds(r)
  BY <1>4, ContinueDoes DEF Agent!CallFails, Agent!ToolEnds
<1>5. ASSUME agent[r].at = "model", NEW n \in 1 .. MaxActs, Agent!NextCall(r, Agent!Answered(r, n))
      PROVE  Moves(r) \/ Agent!Over(r)
  <2> DEFINE x == Agent!Answered(r, n)
  <2>1. agent[r] \in AgentRecords /\ n \in 0 .. MaxActs /\ n > 0 /\ agent[r].turns \in 0 .. MaxTurns
    BY <1>5 DEF Agent!AgentRunsAssumption, RecordOK, AgentRecords
  <2>2. agent[r].path # "vision" => agent[r].turns + 1 \in 0 .. MaxTurns
    BY <1>5, <2>1 DEF Agent!AgentRunsAssumption, RecordOK
  <2>3. x \in AgentRecords /\ x.left = n
    BY <2>1, <2>2 DEF Agent!Answered, AgentRecords
  <2> HIDE DEF x
  <2> QED
    BY <1>5, <2>1, <2>3, NextCallDoes DEF x
<1>6. CASE Agent!ModelAnswers(r)
  BY <1>5, <1>6, FallBackDoes DEF Agent!ModelAnswers
<1>7. CASE Agent!ModelFails(r)
  BY <1>7, FallBackDoes DEF Agent!ModelFails
<1>8. CASE Agent!PlanApproved(r)
  BY <1>8, NextCallDoes, ShotDoes, LoopTopDoes DEF Agent!PlanApproved, RecordOK
<1>9. CASE Agent!PlanRejected(r)
  BY <1>9 DEF Agent!PlanRejected
<1> QED
  BY <1>1, <1>3, <1>4, <1>6, <1>7, <1>8, <1>9 DEF AgentStep

(* A panel that has no lock has no run in progress.                         *)
LEMMA ChatKeeps == ASSUME AgentInv, NEW r \in Agents, Agent!Chat(r) PROVE AgentInv'
<1> DEFINE x == [agent[r] EXCEPT !.at = "opening"]
<1>1. x \in AgentRecords /\ RecordOK(x) /\ x.at = "opening" /\ agent[r].at = "idle"
  BY DEF Agent!Chat, AgentInv, RecordOK, AgentRecords, InProgress
<1>2. /\ agent' = [agent EXCEPT ![r] = x] /\ r \notin Scheduled /\ PanelOf[r] \notin locks
      /\ locks' = locks \cup {PanelOf[r]} /\ active' = active /\ newest' = newest
  BY DEF Agent!Chat, Agent!Goes
<1> HIDE DEF x
<1>3. \A q \in Agents : agent'[q] = IF q = r THEN x ELSE agent[q]
  BY <1>2 DEF AgentInv, Agent!TypeOK
<1>4. agent' \in [Agents -> AgentRecords] /\ \A q \in Agents : RecordOK(agent[q])'
  BY <1>1, <1>2, <1>3 DEF AgentInv, Agent!TypeOK, AgentRecords, RecordOK, InProgress
<1>5. Agent!TypeOK'
  BY <1>2, <1>4 DEF AgentInv, Agent!TypeOK, AgentRecords, InProgress
<1>6. \A q \in Agents \ Scheduled : agent[q].at \notin {"idle", "over"} => PanelOf[q] # PanelOf[r]
  BY <1>2 DEF AgentInv, Agent!HandleTrue
<1>7. \A p, q \in Agents \ Scheduled :
          agent'[p].at \notin {"idle", "over"} /\ agent'[q].at \notin {"idle", "over"} /\ PanelOf[p] = PanelOf[q]
            => p = q
  BY <1>1, <1>3, <1>6 DEF AgentInv, Agent!HandleTrue
<1>8. locks' = {PanelOf[q] : q \in {p \in Agents \ Scheduled : agent'[p].at \notin {"idle", "over"}}}
  <2>1. \A q \in Agents \ Scheduled :
          agent'[q].at \notin {"idle", "over"} <=> q = r \/ agent[q].at \notin {"idle", "over"}
    BY <1>1, <1>3
  <2> QED
    BY <1>2, <2>1 DEF AgentInv, Agent!HandleTrue
<1>9. active' = IF newest' # NoAgent /\ Agent!Started(newest)' THEN newest' ELSE NoAgent
  BY <1>1, <1>2, <1>3 DEF AgentInv, Agent!HandleTrue, Agent!TypeOK, Agent!Started
<1> QED
  BY <1>4, <1>5, <1>7, <1>8, <1>9 DEF AgentInv, Agent!HandleTrue, Agent!Started

(* A run of a schedule takes no lock, whoever else is in progress.           *)
LEMMA ScheduleKeeps == ASSUME AgentInv, NEW r \in Agents, Agent!Schedule(r) PROVE AgentInv'
<1> DEFINE x == [agent[r] EXCEPT !.at = "opening"]
<1>1. x \in AgentRecords /\ RecordOK(x) /\ x.at = "opening" /\ agent[r].at = "idle"
  BY DEF Agent!Schedule, AgentInv, RecordOK, AgentRecords, InProgress
<1>2. agent' = [agent EXCEPT ![r] = x] /\ r \in Scheduled /\ Agent!Same
  BY DEF Agent!Schedule, Agent!Goes
<1> HIDE DEF x
<1>3. \A q \in Agents : agent'[q] = IF q = r THEN x ELSE agent[q]
  BY <1>2 DEF AgentInv, Agent!TypeOK
<1>4. agent' \in [Agents -> AgentRecords] /\ \A q \in Agents : RecordOK(agent[q])'
  BY <1>1, <1>2, <1>3 DEF AgentInv, Agent!TypeOK, AgentRecords, RecordOK, InProgress
<1>5. Agent!TypeOK'
  BY <1>2, <1>4 DEF AgentInv, Agent!TypeOK, Agent!Same, AgentRecords, InProgress
<1>6. \A q \in Agents \ Scheduled : agent'[q] = agent[q]
  BY <1>2, <1>3
<1>7. locks' = {PanelOf[q] : q \in {p \in Agents \ Scheduled : agent'[p].at \notin {"idle", "over"}}}
  BY <1>2, <1>6 DEF AgentInv, Agent!HandleTrue, Agent!Same
<1>8. active' = IF newest' # NoAgent /\ Agent!Started(newest)' THEN newest' ELSE NoAgent
  BY <1>1, <1>2, <1>3 DEF AgentInv, Agent!HandleTrue, Agent!TypeOK, Agent!Started, Agent!Same
<1> QED
  BY <1>4, <1>5, <1>6, <1>7, <1>8 DEF AgentInv, Agent!HandleTrue, Agent!Started

(* The run that gets its handle is the newest one.                          *)
LEMMA OpenKeeps == ASSUME Agent!AgentRunsAssumption, AgentInv, NEW r \in Agents, Agent!Open(r) PROVE AgentInv'
<1>1. PICK x \in AgentRecords :
        /\ RecordOK(x) /\ x.at \in {"gate", "model"} /\ agent[r].at = "opening"
        /\ agent' = [agent EXCEPT ![r] = x] /\ active' = r /\ newest' = r /\ locks' = locks
  <2>1. agent[r] \in AgentRecords /\ agent[r].at = "opening"
    BY DEF Agent!Open, AgentInv, RecordOK
  <2>2. ASSUME NEW use \in {"snapshot", "shot"}
        PROVE  RecordOK([agent[r] EXCEPT !.at = "gate", !.use = use])
    BY <2>1 DEF RecordOK, AgentRecords, InProgress
  <2>3. agent[r].path = "turns" => RecordOK([agent[r] EXCEPT !.at = "model"])
    <3>1. agent[r].turns < MaxTurns
      BY <2>1 DEF AgentInv, RecordOK, Agent!AgentRunsAssumption
    <3> QED
      BY <2>1, <3>1 DEF RecordOK, AgentRecords, InProgress
  <2> QED
    BY <2>1, <2>2, <2>3 DEF Agent!Open, Agent!Goes, RecordOK, AgentRecords, InProgress
<1>2. r \in Agents /\ r # NoAgent /\ \A q \in Agents : agent'[q] = IF q = r THEN x ELSE agent[q]
  BY <1>1 DEF Agent!AgentRunsAssumption, AgentInv, Agent!TypeOK
<1>3. agent' \in [Agents -> AgentRecords] /\ \A q \in Agents : RecordOK(agent[q])'
  BY <1>1, <1>2 DEF AgentInv, Agent!TypeOK, AgentRecords, RecordOK, InProgress
<1>4. Agent!TypeOK'
  BY <1>1, <1>3 DEF AgentInv, Agent!TypeOK, AgentRecords, InProgress
<1>5. \A q \in Agents : agent'[q].at \in {"idle", "over"} <=> agent[q].at \in {"idle", "over"}
  BY <1>1, <1>2
<1>6. /\ \A p, q \in Agents \ Scheduled :
            agent'[p].at \notin {"idle", "over"} /\ agent'[q].at \notin {"idle", "over"} /\ PanelOf[p] = PanelOf[q]
              => p = q
      /\ locks' = {PanelOf[q] : q \in {p \in Agents \ Scheduled : agent'[p].at \notin {"idle", "over"}}}
  BY <1>1, <1>5 DEF AgentInv, Agent!HandleTrue
<1>7. active' = IF newest' # NoAgent /\ Agent!Started(newest)' THEN newest' ELSE NoAgent
  BY <1>1, <1>2 DEF Agent!Started
<1> QED
  BY <1>3, <1>4, <1>6, <1>7 DEF AgentInv, Agent!HandleTrue, Agent!Started

(* A stop changes the signal of the run, nothing else.                       *)
LEMMA StopKeeps == ASSUME AgentInv, Agent!Stop PROVE AgentInv'
<1> DEFINE x == [agent[active] EXCEPT !.aborted = TRUE]
<1>1. active \in Agents /\ agent[active] \in AgentRecords /\ RecordOK(agent[active])
  BY DEF Agent!Stop, AgentInv, Agent!TypeOK, RecordOK
<1>2. x \in AgentRecords /\ RecordOK(x) /\ x.at = agent[active].at /\ Agent!Goes(active, x) /\ Agent!Same
  BY <1>1 DEF Agent!Stop, RecordOK, AgentRecords
<1> HIDE DEF x
<1> QED
  BY <1>1, <1>2, SameProgress

(* The end of the worker ends all runs, locks and the handle.             *)
LEMMA AgentKillKeeps == ASSUME Agent!AgentRunsAssumption, AgentInv, Agent!Kill PROVE AgentInv'
<1>1. ASSUME NEW r \in Agents
      PROVE  /\ agent'[r] \in AgentRecords /\ RecordOK(agent'[r]) /\ agent'[r].at \in {"idle", "over"}
  <2>1. 0 \in 0 .. MaxTurns /\ 0 \in 0 .. MaxActs /\ Path[r] \in {"vision", "quick", "turns"}
    BY DEF Agent!AgentRunsAssumption
  <2>2. [Agent!NewRun(r) EXCEPT !.at = "over"] \in AgentRecords
    BY <2>1 DEF Agent!NewRun, AgentRecords
  <2>3. agent'[r] = IF agent[r].at = "idle" THEN agent[r] ELSE [Agent!NewRun(r) EXCEPT !.at = "over"]
    BY DEF Agent!Kill
  <2>4. CASE agent[r].at = "idle"
    BY <2>3, <2>4 DEF AgentInv, RecordOK
  <2>5. CASE agent[r].at # "idle"
    <3>1. agent'[r] = [Agent!NewRun(r) EXCEPT !.at = "over"] /\ agent'[r].at = "over"
      BY <2>3, <2>5 DEF Agent!NewRun
    <3> QED
      BY <2>2, <3>1 DEF RecordOK
  <2> QED  BY <2>4, <2>5
<1>2. agent' \in [Agents -> AgentRecords]
  BY <1>1 DEF Agent!Kill
<1>3. Agent!TypeOK'
  BY <1>2 DEF Agent!Kill, Agent!TypeOK, AgentRecords, InProgress
<1>4. Agent!HandleTrue'
  BY <1>1 DEF Agent!Kill, Agent!HandleTrue, Agent!Started
<1> QED
  BY <1>1, <1>3, <1>4 DEF AgentInv

(* No run has begun, and there is no handle.                              *)
LEMMA InitAgent == ASSUME Agent!AgentRunsAssumption, Agent!Init PROVE AgentInv
<1>1. ASSUME NEW r \in Agents
      PROVE  agent[r] \in AgentRecords /\ RecordOK(agent[r]) /\ agent[r].at = "idle"
  <2>1. 0 \in 0 .. MaxTurns /\ 0 \in 0 .. MaxActs /\ Path[r] \in {"vision", "quick", "turns"}
    BY DEF Agent!AgentRunsAssumption
  <2>2. agent[r] = Agent!NewRun(r)
    BY DEF Agent!Init
  <2>3. agent[r] \in AgentRecords /\ agent[r].at = "idle" /\ agent[r].turns = 0
    BY <2>1, <2>2 DEF Agent!NewRun, AgentRecords
  <2> QED
    BY <2>3 DEF RecordOK
<1>2. agent \in [Agents -> AgentRecords]
  BY <1>1 DEF Agent!Init
<1>3. Agent!TypeOK
  BY <1>2 DEF Agent!Init, Agent!TypeOK, AgentRecords, InProgress
<1>4. Agent!HandleTrue
  BY <1>1 DEF Agent!Init, Agent!HandleTrue, Agent!Started
<1> QED
  BY <1>1, <1>3, <1>4 DEF AgentInv

(* AgentInv is inductive.                                                 *)
LEMMA StepAgent == ASSUME Agent!AgentRunsAssumption, AgentInv, [Agent!Next]_(Agent!vars) PROVE AgentInv'
<1>1. ASSUME NEW r \in Agents, Agent!Chat(r) \/ Agent!Schedule(r) \/ Agent!Open(r) \/ Agent!OpenFails(r)
      PROVE  AgentInv'
  <2>1. CASE Agent!OpenFails(r)
    BY <2>1, OverKeeps DEF Agent!OpenFails, InProgress
  <2> QED
    BY <1>1, <2>1, ChatKeeps, ScheduleKeeps, OpenKeeps
<1>2. CASE Agent!Stop
  BY <1>2, StopKeeps
<1>3. ASSUME NEW r \in Agents, AgentStep(r)
      PROVE  AgentInv'
  <2>1. agent[r].at \in InProgress \ {"opening"} /\ (Moves(r) \/ Agent!Over(r))
    BY <1>3, AgentStepDoes DEF AgentInv
  <2> QED
    BY <2>1, MovesKeeps, OverKeeps
<1>4. CASE Agent!Kill
  BY <1>4, AgentKillKeeps
<1>5. CASE UNCHANGED Agent!vars
  BY <1>5 DEF Agent!vars, AgentInv, Agent!TypeOK, Agent!HandleTrue, RecordOK, Agent!Started
<1> QED
  BY <1>1, <1>2, <1>3, <1>4, <1>5 DEF Agent!Next, AgentStep, Agent!AllOver

-----------------------------------------------------------------------------
(* The theorems.                                                           *)

(* A step of the run is one of the agent loop, or leaves it alone.          *)
LEMMA AgentSteps == [MCNext]_mcVars => [Agent!Next]_(Agent!vars)
BY DEF MCNext, mcVars, agentVars, Agent!vars

(* The handle is true (_startAgentRun, _endAgentRunHandle, _agentRunLocks):   *)
(* for any runs and panels a panel is locked exactly by the one run in        *)
(* progress on it, and what a stop reaches is the newest run as long as that  *)
(* goes on, and nothing that is over.                                       *)
THEOREM HandleTrueThere == MCSpec => []HandleTrue
<1>1. MCInit => AgentInv
  BY InitAgent, PartsAssumption DEF MCInit
<1>2. AgentInv /\ [MCNext]_mcVars => AgentInv'
  BY AgentSteps, StepAgent, PartsAssumption
<1>3. AgentInv => HandleTrue
  BY DEF AgentInv, HandleTrue
<1> QED
  BY <1>1, <1>2, <1>3, PTL DEF MCSpec

(* What a step of a run that was stopped may be.                            *)
LEMMA StepObeys == ASSUME Agent!AgentRunsAssumption, AgentInv, [Agent!Next]_(Agent!vars) PROVE Agent!ActsNoMore
<1> SUFFICES ASSUME NEW r \in Agents, agent[r].aborted, agent'[r].at \in {"lanes", "tool", "plan"}
             PROVE  agent'[r].at = agent[r].at
  BY DEF Agent!ActsNoMore
<1>1. \A q \in Agents : RecordOK(agent[q]) /\ agent \in [Agents -> AgentRecords]
  BY DEF AgentInv, Agent!TypeOK, AgentRecords, InProgress
<1>2. ASSUME NEW q \in Agents, NEW x, Agent!Goes(q, x), q = r => x.at \notin {"lanes", "tool", "plan"}
      PROVE  agent'[r].at = agent[r].at
  BY <1>1, <1>2 DEF Agent!Goes
<1>3. ASSUME NEW q \in Agents, Agent!Over(q)
      PROVE  agent'[r].at = agent[r].at
  BY <1>2, <1>3 DEF Agent!Over, Agent!NewRun
<1>4. ASSUME NEW q \in Agents, Moves(q)
      PROVE  agent'[r].at = agent[r].at
  BY <1>2, <1>4 DEF Moves
<1>5. ASSUME NEW q \in Agents, Agent!Chat(q) \/ Agent!Schedule(q) \/ Agent!Open(q) \/ Agent!OpenFails(q)
      PROVE  agent'[r].at = agent[r].at
  <2>1. agent[q] \in AgentRecords
    BY <1>1
  <2>2. CASE Agent!Chat(q) \/ Agent!Schedule(q)
    BY <1>2, <2>1, <2>2 DEF Agent!Chat, Agent!Schedule, AgentRecords
  <2>3. CASE Agent!Open(q)
    <3>1. /\ [agent[q] EXCEPT !.at = "gate", !.use = "snapshot"].at = "gate"
          /\ [agent[q] EXCEPT !.at = "gate", !.use = "shot"].at = "gate"
          /\ [agent[q] EXCEPT !.at = "model"].at = "model"
          /\ agent[q].path \in {"vision", "quick", "turns"}
      BY <2>1 DEF AgentRecords
    <3>2. \/ Agent!Goes(q, [agent[q] EXCEPT !.at = "gate", !.use = "snapshot"])
          \/ Agent!Goes(q, [agent[q] EXCEPT !.at = "gate", !.use = "shot"])
          \/ Agent!Goes(q, [agent[q] EXCEPT !.at = "model"])
      BY <2>3, <3>1 DEF Agent!Open
    <3> QED
      BY <1>2, <3>1, <3>2
  <2>4. CASE Agent!OpenFails(q)
    BY <1>3, <2>4 DEF Agent!OpenFails
  <2> QED
    BY <1>5, <2>2, <2>3, <2>4
<1>6. CASE Agent!Stop
  <2>1. active \in Agents /\ Agent!Goes(active, [agent[active] EXCEPT !.aborted = TRUE])
    BY <1>6 DEF Agent!Stop, AgentInv, Agent!TypeOK
  <2> QED
    BY <1>1, <2>1 DEF Agent!Goes, AgentRecords
<1>7. ASSUME NEW q \in Agents, AgentStep(q)
      PROVE  agent'[r].at = agent[r].at
  <2>1. Moves(q) \/ Agent!Over(q)
    BY <1>1, <1>7, AgentStepDoes
  <2> QED
    BY <1>3, <1>4, <2>1
<1>8. CASE Agent!Kill
  BY <1>8 DEF Agent!Kill, Agent!NewRun
<1>9. CASE UNCHANGED Agent!vars
  BY <1>9 DEF Agent!vars
<1> QED
  BY <1>5, <1>6, <1>7, <1>8, <1>9 DEF Agent!Next, AgentStep, Agent!AllOver

-----------------------------------------------------------------------------
(* The chat requests at the bridge.                                        *)

(* A message of the extension, one of the server, and where a request is.    *)
UpMessages ==
    [type : {"request", "abort"}, id : Chat!Ids, req : Twins, kind : Kinds \cup {"none"}, conn : Nat]

DownMessages == [id : Chat!Ids, req : Twins, ide : BOOLEAN]

Asks(i, r) == up[i].type = "request" /\ up[i].req = r
Taken(r) == job[r].at # "none"

(* The types, and the bounds of the connections.                            *)
ChatTypes ==
    /\ Chat!TypeOK
    /\ up \in Seq(UpMessages) /\ down \in Seq(DownMessages)
    /\ counter \in Nat /\ conn \in Nat /\ open \in BOOLEAN
    /\ drops \in 0 .. MaxDrops /\ chatKills \in 0 .. MaxKills
    /\ conn + (IF open THEN 0 ELSE 1) <= drops + chatKills + 1

(* A request, its id and its job.                                           *)
RequestOK(r) ==
    /\ req[r].by \in {r, NoRun}
    /\ req[r].st = "new" => req[r].id = 0 /\ ~Taken(r)
    /\ req[r].st # "new" => req[r].id \in Chat!Ids
    /\ Taken(r) => job[r].id = req[r].id /\ job[r].kind \in Kinds /\ job[r].conn <= conn
    /\ job[r].at = "queue" \/ r \in queue => job[r].kind = "ide" /\ Taken(r)

(* A message on its way to the server: a request is on its way once, and has  *)
(* no job yet; what is stopped there was stopped here.                       *)
UpMessageOK(i) ==
    /\ up[i].id = req[up[i].req].id /\ up[i].conn <= conn
    /\ up[i].type = "abort" => req[up[i].req].st = "stopped"
    /\ up[i].type = "request" =>
         /\ ~Taken(up[i].req) /\ up[i].kind \in Kinds
         /\ \A k \in DOMAIN up : Asks(k, up[i].req) => k = i

UpOK == \A i \in DOMAIN up : UpMessageOK(i)

(* The request was made over the connection that is open.                   *)
OfConn(r) ==
    \/ Taken(r) /\ job[r].conn = conn
    \/ \E i \in DOMAIN up : Asks(i, r) /\ up[i].conn = conn

(* An answer on its way is one of this connection.                          *)
DownOK ==
    \A i \in DOMAIN down :
        LET r == down[i].req
        IN  open /\ down[i].id = req[r].id /\ Taken(r) /\ job[r].conn = conn

(* What counts as stopped was stopped by the user.                          *)
AbortedOK == \A n \in dead : \E q \in Twins : req[q].id = n /\ req[q].st = "stopped"

(* Ids of one connection differ, and those of one worker do.                 *)
IdsOK ==
    /\ counter <= Cardinality({r \in Twins : req[r].st # "new"})
    /\ open => \A r \in Twins : OfConn(r) =>
         req[r].id <= counter /\ \A q \in Twins : OfConn(q) /\ req[q].id = req[r].id => q = r
    /\ chatKills = 0 => \A r \in Twins : req[r].st # "new" =>
         req[r].id <= counter /\ \A q \in Twins : req[q].id = req[r].id => q = r

(* A request that waits is at one of these places, or taken for a stopped one.*)
WaitingOK(r) ==
    Chat!Waiting(r) =>
      /\ open /\ OfConn(r)
      /\ \/ \E i \in DOMAIN up : Asks(i, r)
         \/ Chat!Working(r)
         \/ \E i \in DOMAIN down : down[i].id = req[r].id
         \/ Chat!Haunted(r)

ChatInv ==
    /\ ChatTypes
    /\ \A r \in Twins : RequestOK(r) /\ WaitingOK(r)
    /\ UpOK /\ DownOK /\ AbortedOK /\ IdsOK /\ Chat!CliKnown

-----------------------------------------------------------------------------
(* Sequences of messages.                                                   *)

(* A message that is sent.                                                  *)
LEMMA Sent ==
    ASSUME NEW S, NEW s \in Seq(S), NEW e \in S
    PROVE  /\ Append(s, e) \in Seq(S)
           /\ DOMAIN s = 1 .. Len(s) /\ Len(s) \in Nat /\ DOMAIN Append(s, e) = 1 .. Len(s) + 1
           /\ \A i \in DOMAIN s : i \in DOMAIN Append(s, e) /\ Append(s, e)[i] = s[i]
           /\ Append(s, e)[Len(s) + 1] = e
           /\ \A i \in DOMAIN Append(s, e) : i \in DOMAIN s \/ i = Len(s) + 1
OBVIOUS

(* A message that is taken.                                                 *)
LEMMA TakenFrom ==
    ASSUME NEW S, NEW s \in Seq(S), s # << >>
    PROVE  /\ Tail(s) \in Seq(S) /\ 1 \in DOMAIN s /\ Head(s) = s[1] /\ Head(s) \in S
           /\ \A i \in DOMAIN Tail(s) : i + 1 \in DOMAIN s /\ Tail(s)[i] = s[i + 1] /\ i \in Nat
           /\ \A i \in DOMAIN s : i = 1 \/ (i - 1 \in DOMAIN Tail(s) /\ Tail(s)[i - 1] = s[i])
<1>1. Len(s) \in Nat /\ DOMAIN s = 1 .. Len(s) /\ Len(s) # 0
  OBVIOUS
<1>2. Tail(s) \in Seq(S) /\ DOMAIN Tail(s) = 1 .. Len(s) - 1 /\ \A i \in 1 .. Len(s) - 1 : Tail(s)[i] = s[i + 1]
  BY <1>1
<1>3. Head(s) = s[1] /\ s[1] \in S
  BY <1>1
<1> QED  BY <1>1, <1>2, <1>3

-----------------------------------------------------------------------------
(* The worker.                                                             *)

(* The instance counts as this module does.                                 *)
LEMMA TwinsFinite ==
    ASSUME Chat!ChatRequestsAssumption
    PROVE  IsFiniteSet(Twins) /\ Chat!Ids = 1 .. Cardinality(Twins)
<1>1. ASSUME NEW S PROVE Chat!IsFiniteSet(S) <=> IsFiniteSet(S)
  BY Zenon DEF Chat!IsFiniteSet, IsFiniteSet
<1>2. ASSUME NEW S PROVE Chat!Cardinality(S) = Cardinality(S)
  BY <1>1, Zenon DEF Chat!Cardinality, Cardinality
<1>3. Chat!IsFiniteSet(Twins)
  BY DEF Chat!ChatRequestsAssumption
<1> QED
  BY <1>1, <1>2, <1>3, Zenon DEF Chat!Ids

(* A new request finds an id that no request of the connection has.          *)
LEMMA AskedKeeps ==
    ASSUME Chat!ChatRequestsAssumption, ChatInv, NEW r \in Twins, NEW kind \in Kinds, Chat!Chat(r, kind)
    PROVE  ChatInv'
<1> DEFINE n == counter + 1
           x == [Chat!NewReq EXCEPT !.st = "waiting", !.id = n]
           m == [type |-> "request", id |-> n, req |-> r, kind |-> kind, conn |-> conn]
           S == {q \in Twins : req[q].st # "new"}
<1>1. /\ req[r].st = "new" /\ open /\ req' = [req EXCEPT ![r] = x] /\ up' = Append(up, m) /\ counter' = n
      /\ UNCHANGED <<conn, open, down, job, proc, dead, queue, drops, chatKills>>
  BY DEF Chat!Chat
<1>2. x.st = "waiting" /\ x.id = n /\ x.by = NoRun /\ x.ide = FALSE
  BY DEF Chat!NewReq
<1>3. \A q \in Twins : req'[q] = IF q = r THEN x ELSE req[q]
  BY <1>1 DEF ChatInv, ChatTypes, Chat!TypeOK
<1>4. counter <= Cardinality(S) /\ counter \in Nat
  BY DEF ChatInv, IdsOK, ChatTypes
<1>5. {q \in Twins : req'[q].st # "new"} = S \cup {r} /\ r \notin S
  BY <1>1, <1>2, <1>3
<1> HIDE DEF x, S
<1>6. IsFiniteSet(S) /\ IsFiniteSet(Twins) /\ S \cup {r} \subseteq Twins
  BY TwinsFinite, FS_Subset DEF S
<1>7. Cardinality(S \cup {r}) = Cardinality(S) + 1 /\ Cardinality(S) \in Nat
  BY <1>5, <1>6, FS_AddElement, FS_CardinalityType
<1>8. Cardinality(S \cup {r}) <= Cardinality(Twins) /\ Cardinality(Twins) \in Nat
  BY <1>6, FS_Subset, FS_CardinalityType
<1>9. n \in Chat!Ids /\ n \in Nat
  BY <1>4, <1>7, <1>8, TwinsFinite
<1>10. x \in [st : {"new", "waiting", "replied", "stopped", "failed", "lost"},
             id : Chat!Ids \cup {0}, by : Twins \cup {NoRun}, ide : BOOLEAN]
  BY <1>9 DEF x, Chat!NewReq
<1>11. m \in UpMessages /\ m.type = "request" /\ m.req = r /\ m.id = n /\ m.conn = conn /\ m.kind = kind
  BY <1>9 DEF UpMessages, ChatInv, ChatTypes
<1> HIDE DEF m
<1>12. up \in Seq(UpMessages)
  BY DEF ChatInv, ChatTypes
<1>13. /\ up' \in Seq(UpMessages) /\ Len(up) \in Nat
       /\ DOMAIN up = 1 .. Len(up) /\ DOMAIN up' = 1 .. Len(up) + 1
       /\ \A i \in DOMAIN up : i \in DOMAIN up' /\ up'[i] = up[i]
       /\ up'[Len(up) + 1] = m /\ \A i \in DOMAIN up' : i \in DOMAIN up \/ i = Len(up) + 1
  BY <1>1, <1>11, <1>12, Sent
<1>14. ~Taken(r) /\ req[r].id = 0 /\ \A i \in DOMAIN up : up[i].req # r
  <2>1. ~Taken(r) /\ req[r].id = 0
    BY <1>1 DEF ChatInv, RequestOK
  <2>2. \A i \in DOMAIN up : up[i] \in UpMessages
    BY <1>12, <1>13
  <2>3. \A i \in DOMAIN up : up[i].id \in Chat!Ids /\ up[i].id = req[up[i].req].id
    BY <2>2 DEF ChatInv, UpOK, UpMessageOK, UpMessages
  <2> QED  BY <2>1, <2>3 DEF Chat!Ids
<1>15. \A q \in Twins \ {r} : /\ req'[q] = req[q] /\ Taken(q)' = Taken(q) /\ OfConn(q)' = OfConn(q)
                              /\ (\E i \in DOMAIN up : Asks(i, q)) <=> (\E i \in DOMAIN up : Asks(i, q))'
  BY <1>1, <1>3, <1>11, <1>13 DEF Taken, OfConn, Asks
<1>16. ChatTypes'
  <2>1. req' \in [Twins -> [st : {"new", "waiting", "replied", "stopped", "failed", "lost"},
             id : Chat!Ids \cup {0}, by : Twins \cup {NoRun}, ide : BOOLEAN]]
    BY <1>1, <1>10 DEF ChatInv, ChatTypes, Chat!TypeOK
  <2> QED
    BY <1>1, <1>9, <1>13, <2>1 DEF ChatInv, ChatTypes, Chat!TypeOK, Chat!Kind
<1>17. \A q \in Twins : RequestOK(q)'
  BY <1>1, <1>2, <1>3, <1>9, <1>14 DEF ChatInv, RequestOK, Taken, x
<1>18. UpOK'
  <2> SUFFICES ASSUME NEW i \in DOMAIN up'
               PROVE  UpMessageOK(i)'
    BY DEF UpOK
  <2>1. ~Taken(r)' /\ \A k \in DOMAIN up' : Asks(k, r)' => k = Len(up) + 1
    BY <1>1, <1>13, <1>14 DEF Taken, Asks
  <2>2. CASE i = Len(up) + 1
    BY <1>1, <1>2, <1>3, <1>11, <1>13, <2>1, <2>2 DEF ChatInv, ChatTypes, UpMessageOK, Taken, Asks
  <2>3. CASE i \in DOMAIN up
    <3>1. up'[i] = up[i] /\ up[i] \in UpMessages /\ up[i].req \in Twins \ {r}
      <4>1. up'[i] = up[i] /\ up[i] \in UpMessages /\ up[i].req # r
        BY <1>12, <1>13, <1>14, <2>3
      <4> QED  BY <4>1 DEF UpMessages
    <3>2. UpMessageOK(i) /\ UNCHANGED <<conn, job>> /\ req'[up[i].req] = req[up[i].req]
      BY <1>1, <1>3, <2>3, <3>1 DEF ChatInv, UpOK
    <3>3. \A k \in DOMAIN up' : up'[k].req = up[i].req => k \in DOMAIN up /\ up'[k] = up[k]
      BY <1>11, <1>13, <3>1
    <3> QED
      BY <3>1, <3>2, <3>3 DEF UpMessageOK, Taken, Asks
  <2> QED  BY <1>13, <2>2, <2>3
<1>19. DownOK'
  BY <1>1, <1>3, <1>14 DEF ChatInv, DownOK, Taken
<1>20. AbortedOK'
  BY <1>1, <1>3 DEF ChatInv, AbortedOK
<1>21. IdsOK'
  <2>1. counter' <= Cardinality({q \in Twins : req'[q].st # "new"})
    <3>1. Cardinality({q \in Twins : req'[q].st # "new"}) = Cardinality(S \cup {r})
      BY <1>5, Zenon
    <3> QED  BY <1>1, <1>4, <1>7, <3>1
  <2>2. \A q \in Twins \ {r} : OfConn(q) => req[q].id <= counter
    BY <1>1 DEF ChatInv, IdsOK
  <2>3. \A q \in Twins : req[q].id \in Nat
    BY DEF ChatInv, ChatTypes, Chat!TypeOK, Chat!Ids
  <2>4. \A q \in Twins : OfConn(q)' => req'[q].id <= counter'
          /\ \A p \in Twins : OfConn(p)' /\ req'[p].id = req'[q].id => p = q
    <3>1. \A q, p \in Twins \ {r} : OfConn(q)' /\ OfConn(p)' /\ req'[p].id = req'[q].id => p = q
      BY <1>1, <1>15 DEF ChatInv, IdsOK
    <3>2. \A q \in Twins \ {r} : OfConn(q)' => req'[q].id <= counter /\ req'[q].id \in Nat
      BY <1>15, <2>2, <2>3
    <3>3. req'[r].id = counter + 1
      BY <1>2, <1>3
    <3> QED
      BY <1>1, <1>4, <3>1, <3>2, <3>3
  <2>5. chatKills' = 0 => \A q \in Twins : req'[q].st # "new" => req'[q].id <= counter'
          /\ \A p \in Twins : req'[p].id = req'[q].id => p = q
    BY <1>1, <1>2, <1>3, <1>4, <1>17, <2>3 DEF ChatInv, IdsOK, RequestOK, x, Chat!Ids
  <2> QED
    BY <2>1, <2>4, <2>5 DEF IdsOK
<1>22. Chat!CliKnown'
  BY <1>1 DEF ChatInv, Chat!CliKnown, Chat!Stopped
<1>23. \A q \in Twins : WaitingOK(q)'
  <2>1. WaitingOK(r)'
    BY <1>1, <1>11, <1>13 DEF WaitingOK, OfConn, Asks
  <2>2. ASSUME NEW q \in Twins \ {r} PROVE WaitingOK(q)'
    <3>1. Chat!Haunted(q) => Chat!Haunted(q)'
      BY <1>1, <1>3, <2>2 DEF Chat!Haunted
    <3> QED
      BY <1>1, <1>15, <2>2, <3>1 DEF ChatInv, WaitingOK, Chat!Waiting, Chat!Working
  <2> QED  BY <2>1, <2>2
<1> QED
  BY <1>16, <1>17, <1>18, <1>19, <1>20, <1>21, <1>22, <1>23 DEF ChatInv

(* What the invariant says of ids and messages.                             *)
LEMMA Messages ==
    ASSUME ChatInv
    PROVE  /\ \A i \in DOMAIN up : up[i] \in UpMessages /\ up[i].req \in Twins /\ up[i].id \in Chat!Ids
           /\ \A i \in DOMAIN down : down[i] \in DownMessages /\ down[i].req \in Twins /\ down[i].id \in Chat!Ids
           /\ \A r \in Twins : req[r].id \in Nat /\ (req[r].st # "new" <=> req[r].id \in Chat!Ids)
<1>1. up \in Seq(UpMessages) /\ down \in Seq(DownMessages)
  BY DEF ChatInv, ChatTypes
<1>2. \A i \in DOMAIN up : up[i] \in UpMessages
  BY <1>1
<1>3. \A i \in DOMAIN down : down[i] \in DownMessages
  BY <1>1
<1>4. \A r \in Twins : req[r].id \in Nat /\ (req[r].st # "new" <=> req[r].id \in Chat!Ids)
  BY DEF ChatInv, ChatTypes, Chat!TypeOK, RequestOK, Chat!Ids
<1> QED  BY <1>2, <1>3, <1>4 DEF UpMessages, DownMessages

(* A request whose outcome is set is a request.                              *)
LEMMA NewOutcome ==
    ASSUME NEW S, NEW I, NEW B, NEW x \in [st : S, id : I, by : B, ide : BOOLEAN], NEW s \in S
    PROVE  [x EXCEPT !.st = s] \in [st : S, id : I, by : B, ide : BOOLEAN]
OBVIOUS

(* The user's stop ends the waiting, and its message follows the request.    *)
LEMMA ChatStopKeeps == ASSUME ChatInv, NEW r \in Twins, Chat!Stop(r) PROVE ChatInv'
<1> DEFINE m == [type |-> "abort", id |-> req[r].id, req |-> r, kind |-> "none", conn |-> conn]
<1>1. /\ req[r].st = "waiting" /\ req' = [req EXCEPT ![r].st = "stopped"] /\ up' = Append(up, m)
      /\ UNCHANGED <<counter, conn, open, down, job, proc, dead, queue, drops, chatKills>>
  BY DEF Chat!Stop, Chat!Waiting
<1>2. /\ \A q \in Twins \ {r} : req'[q] = req[q]
      /\ req'[r].st = "stopped" /\ req'[r].id = req[r].id /\ req'[r].by = req[r].by
      /\ req[r].id \in Chat!Ids
  BY <1>1, Messages DEF ChatInv, ChatTypes, Chat!TypeOK
<1>3. m \in UpMessages /\ m.type = "abort" /\ m.req = r /\ m.id = req[r].id /\ m.conn = conn
  BY <1>2 DEF UpMessages, ChatInv, ChatTypes
<1> HIDE DEF m
<1>4. /\ up' \in Seq(UpMessages) /\ Len(up) \in Nat
      /\ DOMAIN up = 1 .. Len(up) /\ DOMAIN up' = 1 .. Len(up) + 1
      /\ \A i \in DOMAIN up : i \in DOMAIN up' /\ up'[i] = up[i]
      /\ up'[Len(up) + 1] = m /\ \A i \in DOMAIN up' : i \in DOMAIN up \/ i = Len(up) + 1
  BY <1>1, <1>3, Sent DEF ChatInv, ChatTypes
<1>5. \A q \in Twins : /\ Taken(q)' = Taken(q) /\ OfConn(q)' = OfConn(q)
                       /\ (\E i \in DOMAIN up : Asks(i, q)) <=> (\E i \in DOMAIN up : Asks(i, q))'
  BY <1>1, <1>3, <1>4 DEF Taken, OfConn, Asks
<1>a. \A q \in Twins : req'[q].id = req[q].id
  BY <1>2
<1>b. \A q \in Twins : req'[q].st = "new" <=> req[q].st = "new"
  BY <1>1, <1>2
<1>6. ChatTypes'
  <2>1. req' \in [Twins -> [st : {"new", "waiting", "replied", "stopped", "failed", "lost"},
             id : Chat!Ids \cup {0}, by : Twins \cup {NoRun}, ide : BOOLEAN]]
    <3>1. req \in [Twins -> [st : {"new", "waiting", "replied", "stopped", "failed", "lost"},
             id : Chat!Ids \cup {0}, by : Twins \cup {NoRun}, ide : BOOLEAN]]
      BY DEF ChatInv, ChatTypes, Chat!TypeOK
    <3>2. [req[r] EXCEPT !.st = "stopped"] \in [st : {"new", "waiting", "replied", "stopped", "failed", "lost"},
             id : Chat!Ids \cup {0}, by : Twins \cup {NoRun}, ide : BOOLEAN]
      BY <3>1, NewOutcome
    <3>3. req' = [req EXCEPT ![r] = [req[r] EXCEPT !.st = "stopped"]]
      BY <1>1
    <3> QED  BY <3>1, <3>2, <3>3
  <2> QED
    BY <1>1, <1>4, <2>1 DEF ChatInv, ChatTypes, Chat!TypeOK, Chat!Kind
<1>7. \A q \in Twins : RequestOK(q)'
  BY <1>1, <1>2, <1>5, <1>a, <1>b DEF ChatInv, RequestOK
<1>8. UpOK'
  <2> SUFFICES ASSUME NEW i \in DOMAIN up' PROVE UpMessageOK(i)'
    BY DEF UpOK
  <2>1. CASE i = Len(up) + 1
    BY <1>1, <1>2, <1>3, <1>4, <2>1 DEF UpMessageOK, ChatInv, ChatTypes
  <2>2. CASE i \in DOMAIN up
    <3>1. UpMessageOK(i) /\ up'[i] = up[i] /\ up[i].req \in Twins
      BY <1>4, <2>2, Messages DEF ChatInv, UpOK
    <3>2. \A k \in DOMAIN up' : up'[k].type = "request" => k \in DOMAIN up /\ up'[k] = up[k]
      BY <1>3, <1>4
    <3> QED
      BY <1>1, <1>2, <1>5, <1>a, <3>1, <3>2 DEF UpMessageOK, Taken, Asks
  <2> QED  BY <1>4, <2>1, <2>2
<1>9. DownOK'
  BY <1>1, <1>5, <1>a, Messages DEF ChatInv, DownOK, Taken
<1>10. AbortedOK'
  BY <1>1, <1>2, <1>a DEF ChatInv, AbortedOK
<1>11. IdsOK'
  <2>1. {q \in Twins : req'[q].st # "new"} = {q \in Twins : req[q].st # "new"}
    BY <1>b
  <2>2. Cardinality({q \in Twins : req'[q].st # "new"}) = Cardinality({q \in Twins : req[q].st # "new"})
    BY <2>1, Zenon
  <2>3. counter' <= Cardinality({q \in Twins : req'[q].st # "new"})
    BY <1>1, <2>2 DEF ChatInv, IdsOK
  <2>4. open' => \A q \in Twins : OfConn(q)' => req'[q].id <= counter'
          /\ \A p \in Twins : OfConn(p)' /\ req'[p].id = req'[q].id => p = q
    BY <1>1, <1>5, <1>a DEF ChatInv, IdsOK
  <2>5. chatKills' = 0 => \A q \in Twins : req'[q].st # "new" => req'[q].id <= counter'
          /\ \A p \in Twins : req'[p].id = req'[q].id => p = q
    BY <1>1, <1>a, <1>b DEF ChatInv, IdsOK
  <2> QED
    BY <2>3, <2>4, <2>5 DEF IdsOK
<1>12. Chat!CliKnown'
  BY <1>1 DEF ChatInv, Chat!CliKnown, Chat!Stopped
<1>13. \A q \in Twins : WaitingOK(q)'
  <2> SUFFICES ASSUME NEW q \in Twins \ {r} PROVE WaitingOK(q)'
    BY <1>2 DEF WaitingOK, Chat!Waiting
  <2>1. Chat!Haunted(q) => Chat!Haunted(q)'
    BY <1>2, <1>a DEF Chat!Haunted
  <2> QED
    BY <1>1, <1>2, <1>5, <1>a, <2>1 DEF ChatInv, WaitingOK, Chat!Waiting, Chat!Working
<1> QED
  BY <1>6, <1>7, <1>8, <1>9, <1>10, <1>11, <1>12, <1>13 DEF ChatInv

(* The answer that arrives is that of the request that waits under its id.   *)
LEMMA ReceiveKeeps == ASSUME ChatInv, Chat!Receive PROVE ChatInv'
<1> DEFINE d == down[1]
           r == d.req
<1>1. /\ down # << >> /\ down' = Tail(down)
      /\ req' = [q \in Twins |-> IF Chat!Waiting(q) /\ req[q].id = Head(down).id
                                THEN [req[q] EXCEPT !.st = "replied", !.by = Head(down).req, !.ide = Head(down).ide]
                                ELSE req[q]]
      /\ UNCHANGED <<counter, conn, open, up, job, proc, dead, queue, drops, chatKills>>
  BY DEF Chat!Receive
<1>u. UNCHANGED <<counter, conn, open, up, job, proc, dead, queue, drops, chatKills>>
  BY <1>1
<1>2. /\ 1 \in DOMAIN down /\ Head(down) = d /\ down' \in Seq(DownMessages)
      /\ \A i \in DOMAIN down' : i + 1 \in DOMAIN down /\ down'[i] = down[i + 1]
      /\ \A i \in DOMAIN down : i = 1 \/ (i - 1 \in DOMAIN down' /\ down'[i - 1] = down[i])
  BY <1>1, TakenFrom DEF ChatInv, ChatTypes
<1>3. r \in Twins /\ d \in DownMessages /\ d.id = req[r].id /\ open /\ OfConn(r)
  BY <1>2, Messages DEF ChatInv, DownOK, OfConn
<1>4. \A q \in Twins : Chat!Waiting(q) /\ req[q].id = d.id => q = r
  BY <1>3 DEF ChatInv, WaitingOK, IdsOK
<1> HIDE DEF d
<1>5. ASSUME NEW q \in Twins
      PROVE  /\ req'[q].id = req[q].id
             /\ req'[q].st = "new" <=> req[q].st = "new"
             /\ req[q].st = "stopped" => req'[q].st = "stopped"
             /\ req'[q].by \in {q, req[q].by}
             /\ Chat!Waiting(q)' => Chat!Waiting(q) /\ req[q].id # d.id
             /\ req'[q] \in [st : {"new", "waiting", "replied", "stopped", "failed", "lost"},
                             id : Chat!Ids \cup {0}, by : Twins \cup {NoRun}, ide : BOOLEAN]
  <2>1. CASE Chat!Waiting(q) /\ req[q].id = d.id
    <3>1. req'[q] = [req[q] EXCEPT !.st = "replied", !.by = d.req, !.ide = d.ide]
      BY <1>1, <1>2, <2>1
    <3>2. q = r /\ d.ide \in BOOLEAN /\ d.req \in Twins
      BY <1>3, <1>4, <2>1 DEF DownMessages
    <3> QED
      BY <2>1, <3>1, <3>2 DEF ChatInv, ChatTypes, Chat!TypeOK, Chat!Waiting
  <2>2. CASE ~(Chat!Waiting(q) /\ req[q].id = d.id)
    <3>1. req'[q] = req[q]
      BY <1>1, <1>2, <2>2
    <3> QED
      BY <2>2, <3>1 DEF ChatInv, ChatTypes, Chat!TypeOK, Chat!Waiting
  <2> QED  BY <2>1, <2>2
<1>6. ChatTypes'
  <2>1. req' \in [Twins -> [st : {"new", "waiting", "replied", "stopped", "failed", "lost"},
             id : Chat!Ids \cup {0}, by : Twins \cup {NoRun}, ide : BOOLEAN]]
    BY <1>1, <1>5
  <2> QED
    BY <1>1, <1>2, <2>1 DEF ChatInv, ChatTypes, Chat!TypeOK, Chat!Kind
<1>7. \A q \in Twins : /\ Taken(q)' = Taken(q) /\ OfConn(q)' = OfConn(q)
                       /\ (\E i \in DOMAIN up : Asks(i, q)) <=> (\E i \in DOMAIN up : Asks(i, q))'
  BY <1>1 DEF Taken, OfConn, Asks
<1>a. \A q \in Twins : req'[q].id = req[q].id
  BY <1>5
<1>b. \A q \in Twins : req'[q].st = "new" <=> req[q].st = "new"
  BY <1>5
<1>c. \A q \in Twins : req[q].st = "stopped" => req'[q].st = "stopped"
  BY <1>5
<1>d. \A q \in Twins : req'[q].by \in {q, req[q].by}
  BY <1>5
<1>8. \A q \in Twins : RequestOK(q)'
  BY <1>u, <1>a, <1>b, <1>d, <1>7 DEF ChatInv, RequestOK
<1>9. UpOK'
  BY <1>u, <1>a, <1>c, Messages DEF ChatInv, UpOK, UpMessageOK, Taken, Asks
<1>10. DownOK'
  BY <1>u, <1>2, <1>a, Messages DEF ChatInv, DownOK, Taken
<1>11. AbortedOK'
  BY <1>u, <1>a, <1>c DEF ChatInv, AbortedOK
<1>12. IdsOK'
  <2>1. {q \in Twins : req'[q].st # "new"} = {q \in Twins : req[q].st # "new"}
    BY <1>b
  <2>2. Cardinality({q \in Twins : req'[q].st # "new"}) = Cardinality({q \in Twins : req[q].st # "new"})
    BY <2>1, Zenon
  <2>3. counter' <= Cardinality({q \in Twins : req'[q].st # "new"})
    BY <1>u, <2>2 DEF ChatInv, IdsOK
  <2>4. open' => \A q \in Twins : OfConn(q)' => req'[q].id <= counter'
          /\ \A p \in Twins : OfConn(p)' /\ req'[p].id = req'[q].id => p = q
    BY <1>u, <1>7, <1>a DEF ChatInv, IdsOK
  <2>5. chatKills' = 0 => \A q \in Twins : req'[q].st # "new" => req'[q].id <= counter'
          /\ \A p \in Twins : req'[p].id = req'[q].id => p = q
    BY <1>u, <1>a, <1>b DEF ChatInv, IdsOK
  <2> QED
    BY <2>3, <2>4, <2>5 DEF IdsOK
<1>13. Chat!CliKnown'
  BY <1>1 DEF ChatInv, Chat!CliKnown, Chat!Stopped
<1>14. \A q \in Twins : WaitingOK(q)'
  <2> SUFFICES ASSUME NEW q \in Twins, Chat!Waiting(q)' PROVE WaitingOK(q)'
    BY DEF WaitingOK
  <2>1. Chat!Haunted(q) => Chat!Haunted(q)'
    BY <1>a, <1>c DEF Chat!Haunted
  <2>2. (\E i \in DOMAIN down : down[i].id = req[q].id) => \E i \in DOMAIN down' : down'[i].id = req'[q].id
    <3>1. Chat!Waiting(q) /\ req[q].id # d.id
      BY <1>5
    <3> QED  BY <1>2, <1>a, <3>1 DEF d
  <2>3. Chat!Waiting(q)
    BY <1>5
  <2> QED
    BY <1>u, <1>a, <1>7, <2>1, <2>2, <2>3 DEF ChatInv, WaitingOK, Chat!Working
<1> QED
  BY <1>6, <1>8, <1>9, <1>10, <1>11, <1>12, <1>13, <1>14 DEF ChatInv


(* A connection that breaks, with the worker or without it: no request waits *)
(* any longer, and no answer is on its way.                                  *)
LEMMA BrokenKeeps == ASSUME Chat!ChatRequestsAssumption, ChatInv, Chat!Drop \/ Chat!Kill PROVE ChatInv'
<1> DEFINE S == {q \in Twins : req[q].st # "new"}
<1>1. PICK outcome \in {"failed", "lost"} :
         req' = [r \in Twins |-> IF Chat!Waiting(r) THEN [req[r] EXCEPT !.st = outcome] ELSE req[r]]
  BY DEF Chat!Drop, Chat!Kill, Chat!Broken
<1>2. /\ open' = FALSE /\ down' = << >> /\ up' \in {up, << >>}
      /\ UNCHANGED <<conn, job, proc, dead, queue>>
      /\ counter' \in {counter, 0} /\ (chatKills' = 0 => counter' = counter /\ chatKills = 0)
      /\ drops' \in 0 .. MaxDrops /\ chatKills' \in 0 .. MaxKills
      /\ conn + 1 <= drops' + chatKills' + 1
  BY DEF Chat!ChatRequestsAssumption, Chat!Drop, Chat!Kill, Chat!Broken, ChatInv, ChatTypes
<1>3. ASSUME NEW q \in Twins
      PROVE  /\ req'[q].id = req[q].id
             /\ req'[q].st = "new" <=> req[q].st = "new"
             /\ req[q].st = "stopped" => req'[q].st = "stopped"
             /\ req'[q].by = req[q].by
             /\ ~Chat!Waiting(q)'
             /\ req'[q] \in [st : {"new", "waiting", "replied", "stopped", "failed", "lost"},
                             id : Chat!Ids \cup {0}, by : Twins \cup {NoRun}, ide : BOOLEAN]
  <2>1. CASE Chat!Waiting(q)
    <3>1. req'[q] = [req[q] EXCEPT !.st = outcome]
      BY <1>1, <2>1
    <3>2. req[q] \in [st : {"new", "waiting", "replied", "stopped", "failed", "lost"},
                      id : Chat!Ids \cup {0}, by : Twins \cup {NoRun}, ide : BOOLEAN]
      BY DEF ChatInv, ChatTypes, Chat!TypeOK
    <3>3. req'[q] \in [st : {"new", "waiting", "replied", "stopped", "failed", "lost"},
                       id : Chat!Ids \cup {0}, by : Twins \cup {NoRun}, ide : BOOLEAN]
      BY <3>1, <3>2, NewOutcome
    <3> QED  BY <2>1, <3>1, <3>2, <3>3 DEF Chat!Waiting
  <2>2. CASE ~Chat!Waiting(q)
    <3>1. req'[q] = req[q]
      BY <1>1, <2>2
    <3> QED  BY <2>2, <3>1 DEF ChatInv, ChatTypes, Chat!TypeOK, Chat!Waiting
  <2> QED  BY <2>1, <2>2
<1>4. \A q \in Twins : req'[q].id = req[q].id
  BY <1>3
<1>5. \A q \in Twins : req'[q].st = "new" <=> req[q].st = "new"
  BY <1>3
<1>6. \A q \in Twins : req[q].st = "stopped" => req'[q].st = "stopped"
  BY <1>3
<1>7. \A q \in Twins : req'[q].by = req[q].by
  BY <1>3
<1>8. ChatTypes'
  <2>1. req' \in [Twins -> [st : {"new", "waiting", "replied", "stopped", "failed", "lost"},
             id : Chat!Ids \cup {0}, by : Twins \cup {NoRun}, ide : BOOLEAN]]
    BY <1>1, <1>3
  <2>2. up' \in Seq(UpMessages) /\ counter' \in Nat /\ conn' \in Nat
    <3>1. up \in Seq(UpMessages) /\ << >> \in Seq(UpMessages)
      BY DEF ChatInv, ChatTypes
    <3>2. counter \in Nat /\ conn \in Nat
      BY DEF ChatInv, ChatTypes
    <3>3. CASE up' = up
      BY <1>2, <3>1, <3>2, <3>3
    <3>4. CASE up' = << >>
      BY <1>2, <3>1, <3>2, <3>4
    <3> QED  BY <1>2, <3>3, <3>4
  <2>3. down' \in Seq(DownMessages)
    <3>1. << >> \in Seq(DownMessages)
      OBVIOUS
    <3> QED  BY <1>2, <3>1
  <2> QED
    BY <1>2, <2>1, <2>2, <2>3 DEF ChatInv, ChatTypes, Chat!TypeOK, Chat!Kind
<1>9. \A q \in Twins : RequestOK(q)'
  BY <1>2, <1>4, <1>5, <1>7 DEF ChatInv, RequestOK, Taken
<1>10. UpOK'
  <2>1. CASE up' = << >>
    BY <2>1 DEF UpOK
  <2>2. CASE up' = up
    BY <1>2, <1>4, <1>6, <2>2, Messages DEF ChatInv, UpOK, UpMessageOK, Taken, Asks
  <2> QED  BY <1>2, <2>1, <2>2
<1>11. DownOK'
  BY <1>2 DEF DownOK
<1>12. AbortedOK'
  BY <1>2, <1>4, <1>6 DEF ChatInv, AbortedOK
<1>13. IdsOK'
  <2>1. {q \in Twins : req'[q].st # "new"} = S
    BY <1>5
  <2> HIDE DEF S
  <2>2. Cardinality({q \in Twins : req'[q].st # "new"}) = Cardinality(S)
    BY <2>1, Zenon
  <2>3. Cardinality(S) \in Nat
    BY TwinsFinite, FS_Subset, FS_CardinalityType DEF S
  <2>4. counter <= Cardinality(S)
    BY DEF ChatInv, IdsOK, S
  <2>5. counter' <= Cardinality({q \in Twins : req'[q].st # "new"})
    BY <1>2, <2>2, <2>3, <2>4
  <2>6. chatKills' = 0 => \A q \in Twins : req'[q].st # "new" => req'[q].id <= counter'
          /\ \A p \in Twins : req'[p].id = req'[q].id => p = q
    BY <1>2, <1>4, <1>5 DEF ChatInv, IdsOK
  <2> QED
    BY <1>2, <2>5, <2>6 DEF IdsOK
<1>14. Chat!CliKnown'
  BY <1>2 DEF ChatInv, Chat!CliKnown, Chat!Stopped
<1>15. \A q \in Twins : WaitingOK(q)'
  BY <1>3 DEF WaitingOK
<1> QED
  BY <1>8, <1>9, <1>10, <1>11, <1>12, <1>13, <1>14, <1>15 DEF ChatInv

(* A new connection has no request yet.                                      *)
LEMMA ConnectKeeps == ASSUME ChatInv, Chat!Connect PROVE ChatInv'
<1>1. /\ ~open /\ open' = TRUE /\ conn' = conn + 1
      /\ UNCHANGED <<req, counter, up, down, job, proc, dead, queue, drops, chatKills>>
  BY DEF Chat!Connect
<1>2. conn \in Nat /\ ChatTypes'
  BY <1>1 DEF ChatInv, ChatTypes, Chat!TypeOK, Chat!Kind
<1>3. \A q \in Twins : RequestOK(q)' /\ (Taken(q) => job[q].conn \in Nat /\ job[q].conn <= conn)
  BY <1>1, <1>2 DEF ChatInv, ChatTypes, Chat!TypeOK, RequestOK, Taken
<1>4. \A i \in DOMAIN up : up[i].conn \in Nat /\ up[i].conn <= conn
  BY Messages DEF ChatInv, UpOK, UpMessageOK, UpMessages
<1>5. UpOK'
  BY <1>1, <1>2, <1>4 DEF ChatInv, UpOK, UpMessageOK, Taken, Asks
<1>6. DownOK' /\ AbortedOK' /\ Chat!CliKnown'
  BY <1>1 DEF ChatInv, DownOK, AbortedOK, Chat!CliKnown, Chat!Stopped
<1>7. \A q \in Twins : ~OfConn(q)'
  BY <1>1, <1>2, <1>3, <1>4 DEF OfConn, Taken, Asks
<1>8. IdsOK'
  BY <1>1, <1>7 DEF ChatInv, IdsOK
<1>9. \A q \in Twins : WaitingOK(q)'
  BY <1>1 DEF ChatInv, WaitingOK, Chat!Waiting
<1> QED
  BY <1>2, <1>3, <1>5, <1>6, <1>8, <1>9 DEF ChatInv

-----------------------------------------------------------------------------
(* The server.                                                             *)

(* A request that comes in gets its job, unless it was stopped or nobody is   *)
(* there any more.                                                           *)
LEMMA TakeRequestKeeps ==
    ASSUME Chat!ChatRequestsAssumption, ChatInv, up # << >>, up' = Tail(up),
           Chat!TakeRequest(Head(up), Head(up).req), UNCHANGED Chat!workerVars
    PROVE  ChatInv'
<1>0. up[1] \in UpMessages /\ 1 \in DOMAIN up /\ Head(up) = up[1]
  BY TakenFrom DEF ChatInv, ChatTypes
<1>m. PICK m \in UpMessages : m = up[1]
  BY <1>0
<1>r. PICK r \in Twins : r = m.req
  BY DEF UpMessages
<1>1. /\ 1 \in DOMAIN up /\ Head(up) = m /\ up[1] = m /\ up' \in Seq(UpMessages)
      /\ \A i \in DOMAIN up' : i + 1 \in DOMAIN up /\ up'[i] = up[i + 1] /\ i \in Nat
      /\ \A i \in DOMAIN up : i = 1 \/ (i - 1 \in DOMAIN up' /\ up'[i - 1] = up[i])
  BY <1>0, <1>m, TakenFrom DEF ChatInv, ChatTypes
<1>2. m.type = "request" /\ UNCHANGED <<down, proc, dead, queue, req, counter, conn, open, drops, chatKills>>
  BY <1>1 DEF Chat!TakeRequest, Chat!workerVars
<1>3. PICK there \in {"over", "look", "spawn", "fetch", "act", "queue"} :
         /\ job' = [job EXCEPT ![r] = [at |-> there, kind |-> m.kind, id |-> m.id, conn |-> m.conn]]
         /\ there = "over" => m.id \in dead \/ ~open
         /\ there = "queue" => m.kind = "ide"
  <2>1. m.kind \in Kinds \cup {"none"}
    BY DEF UpMessages
  <2>2. CASE m.id \in dead \/ ~open
    BY <1>1, <1>r, <2>2 DEF Chat!TakeRequest, Chat!SetJob
  <2>3. CASE ~(m.id \in dead \/ ~open)
    <3>1. PICK there \in Chat!Work(m.kind) \cup {"look"} :
             job' = [job EXCEPT ![r] = [at |-> there, kind |-> m.kind, id |-> m.id, conn |-> m.conn]]
      BY <1>1, <1>r, <2>3 DEF Chat!TakeRequest, Chat!SetJob
    <3>2. m.kind \in {"agent", "cli", "direct", "intent", "ide"}
      BY <1>1, <1>2 DEF ChatInv, UpOK, UpMessageOK, Chat!ChatRequestsAssumption
    <3>3. there \in {"look", "spawn", "fetch", "act", "queue"} /\ (there = "queue" => m.kind = "ide")
      BY <3>1, <3>2 DEF Chat!Work
    <3> QED  BY <3>1, <3>3
  <2> QED  BY <2>2, <2>3
<1>4. m.id \in Chat!Ids /\ m.conn \in Nat
  BY DEF UpMessages
<1>5. /\ m.id = req[r].id /\ m.conn <= conn /\ ~Taken(r) /\ m.kind \in Kinds
      /\ \A k \in DOMAIN up : Asks(k, r) => k = 1
  BY <1>1, <1>2, <1>r DEF ChatInv, UpOK, UpMessageOK
<1>6. /\ \A q \in Twins \ {r} : job'[q] = job[q]
      /\ job'[r].at = there /\ job'[r].kind = m.kind /\ job'[r].id = m.id /\ job'[r].conn = m.conn
  BY <1>3, <1>4 DEF ChatInv, ChatTypes, Chat!TypeOK
<1>a. Asks(1, r)
  BY <1>1, <1>2, <1>r DEF Asks
<1>b. r \notin queue
  BY <1>4, <1>5 DEF ChatInv, RequestOK
<1>7. \A q \in Twins \ {r} : /\ Taken(q)' = Taken(q)
                             /\ (\E i \in DOMAIN up : Asks(i, q)) <=> (\E i \in DOMAIN up : Asks(i, q))'
  <2> TAKE q \in Twins \ {r}
  <2>1. ASSUME NEW i \in DOMAIN up, Asks(i, q) PROVE \E k \in DOMAIN up' : Asks(k, q)'
    BY <1>1, <1>r, <2>1 DEF Asks
  <2>2. ASSUME NEW i \in DOMAIN up', Asks(i, q)' PROVE \E k \in DOMAIN up : Asks(k, q)
    BY <1>1, <2>2 DEF Asks
  <2> QED  BY <1>6, <2>1, <2>2 DEF Taken
<1>8. \A i \in DOMAIN up' : ~Asks(i, r)'
  BY <1>1, <1>5 DEF Asks
<1>9. \A q \in Twins : OfConn(q)' <=> OfConn(q)
  <2> TAKE q \in Twins
  <2>1. CASE q = r
    <3>1. OfConn(r) <=> m.conn = conn
      BY <1>1, <1>4, <1>5, <1>a DEF OfConn
    <3>2. OfConn(r)' <=> m.conn = conn
      BY <1>2, <1>4, <1>6, <1>8 DEF OfConn, Taken
    <3> QED  BY <2>1, <3>1, <3>2
  <2>2. CASE q # r
    <3>1. ASSUME NEW i \in DOMAIN up, Asks(i, q), up[i].conn = conn
          PROVE  \E k \in DOMAIN up' : Asks(k, q)' /\ up'[k].conn = conn
      <4>1. i # 1
        BY <1>1, <1>r, <2>2, <3>1 DEF Asks
      <4>2. i - 1 \in DOMAIN up' /\ up'[i - 1] = up[i]
        BY <1>1, <4>1
      <4>3. Asks(i - 1, q)' /\ up'[i - 1].conn = conn
        BY <3>1, <4>2 DEF Asks
      <4> QED  BY <4>2, <4>3
    <3>2. ASSUME NEW i \in DOMAIN up', Asks(i, q)', up'[i].conn = conn
          PROVE  \E k \in DOMAIN up : Asks(k, q) /\ up[k].conn = conn
      BY <1>1, <3>2 DEF Asks
    <3> QED  BY <1>2, <1>6, <2>2, <3>1, <3>2 DEF OfConn, Taken
  <2> QED  BY <2>1, <2>2
<1>10. ChatTypes'
  <2>1. m.conn \in 0 .. MaxDrops + MaxKills + 1
    <3>1. conn <= drops + chatKills + 1 /\ conn \in Nat /\ drops \in 0 .. MaxDrops /\ chatKills \in 0 .. MaxKills
      BY DEF ChatInv, ChatTypes, Chat!ChatRequestsAssumption
    <3> QED  BY <1>4, <1>5, <3>1 DEF Chat!ChatRequestsAssumption
  <2>2. [at |-> there, kind |-> m.kind, id |-> m.id, conn |-> m.conn] \in
           [at : {"none", "look", "act", "more", "spawn", "cli", "fetch", "queue", "over"},
            kind : Kinds \cup {"none"}, id : Chat!Ids \cup {0}, conn : 0 .. MaxDrops + MaxKills + 1]
    BY <1>4, <1>5, <2>1
  <2>3. job' \in [Twins -> [at : {"none", "look", "act", "more", "spawn", "cli", "fetch", "queue", "over"},
                           kind : Kinds \cup {"none"}, id : Chat!Ids \cup {0}, conn : 0 .. MaxDrops + MaxKills + 1]]
    BY <1>3, <2>2 DEF ChatInv, ChatTypes, Chat!TypeOK
  <2>4. queue' \subseteq {q \in Twins : Chat!Kind(q)' = "ide"}
    BY <1>2, <1>6, <1>b DEF ChatInv, ChatTypes, Chat!TypeOK, Chat!Kind
  <2> QED
    BY <1>1, <1>2, <2>3, <2>4 DEF ChatInv, ChatTypes, Chat!TypeOK
<1>11. \A q \in Twins : RequestOK(q)'
  <2> TAKE q \in Twins
  <2>1. CASE q = r
    BY <1>2, <1>3, <1>4, <1>5, <1>6, <1>b, <2>1, Messages DEF ChatInv, RequestOK, Taken, Chat!Ids
  <2>2. CASE q # r
    BY <1>2, <1>6, <2>2 DEF ChatInv, RequestOK, Taken
  <2> QED  BY <2>1, <2>2
<1>12. UpOK'
  <2> SUFFICES ASSUME NEW i \in DOMAIN up' PROVE UpMessageOK(i)'
    BY DEF UpOK
  <2>1. PICK u \in UpMessages : u = up'[i] /\ u = up[i + 1] /\ i + 1 \in DOMAIN up
    BY <1>1, Messages
  <2>2. /\ u.req \in Twins /\ u.id = req[u.req].id /\ u.conn <= conn
        /\ u.type = "abort" => req[u.req].st = "stopped"
        /\ u.type = "request" => ~Taken(u.req) /\ u.kind \in Kinds
        /\ u.type = "request" => \A k \in DOMAIN up : Asks(k, u.req) => k = i + 1
    BY <2>1 DEF ChatInv, UpOK, UpMessageOK, UpMessages
  <2>3. u.type = "request" => u.req # r
    BY <1>8, <2>1 DEF Asks
  <2>4. u.type = "request" => \A k \in DOMAIN up' : Asks(k, u.req)' => k = i
    <3> SUFFICES ASSUME u.type = "request", NEW k \in DOMAIN up', Asks(k, u.req)' PROVE k = i
      OBVIOUS
    <3>1. k + 1 \in DOMAIN up /\ Asks(k + 1, u.req) /\ k \in Nat /\ i \in Nat
      BY <1>1 DEF Asks
    <3>2. k + 1 = i + 1
      BY <2>2, <3>1
    <3> QED  BY <3>1, <3>2
  <2>5. u.type = "request" => ~Taken(u.req)'
    BY <1>7, <2>2, <2>3
  <2> QED
    BY <1>2, <2>1, <2>2, <2>4, <2>5 DEF UpMessageOK, Asks
<1>13. DownOK'
  <2> SUFFICES ASSUME NEW i \in DOMAIN down
               PROVE  open /\ down[i].id = req[down[i].req].id /\ job'[down[i].req].at # "none"
                      /\ job'[down[i].req].conn = conn
    BY <1>2 DEF DownOK, Taken
  <2>1. open /\ down[i].id = req[down[i].req].id /\ Taken(down[i].req) /\ job[down[i].req].conn = conn
    BY DEF ChatInv, DownOK
  <2>2. down[i].req \in Twins \ {r}
    BY <1>5, <2>1, Messages
  <2> QED  BY <1>6, <2>1, <2>2 DEF Taken
<1>14. AbortedOK'
  BY <1>2 DEF ChatInv, AbortedOK
<1>15. IdsOK'
  BY <1>2, <1>9 DEF ChatInv, IdsOK
<1>16. Chat!CliKnown'
  BY <1>2, <1>6 DEF ChatInv, Chat!CliKnown, Chat!Stopped
<1>17. \A q \in Twins : WaitingOK(q)'
  <2> TAKE q \in Twins
  <2>0. Chat!Haunted(q)' = Chat!Haunted(q) /\ Chat!Waiting(q)' = Chat!Waiting(q)
    BY <1>2 DEF Chat!Haunted, Chat!Waiting
  <2>1. CASE q = r
    <3>1. Chat!Waiting(r) /\ m.id \in dead => Chat!Haunted(r)
      BY <1>5, Messages DEF ChatInv, AbortedOK, Chat!Haunted, Chat!Waiting
    <3>2. Chat!Waiting(r) => open /\ OfConn(r)
      BY <1>4 DEF ChatInv, WaitingOK
    <3>3. there = "over" \/ Chat!Working(r)'
      BY <1>3, <1>6 DEF Chat!Working
    <3> QED
      BY <1>2, <1>3, <1>4, <1>9, <2>0, <2>1, <3>1, <3>2, <3>3 DEF WaitingOK
  <2>2. CASE q # r
    <3>1. Chat!Working(q)' = Chat!Working(q)
      BY <1>6, <2>2 DEF Chat!Working
    <3> QED
      BY <1>2, <1>7, <1>9, <2>0, <2>2, <3>1 DEF ChatInv, WaitingOK
  <2> QED  BY <2>1, <2>2
<1> QED
  BY <1>10, <1>11, <1>12, <1>13, <1>14, <1>15, <1>16, <1>17 DEF ChatInv

(* A stop that comes in makes its request a stopped one, and kills its CLI.   *)
LEMMA TakeAbortKeeps ==
    ASSUME ChatInv, up # << >>, up' = Tail(up), Chat!TakeAbort(Head(up)), UNCHANGED Chat!workerVars
    PROVE  ChatInv'
<1>0. up[1] \in UpMessages /\ 1 \in DOMAIN up /\ Head(up) = up[1]
  BY TakenFrom DEF ChatInv, ChatTypes
<1>m. PICK m \in UpMessages : m = up[1]
  BY <1>0
<1>1. /\ 1 \in DOMAIN up /\ Head(up) = m /\ up[1] = m /\ up' \in Seq(UpMessages)
      /\ \A i \in DOMAIN up' : i + 1 \in DOMAIN up /\ up'[i] = up[i + 1] /\ i \in Nat
      /\ \A i \in DOMAIN up : i = 1 \/ (i - 1 \in DOMAIN up' /\ up'[i - 1] = up[i])
  BY <1>0, <1>m, TakenFrom DEF ChatInv, ChatTypes
<1>2. /\ m.type = "abort" /\ dead' = dead \cup {m.id} /\ proc' = [proc EXCEPT ![m.id] = NoRun]
      /\ UNCHANGED <<job, down, queue, req, counter, conn, open, drops, chatKills>>
  BY <1>1 DEF Chat!TakeAbort, Chat!Killed, Chat!workerVars
<1>3. m.id \in Chat!Ids /\ m.req \in Twins /\ m.id = req[m.req].id /\ req[m.req].st = "stopped"
  BY <1>1, <1>2 DEF ChatInv, UpOK, UpMessageOK, UpMessages
<1>7. \A q \in Twins : (\E i \in DOMAIN up : Asks(i, q)) <=> (\E i \in DOMAIN up : Asks(i, q))'
  <2> TAKE q \in Twins
  <2>1. ASSUME NEW i \in DOMAIN up, Asks(i, q) PROVE \E k \in DOMAIN up' : Asks(k, q)'
    <3>1. i # 1
      BY <1>1, <1>2, <2>1 DEF Asks
    <3>2. i - 1 \in DOMAIN up' /\ up'[i - 1] = up[i]
      BY <1>1, <3>1
    <3>3. Asks(i - 1, q)'
      BY <2>1, <3>2 DEF Asks
    <3> QED  BY <3>2, <3>3
  <2>2. ASSUME NEW i \in DOMAIN up', Asks(i, q)' PROVE \E k \in DOMAIN up : Asks(k, q)
    BY <1>1, <2>2 DEF Asks
  <2> QED  BY <2>1, <2>2
<1>9. \A q \in Twins : OfConn(q)' <=> OfConn(q)
  <2> TAKE q \in Twins
  <2>1. ASSUME NEW i \in DOMAIN up, Asks(i, q), up[i].conn = conn
        PROVE  \E k \in DOMAIN up' : Asks(k, q)' /\ up'[k].conn = conn
    <3>1. i # 1
      BY <1>1, <1>2, <2>1 DEF Asks
    <3>2. i - 1 \in DOMAIN up' /\ up'[i - 1] = up[i]
      BY <1>1, <3>1
    <3>3. Asks(i - 1, q)' /\ up'[i - 1].conn = conn
      BY <2>1, <3>2 DEF Asks
    <3> QED  BY <3>2, <3>3
  <2>2. ASSUME NEW i \in DOMAIN up', Asks(i, q)', up'[i].conn = conn
        PROVE  \E k \in DOMAIN up : Asks(k, q) /\ up[k].conn = conn
    BY <1>1, <2>2 DEF Asks
  <2> QED  BY <1>2, <2>1, <2>2 DEF OfConn, Taken
<1>10. ChatTypes'
  <2>1. proc' \in [Chat!Ids -> Twins \cup {NoRun}] /\ dead' \subseteq Chat!Ids
    BY <1>2, <1>3 DEF ChatInv, ChatTypes, Chat!TypeOK
  <2> QED
    BY <1>1, <1>2, <2>1 DEF ChatInv, ChatTypes, Chat!TypeOK, Chat!Kind
<1>11. \A q \in Twins : RequestOK(q)'
  BY <1>2 DEF ChatInv, RequestOK, Taken
<1>12. UpOK'
  <2> SUFFICES ASSUME NEW i \in DOMAIN up' PROVE UpMessageOK(i)'
    BY DEF UpOK
  <2>1. PICK u \in UpMessages : u = up'[i] /\ u = up[i + 1] /\ i + 1 \in DOMAIN up
    BY <1>1, Messages
  <2>2. /\ u.req \in Twins /\ u.id = req[u.req].id /\ u.conn <= conn
        /\ u.type = "abort" => req[u.req].st = "stopped"
        /\ u.type = "request" => ~Taken(u.req) /\ u.kind \in Kinds
        /\ u.type = "request" => \A k \in DOMAIN up : Asks(k, u.req) => k = i + 1
    BY <2>1 DEF ChatInv, UpOK, UpMessageOK, UpMessages
  <2>4. u.type = "request" => \A k \in DOMAIN up' : Asks(k, u.req)' => k = i
    <3> SUFFICES ASSUME u.type = "request", NEW k \in DOMAIN up', Asks(k, u.req)' PROVE k = i
      OBVIOUS
    <3>1. k + 1 \in DOMAIN up /\ Asks(k + 1, u.req) /\ k \in Nat /\ i \in Nat
      BY <1>1 DEF Asks
    <3>2. k + 1 = i + 1
      BY <2>2, <3>1
    <3> QED  BY <3>1, <3>2
  <2> QED
    BY <1>2, <2>1, <2>2, <2>4 DEF UpMessageOK, Asks, Taken
<1>13. DownOK'
  BY <1>2 DEF ChatInv, DownOK, Taken
<1>14. AbortedOK'
  BY <1>2, <1>3 DEF ChatInv, AbortedOK
<1>15. IdsOK'
  BY <1>2, <1>9 DEF ChatInv, IdsOK
<1>16. Chat!CliKnown'
  <2> SUFFICES ASSUME chatKills = 0, NEW q \in Twins, job[q].at = "cli"
               PROVE  proc'[job[q].id] = IF Chat!Stopped(q)' THEN NoRun ELSE q
    BY <1>2 DEF Chat!CliKnown
  <2>1. proc[job[q].id] = (IF Chat!Stopped(q) THEN NoRun ELSE q) /\ job[q].id \in Chat!Ids
    BY DEF ChatInv, Chat!CliKnown, RequestOK, Taken
  <2>2. proc'[job[q].id] = IF job[q].id = m.id THEN NoRun ELSE proc[job[q].id]
    BY <1>2, <1>3, <2>1 DEF ChatInv, ChatTypes, Chat!TypeOK
  <2> QED
    BY <1>2, <2>1, <2>2 DEF Chat!Stopped
<1>17. \A q \in Twins : WaitingOK(q)'
  <2> TAKE q \in Twins
  <2>0. Chat!Haunted(q)' = Chat!Haunted(q) /\ Chat!Waiting(q)' = Chat!Waiting(q) /\ Chat!Working(q)' = Chat!Working(q)
    BY <1>2 DEF Chat!Haunted, Chat!Waiting, Chat!Working
  <2> QED
    BY <1>2, <1>7, <1>9, <2>0 DEF ChatInv, WaitingOK
<1> QED
  BY <1>10, <1>11, <1>12, <1>13, <1>14, <1>15, <1>16, <1>17 DEF ChatInv

(* A job that moves leaves its request alone: one that is over was stopped,   *)
(* has answered, or has nobody to answer.                                    *)
Answered(r, ide) == down' = Append(down, [id |-> job[r].id, req |-> r, ide |-> ide])

JobGoes(r) ==
    /\ Chat!Working(r)
    /\ \E there \in {"look", "act", "more", "spawn", "cli", "fetch", "queue", "over"} :
         /\ job' = [job EXCEPT ![r].at = there]
         /\ there = "queue" => job[r].kind = "ide"
         /\ there = "over" => Chat!Stopped(r) \/ ~Chat!Lives(job[r].conn) \/ Answered(r, FALSE)
    /\ (Answered(r, FALSE) /\ Chat!Lives(job[r].conn)) \/ UNCHANGED down
    /\ UNCHANGED queue \/ (job[r].at = "queue" /\ queue' = queue \cup {r})
    /\ UNCHANGED <<dead, up, req, counter, conn, open, drops, chatKills>>

(* What an answer adds to the answers on their way.                          *)
LEMMA AnswerKeeps ==
    ASSUME ChatInv, NEW r \in Twins, NEW ide \in BOOLEAN, Taken(r),
           (Answered(r, ide) /\ Chat!Lives(job[r].conn)) \/ UNCHANGED down
    PROVE  /\ down' \in Seq(DownMessages)
           /\ \A i \in DOMAIN down : i \in DOMAIN down' /\ down'[i] = down[i]
           /\ \A i \in DOMAIN down' : \/ i \in DOMAIN down /\ down'[i] = down[i]
                                      \/ /\ open /\ down'[i].id = req[r].id /\ down'[i].req = r
                                         /\ job[r].conn = conn
           /\ Answered(r, ide) => \E i \in DOMAIN down' : down'[i].id = req[r].id
<1>1. down \in Seq(DownMessages) /\ job[r].id = req[r].id /\ job[r].id \in Chat!Ids
  BY DEF ChatInv, ChatTypes, RequestOK, Taken
<1> DEFINE d == [id |-> job[r].id, req |-> r, ide |-> ide]
<1>2. d \in DownMessages /\ d.id = req[r].id /\ d.req = r
  BY <1>1 DEF DownMessages
<1> HIDE DEF d
<1>3. CASE Answered(r, ide)
  <2>1. down' = Append(down, d)
    BY <1>3 DEF Answered, d
  <2>2. \/ open /\ job[r].conn = conn
        \/ UNCHANGED down
    BY DEF Chat!Lives
  <2>3. /\ down' \in Seq(DownMessages) /\ Len(down) \in Nat
        /\ DOMAIN down = 1 .. Len(down) /\ DOMAIN down' = 1 .. Len(down) + 1
        /\ \A i \in DOMAIN down : i \in DOMAIN down' /\ down'[i] = down[i]
        /\ down'[Len(down) + 1] = d /\ \A i \in DOMAIN down' : i \in DOMAIN down \/ i = Len(down) + 1
    BY <1>1, <1>2, <2>1, Sent
  <2>4. open /\ job[r].conn = conn
    BY <2>2, <2>3
  <2> QED  BY <1>2, <2>3, <2>4
<1>4. CASE ~Answered(r, ide)
  BY <1>1, <1>4
<1> QED  BY <1>3, <1>4

(* A job that moves keeps the invariant, if it keeps the CLIs known.         *)
LEMMA JobGoesKeeps ==
    ASSUME ChatInv, NEW r \in Twins, JobGoes(r), proc' \in [Chat!Ids -> Twins \cup {NoRun}], Chat!CliKnown'
    PROVE  ChatInv'
<1>1. PICK there \in {"look", "act", "more", "spawn", "cli", "fetch", "queue", "over"} :
         /\ job' = [job EXCEPT ![r].at = there]
         /\ there = "queue" => job[r].kind = "ide"
         /\ there = "over" => Chat!Stopped(r) \/ ~Chat!Lives(job[r].conn) \/ Answered(r, FALSE)
  BY DEF JobGoes
<1>2. /\ Chat!Working(r) /\ Taken(r) /\ UNCHANGED <<dead, up, req, counter, conn, open, drops, chatKills>>
      /\ (Answered(r, FALSE) /\ Chat!Lives(job[r].conn)) \/ UNCHANGED down
      /\ UNCHANGED queue \/ (job[r].at = "queue" /\ queue' = queue \cup {r})
  BY DEF JobGoes, Chat!Working, Taken
<1>3. /\ \A q \in Twins \ {r} : job'[q] = job[q]
      /\ job'[r].at = there /\ \A q \in Twins : job'[q].kind = job[q].kind /\ job'[q].id = job[q].id
                                            /\ job'[q].conn = job[q].conn
  BY <1>1 DEF ChatInv, ChatTypes, Chat!TypeOK
<1>4. /\ down' \in Seq(DownMessages)
      /\ \A i \in DOMAIN down : i \in DOMAIN down' /\ down'[i] = down[i]
      /\ \A i \in DOMAIN down' : \/ i \in DOMAIN down /\ down'[i] = down[i]
                                 \/ /\ open /\ down'[i].id = req[r].id /\ down'[i].req = r
                                    /\ job[r].conn = conn
      /\ Answered(r, FALSE) => \E i \in DOMAIN down' : down'[i].id = req[r].id
  BY <1>2, AnswerKeeps
<1>5. \A q \in Twins : Taken(q)' = Taken(q)
  BY <1>2, <1>3 DEF Taken
<1>6. \A q \in Twins : (\E i \in DOMAIN up : Asks(i, q)) <=> (\E i \in DOMAIN up : Asks(i, q))'
  BY <1>2 DEF Asks
<1>7. \A q \in Twins : OfConn(q)' <=> OfConn(q)
  BY <1>2, <1>3, <1>5 DEF OfConn, Asks
<1>8. ChatTypes'
  <2>1. job' \in [Twins -> [at : {"none", "look", "act", "more", "spawn", "cli", "fetch", "queue", "over"},
                           kind : Kinds \cup {"none"}, id : Chat!Ids \cup {0}, conn : 0 .. MaxDrops + MaxKills + 1]]
    <3>1. [job[r] EXCEPT !.at = there] \in
             [at : {"none", "look", "act", "more", "spawn", "cli", "fetch", "queue", "over"},
              kind : Kinds \cup {"none"}, id : Chat!Ids \cup {0}, conn : 0 .. MaxDrops + MaxKills + 1]
      BY DEF ChatInv, ChatTypes, Chat!TypeOK
    <3>2. job' = [job EXCEPT ![r] = [job[r] EXCEPT !.at = there]]
      BY <1>1
    <3> QED  BY <3>1, <3>2 DEF ChatInv, ChatTypes, Chat!TypeOK
  <2>2. queue' \subseteq {q \in Twins : Chat!Kind(q)' = "ide"}
    BY <1>2, <1>3 DEF ChatInv, ChatTypes, Chat!TypeOK, RequestOK, Chat!Kind
  <2> QED
    BY <1>2, <1>4, <2>1, <2>2 DEF ChatInv, ChatTypes, Chat!TypeOK
<1>9. \A q \in Twins : RequestOK(q)'
  <2> TAKE q \in Twins
  <2>1. job'[q].at = "queue" => job[q].at = "queue" \/ job[q].kind = "ide"
    BY <1>1, <1>3
  <2>2. q \in queue' => q \in queue \/ job[q].at = "queue"
    BY <1>2
  <2> QED
    BY <1>2, <1>3, <1>5, <2>1, <2>2 DEF ChatInv, RequestOK
<1>10. UpOK'
  BY <1>2, <1>5, Messages DEF ChatInv, UpOK, UpMessageOK, Asks
<1>11. DownOK'
  <2> SUFFICES ASSUME NEW i \in DOMAIN down'
               PROVE  /\ open /\ down'[i].id = req[down'[i].req].id /\ job'[down'[i].req].at # "none"
                      /\ job'[down'[i].req].conn = conn
    BY <1>2 DEF DownOK, Taken
  <2>1. CASE i \in DOMAIN down /\ down'[i] = down[i]
    <3>1. /\ open /\ down[i].id = req[down[i].req].id /\ Taken(down[i].req) /\ job[down[i].req].conn = conn
          /\ down[i].req \in Twins
      BY <2>1, Messages DEF ChatInv, DownOK
    <3>2. job'[down[i].req].at # "none"
      BY <1>3, <3>1 DEF Taken
    <3> QED  BY <1>3, <2>1, <3>1, <3>2
  <2>2. CASE open /\ down'[i].id = req[r].id /\ down'[i].req = r /\ job[r].conn = conn
    BY <1>3, <2>2
  <2> QED  BY <1>4, <2>1, <2>2
<1>12. AbortedOK'
  BY <1>2 DEF ChatInv, AbortedOK
<1>13. IdsOK'
  BY <1>2, <1>7 DEF ChatInv, IdsOK
<1>14. \A q \in Twins : WaitingOK(q)'
  <2> SUFFICES ASSUME NEW q \in Twins, Chat!Waiting(q) PROVE WaitingOK(q)'
    BY <1>2 DEF WaitingOK, Chat!Waiting
  <2>1. Chat!Haunted(q)' = Chat!Haunted(q) /\ open /\ OfConn(q)
    BY <1>2 DEF Chat!Haunted, ChatInv, WaitingOK
  <2>2. (\E i \in DOMAIN down : down[i].id = req[q].id) => \E i \in DOMAIN down' : down'[i].id = req'[q].id
    BY <1>2, <1>4
  <2>3. CASE q = r /\ there = "over"
    <3>1. Chat!Lives(job[r].conn)
      <4>1. \A i \in DOMAIN up : ~Asks(i, r)
        BY <1>2 DEF ChatInv, UpOK, UpMessageOK, Asks
      <4> QED  BY <2>1, <2>3, <4>1 DEF OfConn, Chat!Lives
    <3>2. Chat!Stopped(r) => Chat!Haunted(r)
      BY <1>2, <2>3 DEF ChatInv, RequestOK, AbortedOK, Chat!Stopped, Chat!Haunted, Chat!Waiting
    <3> QED
      BY <1>1, <1>2, <1>4, <1>7, <2>1, <2>3, <3>1, <3>2 DEF WaitingOK
  <2>4. CASE ~(q = r /\ there = "over")
    <3>1. Chat!Working(q) => Chat!Working(q)'
      BY <1>2, <1>3, <2>4 DEF Chat!Working
    <3> QED
      BY <1>2, <1>6, <1>7, <2>1, <2>2, <3>1 DEF ChatInv, WaitingOK
  <2> QED  BY <2>3, <2>4
<1> QED
  BY <1>8, <1>9, <1>10, <1>11, <1>12, <1>13, <1>14 DEF ChatInv

(* A job that goes on, unless it was stopped.                                *)
LEMMA JobGoesOn ==
    ASSUME ChatInv, NEW r \in Twins, Chat!Working(r), NEW next, Chat!GoesTo(r, next),
           next \subseteq {"look", "act", "more", "spawn", "cli", "fetch", "queue"},
           "queue" \in next => job[r].kind = "ide", UNCHANGED <<dead, up, Chat!workerVars>>
    PROVE  /\ JobGoes(r) /\ job'[r].at \in next \cup {"over"}
           /\ Chat!Stopped(r) => job'[r].at = "over"
<1>1. UNCHANGED <<down, queue, dead, up, req, counter, conn, open, drops, chatKills>>
  BY DEF Chat!GoesTo, Chat!Ends, Chat!workerVars
<1>2. CASE Chat!Stopped(r)
  <2>1. job' = [job EXCEPT ![r].at = "over"]
    BY <1>2 DEF Chat!GoesTo, Chat!MustEnd, Chat!Ends, Chat!SetJob, Chat!At
  <2>2. job'[r].at = "over"
    BY <2>1 DEF ChatInv, ChatTypes, Chat!TypeOK
  <2>3. \E x \in {"look", "act", "more", "spawn", "cli", "fetch", "queue", "over"} :
           /\ job' = [job EXCEPT ![r].at = x]
           /\ x = "queue" => job[r].kind = "ide"
           /\ x = "over" => Chat!Stopped(r) \/ ~Chat!Lives(job[r].conn) \/ Answered(r, FALSE)
    BY <1>2, <2>1
  <2> QED
    BY <1>1, <1>2, <2>2, <2>3 DEF JobGoes
<1>3. CASE ~Chat!Stopped(r)
  <2>1. PICK there \in next : job' = [job EXCEPT ![r].at = there]
    BY <1>3 DEF Chat!GoesTo, Chat!MustEnd, Chat!SetJob, Chat!At
  <2>2. there # "over" /\ there \in {"look", "act", "more", "spawn", "cli", "fetch", "queue", "over"}
    OBVIOUS
  <2>3. job'[r].at = there
    BY <2>1 DEF ChatInv, ChatTypes, Chat!TypeOK
  <2>4. JobGoes(r)
    <3>1. \E x \in {"look", "act", "more", "spawn", "cli", "fetch", "queue", "over"} :
             /\ job' = [job EXCEPT ![r].at = x]
             /\ x = "queue" => job[r].kind = "ide"
             /\ x = "over" => Chat!Stopped(r) \/ ~Chat!Lives(job[r].conn) \/ Answered(r, FALSE)
      BY <2>1, <2>2
    <3> QED  BY <1>1, <3>1 DEF JobGoes
  <2> QED
    BY <1>3, <2>3, <2>4
<1> QED  BY <1>2, <1>3

(* A job that answers is over.                                              *)
LEMMA Replied ==
    ASSUME ChatInv, NEW r \in Twins, Chat!Working(r), Chat!Reply(r), UNCHANGED <<dead, up, Chat!workerVars>>,
           UNCHANGED queue \/ (job[r].at = "queue" /\ queue' = queue \cup {r})
    PROVE  JobGoes(r) /\ job'[r].at = "over"
<1>1. job' = [job EXCEPT ![r].at = "over"] /\ UNCHANGED <<dead, up, req, counter, conn, open, drops, chatKills>>
  BY DEF Chat!Reply, Chat!SetJob, Chat!At, Chat!workerVars
<1>2. IF ~Chat!Stopped(r) /\ Chat!Lives(job[r].conn) THEN Answered(r, FALSE) ELSE UNCHANGED down
  BY DEF Chat!Reply, Answered
<1> QED
  BY <1>1, <1>2 DEF JobGoes, ChatInv, ChatTypes, Chat!TypeOK

(* A job that ends without an answer, or asks its provider.                  *)
LEMMA Goes ==
    ASSUME ChatInv, NEW r \in Twins, Chat!Working(r), NEW there \in {"look", "fetch", "over"},
           Chat!SetJob(r, Chat!At(r, there)), there = "over" => Chat!Stopped(r),
           UNCHANGED <<down, queue, dead, up, Chat!workerVars>>
    PROVE  JobGoes(r) /\ job'[r].at = there
<1>1. job' = [job EXCEPT ![r].at = there]
  BY DEF Chat!SetJob, Chat!At
<1>2. job'[r].at = there
  BY <1>1 DEF ChatInv, ChatTypes, Chat!TypeOK
<1>3. UNCHANGED <<down, queue, dead, up, req, counter, conn, open, drops, chatKills>>
  BY DEF Chat!workerVars
<1>4. \E x \in {"look", "act", "more", "spawn", "cli", "fetch", "queue", "over"} :
         /\ job' = [job EXCEPT ![r].at = x]
         /\ x = "queue" => job[r].kind = "ide"
         /\ x = "over" => Chat!Stopped(r) \/ ~Chat!Lives(job[r].conn) \/ Answered(r, FALSE)
  BY <1>1
<1> QED
  BY <1>2, <1>3, <1>4 DEF JobGoes

(* The steps of a job: none but the start of a CLI brings it there, and none   *)
(* of a job whose request was stopped makes it act or ask its CLI.            *)
LEMMA JobMoves ==
    ASSUME Chat!ChatRequestsAssumption, ChatInv, NEW r \in Twins,
           Chat!Queued(r) \/ Chat!Looked(r) \/ Chat!Acted(r) \/ Chat!Spawn(r) \/ Chat!CliEnds(r) \/ Chat!Fetched(r)
    PROVE  /\ JobGoes(r)
           /\ job'[r].at = "cli" => Chat!Spawn(r)
           /\ Chat!Stopped(r) => job'[r].at \notin {"act", "more", "cli"}
<1>1. CASE Chat!Queued(r)
  <2>1. /\ job[r].at = "queue" /\ Chat!Working(r) /\ Chat!Reply(r)
        /\ queue' = queue \cup {r} /\ UNCHANGED <<dead, up, Chat!workerVars>>
    BY <1>1 DEF Chat!Queued, Chat!Working
  <2> QED  BY <2>1, Replied
<1>2. CASE Chat!Looked(r)
  <2>1. job[r].at = "look" /\ Chat!Working(r) /\ UNCHANGED <<dead, up, Chat!workerVars>>
    BY <1>2 DEF Chat!Looked, Chat!Working
  <2>2. CASE Chat!Kind(r) # "direct" /\ Chat!GoesTo(r, Chat!Work(Chat!Kind(r)))
    <3>1. job[r].kind \in {"agent", "cli", "intent", "ide"}
      BY <2>1, <2>2 DEF ChatInv, RequestOK, Taken, Chat!ChatRequestsAssumption, Chat!Kind
    <3>2. /\ Chat!Work(Chat!Kind(r)) \subseteq {"look", "act", "spawn", "queue"}
          /\ "queue" \in Chat!Work(Chat!Kind(r)) => job[r].kind = "ide"
      BY <3>1 DEF Chat!Work, Chat!Kind
    <3> DEFINE next == Chat!Work(Chat!Kind(r))
    <3> HIDE DEF next
    <3>3. /\ Chat!GoesTo(r, next) /\ next \subseteq {"look", "act", "spawn", "queue"}
          /\ ("queue" \in next => job[r].kind = "ide")
      BY <2>2, <3>2 DEF next
    <3> QED  BY <2>1, <3>3, JobGoesOn
  <2>3. CASE Chat!SetJob(r, Chat!At(r, "fetch")) /\ UNCHANGED <<down, queue>>
    <3> DEFINE there == "fetch"
    <3>1. /\ Chat!SetJob(r, Chat!At(r, there)) /\ there \in {"look", "fetch", "over"} /\ there # "over"
          /\ there \notin {"act", "more", "cli"}
          /\ UNCHANGED <<down, queue, dead, up, Chat!workerVars>>
      BY <2>1, <2>3
    <3> HIDE DEF there
    <3> QED  BY <2>1, <3>1, Goes
  <2>4. CASE Chat!Reply(r) /\ UNCHANGED queue
    BY <2>1, <2>4, Replied
  <2> QED  BY <1>2, <2>2, <2>3, <2>4 DEF Chat!Looked
<1>3. CASE Chat!Acted(r)
  <2>1. job[r].at \in {"act", "more"} /\ Chat!Working(r) /\ UNCHANGED <<dead, up, Chat!workerVars>>
    BY <1>3 DEF Chat!Acted, Chat!Working
  <2>2. CASE Chat!GoesTo(r, {"look", IF job[r].at = "act" THEN "more" ELSE "act", "spawn"})
    <3> DEFINE next == {"look", IF job[r].at = "act" THEN "more" ELSE "act", "spawn"}
    <3>1. next \subseteq {"look", "act", "more", "spawn"} /\ Chat!GoesTo(r, next)
      BY <2>2
    <3> HIDE DEF next
    <3> QED  BY <2>1, <3>1, JobGoesOn
  <2>3. CASE Chat!SetJob(r, Chat!At(r, "look")) /\ UNCHANGED <<down, queue>>
    <3> DEFINE there == "look"
    <3>1. /\ Chat!SetJob(r, Chat!At(r, there)) /\ there \in {"look", "fetch", "over"} /\ there # "over"
          /\ there \notin {"act", "more", "cli"}
          /\ UNCHANGED <<down, queue, dead, up, Chat!workerVars>>
      BY <2>1, <2>3
    <3> HIDE DEF there
    <3> QED  BY <2>1, <3>1, Goes
  <2>4. CASE Chat!Reply(r) /\ UNCHANGED queue
    BY <2>1, <2>4, Replied
  <2> QED  BY <1>3, <2>2, <2>3, <2>4 DEF Chat!Acted
<1>4. CASE Chat!Spawn(r)
  <2>1. job[r].at = "spawn" /\ Chat!Working(r) /\ UNCHANGED <<dead, up, Chat!workerVars>> /\ Chat!GoesTo(r, {"cli"})
    BY <1>4 DEF Chat!Spawn, Chat!Working
  <2> QED  BY <1>4, <2>1, JobGoesOn
<1>5. CASE Chat!CliEnds(r)
  <2>1. job[r].at = "cli" /\ Chat!Working(r) /\ UNCHANGED <<dead, up, Chat!workerVars>>
    BY <1>5 DEF Chat!CliEnds, Chat!Working
  <2>2. CASE Chat!GoesTo(r, {"look", "act", "spawn"})
    BY <2>1, <2>2, JobGoesOn
  <2>3. CASE Chat!Stopped(r) /\ Chat!Ends(r)
    <3> DEFINE there == "over"
    <3>1. /\ Chat!SetJob(r, Chat!At(r, there)) /\ there \in {"look", "fetch", "over"} /\ Chat!Stopped(r)
          /\ there \notin {"act", "more", "cli"}
          /\ UNCHANGED <<down, queue, dead, up, Chat!workerVars>>
      BY <2>1, <2>3 DEF Chat!Ends
    <3> HIDE DEF there
    <3> QED  BY <2>1, <3>1, Goes
  <2>4. CASE Chat!Reply(r) /\ UNCHANGED queue
    BY <2>1, <2>4, Replied
  <2> QED  BY <1>5, <2>2, <2>3, <2>4 DEF Chat!CliEnds
<1>6. CASE Chat!Fetched(r)
  <2>1. job[r].at = "fetch" /\ Chat!Working(r) /\ UNCHANGED <<dead, up, Chat!workerVars>>
    BY <1>6 DEF Chat!Fetched, Chat!Working
  <2>2. CASE Chat!Stopped(r) /\ Chat!Ends(r)
    <3> DEFINE there == "over"
    <3>1. /\ Chat!SetJob(r, Chat!At(r, there)) /\ there \in {"look", "fetch", "over"} /\ Chat!Stopped(r)
          /\ there \notin {"act", "more", "cli"}
          /\ UNCHANGED <<down, queue, dead, up, Chat!workerVars>>
      BY <2>1, <2>2 DEF Chat!Ends
    <3> HIDE DEF there
    <3> QED  BY <2>1, <3>1, Goes
  <2>3. CASE Chat!Reply(r) /\ UNCHANGED queue
    BY <2>1, <2>3, Replied
  <2> QED  BY <1>6, <2>2, <2>3 DEF Chat!Fetched
<1> QED  BY <1>1, <1>2, <1>3, <1>4, <1>5, <1>6

(* Two jobs of one worker have two ids.                                      *)
LEMMA OtherId ==
    ASSUME ChatInv, chatKills = 0, NEW r \in Twins, NEW q \in Twins \ {r}, Taken(r), Taken(q)
    PROVE  job[q].id # job[r].id /\ job[q].id \in Chat!Ids /\ job[r].id \in Chat!Ids
BY DEF ChatInv, RequestOK, IdsOK

(* A step of a job keeps the invariant.                                      *)
LEMMA JobKeeps ==
    ASSUME Chat!ChatRequestsAssumption, ChatInv, NEW r \in Twins,
           Chat!Queued(r) \/ Chat!Looked(r) \/ Chat!Acted(r) \/ Chat!Spawn(r) \/ Chat!CliEnds(r) \/ Chat!Fetched(r)
    PROVE  ChatInv'
<1>1. JobGoes(r) /\ (job'[r].at = "cli" => Chat!Spawn(r))
  BY JobMoves
<1>2. /\ Taken(r) /\ job[r].id \in Chat!Ids /\ UNCHANGED <<dead, chatKills>>
      /\ \A q \in Twins \ {r} : job'[q] = job[q]
      /\ job'[r].id = job[r].id
  BY <1>1 DEF JobGoes, Taken, Chat!Working, ChatInv, ChatTypes, Chat!TypeOK, RequestOK
<1>3. proc \in [Chat!Ids -> Twins \cup {NoRun}]
  BY DEF ChatInv, ChatTypes, Chat!TypeOK
<1>4. CASE Chat!Spawn(r) /\ ~Chat!Stopped(r)
  <2>1. proc' = [proc EXCEPT ![job[r].id] = r] /\ job[r].at = "spawn"
    BY <1>4 DEF Chat!Spawn
  <2>2. ASSUME chatKills = 0, NEW q \in Twins \ {r}, job[q].at = "cli"
        PROVE  proc'[job[q].id] = IF Chat!Stopped(q) THEN NoRun ELSE q
    <3>1. proc[job[q].id] = (IF Chat!Stopped(q) THEN NoRun ELSE q) /\ Taken(q)
      BY <2>2 DEF ChatInv, Chat!CliKnown, Taken
    <3>2. proc'[job[q].id] = proc[job[q].id]
      BY <1>2, <1>3, <2>1, <2>2, <3>1, OtherId
    <3> QED  BY <3>1, <3>2
  <2>3. Chat!CliKnown'
    BY <1>2, <1>3, <1>4, <2>1, <2>2 DEF Chat!CliKnown, Chat!Stopped
  <2> QED
    BY <1>1, <1>3, <2>1, <2>3, JobGoesKeeps
<1>5. CASE Chat!CliEnds(r)
  <2>1. proc' = [proc EXCEPT ![job[r].id] = NoRun] /\ job[r].at = "cli" /\ ~Chat!Spawn(r)
    BY <1>5 DEF Chat!CliEnds, Chat!Spawn
  <2>2. ASSUME chatKills = 0, NEW q \in Twins \ {r}, job[q].at = "cli"
        PROVE  proc'[job[q].id] = IF Chat!Stopped(q) THEN NoRun ELSE q
    <3>1. proc[job[q].id] = (IF Chat!Stopped(q) THEN NoRun ELSE q) /\ Taken(q)
      BY <2>2 DEF ChatInv, Chat!CliKnown, Taken
    <3>2. proc'[job[q].id] = proc[job[q].id]
      BY <1>2, <1>3, <2>1, <2>2, <3>1, OtherId
    <3> QED  BY <3>1, <3>2
  <2>3. Chat!CliKnown'
    BY <1>1, <1>2, <2>1, <2>2 DEF Chat!CliKnown, Chat!Stopped
  <2> QED
    BY <1>1, <1>3, <2>1, <2>3, JobGoesKeeps
<1>6. CASE UNCHANGED proc /\ job'[r].at # "cli"
  <2>1. Chat!CliKnown'
    BY <1>2, <1>6 DEF ChatInv, Chat!CliKnown, Chat!Stopped
  <2> QED
    BY <1>1, <1>3, <1>6, <2>1, JobGoesKeeps
<1>7. ASSUME Chat!Spawn(r), Chat!Stopped(r) PROVE UNCHANGED proc /\ job'[r].at # "cli"
  BY <1>7, JobMoves DEF Chat!Spawn
<1> QED
  BY <1>1, <1>4, <1>5, <1>6, <1>7 DEF Chat!Queued, Chat!Looked, Chat!Acted, Chat!Fetched

(* A stop is forgotten when the job is over.                                 *)
LEMMA EvictKeeps == ASSUME ChatInv, NEW n \in Chat!Ids, Chat!Evict(n) PROVE ChatInv'
<1>1. /\ \A r \in Twins : Chat!Working(r) => job[r].id # n
      /\ dead' = dead \ {n}
      /\ UNCHANGED <<job, proc, up, down, queue, req, counter, conn, open, drops, chatKills>>
  BY DEF Chat!Evict, Chat!workerVars
<1>2. ChatTypes'
  BY <1>1 DEF ChatInv, ChatTypes, Chat!TypeOK, Chat!Kind
<1>3. \A r \in Twins : RequestOK(r)'
  BY <1>1 DEF ChatInv, RequestOK, Taken
<1>4. \A r \in Twins : WaitingOK(r)'
  BY <1>1 DEF ChatInv, WaitingOK, Chat!Waiting, Chat!Working, Chat!Haunted, OfConn, Taken, Asks
<1>5. UpOK'
  BY <1>1 DEF ChatInv, UpOK, UpMessageOK, Taken, Asks
<1>6. DownOK' /\ AbortedOK'
  BY <1>1 DEF ChatInv, DownOK, AbortedOK, Taken
<1>7. IdsOK'
  BY <1>1 DEF ChatInv, IdsOK, OfConn, Taken, Asks
<1>8. Chat!CliKnown'
  BY <1>1 DEF ChatInv, Chat!CliKnown, Chat!Stopped, Chat!Working
<1> QED
  BY <1>2, <1>3, <1>4, <1>5, <1>6, <1>7, <1>8 DEF ChatInv

(* The agent of the IDE answers, or the request leaves its queue unanswered.  *)
LEMMA QueueKeeps == ASSUME ChatInv, NEW r \in Twins, Chat!Respond(r) \/ Chat!QueueExpires(r) PROVE ChatInv'
<1>1. /\ r \in queue /\ queue' = queue \ {r}
      /\ UNCHANGED <<job, proc, dead, up, req, counter, conn, open, drops, chatKills>>
  BY DEF Chat!Respond, Chat!QueueExpires, Chat!workerVars
<1>2. (Answered(r, TRUE) /\ Chat!Lives(job[r].conn)) \/ UNCHANGED down
  BY DEF Chat!Respond, Chat!QueueExpires, Answered
<1>3. Taken(r)
  BY <1>1 DEF ChatInv, RequestOK
<1>4. /\ down' \in Seq(DownMessages)
      /\ \A i \in DOMAIN down : i \in DOMAIN down' /\ down'[i] = down[i]
      /\ \A i \in DOMAIN down' : \/ i \in DOMAIN down /\ down'[i] = down[i]
                                 \/ /\ open /\ down'[i].id = req[r].id /\ down'[i].req = r
                                    /\ job[r].conn = conn
  BY <1>2, <1>3, AnswerKeeps
<1>5. ChatTypes'
  BY <1>1, <1>4 DEF ChatInv, ChatTypes, Chat!TypeOK, Chat!Kind
<1>6. \A q \in Twins : RequestOK(q)'
  BY <1>1 DEF ChatInv, RequestOK, Taken
<1>7. \A q \in Twins : WaitingOK(q)'
  <2> TAKE q \in Twins
  <2>1. (\E i \in DOMAIN down : down[i].id = req[q].id) => \E i \in DOMAIN down' : down'[i].id = req'[q].id
    BY <1>1, <1>4
  <2> QED
    BY <1>1, <2>1 DEF ChatInv, WaitingOK, Chat!Waiting, Chat!Working, Chat!Haunted, OfConn, Taken, Asks
<1>8. UpOK'
  BY <1>1 DEF ChatInv, UpOK, UpMessageOK, Taken, Asks
<1>9. DownOK'
  BY <1>1, <1>3, <1>4, Messages DEF ChatInv, DownOK, Taken
<1>10. AbortedOK' /\ Chat!CliKnown'
  BY <1>1 DEF ChatInv, AbortedOK, Chat!CliKnown, Chat!Stopped
<1>11. IdsOK'
  BY <1>1 DEF ChatInv, IdsOK, OfConn, Taken, Asks
<1> QED
  BY <1>5, <1>6, <1>7, <1>8, <1>9, <1>10, <1>11 DEF ChatInv

(* A step of nobody changes nothing.                                         *)
LEMMA StillChat == ASSUME ChatInv, UNCHANGED Chat!vars PROVE ChatInv'
<1>1. UNCHANGED <<req, counter, conn, open, up, down, job, proc, dead, queue, drops, chatKills>>
  BY DEF Chat!vars
<1>2. ChatTypes'
  BY <1>1 DEF ChatInv, ChatTypes, Chat!TypeOK, Chat!Kind
<1>3. \A q \in Twins : RequestOK(q)'
  BY <1>1 DEF ChatInv, RequestOK, Taken
<1>4. \A q \in Twins : WaitingOK(q)'
  BY <1>1 DEF ChatInv, WaitingOK, Chat!Waiting, Chat!Working, Chat!Haunted, OfConn, Taken, Asks
<1>5. UpOK'
  BY <1>1 DEF ChatInv, UpOK, UpMessageOK, Taken, Asks
<1>6. DownOK' /\ AbortedOK' /\ Chat!CliKnown'
  BY <1>1 DEF ChatInv, DownOK, AbortedOK, Chat!CliKnown, Chat!Stopped, Taken
<1>7. IdsOK'
  BY <1>1 DEF ChatInv, IdsOK, OfConn, Taken, Asks
<1> QED
  BY <1>2, <1>3, <1>4, <1>5, <1>6, <1>7 DEF ChatInv

(* At the start nobody has asked.                                            *)
LEMMA InitChat == ASSUME Chat!ChatRequestsAssumption, Chat!Init PROVE ChatInv
<1>1. /\ up = << >> /\ down = << >> /\ dead = {} /\ queue = {} /\ counter = 0 /\ open = TRUE /\ conn = 1
      /\ drops = 0 /\ chatKills = 0
      /\ req = [r \in Twins |-> [st |-> "new", id |-> 0, by |-> NoRun, ide |-> FALSE]]
      /\ job = [r \in Twins |-> [at |-> "none", kind |-> "none", id |-> 0, conn |-> 0]]
      /\ proc = [i \in Chat!Ids |-> NoRun]
  BY DEF Chat!Init, Chat!NewReq, Chat!NewJob
<1>2. \A r \in Twins : req[r].st = "new" /\ req[r].id = 0 /\ req[r].by = NoRun /\ job[r].at = "none"
  BY <1>1
<1>3. DOMAIN up = {} /\ DOMAIN down = {} /\ up \in Seq(UpMessages) /\ down \in Seq(DownMessages)
  BY <1>1
<1>4. ChatTypes
  <2>1. MaxDrops + MaxKills + 1 \in Nat
    BY DEF Chat!ChatRequestsAssumption
  <2>2. Chat!TypeOK
    BY <1>1, <2>1 DEF Chat!TypeOK
  <2> QED
    BY <1>1, <1>3, <2>2 DEF ChatTypes, Chat!ChatRequestsAssumption
<1>5. \A r \in Twins : RequestOK(r) /\ WaitingOK(r)
  BY <1>1, <1>2 DEF RequestOK, WaitingOK, Chat!Waiting, Taken
<1>6. UpOK /\ DownOK /\ AbortedOK /\ Chat!CliKnown
  BY <1>1, <1>2, <1>3 DEF UpOK, DownOK, AbortedOK, Chat!CliKnown
<1>7. IdsOK
  <2>1. Cardinality({r \in Twins : req[r].st # "new"}) = Cardinality({})
    <3>1. {r \in Twins : req[r].st # "new"} = {}
      BY <1>2
    <3> QED  BY <3>1, Zenon
  <2>2. counter <= Cardinality({r \in Twins : req[r].st # "new"})
    BY <1>1, <2>1, FS_EmptySet
  <2>3. \A r \in Twins : ~OfConn(r)
    BY <1>2, <1>3 DEF OfConn, Taken
  <2> QED
    BY <1>2, <2>2, <2>3 DEF IdsOK
<1> QED
  BY <1>4, <1>5, <1>6, <1>7 DEF ChatInv

(* A step keeps the invariant.                                               *)
LEMMA StepChat == ASSUME Chat!ChatRequestsAssumption, ChatInv, [Chat!Next]_(Chat!vars) PROVE ChatInv'
<1>1. CASE UNCHANGED Chat!vars
  BY <1>1, StillChat
<1>2. CASE Chat!Take
  <2>1. up # << >> /\ up' = Tail(up) /\ UNCHANGED Chat!workerVars
    BY <1>2 DEF Chat!Take
  <2>2. CASE Chat!TakeRequest(Head(up), Head(up).req)
    BY <2>1, <2>2, TakeRequestKeeps
  <2>3. CASE Chat!TakeAbort(Head(up))
    BY <2>1, <2>3, TakeAbortKeeps
  <2> QED  BY <1>2, <2>2, <2>3 DEF Chat!Take
<1>3. ASSUME NEW r \in Twins, NEW kind \in Kinds, Chat!Chat(r, kind) PROVE ChatInv'
  BY <1>3, AskedKeeps
<1>4. ASSUME NEW r \in Twins, Chat!Stop(r) PROVE ChatInv'
  BY <1>4, ChatStopKeeps
<1>5. CASE Chat!Receive
  BY <1>5, ReceiveKeeps
<1>6. CASE Chat!Drop \/ Chat!Kill
  BY <1>6, BrokenKeeps
<1>7. CASE Chat!Connect
  BY <1>7, ConnectKeeps
<1>8. ASSUME NEW r \in Twins,
             Chat!Queued(r) \/ Chat!Looked(r) \/ Chat!Acted(r) \/ Chat!Spawn(r) \/ Chat!CliEnds(r) \/ Chat!Fetched(r)
      PROVE  ChatInv'
  BY <1>8, JobKeeps
<1>9. ASSUME NEW r \in Twins, Chat!Respond(r) \/ Chat!QueueExpires(r) PROVE ChatInv'
  BY <1>9, QueueKeeps
<1>10. ASSUME NEW n \in Chat!Ids, Chat!Evict(n) PROVE ChatInv'
  BY <1>10, EvictKeeps
<1> QED
  BY <1>1, <1>2, <1>3, <1>4, <1>5, <1>6, <1>7, <1>8, <1>9, <1>10 DEF Chat!Next, Chat!AllSettled

(* No step of a job whose request was stopped makes it act.                  *)
LEMMA StepObeysChat == ASSUME Chat!ChatRequestsAssumption, ChatInv, [Chat!Next]_(Chat!vars) PROVE Chat!ActsNoMore
<1> SUFFICES ASSUME NEW r \in Twins, Chat!Working(r), Chat!Stopped(r), job'[r] # job[r]
             PROVE  job'[r].at \notin {"act", "more", "cli"}
  BY DEF Chat!ActsNoMore
<1>1. job' # job
  OBVIOUS
<1>2. CASE Chat!Take
  <2>1. Chat!TakeRequest(Head(up), Head(up).req) /\ up # << >>
    BY <1>1, <1>2 DEF Chat!Take, Chat!TakeAbort
  <2>2. up[1] \in UpMessages /\ 1 \in DOMAIN up /\ Head(up) = up[1] /\ up[1].req \in Twins
    BY <2>1, TakenFrom, Messages DEF ChatInv, ChatTypes
  <2>3. ~Taken(up[1].req)
    BY <2>1, <2>2 DEF ChatInv, UpOK, UpMessageOK, Chat!TakeRequest
  <2>4. r # up[1].req
    BY <2>3 DEF Taken, Chat!Working
  <2>5. PICK x : job' = [job EXCEPT ![up[1].req] = x]
    BY <2>1, <2>2 DEF Chat!TakeRequest, Chat!SetJob
  <2> QED
    BY <2>4, <2>5 DEF ChatInv, ChatTypes, Chat!TypeOK
<1>3. ASSUME NEW q \in Twins,
             Chat!Queued(q) \/ Chat!Looked(q) \/ Chat!Acted(q) \/ Chat!Spawn(q) \/ Chat!CliEnds(q) \/ Chat!Fetched(q)
      PROVE  job'[r].at \notin {"act", "more", "cli"}
  <2>1. JobGoes(q) /\ (Chat!Stopped(q) => job'[q].at \notin {"act", "more", "cli"})
    BY <1>3, JobMoves
  <2>2. \A p \in Twins \ {q} : job'[p] = job[p]
    BY <2>1 DEF JobGoes, ChatInv, ChatTypes, Chat!TypeOK
  <2> QED  BY <2>1, <2>2
<1> QED
  BY <1>1, <1>2, <1>3 DEF Chat!Next, Chat!Chat, Chat!Stop, Chat!Receive, Chat!Drop, Chat!Kill, Chat!Broken,
                          Chat!Connect, Chat!Respond, Chat!QueueExpires, Chat!Evict,
                          Chat!AllSettled, Chat!vars

-----------------------------------------------------------------------------
(* The theorems about chat requests.                                       *)

(* A step of the run is one of the requests, or leaves them alone.           *)
LEMMA ChatSteps == [MCNext]_mcVars => [Chat!Next]_(Chat!vars)
BY DEF MCNext, mcVars, chatVars, Chat!vars

(* The invariant of the requests.                                           *)
LEMMA ChatSafe == MCSpec => []ChatInv
<1>1. MCInit => ChatInv
  BY InitChat, PartsAssumption DEF MCInit
<1>2. ChatInv /\ [MCNext]_mcVars => ChatInv'
  BY ChatSteps, StepChat, PartsAssumption
<1> QED
  BY <1>1, <1>2, PTL DEF MCSpec

(* Chat requests are true (pendingAiRequests, _safeSendAiResponse,            *)
(* activeCliProviderProcesses): for any requests, kinds, drops and ends of the *)
(* worker, an answer is the answer to its request, a request that waits is on  *)
(* its way, worked on or answered, or takes the id of one that was stopped,    *)
(* and the CLI of a job is known until it is killed, or not killed.            *)
THEOREM ChatTrueThere == MCSpec => []ChatTrue
<1>1. ChatInv => ChatTrue
  BY DEF ChatInv, ChatTypes, ChatTrue, RequestOK, WaitingOK, Asks, Chat!ChatTrue
<1> QED
  BY <1>1, ChatSafe, PTL

(* A stop is obeyed (_throwIfCancelled, isAborted; _checkAbort): a run that    *)
(* was stopped starts no tool and shows no plan, whatever it waited for when    *)
(* the stop came, and the job of a request that was stopped, once the server    *)
(* has the stop, acts no more and does not ask its CLI again.                  *)
THEOREM StopIsObeyed == MCSpec => StopObeyed
<1>1. MCInit => AgentInv
  BY InitAgent, PartsAssumption DEF MCInit
<1>2. AgentInv /\ [MCNext]_mcVars => AgentInv'
  BY AgentSteps, StepAgent, PartsAssumption
<1>3. AgentInv /\ ChatInv /\ [MCNext]_mcVars => [Agent!ActsNoMore /\ Chat!ActsNoMore]_mcVars
  BY AgentSteps, StepObeys, ChatSteps, StepObeysChat, PartsAssumption
<1> QED
  BY <1>1, <1>2, <1>3, ChatSafe, PTL DEF MCSpec, StopObeyed

-----------------------------------------------------------------------------
(* The lanes: the scene of the run is one of those of ToolLanesProofs.        *)

LanesProofs == INSTANCE ToolLanesProofs WITH
    Calls <- LaneCalls, Keys <- {1, 2, 3},
    Need <- a :> {1, 3} @@ b :> {1, 2} @@ [c \in Twins |-> {2}],
    Exclusive <- {a}, Parent <- [c \in LaneCalls |-> NoCall],
    Abortable <- Twins, Timed <- {b}, Impatient <- {}

(* The instance of the proofs has the definitions of that of the run.        *)
LEMMA LanesSame ==
    /\ Lanes!CallsAssumption => LanesProofs!CallsAssumption
    /\ Lanes!KeysAssumption => LanesProofs!KeysAssumption
    /\ Lanes!ScenarioAssumption => LanesProofs!ScenarioAssumption
    /\ Lanes!Init <=> LanesProofs!Init
    /\ [Lanes!Next]_(Lanes!vars) <=> [LanesProofs!Next]_(LanesProofs!vars)
    /\ LanesProofs!ExclusiveAlone /\ LanesProofs!ArrivalOrder => LanesOrdered
<1>1. /\ Lanes!CallsAssumption => LanesProofs!CallsAssumption
      /\ Lanes!KeysAssumption => LanesProofs!KeysAssumption
      /\ Lanes!ScenarioAssumption => LanesProofs!ScenarioAssumption
  BY Zenon DEF Lanes!CallsAssumption, LanesProofs!CallsAssumption, Lanes!KeysAssumption,
     LanesProofs!KeysAssumption, Lanes!ScenarioAssumption, LanesProofs!ScenarioAssumption,
     Lanes!GATE_KEY, LanesProofs!GATE_KEY
<1>2. Lanes!Init <=> LanesProofs!Init
  BY Zenon DEF Lanes!Init, LanesProofs!Init, Lanes!GATE_KEY, LanesProofs!GATE_KEY
<1>3. [Lanes!Next]_(Lanes!vars) <=> [LanesProofs!Next]_(LanesProofs!vars)
  BY Zenon
  DEF Lanes!Next, LanesProofs!Next, Lanes!ArriveRefused, LanesProofs!ArriveRefused,
      Lanes!ArriveAtGate, LanesProofs!ArriveAtGate, Lanes!ArriveAtKeys,
      LanesProofs!ArriveAtKeys, Lanes!ArriveAndRun, LanesProofs!ArriveAndRun,
      Lanes!ResumeRejected, LanesProofs!ResumeRejected, Lanes!ResumeNextKey,
      LanesProofs!ResumeNextKey, Lanes!ResumeStart, LanesProofs!ResumeStart, Lanes!Finish,
      LanesProofs!Finish, Lanes!Watchdog, LanesProofs!Watchdog, Lanes!Abort, LanesProofs!Abort,
      Lanes!AcquireTimeout, LanesProofs!AcquireTimeout, Lanes!DeadlinePasses,
      LanesProofs!DeadlinePasses, Lanes!AllSettled, LanesProofs!AllSettled, Lanes!MayArrive,
      LanesProofs!MayArrive, Lanes!Cancelled, LanesProofs!Cancelled, Lanes!NeedsGate,
      LanesProofs!NeedsGate, Lanes!StillWanted, LanesProofs!StillWanted, Lanes!First,
      LanesProofs!First, Lanes!LockGate, LanesProofs!LockGate, Lanes!LockKey,
      LanesProofs!LockKey, Lanes!GateFree, LanesProofs!GateFree, Lanes!KeyFree,
      LanesProofs!KeyFree, Lanes!GrantGate, LanesProofs!GrantGate, Lanes!CanGrant,
      LanesProofs!CanGrant, Lanes!Start, LanesProofs!Start, Lanes!GatePass,
      LanesProofs!GatePass, Lanes!Root, LanesProofs!Root, Lanes!Steps, LanesProofs!Steps,
      Lanes!Executing, LanesProofs!Executing, Lanes!Settled, LanesProofs!Settled, Lanes!Waiting,
      LanesProofs!Waiting, Lanes!Got, LanesProofs!Got, Lanes!IsNextJob, LanesProofs!IsNextJob,
      Lanes!Fails, LanesProofs!Fails, Lanes!ReleaseTicket, LanesProofs!ReleaseTicket,
      Lanes!Passed, LanesProofs!Passed, Lanes!PumpGate, LanesProofs!PumpGate, Lanes!PumpKeys,
      LanesProofs!PumpKeys, Lanes!NextWaiter, LanesProofs!NextWaiter, Lanes!Handed,
      LanesProofs!Handed, Lanes!HandedInOrder, LanesProofs!HandedInOrder, Lanes!Admitted,
      LanesProofs!Admitted, Lanes!DropWaiter, LanesProofs!DropWaiter, Lanes!RemoveAt,
      LanesProofs!RemoveAt, Lanes!ToSet, LanesProofs!ToSet, Lanes!Cardinality,
      LanesProofs!Cardinality, Lanes!vars, LanesProofs!vars, Lanes!lockVars,
      LanesProofs!lockVars, Lanes!GATE_KEY, LanesProofs!GATE_KEY
<1>4. LanesProofs!ExclusiveAlone /\ LanesProofs!ArrivalOrder => LanesOrdered
  BY Zenon
  DEF LanesOrdered, Lanes!ExclusiveAlone, LanesProofs!ExclusiveAlone, Lanes!ArrivalOrder,
      LanesProofs!ArrivalOrder, Lanes!Protected, LanesProofs!Protected, Lanes!Root,
      LanesProofs!Root, Lanes!Waiting, LanesProofs!Waiting, Lanes!First, LanesProofs!First
<1> QED  BY <1>1, <1>2, <1>3, <1>4

(* A step of the run is one of the lanes, or leaves them alone.              *)
LEMMA LaneSteps == [MCNext]_mcVars => [Lanes!Next]_(Lanes!vars)
BY DEF MCNext, mcVars, laneVars, Lanes!vars, Lanes!lockVars

(* The lanes are kept and the order of arrival with them (createToolLanes):    *)
(* for any interleaving of the scene, an exclusive call runs alone, and calls  *)
(* that cannot overlap run in the order in which they were made.              *)
THEOREM LanesOrderedThere == MCSpec => []LanesOrdered
<1>1. LanesProofs!Spec => []LanesProofs!ExclusiveAlone /\ []LanesProofs!ArrivalOrder
  BY LanesSame, PartsAssumption, LanesProofs!ExclusiveRunsAlone, LanesProofs!CallsRunInOrder
<1>2. MCInit => LanesProofs!Init
  BY LanesSame DEF MCInit
<1>3. [MCNext]_mcVars => [LanesProofs!Next]_(LanesProofs!vars)
  BY LanesSame, LaneSteps
<1>4. LanesProofs!ExclusiveAlone /\ LanesProofs!ArrivalOrder => LanesOrdered
  BY LanesSame
<1> QED  BY <1>1, <1>2, <1>3, <1>4, PTL DEF MCSpec, LanesProofs!Spec

=============================================================================
