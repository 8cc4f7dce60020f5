------------------------- MODULE BridgeCallsProofs -------------------------
(***************************************************************************)
(* OwnResult, StartedOnce, NoAbandonedWork and StaysCancellable, for any     *)
(* processes, finite set of calls and number of faults.  CallsInv is         *)
(* inductive and implies the invariants: its witness g lists the calls that  *)
(* each process has given ids to.  Core says where the message of each call  *)
(* is, who waits for what and what each id means; Tidy what is still to be   *)
(* stopped while the socket of the extension has never closed.  There is a   *)
(* section for each part of the invariant and in it a lemma for each kind    *)
(* of step.                                                                *)
(***************************************************************************)
EXTENDS BridgeCalls, SequenceTheorems, FiniteSetTheorems, TLAPS

-----------------------------------------------------------------------------
(* The invariant: types.                                                   *)

N == Cardinality(Calls)

Messages ==
    [type : {"call"}, id : 1 .. N, call : Calls] \cup
    [type : {"cancel"}, id : 1 .. N, call : {NoCall}]
Whats == Calls \cup {"timeout", "cancelled", "error"}
Results == [id : 1 .. N, what : Whats]
Entries == [id : 1 .. N, call : Calls, from : Procs \cup {NoProc}, sid : 0 .. N]
Holds == [call : Calls, from : Procs \cup {NoProc}, sid : 1 .. N]
WorkRecords ==
    [st : {"none", "queued", "running", "over"}, id : 0 .. N, aborted : BOOLEAN]
CallRecords ==
    [st : {"idle", "waiting", "pending", "done", "lost"}, aborted : BOOLEAN,
     answer : Whats \cup {"none"}]

ProcTypes ==
    /\ role \in [Procs -> {"primary", "proxy", "off"}]
    /\ linked \subseteq Procs
    /\ counter \in [Procs -> Nat]
    /\ ext \in Procs \cup {NoProc}
    /\ faults \in [drop : Nat, kill : Nat, crash : Nat, lost : BOOLEAN]

WaitTypes ==
    /\ pending \in [Procs -> SUBSET Entries]
    /\ \A p \in Procs : IsFiniteSet(pending[p])
    /\ held \in [Procs -> SUBSET Holds]

MessageTypes ==
    /\ fwd \in [Procs -> Seq(Messages)] /\ back \in [Procs -> Seq(Results)]
    /\ down \in Seq(Messages) /\ up \in Seq(Results)

WorkTypes ==
    /\ work \in [Calls -> WorkRecords]
    /\ \A c \in Calls : work[c].st # "none" => work[c].id # 0
    /\ registry \in [Ids -> Calls \cup {NoCall}]
    /\ call \in [Calls -> CallRecords]
    /\ begun \in [Calls -> 0 .. 2]

Types == ProcTypes /\ WaitTypes /\ MessageTypes /\ WorkTypes

(* Processes.                                                              *)

\* One process owns the port; links, held calls and the socket are where the
\* primary is, and a closed link carries nothing.
Links ==
    /\ \A p, q \in Procs : Primary(p) /\ Primary(q) => p = q
    /\ \A p \in linked : role[p] = "proxy"
    /\ NoPrimary => linked = {}
    /\ \A p \in Procs : p \notin linked => fwd[p] = <<>> /\ back[p] = <<>>
    /\ \A p \in Procs : held[p] # {} => Primary(p)
    /\ ext # NoProc => Primary(ext)

\* As long as no process has died, or the socket has never closed, the first
\* primary has gone on.
Steady == faults.crash = 0 \/ ~faults.lost

Settled ==
    /\ Steady => Primary(First)
    /\ ~faults.lost => /\ ext = First /\ \A p \in Procs : held[p] = {}
                       /\ \A p \in Procs : role[p] = "proxy" => p \in linked
    /\ faults.crash = 0 => \A p \in Procs : role[p] # "off" /\ (role[p] = "proxy" => p \in linked)

(* Where the message of a call is.                                         *)

Carries(m, c) == m.type = "call" /\ m.call = c
In(s, c) == \E m \in Range(s) : Carries(m, c)
Once(s, c) == \A i, j \in DOMAIN s : Carries(s[i], c) /\ Carries(s[j], c) => i = j

HeldFor(p, c) == {h \in held[p] : h.call = c}
IsHeld(c) == \E p \in Procs : HeldFor(p, c) # {}
IsFwd(c) == \E p \in Procs : In(fwd[p], c)

\* A call that was not sent has left no trace; the message of one that was sent
\* is in one place, and the extension has not heard of the call while it is.
Placed(c) ==
    /\ \A p \in Procs : In(fwd[p], c) => p = Home[c] /\ Once(fwd[p], c)
    /\ \A p \in Procs : HeldFor(p, c) # {} => p # Home[c]
    /\ \A p \in Procs : \A h, g \in HeldFor(p, c) : h = g
    /\ Once(down, c)
    /\ IsFwd(c) => ~IsHeld(c) /\ ~In(down, c)
    /\ IsHeld(c) => ~In(down, c)
    /\ work[c].st # "none" => ~IsFwd(c) /\ ~IsHeld(c) /\ ~In(down, c)
    /\ call[c].st \in {"idle", "waiting"} =>
         ~IsFwd(c) /\ ~IsHeld(c) /\ ~In(down, c) /\ work[c].st = "none" /\ begun[c] = 0
    /\ IsFwd(c) \/ IsHeld(c) \/ In(down, c) \/ work[c].st = "queued" => begun[c] = 0
    /\ begun[c] <= 1

(* Who waits for what.                                                     *)

\* Whoever waits has an entry of its own; entries have ids of their own.
Waiting ==
    /\ \A p \in Procs : \A r, q \in pending[p] : r.id = q.id => r = q
    /\ \A p \in Procs : \A r \in pending[p] :
         /\ r.from = p <=> Home[r.call] = p
         /\ r.from \in {Home[r.call], NoProc}
         /\ r.from = p => call[r.call].st = "pending" /\ r.sid \in {0, r.id}
         /\ r.from # p => r.sid # 0
         /\ r.from = p /\ r.sid = 0 => Primary(p)
         /\ r.from # p => Primary(p)
    /\ \A c \in Calls : call[c].st = "pending" => \E r \in pending[Home[c]] : r.call = c

\* What the primary holds came from where the call was made.
Holding == \A p \in Procs : \A h \in held[p] : h.from \in {Home[h.call], NoProc}

\* The calls that the processes have given ids to, in this order.
Numbered(g) ==
    /\ \A p \in Procs : /\ Len(g[p]) = counter[p]
                        /\ \A i, j \in 1 .. counter[p] : g[p][i] = g[p][j] => i = j
    /\ \A p \in Procs : \A i \in 1 .. counter[p] :
         /\ call[g[p][i]].st \notin {"idle", "waiting"}
         /\ Primary(p) => ~IsFwd(g[p][i]) /\ ~IsHeld(g[p][i])
    /\ \A p \in Procs : \A r \in pending[p] : r.id <= counter[p] /\ g[p][r.id] = r.call

\* id is the number of c at p.
Gave(g, p, id, c) == id <= counter[p] /\ g[p][id] = c

\* The answer m is that of the call with this number at p.
Answers(g, p, m) ==
    m.id <= counter[p] /\ m.what \in {g[p][m.id], "timeout", "cancelled", "error"}

\* While the first primary goes on, ids mean the same everywhere.
MeantMessages(g) ==
    /\ \A p \in Procs : \A m \in Range(fwd[p]) : m.type = "call" => Gave(g, p, m.id, m.call)
    /\ \A m \in Range(down) : m.type = "call" => Gave(g, First, m.id, m.call)

MeantWaits(g) ==
    /\ \A h \in held[First] : h.from # NoProc => Gave(g, h.from, h.sid, h.call)
    /\ \A r \in pending[First] :
         /\ r.from = First => r.sid = 0
         /\ r.from \notin {First, NoProc} => Gave(g, r.from, r.sid, r.call)

MeantWork(g) == \A c \in Calls : work[c].st # "none" => Gave(g, First, work[c].id, c)

MeantResults(g) ==
    /\ \A m \in Range(up) : Answers(g, First, m)
    /\ \A p \in Procs : \A m \in Range(back[p]) : Answers(g, p, m)

Meant(g) == Steady => MeantMessages(g) /\ MeantWaits(g) /\ MeantWork(g) /\ MeantResults(g)

\* What each client gets.
OwnAnswers ==
    faults.crash = 0 =>
        \A c \in Calls : call[c].answer \in {c, "none", "timeout", "cancelled", "error"}

\* All but what is still to be stopped; g are the numbers.
Core(g) ==
    /\ Types /\ Links /\ Settled
    /\ \A c \in Calls : Placed(c)
    /\ Waiting /\ Holding /\ OwnAnswers
    /\ g \in [Procs -> Seq(Calls)] /\ Numbered(g) /\ Meant(g)

(* What is still to be stopped.                                            *)

CancelIn(s, id) == Cancel(id) \in Range(s)

\* The message of c is followed by one that cancels it.
Dropped(s, c) ==
    \A i \in DOMAIN s :
        Carries(s[i], c) => \E j \in DOMAIN s : i < j /\ s[j] = Cancel(s[i].id)

\* The primary relays its entry r, of the call c, and hears of it when the client
\* no longer waits.
Informed(c, r) ==
    r.from # First =>
        /\ r.from \in linked
        /\ call[c].st = "pending" \/ CancelIn(fwd[r.from], r.sid)

\* The primary waits for the call c under this id.
Waited(c, id) == \E r \in pending[First] : r.id = id /\ r.call = c /\ Informed(c, r)

Stopped(c) ==
    /\ call[c].st # "pending" => \A p \in Procs : Dropped(fwd[p], c)
    /\ \/ Dropped(down, c)
       \/ \A m \in Range(down) : Carries(m, c) => Waited(c, m.id)
    /\ Alive(c) => registry[work[c].id] = c
    /\ Alive(c) /\ ~work[c].aborted => CancelIn(down, work[c].id) \/ Waited(c, work[c].id)

\* An answer on its way is that of a call that is over, or that the primary does
\* not wait for any more.
Closed(g) ==
    /\ \A m \in Range(up) : work[g[First][m.id]].st = "over"
    /\ \A p \in Procs : \A m \in Range(back[p]) :
         /\ \E k \in 1 .. counter[First] : g[First][k] = g[p][m.id]
         /\ \A r \in pending[First] : r.call # g[p][m.id]

\* As long as the socket has never closed.
Tidy(g) == ~faults.lost => (\A c \in Calls : Stopped(c)) /\ Closed(g)

CallsInv == \E g : Core(g) /\ Tidy(g)

-----------------------------------------------------------------------------
(* Lemmas about messages that come and go.                                 *)

(* What a message leaves behind when it is taken from a channel.            *)
LEMMA TailRange ==
    ASSUME NEW S, NEW s \in Seq(S), s # <<>>
    PROVE  /\ Head(s) \in S /\ Tail(s) \in Seq(S) /\ Head(s) = s[1]
           /\ 1 \in DOMAIN s /\ Len(s) \in Nat /\ DOMAIN s = 1 .. Len(s)
           /\ DOMAIN Tail(s) = 1 .. Len(s) - 1
           /\ \A i \in 1 .. Len(s) - 1 : Tail(s)[i] = s[i + 1]
           /\ Range(s) = {Head(s)} \cup Range(Tail(s))
<1>1. /\ Head(s) \in S /\ Tail(s) \in Seq(S) /\ Head(s) = s[1]
      /\ 1 \in DOMAIN s /\ Len(s) \in Nat /\ DOMAIN s = 1 .. Len(s)
      /\ DOMAIN Tail(s) = 1 .. Len(s) - 1
      /\ \A i \in 1 .. Len(s) - 1 : Tail(s)[i] = s[i + 1]
  OBVIOUS
<1>2. ASSUME NEW m \in Range(s)
      PROVE  m \in {Head(s)} \cup Range(Tail(s))
  <2>1. PICK i \in DOMAIN s : m = s[i]
    BY DEF Range
  <2>2. CASE i = 1
    BY <2>1, <2>2, <1>1
  <2>3. CASE i # 1
    <3>1. i - 1 \in 1 .. Len(s) - 1 /\ Tail(s)[i - 1] = m
      BY <2>1, <2>3, <1>1
    <3> QED  BY <3>1, <1>1 DEF Range
  <2> QED  BY <2>2, <2>3
<1>3. ASSUME NEW m \in {Head(s)} \cup Range(Tail(s))
      PROVE  m \in Range(s)
  <2>1. CASE m = Head(s)
    BY <2>1, <1>1 DEF Range
  <2>2. CASE m \in Range(Tail(s))
    <3>1. PICK i \in DOMAIN Tail(s) : m = Tail(s)[i]
      BY <2>2 DEF Range
    <3>2. i + 1 \in DOMAIN s /\ s[i + 1] = m
      BY <3>1, <1>1
    <3> QED  BY <3>2 DEF Range
  <2> QED  BY <2>1, <2>2
<1> QED  BY <1>1, <1>2, <1>3

(* What is said of calls in a channel when its first message is taken.      *)
LEMMA TailCalls ==
    ASSUME NEW S, NEW s \in Seq(S), s # <<>>, NEW c
    PROVE  /\ In(Tail(s), c) => In(s, c)
           /\ Once(s, c) => Once(Tail(s), c)
           /\ Once(s, c) /\ Carries(Head(s), c) => ~In(Tail(s), c)
           /\ Carries(Head(s), c) => In(s, c)
           /\ Dropped(s, c) => Dropped(Tail(s), c)
           /\ Dropped(s, c) /\ Carries(Head(s), c) => CancelIn(Tail(s), Head(s).id)
<1>1. /\ Head(s) = s[1] /\ 1 \in DOMAIN s /\ Len(s) \in Nat /\ DOMAIN s = 1 .. Len(s)
      /\ DOMAIN Tail(s) = 1 .. Len(s) - 1
      /\ \A i \in 1 .. Len(s) - 1 : Tail(s)[i] = s[i + 1]
      /\ Range(s) = {Head(s)} \cup Range(Tail(s))
  BY TailRange
<1>2. (In(Tail(s), c) => In(s, c)) /\ (Carries(Head(s), c) => In(s, c))
  BY <1>1 DEF In
<1>3. ASSUME Once(s, c)
      PROVE  Once(Tail(s), c)
  <2> SUFFICES ASSUME NEW i \in DOMAIN Tail(s), NEW j \in DOMAIN Tail(s),
                      Carries(Tail(s)[i], c), Carries(Tail(s)[j], c)
               PROVE  i = j
    BY DEF Once
  <2>1. /\ i + 1 \in DOMAIN s /\ j + 1 \in DOMAIN s /\ i \in Nat /\ j \in Nat
        /\ Carries(s[i + 1], c) /\ Carries(s[j + 1], c)
    BY <1>1
  <2> QED  BY <2>1, <1>3 DEF Once
<1>4. ASSUME Once(s, c), Carries(Head(s), c), In(Tail(s), c)
      PROVE  FALSE
  <2>1. PICK i \in DOMAIN Tail(s) : Carries(Tail(s)[i], c)
    BY <1>4 DEF In, Range
  <2>2. i + 1 \in DOMAIN s /\ i + 1 # 1 /\ Carries(s[i + 1], c) /\ Carries(s[1], c)
    BY <2>1, <1>1, <1>4
  <2> QED  BY <2>2, <1>1, <1>4 DEF Once
<1>5. ASSUME Dropped(s, c)
      PROVE  Dropped(Tail(s), c)
  <2> SUFFICES ASSUME NEW i \in DOMAIN Tail(s), Carries(Tail(s)[i], c)
               PROVE  \E j \in DOMAIN Tail(s) : i < j /\ Tail(s)[j] = Cancel(Tail(s)[i].id)
    BY DEF Dropped
  <2>1. i + 1 \in DOMAIN s /\ i \in Nat /\ s[i + 1] = Tail(s)[i]
    BY <1>1
  <2>2. PICK j \in DOMAIN s : i + 1 < j /\ s[j] = Cancel(Tail(s)[i].id)
    BY <2>1, <1>5 DEF Dropped
  <2>3. j - 1 \in DOMAIN Tail(s) /\ i < j - 1 /\ Tail(s)[j - 1] = s[j]
    BY <2>1, <2>2, <1>1
  <2> QED  BY <2>2, <2>3
<1>6. ASSUME Dropped(s, c), Carries(Head(s), c)
      PROVE  CancelIn(Tail(s), Head(s).id)
  <2>1. PICK j \in DOMAIN s : 1 < j /\ s[j] = Cancel(s[1].id)
    BY <1>6, <1>1 DEF Dropped
  <2>2. j - 1 \in DOMAIN Tail(s) /\ Tail(s)[j - 1] = s[j]
    BY <2>1, <1>1
  <2> QED  BY <2>1, <2>2, <1>1 DEF CancelIn, Range
<1> QED  BY <1>2, <1>3, <1>4, <1>5, <1>6

(* What messages that are sent find before them.                            *)
LEMMA ConcatRange ==
    ASSUME NEW S, NEW s \in Seq(S), NEW t \in Seq(S)
    PROVE  /\ s \o t \in Seq(S) /\ Len(s) \in Nat /\ Len(t) \in Nat
           /\ DOMAIN s = 1 .. Len(s) /\ DOMAIN t = 1 .. Len(t)
           /\ DOMAIN (s \o t) = 1 .. Len(s) + Len(t)
           /\ \A i \in DOMAIN s : (s \o t)[i] = s[i]
           /\ \A i \in DOMAIN t : Len(s) + i \in DOMAIN (s \o t) /\ (s \o t)[Len(s) + i] = t[i]
           /\ \A i \in DOMAIN (s \o t) : i \notin DOMAIN s =>
                i - Len(s) \in DOMAIN t /\ (s \o t)[i] = t[i - Len(s)]
           /\ Range(s \o t) = Range(s) \cup Range(t)
<1>1. /\ s \o t \in Seq(S) /\ Len(s) \in Nat /\ Len(t) \in Nat
      /\ DOMAIN s = 1 .. Len(s) /\ DOMAIN t = 1 .. Len(t)
      /\ DOMAIN (s \o t) = 1 .. Len(s) + Len(t)
      /\ \A i \in 1 .. Len(s) + Len(t) :
           (s \o t)[i] = IF i <= Len(s) THEN s[i] ELSE t[i - Len(s)]
  BY ConcatProperties, LenProperties
<1>2. \A i \in DOMAIN s : i \in DOMAIN (s \o t) /\ (s \o t)[i] = s[i]
  BY <1>1
<1>3. \A i \in DOMAIN t : Len(s) + i \in DOMAIN (s \o t) /\ (s \o t)[Len(s) + i] = t[i]
  BY <1>1
<1>4. \A i \in DOMAIN (s \o t) : i \notin DOMAIN s =>
        i - Len(s) \in DOMAIN t /\ (s \o t)[i] = t[i - Len(s)]
  BY <1>1
<1> DEFINE u == s \o t
<1>5. /\ u \in Seq(S) /\ Len(s) \in Nat /\ Len(t) \in Nat
      /\ DOMAIN s = 1 .. Len(s) /\ DOMAIN t = 1 .. Len(t)
      /\ DOMAIN u = 1 .. Len(s) + Len(t)
      /\ \A i \in DOMAIN s : i \in DOMAIN u /\ u[i] = s[i]
      /\ \A i \in DOMAIN t : Len(s) + i \in DOMAIN u /\ u[Len(s) + i] = t[i]
      /\ \A i \in DOMAIN u : i \notin DOMAIN s =>
            i - Len(s) \in DOMAIN t /\ u[i] = t[i - Len(s)]
  BY <1>1, <1>2, <1>3, <1>4, Zenon
<1> HIDE DEF u
<1>6. ASSUME NEW m
      PROVE  m \in Range(u) <=> m \in Range(s) \cup Range(t)
  <2>1. m \in Range(s) => m \in Range(u)
    BY <1>5 DEF Range
  <2>2. m \in Range(t) => m \in Range(u)
    BY <1>5 DEF Range
  <2>3. m \in Range(u) => m \in Range(s) \cup Range(t)
    BY <1>5 DEF Range
  <2> QED  BY <2>1, <2>2, <2>3
<1> QED  BY <1>5, <1>6, Zenon DEF u

(* What is said of calls in a channel when messages are added.              *)
LEMMA ConcatCalls ==
    ASSUME NEW S, NEW s \in Seq(S), NEW t \in Seq(S), NEW c
    PROVE  /\ In(s \o t, c) <=> In(s, c) \/ In(t, c)
           /\ Once(s, c) /\ Once(t, c) /\ ~(In(s, c) /\ In(t, c)) => Once(s \o t, c)
           /\ Dropped(s, c) /\ Dropped(t, c) => Dropped(s \o t, c)
           /\ (\A m \in Range(s) : Carries(m, c) => CancelIn(t, m.id)) /\ Dropped(t, c)
                => Dropped(s \o t, c)
<1> DEFINE u == s \o t
<1>1. /\ Len(s) \in Nat /\ Len(t) \in Nat
      /\ DOMAIN s = 1 .. Len(s) /\ DOMAIN t = 1 .. Len(t)
      /\ DOMAIN u = 1 .. Len(s) + Len(t)
      /\ \A i \in DOMAIN s : u[i] = s[i]
      /\ \A i \in DOMAIN t : Len(s) + i \in DOMAIN u /\ u[Len(s) + i] = t[i]
      /\ \A i \in DOMAIN u : i \notin DOMAIN s =>
           i - Len(s) \in DOMAIN t /\ u[i] = t[i - Len(s)]
      /\ Range(u) = Range(s) \cup Range(t)
  BY ConcatRange
<1> HIDE DEF u
<1>2. In(u, c) <=> In(s, c) \/ In(t, c)
  BY <1>1 DEF In
<1>3. ASSUME Once(s, c), Once(t, c), ~(In(s, c) /\ In(t, c))
      PROVE  Once(u, c)
  <2> SUFFICES ASSUME NEW i \in DOMAIN u, NEW j \in DOMAIN u,
                      Carries(u[i], c), Carries(u[j], c)
               PROVE  i = j
    BY DEF Once
  <2>1. CASE i \in DOMAIN s /\ j \in DOMAIN s
    BY <2>1, <1>1, <1>3 DEF Once
  <2>2. CASE i \notin DOMAIN s /\ j \notin DOMAIN s
    <3>1. i - Len(s) = j - Len(s)
      BY <2>2, <1>1, <1>3 DEF Once
    <3> QED  BY <3>1, <1>1
  <2>3. CASE i \in DOMAIN s /\ j \notin DOMAIN s
    <3>1. In(s, c) /\ In(t, c)
      BY <2>3, <1>1 DEF In, Range
    <3> QED  BY <3>1, <1>3
  <2>4. CASE i \notin DOMAIN s /\ j \in DOMAIN s
    <3>1. In(s, c) /\ In(t, c)
      BY <2>4, <1>1 DEF In, Range
    <3> QED  BY <3>1, <1>3
  <2> QED  BY <2>1, <2>2, <2>3, <2>4
<1>4. ASSUME Dropped(t, c), NEW i \in DOMAIN u, i \notin DOMAIN s, Carries(u[i], c)
      PROVE  \E j \in DOMAIN u : i < j /\ u[j] = Cancel(u[i].id)
  <2>1. i - Len(s) \in DOMAIN t /\ u[i] = t[i - Len(s)]
    BY <1>1, <1>4
  <2>2. PICK j \in DOMAIN t : i - Len(s) < j /\ t[j] = Cancel(u[i].id)
    BY <2>1, <1>4 DEF Dropped
  <2>3. Len(s) + j \in DOMAIN u /\ u[Len(s) + j] = t[j] /\ i < Len(s) + j
    BY <2>2, <1>1
  <2> QED  BY <2>2, <2>3
<1>5. ASSUME Dropped(s, c), Dropped(t, c)
      PROVE  Dropped(u, c)
  <2>1. ASSUME NEW i \in DOMAIN s, Carries(u[i], c)
        PROVE  \E j \in DOMAIN u : i < j /\ u[j] = Cancel(u[i].id)
    <3>1. PICK j \in DOMAIN s : i < j /\ s[j] = Cancel(u[i].id)
      BY <2>1, <1>1, <1>5 DEF Dropped
    <3>2. j \in DOMAIN u /\ u[j] = s[j]
      BY <1>1
    <3> QED  BY <3>1, <3>2
  <2> QED  BY <2>1, <1>4, <1>5 DEF Dropped
<1>6. ASSUME \A m \in Range(s) : Carries(m, c) => CancelIn(t, m.id), Dropped(t, c)
      PROVE  Dropped(u, c)
  <2>1. ASSUME NEW i \in DOMAIN s, Carries(u[i], c)
        PROVE  \E j \in DOMAIN u : i < j /\ u[j] = Cancel(u[i].id)
    <3>1. u[i] \in Range(s)
      BY <1>1 DEF Range
    <3>2. PICK j \in DOMAIN t : t[j] = Cancel(u[i].id)
      BY <3>1, <2>1, <1>6 DEF CancelIn, Range
    <3>3. Len(s) + j \in DOMAIN u /\ u[Len(s) + j] = t[j] /\ i < Len(s) + j
      BY <1>1
    <3> QED  BY <3>2, <3>3
  <2> QED  BY <2>1, <1>4, <1>6 DEF Dropped
<1> QED  BY <1>2, <1>3, <1>5, <1>6 DEF u

(* The sequence of a finite set has all its elements.                       *)
LEMMA SeqOfSet ==
    ASSUME NEW T, IsFiniteSet(T)
    PROVE  SetToSeq(T) \in Seq(T) /\ Range(SetToSeq(T)) = T
<1> DEFINE n == Cardinality(T)
<1>1. n \in Nat /\ ExistsBijection(1 .. n, T)
  BY FS_CardinalityType
<1>2. \E f \in [1 .. n -> T] : IsInjective(f)
  BY <1>1 DEF ExistsBijection, Bijection, Injection
<1> DEFINE f == SetToSeq(T)
<1>3. f \in [1 .. n -> T] /\ IsInjective(f)
  BY <1>2 DEF SetToSeq
<1> HIDE DEF f
<1>4. f \in Seq(T) /\ DOMAIN f = 1 .. n
  BY <1>1, <1>3
<1>5. f \in Injection(1 .. n, T) /\ Cardinality(1 .. n) = n
  <2>1. f \in Injection(1 .. n, T)
    BY <1>3 DEF Injection
  <2>2. Cardinality(1 .. n) = n
    BY <1>1, FS_Interval
  <2> QED  BY <2>1, <2>2
<1>6. f \in Surjection(1 .. n, T)
  BY <1>5, FS_Injection
<1>7. Range(f) = T
  BY <1>3, <1>4, <1>6 DEF Surjection, Range
<1> QED  BY <1>4, <1>7 DEF f

Quiet(x) == x \in Seq(Messages) /\ \A m \in Range(x) : m.type = "cancel"

(* Cancelling sends no calls.                                               *)
LEMMA QuietCalls ==
    ASSUME NEW x, Quiet(x), NEW c
    PROVE  ~In(x, c) /\ Once(x, c) /\ Dropped(x, c)
<1>1. \A i \in DOMAIN x : x[i].type = "cancel"
  BY DEF Quiet, Range
<1> QED  BY <1>1 DEF Quiet, In, Once, Dropped, Carries

(* The cancellation of a set of entries is quiet and names each of them.    *)
LEMMA QuietSets ==
    ASSUME NEW S, IsFiniteSet(S), \A r \in S : r.id \in 1 .. N
    PROVE  /\ Quiet(SetToSeq({Cancel(r.id) : r \in S}))
           /\ \A e \in S : CancelIn(SetToSeq({Cancel(r.id) : r \in S}), e.id)
<1> DEFINE T == {Cancel(r.id) : r \in S}
<1>1. IsFiniteSet(T)
  <2> DEFINE f == [r \in S |-> Cancel(r.id)]
  <2>1. f \in [S -> T] /\ \A m \in T : \E r \in S : f[r] = m
    OBVIOUS
  <2>2. f \in Surjection(S, T)
    BY <2>1 DEF Surjection
  <2> QED  BY <2>2, FS_Surjection
<1>2. SetToSeq(T) \in Seq(T) /\ Range(SetToSeq(T)) = T
  BY <1>1, SeqOfSet
<1>3. \A m \in T : m \in Messages /\ m.type = "cancel"
  BY DEF Messages, Cancel
<1>4. SetToSeq(T) \in Seq(Messages)
  BY <1>2, <1>3, SeqMonotonic
<1>5. \A r \in S : Cancel(r.id) \in T
  OBVIOUS
<1> HIDE DEF T
<1>6. Quiet(SetToSeq(T)) /\ \A r \in S : CancelIn(SetToSeq(T), r.id)
  BY <1>2, <1>3, <1>4, <1>5 DEF Quiet, CancelIn
<1> QED  BY <1>6 DEF T

(* So is that of one entry.                                                 *)
LEMMA OneCancel ==
    ASSUME NEW id \in 1 .. N
    PROVE  Quiet(<<Cancel(id)>>) /\ CancelIn(<<Cancel(id)>>, id)
<1>1. Cancel(id) \in Messages /\ Cancel(id).type = "cancel"
  BY DEF Messages, Cancel
<1> DEFINE s == <<Cancel(id)>>
<1>2. s \in Seq(Messages) /\ Range(s) = {Cancel(id)}
  BY <1>1 DEF Range
<1> QED  BY <1>1, <1>2 DEF Quiet, CancelIn

(* What SendCall and Dispatch send.                                         *)
LEMMA OneCall ==
    ASSUME NEW id \in 1 .. N, NEW d \in Calls
    PROVE  /\ <<Call(id, d)>> \in Seq(Messages)
           /\ Range(<<Call(id, d)>>) = {Call(id, d)}
           /\ \A c : Once(<<Call(id, d)>>, c) /\ (In(<<Call(id, d)>>, c) <=> c = d)
           /\ \A c : c # d => Dropped(<<Call(id, d)>>, c)
<1>1. /\ Call(id, d) \in Messages /\ Call(id, d).type = "call" /\ Call(id, d).call = d
      /\ Call(id, d).id = id
  BY DEF Messages, Call
<1> DEFINE m == Call(id, d)
<1> HIDE DEF m
<1> DEFINE s == <<m>>
<1>2. s \in Seq(Messages) /\ DOMAIN s = {1} /\ s[1] = m
  BY <1>1 DEF m
<1>3. Range(s) = {m}
  BY <1>2 DEF Range
<1> HIDE DEF s
<1>4. \A c : Once(s, c) /\ (In(s, c) <=> c = d) /\ (c # d => Dropped(s, c))
  BY <1>1, <1>2, <1>3 DEF Once, In, Dropped, Carries, m
<1> QED  BY <1>2, <1>3, <1>4 DEF s, m

(* The same of a call that is cancelled at once.                            *)
LEMMA CallAndCancel ==
    ASSUME NEW id \in 1 .. N, NEW d \in Calls
    PROVE  /\ <<Call(id, d), Cancel(id)>> \in Seq(Messages)
           /\ Range(<<Call(id, d), Cancel(id)>>) = {Call(id, d), Cancel(id)}
           /\ \A c : /\ Once(<<Call(id, d), Cancel(id)>>, c)
                     /\ In(<<Call(id, d), Cancel(id)>>, c) <=> c = d
                     /\ Dropped(<<Call(id, d), Cancel(id)>>, c)
<1> DEFINE m == Call(id, d)
<1> DEFINE n == Cancel(id)
<1>1. /\ m \in Messages /\ m.type = "call" /\ m.call = d /\ m.id = id
      /\ n \in Messages /\ n.type = "cancel"
  BY DEF Messages, Call, Cancel
<1> HIDE DEF m, n
<1> DEFINE s == <<m, n>>
<1>2. s \in Seq(Messages) /\ DOMAIN s = {1, 2} /\ s[1] = m /\ s[2] = n
  BY <1>1
<1>3. Range(s) = {m, n}
  BY <1>2 DEF Range
<1> HIDE DEF s
<1>4. \A c : Once(s, c) /\ (In(s, c) <=> c = d)
  BY <1>1, <1>2, <1>3 DEF Once, In, Carries
<1>5. \A c : Dropped(s, c)
  BY <1>1, <1>2 DEF Dropped, Carries, n
<1> QED  BY <1>2, <1>3, <1>4, <1>5 DEF s, m, n

(* Min, as Begin uses it.                                                   *)
LEMMA MinOf ==
    ASSUME NEW n \in 0 .. 2
    PROVE  /\ Min({2, n + 1}) \in 0 .. 2
           /\ n = 0 => Min({2, n + 1}) = 1
<1>1. CASE n = 0
  <2>1. \E x \in {2, 1} : \A y \in {2, 1} : x <= y
    OBVIOUS
  <2>2. \A x \in {2, 1} : (\A y \in {2, 1} : x <= y) => x = 1
    OBVIOUS
  <2> QED  BY <1>1, <2>1, <2>2 DEF Min
<1>2. CASE n # 0
  <2>1. \E x \in {2, n + 1} : \A y \in {2, n + 1} : x <= y
    OBVIOUS
  <2>2. Min({2, n + 1}) \in {2, n + 1} /\ \A y \in {2, n + 1} : Min({2, n + 1}) <= y
    BY <2>1 DEF Min
  <2> QED  BY <1>2, <2>2
<1> QED  BY <1>1, <1>2

-----------------------------------------------------------------------------
(* Facts that the steps share.                                             *)

(* Every id that a process gives out is one of the registry.                *)
LEMMA NFacts == N \in Nat /\ Ids = 1 .. 3 * N /\ \A i \in 1 .. N : i \in Ids
<1>1. N \in Nat
  BY BridgeCallsAssumption, FS_CardinalityType DEF N
<1> QED  BY <1>1 DEF Ids, N

\* The call c has no number at p yet.
New(p, c) ==
    call[c].st \in {"idle", "waiting"} \/ (Primary(p) /\ (IsFwd(c) \/ IsHeld(c)))

(* A process gives a number to a call at most once, so no number is above N. *)
LEMMA Room ==
    ASSUME NEW p \in Procs, NEW c \in Calls, New(p, c),
           NEW g \in [Procs -> Seq(Calls)], Numbered(g), ProcTypes
    PROVE  counter[p] + 1 \in 1 .. N /\ \A i \in 1 .. counter[p] : g[p][i] # c
<1> DEFINE n == counter[p]
<1> DEFINE s == g[p]
<1>1. /\ n \in Nat /\ s \in Seq(Calls) /\ Len(s) = n
      /\ \A i, j \in 1 .. n : s[i] = s[j] => i = j
  BY DEF ProcTypes, Numbered
<1>2. \A i \in 1 .. n : s[i] # c
  BY DEF Numbered, New
<1> HIDE DEF n, s
<1> DEFINE f == [i \in 1 .. n + 1 |-> IF i = n + 1 THEN c ELSE s[i]]
<1>3. \A i \in 1 .. n : s[i] \in Calls
  BY <1>1
<1>4. f \in [1 .. n + 1 -> Calls] /\ DOMAIN f = 1 .. n + 1
  BY <1>1, <1>3
<1>5. \A i, j \in 1 .. n + 1 : f[i] = f[j] => i = j
  BY <1>1, <1>2
<1> HIDE DEF f
<1>6. f \in Injection(1 .. n + 1, Calls)
  BY <1>4, <1>5 DEF Injection, IsInjective
<1>7. Cardinality(1 .. n + 1) <= N /\ Cardinality(1 .. n + 1) = n + 1
  <2>1. Cardinality(1 .. n + 1) <= N
    BY <1>6, FS_Injection, BridgeCallsAssumption DEF N
  <2>2. Cardinality(1 .. n + 1) = n + 1
    BY <1>1, FS_Interval
  <2> QED  BY <2>1, <2>2
<1>8. n + 1 \in 1 .. N
  BY <1>1, <1>7, NFacts
<1> QED  BY <1>2, <1>8 DEF n, s

(* Whoever is told that p stops waiting for r.                              *)
LEMMA TellQuiet ==
    ASSUME NEW p \in Procs, NEW r \in Entries, Tell(p, r), MessageTypes
    PROVE  \E x, y :
             /\ Quiet(x) /\ Quiet(y)
             /\ fwd' = [fwd EXCEPT ![p] = @ \o x] /\ down' = down \o y
             /\ p \notin linked => x = <<>>
             /\ ext # p => y = <<>>
             /\ Proxied(p, r) /\ p \in linked => CancelIn(x, r.id)
             /\ ~Proxied(p, r) /\ ext = p => CancelIn(y, r.id)
<1> DEFINE m == <<Cancel(r.id)>>
<1>1. Quiet(m) /\ CancelIn(m, r.id)
  BY OneCancel DEF Entries
<1>2. Quiet(<<>>)
  BY DEF Quiet, Range
<1>3. fwd[p] \in Seq(Messages) /\ down \in Seq(Messages) /\ fwd \in [Procs -> Seq(Messages)]
  BY DEF MessageTypes
<1>4. Append(fwd[p], Cancel(r.id)) = fwd[p] \o m
  BY <1>3
<1> HIDE DEF m
<1>5. fwd[p] \o <<>> = fwd[p] /\ down \o <<>> = down
  BY <1>3, ConcatEmptySeq
<1>6. [fwd EXCEPT ![p] = @ \o <<>>] = fwd
  BY <1>3, <1>5
<1>7. CASE Proxied(p, r) /\ p \in linked
  <2>1. fwd' = [fwd EXCEPT ![p] = @ \o m] /\ down' = down \o <<>>
    BY <1>7, <1>4, <1>5 DEF Tell
  <2> QED  BY <2>1, <1>1, <1>2, <1>7
<1>8. CASE Proxied(p, r) /\ p \notin linked
  <2>1. fwd' = [fwd EXCEPT ![p] = @ \o <<>>] /\ down' = down \o <<>>
    BY <1>8, <1>5, <1>6 DEF Tell
  <2> QED  BY <2>1, <1>2, <1>8
<1>9. CASE ~Proxied(p, r)
  <2>1. CASE ext = p
    <3>1. fwd' = [fwd EXCEPT ![p] = @ \o <<>>] /\ down' = down \o m
      BY <1>9, <2>1, <1>6 DEF Tell, ToExt, m
    <3> QED  BY <3>1, <1>1, <1>2, <1>9, <2>1
  <2>2. CASE ext # p
    <3>1. fwd' = [fwd EXCEPT ![p] = @ \o <<>>] /\ down' = down \o <<>>
      BY <1>9, <2>2, <1>5, <1>6 DEF Tell, ToExt
    <3> QED  BY <3>1, <1>2, <1>9, <2>2
  <2> QED  BY <2>1, <2>2
<1> QED  BY <1>7, <1>8, <1>9

(* An answer settles its call and no other.                                 *)
LEMMA AnswerTypes ==
    ASSUME NEW c \in Calls, NEW what \in Whats \cup {"none"}, Answer(c, what), WorkTypes
    PROVE  /\ call' \in [Calls -> CallRecords]
           /\ call'[c].st = "done" /\ call'[c].answer = what
           /\ \A d \in Calls : d # c => call'[d] = call[d]
<1> DEFINE k == [[call[c] EXCEPT !.st = "done"] EXCEPT !.answer = what]
<1>1. call[c] \in CallRecords /\ call \in [Calls -> CallRecords]
  BY DEF WorkTypes
<1>2. k \in CallRecords
  BY <1>1 DEF CallRecords
<1>3. k.st = "done" /\ k.answer = what
  BY <1>1 DEF CallRecords
<1>4. call' = [call EXCEPT ![c] = k]
  BY <1>1 DEF Answer
<1> HIDE DEF k
<1> QED  BY <1>1, <1>2, <1>3, <1>4

(* A result that is delivered keeps the types.                              *)
LEMMA DeliverTypes ==
    ASSUME NEW p \in Procs, NEW r \in Entries, NEW what \in Whats, Deliver(p, r, what),
           r.from # p => r.sid # 0, ProcTypes, MessageTypes, WorkTypes
    PROVE  back' \in [Procs -> Seq(Results)] /\ call' \in [Calls -> CallRecords]
<1>1. CASE Relayed(p, r)
  <2>1. r.sid \in 1 .. N
    BY <1>1, NFacts DEF Relayed, Entries
  <2>2. Result(r.sid, what) \in Results
    BY <2>1 DEF Result, Results
  <2>3. \A q \in Procs : Append(back[q], Result(r.sid, what)) \in Seq(Results)
    BY <2>2 DEF MessageTypes
  <2>4. call' = call /\ back' = IF r.from \in linked
                    THEN [back EXCEPT ![r.from] = Append(@, Result(r.sid, what))]
                    ELSE back
    BY <1>1 DEF Deliver
  <2>5. CASE r.from \in linked
    <3> DEFINE e == Append(back[r.from], Result(r.sid, what))
    <3>1. e \in Seq(Results) /\ back' = [back EXCEPT ![r.from] = e]
      BY <2>3, <2>4, <2>5 DEF ProcTypes
    <3> HIDE DEF e
    <3> QED  BY <3>1, <2>4 DEF MessageTypes, WorkTypes
  <2>6. CASE r.from \notin linked
    BY <2>4, <2>6 DEF MessageTypes, WorkTypes
  <2> QED  BY <2>5, <2>6
<1>2. CASE ~Relayed(p, r)
  <2>1. Answer(r.call, what) /\ back' = back
    BY <1>2 DEF Deliver
  <2> QED  BY <2>1, AnswerTypes DEF Entries, MessageTypes
<1> QED  BY <1>1, <1>2

-----------------------------------------------------------------------------
(* Types.                                                                  *)

(* What goes with a number that p gives to the call c.                      *)
LEMMA DispatchTypes ==
    ASSUME NEW p \in Procs, NEW from \in Procs \cup {NoProc}, NEW sid \in 1 .. N, NEW c \in Calls,
           counter[p] + 1 \in 1 .. N, Dispatch(p, from, sid, c), Types
    PROVE  /\ counter' \in [Procs -> Nat]
           /\ pending' \in [Procs -> SUBSET Entries] /\ \A q \in Procs : IsFiniteSet(pending'[q])
           /\ down' \in Seq(Messages)
<1> DEFINE id == counter[p] + 1
<1>1. counter' = [counter EXCEPT ![p] = id] /\ down' = ToExt(p, <<Call(id, c)>>)
      /\ pending' = [pending EXCEPT ![p] = @ \cup {Entry(id, c, from, sid)}]
  BY DEF Dispatch, RelayId
<1>2. id \in 1 .. N /\ id \in Nat
  BY NFacts
<1> HIDE DEF id
<1>3. counter' \in [Procs -> Nat]
  BY <1>1, <1>2 DEF Types, ProcTypes
<1>4. Entry(id, c, from, sid) \in Entries
  BY <1>2, NFacts DEF Entry, Entries
<1>5. pending' \in [Procs -> SUBSET Entries]
  BY <1>1, <1>4 DEF Types, WaitTypes
<1>6. \A q \in Procs : IsFiniteSet(pending'[q])
  <2>1. IsFiniteSet(pending[p] \cup {Entry(id, c, from, sid)})
    BY FS_AddElement DEF Types, WaitTypes
  <2> QED  BY <1>1, <2>1 DEF Types, WaitTypes
<1>7. down' \in Seq(Messages)
  BY <1>1, <1>2, OneCall, ConcatRange DEF ToExt, Types, MessageTypes
<1> QED  BY <1>3, <1>5, <1>6, <1>7

(* A call that is sent keeps the types, if there is a number left for it.   *)
LEMMA SendTypes ==
    ASSUME NEW c \in Calls, SendCall(c), Types, counter[Home[c]] + 1 \in 1 .. N
    PROVE  Types'
<1> DEFINE p == Home[c]
<1> DEFINE id == counter[p] + 1
<1> DEFINE sid == IF Primary(p) THEN 0 ELSE id
<1> DEFINE out == IF call[c].aborted THEN <<Call(id, c), Cancel(id)>> ELSE <<Call(id, c)>>
<1>1. p \in Procs
  BY BridgeCallsAssumption
<1>2. /\ counter' = [counter EXCEPT ![p] = id]
      /\ IF call[c].aborted
         THEN Answer(c, "cancelled") /\ UNCHANGED pending
         ELSE /\ call' = [call EXCEPT ![c].st = "pending"]
              /\ pending' = [pending EXCEPT ![p] = @ \cup {Entry(id, c, p, sid)}]
      /\ IF Primary(p)
         THEN down' = down \o out /\ UNCHANGED fwd
         ELSE fwd' = [fwd EXCEPT ![p] = @ \o out] /\ UNCHANGED down
      /\ UNCHANGED <<role, linked, held, back, ext, up, swVars, told, faults>>
  BY DEF SendCall
<1>3. id \in 1 .. N /\ id \in Nat /\ sid \in 0 .. N
  BY NFacts
<1>4. out \in Seq(Messages)
  BY <1>3, OneCall, CallAndCancel
<1> HIDE DEF p, id, sid, out
<1>5. ProcTypes'
  BY <1>2, <1>3 DEF Types, ProcTypes
<1>6. MessageTypes'
  <2>1. CASE Primary(p)
    <3>1. down \o out \in Seq(Messages)
      BY <1>4, ConcatRange DEF Types, MessageTypes
    <3> QED  BY <2>1, <3>1, <1>2 DEF Types, MessageTypes
  <2>2. CASE ~Primary(p)
    <3>1. fwd[p] \o out \in Seq(Messages)
      BY <1>1, <1>4, ConcatRange DEF Types, MessageTypes
    <3> QED  BY <2>2, <3>1, <1>2 DEF Types, MessageTypes
  <2> QED  BY <2>1, <2>2
<1>7. WaitTypes' /\ call' \in [Calls -> CallRecords]
  <2>1. CASE call[c].aborted
    <3>1. call' \in [Calls -> CallRecords]
      BY <2>1, <1>2, AnswerTypes DEF Whats, Types
    <3> QED  BY <2>1, <3>1, <1>2 DEF Types, WaitTypes
  <2>2. CASE ~call[c].aborted
    <3>1. Entry(id, c, p, sid) \in Entries
      BY <1>1, <1>3 DEF Entry, Entries
    <3>2. IsFiniteSet(pending[p] \cup {Entry(id, c, p, sid)})
      BY <1>1, FS_AddElement DEF Types, WaitTypes
    <3>3. [call[c] EXCEPT !.st = "pending"] \in CallRecords
      BY DEF Types, WorkTypes, CallRecords
    <3>4. call' = [call EXCEPT ![c] = [call[c] EXCEPT !.st = "pending"]]
      BY <2>2, <1>2 DEF Types, WorkTypes
    <3>5. call' \in [Calls -> CallRecords]
      BY <3>3, <3>4 DEF Types, WorkTypes
    <3>6. WaitTypes'
      <4> DEFINE e == Entry(id, c, p, sid)
      <4>1. pending' = [pending EXCEPT ![p] = @ \cup {e}] /\ held' = held
        BY <2>2, <1>2
      <4>2. e \in Entries /\ IsFiniteSet(pending[p] \cup {e})
        BY <3>1, <3>2
      <4> HIDE DEF e
      <4> QED  BY <4>1, <4>2, <1>1 DEF Types, WaitTypes
    <3> QED  BY <3>5, <3>6
  <2> QED  BY <2>1, <2>2
<1>8. WorkTypes'
  BY <1>2, <1>7 DEF swVars, Types, WorkTypes
<1> QED  BY <1>5, <1>6, <1>7, <1>8 DEF Types

(* Steps of the client and of timers.                                       *)
LEMMA ClientTypes ==
    ASSUME NEW c \in Calls, Wait(c) \/ GiveUp(c) \/ ClientCancels(c), Types
    PROVE  Types'
<1>1. CASE Wait(c)
  <2>1. [call[c] EXCEPT !.st = "waiting"] \in CallRecords
    BY DEF Types, WorkTypes, CallRecords
  <2>2. call' \in [Calls -> CallRecords]
    BY <2>1, <1>1 DEF Wait, Types, WorkTypes
  <2> QED  BY <2>2, <1>1 DEF Wait, bridgeVars, linkVars, sockVars, swVars, Types, ProcTypes,
                WaitTypes, MessageTypes, WorkTypes
<1>2. CASE GiveUp(c)
  <2>1. call' \in [Calls -> CallRecords]
    BY <1>2, AnswerTypes DEF GiveUp, Whats, Types
  <2> QED  BY <2>1, <1>2 DEF GiveUp, bridgeVars, linkVars, sockVars, swVars, Types, ProcTypes,
                WaitTypes, MessageTypes, WorkTypes
<1>3. CASE ClientCancels(c)
  <2> DEFINE p == Home[c]
  <2>1. p \in Procs
    BY BridgeCallsAssumption
  <2>2. UNCHANGED <<bridgeVars, back, ext, up, swVars, told, faults>>
    BY <1>3 DEF ClientCancels
  <2>3. CASE call[c].st = "waiting"
    <3>1. [call[c] EXCEPT !.aborted = TRUE] \in CallRecords
      BY DEF Types, WorkTypes, CallRecords
    <3>2. call' = [call EXCEPT ![c] = [call[c] EXCEPT !.aborted = TRUE]]
          /\ UNCHANGED <<pending, fwd, down>>
      BY <1>3, <2>3 DEF ClientCancels, Types, WorkTypes
    <3>3. call' \in [Calls -> CallRecords]
      BY <3>1, <3>2 DEF Types, WorkTypes
    <3> QED  BY <3>2, <3>3, <2>2 DEF bridgeVars, swVars, Types, ProcTypes, WaitTypes, MessageTypes, WorkTypes
  <2>4. CASE call[c].st # "waiting"
    <3>1. PICK r \in pending[p] :
            /\ pending' = [pending EXCEPT ![p] = @ \ {r}]
            /\ Tell(p, r)
            /\ call' = [call EXCEPT ![c] = [st |-> "done", aborted |-> TRUE, answer |-> "cancelled"]]
      BY <1>3, <2>4 DEF ClientCancels
    <3>2. [st |-> "done", aborted |-> TRUE, answer |-> "cancelled"] \in CallRecords
      BY DEF CallRecords, Whats
    <3>3. call' \in [Calls -> CallRecords]
      BY <3>1, <3>2 DEF Types, WorkTypes
    <3>4. r \in Entries
      BY <2>1 DEF Types, WaitTypes
    <3>5. PICK x, y : Quiet(x) /\ Quiet(y) /\ fwd' = [fwd EXCEPT ![p] = @ \o x] /\ down' = down \o y
      BY <3>1, <3>4, <2>1, TellQuiet DEF Types
    <3>6. fwd[p] \o x \in Seq(Messages) /\ down \o y \in Seq(Messages)
      BY <3>5, <2>1, ConcatRange DEF Quiet, Types, MessageTypes
    <3>7. MessageTypes'
      BY <3>5, <3>6, <2>2 DEF Types, MessageTypes
    <3>8. IsFiniteSet(pending[p] \ {r})
      BY <2>1, FS_RemoveElement DEF Types, WaitTypes
    <3>9. WaitTypes'
      BY <3>1, <3>8, <2>1, <2>2 DEF bridgeVars, Types, WaitTypes
    <3> HIDE DEF p
    <3> QED  BY <3>3, <3>7, <3>9, <2>2 DEF bridgeVars, swVars, Types, ProcTypes, WorkTypes
  <2> QED  BY <2>3, <2>4
<1> QED  BY <1>1, <1>2, <1>3

(* A timeout keeps the types.                                               *)
LEMMA TimeoutTypes ==
    ASSUME NEW p \in Procs, NEW r \in pending[p], Timeout(p, r), Types, Waiting
    PROVE  Types'
<1>1. /\ pending' = [pending EXCEPT ![p] = @ \ {r}]
      /\ Tell(p, r) /\ Deliver(p, r, "timeout")
      /\ UNCHANGED <<bridgeVars, ext, up, swVars, told, faults>>
  BY DEF Timeout
<1>2. r \in Entries /\ (r.from # p => r.sid # 0)
  BY DEF Types, WaitTypes, Waiting
<1>3. back' \in [Procs -> Seq(Results)] /\ call' \in [Calls -> CallRecords]
  BY <1>1, <1>2, DeliverTypes DEF Types, Whats
<1>4. PICK x, y : Quiet(x) /\ Quiet(y) /\ fwd' = [fwd EXCEPT ![p] = @ \o x] /\ down' = down \o y
  BY <1>1, <1>2, TellQuiet DEF Types
<1>5. fwd[p] \o x \in Seq(Messages) /\ down \o y \in Seq(Messages)
  BY <1>4, ConcatRange DEF Quiet, Types, MessageTypes
<1>6. MessageTypes'
  BY <1>1, <1>3, <1>4, <1>5 DEF Types, MessageTypes
<1>7. IsFiniteSet(pending[p] \ {r})
  BY FS_RemoveElement DEF Types, WaitTypes
<1>8. WaitTypes'
  BY <1>1, <1>7 DEF bridgeVars, Types, WaitTypes
<1> QED  BY <1>1, <1>3, <1>6, <1>8 DEF bridgeVars, swVars, Types, ProcTypes, WorkTypes

(* Steps of the links.                                                      *)
LEMMA RelayTypes ==
    ASSUME NEW p \in Procs, NEW s \in Procs, RelayCall(p, s) \/ RelayCancel(p, s), Types,
           counter[p] + 1 \in 1 .. N \/ ~RelayCall(p, s)
    PROVE  Types'
<1>1. fwd[s] \in Seq(Messages) /\ fwd[s] # <<>>
  BY DEF RelayCall, RelayCancel, Types, MessageTypes
<1>2. Head(fwd[s]) \in Messages /\ Tail(fwd[s]) \in Seq(Messages)
  BY <1>1, TailRange
<1>3. fwd' \in [Procs -> Seq(Messages)]
  BY <1>2 DEF RelayCall, RelayCancel, Shift, Types, MessageTypes
<1> DEFINE m == Head(fwd[s])
<1>4. CASE RelayCall(p, s)
  <2>1. m.id \in 1 .. N /\ m.call \in Calls
    BY <1>2, <1>4 DEF RelayCall, Messages
  <2>2. UNCHANGED <<role, linked, back, ext, up, swVars, call, told, faults>>
    BY <1>4 DEF RelayCall
  <2>3. CASE ext = p
    <3>1. Dispatch(p, s, m.id, m.call) /\ UNCHANGED held
      BY <1>4, <2>3 DEF RelayCall
    <3>2. /\ counter' \in [Procs -> Nat]
          /\ pending' \in [Procs -> SUBSET Entries] /\ \A q \in Procs : IsFiniteSet(pending'[q])
          /\ down' \in Seq(Messages)
      BY <3>1, <2>1, <1>4, DispatchTypes
    <3> QED  BY <3>1, <3>2, <2>2, <1>3 DEF swVars, Types, ProcTypes, WaitTypes, MessageTypes, WorkTypes
  <2>4. CASE ext # p
    <3> DEFINE h == [call |-> m.call, from |-> s, sid |-> m.id]
    <3>1. held' = [held EXCEPT ![p] = @ \cup {h}] /\ UNCHANGED <<counter, pending, down>>
      BY <1>4, <2>4 DEF RelayCall
    <3>2. h \in Holds
      BY <2>1 DEF Holds
    <3> HIDE DEF h
    <3>3. held' \in [Procs -> SUBSET Holds]
      BY <3>1, <3>2 DEF Types, WaitTypes
    <3> QED  BY <3>1, <3>3, <2>2, <1>3 DEF swVars, Types, ProcTypes, WaitTypes, MessageTypes, WorkTypes
  <2> QED  BY <2>3, <2>4
<1>5. CASE RelayCancel(p, s)
  <2> DEFINE mine == {r \in pending[p] : r.from = s /\ Relayed(p, r) /\ r.sid = m.id}
  <2>1. /\ pending' = [pending EXCEPT ![p] = @ \ mine]
        /\ down' = ToExt(p, SetToSeq({Cancel(r.id) : r \in mine}))
        /\ UNCHANGED <<bridgeVars, back, ext, up, swVars, call, faults>>
    BY <1>5 DEF RelayCancel
  <2>2. IsFiniteSet(pending[p]) /\ mine \subseteq pending[p] /\ pending[p] \subseteq Entries
    BY DEF Types, WaitTypes
  <2> HIDE DEF mine
  <2>3. IsFiniteSet(mine) /\ IsFiniteSet(pending[p] \ mine)
    BY <2>2, FS_Subset, FS_Difference
  <2>4. \A r \in mine : r.id \in 1 .. N
    BY <2>2 DEF Entries
  <2>5. Quiet(SetToSeq({Cancel(r.id) : r \in mine}))
    BY <2>3, <2>4, QuietSets
  <2>6. down' \in Seq(Messages)
    BY <2>1, <2>5, ConcatRange DEF ToExt, Quiet, Types, MessageTypes
  <2>7. WaitTypes'
    BY <2>1, <2>2, <2>3 DEF bridgeVars, Types, WaitTypes
  <2> QED  BY <2>1, <2>6, <2>7, <1>3 DEF bridgeVars, swVars, Types, ProcTypes, MessageTypes, WorkTypes
<1> QED  BY <1>4, <1>5

(* A held call that goes on, or expires, keeps the types.                   *)
LEMMA HeldTypes ==
    ASSUME NEW p \in Procs, NEW h \in held[p], HeldResumes(p, h) \/ HeldExpires(p, h), Types,
           counter[p] + 1 \in 1 .. N
    PROVE  Types'
<1>1. h \in Holds /\ h.from \in Procs \cup {NoProc} /\ h.sid \in 1 .. N /\ h.call \in Calls
  BY DEF Types, WaitTypes, Holds
<1>2. held' \in [Procs -> SUBSET Holds]
  BY DEF HeldResumes, HeldExpires, Unheld, Types, WaitTypes
<1>3. CASE HeldResumes(p, h)
  <2>1. Dispatch(p, h.from, h.sid, h.call)
        /\ UNCHANGED <<role, linked, linkVars, ext, up, swVars, call, told, faults>>
    BY <1>3 DEF HeldResumes
  <2>2. /\ counter' \in [Procs -> Nat]
        /\ pending' \in [Procs -> SUBSET Entries] /\ \A q \in Procs : IsFiniteSet(pending'[q])
        /\ down' \in Seq(Messages)
    BY <2>1, <1>1, DispatchTypes
  <2> QED  BY <2>1, <2>2, <1>2 DEF linkVars, swVars, Types, ProcTypes, WaitTypes, MessageTypes, WorkTypes
<1>4. CASE HeldExpires(p, h)
  <2>1. UNCHANGED <<role, linked, counter, pending, fwd, sockVars, swVars, call, told, faults>>
    BY <1>4 DEF HeldExpires
  <2>2. Result(h.sid, "error") \in Results
    BY <1>1 DEF Result, Results, Whats
  <2>3. back' \in [Procs -> Seq(Results)]
    <3>1. CASE h.from \in linked
      <4> DEFINE e == Append(back[h.from], Result(h.sid, "error"))
      <4>1. e \in Seq(Results) /\ back' = [back EXCEPT ![h.from] = e]
        BY <2>2, <3>1, <1>4 DEF HeldExpires, Types, ProcTypes, MessageTypes
      <4> HIDE DEF e
      <4> QED  BY <4>1 DEF Types, MessageTypes
    <3>2. CASE h.from \notin linked
      BY <3>2, <1>4 DEF HeldExpires, Types, MessageTypes
    <3> QED  BY <3>1, <3>2
  <2> QED  BY <2>1, <2>3, <1>2 DEF sockVars, swVars, Types, ProcTypes, WaitTypes, MessageTypes, WorkTypes
<1> QED  BY <1>3, <1>4

(* Results that arrive keep the types.                                      *)
LEMMA TakeTypes ==
    ASSUME NEW p \in Procs, TakeResult(p) \/ TakeRelayed(p), Types, Waiting
    PROVE  Types'
<1>1. CASE TakeResult(p)
  <2> DEFINE m == Head(up)
  <2> DEFINE mine == {r \in pending[p] : r.id = m.id}
  <2>1. /\ up' = Tail(up) /\ up # <<>>
        /\ pending' = [pending EXCEPT ![p] = @ \ mine]
        /\ IF mine = {} THEN UNCHANGED <<back, call>>
           ELSE \E r \in mine : Deliver(p, r, m.what)
        /\ UNCHANGED <<bridgeVars, fwd, ext, down, swVars, told, faults>>
    BY <1>1 DEF TakeResult
  <2>2. m \in Results /\ Tail(up) \in Seq(Results)
    BY <2>1, TailRange DEF Types, MessageTypes
  <2>3. m.what \in Whats
    BY <2>2 DEF Results
  <2>4. IsFiniteSet(pending[p]) /\ mine \subseteq pending[p] /\ pending[p] \subseteq Entries
    BY DEF Types, WaitTypes
  <2>5. IsFiniteSet(pending[p] \ mine)
    BY <2>4, FS_Difference
  <2> HIDE DEF m, mine
  <2>6. WaitTypes'
    BY <2>1, <2>4, <2>5 DEF bridgeVars, Types, WaitTypes
  <2>7. back' \in [Procs -> Seq(Results)] /\ call' \in [Calls -> CallRecords]
    <3>1. CASE mine = {}
      BY <3>1, <2>1 DEF Types, MessageTypes, WorkTypes
    <3>2. CASE mine # {}
      <4>1. PICK r \in mine : Deliver(p, r, m.what)
        BY <3>2, <2>1
      <4>2. r \in Entries /\ (r.from # p => r.sid # 0)
        BY <2>4 DEF Waiting
      <4> QED  BY <4>1, <4>2, <2>3, DeliverTypes DEF Types
    <3> QED  BY <3>1, <3>2
  <2> QED  BY <2>1, <2>2, <2>6, <2>7 DEF bridgeVars, swVars, Types, ProcTypes, MessageTypes, WorkTypes
<1>2. CASE TakeRelayed(p)
  <2> DEFINE m == Head(back[p])
  <2> DEFINE mine == {r \in pending[p] : r.id = m.id}
  <2>1. /\ back' = Shift(back, p) /\ back[p] # <<>>
        /\ pending' = [pending EXCEPT ![p] = @ \ mine]
        /\ IF mine = {} THEN UNCHANGED call
           ELSE \E r \in mine : Answer(r.call, m.what)
        /\ UNCHANGED <<bridgeVars, fwd, sockVars, swVars, told, faults>>
    BY <1>2 DEF TakeRelayed
  <2>2. m \in Results /\ Tail(back[p]) \in Seq(Results)
    BY <2>1, TailRange DEF Types, MessageTypes
  <2>3. m.what \in Whats
    BY <2>2 DEF Results
  <2>4. IsFiniteSet(pending[p]) /\ mine \subseteq pending[p] /\ pending[p] \subseteq Entries
    BY DEF Types, WaitTypes
  <2>5. IsFiniteSet(pending[p] \ mine)
    BY <2>4, FS_Difference
  <2>6. back' \in [Procs -> Seq(Results)]
    BY <2>1, <2>2 DEF Shift, Types, MessageTypes
  <2> HIDE DEF m, mine
  <2>7. WaitTypes'
    BY <2>1, <2>4, <2>5 DEF bridgeVars, Types, WaitTypes
  <2>8. call' \in [Calls -> CallRecords]
    <3>1. CASE mine = {}
      BY <3>1, <2>1 DEF Types, WorkTypes
    <3>2. CASE mine # {}
      <4>1. PICK r \in mine : Answer(r.call, m.what)
        BY <3>2, <2>1
      <4>2. r.call \in Calls
        BY <2>4 DEF Entries
      <4> QED  BY <4>1, <4>2, <2>3, AnswerTypes DEF Types
    <3> QED  BY <3>1, <3>2
  <2> QED  BY <2>1, <2>6, <2>7, <2>8 DEF bridgeVars, sockVars, swVars, Types, ProcTypes, MessageTypes, WorkTypes
<1> QED  BY <1>1, <1>2

(* Steps of the extension.                                                  *)
LEMMA ExtensionTypes ==
    ASSUME Register \/ CancelWork \/ \E c \in Calls : Begin(c) \/ Finish(c) \/ Deadline(c), Types
    PROVE  Types'
<1>1. CASE Register
  <2> DEFINE m == Head(down)
  <2> DEFINE w == [st |-> "queued", id |-> m.id, aborted |-> FALSE]
  <2>1. /\ down # <<>> /\ m.type = "call" /\ down' = Tail(down)
        /\ work' = [work EXCEPT ![m.call] = w]
        /\ registry' = [registry EXCEPT ![m.id] = m.call]
        /\ UNCHANGED <<bridgeVars, pending, linkVars, ext, up, begun, call, told, faults>>
    BY <1>1 DEF Register
  <2>2. m \in Messages /\ Tail(down) \in Seq(Messages)
    BY <2>1, TailRange DEF Types, MessageTypes
  <2>3. m.id \in 1 .. N /\ m.call \in Calls
    BY <2>1, <2>2 DEF Messages
  <2>4. w \in WorkRecords /\ w.id # 0
    BY <2>3, NFacts DEF WorkRecords
  <2> HIDE DEF m, w
  <2>5. work' \in [Calls -> WorkRecords] /\ \A c \in Calls : work'[c].st # "none" => work'[c].id # 0
    BY <2>1, <2>3, <2>4 DEF Types, WorkTypes
  <2>6. registry' \in [Ids -> Calls \cup {NoCall}]
    BY <2>1, <2>3 DEF Types, WorkTypes
  <2> QED  BY <2>1, <2>2, <2>5, <2>6 DEF bridgeVars, linkVars, Types, ProcTypes, WaitTypes,
              MessageTypes, WorkTypes
<1>2. CASE CancelWork
  <2> DEFINE c == registry[Head(down).id]
  <2>1. /\ down # <<>> /\ down' = Tail(down)
        /\ work' = IF c = NoCall THEN work ELSE [work EXCEPT ![c].aborted = TRUE]
        /\ UNCHANGED <<bridgeVars, pending, linkVars, ext, up, registry, begun, call, told, faults>>
    BY <1>2 DEF CancelWork
  <2>2. Head(down) \in Messages /\ Tail(down) \in Seq(Messages)
    BY <2>1, TailRange DEF Types, MessageTypes
  <2>3. c \in Calls \cup {NoCall}
    <3>1. Head(down).id \in Ids
      BY <2>2, NFacts DEF Messages
    <3> QED  BY <3>1 DEF Types, WorkTypes
  <2> HIDE DEF c
  <2>4. work' \in [Calls -> WorkRecords] /\ \A d \in Calls : work'[d].st # "none" => work'[d].id # 0
    <3>1. CASE c = NoCall
      BY <3>1, <2>1 DEF Types, WorkTypes
    <3>2. CASE c # NoCall
      <4> DEFINE w == [work[c] EXCEPT !.aborted = TRUE]
      <4>1. w \in WorkRecords /\ w.st = work[c].st /\ w.id = work[c].id
        BY <3>2, <2>3 DEF Types, WorkTypes, WorkRecords
      <4>2. work' = [work EXCEPT ![c] = w]
        BY <3>2, <2>1, <2>3 DEF Types, WorkTypes
      <4> HIDE DEF w
      <4> QED  BY <4>1, <4>2, <3>2, <2>3 DEF Types, WorkTypes
    <3> QED  BY <3>1, <3>2
  <2> QED  BY <2>1, <2>2, <2>4 DEF bridgeVars, linkVars, Types, ProcTypes, WaitTypes,
              MessageTypes, WorkTypes
<1>3. ASSUME NEW c \in Calls, Begin(c)
      PROVE  Types'
  <2> DEFINE w == [work[c] EXCEPT !.st = "running"]
  <2>1. w \in WorkRecords /\ w.id = work[c].id /\ work[c].st # "none"
    BY <1>3 DEF Begin, Types, WorkTypes, WorkRecords
  <2>2. work' = [work EXCEPT ![c] = w]
    BY <1>3 DEF Begin, Types, WorkTypes
  <2> HIDE DEF w
  <2>3. work' \in [Calls -> WorkRecords] /\ \A d \in Calls : work'[d].st # "none" => work'[d].id # 0
    BY <2>1, <2>2 DEF Types, WorkTypes
  <2>4. begun' \in [Calls -> 0 .. 2]
    BY <1>3, MinOf DEF Begin, Types, WorkTypes
  <2> QED  BY <1>3, <2>3, <2>4 DEF Begin, bridgeVars, linkVars, sockVars, Types, ProcTypes, WaitTypes,
              MessageTypes, WorkTypes
<1>4. ASSUME NEW c \in Calls, Finish(c)
      PROVE  Types'
  <2>1. work[c] \in WorkRecords /\ work[c].id \in 1 .. N
    BY <1>4, NFacts DEF Finish, Types, WorkTypes, WorkRecords
  <2>2. up' \in Seq(Results)
    <3>1. PICK what \in {c} \cup (IF work[c].aborted THEN {"cancelled"} ELSE {}) :
            up' = IF ext = NoProc THEN up ELSE Append(up, Result(work[c].id, what))
      BY <1>4 DEF Finish
    <3>2. what \in Whats
      BY DEF Whats
    <3>3. Result(work[c].id, what) \in Results
      BY <2>1, <3>2 DEF Result, Results
    <3> QED  BY <3>1, <3>3 DEF Types, MessageTypes
  <2>3. registry' \in [Ids -> Calls \cup {NoCall}]
    BY <1>4 DEF Finish, Deregistered, Types, WorkTypes
  <2> DEFINE w == [work[c] EXCEPT !.st = "over"]
  <2>4. w \in WorkRecords /\ w.id = work[c].id
    BY <2>1 DEF WorkRecords
  <2>5. work' = [work EXCEPT ![c] = w]
    BY <1>4 DEF Finish, Types, WorkTypes
  <2> HIDE DEF w
  <2>6. work' \in [Calls -> WorkRecords] /\ \A d \in Calls : work'[d].st # "none" => work'[d].id # 0
    BY <2>1, <2>4, <2>5, NFacts DEF Types, WorkTypes
  <2> QED  BY <1>4, <2>2, <2>3, <2>6 DEF Finish, bridgeVars, linkVars, Types, ProcTypes, WaitTypes,
              MessageTypes, WorkTypes
<1>5. ASSUME NEW c \in Calls, Deadline(c)
      PROVE  Types'
  <2> DEFINE w == [work[c] EXCEPT !.aborted = TRUE]
  <2>1. w \in WorkRecords /\ w.id = work[c].id /\ w.st = work[c].st
    BY DEF Types, WorkTypes, WorkRecords
  <2>2. work' = [work EXCEPT ![c] = w]
    BY <1>5 DEF Deadline, Types, WorkTypes
  <2> HIDE DEF w
  <2>3. work' \in [Calls -> WorkRecords] /\ \A d \in Calls : work'[d].st # "none" => work'[d].id # 0
    BY <2>1, <2>2 DEF Types, WorkTypes
  <2> QED  BY <1>5, <2>3 DEF Deadline, bridgeVars, linkVars, sockVars, Types, ProcTypes, WaitTypes,
              MessageTypes, WorkTypes
<1> QED  BY <1>1, <1>2, <1>3, <1>4, <1>5

(* Sockets, processes and their failures.                                   *)
LEMMA CrashTypes ==
    ASSUME NEW p \in Procs, Crash(p), Types, Links
    PROVE  Types'
<1>1. ProcTypes'
  <2>1. role' \in [Procs -> {"primary", "proxy", "off"}] /\ counter' \in [Procs -> Nat]
    BY DEF Crash, Types, ProcTypes
  <2>2. linked' \subseteq Procs
    BY DEF Crash, Types, ProcTypes
  <2>3. ext' \in Procs \cup {NoProc}
    BY DEF Crash, Silent, sockVars, Types, ProcTypes
  <2>4. faults' \in [drop : Nat, kill : Nat, crash : Nat, lost : BOOLEAN]
    <3> DEFINE l == (faults.lost \/ ext = p)
    <3>1. l \in BOOLEAN
      OBVIOUS
    <3>2. faults.crash + 1 \in Nat
      BY DEF Types, ProcTypes
    <3>3. faults' = [[faults EXCEPT !.crash = faults.crash + 1] EXCEPT !.lost = l]
      BY DEF Crash, Types, ProcTypes
    <3> HIDE DEF l
    <3> QED  BY <3>1, <3>2, <3>3 DEF Types, ProcTypes
  <2> QED  BY <2>1, <2>2, <2>3, <2>4 DEF ProcTypes
<1>2. call' \in [Calls -> CallRecords]
  <2>1. call' = [c \in Calls |->
           IF Home[c] = p /\ call[c].st \in {"waiting", "pending"}
           THEN [call[c] EXCEPT !.st = "lost"] ELSE call[c]]
    BY DEF Crash
  <2>2. \A c \in Calls : call[c] \in CallRecords /\ [call[c] EXCEPT !.st = "lost"] \in CallRecords
    BY DEF Types, WorkTypes, CallRecords
  <2> QED  BY <2>1, <2>2
<1>3. WorkTypes'
  BY <1>2 DEF Crash, swVars, Types, WorkTypes
<1>4. CASE Primary(p)
  <2>1. /\ pending' = [pending EXCEPT ![p] = {}]
        /\ held' = [held EXCEPT ![p] = {}]
        /\ fwd' = [q \in Procs |-> <<>>] /\ back' = fwd'
        /\ IF ext = p THEN Silent ELSE UNCHANGED sockVars
    BY <1>4 DEF Crash
  <2>2. IsFiniteSet({})
    BY FS_EmptySet
  <2>3. WaitTypes'
    BY <2>1, <2>2 DEF Types, WaitTypes
  <2>4. fwd' \in [Procs -> Seq(Messages)] /\ back' \in [Procs -> Seq(Results)]
    <3>1. <<>> \in Seq(Messages) /\ <<>> \in Seq(Results)
      BY EmptySeq
    <3>2. back' = [q \in Procs |-> <<>>]
      BY <2>1
    <3> QED  BY <2>1, <3>1, <3>2
  <2>5. down' \in Seq(Messages) /\ up' \in Seq(Results)
    <3>1. <<>> \in Seq(Messages) /\ <<>> \in Seq(Results)
      BY EmptySeq
    <3>2. (down' = <<>> /\ up' = <<>>) \/ (down' = down /\ up' = up)
      BY <2>1 DEF Silent, sockVars
    <3> QED  BY <3>1, <3>2 DEF Types, MessageTypes
  <2> QED  BY <1>1, <1>3, <2>3, <2>4, <2>5 DEF Types, MessageTypes
<1>5. CASE ~Primary(p)
  <2>1. /\ fwd' = [fwd EXCEPT ![p] = <<>>] /\ back' = [back EXCEPT ![p] = <<>>]
        /\ IF p \in linked
           THEN LET q == ThePrimary
                    o == Orphans(q, p)
                IN  /\ pending' = [pending EXCEPT ![p] = {}, ![q] = @ \ o]
                    /\ held' = [held EXCEPT ![q] =
                           {[h EXCEPT !.from = IF @ = p THEN NoProc ELSE @] : h \in @}]
                    /\ down' = ToExt(q, SetToSeq({Cancel(r.id) : r \in o}))
           ELSE pending' = [pending EXCEPT ![p] = {}] /\ UNCHANGED <<held, down>>
        /\ UNCHANGED <<ext, up>>
    BY <1>5 DEF Crash
  <2>2. IsFiniteSet({})
    BY FS_EmptySet
  <2>3. CASE p \notin linked
    <3>1. WaitTypes'
      BY <2>1, <2>2, <2>3 DEF Types, WaitTypes
    <3>2. MessageTypes'
      BY <2>1, <2>3 DEF Types, MessageTypes
    <3> QED  BY <1>1, <1>3, <3>1, <3>2 DEF Types
  <2>4. CASE p \in linked
    <3> DEFINE q == ThePrimary
    <3> DEFINE o == Orphans(q, p)
    <3>1. q \in Procs /\ Primary(q) /\ q # p
      <4>1. \E x \in Procs : Primary(x)
        BY <2>4 DEF Links, NoPrimary
      <4> QED  BY <4>1, <1>5 DEF ThePrimary
    <3>2. /\ pending' = [pending EXCEPT ![p] = {}, ![q] = @ \ o]
          /\ held' = [held EXCEPT ![q] =
                           {[h EXCEPT !.from = IF @ = p THEN NoProc ELSE @] : h \in @}]
          /\ down' = ToExt(q, SetToSeq({Cancel(r.id) : r \in o}))
      BY <2>1, <2>4
    <3>3. IsFiniteSet(pending[q]) /\ o \subseteq pending[q] /\ pending[q] \subseteq Entries
      BY <3>1 DEF Types, WaitTypes, Orphans
    <3> HIDE DEF q, o
    <3>4. IsFiniteSet(o) /\ IsFiniteSet(pending[q] \ o)
      BY <3>3, FS_Subset, FS_Difference
    <3>5. \A r \in o : r.id \in 1 .. N
      BY <3>3 DEF Entries
    <3>6. Quiet(SetToSeq({Cancel(r.id) : r \in o}))
      BY <3>4, <3>5, QuietSets
    <3>7. down' \in Seq(Messages)
      BY <3>2, <3>6, ConcatRange DEF ToExt, Quiet, Types, MessageTypes
    <3>8. held' \in [Procs -> SUBSET Holds]
      <4> DEFINE H == {[h EXCEPT !.from = IF @ = p THEN NoProc ELSE @] : h \in held[q]}
      <4>1. \A h \in held[q] : [h EXCEPT !.from = IF @ = p THEN NoProc ELSE @] \in Holds
        BY <3>1 DEF Types, WaitTypes, Holds
      <4>2. H \subseteq Holds /\ held' = [held EXCEPT ![q] = H]
        BY <4>1, <3>2
      <4> HIDE DEF H
      <4> QED  BY <4>2 DEF Types, WaitTypes
    <3>9. pending' \in [Procs -> SUBSET Entries] /\ \A x \in Procs : IsFiniteSet(pending'[x])
      <4> DEFINE P == pending[q] \ o
      <4>1. P \subseteq Entries /\ IsFiniteSet(P) /\ pending' = [pending EXCEPT ![p] = {}, ![q] = P]
        BY <3>1, <3>2, <3>3, <3>4 DEF Types, WaitTypes
      <4> HIDE DEF P
      <4> QED  BY <4>1, <2>2 DEF Types, WaitTypes
    <3>10. MessageTypes'
      BY <2>1, <3>7 DEF Types, MessageTypes
    <3> QED  BY <1>1, <1>3, <3>8, <3>9, <3>10 DEF Types, WaitTypes
  <2> QED  BY <2>3, <2>4
<1> QED  BY <1>4, <1>5

(* Faults, connections and recoveries keep the types.                       *)
LEMMA FaultTypes ==
    ASSUME Drop \/ KillWorker \/ \E p \in Procs : Connect(p) \/ Join(p) \/ RecoveryExpires(p), Types
    PROVE  Types'
<1>1. CASE Drop
  <2>1. faults' \in [drop : Nat, kill : Nat, crash : Nat, lost : BOOLEAN]
    <3> DEFINE l == TRUE
    <3>1. l \in BOOLEAN /\ faults.drop + 1 \in Nat
      BY DEF Types, ProcTypes
    <3>2. faults' = [[faults EXCEPT !.drop = faults.drop + 1] EXCEPT !.lost = l]
      BY <1>1 DEF Drop, Types, ProcTypes
    <3> HIDE DEF l
    <3> QED  BY <3>1, <3>2 DEF Types, ProcTypes
  <2>2. Silent /\ UNCHANGED <<bridgeVars, pending, linkVars, swVars, call, told>>
    BY <1>1 DEF Drop
  <2>3. ProcTypes'
    BY <2>1, <2>2 DEF Silent, bridgeVars, Types, ProcTypes
  <2>4. MessageTypes'
    BY <2>2 DEF Silent, linkVars, Types, MessageTypes
  <2> QED  BY <2>2, <2>3, <2>4 DEF bridgeVars, swVars, Types, WaitTypes, WorkTypes
<1>2. CASE KillWorker
  <2>1. NoWork \in WorkRecords /\ NoWork.st = "none"
    BY NFacts DEF NoWork, WorkRecords
  <2>2. work' = [c \in Calls |-> NoWork] /\ registry' = [i \in Ids |-> NoCall]
        /\ Silent /\ UNCHANGED <<bridgeVars, pending, linkVars, begun, call, told>>
        /\ faults' = [faults EXCEPT !.kill = @ + 1, !.lost = TRUE]
    BY <1>2 DEF KillWorker
  <2>3. WorkTypes'
    BY <2>1, <2>2 DEF Types, WorkTypes
  <2>4. faults' \in [drop : Nat, kill : Nat, crash : Nat, lost : BOOLEAN]
    <3> DEFINE l == TRUE
    <3>1. l \in BOOLEAN /\ faults.kill + 1 \in Nat
      BY DEF Types, ProcTypes
    <3>2. faults' = [[faults EXCEPT !.kill = faults.kill + 1] EXCEPT !.lost = l]
      BY <2>2 DEF Types, ProcTypes
    <3> HIDE DEF l
    <3> QED  BY <3>1, <3>2 DEF Types, ProcTypes
  <2>5. ProcTypes'
    BY <2>2, <2>4 DEF Silent, bridgeVars, Types, ProcTypes
  <2>6. MessageTypes'
    BY <2>2 DEF Silent, linkVars, Types, MessageTypes
  <2> QED  BY <2>2, <2>3, <2>5, <2>6 DEF bridgeVars, Types, WaitTypes
<1>3. ASSUME NEW p \in Procs, Connect(p)
      PROVE  Types'
  BY <1>3 DEF Connect, bridgeVars, linkVars, swVars, Types, ProcTypes, WaitTypes, MessageTypes, WorkTypes
<1>4. ASSUME NEW p \in Procs, Join(p)
      PROVE  Types'
  <2>1. role' \in [Procs -> {"primary", "proxy", "off"}] /\ linked' \subseteq Procs
    BY <1>4 DEF Join, Types, ProcTypes
  <2>2. UNCHANGED <<counter, held, pending, linkVars, sockVars, swVars, call, told, faults>>
    BY <1>4 DEF Join
  <2> QED  BY <2>1, <2>2 DEF linkVars, sockVars, swVars, Types, ProcTypes, WaitTypes, MessageTypes, WorkTypes
<1>5. ASSUME NEW p \in Procs, RecoveryExpires(p)
      PROVE  Types'
  <2>1. call' = [c \in Calls |-> IF \E r \in pending[p] : r.call = c
                                 THEN [call[c] EXCEPT !.st = "done", !.answer = "error"]
                                 ELSE call[c]]
    BY <1>5 DEF RecoveryExpires
  <2>2. \A c \in Calls : /\ call[c] \in CallRecords
                         /\ [call[c] EXCEPT !.st = "done", !.answer = "error"] \in CallRecords
    BY DEF Types, WorkTypes, CallRecords, Whats
  <2>3. call' \in [Calls -> CallRecords]
    BY <2>1, <2>2
  <2>4. IsFiniteSet({})
    BY FS_EmptySet
  <2> QED  BY <1>5, <2>3, <2>4 DEF RecoveryExpires, bridgeVars, linkVars, sockVars, swVars, Types,
              ProcTypes, WaitTypes, MessageTypes, WorkTypes
<1> QED  BY <1>1, <1>2, <1>3, <1>4, <1>5

-----------------------------------------------------------------------------
(* Processes.                                                              *)

(* Steps that leave processes, links and sockets as they are.               *)
LEMMA LinksFrame ==
    ASSUME Links, Settled, UNCHANGED <<role, linked, ext, faults>>,
           \A p \in Procs : p \notin linked => fwd'[p] = fwd[p] /\ back'[p] = back[p],
           \A p \in Procs : held'[p] # {} => held[p] # {} \/ (Primary(p) /\ ext # p)
    PROVE  Links' /\ Settled'
<1>1. \A p \in Procs : Primary(p)' <=> Primary(p)
  BY DEF Primary
<1>2. NoPrimary' <=> NoPrimary
  BY <1>1 DEF NoPrimary
<1>3. \A p \in Procs : p \notin linked' => fwd'[p] = <<>> /\ back'[p] = <<>>
  BY DEF Links
<1>4. \A p \in Procs : held'[p] # {} => Primary(p)
  BY DEF Links
<1>5. ext' # NoProc => Primary(ext)'
  BY DEF Links, Primary
<1>6. Links'
  BY <1>1, <1>2, <1>3, <1>4, <1>5 DEF Links
<1>7. Steady' <=> Steady
  BY DEF Steady
<1>8. ASSUME ~faults.lost, NEW p \in Procs
      PROVE  held'[p] = {}
  <2>1. Primary(First) /\ ext = First /\ held[p] = {} /\ First \in Procs
    BY <1>8, BridgeCallsAssumption DEF Settled, Steady
  <2>2. Primary(p) => p = First
    BY <2>1 DEF Links
  <2> QED  BY <2>1, <2>2
<1>9. Settled'
  BY <1>1, <1>7, <1>8, BridgeCallsAssumption DEF Settled
<1> QED  BY <1>6, <1>9

(* p tells nothing over a closed link.                                      *)
LEMMA TellLinks ==
    ASSUME NEW p \in Procs, NEW r \in Entries, Tell(p, r), MessageTypes,
           NEW q \in Procs, q \notin linked
    PROVE  fwd'[q] = fwd[q]
<1>1. PICK x : fwd' = [fwd EXCEPT ![p] = @ \o x] /\ (p \notin linked => x = <<>>)
  BY TellQuiet
<1>2. fwd[p] \in Seq(Messages) /\ fwd \in [Procs -> Seq(Messages)]
  BY DEF MessageTypes
<1>3. fwd[p] \o <<>> = fwd[p]
  BY <1>2, ConcatEmptySeq
<1>4. CASE q = p
  BY <1>1, <1>2, <1>3, <1>4
<1>5. CASE q # p
  BY <1>1, <1>2, <1>5
<1> QED  BY <1>4, <1>5

(* No result is delivered over a closed link.                               *)
LEMMA DeliverLinks ==
    ASSUME NEW p \in Procs, NEW r, NEW what, Deliver(p, r, what), MessageTypes,
           NEW q \in Procs, q \notin linked
    PROVE  back'[q] = back[q]
  BY DEF Deliver, MessageTypes

(* The client changes no link.                                              *)
LEMMA CallLinks ==
    ASSUME NEW c \in Calls, SendCall(c) \/ Wait(c) \/ GiveUp(c) \/ ClientCancels(c),
           Types, Links, Settled
    PROVE  Links' /\ Settled'
<1> DEFINE p == Home[c]
<1>1. p \in Procs
  BY BridgeCallsAssumption
<1>2. UNCHANGED <<role, linked, ext, faults, held, back>>
  BY DEF SendCall, Wait, GiveUp, ClientCancels, bridgeVars, linkVars, sockVars
<1>3. \A q \in Procs : q \notin linked => fwd'[q] = fwd[q]
  <2>1. CASE SendCall(c)
    <3>1. p \notin linked => UNCHANGED fwd
      BY <2>1 DEF SendCall, Ready
    <3>2. UNCHANGED fwd \/ \E x : fwd' = [fwd EXCEPT ![p] = x]
      BY <2>1 DEF SendCall
    <3> HIDE DEF p
    <3> QED  BY <1>1, <3>1, <3>2 DEF Types, MessageTypes
  <2>2. CASE Wait(c) \/ GiveUp(c)
    BY <2>2 DEF Wait, GiveUp, linkVars
  <2>3. CASE ClientCancels(c)
    <3>1. UNCHANGED fwd \/ \E r \in pending[p] : Tell(p, r)
      BY <2>3 DEF ClientCancels
    <3>2. pending[p] \subseteq Entries
      BY <1>1 DEF Types, WaitTypes
    <3> QED  BY <1>1, <3>1, <3>2, TellLinks DEF Types
  <2> QED  BY <2>1, <2>2, <2>3
<1> QED  BY <1>2, <1>3, LinksFrame

(* The server processes hold calls only where the primary waits for the     *)
(* socket.                                                                  *)
LEMMA ServerLinks ==
    ASSUME NEW p \in Procs,
           \/ TakeResult(p) \/ TakeRelayed(p)
           \/ \E s \in Procs : RelayCall(p, s) \/ RelayCancel(p, s)
           \/ \E h \in held[p] : HeldResumes(p, h) \/ HeldExpires(p, h)
           \/ \E r \in pending[p] : Timeout(p, r),
           Types, Links, Settled
    PROVE  Links' /\ Settled'
<1>1. CASE TakeResult(p)
  <2>1. UNCHANGED back \/ \E r, w : Deliver(p, r, w)
    BY <1>1 DEF TakeResult
  <2>2. \A q \in Procs : q \notin linked => back'[q] = back[q]
    BY <2>1, DeliverLinks DEF Types
  <2>3. UNCHANGED <<role, linked, ext, faults, held, fwd>>
    BY <1>1 DEF TakeResult, bridgeVars
  <2> QED  BY <2>2, <2>3, LinksFrame
<1>2. CASE TakeRelayed(p)
  <2>1. UNCHANGED <<role, linked, ext, faults, held, fwd>>
    BY <1>2 DEF TakeRelayed, bridgeVars, sockVars
  <2>2. \A q \in Procs : q \notin linked => back'[q] = back[q]
    BY <1>2 DEF TakeRelayed, Shift, Types, MessageTypes
  <2> QED  BY <2>1, <2>2, LinksFrame
<1>3. ASSUME NEW s \in Procs, RelayCall(p, s) \/ RelayCancel(p, s)
      PROVE  Links' /\ Settled'
  <2>1. UNCHANGED <<role, linked, ext, faults, back>>
    BY <1>3 DEF RelayCall, RelayCancel, bridgeVars
  <2>2. \A q \in Procs : q \notin linked => fwd'[q] = fwd[q]
    BY <1>3 DEF RelayCall, RelayCancel, Shift, Types, MessageTypes
  <2>3. \A q \in Procs : held'[q] # {} => held[q] # {} \/ (Primary(q) /\ ext # q)
    BY <1>3 DEF RelayCall, RelayCancel, bridgeVars, Types, WaitTypes
  <2> QED  BY <2>1, <2>2, <2>3, LinksFrame
<1>4. ASSUME NEW h \in held[p], HeldResumes(p, h) \/ HeldExpires(p, h)
      PROVE  Links' /\ Settled'
  <2>1. UNCHANGED <<role, linked, ext, faults, fwd>>
    BY <1>4 DEF HeldResumes, HeldExpires, linkVars, sockVars
  <2>2. \A q \in Procs : q \notin linked => back'[q] = back[q]
    BY <1>4 DEF HeldResumes, HeldExpires, linkVars, Types, MessageTypes
  <2>3. \A q \in Procs : held'[q] # {} => held[q] # {}
    BY <1>4 DEF HeldResumes, HeldExpires, Unheld, Types, WaitTypes
  <2> QED  BY <2>1, <2>2, <2>3, LinksFrame
<1>5. ASSUME NEW r \in pending[p], Timeout(p, r)
      PROVE  Links' /\ Settled'
  <2>1. UNCHANGED <<role, linked, ext, faults, held>> /\ Tell(p, r) /\ Deliver(p, r, "timeout")
    BY <1>5 DEF Timeout, bridgeVars
  <2>2. r \in Entries
    BY DEF Types, WaitTypes
  <2>3. \A q \in Procs : q \notin linked => fwd'[q] = fwd[q] /\ back'[q] = back[q]
    BY <2>1, <2>2, TellLinks, DeliverLinks DEF Types
  <2> QED  BY <2>1, <2>3, LinksFrame
<1> QED  BY <1>1, <1>2, <1>3, <1>4, <1>5

(* The extension changes no link.                                           *)
LEMMA ExtensionLinks ==
    ASSUME Register \/ CancelWork \/ \E c \in Calls : Begin(c) \/ Finish(c) \/ Deadline(c),
           Types, Links, Settled
    PROVE  Links' /\ Settled'
<1>1. UNCHANGED <<role, linked, ext, faults, held, fwd, back>>
  BY DEF Register, CancelWork, Begin, Finish, Deadline, bridgeVars, linkVars, sockVars
<1> QED  BY <1>1, LinksFrame

(* A process that dies takes its links along; the first primary goes on if  *)
(* it has the socket.                                                       *)
LEMMA CrashLinks ==
    ASSUME NEW p \in Procs, Crash(p), Types, Links, Settled
    PROVE  Links' /\ Settled'
<1>1. /\ role' = [role EXCEPT ![p] = "off"] /\ role \in [Procs -> {"primary", "proxy", "off"}]
      /\ faults'.crash # 0 /\ faults'.lost = (faults.lost \/ ext = p)
      /\ ext \in Procs \cup {NoProc} /\ p # NoProc /\ First \in Procs /\ First # NoProc
  BY BridgeCallsAssumption DEF Crash, Types, ProcTypes
<1>2. \A q \in Procs : Primary(q)' <=> Primary(q) /\ q # p
  BY <1>1 DEF Primary
<1>3. CASE Primary(p)
  <2>1. /\ linked' = {}
        /\ pending' = [pending EXCEPT ![p] = {}]
        /\ held' = [held EXCEPT ![p] = {}]
        /\ fwd' = [q \in Procs |-> <<>>] /\ back' = fwd'
        /\ IF ext = p THEN Silent ELSE UNCHANGED sockVars
    BY <1>3 DEF Crash
  <2>2. \A q \in Procs : held'[q] = {}
    BY <2>1, <1>3 DEF Links, Types, WaitTypes
  <2>3. ext' = NoProc
    BY <2>1, <1>1, <1>3 DEF Links, Silent, sockVars
  <2>4. \A q \in Procs : ~Primary(q)'
    BY <1>2, <1>3 DEF Links
  <2>5. Links'
    BY <2>1, <2>2, <2>3, <2>4 DEF Links
  <2>6. faults'.lost
    <3>1. ~faults.lost => ext = p
      BY <1>1, <1>3 DEF Settled, Steady, Links
    <3> QED  BY <3>1, <1>1
  <2> QED  BY <2>5, <2>6, <1>1 DEF Settled, Steady
<1>4. CASE ~Primary(p)
  <2>1. /\ linked' = linked \ {p} /\ ext' = ext
        /\ fwd' = [fwd EXCEPT ![p] = <<>>] /\ back' = [back EXCEPT ![p] = <<>>]
    BY <1>4 DEF Crash
  <2>2. \A q \in Procs : held'[q] # {} => held[q] # {}
    <3>1. CASE p \in linked
      <4>1. PICK q : held' = [held EXCEPT ![q] =
                           {[h EXCEPT !.from = IF @ = p THEN NoProc ELSE @] : h \in @}]
        BY <3>1, <1>4 DEF Crash
      <4> QED  BY <4>1 DEF Types, WaitTypes
    <3>2. CASE p \notin linked
      BY <3>2, <1>4 DEF Crash
    <3> QED  BY <3>1, <3>2
  <2>3. \A q \in Procs : Primary(q)' <=> Primary(q)
    BY <1>2, <1>4
  <2>4. \A q \in linked' : role'[q] = "proxy"
    BY <2>1, <1>1 DEF Links, Types, ProcTypes
  <2>5. \A q \in Procs : q \notin linked' => fwd'[q] = <<>> /\ back'[q] = <<>>
    BY <2>1 DEF Links, Types, MessageTypes
  <2>6. ext' # NoProc => Primary(ext)'
    BY <2>1, <2>3, <1>1 DEF Links
  <2>7. NoPrimary' => linked' = {}
    BY <2>1, <2>3 DEF Links, NoPrimary
  <2>8. Links'
    BY <2>2, <2>3, <2>4, <2>5, <2>6, <2>7 DEF Links
  <2>9. ASSUME ~faults'.lost
        PROVE  Primary(First)' /\ ext' = First /\ (\A q \in Procs : held'[q] = {})
               /\ \A q \in Procs : role'[q] = "proxy" => q \in linked'
    BY <2>9, <2>1, <2>2, <2>3, <1>1 DEF Settled, Steady
  <2> QED  BY <2>8, <2>9, <1>1 DEF Settled, Steady
<1> QED  BY <1>3, <1>4

(* Whoever joins takes the port only if it is free.                         *)
LEMMA FaultLinks ==
    ASSUME Drop \/ KillWorker \/ \E p \in Procs : Connect(p) \/ Join(p) \/ RecoveryExpires(p),
           Types, Links, Settled
    PROVE  Links' /\ Settled'
<1>1. CASE Drop \/ KillWorker
  <2>1. /\ ext' = NoProc /\ UNCHANGED <<role, linked, held, fwd, back>>
        /\ faults'.lost /\ faults'.crash = faults.crash
    BY <1>1 DEF Drop, KillWorker, Silent, bridgeVars, linkVars, Types, ProcTypes
  <2>2. \A q \in Procs : Primary(q)' <=> Primary(q)
    BY <2>1 DEF Primary
  <2>3. Links'
    BY <2>1, <2>2 DEF Links, NoPrimary
  <2>4. Settled'
    BY <2>1, <2>2, BridgeCallsAssumption DEF Settled, Steady
  <2> QED  BY <2>3, <2>4
<1>2. ASSUME NEW p \in Procs, Connect(p)
      PROVE  Links' /\ Settled'
  <2>1. /\ ext = NoProc /\ Primary(p) /\ ext' = p
        /\ UNCHANGED <<role, linked, held, fwd, back, faults>>
    BY <1>2 DEF Connect, bridgeVars, linkVars
  <2>2. \A q \in Procs : Primary(q)' <=> Primary(q)
    BY <2>1 DEF Primary
  <2>3. Links'
    BY <2>1, <2>2 DEF Links, NoPrimary
  <2>4. faults.lost
    BY <2>1, BridgeCallsAssumption DEF Settled
  <2>5. Settled'
    BY <2>1, <2>2, <2>4, BridgeCallsAssumption DEF Settled, Steady
  <2> QED  BY <2>3, <2>5
<1>3. ASSUME NEW p \in Procs, Join(p)
      PROVE  Links' /\ Settled'
  <2>1. /\ UNCHANGED <<held, fwd, back, ext, faults>> /\ p \notin linked /\ ~Primary(p)
        /\ role \in [Procs -> {"primary", "proxy", "off"}]
    BY <1>3 DEF Join, linkVars, sockVars, Primary, Links, Types, ProcTypes
  <2>2. CASE NoPrimary
    <3>1. role' = [role EXCEPT ![p] = "primary"] /\ linked' = linked
      BY <1>3, <2>2 DEF Join
    <3>2. \A q \in Procs : Primary(q)' <=> q = p
      BY <3>1, <2>1, <2>2 DEF Primary, NoPrimary
    <3>3. linked = {} /\ ext = NoProc /\ \A q \in Procs : held[q] = {}
      BY <2>1, <2>2 DEF Links, NoPrimary, Types, ProcTypes
    <3>4. Links'
      BY <3>1, <3>2, <3>3, <2>1 DEF Links, NoPrimary
    <3>5. ~Steady
      BY <2>2, BridgeCallsAssumption DEF Settled, NoPrimary
    <3> QED  BY <3>4, <3>5, <2>1 DEF Settled, Steady
  <2>3. CASE ~NoPrimary
    <3>1. role' = [role EXCEPT ![p] = "proxy"] /\ linked' = linked \cup {p}
      BY <1>3, <2>3 DEF Join
    <3>2. \A q \in Procs : Primary(q)' <=> Primary(q)
      BY <3>1, <2>1 DEF Primary
    <3>3. \A q \in linked' : role'[q] = "proxy"
      BY <3>1, <2>1 DEF Links, Types, ProcTypes
    <3>4. ext' # NoProc => Primary(ext)'
      BY <3>2, <2>1 DEF Links, Types, ProcTypes
    <3>5. Links'
      BY <3>1, <3>2, <3>3, <3>4, <2>1, <2>3 DEF Links, NoPrimary
    <3>6. Settled'
      BY <3>1, <3>2, <2>1, BridgeCallsAssumption DEF Settled, Steady
    <3> QED  BY <3>5, <3>6
  <2> QED  BY <2>2, <2>3
<1>4. ASSUME NEW p \in Procs, RecoveryExpires(p)
      PROVE  Links' /\ Settled'
  BY <1>4, LinksFrame DEF RecoveryExpires, bridgeVars, linkVars, sockVars
<1> QED  BY <1>1, <1>2, <1>3, <1>4

-----------------------------------------------------------------------------
(* Where the message of a call is.                                         *)

\* t carries the call c at most as s does.
Fewer(s, t, c) == (In(t, c) => In(s, c)) /\ (Once(s, c) => Once(t, c))

(* Taking a message, clearing a channel or cancelling brings no calls.      *)
LEMMA FewerFacts ==
    ASSUME NEW s \in Seq(Messages), NEW c
    PROVE  /\ Fewer(s, s, c) /\ Fewer(s, <<>>, c)
           /\ s # <<>> => Fewer(s, Tail(s), c)
           /\ \A x : Quiet(x) => Fewer(s, s \o x, c)
<1>1. Fewer(s, s, c)
  BY DEF Fewer
<1>2. Fewer(s, <<>>, c)
  BY DEF Fewer, In, Once, Range
<1>3. s # <<>> => Fewer(s, Tail(s), c)
  BY TailCalls DEF Fewer
<1>4. ASSUME NEW x, Quiet(x)
      PROVE  Fewer(s, s \o x, c)
  <2>1. ~In(x, c) /\ Once(x, c) /\ x \in Seq(Messages)
    BY <1>4, QuietCalls DEF Quiet
  <2> QED  BY <2>1, ConcatCalls DEF Fewer
<1> QED  BY <1>1, <1>2, <1>3, <1>4

(* Telling that nobody waits brings no calls.                               *)
LEMMA TellFewer ==
    ASSUME NEW p \in Procs, NEW r \in Entries, Tell(p, r), MessageTypes, NEW c
    PROVE  (\A q \in Procs : Fewer(fwd[q], fwd'[q], c)) /\ Fewer(down, down', c)
<1>1. PICK x, y : Quiet(x) /\ Quiet(y) /\ fwd' = [fwd EXCEPT ![p] = @ \o x] /\ down' = down \o y
  BY TellQuiet
<1>2. down \in Seq(Messages) /\ fwd \in [Procs -> Seq(Messages)]
  BY DEF MessageTypes
<1>3. Fewer(down, down', c)
  BY <1>1, <1>2, FewerFacts
<1>4. ASSUME NEW q \in Procs
      PROVE  Fewer(fwd[q], fwd'[q], c)
  <2>1. fwd[q] \in Seq(Messages) /\ fwd'[q] = IF q = p THEN fwd[q] \o x ELSE fwd[q]
    BY <1>1, <1>2
  <2> QED  BY <2>1, <1>1, FewerFacts
<1> QED  BY <1>3, <1>4

(* Steps that do not move the message of c.                                 *)
LEMMA PlacedFrame ==
    ASSUME NEW c \in Calls, Placed(c),
           \A p \in Procs : Fewer(fwd[p], fwd'[p], c),
           Fewer(down, down', c),
           \A p \in Procs : /\ HeldFor(p, c)' # {} => HeldFor(p, c) # {}
                            /\ \A h, g \in HeldFor(p, c)' : h = g,
           work'[c].st = "queued" => work[c].st = "queued",
           work'[c].st # "none" => work[c].st # "none",
           call'[c].st \in {"idle", "waiting"} => call[c].st \in {"idle", "waiting"},
           begun'[c] = begun[c]
    PROVE  Placed(c)'
<1>1. \A p \in Procs : (In(fwd[p], c)' => In(fwd[p], c)) /\ (Once(fwd[p], c) => Once(fwd[p], c)')
  BY DEF Fewer
<1>2. (In(down, c)' => In(down, c)) /\ (Once(down, c) => Once(down, c)')
  BY DEF Fewer
<1>3. IsFwd(c)' => IsFwd(c)
  BY <1>1 DEF IsFwd
<1>4. IsHeld(c)' => IsHeld(c)
  BY DEF IsHeld
<1>5. \A p \in Procs : In(fwd[p], c)' => p = Home[c] /\ Once(fwd[p], c)'
  BY <1>1 DEF Placed
<1>6. /\ \A p \in Procs : HeldFor(p, c)' # {} => p # Home[c]
      /\ \A p \in Procs : \A h, g \in HeldFor(p, c)' : h = g
  BY DEF Placed
<1>7. Once(down, c)'
  BY <1>2 DEF Placed
<1>8. /\ IsFwd(c)' => ~IsHeld(c)' /\ ~In(down, c)'
      /\ IsHeld(c)' => ~In(down, c)'
      /\ work'[c].st # "none" => ~IsFwd(c)' /\ ~IsHeld(c)' /\ ~In(down, c)'
  BY <1>2, <1>3, <1>4 DEF Placed
<1>9. /\ call'[c].st \in {"idle", "waiting"} =>
           ~IsFwd(c)' /\ ~IsHeld(c)' /\ ~In(down, c)' /\ work'[c].st = "none" /\ begun'[c] = 0
      /\ IsFwd(c)' \/ IsHeld(c)' \/ In(down, c)' \/ work'[c].st = "queued" => begun'[c] = 0
      /\ begun'[c] <= 1
  BY <1>2, <1>3, <1>4 DEF Placed
<1> QED  BY <1>5, <1>6, <1>7, <1>8, <1>9 DEF Placed

(* The same when nothing is held anew.                                      *)
LEMMA PlacedHeld ==
    ASSUME NEW c \in Calls, Placed(c), held' = held
    PROVE  \A p \in Procs : /\ HeldFor(p, c)' # {} => HeldFor(p, c) # {}
                            /\ \A h, g \in HeldFor(p, c)' : h = g
<1>1. \A p \in Procs : HeldFor(p, c)' = HeldFor(p, c)
  BY DEF HeldFor
<1> QED  BY <1>1 DEF Placed

(* The message of a call that is sent is in one place.                      *)
LEMMA SendPlaced ==
    ASSUME NEW d \in Calls, SendCall(d), Types, Links, counter[Home[d]] + 1 \in 1 .. N,
           \A c \in Calls : Placed(c)
    PROVE  \A c \in Calls : Placed(c)'
<1> DEFINE p == Home[d]
<1> DEFINE id == counter[p] + 1
<1> DEFINE out == IF call[d].aborted THEN <<Call(id, d), Cancel(id)>> ELSE <<Call(id, d)>>
<1>1. p \in Procs /\ call[d].st \in {"idle", "waiting"}
  BY BridgeCallsAssumption DEF SendCall
<1>2. /\ IF Primary(p)
         THEN down' = down \o out /\ UNCHANGED fwd
         ELSE fwd' = [fwd EXCEPT ![p] = @ \o out] /\ UNCHANGED down
      /\ UNCHANGED <<held, work, begun>>
  BY DEF SendCall, swVars
<1>3. out \in Seq(Messages) /\ \A c : Once(out, c) /\ (In(out, c) <=> c = d)
  BY OneCall, CallAndCancel
<1>4. call'[d].st \notin {"idle", "waiting"} /\ \A c \in Calls : c # d => call'[c] = call[c]
  <2>1. CASE call[d].aborted
    BY <2>1, AnswerTypes DEF SendCall, Types, Whats
  <2>2. CASE ~call[d].aborted
    BY <2>2 DEF SendCall, Types, WorkTypes, CallRecords
  <2> QED  BY <2>1, <2>2
<1> HIDE DEF id, out
<1>5. down \in Seq(Messages) /\ fwd \in [Procs -> Seq(Messages)]
  BY DEF Types, MessageTypes
<1>6. \A c : (In(down \o out, c) <=> In(down, c) \/ c = d)
          /\ (Once(down, c) /\ (c = d => ~In(down, d)) => Once(down \o out, c))
  BY <1>3, <1>5, ConcatCalls
<1>7. \A c : (In(fwd[p] \o out, c) <=> In(fwd[p], c) \/ c = d)
          /\ (Once(fwd[p], c) /\ (c = d => ~In(fwd[p], d)) => Once(fwd[p] \o out, c))
  BY <1>1, <1>3, <1>5, ConcatCalls
<1> HIDE DEF p
<1>8. \A q \in Procs : fwd'[q] = IF ~Primary(p) /\ q = p THEN fwd[p] \o out ELSE fwd[q]
  BY <1>1, <1>2, <1>5
<1>9. down' = IF Primary(p) THEN down \o out ELSE down
  BY <1>2
<1>10. ASSUME NEW c \in Calls, c # d
       PROVE  Placed(c)'
  <2>1. Fewer(down, down', c)
    BY <1>6, <1>9, <1>10 DEF Fewer
  <2>2. \A q \in Procs : Fewer(fwd[q], fwd'[q], c)
    BY <1>7, <1>8, <1>10 DEF Fewer
  <2>3. \A q \in Procs : /\ HeldFor(q, c)' # {} => HeldFor(q, c) # {}
                         /\ \A h, g \in HeldFor(q, c)' : h = g
    BY <1>2, PlacedHeld
  <2> QED  BY <2>1, <2>2, <2>3, <1>2, <1>4, <1>10, PlacedFrame
<1>11. Placed(d)'
  <2>1. ~IsFwd(d) /\ ~IsHeld(d) /\ ~In(down, d) /\ work[d].st = "none" /\ begun[d] = 0 /\ Once(down, d)
    BY <1>1 DEF Placed
  <2>2. \A q \in Procs : HeldFor(q, d)' = {}
    BY <1>2, <2>1 DEF IsHeld, HeldFor
  <2>3. \A q \in Procs : In(fwd[q], d)' => ~Primary(p) /\ q = p /\ Once(fwd[q], d)'
    <3>1. \A q \in Procs : ~In(fwd[q], d)
      BY <2>1 DEF IsFwd
    <3>2. Once(fwd[p], d)
      BY <3>1, <1>1 DEF In, Once, Range
    <3> QED  BY <3>1, <3>2, <1>1, <1>7, <1>8
  <2>4. Once(down, d)' /\ (In(down, d)' => Primary(p))
    BY <1>6, <1>9, <2>1
  <2>5. IsFwd(d)' => ~Primary(p)
    BY <2>3 DEF IsFwd
  <2>6. ~IsHeld(d)'
    BY <2>2 DEF IsHeld
  <2> QED  BY <1>2, <1>4, <2>1, <2>2, <2>3, <2>4, <2>5, <2>6 DEF Placed, p
<1> QED  BY <1>10, <1>11

(* The calls that wait are sent to the extension once.                      *)
LEMMA RelayPlaced ==
    ASSUME NEW p \in Procs, NEW s \in Procs, RelayCall(p, s), Types, Links,
           counter[p] + 1 \in 1 .. N, \A c \in Calls : Placed(c)
    PROVE  \A c \in Calls : Placed(c)'
<1>0. PICK m : m = Head(fwd[s])
  OBVIOUS
<1> DEFINE d == m.call
<1> DEFINE id == counter[p] + 1
<1>1. /\ Primary(p) /\ s \in linked /\ fwd[s] # <<>> /\ m.type = "call"
      /\ fwd' = [fwd EXCEPT ![s] = Tail(fwd[s])]
      /\ UNCHANGED <<work, call, begun>>
      /\ \/ ext = p /\ down' = down \o <<Call(id, d)>> /\ UNCHANGED held
         \/ /\ ext # p /\ UNCHANGED down
            /\ held' = [held EXCEPT ![p] = @ \cup {[call |-> d, from |-> s, sid |-> m.id]}]
  BY <1>0 DEF RelayCall, Dispatch, RelayId, ToExt, Shift, swVars
<1>2. down \in Seq(Messages) /\ fwd \in [Procs -> Seq(Messages)] /\ held \in [Procs -> SUBSET Holds]
  BY DEF Types, MessageTypes, WaitTypes
<1>3. m \in Messages /\ d \in Calls
  BY <1>0, <1>1, <1>2, TailRange DEF Messages
<1>4. /\ \A c : In(Tail(fwd[s]), c) => In(fwd[s], c)
      /\ \A c : Once(fwd[s], c) => Once(Tail(fwd[s]), c)
      /\ Once(fwd[s], d) => ~In(Tail(fwd[s]), d)
      /\ In(fwd[s], d)
  BY <1>0, <1>1, <1>2, TailCalls DEF Carries
<1>5. \A c : (In(down \o <<Call(id, d)>>, c) <=> In(down, c) \/ c = d)
          /\ (Once(down, c) /\ (c = d => ~In(down, d)) => Once(down \o <<Call(id, d)>>, c))
  <2>1. <<Call(id, d)>> \in Seq(Messages)
        /\ \A c : Once(<<Call(id, d)>>, c) /\ (In(<<Call(id, d)>>, c) <=> c = d)
    BY <1>3, OneCall
  <2> HIDE DEF id, d
  <2> QED  BY <2>1, <1>2, ConcatCalls
<1>6. IsFwd(d) /\ s = Home[d] /\ Once(fwd[s], d) /\ ~IsHeld(d) /\ ~In(down, d) /\ Once(down, d)
      /\ work[d].st = "none" /\ begun[d] = 0 /\ call[d].st \notin {"idle", "waiting"}
  BY <1>3, <1>4 DEF IsFwd, Placed
<1>7. p # s
  BY <1>1 DEF Links, Primary
<1> DEFINE h == [call |-> d, from |-> s, sid |-> m.id]
<1>8. h.call = d
  OBVIOUS
<1>9. \/ /\ \A c : (In(down, c)' <=> In(down, c) \/ c = d)
                   /\ (Once(down, c) /\ (c = d => ~In(down, d)) => Once(down, c)')
         /\ held' = held
      \/ /\ down' = down /\ held' = [held EXCEPT ![p] = @ \cup {h}]
  BY <1>1, <1>5
<1>10. \A q \in Procs : fwd'[q] = IF q = s THEN Tail(fwd[s]) ELSE fwd[q]
  BY <1>1, <1>2
<1>11. UNCHANGED <<work, call, begun>>
  BY <1>1
<1> HIDE DEF d, id, h
<1>12. ASSUME NEW c \in Calls, c # d
       PROVE  Placed(c)'
  <2>1. Fewer(down, down', c)
    BY <1>9, <1>12 DEF Fewer
  <2>2. \A q \in Procs : Fewer(fwd[q], fwd'[q], c)
    BY <1>4, <1>10 DEF Fewer
  <2>3. \A q \in Procs : HeldFor(q, c)' = HeldFor(q, c)
    BY <1>2, <1>8, <1>9, <1>12 DEF HeldFor
  <2>4. \A q \in Procs : /\ HeldFor(q, c)' # {} => HeldFor(q, c) # {}
                         /\ \A x, g \in HeldFor(q, c)' : x = g
    BY <2>3 DEF Placed
  <2> QED  BY <2>1, <2>2, <2>4, <1>11, PlacedFrame
<1>13. Placed(d)'
  <2>1. ~IsFwd(d)' /\ \A q \in Procs : ~In(fwd[q], d)'
    <3>1. \A q \in Procs : q # s => ~In(fwd[q], d)
      BY <1>3, <1>6 DEF Placed
    <3>2. \A q \in Procs : ~In(fwd[q], d)'
      BY <3>1, <1>4, <1>6, <1>10
    <3> QED  BY <3>2 DEF IsFwd
  <2>2. \A q \in Procs : HeldFor(q, d) = {}
    BY <1>6 DEF IsHeld
  <2>3. CASE held' = held /\ \A c : (In(down, c)' <=> In(down, c) \/ c = d)
                                    /\ (Once(down, c) /\ (c = d => ~In(down, d)) => Once(down, c)')
    <3>1. \A q \in Procs : HeldFor(q, d)' = {}
      BY <2>2, <2>3 DEF HeldFor
    <3>2. Once(down, d)' /\ ~IsHeld(d)'
      BY <3>1, <2>3, <1>6 DEF IsHeld
    <3> QED  BY <2>1, <3>1, <3>2, <1>6, <1>11 DEF Placed
  <2>4. CASE down' = down /\ held' = [held EXCEPT ![p] = @ \cup {h}]
    <3>1. \A q \in Procs : HeldFor(q, d)' = IF q = p THEN {h} ELSE {}
      BY <2>2, <2>4, <1>2, <1>8 DEF HeldFor
    <3>2. ~In(down, d)' /\ Once(down, d)'
      BY <2>4, <1>6
    <3>3. \A q \in Procs : /\ HeldFor(q, d)' # {} => q # Home[d]
                           /\ \A x, g \in HeldFor(q, d)' : x = g
      BY <3>1, <1>6, <1>7
    <3> QED  BY <2>1, <3>2, <3>3, <1>6, <1>11 DEF Placed
  <2> QED  BY <2>3, <2>4, <1>9
<1> QED  BY <1>12, <1>13

(* A held call leaves for the extension, or is given up.                    *)
LEMMA HeldPlaced ==
    ASSUME NEW p \in Procs, NEW h \in held[p], HeldResumes(p, h) \/ HeldExpires(p, h), Types, Links,
           counter[p] + 1 \in 1 .. N, \A c \in Calls : Placed(c)
    PROVE  \A c \in Calls : Placed(c)'
<1> DEFINE d == h.call
<1> DEFINE id == counter[p] + 1
<1>1. /\ held' = [held EXCEPT ![p] = @ \ {h}] /\ UNCHANGED <<fwd, work, call, begun>>
      /\ \/ HeldResumes(p, h) /\ down' = down \o <<Call(id, d)>>
         \/ HeldExpires(p, h) /\ UNCHANGED down
  BY DEF HeldResumes, HeldExpires, Unheld, Dispatch, RelayId, ToExt, linkVars, sockVars, swVars
<1>2. down \in Seq(Messages) /\ fwd \in [Procs -> Seq(Messages)] /\ held \in [Procs -> SUBSET Holds]
  BY DEF Types, MessageTypes, WaitTypes
<1>3. d \in Calls
  BY <1>2 DEF Holds
<1>4. \A c : (In(down \o <<Call(id, d)>>, c) <=> In(down, c) \/ c = d)
          /\ (Once(down, c) /\ (c = d => ~In(down, d)) => Once(down \o <<Call(id, d)>>, c))
  <2>1. <<Call(id, d)>> \in Seq(Messages)
        /\ \A c : Once(<<Call(id, d)>>, c) /\ (In(<<Call(id, d)>>, c) <=> c = d)
    BY <1>3, OneCall
  <2> HIDE DEF id, d
  <2> QED  BY <2>1, <1>2, ConcatCalls
<1>5. IsHeld(d) /\ ~IsFwd(d) /\ ~In(down, d) /\ Once(down, d)
      /\ work[d].st = "none" /\ begun[d] = 0 /\ call[d].st \notin {"idle", "waiting"}
  <2>1. h \in HeldFor(p, d)
    BY DEF HeldFor
  <2> QED  BY <2>1, <1>3 DEF IsHeld, Placed
<1>6. \A q \in Procs : HeldFor(q, d)' = {}
  <2>1. \A q \in Procs : held[q] # {} => q = p
    BY DEF Links
  <2>2. \A x \in held[p] : x.call = d => x = h
    BY <1>3 DEF Placed, HeldFor
  <2> QED  BY <2>1, <2>2, <1>1, <1>2 DEF HeldFor
<1>7. \A c, q : q \in Procs => HeldFor(q, c)' \subseteq HeldFor(q, c)
  BY <1>1, <1>2 DEF HeldFor
<1>8. \A c \in Calls, q \in Procs : /\ HeldFor(q, c)' # {} => HeldFor(q, c) # {}
                                    /\ \A x, g \in HeldFor(q, c)' : x = g
  BY <1>7 DEF Placed
<1>9. \A c : \A q \in Procs : Fewer(fwd[q], fwd'[q], c)
  BY <1>1 DEF Fewer
<1>10. UNCHANGED <<fwd, work, call, begun>>
  BY <1>1
<1>11. CASE down' = down
  <2>1. \A c : Fewer(down, down', c)
    BY <1>11 DEF Fewer
  <2> QED  BY <2>1, <1>8, <1>9, <1>10, PlacedFrame
<1>12. CASE down' = down \o <<Call(id, d)>>
  <2>1. \A c : (In(down, c)' <=> In(down, c) \/ c = d)
            /\ (Once(down, c) /\ (c = d => ~In(down, d)) => Once(down, c)')
    BY <1>4, <1>12
  <2> HIDE DEF d, id
  <2>2. ASSUME NEW c \in Calls, c # d
        PROVE  Placed(c)'
    <3>1. Fewer(down, down', c)
      BY <2>1, <2>2 DEF Fewer
    <3> QED  BY <3>1, <1>8, <1>9, <1>10, PlacedFrame
  <2>3. Placed(d)'
    <3>1. ~IsHeld(d)' /\ ~IsFwd(d)' /\ \A q \in Procs : ~In(fwd[q], d)'
      BY <1>5, <1>6, <1>10 DEF IsHeld, IsFwd
    <3>2. Once(down, d)'
      BY <2>1, <1>5
    <3> QED  BY <3>1, <3>2, <1>5, <1>6, <1>10 DEF Placed
  <2> QED  BY <2>2, <2>3
<1> QED  BY <1>1, <1>11, <1>12

(* A call that the extension registers is in no channel any more.           *)
LEMMA RegisterPlaced ==
    ASSUME Register, Types, \A c \in Calls : Placed(c)
    PROVE  \A c \in Calls : Placed(c)'
<1>0. PICK m : m = Head(down)
  OBVIOUS
<1> DEFINE d == m.call
<1> DEFINE w == [st |-> "queued", id |-> m.id, aborted |-> FALSE]
<1>1. /\ down # <<>> /\ m.type = "call" /\ down' = Tail(down)
      /\ work' = [work EXCEPT ![d] = w]
      /\ UNCHANGED <<fwd, held, call, begun>>
  BY <1>0 DEF Register, bridgeVars, linkVars
<1>2. down \in Seq(Messages) /\ work \in [Calls -> WorkRecords]
  BY DEF Types, MessageTypes, WorkTypes
<1>3. d \in Calls
  BY <1>0, <1>1, <1>2, TailRange DEF Messages
<1>4. In(down, d) /\ (Once(down, d) => ~In(Tail(down), d)) /\ \A c : Fewer(down, Tail(down), c)
  BY <1>0, <1>1, <1>2, TailCalls DEF Carries, Fewer
<1>5. w.st = "queued"
  OBVIOUS
<1> HIDE DEF d, w
<1>6. \A c \in Calls : \A q \in Procs : Fewer(fwd[q], fwd'[q], c)
  BY <1>1 DEF Fewer
<1>7. \A c \in Calls : \A q \in Procs : /\ HeldFor(q, c)' # {} => HeldFor(q, c) # {}
                                        /\ \A x, g \in HeldFor(q, c)' : x = g
  BY <1>1, PlacedHeld
<1>8. ASSUME NEW c \in Calls, c # d
      PROVE  Placed(c)'
  <2>1. work'[c] = work[c] /\ Fewer(down, down', c)
    BY <1>1, <1>2, <1>3, <1>4, <1>8
  <2> QED  BY <2>1, <1>1, <1>6, <1>7, PlacedFrame
<1>9. Placed(d)'
  <2>1. Once(down, d) /\ ~IsFwd(d) /\ ~IsHeld(d) /\ work[d].st = "none" /\ begun[d] = 0
        /\ call[d].st \notin {"idle", "waiting"}
    BY <1>3, <1>4 DEF Placed
  <2>2. ~In(down, d)' /\ Once(down, d)'
    BY <2>1, <1>1, <1>4 DEF Fewer
  <2>3. ~IsFwd(d)' /\ \A q \in Procs : ~In(fwd[q], d)'
    BY <2>1, <1>1 DEF IsFwd
  <2>4. ~IsHeld(d)' /\ \A q \in Procs : HeldFor(q, d)' = {}
    BY <2>1, <1>1 DEF IsHeld, HeldFor
  <2>5. work'[d].st = "queued"
    BY <1>1, <1>2, <1>3, <1>5
  <2> QED  BY <2>1, <2>2, <2>3, <2>4, <2>5, <1>1 DEF Placed
<1> QED  BY <1>8, <1>9

(* A call begins out of the queue, for the first time.                      *)
LEMMA BeginPlaced ==
    ASSUME NEW d \in Calls, Begin(d), Types, \A c \in Calls : Placed(c)
    PROVE  \A c \in Calls : Placed(c)'
<1>1. /\ work[d].st = "queued" /\ work' = [work EXCEPT ![d].st = "running"]
      /\ begun' = [begun EXCEPT ![d] = Min({2, @ + 1})]
      /\ UNCHANGED <<fwd, down, held, call>>
  BY DEF Begin, bridgeVars, linkVars, sockVars
<1>2. work \in [Calls -> WorkRecords] /\ begun \in [Calls -> 0 .. 2]
  BY DEF Types, WorkTypes
<1>3. \A c \in Calls : Fewer(down, down', c) /\ \A q \in Procs : Fewer(fwd[q], fwd'[q], c)
  BY <1>1 DEF Fewer
<1>4. \A c \in Calls : \A q \in Procs : /\ HeldFor(q, c)' # {} => HeldFor(q, c) # {}
                                        /\ \A x, g \in HeldFor(q, c)' : x = g
  BY <1>1, PlacedHeld
<1>5. ASSUME NEW c \in Calls, c # d
      PROVE  Placed(c)'
  <2>1. work'[c] = work[c] /\ begun'[c] = begun[c]
    BY <1>1, <1>2, <1>5
  <2> QED  BY <2>1, <1>1, <1>3, <1>4, PlacedFrame
<1>6. Placed(d)'
  <2>1. begun[d] = 0 /\ ~IsFwd(d) /\ ~IsHeld(d) /\ ~In(down, d) /\ Once(down, d)
        /\ call[d].st \notin {"idle", "waiting"}
    BY <1>1 DEF Placed
  <2>2. begun'[d] = 1
    BY <2>1, <1>1, <1>2, MinOf
  <2>3. work'[d].st = "running"
    BY <1>1, <1>2 DEF WorkRecords
  <2>4. ~In(down, d)' /\ Once(down, d)'
    BY <2>1, <1>1
  <2>5. ~IsFwd(d)' /\ \A q \in Procs : ~In(fwd[q], d)'
    BY <2>1, <1>1 DEF IsFwd
  <2>6. ~IsHeld(d)' /\ \A q \in Procs : HeldFor(q, d)' = {}
    BY <2>1, <1>1 DEF IsHeld, HeldFor
  <2> QED  BY <2>1, <2>2, <2>3, <2>4, <2>5, <2>6, <1>1 DEF Placed
<1> QED  BY <1>5, <1>6

(* Steps that send no call and start none.                                  *)
LEMMA ClientPlaced ==
    ASSUME NEW d \in Calls, Wait(d) \/ GiveUp(d) \/ ClientCancels(d), Types,
           \A c \in Calls : Placed(c)
    PROVE  \A c \in Calls : Placed(c)'
<1> SUFFICES ASSUME NEW c \in Calls
             PROVE  Placed(c)'
  OBVIOUS
<1>1. UNCHANGED <<held, work, begun>>
  BY DEF Wait, GiveUp, ClientCancels, bridgeVars, swVars
<1>2. (\A q \in Procs : Fewer(fwd[q], fwd'[q], c)) /\ Fewer(down, down', c)
  <2>1. CASE UNCHANGED <<fwd, down>>
    BY <2>1 DEF Fewer
  <2>2. CASE \E r \in pending[Home[d]] : Tell(Home[d], r)
    <3>1. Home[d] \in Procs /\ pending[Home[d]] \subseteq Entries
      BY BridgeCallsAssumption DEF Types, WaitTypes
    <3> QED  BY <2>2, <3>1, TellFewer DEF Types
  <2> QED  BY <2>1, <2>2 DEF Wait, GiveUp, ClientCancels, linkVars, sockVars
<1>3. call'[c].st \in {"idle", "waiting"} => call[c].st \in {"idle", "waiting"}
  <2>1. call \in [Calls -> CallRecords] /\ call[c] \in CallRecords /\ call[d] \in CallRecords
    BY DEF Types, WorkTypes
  <2>2. CASE c # d
    BY <2>1, <2>2 DEF Wait, GiveUp, ClientCancels, Answer
  <2>3. CASE c = d
    <3>1. call[d].st \in {"idle", "waiting"} \/ call'[d].st = "done"
      BY <2>1 DEF Wait, GiveUp, ClientCancels
    <3> QED  BY <3>1, <2>3
  <2> QED  BY <2>2, <2>3
<1> QED  BY <1>1, <1>2, <1>3, PlacedHeld, PlacedFrame

(* A result that is delivered settles at most its own call.                 *)
LEMMA DeliverCalls ==
    ASSUME NEW p \in Procs, NEW r \in Entries, NEW what \in Whats, Deliver(p, r, what), WorkTypes,
           NEW c \in Calls
    PROVE  /\ c # r.call => call'[c] = call[c]
           /\ r.from # p => call' = call
           /\ call'[c].st = call[c].st \/ call'[c].st = "done"
<1>1. CASE Relayed(p, r)
  BY <1>1 DEF Deliver, Relayed
<1>2. CASE ~Relayed(p, r)
  <2>1. Answer(r.call, what) /\ r.call \in Calls
    BY <1>2 DEF Deliver, Entries
  <2>2. call'[r.call].st = "done" /\ \A d \in Calls : d # r.call => call'[d] = call[d]
    BY <2>1, AnswerTypes
  <2> QED  BY <1>2, <2>2 DEF Relayed
<1> QED  BY <1>1, <1>2

(* Results, timeouts and cancellations move no call.                        *)
LEMMA ServerPlaced ==
    ASSUME NEW p \in Procs,
           \/ TakeResult(p) \/ TakeRelayed(p)
           \/ \E s \in Procs : RelayCancel(p, s)
           \/ \E r \in pending[p] : Timeout(p, r),
           Types, \A c \in Calls : Placed(c)
    PROVE  \A c \in Calls : Placed(c)'
<1> SUFFICES ASSUME NEW c \in Calls
             PROVE  Placed(c)'
  OBVIOUS
<1>0. down \in Seq(Messages) /\ fwd \in [Procs -> Seq(Messages)] /\ pending \in [Procs -> SUBSET Entries]
      /\ up \in Seq(Results) /\ back \in [Procs -> Seq(Results)]
  BY DEF Types, MessageTypes, WaitTypes
<1>1. CASE TakeResult(p)
  <2>1. UNCHANGED <<held, work, begun, fwd, down>> /\ up # <<>>
    BY <1>1 DEF TakeResult, bridgeVars, swVars
  <2>2. UNCHANGED call \/ \E r \in pending[p] : Deliver(p, r, Head(up).what)
    BY <1>1 DEF TakeResult
  <2>3. Head(up).what \in Whats
    <3>1. Head(up) \in Results
      BY <1>0, <2>1, TailRange
    <3> QED  BY <3>1 DEF Results
  <2>4. call'[c].st = call[c].st \/ call'[c].st = "done"
    BY <1>0, <2>2, <2>3, DeliverCalls DEF Types
  <2>5. (\A q \in Procs : Fewer(fwd[q], fwd'[q], c)) /\ Fewer(down, down', c)
    BY <2>1 DEF Fewer
  <2> QED  BY <2>1, <2>4, <2>5, PlacedHeld, PlacedFrame
<1>2. CASE TakeRelayed(p)
  <2>1. UNCHANGED <<held, work, begun, fwd, down>> /\ back[p] # <<>>
    BY <1>2 DEF TakeRelayed, bridgeVars, sockVars, swVars
  <2>2. UNCHANGED call \/ \E r \in pending[p] : Answer(r.call, Head(back[p]).what)
    BY <1>2 DEF TakeRelayed
  <2>3. Head(back[p]).what \in Whats
    <3>1. Head(back[p]) \in Results
      BY <1>0, <2>1, TailRange
    <3> QED  BY <3>1 DEF Results
  <2>4. call'[c].st = call[c].st \/ call'[c].st = "done"
    <3>1. CASE UNCHANGED call
      BY <3>1
    <3>2. CASE \E r \in pending[p] : Answer(r.call, Head(back[p]).what)
      <4>1. PICK r \in pending[p] : Answer(r.call, Head(back[p]).what)
        BY <3>2
      <4>2. r.call \in Calls
        BY <1>0 DEF Entries
      <4> QED  BY <4>1, <4>2, <2>3, AnswerTypes DEF Types
    <3> QED  BY <3>1, <3>2, <2>2
  <2>5. (\A q \in Procs : Fewer(fwd[q], fwd'[q], c)) /\ Fewer(down, down', c)
    BY <2>1 DEF Fewer
  <2> QED  BY <2>1, <2>4, <2>5, PlacedHeld, PlacedFrame
<1>3. ASSUME NEW s \in Procs, RelayCancel(p, s)
      PROVE  Placed(c)'
  <2> DEFINE mine == {r \in pending[p] : r.from = s /\ Relayed(p, r) /\ r.sid = Head(fwd[s]).id}
  <2>1. /\ down' = ToExt(p, SetToSeq({Cancel(r.id) : r \in mine}))
        /\ fwd[s] # <<>> /\ fwd' = [fwd EXCEPT ![s] = Tail(fwd[s])]
        /\ UNCHANGED <<held, call, work, begun>>
    BY <1>3 DEF RelayCancel, Shift, bridgeVars, swVars
  <2>2. mine \subseteq pending[p] /\ IsFiniteSet(pending[p])
    BY DEF Types, WaitTypes
  <2> HIDE DEF mine
  <2>3. IsFiniteSet(mine) /\ \A r \in mine : r.id \in 1 .. N
    BY <1>0, <2>2, FS_Subset DEF Entries
  <2>4. Quiet(SetToSeq({Cancel(r.id) : r \in mine}))
    BY <2>3, QuietSets
  <2>5. Fewer(down, down', c)
    BY <1>0, <2>1, <2>4, FewerFacts DEF ToExt
  <2>6. \A q \in Procs : Fewer(fwd[q], fwd'[q], c)
    BY <1>0, <2>1, FewerFacts
  <2> QED  BY <2>1, <2>5, <2>6, PlacedHeld, PlacedFrame
<1>4. ASSUME NEW r \in pending[p], Timeout(p, r)
      PROVE  Placed(c)'
  <2>1. UNCHANGED <<held, work, begun>> /\ Tell(p, r) /\ Deliver(p, r, "timeout")
    BY <1>4 DEF Timeout, bridgeVars, swVars
  <2>2. (\A q \in Procs : Fewer(fwd[q], fwd'[q], c)) /\ Fewer(down, down', c)
    BY <1>0, <2>1, TellFewer DEF Types
  <2>3. call'[c].st = call[c].st \/ call'[c].st = "done"
    BY <1>0, <2>1, DeliverCalls DEF Types, Whats
  <2> QED  BY <2>1, <2>2, <2>3, PlacedHeld, PlacedFrame
<1> QED  BY <1>1, <1>2, <1>3, <1>4

(* The end of a call, its deadline and its cancellation move none.          *)
LEMMA ExtensionPlaced ==
    ASSUME CancelWork \/ \E d \in Calls : Finish(d) \/ Deadline(d), Types,
           \A c \in Calls : Placed(c)
    PROVE  \A c \in Calls : Placed(c)'
<1> SUFFICES ASSUME NEW c \in Calls
             PROVE  Placed(c)'
  OBVIOUS
<1>0. down \in Seq(Messages) /\ work \in [Calls -> WorkRecords]
  BY DEF Types, MessageTypes, WorkTypes
<1>1. UNCHANGED <<held, call, begun, fwd>>
  BY DEF CancelWork, Finish, Deadline, bridgeVars, linkVars
<1>2. Fewer(down, down', c) /\ \A q \in Procs : Fewer(fwd[q], fwd'[q], c)
  <2>1. down' = down \/ (down # <<>> /\ down' = Tail(down))
    BY DEF CancelWork, Finish, Deadline, sockVars
  <2>2. Fewer(down, down', c)
    BY <1>0, <2>1, FewerFacts
  <2>3. \A q \in Procs : Fewer(fwd[q], fwd'[q], c)
    BY <1>1 DEF Fewer
  <2> QED  BY <2>2, <2>3
<1>3. work'[c].st = work[c].st \/ (work'[c].st = "over" /\ work[c].st # "none")
  <2>1. CASE CancelWork
    BY <1>0, <2>1 DEF CancelWork, WorkRecords
  <2>2. ASSUME NEW d \in Calls, Finish(d)
        PROVE  work'[c].st = work[c].st \/ (work'[c].st = "over" /\ work[c].st # "none")
    BY <1>0, <2>2 DEF Finish, WorkRecords
  <2>3. ASSUME NEW d \in Calls, Deadline(d)
        PROVE  work'[c].st = work[c].st
    BY <1>0, <2>3 DEF Deadline, WorkRecords
  <2> QED  BY <2>1, <2>2, <2>3
<1> QED  BY <1>1, <1>2, <1>3, PlacedHeld, PlacedFrame

(* Drops and recoveries lose messages and bring none.                       *)
LEMMA FaultPlaced ==
    ASSUME Drop \/ KillWorker \/ \E p \in Procs : Connect(p) \/ Join(p) \/ RecoveryExpires(p), Types,
           \A c \in Calls : Placed(c)
    PROVE  \A c \in Calls : Placed(c)'
<1> SUFFICES ASSUME NEW c \in Calls
             PROVE  Placed(c)'
  OBVIOUS
<1>0. down \in Seq(Messages)
  BY DEF Types, MessageTypes
<1>1. UNCHANGED <<held, begun, fwd>>
  BY DEF Drop, KillWorker, Connect, Join, RecoveryExpires, bridgeVars, linkVars, swVars
<1>2. Fewer(down, down', c) /\ \A q \in Procs : Fewer(fwd[q], fwd'[q], c)
  <2>1. down' = down \/ down' = <<>>
    BY DEF Drop, KillWorker, Connect, Join, RecoveryExpires, Silent, sockVars
  <2>2. Fewer(down, down', c)
    BY <1>0, <2>1, FewerFacts
  <2>3. \A q \in Procs : Fewer(fwd[q], fwd'[q], c)
    BY <1>1 DEF Fewer
  <2> QED  BY <2>2, <2>3
<1>3. work'[c].st = work[c].st \/ work'[c].st = "none"
  <2>1. CASE UNCHANGED work
    BY <2>1
  <2>2. CASE work' = [d \in Calls |-> NoWork]
    <3>1. work'[c] = NoWork
      BY <2>2
    <3> QED  BY <3>1 DEF NoWork
  <2> QED  BY <2>1, <2>2 DEF Drop, KillWorker, Connect, Join, RecoveryExpires, swVars
<1>4. call'[c].st = call[c].st \/ call'[c].st = "done"
  <2>1. CASE UNCHANGED call
    BY <2>1
  <2>2. ASSUME NEW p \in Procs, RecoveryExpires(p)
        PROVE  call'[c].st = call[c].st \/ call'[c].st = "done"
    <3>1. call[c] \in CallRecords
      BY DEF Types, WorkTypes
    <3>2. [call[c] EXCEPT !.st = "done", !.answer = "error"].st = "done"
      BY <3>1 DEF CallRecords
    <3>3. call'[c] = [call[c] EXCEPT !.st = "done", !.answer = "error"] \/ call'[c] = call[c]
      BY <2>2 DEF RecoveryExpires
    <3> QED  BY <3>2, <3>3
  <2> QED  BY <2>1, <2>2 DEF Drop, KillWorker, Connect, Join
<1> QED  BY <1>1, <1>2, <1>3, <1>4, PlacedHeld, PlacedFrame

(* A process that dies loses messages and brings none.                      *)
LEMMA CrashPlaced ==
    ASSUME NEW p \in Procs, Crash(p), Types, Links, \A c \in Calls : Placed(c)
    PROVE  \A c \in Calls : Placed(c)'
<1> SUFFICES ASSUME NEW c \in Calls
             PROVE  Placed(c)'
  OBVIOUS
<1>0. down \in Seq(Messages) /\ fwd \in [Procs -> Seq(Messages)]
      /\ pending \in [Procs -> SUBSET Entries] /\ held \in [Procs -> SUBSET Holds]
  BY DEF Types, MessageTypes, WaitTypes
<1>1. UNCHANGED <<work, begun>>
  BY DEF Crash, swVars
<1>2. call'[c].st \in {"idle", "waiting"} => call[c].st \in {"idle", "waiting"}
  BY DEF Crash, Types, WorkTypes, CallRecords
<1>3. CASE Primary(p)
  <2>1. /\ held' = [held EXCEPT ![p] = {}] /\ fwd' = [q \in Procs |-> <<>>]
        /\ down' = down \/ down' = <<>>
    BY <1>3 DEF Crash, Silent, sockVars
  <2>2. Fewer(down, down', c) /\ \A q \in Procs : Fewer(fwd[q], fwd'[q], c)
    BY <1>0, <2>1, FewerFacts
  <2>3. \A q \in Procs : HeldFor(q, c)' \subseteq HeldFor(q, c)
    BY <1>0, <2>1 DEF HeldFor
  <2>4. \A q \in Procs : /\ HeldFor(q, c)' # {} => HeldFor(q, c) # {}
                         /\ \A x, g \in HeldFor(q, c)' : x = g
    BY <2>3 DEF Placed
  <2> QED  BY <2>2, <2>4, <1>1, <1>2, PlacedFrame
<1>4. CASE ~Primary(p)
  <2>1. fwd' = [fwd EXCEPT ![p] = <<>>]
    BY <1>4 DEF Crash
  <2>2. \A q \in Procs : Fewer(fwd[q], fwd'[q], c)
    BY <1>0, <2>1, FewerFacts
  <2>3. CASE p \notin linked
    <3>1. held' = held /\ down' = down
      BY <1>4, <2>3 DEF Crash
    <3>2. Fewer(down, down', c)
      BY <3>1 DEF Fewer
    <3> QED  BY <3>1, <3>2, <2>2, <1>1, <1>2, PlacedHeld, PlacedFrame
  <2>4. CASE p \in linked
    <3>0. PICK q : q = ThePrimary
      OBVIOUS
    <3> DEFINE o == Orphans(q, p)
    <3> DEFINE f(h) == [h EXCEPT !.from = IF @ = p THEN NoProc ELSE @]
    <3>1. q \in Procs
      <4>1. \E x \in Procs : Primary(x)
        BY <2>4 DEF Links, NoPrimary
      <4> QED  BY <4>1, <3>0 DEF ThePrimary
    <3>2. /\ held' = [held EXCEPT ![q] = {f(h) : h \in @}]
          /\ down' = ToExt(q, SetToSeq({Cancel(r.id) : r \in o}))
      BY <1>4, <2>4, <3>0 DEF Crash
    <3>3. IsFiniteSet(pending[q]) /\ o \subseteq pending[q]
      BY <3>1 DEF Types, WaitTypes, Orphans
    <3>4. \A h \in Holds : f(h).call = h.call
      BY DEF Holds
    <3> HIDE DEF o, f
    <3>5. IsFiniteSet(o) /\ \A r \in o : r.id \in 1 .. N
      BY <1>0, <3>1, <3>3, FS_Subset DEF Entries
    <3>6. Quiet(SetToSeq({Cancel(r.id) : r \in o}))
      BY <3>5, QuietSets
    <3>7. Fewer(down, down', c)
      BY <1>0, <3>2, <3>6, FewerFacts DEF ToExt
    <3>8. ASSUME NEW x \in Procs
          PROVE  \A g \in HeldFor(x, c)' : \E h \in HeldFor(x, c) : g = IF x = q THEN f(h) ELSE h
      <4>1. held'[x] = IF x = q THEN {f(h) : h \in held[q]} ELSE held[x]
        BY <1>0, <3>1, <3>2
      <4>2. held[x] \subseteq Holds
        BY <1>0
      <4> QED  BY <4>1, <4>2, <3>4 DEF HeldFor
    <3>9. \A x \in Procs : /\ HeldFor(x, c)' # {} => HeldFor(x, c) # {}
                           /\ \A h, g \in HeldFor(x, c)' : h = g
      BY <3>8 DEF Placed
    <3> QED  BY <2>2, <3>7, <3>9, <1>1, <1>2, PlacedFrame
  <2> QED  BY <2>3, <2>4
<1> QED  BY <1>3, <1>4

-----------------------------------------------------------------------------
(* Who waits for what.                                                     *)

(* A process has one entry for a call.                                      *)
LEMMA EntryOf ==
    ASSUME NEW g, Numbered(g), Waiting, Types, NEW p \in Procs, NEW r \in pending[p],
           NEW q \in pending[p], r.call = q.call
    PROVE  r = q
<1>1. r.id \in 1 .. counter[p] /\ q.id \in 1 .. counter[p]
  BY DEF Numbered, Types, WaitTypes, ProcTypes, Entries
<1>2. r.id = q.id
  BY <1>1 DEF Numbered
<1> QED  BY <1>2 DEF Waiting

(* Entries go when nobody waits for them any more.                          *)
LEMMA WaitingFrame ==
    ASSUME Waiting,
           \A p \in Procs : /\ pending'[p] \subseteq pending[p]
                            /\ pending'[p] # {} /\ Primary(p) => Primary(p)'
                            /\ \A r \in pending'[p] : r.from = p => call'[r.call].st = "pending",
           \A c \in Calls : call'[c].st = "pending" =>
              /\ call[c].st = "pending"
              /\ \A r \in pending[Home[c]] :
                    r.call = c /\ r.from = Home[c] => r \in pending'[Home[c]]
    PROVE  Waiting'
<1>1. \A p \in Procs : \A r, q \in pending'[p] : r.id = q.id => r = q
  BY DEF Waiting
<1>2. \A p \in Procs : \A r \in pending'[p] :
         /\ r.from = p <=> Home[r.call] = p
         /\ r.from \in {Home[r.call], NoProc}
         /\ r.from = p => call'[r.call].st = "pending" /\ r.sid \in {0, r.id}
         /\ r.from # p => r.sid # 0
         /\ r.from = p /\ r.sid = 0 => Primary(p)'
         /\ r.from # p => Primary(p)'
  BY DEF Waiting
<1>3. ASSUME NEW c \in Calls, call'[c].st = "pending"
      PROVE  \E r \in pending'[Home[c]] : r.call = c
  <2>1. PICK r \in pending[Home[c]] : r.call = c
    BY <1>3 DEF Waiting
  <2>2. r.from = Home[c]
    BY <2>1, BridgeCallsAssumption DEF Waiting
  <2> QED  BY <1>3, <2>1, <2>2
<1> QED  BY <1>1, <1>2, <1>3 DEF Waiting

(* p gets an entry e for the call c, which it has not waited for.           *)
LEMMA WaitingMore ==
    ASSUME Waiting, Types, NEW g, Numbered(g), NEW p \in Procs, NEW e, NEW c \in Calls,
           e.call = c, e.id = counter[p] + 1,
           pending' = [pending EXCEPT ![p] = @ \cup {e}], UNCHANGED role,
           e.from = p <=> Home[c] = p, e.from \in {Home[c], NoProc},
           e.from = p => call'[c].st = "pending" /\ e.sid \in {0, e.id},
           e.from # p => e.sid # 0 /\ Primary(p),
           e.from = p /\ e.sid = 0 => Primary(p),
           \A d \in Calls : d # c => call'[d] = call[d],
           e.from # p => call'[c] = call[c],
           e.from = p => call[c].st # "pending"
    PROVE  Waiting'
<1>0. \A q \in Procs : Primary(q)' <=> Primary(q)
  BY DEF Primary
<1>1. \A q \in Procs : pending'[q] = IF q = p THEN pending[p] \cup {e} ELSE pending[q]
  BY DEF Types, WaitTypes
<1>2. \A r \in pending[p] : r.id <= counter[p] /\ r.id \in Nat /\ counter[p] \in Nat
  BY DEF Numbered, Types, WaitTypes, ProcTypes, Entries
<1>3. \A r \in pending[p] : r.id # e.id
  BY <1>2
<1>4. \A q \in Procs : \A r, s \in pending'[q] : r.id = s.id => r = s
  BY <1>1, <1>3 DEF Waiting
<1>5. \A q \in Procs : \A r \in pending[q] : r.call \in Calls
  BY DEF Types, WaitTypes, Entries
<1>6. ASSUME NEW q \in Procs, NEW r \in pending'[q]
      PROVE  /\ r.from = q <=> Home[r.call] = q
             /\ r.from \in {Home[r.call], NoProc}
             /\ r.from = q => call'[r.call].st = "pending" /\ r.sid \in {0, r.id}
             /\ r.from # q => r.sid # 0
             /\ r.from = q /\ r.sid = 0 => Primary(q)
             /\ r.from # q => Primary(q)
  <2>1. CASE r \in pending[q]
    <3>1. r.from = q => call'[r.call].st = "pending"
      BY <2>1, <1>5 DEF Waiting
    <3> QED  BY <2>1, <3>1 DEF Waiting
  <2>2. CASE r \notin pending[q]
    <3>1. q = p /\ r = e
      BY <2>2, <1>1, <1>6
    <3> QED  BY <3>1
  <2> QED  BY <2>1, <2>2
<1>7. ASSUME NEW d \in Calls, call'[d].st = "pending"
      PROVE  \E r \in pending'[Home[d]] : r.call = d
  <2>1. CASE d = c /\ e.from = p
    BY <2>1, <1>1
  <2>2. CASE ~(d = c /\ e.from = p)
    <3>1. call[d].st = "pending" /\ Home[d] \in Procs
      BY <2>2, <1>7, BridgeCallsAssumption
    <3>2. PICK r \in pending[Home[d]] : r.call = d
      BY <3>1 DEF Waiting
    <3> QED  BY <3>1, <3>2, <1>1
  <2> QED  BY <2>1, <2>2
<1> QED  BY <1>0, <1>4, <1>6, <1>7 DEF Waiting

(* Whoever sends a call waits for it, unless it was cancelled before.       *)
LEMMA SendWaiting ==
    ASSUME NEW c \in Calls, SendCall(c), Types, Waiting, NEW g, Numbered(g)
    PROVE  Waiting'
<1> DEFINE p == Home[c]
<1> DEFINE id == counter[p] + 1
<1> DEFINE sid == IF Primary(p) THEN 0 ELSE id
<1>1. p \in Procs /\ call[c].st \in {"idle", "waiting"} /\ UNCHANGED role
  BY BridgeCallsAssumption DEF SendCall
<1>2. call \in [Calls -> CallRecords] /\ call[c] \in CallRecords
  BY DEF Types, WorkTypes
<1>3. CASE call[c].aborted
  <2>1. Answer(c, "cancelled") /\ UNCHANGED pending
    BY <1>3 DEF SendCall
  <2>2. call'[c].st = "done" /\ \A d \in Calls : d # c => call'[d] = call[d]
    BY <2>1, AnswerTypes DEF Types, Whats
  <2>3. \A q \in Procs : \A r \in pending[q] : r.from = q => r.call # c /\ r.call \in Calls
    BY <1>1 DEF Waiting, Types, WaitTypes, Entries
  <2>4. \A q \in Procs : Primary(q)' <=> Primary(q)
    BY <1>1 DEF Primary
  <2>5. \A q \in Procs : \A r \in pending'[q] : r.from = q => call'[r.call].st = "pending"
    BY <2>1, <2>2, <2>3 DEF Waiting
  <2>6. \A d \in Calls : call'[d].st = "pending" => call[d].st = "pending"
    BY <2>2
  <2> QED  BY <2>1, <2>4, <2>5, <2>6, WaitingFrame
<1>4. CASE ~call[c].aborted
  <2>1. /\ call' = [call EXCEPT ![c].st = "pending"]
        /\ pending' = [pending EXCEPT ![p] = @ \cup {Entry(id, c, p, sid)}]
    BY <1>4 DEF SendCall
  <2>2. call'[c].st = "pending" /\ \A d \in Calls : d # c => call'[d] = call[d]
    BY <2>1, <1>2 DEF CallRecords
  <2>3. PICK e : e = Entry(id, c, p, sid)
    OBVIOUS
  <2>4. /\ e.call = c /\ e.id = counter[p] + 1 /\ e.from = p /\ e.sid \in {0, e.id}
        /\ e.sid = 0 => Primary(p)
    <3>1. id # 0
      BY <1>1 DEF Types, ProcTypes
    <3> QED  BY <3>1, <2>3 DEF Entry
  <2>5. pending' = [pending EXCEPT ![p] = @ \cup {e}] /\ Home[c] = p
    BY <2>1, <2>3
  <2> HIDE DEF p, id, sid
  <2>6. /\ e.from = p <=> Home[c] = p
        /\ e.from \in {Home[c], NoProc}
        /\ e.from = p => call'[c].st = "pending" /\ e.sid \in {0, e.id}
        /\ e.from # p => e.sid # 0 /\ Primary(p)
        /\ e.from = p /\ e.sid = 0 => Primary(p)
        /\ e.from # p => call'[c] = call[c]
        /\ e.from = p => call[c].st # "pending"
    BY <1>1, <2>2, <2>4, <2>5
  <2> QED  BY <2>2, <2>4, <2>5, <2>6, <1>1, WaitingMore
<1> QED  BY <1>3, <1>4

(* The primary waits for what it relays, besides the process that made the  *)
(* call.                                                                    *)
LEMMA DispatchWaiting ==
    ASSUME NEW p \in Procs, NEW from, NEW sid, NEW c \in Calls, Dispatch(p, from, sid, c),
           Primary(p), from # p, Home[c] # p, from \in {Home[c], NoProc}, sid # 0,
           UNCHANGED <<role, call>>,
           Types, Waiting, NEW g, Numbered(g)
    PROVE  Waiting'
<1> DEFINE e == Entry(counter[p] + 1, c, from, sid)
<1>1. e.call = c /\ e.id = counter[p] + 1 /\ e.from = from /\ e.sid = sid
  BY DEF Entry
<1>2. pending' = [pending EXCEPT ![p] = @ \cup {e}]
  BY DEF Dispatch, RelayId
<1> HIDE DEF e
<1> QED  BY <1>1, <1>2, WaitingMore

(* A client that cancels takes its entry along.                             *)
LEMMA ClientWaiting ==
    ASSUME NEW c \in Calls, Wait(c) \/ GiveUp(c) \/ ClientCancels(c),
           Types, Waiting, NEW g, Numbered(g)
    PROVE  Waiting'
<1> DEFINE p == Home[c]
<1>0. p \in Procs /\ call \in [Calls -> CallRecords] /\ call[c] \in CallRecords
  BY BridgeCallsAssumption DEF Types, WorkTypes
<1>1. \A q \in Procs : Primary(q)' <=> Primary(q)
  BY DEF Wait, GiveUp, ClientCancels, bridgeVars, Primary
<1>2. \A q \in Procs : \A r \in pending[q] : r.call \in Calls
  BY DEF Types, WaitTypes, Entries
<1>3. CASE call[c].st # "pending"
  <2>1. UNCHANGED pending
    BY <1>3 DEF Wait, GiveUp, ClientCancels
  <2>2. call'[c].st # "pending" /\ \A d \in Calls : d # c => call'[d] = call[d]
    BY <1>0, <1>3 DEF Wait, GiveUp, ClientCancels, Answer, CallRecords
  <2>3. \A q \in Procs : \A r \in pending'[q] : r.from = q => call'[r.call].st = "pending"
    BY <2>1, <2>2, <1>2, <1>3 DEF Waiting
  <2>4. \A d \in Calls : call'[d].st = "pending" => call[d].st = "pending"
    BY <2>2
  <2> QED  BY <2>1, <2>3, <2>4, <1>1, WaitingFrame
<1>4. CASE call[c].st = "pending"
  <2>1. PICK r \in pending[p] :
          /\ r.call = c
          /\ pending' = [pending EXCEPT ![p] = @ \ {r}]
          /\ call' = [call EXCEPT ![c] = [st |-> "done", aborted |-> TRUE, answer |-> "cancelled"]]
    BY <1>4 DEF Wait, GiveUp, ClientCancels
  <2>2. call'[c].st = "done" /\ \A d \in Calls : d # c => call'[d] = call[d]
    BY <2>1, <1>0
  <2>3. \A q \in Procs : pending'[q] = IF q = p THEN pending[p] \ {r} ELSE pending[q]
    BY <2>1 DEF Types, WaitTypes
  <2>4. \A q \in Procs : \A s \in pending'[q] : s.from = q => s.call # c
    <3>1. \A s \in pending[p] : s.call = c => s = r
      BY <2>1, <1>0, EntryOf
    <3> QED  BY <2>3, <3>1 DEF Waiting
  <2>5. \A q \in Procs : \A s \in pending'[q] : s.from = q => call'[s.call].st = "pending"
    BY <2>2, <2>3, <2>4, <1>2 DEF Waiting
  <2>6. \A d \in Calls : call'[d].st = "pending" => d # c /\ call[d].st = "pending"
    BY <2>2
  <2>7. \A d \in Calls : \A s \in pending[Home[d]] : s.call = d /\ d # c => s \in pending'[Home[d]]
    BY <2>1, <2>3, BridgeCallsAssumption
  <2>8. \A q \in Procs : pending'[q] \subseteq pending[q]
    BY <2>3
  <2> QED  BY <2>5, <2>6, <2>7, <2>8, <1>1, WaitingFrame
<1> QED  BY <1>3, <1>4

(* p hands on what there is to say about its entry r, and waits no more.    *)
LEMMA DeliveredWaiting ==
    ASSUME NEW p \in Procs, NEW r \in pending[p], Types, Waiting, NEW g, Numbered(g),
           pending' = [pending EXCEPT ![p] = @ \ {r}], UNCHANGED role,
           r.from = p => call'[r.call].st = "done",
           r.from # p => call' = call,
           \A d \in Calls : d # r.call => call'[d] = call[d]
    PROVE  Waiting'
<1>1. \A q \in Procs : Primary(q)' <=> Primary(q)
  BY DEF Primary
<1>2. \A q \in Procs : \A s \in pending[q] : s.call \in Calls
  BY DEF Types, WaitTypes, Entries
<1>3. \A q \in Procs : pending'[q] = IF q = p THEN pending[p] \ {r} ELSE pending[q]
  BY DEF Types, WaitTypes
<1>4. ASSUME NEW q \in Procs, NEW s \in pending'[q], s.from = q
      PROVE  call'[s.call].st = "pending"
  <2>1. s \in pending[q] /\ call[s.call].st = "pending" /\ Home[s.call] = q /\ s.call \in Calls
    BY <1>2, <1>3, <1>4 DEF Waiting
  <2>2. CASE s.call = r.call /\ r.from = p
    <3>1. q = p
      BY <2>1, <2>2 DEF Waiting
    <3>2. s = r
      BY <3>1, <2>1, <2>2, EntryOf
    <3> QED  BY <3>1, <3>2, <1>3, <1>4
  <2>3. CASE ~(s.call = r.call /\ r.from = p)
    BY <2>1, <2>3
  <2> QED  BY <2>2, <2>3
<1>5. ASSUME NEW d \in Calls, call'[d].st = "pending"
      PROVE  /\ call[d].st = "pending"
             /\ \A s \in pending[Home[d]] : s.call = d /\ s.from = Home[d] => s \in pending'[Home[d]]
  <2>1. Home[d] \in Procs
    BY BridgeCallsAssumption
  <2>2. CASE d = r.call
    <3>1. r.from # p /\ call' = call /\ Home[d] # p
      BY <2>2, <1>5 DEF Waiting
    <3> QED  BY <3>1, <2>1, <1>3, <1>5
  <2>3. CASE d # r.call
    BY <2>1, <2>3, <1>3, <1>5
  <2> QED  BY <2>2, <2>3
<1>6. \A q \in Procs : pending'[q] \subseteq pending[q]
  BY <1>3
<1> QED  BY <1>1, <1>4, <1>5, <1>6, WaitingFrame

(* p drops entries that it has for others.                                  *)
LEMMA RelayedWaiting ==
    ASSUME Types, Waiting, UNCHANGED <<role, call>>,
           \A q \in Procs : /\ pending'[q] \subseteq pending[q]
                            /\ \A r \in pending[q] : r.from = q => r \in pending'[q]
    PROVE  Waiting'
<1>1. \A q \in Procs : Primary(q)' <=> Primary(q)
  BY DEF Primary
<1>2. \A q \in Procs : \A r \in pending'[q] : r.from = q => call'[r.call].st = "pending"
  BY DEF Waiting
<1>3. \A d \in Calls : Home[d] \in Procs
  BY BridgeCallsAssumption
<1> QED  BY <1>1, <1>2, <1>3, WaitingFrame

(* Entries go with their results, timeouts and cancellations.               *)
LEMMA ServerWaiting ==
    ASSUME NEW p \in Procs,
           \/ TakeResult(p) \/ TakeRelayed(p)
           \/ \E s \in Procs : RelayCancel(p, s)
           \/ \E r \in pending[p] : Timeout(p, r),
           Types, Links, Waiting, NEW g, Numbered(g)
    PROVE  Waiting'
<1>0. pending \in [Procs -> SUBSET Entries] /\ up \in Seq(Results) /\ back \in [Procs -> Seq(Results)]
  BY DEF Types, MessageTypes, WaitTypes
<1>1. CASE TakeResult(p)
  <2> DEFINE m == Head(up)
  <2> DEFINE mine == {r \in pending[p] : r.id = m.id}
  <2>1. /\ UNCHANGED role /\ up # <<>>
        /\ pending' = [pending EXCEPT ![p] = @ \ mine]
        /\ IF mine = {} THEN UNCHANGED <<back, call>>
           ELSE \E r \in mine : Deliver(p, r, m.what)
    BY <1>1 DEF TakeResult, bridgeVars
  <2>2. \A r, q \in mine : r = q
    BY DEF Waiting
  <2>3. m.what \in Whats
    <3>1. m \in Results
      BY <1>0, <2>1, TailRange
    <3> QED  BY <3>1 DEF Results
  <2>4. mine \subseteq pending[p]
    OBVIOUS
  <2> HIDE DEF m, mine
  <2>5. CASE mine = {}
    <3>1. pending' = pending /\ call' = call
      BY <2>1, <2>5, <1>0
    <3> QED  BY <3>1, <2>1, RelayedWaiting
  <2>6. CASE mine # {}
    <3>1. PICK r \in mine : Deliver(p, r, m.what)
      BY <2>1, <2>6
    <3>2. mine = {r} /\ r \in pending[p] /\ r \in Entries /\ r.call \in Calls
      BY <3>1, <2>2, <2>4, <1>0 DEF Entries
    <3>3. r.from = p => call'[r.call].st = "done"
      <4>1. r.from = p => Answer(r.call, m.what)
        BY <3>1 DEF Deliver, Relayed
      <4> QED  BY <4>1, <3>2, <2>3, AnswerTypes DEF Types
    <3>4. (r.from # p => call' = call) /\ \A d \in Calls : d # r.call => call'[d] = call[d]
      BY <3>1, <3>2, <2>3, DeliverCalls DEF Types
    <3> QED  BY <3>2, <3>3, <3>4, <2>1, DeliveredWaiting
  <2> QED  BY <2>5, <2>6
<1>2. CASE TakeRelayed(p)
  <2> DEFINE m == Head(back[p])
  <2> DEFINE mine == {r \in pending[p] : r.id = m.id}
  <2>1. /\ UNCHANGED role /\ back[p] # <<>> /\ p \in linked
        /\ pending' = [pending EXCEPT ![p] = @ \ mine]
        /\ IF mine = {} THEN UNCHANGED call ELSE \E r \in mine : Answer(r.call, m.what)
    BY <1>2 DEF TakeRelayed, bridgeVars
  <2>2. \A r, q \in mine : r = q
    BY DEF Waiting
  <2>3. m.what \in Whats
    <3>1. m \in Results
      BY <1>0, <2>1, TailRange
    <3> QED  BY <3>1 DEF Results
  <2>4. mine \subseteq pending[p]
    OBVIOUS
  <2> HIDE DEF m, mine
  <2>5. CASE mine = {}
    <3>1. pending' = pending /\ call' = call
      BY <2>1, <2>5, <1>0
    <3> QED  BY <3>1, <2>1, RelayedWaiting
  <2>6. CASE mine # {}
    <3>1. PICK r \in mine : Answer(r.call, m.what)
      BY <2>1, <2>6
    <3>2. mine = {r} /\ r \in pending[p] /\ r \in Entries /\ r.call \in Calls
      BY <3>1, <2>2, <2>4, <1>0 DEF Entries
    <3>3. r.from = p
      BY <3>2, <2>1 DEF Links, Primary, Waiting
    <3>4. call'[r.call].st = "done" /\ \A d \in Calls : d # r.call => call'[d] = call[d]
      BY <3>1, <3>2, <2>3, AnswerTypes DEF Types
    <3> QED  BY <3>2, <3>3, <3>4, <2>1, DeliveredWaiting
  <2> QED  BY <2>5, <2>6
<1>3. ASSUME NEW s \in Procs, RelayCancel(p, s)
      PROVE  Waiting'
  <2> DEFINE mine == {r \in pending[p] : r.from = s /\ Relayed(p, r) /\ r.sid = Head(fwd[s]).id}
  <2>1. UNCHANGED <<role, call>> /\ pending' = [pending EXCEPT ![p] = @ \ mine]
    BY <1>3 DEF RelayCancel, bridgeVars
  <2>2. \A r \in mine : r.from # p
    BY DEF Relayed
  <2> HIDE DEF mine
  <2>3. \A q \in Procs : /\ pending'[q] \subseteq pending[q]
                         /\ \A r \in pending[q] : r.from = q => r \in pending'[q]
    BY <2>1, <2>2, <1>0
  <2> QED  BY <2>1, <2>3, RelayedWaiting
<1>4. ASSUME NEW r \in pending[p], Timeout(p, r)
      PROVE  Waiting'
  <2>1. /\ UNCHANGED role /\ Deliver(p, r, "timeout") /\ r \in Entries /\ r.call \in Calls
        /\ pending' = [pending EXCEPT ![p] = @ \ {r}]
    BY <1>0, <1>4 DEF Timeout, bridgeVars, Entries
  <2>2. r.from = p => call'[r.call].st = "done"
    <3>1. r.from = p => Answer(r.call, "timeout")
      BY <2>1 DEF Deliver, Relayed
    <3> QED  BY <3>1, <2>1, AnswerTypes DEF Types, Whats
  <2>3. (r.from # p => call' = call) /\ \A d \in Calls : d # r.call => call'[d] = call[d]
    BY <2>1, DeliverCalls DEF Types, Whats
  <2> QED  BY <2>1, <2>2, <2>3, DeliveredWaiting
<1> QED  BY <1>1, <1>2, <1>3, <1>4

(* What the primary relays was made elsewhere.                              *)
LEMMA RelayWaiting ==
    ASSUME NEW p \in Procs,
           (\E s \in Procs : RelayCall(p, s)) \/ (\E h \in held[p] : HeldResumes(p, h) \/ HeldExpires(p, h)),
           Types, Links, \A c \in Calls : Placed(c), Holding, Waiting, NEW g, Numbered(g)
    PROVE  Waiting'
<1>0. fwd \in [Procs -> Seq(Messages)] /\ held \in [Procs -> SUBSET Holds]
  BY DEF Types, MessageTypes, WaitTypes
<1>1. ASSUME NEW s \in Procs, RelayCall(p, s)
      PROVE  Waiting'
  <2>0. PICK m : m = Head(fwd[s])
    OBVIOUS
  <2>1. /\ Primary(p) /\ s \in linked /\ fwd[s] # <<>> /\ m.type = "call"
        /\ UNCHANGED <<role, call>>
        /\ \/ Dispatch(p, s, m.id, m.call)
           \/ UNCHANGED pending
    BY <1>1, <2>0 DEF RelayCall
  <2>2. m \in Messages /\ m \in Range(fwd[s])
    BY <1>0, <2>0, <2>1, TailRange
  <2>3. m.id \in 1 .. N /\ m.call \in Calls
    BY <2>1, <2>2 DEF Messages
  <2>4. s # p /\ Home[m.call] = s
    <3>1. s # p
      BY <2>1 DEF Links, Primary
    <3>2. In(fwd[s], m.call)
      BY <2>1, <2>2 DEF In, Carries
    <3> QED  BY <3>1, <3>2, <2>3 DEF Placed
  <2>5. m.id # 0
    BY <2>3, NFacts
  <2>6. CASE UNCHANGED pending
    BY <2>1, <2>6, RelayedWaiting
  <2>7. CASE Dispatch(p, s, m.id, m.call)
    BY <2>1, <2>3, <2>4, <2>5, <2>7, DispatchWaiting
  <2> QED  BY <2>1, <2>6, <2>7
<1>2. ASSUME NEW h \in held[p], HeldResumes(p, h) \/ HeldExpires(p, h)
      PROVE  Waiting'
  <2>1. /\ UNCHANGED <<role, call>>
        /\ Dispatch(p, h.from, h.sid, h.call) \/ UNCHANGED pending
    BY <1>2 DEF HeldResumes, HeldExpires
  <2>2. h.sid \in 1 .. N /\ h.call \in Calls
    BY <1>0 DEF Holds
  <2>3. Home[h.call] # p /\ h.from # p /\ h.from \in {Home[h.call], NoProc}
    <3>1. Home[h.call] # p
      BY <2>2 DEF Placed, HeldFor
    <3> QED  BY <3>1, BridgeCallsAssumption DEF Holding
  <2>4. Primary(p) /\ h.sid # 0
    BY <2>2, NFacts DEF Links
  <2>5. CASE UNCHANGED pending
    BY <2>1, <2>5, RelayedWaiting
  <2>6. CASE Dispatch(p, h.from, h.sid, h.call)
    BY <2>1, <2>2, <2>3, <2>4, <2>6, DispatchWaiting
  <2> QED  BY <2>1, <2>5, <2>6
<1> QED  BY <1>1, <1>2

(* Steps that no entry depends on.                                          *)
LEMMA ExtensionWaiting ==
    ASSUME \/ Register \/ CancelWork \/ Drop \/ KillWorker
           \/ \E c \in Calls : Begin(c) \/ Finish(c) \/ Deadline(c)
           \/ \E p \in Procs : Connect(p),
           Types, Waiting
    PROVE  Waiting'
<1>1. UNCHANGED <<role, call, pending>>
  BY DEF Register, CancelWork, Drop, KillWorker, Begin, Finish, Deadline, Connect, bridgeVars
<1> QED  BY <1>1, RelayedWaiting

(* A process that gives up its recovery settles its entries.                *)
LEMMA FaultWaiting ==
    ASSUME NEW p \in Procs, Join(p) \/ RecoveryExpires(p), Types, Waiting
    PROVE  Waiting'
<1>0. pending \in [Procs -> SUBSET Entries] /\ role \in [Procs -> {"primary", "proxy", "off"}]
      /\ call \in [Calls -> CallRecords]
  BY DEF Types, WaitTypes, ProcTypes, WorkTypes
<1>1. CASE Join(p)
  <2>1. ~Primary(p) /\ UNCHANGED <<pending, call>>
    BY <1>1 DEF Join, Primary
  <2>2. \A q \in Procs : q # p => role'[q] = role[q]
    BY <1>0, <1>1 DEF Join
  <2>3. \A q \in Procs : Primary(q) => Primary(q)'
    BY <2>1, <2>2 DEF Primary
  <2>4. \A q \in Procs : \A r \in pending'[q] : r.from = q => call'[r.call].st = "pending"
    BY <2>1 DEF Waiting
  <2> QED  BY <2>1, <2>3, <2>4, WaitingFrame
<1>2. CASE RecoveryExpires(p)
  <2>1. /\ ~Primary(p) /\ role' = role
        /\ pending' = [pending EXCEPT ![p] = {}]
        /\ \A c \in Calls : call'[c] = IF \E r \in pending[p] : r.call = c
                                THEN [call[c] EXCEPT !.st = "done", !.answer = "error"]
                                ELSE call[c]
    BY <1>2 DEF RecoveryExpires, Primary, bridgeVars
  <2>2. \A q \in Procs : pending'[q] = IF q = p THEN {} ELSE pending[q]
    BY <2>1, <1>0
  <2>3. \A r \in pending[p] : r.from = p /\ Home[r.call] = p
    BY <2>1 DEF Waiting
  <2>4. \A q \in Procs : Primary(q)' <=> Primary(q)
    BY <2>1 DEF Primary
  <2>5. ASSUME NEW q \in Procs, NEW s \in pending'[q], s.from = q
        PROVE  call'[s.call].st = "pending"
    <3>1. q # p /\ s \in pending[q]
      BY <2>2, <2>5
    <3>2. s.call \in Calls /\ Home[s.call] = q
      BY <3>1, <2>5, <1>0 DEF Waiting, Entries
    <3>3. call'[s.call] = call[s.call]
      BY <3>1, <3>2, <2>1, <2>3
    <3> QED  BY <3>1, <3>3, <2>5 DEF Waiting
  <2>6. ASSUME NEW d \in Calls, call'[d].st = "pending"
        PROVE  /\ call[d].st = "pending"
               /\ \A s \in pending[Home[d]] : s.call = d /\ s.from = Home[d] => s \in pending'[Home[d]]
    <3>1. Home[d] \in Procs /\ call[d] \in CallRecords
      BY <1>0, BridgeCallsAssumption
    <3>2. ~\E r \in pending[p] : r.call = d
      <4>1. [call[d] EXCEPT !.st = "done", !.answer = "error"].st = "done"
        BY <3>1 DEF CallRecords
      <4> QED  BY <4>1, <2>1, <2>6
    <3>3. call[d].st = "pending"
      BY <3>2, <2>1, <2>6
    <3> QED  BY <3>1, <3>2, <3>3, <2>2
  <2>7. \A q \in Procs : pending'[q] \subseteq pending[q]
    BY <2>2
  <2> QED  BY <2>4, <2>5, <2>6, <2>7, WaitingFrame
<1> QED  BY <1>1, <1>2

(* The entries of a dead process, and those for it, go.                     *)
LEMMA CrashWaiting ==
    ASSUME NEW p \in Procs, Crash(p), Types, Links, Waiting
    PROVE  Waiting'
<1>0. pending \in [Procs -> SUBSET Entries] /\ role \in [Procs -> {"primary", "proxy", "off"}]
      /\ call \in [Calls -> CallRecords]
  BY DEF Types, WaitTypes, ProcTypes, WorkTypes
<1>1. /\ role' = [role EXCEPT ![p] = "off"]
      /\ \A c \in Calls : call'[c] = IF Home[c] = p /\ call[c].st \in {"waiting", "pending"}
                                     THEN [call[c] EXCEPT !.st = "lost"] ELSE call[c]
  BY DEF Crash
<1>2. \A q \in Procs : q # p => (Primary(q)' <=> Primary(q))
  BY <1>0, <1>1 DEF Primary
<1>3. \A c \in Calls : [call[c] EXCEPT !.st = "lost"].st = "lost"
  BY <1>0 DEF CallRecords
<1>4. \A c \in Calls : /\ Home[c] # p => call'[c] = call[c]
                       /\ Home[c] = p => call'[c].st # "pending"
  BY <1>1, <1>3
<1>5. /\ pending'[p] = {}
      /\ \A q \in Procs : /\ pending'[q] \subseteq pending[q]
                          /\ q # p => \A s \in pending[q] : s.from = q => s \in pending'[q]
  <2>1. CASE pending' = [pending EXCEPT ![p] = {}]
    BY <2>1, <1>0
  <2>2. CASE ~(pending' = [pending EXCEPT ![p] = {}])
    <3>0. PICK q : q = ThePrimary
      OBVIOUS
    <3>1. p \in linked /\ ~Primary(p) /\ pending' = [pending EXCEPT ![p] = {}, ![q] = @ \ Orphans(q, p)]
      BY <2>2, <3>0 DEF Crash
    <3>2. q \in Procs /\ Primary(q)
      <4>1. \E x \in Procs : Primary(x)
        BY <3>1 DEF Links, NoPrimary
      <4> QED  BY <4>1, <3>0 DEF ThePrimary
    <3>3. q # p /\ \A s \in Orphans(q, p) : s.from # q
      BY <3>1, <3>2 DEF Orphans, Relayed
    <3> QED  BY <3>1, <3>2, <3>3, <1>0
  <2> QED  BY <2>1, <2>2
<1>6. ASSUME NEW q \in Procs, NEW s \in pending'[q], s.from = q
      PROVE  call'[s.call].st = "pending"
  <2>1. q # p /\ s \in pending[q]
    BY <1>5, <1>6
  <2>2. s.call \in Calls /\ Home[s.call] = q
    BY <2>1, <1>6, <1>0 DEF Waiting, Entries
  <2>3. call'[s.call] = call[s.call]
    BY <2>1, <2>2, <1>4
  <2> QED  BY <2>1, <2>3, <1>6 DEF Waiting
<1>7. ASSUME NEW d \in Calls, call'[d].st = "pending"
      PROVE  /\ call[d].st = "pending"
             /\ \A s \in pending[Home[d]] : s.call = d /\ s.from = Home[d] => s \in pending'[Home[d]]
  <2>1. Home[d] # p /\ Home[d] \in Procs
    BY <1>4, <1>7, BridgeCallsAssumption
  <2> QED  BY <2>1, <1>4, <1>5, <1>7
<1>8. \A q \in Procs : pending'[q] # {} /\ Primary(q) => Primary(q)'
  BY <1>2, <1>5
<1> QED  BY <1>5, <1>6, <1>7, <1>8, WaitingFrame

(* What the primary holds for others.                                       *)
LEMMA HoldingFrame ==
    ASSUME Holding, \A p \in Procs : held'[p] \subseteq held[p]
    PROVE  Holding'
BY DEF Holding

(* A call that is held came from its process.                               *)
LEMMA RelayHolding ==
    ASSUME NEW p \in Procs, NEW s \in Procs, RelayCall(p, s), Types, \A c \in Calls : Placed(c), Holding
    PROVE  Holding'
<1>0. fwd \in [Procs -> Seq(Messages)] /\ held \in [Procs -> SUBSET Holds]
  BY DEF Types, MessageTypes, WaitTypes
<1>1. PICK m : m = Head(fwd[s])
  OBVIOUS
<1>2. fwd[s] # <<>> /\ m.type = "call"
  BY <1>1 DEF RelayCall
<1>3. m \in Messages /\ m \in Range(fwd[s])
  BY <1>0, <1>1, <1>2, TailRange
<1>4. m.call \in Calls /\ Home[m.call] = s
  <2>1. m.call \in Calls /\ In(fwd[s], m.call)
    BY <1>2, <1>3 DEF Messages, In, Carries
  <2> QED  BY <2>1 DEF Placed
<1> DEFINE h == [call |-> m.call, from |-> s, sid |-> m.id]
<1>5. UNCHANGED held \/ held' = [held EXCEPT ![p] = @ \cup {h}]
  BY <1>1 DEF RelayCall
<1>6. h.from = Home[h.call]
  BY <1>4
<1> HIDE DEF h
<1>7. \A q \in Procs : held'[q] \subseteq held[q] \cup {h}
  BY <1>0, <1>5
<1> QED  BY <1>6, <1>7 DEF Holding

(* A held call that goes leaves the others.                                 *)
LEMMA HeldHolding ==
    ASSUME NEW p \in Procs, NEW h \in held[p], HeldResumes(p, h) \/ HeldExpires(p, h), Types, Holding
    PROVE  Holding'
<1>1. held' = [held EXCEPT ![p] = @ \ {h}] /\ held \in [Procs -> SUBSET Holds]
  BY DEF HeldResumes, HeldExpires, Unheld, Types, WaitTypes
<1>2. \A q \in Procs : held'[q] \subseteq held[q]
  BY <1>1
<1> QED  BY <1>2, HoldingFrame

(* What is held for a dead process is held for nobody.                      *)
LEMMA CrashHolding ==
    ASSUME NEW p \in Procs, Crash(p), Types, Links, Holding
    PROVE  Holding'
<1>0. held \in [Procs -> SUBSET Holds]
  BY DEF Types, WaitTypes
<1>1. CASE held' = held \/ held' = [held EXCEPT ![p] = {}]
  <2>1. \A q \in Procs : held'[q] \subseteq held[q]
    BY <1>0, <1>1
  <2> QED  BY <2>1, HoldingFrame
<1>2. CASE ~(held' = held \/ held' = [held EXCEPT ![p] = {}])
  <2> DEFINE f(h) == [h EXCEPT !.from = IF @ = p THEN NoProc ELSE @]
  <2>0. PICK q : q = ThePrimary
    OBVIOUS
  <2>1. p \in linked /\ held' = [held EXCEPT ![q] = {f(h) : h \in @}]
    BY <1>2, <2>0 DEF Crash
  <2>2. q \in Procs
    <3>1. \E x \in Procs : Primary(x)
      BY <2>1 DEF Links, NoPrimary
    <3> QED  BY <3>1, <2>0 DEF ThePrimary
  <2>3. \A h \in Holds : f(h).call = h.call /\ f(h).from \in {h.from, NoProc}
    BY DEF Holds
  <2> HIDE DEF f
  <2>4. \A x \in Procs : \A k \in held'[x] : \E h \in held[x] : k.call = h.call /\ k.from \in {h.from, NoProc}
    <3>1. \A x \in Procs : held'[x] = IF x = q THEN {f(h) : h \in held[q]} ELSE held[x]
      BY <1>0, <2>1, <2>2
    <3>2. \A x \in Procs : held[x] \subseteq Holds
      BY <1>0
    <3>3. ASSUME NEW x \in Procs, NEW k \in held'[x]
          PROVE  \E h \in held[x] : k.call = h.call /\ k.from \in {h.from, NoProc}
      <4>1. CASE x = q
        <5>1. PICK h \in held[q] : k = f(h)
          BY <4>1, <3>1, <3>3
        <5> QED  BY <5>1, <4>1, <3>2, <2>3
      <4>2. CASE x # q
        BY <4>2, <3>1, <3>3
      <4> QED  BY <4>1, <4>2
    <3> QED  BY <3>3
  <2> QED  BY <2>4 DEF Holding
<1> QED  BY <1>1, <1>2

-----------------------------------------------------------------------------
(* The numbers of the calls.                                               *)

\* The message of c is on its way to the extension.
Open(c) == IsFwd(c) \/ IsHeld(c)

\* The numbers of g are kept in k.
Keeps(g, k) ==
    \A p \in Procs : \A i \in 1 .. counter[p] : i \in 1 .. counter'[p] /\ k[p][i] = g[p][i]

\* p, and nobody else, gives a number: to the call c.
Gives(g, k, p, c) ==
    /\ k = [g EXCEPT ![p] = Append(@, c)]
    /\ counter' = [counter EXCEPT ![p] = @ + 1]

(* A number that is given out is added to those before.                     *)
LEMMA GivesKeeps ==
    ASSUME NEW g \in [Procs -> Seq(Calls)], Numbered(g), ProcTypes,
           NEW p \in Procs, NEW c \in Calls, NEW k, Gives(g, k, p, c)
    PROVE  /\ Keeps(g, k) /\ k \in [Procs -> Seq(Calls)]
           /\ counter'[p] = counter[p] + 1 /\ k[p][counter'[p]] = c
           /\ \A q \in Procs : q # p => counter'[q] = counter[q] /\ k[q] = g[q]
<1>1. /\ counter \in [Procs -> Nat] /\ counter[p] \in Nat /\ g[p] \in Seq(Calls)
      /\ Len(g[p]) = counter[p]
  BY DEF ProcTypes, Numbered
<1>2. /\ counter'[p] = counter[p] + 1
      /\ \A q \in Procs : q # p => counter'[q] = counter[q] /\ k[q] = g[q]
      /\ k[p] = Append(g[p], c)
  BY <1>1 DEF Gives
<1>3. /\ Append(g[p], c) \in Seq(Calls)
      /\ \A i \in 1 .. counter[p] : Append(g[p], c)[i] = g[p][i]
      /\ Append(g[p], c)[counter[p] + 1] = c
  BY <1>1
<1>4. k \in [Procs -> Seq(Calls)]
  BY <1>3 DEF Gives
<1>5. Keeps(g, k)
  <2> SUFFICES ASSUME NEW q \in Procs, NEW i \in 1 .. counter[q]
               PROVE  i \in 1 .. counter'[q] /\ k[q][i] = g[q][i]
    BY DEF Keeps
  <2>1. CASE q = p
    BY <2>1, <1>1, <1>2, <1>3
  <2>2. CASE q # p
    BY <2>2, <1>2
  <2> QED  BY <2>1, <2>2
<1> QED  BY <1>2, <1>3, <1>4, <1>5

(* Steps that give no number.                                               *)
LEMMA NumberedFrame ==
    ASSUME NEW g \in [Procs -> Seq(Calls)], Numbered(g), Types, UNCHANGED counter,
           \A c \in Calls : call'[c].st \in {"idle", "waiting"} => call[c].st \in {"idle", "waiting"},
           \A p \in Procs : Primary(p)' => Primary(p) \/ \A c \in Calls : ~Open(c)',
           \A c \in Calls : Open(c)' => Open(c),
           \A p \in Procs : pending'[p] \subseteq pending[p]
    PROVE  Numbered(g)'
<1>1. \A p \in Procs : \A i \in 1 .. counter[p] : g[p][i] \in Calls
  <2>1. \A p \in Procs : g[p] \in Seq(Calls) /\ Len(g[p]) = counter[p]
    BY DEF Numbered
  <2> QED  BY <2>1
<1>2. \A p \in Procs : \A i \in 1 .. counter[p] :
         /\ call'[g[p][i]].st \notin {"idle", "waiting"}
         /\ Primary(p)' => ~IsFwd(g[p][i])' /\ ~IsHeld(g[p][i])'
  BY <1>1 DEF Numbered, Open
<1> QED  BY <1>2 DEF Numbered

(* Steps that give the call c a number.                                     *)
LEMMA NumberedMore ==
    ASSUME NEW g \in [Procs -> Seq(Calls)], Numbered(g), Types, Links,
           NEW p \in Procs, NEW c \in Calls, New(p, c), NEW k, Gives(g, k, p, c), UNCHANGED role,
           call'[c].st \notin {"idle", "waiting"},
           \A d \in Calls : call'[d].st \in {"idle", "waiting"} => call[d].st \in {"idle", "waiting"},
           \A d \in Calls : Open(d)' => Open(d) \/ (d = c /\ call[c].st \in {"idle", "waiting"}),
           Primary(p) => ~Open(c)',
           \A q \in Procs : \A r \in pending'[q] :
              r \in pending[q] \/ (q = p /\ r.id = counter[p] + 1 /\ r.call = c)
    PROVE  Numbered(k)'
<1>0. \A q \in Procs : Primary(q)' <=> Primary(q)
  BY DEF Primary
<1>1. /\ Keeps(g, k) /\ counter'[p] = counter[p] + 1 /\ k[p][counter'[p]] = c
      /\ \A q \in Procs : q # p => counter'[q] = counter[q] /\ k[q] = g[q]
      /\ k \in [Procs -> Seq(Calls)]
  BY GivesKeeps DEF Types
<1>2. \A q \in Procs : /\ counter[q] \in Nat /\ g[q] \in Seq(Calls) /\ Len(g[q]) = counter[q]
                       /\ counter'[q] \in Nat
  <2>1. \A q \in Procs : counter[q] \in Nat /\ g[q] \in Seq(Calls) /\ Len(g[q]) = counter[q]
    BY DEF Numbered, Types, ProcTypes
  <2>2. counter'[p] \in Nat
    BY <2>1, <1>1
  <2> QED  BY <2>1, <2>2, <1>1
<1>3. \A q \in Procs : \A i \in 1 .. counter'[q] :
        (i \in 1 .. counter[q] /\ k[q][i] = g[q][i] /\ g[q][i] \in Calls)
        \/ (q = p /\ i = counter[p] + 1 /\ k[q][i] = c)
  <2> SUFFICES ASSUME NEW q \in Procs, NEW i \in 1 .. counter'[q],
                      ~(q = p /\ i = counter[p] + 1 /\ k[q][i] = c)
               PROVE  i \in 1 .. counter[q] /\ k[q][i] = g[q][i] /\ g[q][i] \in Calls
    OBVIOUS
  <2>1. i \in 1 .. counter[q]
    BY <1>1, <1>2
  <2>2. g[q][i] \in Calls
    BY <2>1, <1>2
  <2> QED  BY <2>1, <2>2, <1>1 DEF Keeps
<1>4. \A i \in 1 .. counter[p] : g[p][i] # c
  BY Room DEF Types
<1>5. ASSUME NEW q \in Procs
      PROVE  /\ Len(k[q]) = counter'[q]
             /\ \A i, j \in 1 .. counter'[q] : k[q][i] = k[q][j] => i = j
  <2>1. Len(k[q]) = counter'[q]
    <3>1. q = p => k[q] = Append(g[p], c)
      BY DEF Gives
    <3> QED  BY <3>1, <1>1, <1>2
  <2>2. \A i, j \in 1 .. counter[q] : g[q][i] = g[q][j] => i = j
    BY DEF Numbered
  <2>3. ASSUME NEW i \in 1 .. counter'[q], NEW j \in 1 .. counter'[q], k[q][i] = k[q][j]
        PROVE  i = j
    <3>0. \A l \in 1 .. counter[q] : k[q][l] = g[q][l]
      BY <1>1 DEF Keeps
    <3>1. CASE i \in 1 .. counter[q] /\ j \in 1 .. counter[q]
      BY <3>0, <3>1, <2>2, <2>3
    <3>2. CASE q = p /\ i = counter[p] + 1
      <4>1. k[q][i] = c /\ (j \in 1 .. counter[p] => k[q][j] # c)
        BY <3>0, <3>2, <1>1, <1>4
      <4> QED  BY <4>1, <3>2, <2>3, <1>3
    <3>3. CASE q = p /\ j = counter[p] + 1
      <4>1. k[q][j] = c /\ (i \in 1 .. counter[p] => k[q][i] # c)
        BY <3>0, <3>3, <1>1, <1>4
      <4> QED  BY <4>1, <3>3, <2>3, <1>3
    <3> QED  BY <3>1, <3>2, <3>3, <1>3
  <2> QED  BY <2>1, <2>3
<1>6. ASSUME NEW q \in Procs, NEW i \in 1 .. counter'[q]
      PROVE  /\ call'[k[q][i]].st \notin {"idle", "waiting"}
             /\ Primary(q)' => ~IsFwd(k[q][i])' /\ ~IsHeld(k[q][i])'
  <2>1. CASE i \in 1 .. counter[q] /\ k[q][i] = g[q][i] /\ g[q][i] \in Calls
    <3>1. call[g[q][i]].st \notin {"idle", "waiting"} /\ (Primary(q) => ~Open(g[q][i]))
      BY <2>1 DEF Numbered, Open
    <3>2. call'[g[q][i]].st \notin {"idle", "waiting"}
      BY <2>1, <3>1
    <3>3. Primary(q) => ~Open(g[q][i])'
      BY <2>1, <3>1
    <3> QED  BY <2>1, <3>2, <3>3, <1>0 DEF Open
  <2>2. CASE q = p /\ k[q][i] = c
    BY <2>2, <1>0 DEF Open
  <2> QED  BY <2>1, <2>2, <1>3
<1>7. ASSUME NEW q \in Procs, NEW r \in pending'[q]
      PROVE  r.id <= counter'[q] /\ k[q][r.id] = r.call
  <2>1. CASE r \in pending[q]
    <3>1. r.id \in 1 .. counter[q] /\ g[q][r.id] = r.call
      BY <2>1, <1>2 DEF Numbered, Types, WaitTypes, Entries
    <3>2. r.id \in 1 .. counter'[q] /\ k[q][r.id] = g[q][r.id]
      BY <3>1, <1>1 DEF Keeps
    <3> QED  BY <3>1, <3>2, <1>2
  <2>2. CASE q = p /\ r.id = counter[p] + 1 /\ r.call = c
    BY <2>2, <1>1, <1>2
  <2> QED  BY <2>1, <2>2
<1> QED  BY <1>5, <1>6, <1>7 DEF Numbered

(* A call that is sent gets the next number of its process.                 *)
LEMMA SendNumbered ==
    ASSUME NEW d \in Calls, SendCall(d), Types, Links, \A c \in Calls : Placed(c),
           NEW g \in [Procs -> Seq(Calls)], Numbered(g),
           NEW k, k = [g EXCEPT ![Home[d]] = Append(@, d)]
    PROVE  Gives(g, k, Home[d], d) /\ Numbered(k)'
<1> DEFINE p == Home[d]
<1> DEFINE id == counter[p] + 1
<1> DEFINE sid == IF Primary(p) THEN 0 ELSE id
<1> DEFINE out == IF call[d].aborted THEN <<Call(id, d), Cancel(id)>> ELSE <<Call(id, d)>>
<1>1. p \in Procs /\ call[d].st \in {"idle", "waiting"} /\ New(p, d)
  BY BridgeCallsAssumption DEF SendCall, New
<1>2. /\ counter' = [counter EXCEPT ![p] = id]
      /\ UNCHANGED <<role, held>>
      /\ IF Primary(p) THEN UNCHANGED fwd ELSE fwd' = [fwd EXCEPT ![p] = @ \o out]
      /\ pending' = pending \/ pending' = [pending EXCEPT ![p] = @ \cup {Entry(id, d, p, sid)}]
  BY DEF SendCall
<1>3. Gives(g, k, p, d)
  BY <1>2 DEF Gives
<1>4. id \in 1 .. N
  BY <1>1, Room DEF Types
<1>5. out \in Seq(Messages) /\ \A c : In(out, c) <=> c = d
  BY <1>4, OneCall, CallAndCancel
<1>6. call'[d].st \notin {"idle", "waiting"} /\ \A c \in Calls : c # d => call'[c] = call[c]
  <2>1. CASE call[d].aborted
    BY <2>1, AnswerTypes DEF SendCall, Types, Whats
  <2>2. CASE ~call[d].aborted
    BY <2>2 DEF SendCall, Types, WorkTypes, CallRecords
  <2> QED  BY <2>1, <2>2
<1> DEFINE e == Entry(id, d, p, sid)
<1>7. e.id = id /\ e.call = d
  BY DEF Entry
<1> HIDE DEF out, e
<1>8. \A c : In(fwd[p] \o out, c) <=> In(fwd[p], c) \/ c = d
  BY <1>1, <1>5, ConcatCalls DEF Types, MessageTypes
<1>9. ASSUME NEW c \in Calls, Open(c)'
      PROVE  Open(c) \/ (c = d /\ ~Primary(p))
  <2>1. CASE IsHeld(c)'
    BY <2>1, <1>2 DEF IsHeld, HeldFor, Open
  <2>2. CASE IsFwd(c)'
    <3>1. PICK q \in Procs : In(fwd'[q], c)
      BY <2>2 DEF IsFwd
    <3>2. fwd'[q] = fwd[q] \/ (~Primary(p) /\ q = p /\ fwd'[q] = fwd[p] \o out)
      BY <3>1, <1>1, <1>2 DEF Types, MessageTypes
    <3> QED  BY <3>1, <3>2, <1>8 DEF IsFwd, Open
  <2> QED  BY <2>1, <2>2, <1>9 DEF Open
<1>10. ~Open(d)
  BY <1>1 DEF Placed, Open
<1>11. \A q \in Procs : \A r \in pending'[q] :
          r \in pending[q] \/ (q = p /\ r.id = counter[p] + 1 /\ r.call = d)
  BY <1>1, <1>2, <1>7 DEF e, Types, WaitTypes
<1>12. UNCHANGED role
  BY <1>2
<1>13. /\ Primary(p) => ~Open(d)'
       /\ \A c \in Calls : Open(c)' => Open(c) \/ (c = d /\ call[d].st \in {"idle", "waiting"})
  BY <1>1, <1>9, <1>10
<1>14. \A c \in Calls : call'[c].st \in {"idle", "waiting"} => call[c].st \in {"idle", "waiting"}
  BY <1>6
<1> HIDE DEF p, id, sid
<1>15. Numbered(k)'
  BY <1>1, <1>3, <1>6, <1>11, <1>12, <1>13, <1>14, NumberedMore
<1> QED  BY <1>3, <1>15 DEF p

(* A call that goes to the extension gets the next number of the primary.   *)
LEMMA DispatchNumbered ==
    ASSUME NEW p \in Procs, NEW from, NEW sid, NEW d \in Calls, Dispatch(p, from, sid, d),
           Types, Links, \A c \in Calls : Placed(c)', ext = p, New(p, d), Primary(p),
           \A c \in Calls : Open(c)' => Open(c), UNCHANGED <<role, call>>,
           call[d].st \notin {"idle", "waiting"},
           NEW g \in [Procs -> Seq(Calls)], Numbered(g),
           NEW k, k = [g EXCEPT ![p] = Append(@, d)]
    PROVE  Gives(g, k, p, d) /\ Numbered(k)'
<1> DEFINE id == counter[p] + 1
<1> DEFINE e == Entry(id, d, from, sid)
<1>1. /\ counter' = [counter EXCEPT ![p] = id]
      /\ pending' = [pending EXCEPT ![p] = @ \cup {e}]
      /\ down' = down \o <<Call(id, d)>>
      /\ e.id = id /\ e.call = d
  BY DEF Dispatch, RelayId, ToExt, Entry
<1>2. Gives(g, k, p, d)
  BY <1>1 DEF Gives
<1>3. id \in 1 .. N
  BY Room DEF Types
<1>4. ~Open(d)'
  <2> DEFINE u == <<Call(id, d)>>
  <2>1. u \in Seq(Messages) /\ In(u, d)
    BY <1>3, OneCall
  <2> HIDE DEF u
  <2>2. In(down \o u, d)
    BY <2>1, ConcatCalls DEF Types, MessageTypes
  <2>3. In(down, d)'
    BY <2>2, <1>1 DEF u
  <2> QED  BY <2>3 DEF Placed, Open
<1> HIDE DEF e
<1>5. \A q \in Procs : \A r \in pending'[q] :
        r \in pending[q] \/ (q = p /\ r.id = counter[p] + 1 /\ r.call = d)
  BY <1>1 DEF Types, WaitTypes
<1> QED  BY <1>2, <1>4, <1>5, NumberedMore

(* Messages for the extension go on, and no new ones come.                  *)
LEMMA RelayOpen ==
    ASSUME NEW p \in Procs, NEW s \in Procs, RelayCall(p, s), Types
    PROVE  (\A c \in Calls : Open(c)' => Open(c)) /\ Open(Head(fwd[s]).call)
           /\ Head(fwd[s]).call \in Calls
<1>0. PICK m : m = Head(fwd[s])
  OBVIOUS
<1> DEFINE h == [call |-> m.call, from |-> s, sid |-> m.id]
<1>1. /\ fwd[s] # <<>> /\ m.type = "call"
      /\ fwd' = [fwd EXCEPT ![s] = Tail(fwd[s])]
      /\ UNCHANGED held \/ held' = [held EXCEPT ![p] = @ \cup {h}]
      /\ h.call = m.call
  BY <1>0 DEF RelayCall, Shift
<1>2. fwd \in [Procs -> Seq(Messages)] /\ held \in [Procs -> SUBSET Holds]
  BY DEF Types, MessageTypes, WaitTypes
<1>3. m \in Messages /\ m.call \in Calls /\ In(fwd[s], m.call)
  <2>1. m \in Messages /\ m \in Range(fwd[s])
    BY <1>0, <1>1, <1>2, TailRange
  <2> QED  BY <2>1, <1>1 DEF Messages, In, Carries
<1> HIDE DEF h
<1>4. ASSUME NEW c \in Calls, Open(c)'
      PROVE  Open(c)
  <2>1. CASE IsFwd(c)'
    <3>1. PICK q \in Procs : In(fwd'[q], c)
      BY <2>1 DEF IsFwd
    <3>2. Fewer(fwd[q], fwd'[q], c)
      BY <1>1, <1>2, FewerFacts
    <3> QED  BY <3>1, <3>2 DEF Fewer, IsFwd, Open
  <2>2. CASE IsHeld(c)'
    <3>1. PICK q \in Procs : \E x \in held'[q] : x.call = c
      BY <2>2 DEF IsHeld, HeldFor
    <3>2. (\E x \in held[q] : x.call = c) \/ c = m.call
      BY <3>1, <1>1, <1>2
    <3> QED  BY <3>1, <3>2, <1>3 DEF IsHeld, HeldFor, IsFwd, Open
  <2> QED  BY <2>1, <2>2, <1>4 DEF Open
<1> QED  BY <1>0, <1>3, <1>4 DEF IsFwd, Open

(* A relayed call gets a number when it goes to the extension.              *)
LEMMA RelayNumbered ==
    ASSUME NEW p \in Procs, NEW s \in Procs, RelayCall(p, s), Types, Links,
           \A c \in Calls : Placed(c), \A c \in Calls : Placed(c)',
           NEW g \in [Procs -> Seq(Calls)], Numbered(g),
           NEW k, k = [g EXCEPT ![p] = Append(@, Head(fwd[s]).call)]
    PROVE  IF ext = p THEN Gives(g, k, p, Head(fwd[s]).call) /\ Numbered(k)'
           ELSE UNCHANGED counter /\ Numbered(g)'
<1>0. PICK d : d = Head(fwd[s]).call
  OBVIOUS
<1>1. (\A c \in Calls : Open(c)' => Open(c)) /\ Open(d) /\ d \in Calls
  BY <1>0, RelayOpen
<1>2. Primary(p) /\ UNCHANGED <<role, call>>
  BY DEF RelayCall
<1>3. call[d].st \notin {"idle", "waiting"}
  BY <1>1 DEF Placed, Open
<1>4. CASE ext = p
  <2>1. Dispatch(p, s, Head(fwd[s]).id, d) /\ New(p, d)
    BY <1>0, <1>1, <1>2, <1>4 DEF RelayCall, New, Open
  <2> QED  BY <2>1, <1>0, <1>1, <1>2, <1>3, <1>4, DispatchNumbered
<1>5. CASE ext # p
  <2>1. UNCHANGED <<counter, pending>>
    BY <1>5 DEF RelayCall
  <2>2. \A q \in Procs : Primary(q)' <=> Primary(q)
    BY <1>2 DEF Primary
  <2> QED  BY <2>1, <2>2, <1>1, <1>2, <1>5, NumberedFrame
<1> QED  BY <1>4, <1>5

(* So does a held one.                                                      *)
LEMMA HeldNumbered ==
    ASSUME NEW p \in Procs, NEW h \in held[p], HeldResumes(p, h) \/ HeldExpires(p, h), Types, Links,
           \A c \in Calls : Placed(c), \A c \in Calls : Placed(c)',
           NEW g \in [Procs -> Seq(Calls)], Numbered(g),
           NEW k, k = [g EXCEPT ![p] = Append(@, h.call)]
    PROVE  IF ext = p THEN Gives(g, k, p, h.call) /\ Numbered(k)'
           ELSE UNCHANGED counter /\ Numbered(g)'
<1>1. UNCHANGED <<role, call, fwd>> /\ held' = [held EXCEPT ![p] = @ \ {h}]
      /\ held \in [Procs -> SUBSET Holds]
  BY DEF HeldResumes, HeldExpires, Unheld, linkVars, Types, WaitTypes
<1>2. \A c \in Calls : Open(c)' => Open(c)
  <2>1. \A q \in Procs : held'[q] \subseteq held[q]
    BY <1>1
  <2> QED  BY <2>1, <1>1 DEF Open, IsFwd, IsHeld, HeldFor
<1>3. h.call \in Calls /\ IsHeld(h.call) /\ Primary(p)
  <2>1. h.call \in Calls
    BY <1>1 DEF Holds
  <2> QED  BY <2>1 DEF IsHeld, HeldFor, Links
<1>4. call[h.call].st \notin {"idle", "waiting"}
  BY <1>3 DEF Placed
<1>5. CASE ext = p
  <2>1. Dispatch(p, h.from, h.sid, h.call) /\ New(p, h.call)
    BY <1>3, <1>5 DEF HeldResumes, HeldExpires, New
  <2> QED  BY <2>1, <1>1, <1>2, <1>3, <1>4, <1>5, DispatchNumbered
<1>6. CASE ext # p
  <2>1. UNCHANGED <<counter, pending>>
    BY <1>6 DEF HeldResumes, HeldExpires
  <2>2. \A q \in Procs : Primary(q)' <=> Primary(q)
    BY <1>1 DEF Primary
  <2> QED  BY <2>1, <2>2, <1>1, <1>2, <1>6, NumberedFrame
<1> QED  BY <1>5, <1>6

(* A client that waits, gives up or cancels gets no number.                 *)
LEMMA ClientNumbered ==
    ASSUME NEW d \in Calls, Wait(d) \/ GiveUp(d) \/ ClientCancels(d), Types,
           NEW g \in [Procs -> Seq(Calls)], Numbered(g)
    PROVE  UNCHANGED counter /\ Numbered(g)'
<1>0. fwd \in [Procs -> Seq(Messages)] /\ pending \in [Procs -> SUBSET Entries]
      /\ call \in [Calls -> CallRecords] /\ Home[d] \in Procs
  BY BridgeCallsAssumption DEF Types, MessageTypes, WaitTypes, WorkTypes
<1>1. UNCHANGED <<role, counter, held>>
  BY DEF Wait, GiveUp, ClientCancels, bridgeVars
<1>2. \A c \in Calls : call'[c].st \in {"idle", "waiting"} => call[c].st \in {"idle", "waiting"}
  <2>1. \A c \in Calls : c # d => call'[c] = call[c]
    BY <1>0 DEF Wait, GiveUp, ClientCancels, Answer
  <2>2. call'[d].st \in {"idle", "waiting"} => call[d].st \in {"idle", "waiting"}
    BY <1>0 DEF Wait, GiveUp, ClientCancels, Answer, CallRecords
  <2> QED  BY <2>1, <2>2
<1>3. /\ \A q \in Procs : pending'[q] \subseteq pending[q]
      /\ UNCHANGED fwd \/ \E r \in Entries : Tell(Home[d], r)
  <2>1. CASE UNCHANGED <<pending, fwd>>
    BY <2>1
  <2>2. CASE ~UNCHANGED <<pending, fwd>>
    <3>1. PICK r \in pending[Home[d]] : pending' = [pending EXCEPT ![Home[d]] = @ \ {r}] /\ Tell(Home[d], r)
      BY <2>2 DEF Wait, GiveUp, ClientCancels, linkVars
    <3> QED  BY <3>1, <1>0
  <2> QED  BY <2>1, <2>2
<1>4. \A c \in Calls : Open(c)' => Open(c)
  <2>1. ASSUME NEW c \in Calls, NEW q \in Procs
        PROVE  Fewer(fwd[q], fwd'[q], c)
    <3>1. CASE UNCHANGED fwd
      BY <3>1, <1>0, FewerFacts
    <3>2. CASE \E r \in Entries : Tell(Home[d], r)
      BY <3>2, <1>0, TellFewer DEF Types
    <3> QED  BY <3>1, <3>2, <1>3
  <2> QED  BY <2>1, <1>1 DEF Fewer, Open, IsFwd, IsHeld, HeldFor
<1>5. \A q \in Procs : Primary(q)' <=> Primary(q)
  BY <1>1 DEF Primary
<1> QED  BY <1>1, <1>2, <1>3, <1>4, <1>5, NumberedFrame

(* Results, timeouts and cancellations get no number.                       *)
LEMMA ServerNumbered ==
    ASSUME NEW p \in Procs,
           \/ TakeResult(p) \/ TakeRelayed(p)
           \/ \E s \in Procs : RelayCancel(p, s)
           \/ \E r \in pending[p] : Timeout(p, r),
           Types, NEW g \in [Procs -> Seq(Calls)], Numbered(g)
    PROVE  UNCHANGED counter /\ Numbered(g)'
<1>0. /\ fwd \in [Procs -> Seq(Messages)] /\ pending \in [Procs -> SUBSET Entries]
      /\ up \in Seq(Results) /\ back \in [Procs -> Seq(Results)]
  BY DEF Types, MessageTypes, WaitTypes
<1>1. UNCHANGED <<role, counter, held>>
  BY DEF TakeResult, TakeRelayed, RelayCancel, Timeout, bridgeVars
<1>2. \A q \in Procs : pending'[q] \subseteq pending[q]
  <2>1. PICK S : pending' = [pending EXCEPT ![p] = @ \ S]
    BY DEF TakeResult, TakeRelayed, RelayCancel, Timeout
  <2> QED  BY <2>1, <1>0
<1>3. \A c \in Calls : call'[c].st \in {"idle", "waiting"} => call[c].st \in {"idle", "waiting"}
  <2>1. CASE UNCHANGED call
    BY <2>1
  <2>2. ASSUME NEW r \in pending[p], NEW what \in Whats, Deliver(p, r, what) \/ Answer(r.call, what)
        PROVE  \A c \in Calls : call'[c].st = call[c].st \/ call'[c].st = "done"
    <3>1. r \in Entries /\ r.call \in Calls
      BY <1>0 DEF Entries
    <3>2. CASE Deliver(p, r, what)
      BY <3>1, <3>2, DeliverCalls DEF Types
    <3>3. CASE Answer(r.call, what)
      BY <3>1, <3>3, AnswerTypes DEF Types
    <3> QED  BY <3>2, <3>3, <2>2
  <2>3. CASE \E r \in pending[p] : Timeout(p, r)
    <3>1. PICK r \in pending[p] : Deliver(p, r, "timeout")
      BY <2>3 DEF Timeout
    <3> QED  BY <3>1, <2>2 DEF Whats
  <2>4. CASE TakeResult(p)
    <3>1. UNCHANGED call \/ \E r \in pending[p] : Deliver(p, r, Head(up).what)
      BY <2>4 DEF TakeResult
    <3>2. Head(up) \in Results
      BY <2>4, <1>0, TailRange DEF TakeResult
    <3>3. Head(up).what \in Whats
      BY <3>2 DEF Results
    <3> QED  BY <3>1, <3>3, <2>1, <2>2
  <2>5. CASE TakeRelayed(p)
    <3>1. UNCHANGED call \/ \E r \in pending[p] : Answer(r.call, Head(back[p]).what)
      BY <2>5 DEF TakeRelayed
    <3>2. Head(back[p]) \in Results
      BY <2>5, <1>0, TailRange DEF TakeRelayed
    <3>3. Head(back[p]).what \in Whats
      BY <3>2 DEF Results
    <3> QED  BY <3>1, <3>3, <2>1, <2>2
  <2>6. CASE \E s \in Procs : RelayCancel(p, s)
    BY <2>6, <2>1 DEF RelayCancel
  <2> QED  BY <2>3, <2>4, <2>5, <2>6
<1>4. \A c \in Calls : Open(c)' => Open(c)
  <2>1. ASSUME NEW c \in Calls, NEW q \in Procs
        PROVE  Fewer(fwd[q], fwd'[q], c)
    <3>1. CASE UNCHANGED fwd
      BY <3>1, <1>0, FewerFacts
    <3>2. CASE \E r \in pending[p] : Tell(p, r)
      BY <3>2, <1>0, TellFewer DEF Types
    <3>3. ASSUME NEW s \in Procs, RelayCancel(p, s)
          PROVE  Fewer(fwd[q], fwd'[q], c)
      <4>1. fwd[s] # <<>> /\ fwd' = [fwd EXCEPT ![s] = Tail(fwd[s])]
        BY <3>3 DEF RelayCancel, Shift
      <4> QED  BY <4>1, <1>0, FewerFacts
    <3>4. UNCHANGED fwd \/ (\E r \in pending[p] : Tell(p, r)) \/ (\E s \in Procs : RelayCancel(p, s))
      BY DEF TakeResult, TakeRelayed, Timeout
    <3> QED  BY <3>1, <3>2, <3>3, <3>4
  <2> QED  BY <2>1, <1>1 DEF Fewer, Open, IsFwd, IsHeld, HeldFor
<1>5. \A q \in Procs : Primary(q)' <=> Primary(q)
  BY <1>1 DEF Primary
<1> QED  BY <1>1, <1>2, <1>3, <1>4, <1>5, NumberedFrame

(* Nor does anything in the extension or on its socket.                     *)
LEMMA ExtensionNumbered ==
    ASSUME \/ Register \/ CancelWork \/ Drop \/ KillWorker
           \/ \E c \in Calls : Begin(c) \/ Finish(c) \/ Deadline(c)
           \/ \E p \in Procs : Connect(p),
           Types, NEW g \in [Procs -> Seq(Calls)], Numbered(g)
    PROVE  UNCHANGED counter /\ Numbered(g)'
<1>1. UNCHANGED <<role, call, pending, counter, held, fwd>>
  BY DEF Register, CancelWork, Drop, KillWorker, Begin, Finish, Deadline, Connect, bridgeVars, linkVars
<1>2. \A c \in Calls : Open(c)' => Open(c)
  BY <1>1 DEF Open, IsFwd, IsHeld, HeldFor
<1>3. \A q \in Procs : Primary(q)' <=> Primary(q)
  BY <1>1 DEF Primary
<1> QED  BY <1>1, <1>2, <1>3, NumberedFrame

(* Whoever takes the port has nothing to relay.                             *)
LEMMA FaultNumbered ==
    ASSUME NEW p \in Procs, Join(p) \/ RecoveryExpires(p), Types, Links,
           NEW g \in [Procs -> Seq(Calls)], Numbered(g)
    PROVE  UNCHANGED counter /\ Numbered(g)'
<1>0. pending \in [Procs -> SUBSET Entries] /\ role \in [Procs -> {"primary", "proxy", "off"}]
      /\ call \in [Calls -> CallRecords]
  BY DEF Types, WaitTypes, ProcTypes, WorkTypes
<1>1. UNCHANGED <<counter, held, fwd>>
  BY DEF Join, RecoveryExpires, bridgeVars, linkVars
<1>2. \A c \in Calls : Open(c)' <=> Open(c)
  BY <1>1 DEF Open, IsFwd, IsHeld, HeldFor
<1>3. \A q \in Procs : Primary(q)' => Primary(q) \/ \A c \in Calls : ~Open(c)'
  <2>1. CASE NoPrimary
    <3>1. \A q \in Procs : fwd[q] = <<>> /\ held[q] = {}
      BY <2>1 DEF Links, NoPrimary
    <3>2. \A c \in Calls : ~Open(c)
      BY <3>1 DEF Open, IsFwd, IsHeld, HeldFor, In, Range
    <3> QED  BY <3>2, <1>2
  <2>2. CASE ~NoPrimary
    <3>1. role' = role \/ role' = [role EXCEPT ![p] = "proxy"]
      BY <2>2 DEF Join, RecoveryExpires, bridgeVars
    <3> QED  BY <3>1, <1>0 DEF Primary
  <2> QED  BY <2>1, <2>2
<1>4. \A q \in Procs : pending'[q] \subseteq pending[q]
  <2>1. pending' = pending \/ pending' = [pending EXCEPT ![p] = {}]
    BY DEF Join, RecoveryExpires
  <2> QED  BY <2>1, <1>0
<1>5. ASSUME NEW c \in Calls, call'[c].st \in {"idle", "waiting"}
      PROVE  call[c].st \in {"idle", "waiting"}
  <2>1. [call[c] EXCEPT !.st = "done", !.answer = "error"].st = "done"
    <3>1. call[c] \in CallRecords
      BY <1>0
    <3> QED  BY <3>1 DEF CallRecords
  <2>2. call'[c] = call[c] \/ call'[c] = [call[c] EXCEPT !.st = "done", !.answer = "error"]
    BY DEF Join, RecoveryExpires
  <2> QED  BY <2>1, <2>2, <1>5
<1>6. UNCHANGED counter /\ \A c \in Calls : Open(c)' => Open(c)
  BY <1>1, <1>2
<1>7. Numbered(g)'
  BY <1>3, <1>4, <1>5, <1>6, NumberedFrame
<1> QED  BY <1>6, <1>7

(* A process that dies forgets its numbers, and nothing waits for them.     *)
LEMMA CrashNumbered ==
    ASSUME NEW p \in Procs, Crash(p), Types, Links,
           NEW g \in [Procs -> Seq(Calls)], Numbered(g),
           NEW k, k = [g EXCEPT ![p] = <<>>]
    PROVE  /\ k \in [Procs -> Seq(Calls)] /\ Numbered(k)'
           /\ \A q \in Procs : q # p => counter'[q] = counter[q] /\ k[q] = g[q]
<1>0. /\ fwd \in [Procs -> Seq(Messages)] /\ pending \in [Procs -> SUBSET Entries]
      /\ held \in [Procs -> SUBSET Holds] /\ counter \in [Procs -> Nat]
      /\ role \in [Procs -> {"primary", "proxy", "off"}] /\ call \in [Calls -> CallRecords]
  BY DEF Types, MessageTypes, WaitTypes, ProcTypes, WorkTypes
<1>1. role' = [role EXCEPT ![p] = "off"] /\ counter' = [counter EXCEPT ![p] = 0]
  BY DEF Crash
<1>2. /\ k \in [Procs -> Seq(Calls)] /\ k[p] = <<>> /\ counter'[p] = 0
      /\ \A q \in Procs : q # p => counter'[q] = counter[q] /\ k[q] = g[q]
  BY <1>0, <1>1
<1>3. \A q \in Procs : Primary(q)' => Primary(q)
  BY <1>0, <1>1 DEF Primary
<1>4. \A c \in Calls : call'[c].st \in {"idle", "waiting"} => call[c].st \in {"idle", "waiting"}
  BY <1>0 DEF Crash, CallRecords
<1>5. pending'[p] = {} /\ \A q \in Procs : pending'[q] \subseteq pending[q]
  <2>1. CASE pending' = [pending EXCEPT ![p] = {}]
    BY <2>1, <1>0
  <2>2. CASE ~(pending' = [pending EXCEPT ![p] = {}])
    <3>0. PICK q : q = ThePrimary
      OBVIOUS
    <3>1. p \in linked /\ ~Primary(p) /\ pending' = [pending EXCEPT ![p] = {}, ![q] = @ \ Orphans(q, p)]
      BY <2>2, <3>0 DEF Crash
    <3>2. q \in Procs /\ Primary(q)
      <4>1. \E x \in Procs : Primary(x)
        BY <3>1 DEF Links, NoPrimary
      <4> QED  BY <4>1, <3>0 DEF ThePrimary
    <3> QED  BY <3>1, <3>2, <1>0
  <2> QED  BY <2>1, <2>2
<1>6. \A c \in Calls : Open(c)' => Open(c)
  <2>1. \A q \in Procs : \A c \in Calls : In(fwd'[q], c) => In(fwd[q], c)
    <3>1. fwd' = [q \in Procs |-> <<>>] \/ fwd' = [fwd EXCEPT ![p] = <<>>]
      BY DEF Crash
    <3>2. \A c : ~In(<<>>, c)
      BY DEF In, Range
    <3> QED  BY <3>1, <3>2, <1>0
  <2>2. \A q \in Procs : \A x \in held'[q] : \E h \in held[q] : x.call = h.call
    <3>1. CASE held' = held \/ held' = [held EXCEPT ![p] = {}]
      BY <3>1, <1>0
    <3>2. CASE ~(held' = held \/ held' = [held EXCEPT ![p] = {}])
      <4> DEFINE f(h) == [h EXCEPT !.from = IF @ = p THEN NoProc ELSE @]
      <4>0. PICK q : q = ThePrimary
        OBVIOUS
      <4>1. held' = [held EXCEPT ![q] = {f(h) : h \in @}]
        BY <3>2, <4>0 DEF Crash
      <4>2. \A h \in Holds : f(h).call = h.call
        BY DEF Holds
      <4> HIDE DEF f
      <4>3. \A x \in Procs : held'[x] = {f(h) : h \in held[x]} \/ held'[x] = held[x]
        BY <1>0, <4>1
      <4>4. \A x \in Procs : held[x] \subseteq Holds
        BY <1>0
      <4> QED  BY <4>2, <4>3, <4>4
    <3> QED  BY <3>1, <3>2
  <2> QED  BY <2>1, <2>2 DEF Open, IsFwd, IsHeld, HeldFor
<1>7. \A q \in Procs : g[q] \in Seq(Calls) /\ Len(g[q]) = counter[q] /\ counter[q] \in Nat
  BY <1>0 DEF Numbered
<1>8. ASSUME NEW q \in Procs
      PROVE  /\ Len(k[q]) = counter'[q]
             /\ \A i, j \in 1 .. counter'[q] : k[q][i] = k[q][j] => i = j
             /\ \A i \in 1 .. counter'[q] : /\ call'[k[q][i]].st \notin {"idle", "waiting"}
                                            /\ Primary(q)' => ~IsFwd(k[q][i])' /\ ~IsHeld(k[q][i])'
             /\ \A r \in pending'[q] : r.id <= counter'[q] /\ k[q][r.id] = r.call
  <2>1. CASE q = p
    BY <2>1, <1>2, <1>5
  <2>2. CASE q # p
    <3>1. counter'[q] = counter[q] /\ k[q] = g[q] /\ pending'[q] \subseteq pending[q]
      BY <2>2, <1>2, <1>5
    <3>2. \A i \in 1 .. counter[q] : g[q][i] \in Calls
      BY <1>7
    <3>3. \A i \in 1 .. counter[q] : /\ call'[g[q][i]].st \notin {"idle", "waiting"}
                                     /\ Primary(q)' => ~IsFwd(g[q][i])' /\ ~IsHeld(g[q][i])'
      BY <3>2, <1>3, <1>4, <1>6 DEF Numbered, Open
    <3> QED  BY <3>1, <3>3 DEF Numbered
  <2> QED  BY <2>1, <2>2
<1> QED  BY <1>2, <1>8 DEF Numbered

-----------------------------------------------------------------------------
(* What the numbers mean.                                                  *)

\* Nothing in t calls for anything that s does not.
NoMore(s, t) == \A m \in Range(t) : m.type = "call" => m \in Range(s)

\* What is new means what k says.
MoreMessages(k) ==
    /\ \A p \in Procs : \A m \in Range(fwd'[p]) : m.type = "call" =>
         m \in Range(fwd[p]) \/ Gave(k, p, m.id, m.call)'
    /\ \A m \in Range(down') : m.type = "call" =>
         m \in Range(down) \/ Gave(k, First, m.id, m.call)'

MoreWaits(k) ==
    /\ \A h \in held'[First] :
         h \in held[First] \/ (h.from # NoProc => Gave(k, h.from, h.sid, h.call)')
    /\ \A r \in pending'[First] :
         \/ r \in pending[First]
         \/ /\ r.from = First => r.sid = 0
            /\ r.from \notin {First, NoProc} => Gave(k, r.from, r.sid, r.call)'

MoreWork(k) ==
    \A c \in Calls : work'[c].st # "none" =>
        (work[c].st # "none" /\ work'[c].id = work[c].id) \/ Gave(k, First, work[c].id, c)'

MoreResults(k) ==
    /\ \A m \in Range(up') : m \in Range(up) \/ Answers(k, First, m)'
    /\ \A p \in Procs : \A m \in Range(back'[p]) : m \in Range(back[p]) \/ Answers(k, p, m)'

(* Taking a message, clearing a channel or cancelling brings no message of  *)
(* a call.                                                                  *)
LEMMA NoMoreFacts ==
    ASSUME NEW s \in Seq(Messages)
    PROVE  /\ NoMore(s, s) /\ NoMore(s, <<>>)
           /\ s # <<>> => NoMore(s, Tail(s))
           /\ \A x : Quiet(x) => NoMore(s, s \o x)
<1>1. NoMore(s, s) /\ NoMore(s, <<>>)
  BY DEF NoMore, Range
<1>2. s # <<>> => NoMore(s, Tail(s))
  BY TailRange DEF NoMore
<1>3. ASSUME NEW x, Quiet(x)
      PROVE  NoMore(s, s \o x)
  <2>1. x \in Seq(Messages) /\ \A m \in Range(x) : m.type = "cancel"
    BY <1>3 DEF Quiet
  <2>2. Range(s \o x) = Range(s) \cup Range(x)
    BY <2>1, ConcatRange
  <2> QED  BY <2>1, <2>2 DEF NoMore
<1> QED  BY <1>1, <1>2, <1>3

(* Telling that nobody waits brings no message of a call.                   *)
LEMMA TellNoMore ==
    ASSUME NEW p \in Procs, NEW r \in Entries, Tell(p, r), MessageTypes
    PROVE  (\A q \in Procs : NoMore(fwd[q], fwd'[q])) /\ NoMore(down, down')
<1>1. PICK x, y : Quiet(x) /\ Quiet(y) /\ fwd' = [fwd EXCEPT ![p] = @ \o x] /\ down' = down \o y
  BY TellQuiet
<1>2. down \in Seq(Messages) /\ fwd \in [Procs -> Seq(Messages)]
  BY DEF MessageTypes
<1>3. NoMore(down, down')
  BY <1>1, <1>2, NoMoreFacts
<1>4. ASSUME NEW q \in Procs
      PROVE  NoMore(fwd[q], fwd'[q])
  <2>1. fwd[q] \in Seq(Messages) /\ fwd'[q] = IF q = p THEN fwd[q] \o x ELSE fwd[q]
    BY <1>1, <1>2
  <2> QED  BY <2>1, <1>1, NoMoreFacts
<1> QED  BY <1>3, <1>4

(* What k keeps.                                                            *)
LEMMA KeepsGave ==
    ASSUME NEW g, NEW k, Keeps(g, k), ProcTypes, ProcTypes', NEW p \in Procs
    PROVE  /\ \A id \in 1 .. N : \A c : Gave(g, p, id, c) => Gave(k, p, id, c)'
           /\ \A m \in Results : Answers(g, p, m) => Answers(k, p, m)'
<1>1. counter[p] \in Nat /\ counter'[p] \in Nat
  BY DEF ProcTypes
<1>2. \A id \in 1 .. N : id <= counter[p] => id <= counter'[p] /\ k[p][id] = g[p][id]
  BY <1>1, NFacts DEF Keeps
<1>3. \A m \in Results : m.id \in 1 .. N
  BY DEF Results
<1> QED  BY <1>2, <1>3 DEF Gave, Answers

(* A step keeps the meaning of the ids if what is new means what k says.    *)
LEMMA MeantKept ==
    ASSUME NEW g, NEW k, Keeps(g, k), Types, Types', Waiting, Meant(g), Steady' => Steady,
           Steady' => MoreMessages(k) /\ MoreWaits(k) /\ MoreWork(k) /\ MoreResults(k)
    PROVE  Meant(k)'
<1> SUFFICES ASSUME Steady'
             PROVE  (MeantMessages(k) /\ MeantWaits(k) /\ MeantWork(k) /\ MeantResults(k))'
  BY DEF Meant
<1>0. /\ First \in Procs /\ NoProc \notin Procs
      /\ \A p \in Procs : \A id \in 1 .. N : \A c : Gave(g, p, id, c) => Gave(k, p, id, c)'
      /\ \A p \in Procs : \A m \in Results : Answers(g, p, m) => Answers(k, p, m)'
  BY BridgeCallsAssumption, KeepsGave DEF Types
<1>1. \A s : s \in Seq(Messages) => \A m \in Range(s) : m.type = "call" => m.id \in 1 .. N
  <2>1. \A m \in Messages : m.id \in 1 .. N
    BY DEF Messages
  <2>2. \A s : s \in Seq(Messages) => \A m \in Range(s) : m \in Messages
    BY DEF Range
  <2> QED  BY <2>1, <2>2
<1>2. MeantMessages(k)'
  <2>1. ASSUME NEW p \in Procs, NEW m \in Range(fwd'[p]), m.type = "call"
        PROVE  Gave(k, p, m.id, m.call)'
    <3>1. CASE m \in Range(fwd[p])
      <4>1. Gave(g, p, m.id, m.call)
        BY <2>1, <3>1 DEF Meant, MeantMessages
      <4>2. fwd[p] \in Seq(Messages)
        BY DEF Types, MessageTypes
      <4>3. m.id \in 1 .. N
        BY <4>2, <3>1, <2>1, <1>1
      <4> QED  BY <4>1, <4>3, <1>0
    <3> QED  BY <3>1, <2>1 DEF MoreMessages
  <2>2. ASSUME NEW m \in Range(down'), m.type = "call"
        PROVE  Gave(k, First, m.id, m.call)'
    <3>1. CASE m \in Range(down)
      <4>1. Gave(g, First, m.id, m.call)
        BY <2>2, <3>1 DEF Meant, MeantMessages
      <4>2. down \in Seq(Messages)
        BY DEF Types, MessageTypes
      <4>3. m.id \in 1 .. N
        BY <4>2, <3>1, <2>2, <1>1
      <4> QED  BY <4>1, <4>3, <1>0
    <3> QED  BY <3>1, <2>2 DEF MoreMessages
  <2> QED  BY <2>1, <2>2 DEF MeantMessages
<1>3. MeantWaits(k)'
  <2>1. ASSUME NEW h \in held'[First], h.from # NoProc
        PROVE  Gave(k, h.from, h.sid, h.call)'
    <3>1. CASE h \in held[First]
      <4>1. Gave(g, h.from, h.sid, h.call)
        BY <2>1, <3>1 DEF Meant, MeantWaits
      <4>2. h \in Holds
        BY <3>1, <1>0 DEF Types, WaitTypes
      <4>3. h.sid \in 1 .. N /\ h.from \in Procs
        BY <4>2, <2>1 DEF Holds
      <4> QED  BY <4>1, <4>3, <1>0
    <3> QED  BY <3>1, <2>1 DEF MoreWaits
  <2>2. ASSUME NEW r \in pending'[First]
        PROVE  /\ r.from = First => r.sid = 0
               /\ r.from \notin {First, NoProc} => Gave(k, r.from, r.sid, r.call)'
    <3>1. CASE r \in pending[First]
      <4>1. /\ r.from = First => r.sid = 0
            /\ r.from \notin {First, NoProc} => Gave(g, r.from, r.sid, r.call)
        BY <3>1 DEF Meant, MeantWaits
      <4>2. r \in Entries /\ r \in pending'[First]
        BY <3>1, <1>0 DEF Types, WaitTypes
      <4>3. r.sid \in 0 .. N /\ r.from \in Procs \cup {NoProc} /\ r.call \in Calls
        BY <4>2 DEF Entries
      <4>4. ASSUME r.from \notin {First, NoProc}
            PROVE  Gave(k, r.from, r.sid, r.call)'
        <5>1. Gave(g, r.from, r.sid, r.call) /\ r.from \in Procs
          BY <4>1, <4>3, <4>4
        <5>2. CASE r.sid # 0
          <6>1. r.sid \in 1 .. N
            BY <5>2, <4>3, NFacts
          <6> QED  BY <6>1, <5>1, <1>0
        <5>3. CASE r.sid = 0
          BY <5>3, <4>4, <3>1, <1>0 DEF Waiting
        <5> QED  BY <5>2, <5>3
      <4> QED  BY <4>1, <4>4
    <3> QED  BY <3>1, <2>2 DEF MoreWaits
  <2> QED  BY <2>1, <2>2 DEF MeantWaits
<1>4. MeantWork(k)'
  <2> SUFFICES ASSUME NEW c \in Calls, work'[c].st # "none"
               PROVE  Gave(k, First, work[c].id, c)'
    BY DEF MeantWork
  <2>1. CASE work[c].st # "none" /\ work'[c].id = work[c].id
    <3>1. Gave(g, First, work[c].id, c)
      BY <2>1 DEF Meant, MeantWork
    <3>2. work[c].id \in 1 .. N
      <4>1. work[c] \in WorkRecords /\ work[c].id # 0
        BY <2>1 DEF Types, WorkTypes
      <4>2. work[c].id \in 0 .. N
        BY <4>1 DEF WorkRecords
      <4> QED  BY <4>1, <4>2, NFacts
    <3> QED  BY <3>1, <3>2, <2>1, <1>0
  <2> QED  BY <2>1 DEF MoreWork
<1>5. MeantResults(k)'
  <2>1. ASSUME NEW m \in Range(up')
        PROVE  Answers(k, First, m)'
    <3>1. CASE m \in Range(up)
      <4>1. Answers(g, First, m) /\ m \in Results
        BY <3>1 DEF Meant, MeantResults, Types, MessageTypes, Range
      <4> QED  BY <4>1, <1>0
    <3> QED  BY <3>1, <2>1 DEF MoreResults
  <2>2. ASSUME NEW p \in Procs, NEW m \in Range(back'[p])
        PROVE  Answers(k, p, m)'
    <3>1. CASE m \in Range(back[p])
      <4>1. Answers(g, p, m)
        BY <3>1 DEF Meant, MeantResults
      <4>2. back[p] \in Seq(Results)
        BY DEF Types, MessageTypes
      <4>3. m \in Results
        BY <3>1, <4>2 DEF Range
      <4> QED  BY <4>1, <4>3, <1>0
    <3> QED  BY <3>1, <2>2 DEF MoreResults
  <2> QED  BY <2>1, <2>2 DEF MeantResults
<1> QED  BY <1>2, <1>3, <1>4, <1>5

(* A message that is appended is added to those of the channel.             *)
LEMMA AppendRange ==
    ASSUME NEW S, NEW s \in Seq(S), NEW e \in S
    PROVE  Range(Append(s, e)) = Range(s) \cup {e}
<1> DEFINE u == Append(s, e)
<1>1. /\ Len(s) \in Nat /\ DOMAIN s = 1 .. Len(s) /\ DOMAIN u = 1 .. Len(s) + 1
      /\ \A i \in 1 .. Len(s) : u[i] = s[i]
      /\ u[Len(s) + 1] = e
  OBVIOUS
<1> HIDE DEF u
<1>2. \A m : m \in Range(u) <=> m \in Range(s) \cup {e}
  <2>1. \A m \in Range(u) : m \in Range(s) \cup {e}
    BY <1>1 DEF Range
  <2>2. \A m \in Range(s) : m \in Range(u)
    BY <1>1 DEF Range
  <2>3. e \in Range(u)
    <3>1. Len(s) + 1 \in DOMAIN u
      BY <1>1
    <3> QED  BY <3>1, <1>1 DEF Range
  <2> QED  BY <2>1, <2>2, <2>3
<1> QED  BY <1>2 DEF u

(* While the first primary goes on, nobody else is primary.                 *)
LEMMA SteadyFacts ==
    ASSUME Links, Settled, Steady
    PROVE  /\ First \in Procs /\ Primary(First) /\ First \notin linked /\ NoProc \notin Procs
           /\ \A p \in Procs : Primary(p) => p = First
<1>1. First \in Procs /\ Primary(First) /\ NoProc \notin Procs
  BY BridgeCallsAssumption DEF Settled
<1>2. \A p \in Procs : Primary(p) => p = First
  BY <1>1 DEF Links
<1> QED  BY <1>1, <1>2 DEF Links, Primary

(* Steps in which each client gets an answer to its call, or none.          *)
LEMMA AnswersKept ==
    ASSUME OwnAnswers, faults'.crash = 0 => faults.crash = 0,
           faults'.crash = 0 => \A c \in Calls :
              \/ call'[c].answer = call[c].answer
              \/ call'[c].answer \in {c, "timeout", "cancelled", "error"}
    PROVE  OwnAnswers'
BY DEF OwnAnswers

(* An answer goes to whoever made the call.                                 *)
LEMMA DeliverMeant ==
    ASSUME NEW p \in Procs, NEW r \in pending[p], NEW what \in Whats, Deliver(p, r, what),
           Types, Waiting, Links, Settled, OwnAnswers, UNCHANGED <<counter, faults>>,
           NEW g, Meant(g),
           Steady => what \in {r.call, "timeout", "cancelled", "error"}
    PROVE  /\ Steady => \A q \in Procs : \A m \in Range(back'[q]) :
                          m \in Range(back[q]) \/ Answers(g, q, m)'
           /\ OwnAnswers'
<1>0. r \in Entries /\ back \in [Procs -> Seq(Results)] /\ linked \subseteq Procs
  BY DEF Types, ProcTypes, WaitTypes, MessageTypes
<1>1. r.call \in Calls /\ r.sid \in 0 .. N /\ r.from \in Procs \cup {NoProc}
  BY <1>0 DEF Entries
<1>2. CASE Relayed(p, r)
  <2>1. r.from # p /\ r.sid # 0 /\ Primary(p)
    BY <1>2 DEF Relayed, Waiting
  <2>2. UNCHANGED call
    BY <1>2 DEF Deliver
  <2>3. OwnAnswers'
    BY <2>2, AnswersKept
  <2>4. ASSUME Steady, NEW q \in Procs, NEW m \in Range(back'[q]), m \notin Range(back[q])
        PROVE  Answers(g, q, m)'
    <3> DEFINE e == Result(r.sid, what)
    <3>1. e.id = r.sid /\ e.what = what /\ e \in Results
      BY <1>1, <2>1, NFacts DEF Result, Results
    <3>2. r.from \in linked /\ back' = [back EXCEPT ![r.from] = Append(@, e)]
      BY <2>4, <1>2 DEF Deliver
    <3> HIDE DEF e
    <3>3. q = r.from /\ m \in Range(Append(back[q], e))
      BY <3>2, <2>4, <1>0
    <3>4. m = e
      BY <3>1, <3>3, <2>4, <1>0, AppendRange
    <3>5. r.from \notin {First, NoProc} /\ p = First
      BY <2>1, <2>4, <3>2, <1>0, SteadyFacts
    <3>6. Gave(g, r.from, r.sid, r.call)
      BY <3>5, <2>4 DEF Meant, MeantWaits
    <3> QED  BY <3>1, <3>3, <3>4, <3>6, <2>4 DEF Gave, Answers
  <2> QED  BY <2>3, <2>4
<1>3. CASE ~Relayed(p, r)
  <2>1. Answer(r.call, what) /\ back' = back
    BY <1>3 DEF Deliver
  <2>2. call'[r.call].answer = what /\ \A d \in Calls : d # r.call => call'[d] = call[d]
    BY <2>1, <1>1, AnswerTypes DEF Types
  <2>3. OwnAnswers'
    BY <2>2, AnswersKept DEF Steady
  <2> QED  BY <2>1, <2>3
<1> QED  BY <1>2, <1>3

(* Results and cancellations keep their meaning when they are passed on.    *)
LEMMA ServerMeant ==
    ASSUME NEW p \in Procs,
           \/ TakeResult(p) \/ TakeRelayed(p)
           \/ \E s \in Procs : RelayCancel(p, s)
           \/ \E r \in pending[p] : Timeout(p, r),
           Types, Types', Links, Settled, Waiting, OwnAnswers,
           NEW g, Numbered(g), Meant(g)
    PROVE  Meant(g)' /\ OwnAnswers'
<1>0. /\ fwd \in [Procs -> Seq(Messages)] /\ pending \in [Procs -> SUBSET Entries]
      /\ up \in Seq(Results) /\ back \in [Procs -> Seq(Results)] /\ down \in Seq(Messages)
  BY DEF Types, MessageTypes, WaitTypes
<1>1. UNCHANGED <<role, linked, counter, held, work, faults>>
  BY DEF TakeResult, TakeRelayed, RelayCancel, Timeout, bridgeVars, swVars
<1>2. Keeps(g, g) /\ (Steady' <=> Steady)
  BY <1>1 DEF Keeps, Steady
<1>3. MoreWork(g)
  BY <1>1 DEF MoreWork
<1>4. MoreWaits(g)
  <2>1. PICK S : pending' = [pending EXCEPT ![p] = @ \ S]
    BY DEF TakeResult, TakeRelayed, RelayCancel, Timeout
  <2>2. \A q \in Procs : pending'[q] \subseteq pending[q]
    BY <2>1, <1>0
  <2> QED  BY <2>2, <1>1, BridgeCallsAssumption DEF MoreWaits
<1>5. CASE TakeResult(p)
  <2>0. PICK m : m = Head(up)
    OBVIOUS
  <2> DEFINE mine == {r \in pending[p] : r.id = m.id}
  <2>1. /\ ext = p /\ up # <<>> /\ up' = Tail(up) /\ UNCHANGED <<fwd, down>>
        /\ IF mine = {} THEN UNCHANGED <<back, call>>
           ELSE \E r \in mine : Deliver(p, r, m.what)
    BY <1>5, <2>0 DEF TakeResult
  <2>2. m \in Results /\ m \in Range(up) /\ Range(up') \subseteq Range(up)
    BY <2>0, <2>1, <1>0, TailRange
  <2>3. m.what \in Whats
    BY <2>2 DEF Results
  <2>4. MoreMessages(g)
    BY <2>1 DEF MoreMessages
  <2>5. (Steady => MoreResults(g)) /\ OwnAnswers'
    <3>1. CASE mine = {}
      <4>1. UNCHANGED <<back, call>>
        BY <2>1, <3>1
      <4>2. OwnAnswers'
        BY <4>1, <1>1, AnswersKept
      <4> QED  BY <4>1, <4>2, <2>2 DEF MoreResults
    <3>2. CASE mine # {}
      <4>1. PICK r \in pending[p] : r.id = m.id /\ Deliver(p, r, m.what)
        BY <2>1, <3>2
      <4>2. Steady => m.what \in {r.call, "timeout", "cancelled", "error"}
        <5>1. g[p][m.id] = r.call
          BY <4>1 DEF Numbered
        <5>2. Steady => p = First
          BY <2>1, SteadyFacts, BridgeCallsAssumption DEF Links
        <5>3. Steady => Answers(g, First, m)
          BY <2>2 DEF Meant, MeantResults
        <5> QED  BY <5>1, <5>2, <5>3 DEF Answers
      <4>3. /\ Steady => \A q \in Procs : \A x \in Range(back'[q]) :
                           x \in Range(back[q]) \/ Answers(g, q, x)'
            /\ OwnAnswers'
        BY <4>1, <4>2, <2>3, <1>1, DeliverMeant
      <4> QED  BY <4>3, <2>2 DEF MoreResults
    <3> QED  BY <3>1, <3>2
  <2> QED  BY <2>4, <2>5, <1>2, <1>3, <1>4, MeantKept
<1>6. CASE TakeRelayed(p)
  <2>0. PICK m : m = Head(back[p])
    OBVIOUS
  <2> DEFINE mine == {r \in pending[p] : r.id = m.id}
  <2>1. /\ p \in linked /\ back[p] # <<>> /\ back' = [back EXCEPT ![p] = Tail(@)]
        /\ UNCHANGED <<fwd, down, up>>
        /\ IF mine = {} THEN UNCHANGED call ELSE \E r \in mine : Answer(r.call, m.what)
    BY <1>6, <2>0 DEF TakeRelayed, Shift, sockVars
  <2>2. m \in Results /\ m \in Range(back[p]) /\ Range(Tail(back[p])) \subseteq Range(back[p])
    BY <2>0, <2>1, <1>0, TailRange
  <2>3. m.what \in Whats
    BY <2>2 DEF Results
  <2>4. MoreMessages(g)
    BY <2>1 DEF MoreMessages
  <2>5. MoreResults(g)
    <3>1. \A q \in Procs : Range(back'[q]) \subseteq Range(back[q])
      BY <2>1, <2>2, <1>0
    <3> QED  BY <3>1, <2>1 DEF MoreResults
  <2>6. OwnAnswers'
    <3>1. CASE mine = {}
      BY <3>1, <2>1, <1>1, AnswersKept
    <3>2. CASE mine # {}
      <4>1. PICK r \in pending[p] : r.id = m.id /\ Answer(r.call, m.what)
        BY <2>1, <3>2
      <4>2. r.call \in Calls
        BY <1>0 DEF Entries
      <4>3. Steady => m.what \in {r.call, "timeout", "cancelled", "error"}
        <5>1. g[p][m.id] = r.call
          BY <4>1 DEF Numbered
        <5>2. Steady => Answers(g, p, m)
          BY <2>2 DEF Meant, MeantResults
        <5> QED  BY <5>1, <5>2 DEF Answers
      <4>4. call'[r.call].answer = m.what /\ \A d \in Calls : d # r.call => call'[d] = call[d]
        BY <4>1, <4>2, <2>3, AnswerTypes DEF Types
      <4> QED  BY <4>3, <4>4, <1>1, AnswersKept DEF Steady
    <3> QED  BY <3>1, <3>2
  <2> QED  BY <2>4, <2>5, <2>6, <1>2, <1>3, <1>4, MeantKept
<1>7. ASSUME NEW s \in Procs, RelayCancel(p, s)
      PROVE  Meant(g)' /\ OwnAnswers'
  <2> DEFINE mine == {r \in pending[p] : r.from = s /\ Relayed(p, r) /\ r.sid = Head(fwd[s]).id}
  <2>1. /\ down' = ToExt(p, SetToSeq({Cancel(r.id) : r \in mine}))
        /\ fwd[s] # <<>> /\ fwd' = [fwd EXCEPT ![s] = Tail(fwd[s])]
        /\ UNCHANGED <<back, up, call>>
    BY <1>7 DEF RelayCancel, Shift
  <2>2. mine \subseteq pending[p] /\ IsFiniteSet(pending[p])
    BY DEF Types, WaitTypes
  <2> HIDE DEF mine
  <2>3. IsFiniteSet(mine) /\ \A r \in mine : r.id \in 1 .. N
    BY <1>0, <2>2, FS_Subset DEF Entries
  <2>4. Quiet(SetToSeq({Cancel(r.id) : r \in mine}))
    BY <2>3, QuietSets
  <2>5. NoMore(down, down') /\ \A q \in Procs : NoMore(fwd[q], fwd'[q])
    BY <1>0, <2>1, <2>4, NoMoreFacts DEF ToExt
  <2>6. MoreMessages(g)
    BY <2>5 DEF MoreMessages, NoMore
  <2>7. MoreResults(g)
    BY <2>1 DEF MoreResults
  <2>8. OwnAnswers'
    BY <2>1, <1>1, AnswersKept
  <2> QED  BY <2>6, <2>7, <2>8, <1>2, <1>3, <1>4, MeantKept
<1>8. ASSUME NEW r \in pending[p], Timeout(p, r)
      PROVE  Meant(g)' /\ OwnAnswers'
  <2>1. Tell(p, r) /\ Deliver(p, r, "timeout") /\ up' = up /\ r \in Entries
    BY <1>0, <1>8 DEF Timeout
  <2>2. MoreMessages(g)
    BY <2>1, TellNoMore DEF Types, MoreMessages, NoMore
  <2>3. /\ Steady => \A q \in Procs : \A m \in Range(back'[q]) :
                       m \in Range(back[q]) \/ Answers(g, q, m)'
        /\ OwnAnswers'
    BY <2>1, <1>1, DeliverMeant DEF Whats
  <2>4. Steady => MoreResults(g)
    BY <2>1, <2>3 DEF MoreResults
  <2> QED  BY <2>2, <2>3, <2>4, <1>2, <1>3, <1>4, MeantKept
<1> QED  BY <1>5, <1>6, <1>7, <1>8

(* A client that waits, gives up or cancels says nothing new of ids.        *)
LEMMA ClientMeant ==
    ASSUME NEW d \in Calls, Wait(d) \/ GiveUp(d) \/ ClientCancels(d),
           Types, Types', Waiting, OwnAnswers, NEW g, Numbered(g), Meant(g)
    PROVE  Meant(g)' /\ OwnAnswers'
<1>0. /\ fwd \in [Procs -> Seq(Messages)] /\ pending \in [Procs -> SUBSET Entries]
      /\ down \in Seq(Messages) /\ call \in [Calls -> CallRecords]
      /\ Home[d] \in Procs /\ First \in Procs
  BY BridgeCallsAssumption DEF Types, MessageTypes, WaitTypes, WorkTypes
<1>1. UNCHANGED <<counter, held, work, faults, up, back>>
  BY DEF Wait, GiveUp, ClientCancels, bridgeVars, linkVars, sockVars, swVars
<1>2. Keeps(g, g) /\ (Steady' <=> Steady)
  BY <1>1 DEF Keeps, Steady
<1>3. MoreWork(g) /\ MoreResults(g)
  BY <1>1 DEF MoreWork, MoreResults
<1>4. /\ \A q \in Procs : pending'[q] \subseteq pending[q]
      /\ UNCHANGED <<fwd, down>> \/ \E r \in Entries : Tell(Home[d], r)
  <2>1. CASE UNCHANGED <<pending, fwd, down>>
    BY <2>1
  <2>2. CASE ~UNCHANGED <<pending, fwd, down>>
    <3>1. PICK r \in pending[Home[d]] : pending' = [pending EXCEPT ![Home[d]] = @ \ {r}] /\ Tell(Home[d], r)
      BY <2>2 DEF Wait, GiveUp, ClientCancels, linkVars, sockVars
    <3> QED  BY <3>1, <1>0
  <2> QED  BY <2>1, <2>2
<1>5. MoreWaits(g)
  BY <1>0, <1>1, <1>4 DEF MoreWaits
<1>6. MoreMessages(g)
  <2>1. CASE UNCHANGED <<fwd, down>>
    BY <2>1 DEF MoreMessages
  <2>2. CASE \E r \in Entries : Tell(Home[d], r)
    BY <2>2, <1>0, TellNoMore DEF Types, MoreMessages, NoMore
  <2> QED  BY <2>1, <2>2, <1>4
<1>7. \A c \in Calls : call'[c].answer = call[c].answer \/ call'[c].answer \in {"cancelled", "error"}
  <2>1. \A c \in Calls : c # d => call'[c] = call[c]
    BY <1>0 DEF Wait, GiveUp, ClientCancels, Answer
  <2>2. call'[d].answer = call[d].answer \/ call'[d].answer \in {"cancelled", "error"}
    <3>1. CASE Wait(d)
      <4>1. call'[d] = [call[d] EXCEPT !.st = "waiting"] /\ call[d] \in CallRecords
        BY <3>1, <1>0 DEF Wait
      <4> QED  BY <4>1 DEF CallRecords
    <3>2. CASE GiveUp(d)
      BY <3>2, AnswerTypes DEF GiveUp, Types, Whats
    <3>3. CASE ClientCancels(d)
      <4>1. \/ call'[d] = [call[d] EXCEPT !.aborted = TRUE]
            \/ call'[d] = [st |-> "done", aborted |-> TRUE, answer |-> "cancelled"]
        BY <3>3, <1>0 DEF ClientCancels
      <4>2. call[d] \in CallRecords
        BY <1>0
      <4> QED  BY <4>1, <4>2 DEF CallRecords
    <3> QED  BY <3>1, <3>2, <3>3
  <2> QED  BY <2>1, <2>2
<1>8. OwnAnswers'
  BY <1>1, <1>7, AnswersKept
<1> QED  BY <1>2, <1>3, <1>5, <1>6, <1>8, MeantKept

(* A call that is sent bears the number that its process gave it.           *)
LEMMA SendMeant ==
    ASSUME NEW d \in Calls, SendCall(d), Types, Types', Links, Settled, Waiting, OwnAnswers,
           NEW g \in [Procs -> Seq(Calls)], Numbered(g), Meant(g),
           NEW k, Gives(g, k, Home[d], d)
    PROVE  Meant(k)' /\ OwnAnswers'
<1> DEFINE p == Home[d]
<1>a. PICK id : id = counter[p] + 1
  OBVIOUS
<1>b. PICK sid : sid = IF Primary(p) THEN 0 ELSE id
  OBVIOUS
<1>c. PICK out : out = IF call[d].aborted THEN <<Call(id, d), Cancel(id)>> ELSE <<Call(id, d)>>
  OBVIOUS
<1> DEFINE e == Entry(id, d, p, sid)
<1>0. /\ fwd \in [Procs -> Seq(Messages)] /\ pending \in [Procs -> SUBSET Entries]
      /\ down \in Seq(Messages) /\ call \in [Calls -> CallRecords]
      /\ p \in Procs /\ First \in Procs
  BY BridgeCallsAssumption DEF Types, MessageTypes, WaitTypes, WorkTypes
<1>1. /\ call[d].st \in {"idle", "waiting"}
      /\ UNCHANGED <<role, held, work, faults, up, back>>
      /\ IF Primary(p) THEN down' = down \o out /\ UNCHANGED fwd
         ELSE fwd' = [fwd EXCEPT ![p] = @ \o out] /\ UNCHANGED down
      /\ pending' = pending \/ pending' = [pending EXCEPT ![p] = @ \cup {e}]
      /\ IF call[d].aborted THEN Answer(d, "cancelled") ELSE call' = [call EXCEPT ![d].st = "pending"]
  BY <1>a, <1>b, <1>c DEF SendCall, swVars
<1>d. /\ UNCHANGED <<faults, held>>
      /\ pending' = pending \/ pending' = [pending EXCEPT ![p] = @ \cup {e}]
  BY <1>1
<1>2. /\ Keeps(g, k) /\ (Steady' <=> Steady)
      /\ counter'[p] = id /\ k[p][counter'[p]] = d
  <2>1. Keeps(g, k) /\ counter'[p] = counter[p] + 1 /\ k[p][counter'[p]] = d
    <3>1. p \in Procs /\ Gives(g, k, p, d) /\ ProcTypes
      BY <1>0 DEF Types
    <3> HIDE DEF p
    <3> QED  BY <3>1, GivesKeeps
  <2>2. Steady' <=> Steady
    BY <1>d DEF Steady
  <2> QED  BY <2>1, <2>2, <1>a
<1>3. id \in 1 .. N
  BY <1>0, <1>1, <1>a, Room DEF New, Types
<1>4. Gave(k, p, id, d)'
  BY <1>2, <1>3, NFacts DEF Gave
<1>5. out \in Seq(Messages) /\ \A m \in Range(out) : m.type = "call" => m.id = id /\ m.call = d
  <2>1. Call(id, d).id = id /\ Call(id, d).call = d /\ Cancel(id).type = "cancel"
    BY DEF Call, Cancel
  <2>2. CASE call[d].aborted
    BY <2>1, <2>2, <1>3, <1>c, CallAndCancel
  <2>3. CASE ~call[d].aborted
    BY <2>1, <2>3, <1>3, <1>c, OneCall
  <2> QED  BY <2>2, <2>3
<1>6. e.from = p /\ (Primary(p) => e.sid = 0)
  BY <1>b DEF Entry
<1> HIDE DEF e
<1>7. Range(down \o out) = Range(down) \cup Range(out) /\ Range(fwd[p] \o out) = Range(fwd[p]) \cup Range(out)
  BY <1>0, <1>5, ConcatRange
<1> HIDE DEF p
<1>8. Steady => Primary(First) /\ (Primary(p) => p = First)
  BY <1>0, SteadyFacts
<1>9. MoreWork(k) /\ MoreResults(k)
  BY <1>1 DEF MoreWork, MoreResults
<1>10. Steady => MoreMessages(k)
  <2>1. CASE Primary(p)
    <3>1. fwd' = fwd /\ Range(down') = Range(down) \cup Range(out)
      BY <2>1, <1>1, <1>7
    <3>2. \A m \in Range(out) : m.type = "call" => Gave(k, p, m.id, m.call)'
      BY <1>4, <1>5
    <3> QED  BY <3>1, <3>2, <2>1, <1>8 DEF MoreMessages
  <2>2. CASE ~Primary(p)
    <3>1. down' = down /\ \A q \in Procs : fwd'[q] = IF q = p THEN fwd[p] \o out ELSE fwd[q]
      BY <2>2, <1>0, <1>1
    <3>2. \A m \in Range(out) : m.type = "call" => Gave(k, p, m.id, m.call)'
      BY <1>4, <1>5
    <3> QED  BY <3>1, <3>2, <1>7 DEF MoreMessages
  <2> QED  BY <2>1, <2>2
<1>11. Steady => MoreWaits(k)
  <2> SUFFICES ASSUME Steady
               PROVE  MoreWaits(k)
    OBVIOUS
  <2>1. \A r \in pending'[First] : r \in pending[First] \/ (p = First /\ r = e)
    BY <1>0, <1>d
  <2>2. p = First => e.from = First /\ e.sid = 0
    BY <1>6, <1>8
  <2> QED  BY <2>1, <2>2, <1>1 DEF MoreWaits
<1>12. OwnAnswers'
  <2>1. \A c \in Calls : call'[c].answer = call[c].answer \/ call'[c].answer = "cancelled"
    <3>1. CASE call[d].aborted
      BY <3>1, <1>1, AnswerTypes DEF Types, Whats
    <3>2. CASE ~call[d].aborted
      <4>1. call[d] \in CallRecords /\ call'[d] = [call[d] EXCEPT !.st = "pending"]
            /\ \A c \in Calls : c # d => call'[c] = call[c]
        BY <3>2, <1>0, <1>1
      <4> QED  BY <4>1 DEF CallRecords
    <3> QED  BY <3>1, <3>2
  <2> QED  BY <2>1, <1>d, AnswersKept
<1>13. Steady' => Steady
  BY <1>2
<1> QED  BY <1>2, <1>9, <1>10, <1>11, <1>12, <1>13, MeantKept

(* A call for the extension bears the number that the primary gave it.      *)
LEMMA DispatchMeant ==
    ASSUME NEW p \in Procs, NEW from, NEW sid, NEW d \in Calls, Dispatch(p, from, sid, d),
           Types, Types', Links, Settled, Waiting, OwnAnswers,
           ext = p, Primary(p), New(p, d), from # p, UNCHANGED <<call, work, faults, up, back>>,
           \A q \in Procs : held'[q] \subseteq held[q] /\ Range(fwd'[q]) \subseteq Range(fwd[q]),
           NEW g \in [Procs -> Seq(Calls)], Numbered(g), Meant(g),
           Steady => from = NoProc \/ (from \in Procs /\ sid \in 1 .. N /\ Gave(g, from, sid, d)),
           NEW k, Gives(g, k, p, d)
    PROVE  Meant(k)' /\ OwnAnswers'
<1>a. PICK id : id = counter[p] + 1
  OBVIOUS
<1> DEFINE e == Entry(id, d, from, sid)
<1> DEFINE u == <<Call(id, d)>>
<1>1. /\ pending' = [pending EXCEPT ![p] = @ \cup {e}]
      /\ down' = down \o u
      /\ e.from = from /\ e.sid = sid /\ e.call = d
  BY <1>a DEF Dispatch, RelayId, ToExt, Entry
<1>2. Keeps(g, k) /\ counter'[p] = id /\ k[p][counter'[p]] = d
  BY <1>a, GivesKeeps DEF Types
<1>3. id \in 1 .. N
  BY <1>a, Room DEF Types
<1>4. Gave(k, p, id, d)'
  BY <1>2, <1>3, NFacts DEF Gave
<1>5. u \in Seq(Messages) /\ \A m \in Range(u) : m.id = id /\ m.call = d
  <2>1. Call(id, d).id = id /\ Call(id, d).call = d
    BY DEF Call
  <2> QED  BY <2>1, <1>3, OneCall
<1> HIDE DEF u, e
<1>6. Range(down') = Range(down) \cup Range(u)
  BY <1>1, <1>5, ConcatRange DEF Types, MessageTypes
<1>7. Steady => First = p
  BY SteadyFacts
<1>8. MoreWork(k) /\ MoreResults(k)
  BY DEF MoreWork, MoreResults
<1>9. Steady => MoreMessages(k)
  BY <1>4, <1>5, <1>6, <1>7 DEF MoreMessages
<1>10. Steady => MoreWaits(k)
  <2> SUFFICES ASSUME Steady
               PROVE  MoreWaits(k)
    OBVIOUS
  <2>1. \A r \in pending'[First] : r \in pending[First] \/ r = e
    BY <1>1, <1>7 DEF Types, WaitTypes
  <2>2. from # NoProc => Gave(k, from, sid, d)'
    BY <1>2, KeepsGave DEF Types
  <2>3. First \in Procs
    BY BridgeCallsAssumption
  <2> QED  BY <2>1, <2>2, <2>3, <1>1, <1>7 DEF MoreWaits
<1>11. OwnAnswers' /\ (Steady' => Steady)
  BY AnswersKept DEF Steady
<1> QED  BY <1>2, <1>8, <1>9, <1>10, <1>11, MeantKept

(* So does a relayed one; one that is held keeps the number of its process. *)
LEMMA RelayMeant ==
    ASSUME NEW p \in Procs, NEW s \in Procs, RelayCall(p, s), Types, Types', Links, Settled,
           Waiting, OwnAnswers, NEW g \in [Procs -> Seq(Calls)], Numbered(g), Meant(g),
           NEW k, Gives(g, k, p, Head(fwd[s]).call) \/ ext # p
    PROVE  IF ext = p THEN Meant(k)' /\ OwnAnswers' ELSE Meant(g)' /\ OwnAnswers'
<1>0. PICK m : m = Head(fwd[s])
  OBVIOUS
<1>1. /\ Primary(p) /\ s \in linked /\ fwd[s] # <<>> /\ m.type = "call"
      /\ fwd' = [fwd EXCEPT ![s] = Tail(fwd[s])]
      /\ UNCHANGED <<call, work, faults, up, back>>
  BY <1>0 DEF RelayCall, Shift, swVars
<1>2. fwd \in [Procs -> Seq(Messages)] /\ held \in [Procs -> SUBSET Holds]
  BY DEF Types, MessageTypes, WaitTypes
<1>3. m \in Messages /\ m \in Range(fwd[s]) /\ Range(Tail(fwd[s])) \subseteq Range(fwd[s])
  BY <1>0, <1>1, <1>2, TailRange
<1>4. m.id \in 1 .. N /\ m.call \in Calls
  BY <1>1, <1>3 DEF Messages
<1>5. \A q \in Procs : Range(fwd'[q]) \subseteq Range(fwd[q])
  BY <1>1, <1>2, <1>3
<1>6. Steady => Gave(g, s, m.id, m.call)
  BY <1>1, <1>3 DEF Meant, MeantMessages
<1>7. s # p
  BY <1>1 DEF Links, Primary
<1>8. CASE ext = p
  <2>1. Dispatch(p, s, m.id, m.call) /\ held' = held
    BY <1>0, <1>8 DEF RelayCall
  <2>2. New(p, m.call)
    <3>1. In(fwd[s], m.call)
      BY <1>1, <1>3 DEF In, Carries
    <3> QED  BY <3>1, <1>1 DEF IsFwd, New
  <2>3. \A q \in Procs : held'[q] \subseteq held[q]
    BY <2>1
  <2>4. Gives(g, k, p, m.call)
    BY <1>0, <1>8
  <2>5. Meant(k)' /\ OwnAnswers'
    BY <2>1, <2>2, <2>3, <2>4, <1>1, <1>4, <1>5, <1>6, <1>7, <1>8, DispatchMeant
  <2> QED  BY <2>5, <1>8
<1>9. CASE ext # p
  <2> DEFINE h == [call |-> m.call, from |-> s, sid |-> m.id]
  <2>1. held' = [held EXCEPT ![p] = @ \cup {h}] /\ UNCHANGED <<counter, pending, down>>
    BY <1>0, <1>9 DEF RelayCall
  <2>2. h.call = m.call /\ h.from = s /\ h.sid = m.id
    OBVIOUS
  <2> HIDE DEF h
  <2>3. Keeps(g, g) /\ (Steady' => Steady) /\ MoreWork(g) /\ MoreResults(g)
    BY <2>1, <1>1 DEF Keeps, Steady, MoreWork, MoreResults
  <2>4. MoreMessages(g)
    BY <2>1, <1>5 DEF MoreMessages
  <2>5. Gave(g, s, m.id, m.call) => Gave(g, s, m.id, m.call)'
    BY <2>1 DEF Gave
  <2>6. First \in Procs
    BY BridgeCallsAssumption
  <2>7. \A x \in held'[First] : x \in held[First] \/ x = h
    BY <2>1, <2>6, <1>2
  <2>8. Steady => MoreWaits(g)
    BY <2>1, <2>2, <2>5, <2>7, <1>6 DEF MoreWaits
  <2>9. OwnAnswers'
    BY <1>1, AnswersKept
  <2>10. Meant(g)'
    BY <2>3, <2>4, <2>8, MeantKept
  <2> QED  BY <2>9, <2>10, <1>9
<1> QED  BY <1>8, <1>9

(* A held call that goes on bears the number of the primary.                *)
LEMMA HeldMeant ==
    ASSUME NEW p \in Procs, NEW h \in held[p], HeldResumes(p, h) \/ HeldExpires(p, h),
           Types, Types', Links, Settled, Waiting, OwnAnswers, \A c \in Calls : Placed(c), Holding,
           NEW g \in [Procs -> Seq(Calls)], Numbered(g), Meant(g),
           NEW k, Gives(g, k, p, h.call) \/ ext # p
    PROVE  IF ext = p THEN Meant(k)' /\ OwnAnswers' ELSE Meant(g)' /\ OwnAnswers'
<1>0. held \in [Procs -> SUBSET Holds] /\ h \in Holds /\ back \in [Procs -> Seq(Results)]
  BY DEF Types, WaitTypes, MessageTypes
<1>1. h.call \in Calls /\ h.from \in Procs \cup {NoProc} /\ h.sid \in 1 .. N
  BY <1>0 DEF Holds
<1>2. Primary(p) /\ New(p, h.call) /\ h.from # p
  <2>1. Primary(p) /\ IsHeld(h.call) /\ Home[h.call] # p
    BY <1>1 DEF Links, IsHeld, HeldFor, Placed
  <2> QED  BY <2>1, BridgeCallsAssumption DEF New, Holding
<1>3. /\ UNCHANGED <<fwd, call, work, faults, up>> /\ held' = [held EXCEPT ![p] = @ \ {h}]
  BY DEF HeldResumes, HeldExpires, Unheld, linkVars, swVars, sockVars
<1>4. \A q \in Procs : held'[q] \subseteq held[q]
  BY <1>0, <1>3
<1>5. Steady => h.from = NoProc \/ Gave(g, h.from, h.sid, h.call)
  <2>1. Steady => p = First
    BY <1>2, SteadyFacts
  <2> QED  BY <2>1 DEF Meant, MeantWaits
<1>6. CASE ext = p
  <2>1. Dispatch(p, h.from, h.sid, h.call) /\ UNCHANGED back
    BY <1>6 DEF HeldResumes, HeldExpires, linkVars
  <2>2. \A q \in Procs : Range(fwd'[q]) \subseteq Range(fwd[q])
    BY <1>3
  <2>3. Meant(k)' /\ OwnAnswers'
    BY <2>1, <2>2, <1>1, <1>2, <1>3, <1>4, <1>5, <1>6, DispatchMeant
  <2> QED  BY <2>3, <1>6
<1>7. CASE ext # p
  <2> DEFINE e == Result(h.sid, "error")
  <2>1. /\ UNCHANGED <<counter, pending, down>>
        /\ back' = IF h.from \in linked THEN [back EXCEPT ![h.from] = Append(@, e)] ELSE back
    BY <1>7 DEF HeldResumes, HeldExpires, sockVars
  <2>2. e.id = h.sid /\ e.what = "error" /\ e \in Results
    BY <1>1 DEF Result, Results, Whats
  <2> HIDE DEF e
  <2>3. Keeps(g, g) /\ (Steady' => Steady) /\ MoreWork(g) /\ MoreMessages(g)
    BY <2>1, <1>3 DEF Keeps, Steady, MoreWork, MoreMessages
  <2>4. MoreWaits(g)
    BY <2>1, <1>4, BridgeCallsAssumption DEF MoreWaits
  <2>5. Steady => MoreResults(g)
    <3> SUFFICES ASSUME Steady, NEW q \in Procs, NEW m \in Range(back'[q]), m \notin Range(back[q])
                 PROVE  Answers(g, q, m)'
      BY <1>3 DEF MoreResults
    <3>1. h.from \in linked /\ back' = [back EXCEPT ![h.from] = Append(@, e)]
      BY <2>1
    <3>2. q = h.from /\ m \in Range(Append(back[q], e))
      BY <3>1, <1>0
    <3>3. m = e
      BY <3>2, <2>2, <1>0, AppendRange
    <3>4. h.from # NoProc
      BY <3>2, BridgeCallsAssumption
    <3> QED  BY <3>2, <3>3, <3>4, <2>1, <2>2, <1>5 DEF Gave, Answers
  <2>6. OwnAnswers'
    BY <1>3, AnswersKept
  <2>7. Meant(g)'
    BY <2>3, <2>4, <2>5, MeantKept
  <2> QED  BY <2>6, <2>7, <1>7
<1> QED  BY <1>6, <1>7

(* The extension works and answers under the number of the call.            *)
LEMMA ExtensionMeant ==
    ASSUME \/ Register \/ CancelWork \/ Drop \/ KillWorker
           \/ \E c \in Calls : Begin(c) \/ Finish(c) \/ Deadline(c)
           \/ \E p \in Procs : Connect(p),
           Types, Types', Waiting, OwnAnswers, NEW g, Meant(g)
    PROVE  Meant(g)' /\ OwnAnswers'
<1>0. /\ down \in Seq(Messages) /\ up \in Seq(Results) /\ work \in [Calls -> WorkRecords]
      /\ First \in Procs /\ faults.lost \in BOOLEAN
  BY BridgeCallsAssumption DEF Types, MessageTypes, WorkTypes, ProcTypes
<1>1. /\ UNCHANGED <<counter, pending, held, fwd, back, call>>
      /\ UNCHANGED faults \/ (faults'.crash = faults.crash /\ faults'.lost)
  <2>1. CASE Drop \/ KillWorker
    <3>1. faults'.crash = faults.crash /\ faults'.lost
      BY <2>1 DEF Drop, KillWorker, Types, ProcTypes
    <3> QED  BY <2>1, <3>1 DEF Drop, KillWorker, bridgeVars, linkVars
  <2>2. CASE ~(Drop \/ KillWorker)
    BY <2>2 DEF Register, CancelWork, Begin, Finish, Deadline, Connect, bridgeVars, linkVars
  <2> QED  BY <2>1, <2>2
<1>2. Keeps(g, g) /\ (Steady' => Steady) /\ MoreWaits(g)
  BY <1>0, <1>1 DEF Keeps, Steady, MoreWaits
<1>3. OwnAnswers'
  BY <1>1, AnswersKept
<1>4. CASE Register
  <2>0. PICK m : m = Head(down)
    OBVIOUS
  <2> DEFINE w == [st |-> "queued", id |-> m.id, aborted |-> FALSE]
  <2>1. /\ down # <<>> /\ m.type = "call" /\ down' = Tail(down) /\ UNCHANGED up
        /\ work' = [work EXCEPT ![m.call] = w] /\ w.id = m.id
    BY <1>4, <2>0 DEF Register
  <2> HIDE DEF w
  <2>2. m \in Messages /\ m \in Range(down) /\ Range(Tail(down)) \subseteq Range(down)
    BY <1>0, <2>0, <2>1, TailRange
  <2>3. m.call \in Calls
    BY <2>1, <2>2 DEF Messages
  <2>4. MoreMessages(g) /\ MoreResults(g)
    BY <2>1, <2>2, <1>1 DEF MoreMessages, MoreResults
  <2>5. Steady => MoreWork(g)
    <3> SUFFICES ASSUME Steady, NEW c \in Calls, work'[c].st # "none",
                        ~(work[c].st # "none" /\ work'[c].id = work[c].id)
                 PROVE  Gave(g, First, work[c].id, c)'
      BY DEF MoreWork
    <3>1. c = m.call /\ work'[c] = w
      BY <2>1, <2>3, <1>0
    <3>2. Gave(g, First, m.id, c)
      BY <3>1, <2>1, <2>2 DEF Meant, MeantMessages
    <3> QED  BY <3>1, <3>2, <2>1, <1>1 DEF Gave
  <2> QED  BY <2>4, <2>5, <1>2, <1>3, MeantKept
<1>5. CASE \E c \in Calls : Finish(c)
  <2>1. PICK d \in Calls : Finish(d)
    BY <1>5
  <2>2. PICK what : /\ what \in {d, "cancelled"}
                    /\ up' = IF ext = NoProc THEN up ELSE Append(up, Result(work[d].id, what))
    BY <2>1 DEF Finish
  <2>3. /\ work[d].st # "none" /\ down' = down
        /\ work' = [work EXCEPT ![d].st = "over"]
    BY <2>1 DEF Finish
  <2>4. work[d].id \in 1 .. N
    <3>1. work[d] \in WorkRecords /\ work[d].id # 0
      BY <2>3 DEF Types, WorkTypes
    <3>2. work[d].id \in 0 .. N
      BY <3>1 DEF WorkRecords
    <3> QED  BY <3>1, <3>2, NFacts
  <2>5. PICK e : e = Result(work[d].id, what)
    OBVIOUS
  <2>6. e.id = work[d].id /\ e.what = what /\ e \in Results
    BY <2>2, <2>4, <2>5 DEF Result, Results, Whats
  <2>7. MoreMessages(g) /\ MoreWork(g)
    <3>1. \A c \in Calls : work'[c].st # "none" => work[c].st # "none" /\ work'[c].id = work[c].id
      BY <2>3, <1>0 DEF WorkRecords
    <3> QED  BY <3>1, <2>3, <1>1 DEF MoreMessages, MoreWork
  <2>8. Range(up') \subseteq Range(up) \cup {e}
    BY <2>2, <2>5, <2>6, <1>0, AppendRange
  <2>9. Steady => Answers(g, First, e)'
    <3>1. Steady => Gave(g, First, work[d].id, d)
      BY <2>3 DEF Meant, MeantWork
    <3> QED  BY <3>1, <2>2, <2>6, <1>1 DEF Gave, Answers
  <2>10. Steady => MoreResults(g)
    BY <2>8, <2>9, <1>1 DEF MoreResults
  <2> QED  BY <2>7, <2>10, <1>2, <1>3, MeantKept
<1>6. CASE ~(Register \/ \E c \in Calls : Finish(c))
  <2>1. down' = down \/ down' = <<>> \/ (down # <<>> /\ down' = Tail(down))
    BY <1>6 DEF CancelWork, Drop, KillWorker, Begin, Deadline, Connect, Silent, sockVars
  <2>2. up' = up \/ up' = <<>>
    BY <1>6 DEF CancelWork, Drop, KillWorker, Begin, Deadline, Connect, Silent, sockVars
  <2>3. \A c \in Calls : work'[c].st # "none" => work[c].st # "none" /\ work'[c].id = work[c].id
    <3>1. CASE CancelWork
      <4>1. PICK d, b : work' = work \/ work' = [work EXCEPT ![d].aborted = b]
        BY <3>1 DEF CancelWork
      <4>2. \A c \in Calls : work'[c] = work[c] \/ work'[c] = [work[c] EXCEPT !.aborted = b]
        BY <4>1, <1>0
      <4>3. \A c \in Calls : work[c] \in WorkRecords
        BY <1>0
      <4>4. \A w \in WorkRecords : /\ [w EXCEPT !.aborted = b].st = w.st
                                   /\ [w EXCEPT !.aborted = b].id = w.id
        BY DEF WorkRecords
      <4> QED  BY <4>2, <4>3, <4>4
    <3>2. CASE \E c \in Calls : Begin(c)
      <4>1. PICK c \in Calls : work[c].st = "queued" /\ work' = [work EXCEPT ![c].st = "running"]
        BY <3>2 DEF Begin
      <4> QED  BY <4>1, <1>0 DEF WorkRecords
    <3>3. CASE \E c \in Calls : Deadline(c)
      <4>1. PICK c \in Calls : work' = [work EXCEPT ![c].aborted = TRUE]
        BY <3>3 DEF Deadline
      <4> QED  BY <4>1, <1>0 DEF WorkRecords
    <3>4. CASE KillWorker
      BY <3>4 DEF KillWorker, NoWork
    <3>5. CASE Drop \/ \E p \in Procs : Connect(p)
      BY <3>5 DEF Drop, Connect, swVars
    <3> QED  BY <3>1, <3>2, <3>3, <3>4, <3>5, <1>6
  <2>4. NoMore(down, down') /\ Range(up') \subseteq Range(up)
    <3>1. Range(<<>>) = {}
      BY DEF Range
    <3> QED  BY <3>1, <2>1, <2>2, <1>0, NoMoreFacts
  <2>5. MoreMessages(g) /\ MoreResults(g) /\ MoreWork(g)
    BY <2>3, <2>4, <1>1 DEF MoreMessages, MoreResults, MoreWork, NoMore
  <2> QED  BY <2>5, <1>2, <1>3, MeantKept
<1> QED  BY <1>4, <1>5, <1>6

(* Recoveries say nothing new of ids.                                       *)
LEMMA FaultMeant ==
    ASSUME NEW p \in Procs, Join(p) \/ RecoveryExpires(p),
           Types, Types', Waiting, OwnAnswers, NEW g, Meant(g)
    PROVE  Meant(g)' /\ OwnAnswers'
<1>0. pending \in [Procs -> SUBSET Entries] /\ call \in [Calls -> CallRecords] /\ First \in Procs
  BY BridgeCallsAssumption DEF Types, WaitTypes, WorkTypes
<1>1. UNCHANGED <<counter, held, fwd, back, down, up, work, faults>>
  BY DEF Join, RecoveryExpires, bridgeVars, linkVars, sockVars, swVars
<1>2. \A q \in Procs : pending'[q] \subseteq pending[q]
  <2>1. pending' = pending \/ pending' = [pending EXCEPT ![p] = {}]
    BY DEF Join, RecoveryExpires
  <2> QED  BY <2>1, <1>0
<1>3. Keeps(g, g) /\ (Steady' => Steady) /\ MoreMessages(g) /\ MoreResults(g) /\ MoreWork(g)
  BY <1>1 DEF Keeps, Steady, MoreMessages, MoreResults, MoreWork
<1>4. MoreWaits(g)
  BY <1>0, <1>1, <1>2 DEF MoreWaits
<1>5. \A c \in Calls : call'[c].answer = call[c].answer \/ call'[c].answer = "error"
  <2> TAKE c \in Calls
  <2>1. call[c] \in CallRecords
    BY <1>0
  <2>2. [call[c] EXCEPT !.st = "done", !.answer = "error"].answer = "error"
    BY <2>1 DEF CallRecords
  <2>3. call'[c] = call[c] \/ call'[c] = [call[c] EXCEPT !.st = "done", !.answer = "error"]
    BY DEF Join, RecoveryExpires
  <2> QED  BY <2>2, <2>3
<1>6. OwnAnswers'
  BY <1>1, <1>5, AnswersKept
<1> QED  BY <1>3, <1>4, <1>6, MeantKept

\* The primary and the socket outlive a process that dies while no socket is lost.
LEMMA SteadyCrash ==
    ASSUME NEW p \in Procs, Crash(p), Types, Links, Settled, Steady'
    PROVE  /\ ~faults.lost /\ ~faults'.lost /\ Steady
           /\ p # First /\ p \in linked /\ ~Primary(p) /\ ext = First /\ First \in Procs
           /\ held[First] = {} /\ ThePrimary = First
<1>1. /\ faults'.crash # 0 /\ faults'.lost = (faults.lost \/ ext = p)
      /\ faults.lost \in BOOLEAN
  BY DEF Crash, Types, ProcTypes
<1>2. ~faults.lost /\ ~faults'.lost /\ ext # p /\ Steady
  BY <1>1 DEF Steady
<1>3. Primary(First) /\ ext = First /\ First \in Procs /\ held[First] = {}
      /\ \A q \in Procs : Primary(q) => q = First
  BY <1>2, BridgeCallsAssumption DEF Settled, Links
<1>4. p # First /\ ~Primary(p)
  BY <1>2, <1>3
<1>5. role[p] = "proxy" /\ p \in linked
  BY <1>2, <1>4 DEF Crash, Types, ProcTypes, Primary, Settled
<1>6. ThePrimary = First
  BY <1>3 DEF ThePrimary
<1> QED  BY <1>2, <1>3, <1>4, <1>5, <1>6

(* What is left of a dead process is not in the way: its numbers are in no  *)
(* channel.                                                                 *)
LEMMA CrashMeant ==
    ASSUME NEW p \in Procs, Crash(p), Types, Types', Links, Settled, OwnAnswers, Waiting,
           NEW g \in [Procs -> Seq(Calls)], Meant(g),
           NEW k, \A q \in Procs : q # p => counter'[q] = counter[q] /\ k[q] = g[q]
    PROVE  Meant(k)' /\ OwnAnswers'
<1>1. OwnAnswers'
  <2>1. faults'.crash # 0
    BY DEF Crash, Types, ProcTypes
  <2> QED  BY <2>1 DEF OwnAnswers
<1>2. ASSUME Steady'
      PROVE  (MeantMessages(k) /\ MeantWaits(k) /\ MeantWork(k) /\ MeantResults(k))'
  <2>0. /\ ~faults.lost /\ ~faults'.lost /\ Steady
        /\ p # First /\ p \in linked /\ ~Primary(p) /\ ext = First /\ First \in Procs
        /\ held[First] = {} /\ ThePrimary = First
    BY <1>2, SteadyCrash
  <2>1. /\ fwd \in [Procs -> Seq(Messages)] /\ back \in [Procs -> Seq(Results)]
        /\ down \in Seq(Messages) /\ pending \in [Procs -> SUBSET Entries]
        /\ held \in [Procs -> SUBSET Holds]
    BY DEF Types, MessageTypes, WaitTypes
  <2> DEFINE o == Orphans(First, p)
  <2> DEFINE x == SetToSeq({Cancel(r.id) : r \in o})
  <2>2. /\ UNCHANGED <<work, up>>
        /\ fwd' = [fwd EXCEPT ![p] = <<>>] /\ back' = [back EXCEPT ![p] = <<>>]
        /\ pending' = [pending EXCEPT ![p] = {}, ![First] = @ \ o]
        /\ down' = down \o x
    BY <2>0 DEF Crash, ToExt, swVars
  <2>3. held'[First] = {}
    <3>1. held' = [held EXCEPT ![First] = {[h EXCEPT !.from = IF @ = p THEN NoProc ELSE @] : h \in @}]
      BY <2>0 DEF Crash
    <3> QED  BY <3>1, <2>0, <2>1
  <2>4. \A r \in pending'[First] : r \in pending[First] /\ r.from # p
    <3>1. pending'[First] = pending[First] \ o
      BY <2>0, <2>1, <2>2
    <3> QED  BY <3>1, <2>0 DEF Orphans, Relayed
  <2>5. NoMore(down, down')
    <3>1. IsFiniteSet(o) /\ \A r \in o : r.id \in 1 .. N
      <4>1. IsFiniteSet(pending[First]) /\ o \subseteq pending[First]
        BY <2>0 DEF Types, WaitTypes, Orphans
      <4> QED  BY <4>1, <2>0, <2>1, FS_Subset DEF Entries
    <3> HIDE DEF o
    <3>2. Quiet(x)
      BY <3>1, QuietSets
    <3> HIDE DEF x
    <3> QED  BY <3>2, <2>1, <2>2, NoMoreFacts
  <2>6. \A q \in Procs : fwd'[q] = <<>> \/ (q # p /\ fwd'[q] = fwd[q])
    BY <2>1, <2>2
  <2>7. \A q \in Procs : back'[q] = <<>> \/ (q # p /\ back'[q] = back[q])
    BY <2>1, <2>2
  <2>8. \A q \in Procs : q # p => /\ \A id, c : Gave(g, q, id, c) => Gave(k, q, id, c)'
                                  /\ \A m : Answers(g, q, m) => Answers(k, q, m)'
    BY DEF Gave, Answers
  <2>9. Range(<<>>) = {}
    BY DEF Range
  <2>10. MeantMessages(g) /\ MeantWaits(g) /\ MeantWork(g) /\ MeantResults(g)
    BY <2>0 DEF Meant
  <2> HIDE DEF o, x
  <2>11. MeantMessages(k)'
    <3>1. ASSUME NEW q \in Procs, NEW m \in Range(fwd'[q]), m.type = "call"
          PROVE  Gave(k, q, m.id, m.call)'
      <4>1. q # p /\ m \in Range(fwd[q])
        BY <3>1, <2>6, <2>9
      <4> QED  BY <4>1, <3>1, <2>8, <2>10 DEF MeantMessages
    <3>2. ASSUME NEW m \in Range(down'), m.type = "call"
          PROVE  Gave(k, First, m.id, m.call)'
      <4>1. m \in Range(down)
        BY <3>2, <2>5 DEF NoMore
      <4> QED  BY <4>1, <3>2, <2>0, <2>8, <2>10 DEF MeantMessages
    <3> QED  BY <3>1, <3>2 DEF MeantMessages
  <2>12. MeantWaits(k)'
    <3>1. ASSUME NEW r \in pending'[First]
          PROVE  /\ r.from = First => r.sid = 0
                 /\ r.from \notin {First, NoProc} => Gave(k, r.from, r.sid, r.call)'
      <4>1. r \in pending[First] /\ r.from # p
        BY <2>4
      <4>2. r.from \in Procs \cup {NoProc}
        BY <4>1, <2>0, <2>1 DEF Entries
      <4> QED  BY <4>1, <4>2, <2>8, <2>10 DEF MeantWaits
    <3> QED  BY <3>1, <2>3 DEF MeantWaits
  <2>13. MeantWork(k)'
    <3> SUFFICES ASSUME NEW c \in Calls, work'[c].st # "none"
                 PROVE  Gave(k, First, work[c].id, c)'
      BY DEF MeantWork
    <3>1. Gave(g, First, work[c].id, c)
      BY <2>2, <2>10 DEF MeantWork
    <3> QED  BY <3>1, <2>0, <2>2 DEF Gave
  <2>14. MeantResults(k)'
    <3>1. ASSUME NEW m \in Range(up')
          PROVE  Answers(k, First, m)'
      BY <3>1, <2>0, <2>2, <2>8, <2>10 DEF MeantResults
    <3>2. ASSUME NEW q \in Procs, NEW m \in Range(back'[q])
          PROVE  Answers(k, q, m)'
      <4>1. q # p /\ m \in Range(back[q])
        BY <3>2, <2>7, <2>9
      <4> QED  BY <4>1, <2>8, <2>10 DEF MeantResults
    <3> QED  BY <3>1, <3>2 DEF MeantResults
  <2> QED  BY <2>11, <2>12, <2>13, <2>14
<1> QED  BY <1>1, <1>2 DEF Meant

-----------------------------------------------------------------------------
(* Every step keeps the consistent part of the invariant.                  *)

(* A call is sent.                                                          *)
LEMMA SendCore ==
    ASSUME NEW d \in Calls, SendCall(d), NEW g, Core(g),
           NEW k, k = [g EXCEPT ![Home[d]] = Append(@, d)]
    PROVE  Gives(g, k, Home[d], d) /\ Core(k)'
<1>1. /\ Types /\ Links /\ Settled /\ \A c \in Calls : Placed(c)
      /\ Waiting /\ Holding /\ OwnAnswers
      /\ g \in [Procs -> Seq(Calls)] /\ Numbered(g) /\ Meant(g)
  BY DEF Core
<1>2. Home[d] \in Procs /\ New(Home[d], d) /\ ProcTypes
  BY <1>1, BridgeCallsAssumption DEF SendCall, New, Types
<1>3. counter[Home[d]] + 1 \in 1 .. N
  BY <1>1, <1>2, Room
<1>4. Types'
  BY <1>1, <1>3, SendTypes
<1>5. Gives(g, k, Home[d], d) /\ Numbered(k)'
  BY <1>1, SendNumbered
<1>6. k \in [Procs -> Seq(Calls)]
  BY <1>1, <1>2, <1>5, GivesKeeps
<1>7. Links' /\ Settled'
  BY <1>1, CallLinks
<1>8. \A c \in Calls : Placed(c)'
  BY <1>1, <1>3, SendPlaced
<1>9. Waiting'
  BY <1>1, SendWaiting
<1>10. Holding'
  <2>1. held' = held
    BY DEF SendCall
  <2> QED  BY <2>1, <1>1, HoldingFrame
<1>11. Meant(k)' /\ OwnAnswers'
  BY <1>1, <1>4, <1>5, SendMeant
<1> QED  BY <1>4, <1>5, <1>6, <1>7, <1>8, <1>9, <1>10, <1>11 DEF Core

(* The primary takes a call from a link.                                    *)
LEMMA RelayCore ==
    ASSUME NEW p \in Procs, NEW s \in Procs, RelayCall(p, s), NEW g, Core(g),
           NEW k, k = [g EXCEPT ![p] = Append(@, Head(fwd[s]).call)]
    PROVE  IF ext = p THEN Gives(g, k, p, Head(fwd[s]).call) /\ Core(k)'
           ELSE UNCHANGED counter /\ Core(g)'
<1>1. /\ Types /\ Links /\ Settled /\ \A c \in Calls : Placed(c)
      /\ Waiting /\ Holding /\ OwnAnswers
      /\ g \in [Procs -> Seq(Calls)] /\ Numbered(g) /\ Meant(g)
  BY DEF Core
<1>2. PICK d : d = Head(fwd[s]).call
  OBVIOUS
<1>3. Primary(p) /\ d \in Calls /\ New(p, d) /\ ProcTypes
  BY <1>1, <1>2, RelayOpen DEF RelayCall, New, Open, Types
<1>4. counter[p] + 1 \in 1 .. N
  BY <1>1, <1>3, Room
<1>5. Types'
  BY <1>1, <1>4, RelayTypes
<1>6. Links' /\ Settled'
  BY <1>1, ServerLinks
<1>7. \A c \in Calls : Placed(c)'
  BY <1>1, <1>4, RelayPlaced
<1>8. Waiting'
  BY <1>1, RelayWaiting
<1>9. Holding'
  BY <1>1, RelayHolding
<1>10. CASE ext = p
  <2>1. Gives(g, k, p, Head(fwd[s]).call) /\ Numbered(k)'
    BY <1>1, <1>7, <1>10, RelayNumbered
  <2>2. k \in [Procs -> Seq(Calls)]
    BY <1>1, <1>2, <1>3, <2>1, GivesKeeps
  <2>3. Meant(k)' /\ OwnAnswers'
    BY <1>1, <1>5, <1>10, <2>1, RelayMeant
  <2> QED  BY <1>5, <1>6, <1>7, <1>8, <1>9, <1>10, <2>1, <2>2, <2>3 DEF Core
<1>11. CASE ext # p
  <2>1. UNCHANGED counter /\ Numbered(g)'
    BY <1>1, <1>7, <1>11, RelayNumbered
  <2>2. Meant(g)' /\ OwnAnswers'
    BY <1>1, <1>5, <1>11, <1>2, RelayMeant
  <2> QED  BY <1>1, <1>5, <1>6, <1>7, <1>8, <1>9, <1>11, <2>1, <2>2 DEF Core
<1> QED  BY <1>10, <1>11

(* A held call goes on or expires.                                          *)
LEMMA HeldCore ==
    ASSUME NEW p \in Procs, NEW h \in held[p], HeldResumes(p, h) \/ HeldExpires(p, h),
           NEW g, Core(g), NEW k, k = [g EXCEPT ![p] = Append(@, h.call)]
    PROVE  IF ext = p THEN Gives(g, k, p, h.call) /\ Core(k)' ELSE UNCHANGED counter /\ Core(g)'
<1>1. /\ Types /\ Links /\ Settled /\ \A c \in Calls : Placed(c)
      /\ Waiting /\ Holding /\ OwnAnswers
      /\ g \in [Procs -> Seq(Calls)] /\ Numbered(g) /\ Meant(g)
  BY DEF Core
<1>2. h.call \in Calls /\ New(p, h.call) /\ ProcTypes
  <2>1. h.call \in Calls
    BY <1>1 DEF Types, WaitTypes, Holds
  <2> QED  BY <1>1, <2>1 DEF New, IsHeld, HeldFor, Links, Types
<1>3. counter[p] + 1 \in 1 .. N
  BY <1>1, <1>2, Room
<1>4. Types'
  BY <1>1, <1>3, HeldTypes
<1>5. Links' /\ Settled'
  BY <1>1, ServerLinks
<1>6. \A c \in Calls : Placed(c)'
  BY <1>1, <1>3, HeldPlaced
<1>7. Waiting'
  BY <1>1, RelayWaiting
<1>8. Holding'
  BY <1>1, HeldHolding
<1>9. CASE ext = p
  <2>1. Gives(g, k, p, h.call) /\ Numbered(k)'
    BY <1>1, <1>6, <1>9, HeldNumbered
  <2>2. k \in [Procs -> Seq(Calls)]
    BY <1>1, <1>2, <2>1, GivesKeeps
  <2>3. Meant(k)' /\ OwnAnswers'
    BY <1>1, <1>4, <1>9, <2>1, HeldMeant
  <2> QED  BY <1>4, <1>5, <1>6, <1>7, <1>8, <1>9, <2>1, <2>2, <2>3 DEF Core
<1>10. CASE ext # p
  <2>1. UNCHANGED counter /\ Numbered(g)'
    BY <1>1, <1>6, <1>10, HeldNumbered
  <2>2. Meant(g)' /\ OwnAnswers'
    BY <1>1, <1>4, <1>10, HeldMeant
  <2> QED  BY <1>1, <1>4, <1>5, <1>6, <1>7, <1>8, <1>10, <2>1, <2>2 DEF Core
<1> QED  BY <1>9, <1>10

(* A client waits, gives up or cancels.                                     *)
LEMMA ClientCore ==
    ASSUME NEW d \in Calls, Wait(d) \/ GiveUp(d) \/ ClientCancels(d), NEW g, Core(g)
    PROVE  UNCHANGED counter /\ Core(g)'
<1>1. /\ Types /\ Links /\ Settled /\ \A c \in Calls : Placed(c)
      /\ Waiting /\ Holding /\ OwnAnswers
      /\ g \in [Procs -> Seq(Calls)] /\ Numbered(g) /\ Meant(g)
  BY DEF Core
<1>2. Types'
  BY <1>1, ClientTypes
<1>3. Links' /\ Settled'
  BY <1>1, CallLinks
<1>4. \A c \in Calls : Placed(c)'
  BY <1>1, ClientPlaced
<1>5. Waiting'
  BY <1>1, ClientWaiting
<1>6. Holding'
  <2>1. held' = held
    BY DEF Wait, GiveUp, ClientCancels, bridgeVars
  <2> QED  BY <2>1, <1>1, HoldingFrame
<1>7. UNCHANGED counter /\ Numbered(g)'
  BY <1>1, ClientNumbered
<1>8. Meant(g)' /\ OwnAnswers'
  BY <1>1, <1>2, ClientMeant
<1> QED  BY <1>1, <1>2, <1>3, <1>4, <1>5, <1>6, <1>7, <1>8 DEF Core

(* A result, a timeout or a relayed cancellation.                           *)
LEMMA ServerCore ==
    ASSUME NEW p \in Procs,
           \/ TakeResult(p) \/ TakeRelayed(p)
           \/ \E s \in Procs : RelayCancel(p, s)
           \/ \E r \in pending[p] : Timeout(p, r),
           NEW g, Core(g)
    PROVE  UNCHANGED counter /\ Core(g)'
<1>1. /\ Types /\ Links /\ Settled /\ \A c \in Calls : Placed(c)
      /\ Waiting /\ Holding /\ OwnAnswers
      /\ g \in [Procs -> Seq(Calls)] /\ Numbered(g) /\ Meant(g)
  BY DEF Core
<1>2. Types'
  <2>1. CASE TakeResult(p) \/ TakeRelayed(p)
    BY <2>1, <1>1, TakeTypes
  <2>2. CASE \E s \in Procs : RelayCancel(p, s)
    <3>1. PICK s \in Procs : RelayCancel(p, s)
      BY <2>2
    <3>2. ~RelayCall(p, s)
      BY <3>1 DEF RelayCall, RelayCancel
    <3> QED  BY <3>1, <3>2, <1>1, RelayTypes
  <2>3. CASE \E r \in pending[p] : Timeout(p, r)
    BY <2>3, <1>1, TimeoutTypes
  <2> QED  BY <2>1, <2>2, <2>3
<1>3. Links' /\ Settled'
  BY <1>1, ServerLinks
<1>4. \A c \in Calls : Placed(c)'
  BY <1>1, ServerPlaced
<1>5. Waiting'
  BY <1>1, ServerWaiting
<1>6. Holding'
  <2>1. held' = held
    BY DEF TakeResult, TakeRelayed, RelayCancel, Timeout, bridgeVars
  <2> QED  BY <2>1, <1>1, HoldingFrame
<1>7. UNCHANGED counter /\ Numbered(g)'
  BY <1>1, ServerNumbered
<1>8. Meant(g)' /\ OwnAnswers'
  BY <1>1, <1>2, ServerMeant
<1> QED  BY <1>1, <1>2, <1>3, <1>4, <1>5, <1>6, <1>7, <1>8 DEF Core

(* The extension registers, cancels, begins or ends a call.                 *)
LEMMA ExtensionCore ==
    ASSUME Register \/ CancelWork \/ \E c \in Calls : Begin(c) \/ Finish(c) \/ Deadline(c),
           NEW g, Core(g)
    PROVE  UNCHANGED counter /\ Core(g)'
<1>1. /\ Types /\ Links /\ Settled /\ \A c \in Calls : Placed(c)
      /\ Waiting /\ Holding /\ OwnAnswers
      /\ g \in [Procs -> Seq(Calls)] /\ Numbered(g) /\ Meant(g)
  BY DEF Core
<1>2. Types'
  BY <1>1, ExtensionTypes
<1>3. Links' /\ Settled'
  BY <1>1, ExtensionLinks
<1>4. \A c \in Calls : Placed(c)'
  <2>1. CASE Register
    BY <2>1, <1>1, RegisterPlaced
  <2>2. CASE \E c \in Calls : Begin(c)
    BY <2>2, <1>1, BeginPlaced
  <2>3. CASE CancelWork \/ \E c \in Calls : Finish(c) \/ Deadline(c)
    BY <2>3, <1>1, ExtensionPlaced
  <2> QED  BY <2>1, <2>2, <2>3
<1>5. Waiting'
  BY <1>1, ExtensionWaiting
<1>6. Holding'
  <2>1. held' = held
    BY DEF Register, CancelWork, Begin, Finish, Deadline, bridgeVars
  <2> QED  BY <2>1, <1>1, HoldingFrame
<1>7. UNCHANGED counter /\ Numbered(g)'
  BY <1>1, ExtensionNumbered
<1>8. Meant(g)' /\ OwnAnswers'
  BY <1>1, <1>2, ExtensionMeant
<1> QED  BY <1>1, <1>2, <1>3, <1>4, <1>5, <1>6, <1>7, <1>8 DEF Core

(* The socket drops or opens, the worker is killed, a process joins or      *)
(* gives up.                                                                *)
LEMMA FaultCore ==
    ASSUME Drop \/ KillWorker \/ \E p \in Procs : Connect(p) \/ Join(p) \/ RecoveryExpires(p),
           NEW g, Core(g)
    PROVE  UNCHANGED counter /\ Core(g)'
<1>1. /\ Types /\ Links /\ Settled /\ \A c \in Calls : Placed(c)
      /\ Waiting /\ Holding /\ OwnAnswers
      /\ g \in [Procs -> Seq(Calls)] /\ Numbered(g) /\ Meant(g)
  BY DEF Core
<1>2. Types'
  BY <1>1, FaultTypes
<1>3. Links' /\ Settled'
  BY <1>1, FaultLinks
<1>4. \A c \in Calls : Placed(c)'
  BY <1>1, FaultPlaced
<1>5. Holding'
  <2>1. held' = held
    BY DEF Drop, KillWorker, Connect, Join, RecoveryExpires, bridgeVars
  <2> QED  BY <2>1, <1>1, HoldingFrame
<1>6. CASE Drop \/ KillWorker \/ \E p \in Procs : Connect(p)
  <2>1. Waiting'
    BY <1>1, <1>6, ExtensionWaiting
  <2>2. UNCHANGED counter /\ Numbered(g)'
    BY <1>1, <1>6, ExtensionNumbered
  <2>3. Meant(g)' /\ OwnAnswers'
    BY <1>1, <1>2, <1>6, ExtensionMeant
  <2> QED  BY <1>1, <1>2, <1>3, <1>4, <1>5, <2>1, <2>2, <2>3 DEF Core
<1>7. CASE \E p \in Procs : Join(p) \/ RecoveryExpires(p)
  <2>1. Waiting'
    BY <1>1, <1>7, FaultWaiting
  <2>2. UNCHANGED counter /\ Numbered(g)'
    BY <1>1, <1>7, FaultNumbered
  <2>3. Meant(g)' /\ OwnAnswers'
    BY <1>1, <1>2, <1>7, FaultMeant
  <2> QED  BY <1>1, <1>2, <1>3, <1>4, <1>5, <2>1, <2>2, <2>3 DEF Core
<1> QED  BY <1>6, <1>7

(* A process dies.                                                          *)
LEMMA CrashCore ==
    ASSUME NEW p \in Procs, Crash(p), NEW g, Core(g), NEW k, k = [g EXCEPT ![p] = <<>>]
    PROVE  /\ \A q \in Procs : q # p => counter'[q] = counter[q] /\ k[q] = g[q]
           /\ Core(k)'
<1>1. /\ Types /\ Links /\ Settled /\ \A c \in Calls : Placed(c)
      /\ Waiting /\ Holding /\ OwnAnswers
      /\ g \in [Procs -> Seq(Calls)] /\ Numbered(g) /\ Meant(g)
  BY DEF Core
<1>2. Types'
  BY <1>1, CrashTypes
<1>3. Links' /\ Settled'
  BY <1>1, CrashLinks
<1>4. \A c \in Calls : Placed(c)'
  BY <1>1, CrashPlaced
<1>5. Waiting'
  BY <1>1, CrashWaiting
<1>6. Holding'
  BY <1>1, CrashHolding
<1>7. /\ k \in [Procs -> Seq(Calls)] /\ Numbered(k)'
      /\ \A q \in Procs : q # p => counter'[q] = counter[q] /\ k[q] = g[q]
  BY <1>1, CrashNumbered
<1>8. Meant(k)' /\ OwnAnswers'
  BY <1>1, <1>2, <1>7, CrashMeant
<1> QED  BY <1>2, <1>3, <1>4, <1>5, <1>6, <1>7, <1>8 DEF Core

(* Nothing happens.                                                         *)
LEMMA StutterCore ==
    ASSUME UNCHANGED vars, NEW g, Core(g)
    PROVE  Core(g)'
<1>1. /\ role' = role /\ linked' = linked /\ counter' = counter /\ held' = held
      /\ pending' = pending /\ fwd' = fwd /\ back' = back /\ ext' = ext /\ down' = down
      /\ up' = up /\ work' = work /\ registry' = registry /\ begun' = begun
      /\ call' = call /\ faults' = faults
  BY DEF vars, bridgeVars, linkVars, sockVars, swVars
<1>2. Types'
  BY <1>1 DEF Core, Types, ProcTypes, WaitTypes, MessageTypes, WorkTypes
<1>3. Links' /\ Settled'
  BY <1>1 DEF Core, Links, Settled, Steady, NoPrimary, Primary
<1>4. ASSUME NEW c \in Calls
      PROVE  Placed(c)'
  BY <1>1, <1>4 DEF Core, Placed, IsFwd, IsHeld, HeldFor, In, Once
<1>5. Waiting' /\ Holding' /\ OwnAnswers'
  BY <1>1 DEF Core, Waiting, Holding, OwnAnswers, Primary
<1>6. Numbered(g)'
  BY <1>1 DEF Core, Numbered, Primary, IsFwd, IsHeld, HeldFor, In
<1>7. Meant(g)'
  BY <1>1
  DEF Core, Meant, Steady, MeantMessages, MeantWaits, MeantWork, MeantResults, Gave, Answers
<1> QED  BY <1>2, <1>3, <1>4, <1>5, <1>6, <1>7 DEF Core

-----------------------------------------------------------------------------
(* While the socket has never closed, whatever nobody waits for is stopped. *)

(* The process with the socket and the meaning of the ids, meanwhile.       *)
LEMMA CalmFacts ==
    ASSUME NEW g, Core(g), ~faults.lost
    PROVE  /\ First \in Procs /\ NoProc \notin Procs /\ Primary(First) /\ First \notin linked
           /\ \A p \in Procs : Primary(p) => p = First
           /\ ext = First /\ \A p \in Procs : held[p] = {}
           /\ \A p \in Procs : role[p] = "proxy" => p \in linked
           /\ linked \subseteq Procs
           /\ MeantMessages(g) /\ MeantWaits(g) /\ MeantWork(g) /\ MeantResults(g)
<1>1. Steady
  BY DEF Steady
<1>2. Links /\ Settled /\ Types /\ Meant(g)
  BY DEF Core
<1> QED  BY <1>1, <1>2, SteadyFacts DEF Settled, Types, ProcTypes, Meant

(* A channel without the call has nothing to cancel.                        *)
LEMMA NotIn ==
    ASSUME NEW s, NEW c, ~In(s, c)
    PROVE  Dropped(s, c)
BY DEF In, Dropped, Range

(* A step that leaves the work on c alone.                                  *)
LEMMA StoppedFrame ==
    ASSUME NEW c \in Calls, Placed(c), Stopped(c), down \in Seq(Messages),
           NEW y \in Seq(Messages), ~In(y, c), down' = down \o y,
           call'[c].st # "pending" => \A p \in Procs : Dropped(fwd'[p], c),
           \A r \in pending[First] : r.call = c /\ Informed(c, r) =>
              CancelIn(y, r.id) \/ (r \in pending'[First] /\ Informed(c, r)'),
           work'[c] = work[c], registry' = registry
    PROVE  Stopped(c)'
<1>1. PICK id : id = work[c].id
  OBVIOUS
<1>2. ASSUME NEW i, Waited(c, i)
      PROVE  Waited(c, i)' \/ CancelIn(y, i)
  BY <1>2 DEF Waited
<1>3. Range(down') = Range(down) \cup Range(y)
  BY ConcatRange
<1>4. Dropped(y, c)
  BY NotIn
<1>5. \/ Dropped(down', c)
      \/ \A m \in Range(down') : Carries(m, c) => Waited(c, m.id)'
  <2>1. CASE Dropped(down, c)
    <3>1. Dropped(down \o y, c)
      BY <2>1, <1>4, ConcatCalls
    <3> QED  BY <3>1
  <2>2. CASE \A m \in Range(down) : Carries(m, c) => Waited(c, m.id)
    <3>1. ASSUME NEW m \in Range(down), NEW n \in Range(down), Carries(m, c), Carries(n, c)
          PROVE  m = n
      BY <3>1 DEF Placed, Once, Range
    <3>2. CASE \E m \in Range(down) : Carries(m, c) /\ CancelIn(y, m.id)
      <4>1. \A m \in Range(down) : Carries(m, c) => CancelIn(y, m.id)
        BY <3>1, <3>2
      <4>2. Dropped(down \o y, c)
        BY <4>1, <1>4, ConcatCalls
      <4> QED  BY <4>2
    <3>3. CASE \A m \in Range(down) : Carries(m, c) => ~CancelIn(y, m.id)
      <4>1. ASSUME NEW m \in Range(down'), Carries(m, c)
            PROVE  Waited(c, m.id)'
        <5>1. m \in Range(down)
          BY <4>1, <1>3 DEF In
        <5> QED  BY <5>1, <4>1, <3>3, <2>2, <1>2
      <4> QED  BY <4>1
    <3> QED  BY <3>2, <3>3
  <2> QED  BY <2>1, <2>2 DEF Stopped
<1>6. Alive(c)' => Alive(c)
  BY DEF Alive
<1>7. Alive(c)' => registry'[work'[c].id] = c
  BY <1>6 DEF Stopped
<1>8. ASSUME Alive(c)', ~work'[c].aborted
      PROVE  CancelIn(down', id) \/ Waited(c, id)'
  <2>1. CancelIn(down, id) \/ Waited(c, id)
    BY <1>1, <1>6, <1>8 DEF Stopped
  <2>2. CASE CancelIn(down, id)
    BY <2>2, <1>3 DEF CancelIn
  <2>3. CASE Waited(c, id)
    BY <2>3, <1>2, <1>3 DEF CancelIn
  <2> QED  BY <2>1, <2>2, <2>3
<1>9. Alive(c)' /\ ~work'[c].aborted => CancelIn(down', work'[c].id) \/ Waited(c, work[c].id)'
  BY <1>1, <1>8 DEF Waited, Informed
<1>10. \/ Dropped(down, c)'
       \/ \A m \in Range(down') : Carries(m, c) => Waited(c, m.id)'
  BY <1>5 DEF Dropped
<1> QED  BY <1>7, <1>9, <1>10 DEF Stopped, Dropped, CancelIn

(* A call that is over needs no stopping.                                   *)
LEMMA StoppedOver ==
    ASSUME NEW c \in Calls, Placed(c)', work'[c].st = "over"
    PROVE  Stopped(c)'
<1>1. ~IsFwd(c)' /\ ~In(down', c)
  BY DEF Placed, In
<1>2. \A p \in Procs : ~In(fwd'[p], c)
  BY <1>1 DEF IsFwd, In
<1>3. Dropped(down', c) /\ \A p \in Procs : Dropped(fwd'[p], c)
  BY <1>1, <1>2, NotIn
<1>4. ~Alive(c)'
  BY DEF Alive
<1> QED  BY <1>3, <1>4 DEF Stopped, Dropped

(* A step whose answers are closed.                                         *)
LEMMA ClosedFrame ==
    ASSUME NEW g, Core(g), ~faults.lost, Closed(g), NEW k, Keeps(g, k),
           \A m \in Range(up') : m \in Range(up) \/ work'[k[First][m.id]].st = "over",
           \A c \in Calls : work[c].st = "over" => work'[c].st = "over",
           \A p \in Procs : \A m \in Range(back'[p]) :
              \/ m \in Range(back[p])
              \/ /\ \E i \in 1 .. counter'[First] : k[First][i] = k[p][m.id]
                 /\ \A r \in pending'[First] : r.call # k[p][m.id],
           \A r \in pending'[First] :
              r \in pending[First] \/ \A i \in 1 .. counter[First] : g[First][i] # r.call
    PROVE  Closed(k)'
<1>1. /\ First \in Procs /\ MeantResults(g)
      /\ up \in Seq(Results) /\ back \in [Procs -> Seq(Results)] /\ counter \in [Procs -> Nat]
      /\ g \in [Procs -> Seq(Calls)] /\ Numbered(g)
  BY CalmFacts DEF Core, Types, ProcTypes, MessageTypes
<1>2. ASSUME NEW p \in Procs, NEW m \in Results, Answers(g, p, m)
      PROVE  m.id \in 1 .. counter[p] /\ g[p][m.id] \in Calls /\ k[p][m.id] = g[p][m.id]
  <2>1. m.id \in 1 .. counter[p] /\ Len(g[p]) = counter[p] /\ g[p] \in Seq(Calls)
    BY <1>1, <1>2, NFacts DEF Answers, Results, Numbered
  <2>2. g[p][m.id] \in Calls
    BY <2>1
  <2>3. k[p][m.id] = g[p][m.id]
    BY <2>1 DEF Keeps
  <2> QED  BY <2>1, <2>2, <2>3, Zenon
<1>3. ASSUME NEW m \in Range(up')
      PROVE  work'[k[First][m.id]].st = "over"
  <2>1. CASE m \in Range(up)
    <3>1. Answers(g, First, m) /\ work[g[First][m.id]].st = "over"
      BY <2>1, <1>1 DEF MeantResults, Closed
    <3>2. m \in Results
      BY <2>1, <1>1 DEF Range
    <3> QED  BY <3>1, <3>2, <1>1, <1>2
  <2> QED  BY <2>1
<1>4. ASSUME NEW p \in Procs, NEW m \in Range(back'[p])
      PROVE  /\ \E i \in 1 .. counter'[First] : k[First][i] = k[p][m.id]
             /\ \A r \in pending'[First] : r.call # k[p][m.id]
  <2>1. CASE m \in Range(back[p])
    <3>1. m \in Results /\ Answers(g, p, m)
      BY <1>1, <2>1 DEF MeantResults, Range
    <3>2. k[p][m.id] = g[p][m.id]
      BY <3>1, <1>2
    <3>3. PICK i \in 1 .. counter[First] : g[First][i] = g[p][m.id]
      BY <2>1 DEF Closed
    <3>4. i \in 1 .. counter'[First] /\ k[First][i] = g[First][i]
      BY <1>1 DEF Keeps
    <3>5. \A r \in pending'[First] : r.call # g[p][m.id]
      BY <2>1, <3>3 DEF Closed
    <3> QED  BY <3>2, <3>3, <3>4, <3>5
  <2> QED  BY <1>4, <2>1
<1> QED  BY <1>3, <1>4 DEF Closed

(* A client that waits for the extension, or gives up.                      *)
LEMMA WaitTidy ==
    ASSUME NEW d \in Calls, Wait(d) \/ GiveUp(d), NEW g, Core(g), Tidy(g)
    PROVE  Tidy(g)'
<1>1. /\ UNCHANGED <<linked, counter, pending, fwd, back, down, up, work, registry, faults>>
      /\ call[d].st # "pending"
      /\ \A c \in Calls : c # d => call'[c] = call[c]
  <2>1. call \in [Calls -> CallRecords]
    BY DEF Core, Types, WorkTypes
  <2>2. \A c \in Calls : c # d => call'[c] = call[c]
    BY <2>1 DEF Wait, GiveUp, Answer
  <2> QED  BY <2>2 DEF Wait, GiveUp, bridgeVars, linkVars, sockVars, swVars
<1> SUFFICES ASSUME ~faults.lost
             PROVE  (\A c \in Calls : Stopped(c)') /\ Closed(g)'
  BY <1>1 DEF Tidy
<1>2. ASSUME NEW c \in Calls
      PROVE  Stopped(c)'
  <2>1. Placed(c) /\ Stopped(c) /\ down \in Seq(Messages)
    BY DEF Core, Tidy, Types, MessageTypes
  <2>2. <<>> \in Seq(Messages) /\ ~In(<<>>, c) /\ down' = down \o <<>>
    BY <1>1, <2>1 DEF In, Range
  <2>3. call[c].st = "pending" => call'[c].st = "pending"
    BY <1>1
  <2>4. call'[c].st # "pending" => \A p \in Procs : Dropped(fwd'[p], c)
    <3>1. CASE c = d
      BY <1>1, <2>1, <3>1 DEF Stopped
    <3>2. CASE c # d
      BY <1>1, <2>1, <3>2 DEF Stopped
    <3> QED  BY <3>1, <3>2
  <2>5. ASSUME NEW r \in pending[First], r.call = c /\ Informed(c, r)
        PROVE  CancelIn(<<>>, r.id) \/ (r \in pending'[First] /\ Informed(c, r)')
    BY <1>1, <2>3, <2>5 DEF Informed, CancelIn
  <2> QED  BY <1>1, <2>1, <2>2, <2>4, <2>5, StoppedFrame
<1>3. Closed(g)'
  BY <1>1 DEF Tidy, Closed
<1> QED  BY <1>2, <1>3

(* p stops waiting for its entry r and tells whoever works on it.           *)
LEMMA ToldStopped ==
    ASSUME NEW p \in Procs, NEW r \in pending[p], Tell(p, r),
           pending' = [pending EXCEPT ![p] = @ \ {r}], UNCHANGED <<linked, work, registry>>,
           r.from # p => call' = call,
           \A d \in Calls : d # r.call => call'[d] = call[d],
           NEW g, Core(g), Tidy(g), ~faults.lost, NEW c \in Calls
    PROVE  Stopped(c)'
<1>1. /\ Types /\ Waiting /\ Placed(c) /\ Links /\ Stopped(c)
      /\ g \in [Procs -> Seq(Calls)] /\ Numbered(g)
  BY DEF Core, Tidy
<1>2. /\ First \in Procs /\ NoProc \notin Procs /\ Primary(First) /\ First \notin linked
      /\ \A q \in Procs : Primary(q) => q = First
      /\ ext = First /\ linked \subseteq Procs
      /\ MeantMessages(g) /\ MeantWaits(g)
  BY CalmFacts
<1>3. /\ pending \in [Procs -> SUBSET Entries] /\ fwd \in [Procs -> Seq(Messages)]
      /\ down \in Seq(Messages) /\ MessageTypes
  BY <1>1 DEF Types, WaitTypes, MessageTypes
<1>4. r \in Entries /\ r.call \in Calls /\ r.id \in 1 .. N
  BY <1>3 DEF Entries
<1>5. PICK x, y :
        /\ Quiet(x) /\ Quiet(y)
        /\ fwd' = [fwd EXCEPT ![p] = @ \o x] /\ down' = down \o y
        /\ p \notin linked => x = <<>>
        /\ Proxied(p, r) /\ p \in linked => CancelIn(x, r.id)
        /\ ~Proxied(p, r) /\ ext = p => CancelIn(y, r.id)
  BY <1>3, <1>4, TellQuiet
<1>6. x \in Seq(Messages) /\ y \in Seq(Messages) /\ ~In(y, c) /\ Dropped(x, c)
  BY <1>5, QuietCalls DEF Quiet
<1>7. /\ fwd'[p] = fwd[p] \o x /\ Range(fwd'[p]) = Range(fwd[p]) \cup Range(x)
      /\ \A q \in Procs : q # p => fwd'[q] = fwd[q]
      /\ \A q \in Procs : Range(fwd[q]) \subseteq Range(fwd'[q])
  <2>1. fwd[p] \in Seq(Messages)
    BY <1>3
  <2>2. Range(fwd[p] \o x) = Range(fwd[p]) \cup Range(x)
    BY <2>1, <1>6, ConcatRange
  <2>3. fwd'[p] = fwd[p] \o x /\ \A q \in Procs : q # p => fwd'[q] = fwd[q]
    BY <1>3, <1>5
  <2> QED  BY <2>2, <2>3
<1>8. ASSUME p # First, r.from = p
      PROVE  Proxied(p, r) /\ r.sid = r.id /\ Home[r.call] = p
  BY <1>1, <1>2, <1>8 DEF Waiting, Proxied
<1>9. p # First => r.from = p
  BY <1>1, <1>2 DEF Waiting
<1>10. \A i \in 1 .. counter[p] : g[p][i] = r.call => i = r.id
  <2>1. r.id \in 1 .. counter[p] /\ g[p][r.id] = r.call
    BY <1>1, <1>4, NFacts DEF Numbered, Types, ProcTypes
  <2> QED  BY <2>1, <1>1 DEF Numbered
<1>11. ASSUME call'[c].st # "pending", NEW q \in Procs
       PROVE  Dropped(fwd'[q], c)
  <2>1. CASE Dropped(fwd[q], c)
    <3>1. CASE q = p
      <4>1. fwd[p] \in Seq(Messages) /\ Dropped(fwd[p] \o x, c)
        BY <1>3, <1>6, <2>1, <3>1, ConcatCalls
      <4> QED  BY <4>1, <3>1, <1>7
    <3>2. CASE q # p
      BY <2>1, <3>2, <1>7
    <3> QED  BY <3>1, <3>2
  <2>2. CASE ~Dropped(fwd[q], c)
    <3>1. r.call = c /\ r.from = p
      BY <1>1, <1>11, <2>2 DEF Stopped
    <3>2. In(fwd[q], c)
      BY <2>2, NotIn
    <3>3. q = p
      BY <1>1, <3>1, <3>2 DEF Waiting, Placed
    <3>4. p \in linked
      BY <1>1, <3>2, <3>3 DEF Links, In, Range
    <3>5. p # First /\ CancelIn(x, r.id)
      BY <3>1, <3>4, <1>2, <1>5, <1>8
    <3>6. ASSUME NEW m \in Range(fwd[p]), Carries(m, c)
          PROVE  CancelIn(x, m.id)
      <4>1. m \in Messages /\ m.type = "call" /\ m.call = c
        BY <1>3, <3>6 DEF Carries, Range
      <4>2. m.id \in 1 .. N /\ Gave(g, p, m.id, c)
        BY <4>1, <3>6, <1>2 DEF MeantMessages, Messages
      <4>3. m.id = r.id
        BY <4>2, <3>1, <1>1, <1>10, NFacts DEF Gave, Types, ProcTypes
      <4> QED  BY <4>3, <3>5
    <3>7. fwd[p] \in Seq(Messages) /\ Dropped(fwd[p] \o x, c)
      BY <1>3, <1>6, <3>6, ConcatCalls
    <3> QED  BY <3>3, <3>7, <1>7
  <2> QED  BY <2>1, <2>2
<1>12. ASSUME NEW e \in pending[First], e.call = c, Informed(c, e)
       PROVE  CancelIn(y, e.id) \/ (e \in pending'[First] /\ Informed(c, e)')
  <2>1. CASE p = First
    <3>1. CASE e = r
      <4>1. ~Proxied(p, r)
        BY <1>2, <2>1 DEF MeantWaits, Proxied
      <4> QED  BY <4>1, <3>1, <2>1, <1>2, <1>5
    <3>2. CASE e # r
      <4>1. e \in pending'[First] /\ c # r.call
        BY <1>1, <1>2, <1>3, <1>12, <2>1, <3>2, EntryOf
      <4>2. call'[c] = call[c]
        BY <4>1
      <4>3. Informed(c, e)'
        BY <4>2, <1>2, <1>7, <1>12 DEF Informed, CancelIn
      <4> QED  BY <4>1, <4>3
    <3> QED  BY <3>1, <3>2
  <2>2. CASE p # First
    <3>1. e \in pending'[First]
      BY <1>3, <2>2
    <3>2. CASE e.from = First
      BY <3>1, <3>2 DEF Informed
    <3>3. CASE e.from # First /\ call'[c].st = call[c].st
      <4>1. Informed(c, e)'
        BY <3>3, <1>2, <1>7, <1>12 DEF Informed, CancelIn
      <4> QED  BY <3>1, <4>1
    <3>4. CASE e.from # First /\ call'[c].st # call[c].st
      <4>1. r.call = c /\ r.from = p /\ Home[c] = p
        BY <3>4, <2>2, <1>8, <1>9
      <4>2. e.from = p /\ p \in linked
        BY <4>1, <3>4, <1>1, <1>2, <1>12 DEF Waiting, Informed
      <4>3. e.sid = r.id
        <5>1. Gave(g, p, e.sid, c) /\ e.sid # 0
          BY <4>2, <2>2, <3>4, <1>1, <1>2, <1>12 DEF MeantWaits, Waiting
        <5>2. e.sid \in 1 .. counter[p]
          <6>1. e.sid \in 0 .. N
            BY <1>2, <1>3 DEF Entries
          <6> QED  BY <5>1, <6>1, <1>1, NFacts DEF Gave, Types, ProcTypes
        <5> QED  BY <5>1, <5>2, <4>1, <1>10 DEF Gave
      <4>4. CancelIn(fwd'[p], e.sid)
        BY <4>1, <4>2, <4>3, <2>2, <1>5, <1>7, <1>8 DEF CancelIn
      <4>5. Informed(c, e)'
        BY <4>2, <4>4 DEF Informed, CancelIn
      <4> QED  BY <3>1, <4>5
    <3> QED  BY <3>2, <3>3, <3>4
  <2> QED  BY <2>1, <2>2
<1> QED  BY <1>1, <1>3, <1>5, <1>6, <1>11, <1>12, StoppedFrame

(* A relayed call that the primary answers is closed.                       *)
LEMMA DeliverClosed ==
    ASSUME NEW p \in Procs, NEW r \in pending[p], NEW what \in Whats, Deliver(p, r, what),
           pending' = [pending EXCEPT ![p] = @ \ {r}], UNCHANGED <<counter, work>>,
           Range(up') \subseteq Range(up),
           NEW g, Core(g), ~faults.lost, Closed(g)
    PROVE  Closed(g)'
<1>1. /\ Types /\ Waiting /\ Links /\ g \in [Procs -> Seq(Calls)] /\ Numbered(g)
  BY DEF Core
<1>2. /\ First \in Procs /\ NoProc \notin Procs /\ First \notin linked
      /\ \A q \in Procs : Primary(q) => q = First
      /\ linked \subseteq Procs /\ MeantWaits(g)
  BY CalmFacts
<1>3. /\ pending \in [Procs -> SUBSET Entries] /\ back \in [Procs -> Seq(Results)]
      /\ counter \in [Procs -> Nat]
  BY <1>1 DEF Types, ProcTypes, WaitTypes, MessageTypes
<1>4. Keeps(g, g)
  BY <1>3 DEF Keeps
<1>5. r.id \in 1 .. counter[p] /\ g[p][r.id] = r.call
  <2>1. r.id \in 1 .. N
    BY <1>3 DEF Entries
  <2> QED  BY <2>1, <1>1, <1>3, NFacts DEF Numbered
<1>6. \A e \in pending'[First] : e \in pending[First]
  BY <1>3
<1>7. ASSUME NEW q \in Procs, NEW m \in Range(back'[q])
      PROVE  \/ m \in Range(back[q])
             \/ /\ \E i \in 1 .. counter'[First] : g[First][i] = g[q][m.id]
                /\ \A e \in pending'[First] : e.call # g[q][m.id]
  <2>1. CASE back' = back
    BY <1>7, <2>1
  <2>2. CASE /\ r.from # p /\ r.from \in linked
             /\ back' = [back EXCEPT ![r.from] = Append(@, Result(r.sid, what))]
    <3>1. p = First
      BY <2>2, <1>1, <1>2 DEF Waiting
    <3>2. r.from \in Procs /\ Gave(g, r.from, r.sid, r.call)
      BY <2>2, <3>1, <1>2 DEF MeantWaits
    <3>3. CASE q # r.from
      BY <1>3, <1>7, <2>2, <3>3
    <3>4. CASE q = r.from
      <4>1. r.sid \in 1 .. N
        BY <2>2, <1>1, <1>3, NFacts DEF Waiting, Entries
      <4>2. back[q] \in Seq(Results) /\ Result(r.sid, what) \in Results
        BY <4>1, <1>3 DEF Result, Results
      <4>3. Range(Append(back[q], Result(r.sid, what))) = Range(back[q]) \cup {Result(r.sid, what)}
        BY <4>2, AppendRange
      <4>4. m \in Range(back[q]) \/ m = Result(r.sid, what)
        BY <4>3, <2>2, <3>4, <1>3, <1>7
      <4>5. CASE m = Result(r.sid, what)
        <5>1. g[q][m.id] = r.call
          BY <4>5, <3>2, <3>4 DEF Result, Gave
        <5>2. ASSUME NEW e \in pending'[First], e.call = r.call
              PROVE  FALSE
          <6>1. e \in pending[First] /\ e # r
            BY <5>2, <3>1, <1>3
          <6> QED  BY <6>1, <5>2, <3>1, <1>1, EntryOf
        <5> QED  BY <5>1, <5>2, <1>5, <3>1
      <4> QED  BY <4>4, <4>5
    <3> QED  BY <3>3, <3>4
  <2> QED  BY <2>1, <2>2 DEF Deliver, Relayed
<1> QED  BY <1>4, <1>6, <1>7, ClosedFrame

(* A timeout tells whoever works on the call.                               *)
LEMMA TimeoutTidy ==
    ASSUME NEW p \in Procs, NEW r \in pending[p], Timeout(p, r), NEW g, Core(g), Tidy(g)
    PROVE  Tidy(g)'
<1>1. /\ Tell(p, r) /\ Deliver(p, r, "timeout") /\ pending' = [pending EXCEPT ![p] = @ \ {r}]
      /\ UNCHANGED <<linked, counter, up, work, registry, faults>>
  BY DEF Timeout, bridgeVars, swVars
<1> SUFFICES ASSUME ~faults.lost
             PROVE  (\A c \in Calls : Stopped(c)') /\ Closed(g)'
  BY <1>1 DEF Tidy
<1>2. r \in Entries /\ WorkTypes /\ "timeout" \in Whats
  BY DEF Core, Types, WaitTypes, Whats
<1>3. (r.from # p => call' = call) /\ \A d \in Calls : d # r.call => call'[d] = call[d]
  <2>1. r.call \in Calls
    BY <1>2 DEF Entries
  <2>2. r.from # p => call' = call
    BY <2>1, <1>1, <1>2, DeliverCalls
  <2>3. ASSUME NEW d \in Calls, d # r.call
        PROVE  call'[d] = call[d]
    BY <2>3, <1>1, <1>2, DeliverCalls
  <2> QED  BY <2>2, <2>3
<1>4. \A c \in Calls : Stopped(c)'
  BY <1>1, <1>3, ToldStopped
<1>5. Range(up') \subseteq Range(up)
  BY <1>1
<1>6. Closed(g)'
  BY <1>1, <1>2, <1>5, DeliverClosed DEF Tidy
<1> QED  BY <1>4, <1>6

(* So does a client that cancels.                                           *)
LEMMA CancelsTidy ==
    ASSUME NEW d \in Calls, ClientCancels(d), NEW g, Core(g), Tidy(g)
    PROVE  Tidy(g)'
<1>1. UNCHANGED <<linked, counter, back, up, work, registry, faults>>
  BY DEF ClientCancels, bridgeVars, swVars
<1> SUFFICES ASSUME ~faults.lost
             PROVE  (\A c \in Calls : Stopped(c)') /\ Closed(g)'
  BY <1>1 DEF Tidy
<1>2. /\ call \in [Calls -> CallRecords] /\ pending \in [Procs -> SUBSET Entries]
      /\ counter \in [Procs -> Nat] /\ Home[d] \in Procs /\ Waiting
      /\ \A c \in Calls : Placed(c) /\ Stopped(c)
      /\ down \in Seq(Messages) /\ Closed(g)
  BY BridgeCallsAssumption
  DEF Core, Tidy, Types, ProcTypes, WorkTypes, WaitTypes, MessageTypes
<1>3. CASE call[d].st = "waiting"
  <2>1. /\ UNCHANGED <<pending, fwd, down>>
        /\ \A c \in Calls : call'[c].st = call[c].st
    <3>1. call' = [call EXCEPT ![d].aborted = TRUE] /\ UNCHANGED <<pending, fwd, down>>
      BY <1>3 DEF ClientCancels
    <3> QED  BY <3>1, <1>2 DEF CallRecords
  <2>2. ASSUME NEW c \in Calls
        PROVE  Stopped(c)'
    <3>1. Stopped(c) /\ call'[c].st = call[c].st
      BY <1>2, <2>1
    <3> QED  BY <3>1, <2>1, <1>1 DEF Stopped, Waited, Informed, Alive
  <2>3. Closed(g)'
    BY <1>1, <1>2, <2>1 DEF Closed
  <2> QED  BY <2>2, <2>3
<1>4. CASE call[d].st # "waiting"
  <2>1. PICK r \in pending[Home[d]] :
          /\ r.call = d /\ Tell(Home[d], r)
          /\ pending' = [pending EXCEPT ![Home[d]] = @ \ {r}]
          /\ call' = [call EXCEPT ![d] = [st |-> "done", aborted |-> TRUE, answer |-> "cancelled"]]
    BY <1>4 DEF ClientCancels
  <2>2. r.from = Home[d] /\ \A c \in Calls : c # r.call => call'[c] = call[c]
    BY <2>1, <1>2 DEF Waiting
  <2>3. \A c \in Calls : Stopped(c)'
    BY <2>1, <2>2, <1>1, <1>2, ToldStopped
  <2>4. Keeps(g, g) /\ \A e \in pending'[First] : e \in pending[First]
    <3>1. First \in Procs
      BY BridgeCallsAssumption
    <3> QED  BY <3>1, <2>1, <1>1, <1>2 DEF Keeps
  <2>5. Closed(g)'
    BY <2>4, <1>1, <1>2, ClosedFrame
  <2> QED  BY <2>3, <2>5
<1> QED  BY <1>3, <1>4

(* A call that was cancelled while it waited is sent with its cancellation. *)
LEMMA SendTidy ==
    ASSUME NEW d \in Calls, SendCall(d), NEW g, Core(g), Tidy(g),
           NEW k, Gives(g, k, Home[d], d)
    PROVE  Tidy(k)'
<1>0. PICK p : p = Home[d]
  OBVIOUS
<1>1. PICK id : id = counter[p] + 1
  OBVIOUS
<1>2. PICK out : out = IF call[d].aborted THEN <<Call(id, d), Cancel(id)>> ELSE <<Call(id, d)>>
  OBVIOUS
<1>3. PICK e : e = Entry(id, d, p, IF Primary(p) THEN 0 ELSE id)
  OBVIOUS
<1>4. /\ call[d].st \in {"idle", "waiting"}
      /\ UNCHANGED <<linked, back, up, work, registry, faults>>
      /\ IF Primary(p) THEN down' = down \o out /\ UNCHANGED fwd
         ELSE fwd' = [fwd EXCEPT ![p] = @ \o out] /\ UNCHANGED down
      /\ IF call[d].aborted THEN Answer(d, "cancelled") /\ UNCHANGED pending
         ELSE /\ call' = [call EXCEPT ![d].st = "pending"]
              /\ pending' = [pending EXCEPT ![p] = @ \cup {e}]
  BY <1>0, <1>1, <1>2, <1>3 DEF SendCall, swVars
<1> SUFFICES ASSUME ~faults.lost
             PROVE  (\A c \in Calls : Stopped(c)') /\ Closed(k)'
  BY <1>4 DEF Tidy
<1>5. /\ Types /\ ProcTypes /\ p \in Procs /\ First \in Procs
      /\ g \in [Procs -> Seq(Calls)] /\ Numbered(g) /\ Gives(g, k, p, d)
      /\ \A c \in Calls : Placed(c) /\ Stopped(c)
      /\ pending \in [Procs -> SUBSET Entries] /\ fwd \in [Procs -> Seq(Messages)]
      /\ down \in Seq(Messages) /\ call \in [Calls -> CallRecords]
      /\ \A q \in Procs : Primary(q) => q = First
  BY <1>0, BridgeCallsAssumption, CalmFacts
  DEF Core, Tidy, Types, ProcTypes, WorkTypes, WaitTypes, MessageTypes
<1>6. New(p, d) /\ id \in 1 .. N /\ \A i \in 1 .. counter[p] : g[p][i] # d
  <2>1. New(p, d)
    BY <1>4 DEF New
  <2> QED  BY <2>1, <1>1, <1>5, Room
<1>7. /\ out \in Seq(Messages) /\ \A c : In(out, c) <=> c = d
      /\ call[d].aborted => Dropped(out, d)
      /\ ~call[d].aborted => Range(out) = {Call(id, d)}
  BY <1>2, <1>6, OneCall, CallAndCancel
<1>8. /\ e.id = id /\ e.call = d /\ e.from = p
  BY <1>3 DEF Entry
<1>9. ASSUME NEW q \in Procs
      PROVE  /\ Range(fwd[q]) \subseteq Range(fwd'[q])
             /\ fwd'[q] = fwd[q] \/ (q = p /\ fwd'[q] = fwd[q] \o out)
  <2>1. fwd'[q] = fwd[q] \/ (q = p /\ fwd'[q] = fwd[q] \o out)
    BY <1>4, <1>5
  <2>2. fwd[q] \in Seq(Messages)
    BY <1>5
  <2>3. Range(fwd[q] \o out) = Range(fwd[q]) \cup Range(out)
    BY <2>2, <1>7, ConcatRange
  <2> QED  BY <2>1, <2>3
<1>10. \A r \in pending[First] : r \in pending'[First]
  BY <1>4, <1>5
<1>11. ASSUME NEW c \in Calls, c # d
       PROVE  Stopped(c)'
  <2>1. call'[c] = call[c]
    BY <1>4, <1>5, <1>11 DEF Answer
  <2>2. PICK y : y = IF Primary(p) THEN out ELSE <<>>
    OBVIOUS
  <2>3. y \in Seq(Messages) /\ ~In(y, c) /\ down' = down \o y
    <3>1. CASE Primary(p)
      BY <3>1, <2>2, <1>4, <1>7, <1>11
    <3>2. CASE ~Primary(p)
      BY <3>2, <2>2, <1>4, <1>5 DEF In, Range
    <3> QED  BY <3>1, <3>2
  <2>4. ASSUME call'[c].st # "pending", NEW q \in Procs
        PROVE  Dropped(fwd'[q], c)
    <3>1. Dropped(fwd[q], c)
      BY <2>1, <2>4, <1>5 DEF Stopped
    <3>2. fwd[q] \in Seq(Messages) /\ Dropped(out, c)
      BY <1>5, <1>7, <1>11, NotIn
    <3>3. Dropped(fwd[q] \o out, c)
      BY <3>1, <3>2, <1>7, ConcatCalls
    <3> QED  BY <3>1, <3>3, <1>9
  <2>5. ASSUME NEW r \in pending[First], r.call = c /\ Informed(c, r)
        PROVE  CancelIn(y, r.id) \/ (r \in pending'[First] /\ Informed(c, r)')
    <3>1. r.from # First => r.from \in Procs
      BY <2>5, <1>5 DEF Informed, Types, ProcTypes
    <3> QED  BY <3>1, <2>1, <2>5, <1>4, <1>9, <1>10 DEF Informed, CancelIn
  <2> QED  BY <2>3, <2>4, <2>5, <1>4, <1>5, StoppedFrame
<1>12. Stopped(d)'
  <2>1. /\ \A q \in Procs : ~In(fwd[q], d)
        /\ ~In(down, d) /\ work[d].st = "none"
    BY <1>4, <1>5 DEF Placed, IsFwd
  <2>2. ~Alive(d)'
    BY <2>1, <1>4 DEF Alive
  <2>3. ASSUME call'[d].st # "pending", NEW q \in Procs
        PROVE  Dropped(fwd'[q], d)
    <3>1. call[d].aborted
      BY <2>3, <1>4, <1>5 DEF CallRecords
    <3>2. Dropped(fwd[q], d) /\ fwd[q] \in Seq(Messages)
      BY <2>1, <1>5, NotIn
    <3>3. Dropped(fwd[q] \o out, d)
      BY <3>1, <3>2, <1>7, ConcatCalls
    <3> QED  BY <3>2, <3>3, <1>9
  <2>4. \/ Dropped(down', d)
        \/ \A m \in Range(down') : Carries(m, d) => Waited(d, m.id)'
    <3>1. CASE ~Primary(p)
      BY <3>1, <2>1, <1>4, NotIn
    <3>2. CASE Primary(p) /\ call[d].aborted
      <4>1. Dropped(down \o out, d)
        BY <2>1, <3>2, <1>5, <1>7, NotIn, ConcatCalls
      <4> QED  BY <4>1, <3>2, <1>4
    <3>3. CASE Primary(p) /\ ~call[d].aborted
      <4>1. Range(down \o out) = Range(down) \cup Range(out)
        BY <1>5, <1>7, ConcatRange
      <4>2. ASSUME NEW m \in Range(down'), Carries(m, d)
            PROVE  Waited(d, m.id)'
        <5>1. m = Call(id, d)
          BY <4>1, <4>2, <3>3, <2>1, <1>4, <1>7 DEF In
        <5>2. m.id = e.id /\ p = First
          BY <5>1, <3>3, <1>5, <1>8 DEF Call
        <5>3. e \in pending'[First] /\ e.from = First
          BY <5>2, <3>3, <1>4, <1>5, <1>8
        <5> QED  BY <5>2, <5>3, <1>8 DEF Waited, Informed
      <4> QED  BY <4>2
    <3> QED  BY <3>1, <3>2, <3>3
  <2> QED  BY <2>2, <2>3, <2>4 DEF Stopped, Dropped
<1>13. Closed(k)'
  <2>1. Keeps(g, k)
    BY <1>5, GivesKeeps
  <2>2. \A r \in pending'[First] :
          r \in pending[First] \/ \A i \in 1 .. counter[First] : g[First][i] # r.call
    BY <1>4, <1>5, <1>6, <1>8
  <2> QED  BY <2>1, <2>2, <1>4, ClosedFrame DEF Tidy
<1> QED  BY <1>11, <1>12, <1>13

(* The cancellation of a relayed call comes after it on the link.           *)
LEMMA RelayTidy ==
    ASSUME NEW p \in Procs, NEW s \in Procs, RelayCall(p, s), NEW g, Core(g), Tidy(g),
           NEW k, ext = p => Gives(g, k, p, Head(fwd[s]).call)
    PROVE  IF ext = p THEN Tidy(k)' ELSE Tidy(g)'
<1>0. PICK m : m = Head(fwd[s])
  OBVIOUS
<1>1. /\ Primary(p) /\ s \in linked /\ fwd[s] # <<>> /\ m.type = "call"
      /\ fwd' = [fwd EXCEPT ![s] = Tail(fwd[s])]
      /\ UNCHANGED <<linked, back, up, work, registry, call, faults>>
  BY <1>0 DEF RelayCall, Shift, swVars
<1>2. CASE faults.lost
  BY <1>1, <1>2 DEF Tidy
<1>3. CASE ~faults.lost
  <2>1. /\ p = First /\ ext = First /\ First \notin linked
    BY <1>1, <1>3, CalmFacts
  <2>2. PICK id : id = counter[p] + 1
    OBVIOUS
  <2>3. PICK d : d = m.call
    OBVIOUS
  <2>4. PICK e : e = Entry(id, d, s, m.id)
    OBVIOUS
  <2>5. /\ pending' = [pending EXCEPT ![First] = @ \cup {e}]
        /\ down' = down \o <<Call(id, d)>>
    BY <1>0, <2>1, <2>2, <2>3, <2>4 DEF RelayCall, Dispatch, RelayId, ToExt
  <2>6. /\ Types /\ ProcTypes /\ g \in [Procs -> Seq(Calls)] /\ Numbered(g)
        /\ Gives(g, k, p, d)
        /\ \A c \in Calls : Placed(c) /\ Stopped(c)
        /\ pending \in [Procs -> SUBSET Entries] /\ fwd \in [Procs -> Seq(Messages)]
        /\ down \in Seq(Messages) /\ linked \subseteq Procs
    BY <1>0, <1>3, <2>1, <2>3
    DEF Core, Tidy, Types, ProcTypes, WaitTypes, MessageTypes
  <2>7. /\ m \in Messages /\ m \in Range(fwd[s])
        /\ Range(fwd[s]) = {m} \cup Range(Tail(fwd[s]))
        /\ \A c : Dropped(fwd[s], c) => Dropped(Tail(fwd[s]), c)
        /\ \A c : Dropped(fwd[s], c) /\ Carries(m, c) => CancelIn(Tail(fwd[s]), m.id)
    <3>1. fwd[s] \in Seq(Messages)
      BY <2>6
    <3> QED  BY <3>1, <1>0, <1>1, TailRange, TailCalls
  <2>8. d \in Calls /\ m.id \in 1 .. N /\ Carries(m, d) /\ IsFwd(d)
    BY <1>1, <2>3, <2>7 DEF Messages, Carries, IsFwd, In
  <2>9. New(p, d) /\ id \in 1 .. N /\ \A i \in 1 .. counter[p] : g[p][i] # d
    <3>1. New(p, d)
      BY <1>1, <2>8 DEF New
    <3> QED  BY <3>1, <2>2, <2>6, <2>8, Room
  <2>10. /\ <<Call(id, d)>> \in Seq(Messages) /\ Range(<<Call(id, d)>>) = {Call(id, d)}
         /\ \A c : In(<<Call(id, d)>>, c) <=> c = d
    BY <2>8, <2>9, OneCall
  <2>11. e.id = id /\ e.call = d /\ e.from = s /\ e.sid = m.id
    BY <2>4 DEF Entry
  <2>12. ASSUME NEW q \in Procs
         PROVE  fwd'[q] = fwd[q] \/ (q = s /\ fwd'[q] = Tail(fwd[s]))
    BY <1>1, <2>6
  <2>13. \A c \in Calls : call'[c].st # "pending" => \A q \in Procs : Dropped(fwd'[q], c)
    <3>1. ASSUME NEW c \in Calls, call'[c].st # "pending", NEW q \in Procs
          PROVE  Dropped(fwd'[q], c)
      <4>1. Dropped(fwd[q], c)
        BY <3>1, <1>1, <2>6 DEF Stopped
      <4> QED  BY <4>1, <2>7, <2>12
    <3> QED  BY <3>1
  <2>14. ASSUME NEW c \in Calls, c # d
         PROVE  Stopped(c)'
    <3>1. ASSUME NEW r \in pending[First], r.call = c, Informed(c, r)
          PROVE  r \in pending'[First] /\ Informed(c, r)'
      <4>1. r \in pending'[First]
        BY <2>1, <2>5, <2>6
      <4>2. CASE r.from # First /\ CancelIn(fwd[r.from], r.sid)
        <5>1. r.from \in Procs
          BY <3>1, <4>2, <2>6 DEF Informed
        <5>2. Cancel(r.sid) # m
          BY <1>1 DEF Cancel
        <5>3. CancelIn(fwd'[r.from], r.sid)
          BY <4>2, <5>1, <5>2, <2>7, <2>12 DEF CancelIn
        <5> QED  BY <4>1, <5>3, <3>1, <1>1 DEF Informed, CancelIn
      <4>3. CASE r.from = First \/ call[c].st = "pending"
        BY <4>1, <4>3, <3>1, <1>1 DEF Informed
      <4> QED  BY <4>2, <4>3, <3>1 DEF Informed
    <3>2. ~In(<<Call(id, d)>>, c) /\ Placed(c) /\ Stopped(c)
      BY <2>6, <2>10, <2>14
    <3> QED  BY <3>1, <3>2, <2>5, <2>6, <2>10, <2>13, <1>1, StoppedFrame
  <2>15. Stopped(d)'
    <3>1. ~In(down, d) /\ work[d].st = "none" /\ Placed(d) /\ Stopped(d)
      BY <2>6, <2>8 DEF Placed, In
    <3>2. ~Alive(d)'
      BY <3>1, <1>1 DEF Alive
    <3>3. ASSUME NEW n \in Range(down'), Carries(n, d)
          PROVE  Waited(d, n.id)'
      <4>1. Range(down') = Range(down) \cup {Call(id, d)}
        <5>1. Range(down \o <<Call(id, d)>>) = Range(down) \cup Range(<<Call(id, d)>>)
          BY <2>6, <2>10, ConcatRange
        <5> QED  BY <5>1, <2>5, <2>10
      <4>2. n.id = id
        BY <3>1, <3>3, <4>1 DEF In, Call
      <4>3. call[d].st = "pending" \/ CancelIn(fwd'[s], m.id)
        <5>1. call[d].st # "pending" => Dropped(fwd[s], d)
          BY <3>1 DEF Stopped
        <5> QED  BY <5>1, <2>6, <2>7, <2>8, <1>1
      <4>4. Informed(d, e)'
        BY <4>3, <2>11, <1>1 DEF Informed, CancelIn
      <4>5. e \in pending'[First]
        BY <2>1, <2>5, <2>6
      <4> QED  BY <4>2, <4>4, <4>5, <2>11 DEF Waited
    <3> QED  BY <3>2, <3>3, <2>8, <2>13 DEF Stopped, Dropped
  <2>16. Closed(k)'
    <3>1. Keeps(g, k)
      BY <2>6, <2>8, GivesKeeps
    <3>2. \A r \in pending'[First] :
            r \in pending[First] \/ \A i \in 1 .. counter[First] : g[First][i] # r.call
      BY <2>1, <2>5, <2>6, <2>9, <2>11
    <3> QED  BY <3>1, <3>2, <1>1, <1>3, ClosedFrame DEF Tidy
  <2> QED  BY <2>1, <2>14, <2>15, <2>16 DEF Tidy
<1> QED  BY <1>2, <1>3

(* The primary hands a cancellation on under its own id.                    *)
LEMMA RelayCancelTidy ==
    ASSUME NEW p \in Procs, NEW s \in Procs, RelayCancel(p, s), NEW g, Core(g), Tidy(g)
    PROVE  Tidy(g)'
<1>0. PICK m : m = Head(fwd[s])
  OBVIOUS
<1>1. PICK mine : mine = {r \in pending[p] : r.from = s /\ Relayed(p, r) /\ r.sid = m.id}
  OBVIOUS
<1>2. PICK y : y = IF ext = p THEN SetToSeq({Cancel(r.id) : r \in mine}) ELSE <<>>
  OBVIOUS
<1>3. /\ Primary(p) /\ s \in linked /\ fwd[s] # <<>> /\ m.type = "cancel"
      /\ fwd' = [fwd EXCEPT ![s] = Tail(fwd[s])]
      /\ pending' = [pending EXCEPT ![p] = @ \ mine]
      /\ down' = IF ext = p THEN down \o SetToSeq({Cancel(r.id) : r \in mine}) ELSE down
      /\ UNCHANGED <<linked, counter, back, up, work, registry, call, faults>>
  BY <1>0, <1>1 DEF RelayCancel, Shift, ToExt, swVars, bridgeVars
<1> SUFFICES ASSUME ~faults.lost
             PROVE  (\A c \in Calls : Stopped(c)') /\ Closed(g)'
  BY <1>3 DEF Tidy
<1>4. p = First /\ ext = First /\ First \notin linked
  BY <1>3, CalmFacts
<1>5. /\ \A c \in Calls : Placed(c) /\ Stopped(c)
      /\ pending \in [Procs -> SUBSET Entries] /\ fwd \in [Procs -> Seq(Messages)]
      /\ down \in Seq(Messages) /\ linked \subseteq Procs /\ counter \in [Procs -> Nat]
      /\ IsFiniteSet(pending[p])
  BY DEF Core, Tidy, Types, ProcTypes, WaitTypes, MessageTypes
<1>6. Quiet(y) /\ \A r \in mine : CancelIn(y, r.id)
  <2>1. IsFiniteSet(mine) /\ \A r \in mine : r.id \in 1 .. N
    <3>1. IsFiniteSet(mine)
      BY <1>1, <1>5, FS_Subset
    <3> QED  BY <3>1, <1>1, <1>5 DEF Entries
  <2> QED  BY <2>1, <1>2, <1>4, QuietSets
<1>7. y \in Seq(Messages) /\ down' = down \o y /\ \A c : ~In(y, c)
  BY <1>2, <1>3, <1>4, <1>6, QuietCalls DEF Quiet
<1>8. /\ m \in Messages /\ Range(fwd[s]) = {m} \cup Range(Tail(fwd[s]))
      /\ \A c : Dropped(fwd[s], c) => Dropped(Tail(fwd[s]), c)
  <2>1. fwd[s] \in Seq(Messages)
    BY <1>5
  <2> QED  BY <2>1, <1>0, <1>3, TailRange, TailCalls
<1>9. ASSUME NEW q \in Procs
      PROVE  fwd'[q] = fwd[q] \/ (q = s /\ fwd'[q] = Tail(fwd[s]))
  BY <1>3, <1>5
<1>10. m = Cancel(m.id)
  BY <1>3, <1>8 DEF Messages, Cancel
<1>11. ASSUME NEW c \in Calls
       PROVE  Stopped(c)'
  <2>1. ASSUME call'[c].st # "pending", NEW q \in Procs
        PROVE  Dropped(fwd'[q], c)
    <3>1. Dropped(fwd[q], c)
      BY <2>1, <1>3, <1>5 DEF Stopped
    <3> QED  BY <3>1, <1>8, <1>9
  <2>2. ASSUME NEW r \in pending[First], r.call = c, Informed(c, r)
        PROVE  CancelIn(y, r.id) \/ (r \in pending'[First] /\ Informed(c, r)')
    <3>1. CASE r \in mine
      BY <3>1, <1>6
    <3>2. CASE r \notin mine
      <4>1. r \in pending'[First]
        BY <3>2, <1>3, <1>4, <1>5
      <4>2. CASE r.from # First /\ CancelIn(fwd[r.from], r.sid)
        <5>1. r.from \in Procs
          BY <2>2, <4>2, <1>5 DEF Informed
        <5>2. r.from = s => Cancel(r.sid) # m
          <6>1. r.from = s => r.sid # m.id
            BY <3>2, <4>2, <1>1, <1>4 DEF Relayed
          <6> QED  BY <6>1 DEF Cancel
        <5>3. CancelIn(fwd'[r.from], r.sid)
          BY <4>2, <5>1, <5>2, <1>8, <1>9 DEF CancelIn
        <5> QED  BY <4>1, <5>3, <2>2, <1>3 DEF Informed, CancelIn
      <4>3. CASE r.from = First \/ call[c].st = "pending"
        BY <4>1, <4>3, <2>2, <1>3 DEF Informed
      <4> QED  BY <4>2, <4>3, <2>2 DEF Informed
    <3> QED  BY <3>1, <3>2
  <2> QED  BY <2>1, <2>2, <1>3, <1>5, <1>7, StoppedFrame
<1>12. Closed(g)'
  <2>1. Keeps(g, g) /\ \A r \in pending'[First] : r \in pending[First]
    BY <1>3, <1>4, <1>5 DEF Keeps
  <2> QED  BY <2>1, <1>3, ClosedFrame DEF Tidy
<1> QED  BY <1>11, <1>12

(* A result settles a call that is over.                                    *)
LEMMA TakeResultTidy ==
    ASSUME NEW p \in Procs, TakeResult(p), NEW g, Core(g), Core(g)', Tidy(g)
    PROVE  Tidy(g)'
<1>0. PICK m : m = Head(up)
  OBVIOUS
<1>1. PICK mine : mine = {r \in pending[p] : r.id = m.id}
  OBVIOUS
<1>2. /\ ext = p /\ up # <<>> /\ up' = Tail(up)
      /\ pending' = [pending EXCEPT ![p] = @ \ mine]
      /\ IF mine = {} THEN UNCHANGED <<back, call>> ELSE \E r \in mine : Deliver(p, r, m.what)
      /\ UNCHANGED <<linked, counter, fwd, down, work, registry, faults>>
  BY <1>0, <1>1 DEF TakeResult, swVars, bridgeVars
<1> SUFFICES ASSUME ~faults.lost
             PROVE  (\A c \in Calls : Stopped(c)') /\ Closed(g)'
  BY <1>2 DEF Tidy
<1>3. p = First
  BY <1>2, CalmFacts
<1>4. /\ Waiting /\ Numbered(g) /\ Closed(g) /\ WorkTypes
      /\ \A c \in Calls : Placed(c) /\ Placed(c)' /\ Stopped(c)
      /\ pending \in [Procs -> SUBSET Entries] /\ fwd \in [Procs -> Seq(Messages)]
      /\ down \in Seq(Messages) /\ up \in Seq(Results) /\ linked \subseteq Procs
      /\ counter \in [Procs -> Nat]
  BY DEF Core, Tidy, Types, ProcTypes, WaitTypes, MessageTypes
<1>5. m \in Results /\ m \in Range(up) /\ Range(up') \subseteq Range(up)
  BY <1>0, <1>2, <1>4, TailRange
<1>6. ASSUME NEW r \in mine
      PROVE  mine = {r} /\ work[r.call].st = "over" /\ r \in pending[p]
  <2>1. r \in pending[p] /\ r.id = m.id /\ mine = {r}
    BY <1>1, <1>4 DEF Waiting
  <2>2. g[First][m.id] = r.call
    BY <2>1, <1>3, <1>4 DEF Numbered
  <2> QED  BY <2>1, <2>2, <1>4, <1>5 DEF Closed
<1>7. ASSUME NEW c \in Calls
      PROVE  Stopped(c)'
  <2>1. CASE \E r \in mine : r.call = c
    <3>1. work'[c].st = "over"
      BY <2>1, <1>2, <1>6
    <3> QED  BY <3>1, <1>4, StoppedOver
  <2>2. CASE \A r \in mine : r.call # c
    <3>1. call'[c] = call[c]
      <4>1. CASE mine = {}
        BY <4>1, <1>2
      <4>2. CASE mine # {}
        <5>1. PICK r \in mine : Deliver(p, r, m.what)
          BY <4>2, <1>2
        <5>2. r \in Entries /\ m.what \in Whats
          BY <1>4, <1>5, <1>6 DEF Results
        <5> QED  BY <5>1, <5>2, <2>2, <1>4, DeliverCalls
      <4> QED  BY <4>1, <4>2
    <3>2. <<>> \in Seq(Messages) /\ ~In(<<>>, c) /\ down' = down \o <<>>
      BY <1>2, <1>4 DEF In, Range
    <3>3. call'[c].st # "pending" => \A q \in Procs : Dropped(fwd'[q], c)
      BY <3>1, <1>2, <1>4 DEF Stopped
    <3>4. ASSUME NEW r \in pending[First], r.call = c, Informed(c, r)
          PROVE  r \in pending'[First] /\ Informed(c, r)'
      <4>1. r \in pending'[First]
        BY <3>4, <2>2, <1>2, <1>3, <1>4
      <4> QED  BY <4>1, <3>1, <3>4, <1>2 DEF Informed, CancelIn
    <3> QED  BY <3>2, <3>3, <3>4, <1>2, <1>4, StoppedFrame
  <2> QED  BY <2>1, <2>2
<1>8. Closed(g)'
  <2>1. CASE mine = {}
    <3>1. Keeps(g, g) /\ \A r \in pending'[First] : r \in pending[First]
      BY <2>1, <1>2, <1>3, <1>4 DEF Keeps
    <3> QED  BY <3>1, <2>1, <1>2, <1>4, <1>5, ClosedFrame
  <2>2. CASE mine # {}
    <3>1. PICK r \in mine : Deliver(p, r, m.what)
      BY <2>2, <1>2
    <3>2. r \in pending[p] /\ pending' = [pending EXCEPT ![p] = @ \ {r}] /\ m.what \in Whats
      BY <1>2, <1>5, <1>6 DEF Results
    <3> QED  BY <3>1, <3>2, <1>2, <1>4, <1>5, DeliverClosed
  <2> QED  BY <2>1, <2>2
<1> QED  BY <1>7, <1>8

(* A relayed answer is for a call that the primary no longer waits for.     *)
LEMMA TakeRelayedTidy ==
    ASSUME NEW s \in Procs, TakeRelayed(s), NEW g, Core(g), Tidy(g)
    PROVE  Tidy(g)'
<1>0. PICK m : m = Head(back[s])
  OBVIOUS
<1>1. PICK mine : mine = {r \in pending[s] : r.id = m.id}
  OBVIOUS
<1>2. /\ s \in linked /\ back[s] # <<>> /\ back' = [back EXCEPT ![s] = Tail(back[s])]
      /\ pending' = [pending EXCEPT ![s] = @ \ mine]
      /\ IF mine = {} THEN UNCHANGED call ELSE \E r \in mine : Answer(r.call, m.what)
      /\ UNCHANGED <<linked, counter, fwd, up, down, work, registry, faults>>
  BY <1>0, <1>1 DEF TakeRelayed, Shift, swVars, bridgeVars, sockVars
<1> SUFFICES ASSUME ~faults.lost
             PROVE  (\A c \in Calls : Stopped(c)') /\ Closed(g)'
  BY <1>2 DEF Tidy
<1>3. s # First /\ First \in Procs /\ Primary(First)
  BY <1>2, CalmFacts
<1>4. /\ Waiting /\ Numbered(g) /\ Closed(g)
      /\ \A c \in Calls : Placed(c) /\ Stopped(c)
      /\ pending \in [Procs -> SUBSET Entries] /\ fwd \in [Procs -> Seq(Messages)]
      /\ down \in Seq(Messages) /\ back \in [Procs -> Seq(Results)]
      /\ counter \in [Procs -> Nat] /\ call \in [Calls -> CallRecords]
  BY DEF Core, Tidy, Types, ProcTypes, WaitTypes, MessageTypes, WorkTypes
<1>5. /\ m \in Range(back[s]) /\ Range(Tail(back[s])) \subseteq Range(back[s])
  <2>1. back[s] \in Seq(Results)
    BY <1>4
  <2> QED  BY <2>1, <1>0, <1>2, TailRange
<1>6. pending'[First] = pending[First]
  BY <1>2, <1>3, <1>4
<1>7. ASSUME NEW r \in mine
      PROVE  /\ \A e \in pending[First] : e.call # r.call
             /\ ~IsFwd(r.call)
  <2>1. r \in pending[s] /\ r.id = m.id
    BY <1>1
  <2>2. g[s][m.id] = r.call
    BY <2>1, <1>4 DEF Numbered
  <2>3. PICK i \in 1 .. counter[First] : g[First][i] = r.call
    BY <2>2, <1>4, <1>5 DEF Closed
  <2>4. ~IsFwd(g[First][i])
    BY <1>3, <1>4 DEF Numbered
  <2> QED  BY <2>2, <2>3, <2>4, <1>4, <1>5 DEF Closed
<1>8. ASSUME NEW c \in Calls
      PROVE  Stopped(c)'
  <2>1. <<>> \in Seq(Messages) /\ ~In(<<>>, c) /\ down' = down \o <<>>
    BY <1>2, <1>4 DEF In, Range
  <2>2. CASE \E r \in mine : r.call = c
    <3>1. ~IsFwd(c) /\ \A e \in pending[First] : e.call # c
      BY <2>2, <1>7
    <3>2. \A q \in Procs : Dropped(fwd'[q], c)
      BY <3>1, <1>2, NotIn DEF IsFwd
    <3> QED  BY <3>1, <3>2, <2>1, <1>2, <1>4, StoppedFrame
  <2>3. CASE \A r \in mine : r.call # c
    <3>1. call'[c] = call[c]
      BY <2>3, <1>2, <1>4 DEF Answer
    <3>2. call'[c].st # "pending" => \A q \in Procs : Dropped(fwd'[q], c)
      BY <3>1, <1>2, <1>4 DEF Stopped
    <3>3. ASSUME NEW r \in pending[First], r.call = c, Informed(c, r)
          PROVE  r \in pending'[First] /\ Informed(c, r)'
      BY <3>1, <3>3, <1>2, <1>6 DEF Informed, CancelIn
    <3> QED  BY <3>2, <3>3, <2>1, <1>2, <1>4, StoppedFrame
  <2> QED  BY <2>2, <2>3
<1>9. Closed(g)'
  <2>1. Keeps(g, g)
    BY <1>2, <1>4 DEF Keeps
  <2>2. ASSUME NEW q \in Procs, NEW n \in Range(back'[q])
        PROVE  n \in Range(back[q])
    BY <2>2, <1>2, <1>4, <1>5
  <2> QED  BY <2>1, <2>2, <1>2, <1>4, <1>6, ClosedFrame
<1> QED  BY <1>8, <1>9

(* A call that nobody waits for is registered before its cancellation       *)
(* arrives.                                                                 *)
LEMMA RegisterTidy ==
    ASSUME Register, NEW g, Core(g), Core(g)', Tidy(g)
    PROVE  Tidy(g)'
<1>0. PICK m : m = Head(down)
  OBVIOUS
<1>1. PICK d : d = m.call
  OBVIOUS
<1>2. /\ down # <<>> /\ m.type = "call" /\ down' = Tail(down)
      /\ work' = [work EXCEPT ![d] = [st |-> "queued", id |-> m.id, aborted |-> FALSE]]
      /\ registry' = [registry EXCEPT ![m.id] = d]
      /\ UNCHANGED <<linked, counter, pending, fwd, back, up, call, faults>>
  BY <1>0, <1>1 DEF Register, bridgeVars, linkVars
<1> SUFFICES ASSUME ~faults.lost
             PROVE  (\A c \in Calls : Stopped(c)') /\ Closed(g)'
  BY <1>2 DEF Tidy
<1>3. /\ Numbered(g) /\ Closed(g) /\ MeantMessages(g) /\ MeantWork(g) /\ First \in Procs
      /\ \A c \in Calls : Placed(c) /\ Placed(c)' /\ Stopped(c)
      /\ down \in Seq(Messages) /\ work \in [Calls -> WorkRecords]
      /\ registry \in [Ids -> Calls \cup {NoCall}] /\ counter \in [Procs -> Nat]
      /\ \A c \in Calls : work[c].st # "none" => work[c].id # 0
  BY CalmFacts DEF Core, Tidy, Types, ProcTypes, WorkTypes, MessageTypes
<1>4. /\ m \in Messages /\ m \in Range(down) /\ Range(down) = {m} \cup Range(Tail(down))
      /\ \A c : Dropped(down, c) => Dropped(Tail(down), c)
      /\ \A c : Dropped(down, c) /\ Carries(m, c) => CancelIn(Tail(down), m.id)
  BY <1>0, <1>2, <1>3, TailRange, TailCalls
<1>5. d \in Calls /\ m.id \in 1 .. N /\ m.id \in Ids /\ Carries(m, d) /\ In(down, d)
  BY <1>1, <1>2, <1>4, NFacts DEF Messages, Carries, In
<1>6. ASSUME NEW c \in Calls, NEW id
      PROVE  Waited(c, id) => Waited(c, id)'
  BY <1>2 DEF Waited, Informed, CancelIn
<1>7. ASSUME NEW c \in Calls
      PROVE  call'[c].st # "pending" => \A p \in Procs : Dropped(fwd'[p], c)
  BY <1>2, <1>3 DEF Stopped
<1>8. Stopped(d)'
  <2>1. ~In(down', d) /\ work'[d] = [st |-> "queued", id |-> m.id, aborted |-> FALSE]
    <3>1. work'[d] = [st |-> "queued", id |-> m.id, aborted |-> FALSE]
      BY <1>2, <1>3, <1>5
    <3>2. work'[d].st # "none"
      BY <3>1
    <3> QED  BY <3>1, <3>2, <1>3, <1>5 DEF Placed, In
  <2>2. Dropped(down', d)
    BY <2>1, NotIn
  <2>3. registry'[m.id] = d
    BY <1>2, <1>3, <1>5
  <2>4. CancelIn(down', m.id) \/ Waited(d, m.id)'
    <3>1. Dropped(down, d) \/ Waited(d, m.id)
      BY <1>3, <1>4, <1>5 DEF Stopped
    <3> QED  BY <3>1, <1>2, <1>4, <1>5, <1>6
  <2>5. Waited(d, m.id)' => Waited(d, work[d].id)'
    BY <2>1 DEF Waited, Informed
  <2> QED  BY <2>1, <2>2, <2>3, <2>4, <2>5, <1>5, <1>7 DEF Stopped, Dropped, CancelIn
<1>9. ASSUME NEW c \in Calls, c # d
      PROVE  Stopped(c)'
  <2>0. PICK id : id = work[c].id
    OBVIOUS
  <2>1. work'[c] = work[c] /\ Stopped(c)
    BY <1>2, <1>3, <1>9
  <2>2. \/ Dropped(down', c)
        \/ \A n \in Range(down') : Carries(n, c) => Waited(c, n.id)'
    <3>1. CASE Dropped(down, c)
      BY <3>1, <1>2, <1>4
    <3>2. CASE \A n \in Range(down) : Carries(n, c) => Waited(c, n.id)
      <4>1. ASSUME NEW n \in Range(down'), Carries(n, c)
            PROVE  Waited(c, n.id)'
        BY <4>1, <3>2, <1>2, <1>4, <1>6
      <4> QED  BY <4>1
    <3> QED  BY <3>1, <3>2, <2>1 DEF Stopped
  <2>3. ASSUME Alive(c)
        PROVE  registry'[id] = c
    <3>1. registry[id] = c /\ work[c].st # "none" /\ id \in 1 .. N
      <4>1. registry[id] = c /\ work[c].st # "none"
        BY <2>0, <2>1, <2>3 DEF Stopped, Alive
      <4>2. id \in 0 .. N /\ id # 0
        BY <2>0, <4>1, <1>3 DEF WorkRecords
      <4> QED  BY <4>1, <4>2, NFacts
    <3>2. id # m.id
      BY <3>1, <2>0, <1>1, <1>2, <1>3, <1>4, <1>9 DEF MeantWork, MeantMessages, Gave
    <3> QED  BY <3>1, <3>2, <1>2, <1>3, NFacts
  <2>4. ASSUME Alive(c), ~work[c].aborted
        PROVE  CancelIn(down', id) \/ Waited(c, id)'
    <3>1. CancelIn(down, id) \/ Waited(c, id)
      BY <2>0, <2>1, <2>4 DEF Stopped
    <3>2. Cancel(id) # m
      BY <1>2 DEF Cancel
    <3> QED  BY <3>1, <3>2, <1>2, <1>4, <1>6 DEF CancelIn
  <2>5. Alive(c)' <=> Alive(c)
    BY <2>1 DEF Alive
  <2>6. Waited(c, id)' => Waited(c, work[c].id)'
    BY <2>0, <2>1 DEF Waited, Informed
  <2> QED  BY <2>0, <2>1, <2>2, <2>3, <2>4, <2>5, <2>6, <1>7 DEF Stopped, Dropped, CancelIn
<1>10. Closed(g)'
  <2>1. Keeps(g, g)
    BY <1>2, <1>3 DEF Keeps
  <2>2. work[d].st = "none"
    BY <1>3, <1>5 DEF Placed
  <2>3. \A c \in Calls : work[c].st = "over" => work'[c].st = "over"
    BY <2>2, <1>2, <1>3
  <2> QED  BY <2>1, <2>3, <1>2, <1>3, ClosedFrame
<1> QED  BY <1>8, <1>9, <1>10

(* A cancellation finds the call under its id.                              *)
LEMMA CancelWorkTidy ==
    ASSUME CancelWork, NEW g, Core(g), Tidy(g)
    PROVE  Tidy(g)'
<1>0. PICK m : m = Head(down)
  OBVIOUS
<1>1. PICK d : d = registry[m.id]
  OBVIOUS
<1>2. /\ down # <<>> /\ m.type = "cancel" /\ down' = Tail(down)
      /\ work' = IF d = NoCall THEN work ELSE [work EXCEPT ![d].aborted = TRUE]
      /\ UNCHANGED <<linked, counter, pending, fwd, back, up, registry, call, faults>>
  BY <1>0, <1>1 DEF CancelWork, bridgeVars, linkVars
<1> SUFFICES ASSUME ~faults.lost
             PROVE  (\A c \in Calls : Stopped(c)') /\ Closed(g)'
  BY <1>2 DEF Tidy
<1>3. /\ Closed(g) /\ counter \in [Procs -> Nat] /\ NoCall \notin Calls
      /\ \A c \in Calls : Stopped(c)
      /\ down \in Seq(Messages) /\ work \in [Calls -> WorkRecords]
  BY BridgeCallsAssumption DEF Core, Tidy, Types, ProcTypes, WorkTypes, MessageTypes
<1>4. /\ m \in Messages /\ Range(down) = {m} \cup Range(Tail(down))
      /\ \A c : Dropped(down, c) => Dropped(Tail(down), c)
  BY <1>0, <1>2, <1>3, TailRange, TailCalls
<1>5. ASSUME NEW c \in Calls
      PROVE  /\ work'[c].st = work[c].st /\ work'[c].id = work[c].id
             /\ ~work'[c].aborted => ~work[c].aborted /\ c # d
  BY <1>2, <1>3 DEF WorkRecords
<1>6. ASSUME NEW c \in Calls, NEW id
      PROVE  Waited(c, id) => Waited(c, id)'
  BY <1>2 DEF Waited, Informed, CancelIn
<1>7. ASSUME NEW c \in Calls
      PROVE  Stopped(c)'
  <2>0. PICK id : id = work[c].id
    OBVIOUS
  <2>1. Stopped(c) /\ (Alive(c)' <=> Alive(c))
    BY <1>3, <1>5 DEF Alive
  <2>2. call'[c].st # "pending" => \A p \in Procs : Dropped(fwd'[p], c)
    BY <2>1, <1>2 DEF Stopped
  <2>3. \/ Dropped(down', c)
        \/ \A n \in Range(down') : Carries(n, c) => Waited(c, n.id)'
    <3>1. CASE Dropped(down, c)
      BY <3>1, <1>2, <1>4
    <3>2. CASE \A n \in Range(down) : Carries(n, c) => Waited(c, n.id)
      <4>1. ASSUME NEW n \in Range(down'), Carries(n, c)
            PROVE  Waited(c, n.id)'
        BY <4>1, <3>2, <1>2, <1>4, <1>6
      <4> QED  BY <4>1
    <3> QED  BY <3>1, <3>2, <2>1 DEF Stopped
  <2>4. Alive(c)' => registry'[work'[c].id] = c
    BY <2>1, <1>2, <1>5 DEF Stopped
  <2>5. ASSUME Alive(c)', ~work'[c].aborted
        PROVE  CancelIn(down', id) \/ Waited(c, id)'
    <3>1. registry[id] = c /\ (CancelIn(down, id) \/ Waited(c, id)) /\ c # d
      BY <2>0, <2>1, <2>5, <1>5 DEF Stopped
    <3>2. Cancel(id) # m
      BY <3>1, <1>1 DEF Cancel
    <3> QED  BY <3>1, <3>2, <1>2, <1>4, <1>6 DEF CancelIn
  <2>6. Waited(c, id)' => Waited(c, work[c].id)'
    BY <2>0, <1>5 DEF Waited, Informed
  <2> QED  BY <2>0, <2>2, <2>3, <2>4, <2>5, <2>6, <1>5 DEF Stopped, Dropped, CancelIn
<1>8. Closed(g)'
  <2>1. Keeps(g, g)
    BY <1>2, <1>3 DEF Keeps
  <2> QED  BY <2>1, <1>2, <1>3, <1>5, ClosedFrame
<1> QED  BY <1>7, <1>8

(* A turn or a deadline leaves the id registered.                           *)
LEMMA TurnTidy ==
    ASSUME NEW d \in Calls, Begin(d) \/ Deadline(d), NEW g, Core(g), Tidy(g)
    PROVE  Tidy(g)'
<1>1. /\ Alive(d)
      /\ UNCHANGED <<linked, counter, pending, fwd, back, down, up, registry, call, faults>>
  BY DEF Begin, Deadline, Alive, bridgeVars, linkVars, sockVars
<1> SUFFICES ASSUME ~faults.lost
             PROVE  (\A c \in Calls : Stopped(c)') /\ Closed(g)'
  BY <1>1 DEF Tidy
<1>2. /\ Closed(g) /\ counter \in [Procs -> Nat] /\ work \in [Calls -> WorkRecords]
      /\ \A c \in Calls : Stopped(c)
  BY DEF Core, Tidy, Types, ProcTypes, WorkTypes
<1>3. ASSUME NEW c \in Calls
      PROVE  /\ work'[c].id = work[c].id
             /\ Alive(c)' => Alive(c)
             /\ ~work'[c].aborted => ~work[c].aborted
             /\ work[c].st = "over" => work'[c].st = "over"
  <2>1. CASE c # d
    <3>1. work'[c] = work[c]
      BY <2>1, <1>2 DEF Begin, Deadline
    <3> QED  BY <3>1 DEF Alive
  <2>2. CASE c = d /\ Begin(d)
    <3>1. work'[d].id = work[d].id /\ work'[d].aborted = work[d].aborted
      BY <2>2, <1>2 DEF Begin, WorkRecords
    <3> QED  BY <3>1, <2>2, <1>1 DEF Alive
  <2>3. CASE c = d /\ Deadline(d)
    <3>1. work'[d].id = work[d].id /\ work'[d].aborted
      BY <2>3, <1>2 DEF Deadline, WorkRecords
    <3> QED  BY <3>1, <2>3, <1>1 DEF Alive
  <2> QED  BY <2>1, <2>2, <2>3
<1>4. ASSUME NEW c \in Calls
      PROVE  Stopped(c)'
  <2>1. Stopped(c)
    BY <1>2
  <2>2. ASSUME NEW id PROVE Waited(c, id) => Waited(c, id)'
    BY <1>1 DEF Waited, Informed, CancelIn
  <2>3. call'[c].st # "pending" => \A p \in Procs : Dropped(fwd'[p], c)
    BY <2>1, <1>1 DEF Stopped
  <2>4. Dropped(down', c) \/ \A n \in Range(down') : Carries(n, c) => Waited(c, n.id)'
    BY <2>1, <2>2, <1>1 DEF Stopped
  <2>5. Alive(c)' => registry'[work'[c].id] = c
    BY <2>1, <1>1, <1>3 DEF Stopped
  <2>6. PICK id : id = work[c].id
    OBVIOUS
  <2>7. Alive(c)' /\ ~work'[c].aborted => CancelIn(down', id) \/ Waited(c, id)'
    BY <2>1, <2>2, <2>6, <1>1, <1>3 DEF Stopped
  <2>8. Waited(c, id)' => Waited(c, work[c].id)'
    BY <2>6, <1>3 DEF Waited, Informed
  <2> QED  BY <2>3, <2>4, <2>5, <2>6, <2>7, <2>8, <1>3 DEF Stopped, Dropped, CancelIn
<1>5. Closed(g)'
  <2>1. Keeps(g, g)
    BY <1>1, <1>2 DEF Keeps
  <2> QED  BY <2>1, <1>1, <1>2, <1>3, ClosedFrame
<1> QED  BY <1>4, <1>5

(* The end of a call unregisters no other one.                              *)
LEMMA FinishTidy ==
    ASSUME NEW d \in Calls, Finish(d), NEW g, Core(g), Core(g)', Tidy(g)
    PROVE  Tidy(g)'
<1>0. PICK i : i = work[d].id
  OBVIOUS
<1>1. /\ work[d].st # "none" /\ work' = [work EXCEPT ![d].st = "over"]
      /\ registry' = [registry EXCEPT ![i] = IF @ = d THEN NoCall ELSE @]
      /\ UNCHANGED <<linked, counter, pending, fwd, back, down, call, faults>>
  BY <1>0 DEF Finish, Deregistered, bridgeVars, linkVars
<1> SUFFICES ASSUME ~faults.lost
             PROVE  (\A c \in Calls : Stopped(c)') /\ Closed(g)'
  BY <1>1 DEF Tidy
<1>2. /\ Closed(g) /\ MeantWork(g) /\ counter \in [Procs -> Nat] /\ work \in [Calls -> WorkRecords]
      /\ \A c \in Calls : Placed(c)' /\ Stopped(c)
      /\ registry \in [Ids -> Calls \cup {NoCall}] /\ up \in Seq(Results)
      /\ WorkTypes
  BY CalmFacts DEF Core, Tidy, Types, ProcTypes, WorkTypes, MessageTypes
<1>3. work'[d].st = "over" /\ \A c \in Calls : c # d => work'[c] = work[c]
  BY <1>1, <1>2 DEF WorkRecords
<1>4. i \in 1 .. N /\ g[First][i] = d
  <2>1. i \in 0 .. N /\ i # 0 /\ g[First][i] = d
    BY <1>0, <1>1, <1>2 DEF WorkTypes, WorkRecords, MeantWork, Gave
  <2> QED  BY <2>1, NFacts
<1>5. ASSUME NEW c \in Calls, c # d
      PROVE  Stopped(c)'
  <2>1. Stopped(c) /\ work'[c] = work[c]
    BY <1>2, <1>3, <1>5
  <2>2. ASSUME NEW id PROVE Waited(c, id) => Waited(c, id)'
    BY <1>1 DEF Waited, Informed, CancelIn
  <2>3. call'[c].st # "pending" => \A p \in Procs : Dropped(fwd'[p], c)
    BY <2>1, <1>1 DEF Stopped
  <2>4. Dropped(down', c) \/ \A n \in Range(down') : Carries(n, c) => Waited(c, n.id)'
    BY <2>1, <2>2, <1>1 DEF Stopped
  <2>5. PICK id : id = work[c].id
    OBVIOUS
  <2>6. Alive(c)' <=> Alive(c)
    BY <2>1 DEF Alive
  <2>7. ASSUME Alive(c)
        PROVE  registry'[id] = c
    <3>1. registry[id] = c
      BY <2>1, <2>5, <2>7 DEF Stopped
    <3>2. id \in Ids
      <4>1. id \in 0 .. N /\ id # 0
        BY <2>5, <2>7, <1>2 DEF Alive, WorkTypes, WorkRecords
      <4> QED  BY <4>1, NFacts
    <3> QED  BY <3>1, <3>2, <1>1, <1>2, <1>5
  <2>8. Alive(c) /\ ~work[c].aborted => CancelIn(down', id) \/ Waited(c, id)'
    BY <2>1, <2>2, <2>5, <1>1 DEF Stopped
  <2>9. Waited(c, id)' => Waited(c, work[c].id)'
    BY <2>1, <2>5 DEF Waited, Informed
  <2> QED  BY <2>1, <2>3, <2>4, <2>5, <2>6, <2>7, <2>8, <2>9 DEF Stopped, Dropped, CancelIn
<1>6. Stopped(d)'
  BY <1>2, <1>3, StoppedOver
<1>7. Closed(g)'
  <2>1. Keeps(g, g)
    BY <1>1, <1>2 DEF Keeps
  <2>2. ASSUME NEW n \in Range(up')
        PROVE  n \in Range(up) \/ work'[g[First][n.id]].st = "over"
    <3>1. PICK what \in Whats : up' = up \/ up' = Append(up, Result(i, what))
      BY <1>0 DEF Finish, Whats
    <3>2. CASE up' = up
      BY <2>2, <3>2
    <3>3. CASE up' = Append(up, Result(i, what))
      <4>1. Result(i, what) \in Results
        BY <1>4 DEF Result, Results
      <4>2. n \in Range(up) \/ n = Result(i, what)
        BY <4>1, <3>3, <2>2, <1>2, AppendRange
      <4>3. n = Result(i, what) => g[First][n.id] = d
        BY <1>4 DEF Result
      <4> QED  BY <4>2, <4>3, <1>3
    <3> QED  BY <3>1, <3>2, <3>3
  <2>3. \A c \in Calls : work[c].st = "over" => work'[c].st = "over"
    BY <1>3
  <2> QED  BY <2>1, <2>2, <2>3, <1>1, <1>2, ClosedFrame
<1> QED  BY <1>5, <1>6, <1>7

(* Nothing else can fail while the socket is open: it never closes again.   *)
LEMMA FaultTidy ==
    ASSUME \/ Drop \/ KillWorker
           \/ \E p \in Procs : Connect(p) \/ Join(p) \/ RecoveryExpires(p),
           NEW g, Core(g), Tidy(g)
    PROVE  Tidy(g)'
<1>1. CASE Drop \/ KillWorker
  <2>1. faults'.lost = TRUE
    BY <1>1 DEF Drop, KillWorker, Core, Types, ProcTypes
  <2> QED  BY <2>1 DEF Tidy
<1>2. ASSUME UNCHANGED faults
      PROVE  faults.lost => Tidy(g)'
  BY <1>2 DEF Tidy
<1>3. ASSUME NEW p \in Procs, Connect(p)
      PROVE  Tidy(g)'
  <2>1. ext = NoProc /\ UNCHANGED faults
    BY <1>3 DEF Connect
  <2> QED  BY <2>1, <1>2, CalmFacts
<1>4. ASSUME NEW p \in Procs, RecoveryExpires(p)
      PROVE  Tidy(g)'
  <2>1. role[p] = "proxy" /\ p \notin linked /\ UNCHANGED faults
    BY <1>4 DEF RecoveryExpires
  <2> QED  BY <2>1, <1>2, CalmFacts
<1>5. ASSUME NEW p \in Procs, Join(p)
      PROVE  Tidy(g)'
  <2>1. /\ UNCHANGED <<counter, pending, fwd, back, down, up, work, registry, call, faults>>
        /\ \A q \in linked : q \in linked'
    BY <1>5 DEF Join, linkVars, sockVars, swVars
  <2> SUFFICES ASSUME ~faults.lost
               PROVE  (\A c \in Calls : Stopped(c)') /\ Closed(g)'
    BY <2>1 DEF Tidy
  <2>2. ASSUME NEW c \in Calls
        PROVE  Stopped(c)'
    <3>1. Stopped(c) /\ Placed(c) /\ down \in Seq(Messages)
      BY DEF Core, Tidy, Types, MessageTypes
    <3>2. <<>> \in Seq(Messages) /\ ~In(<<>>, c) /\ down' = down \o <<>>
      BY <2>1, <3>1 DEF In, Range
    <3>3. call'[c].st # "pending" => \A q \in Procs : Dropped(fwd'[q], c)
      BY <2>1, <3>1 DEF Stopped
    <3>4. ASSUME NEW r \in pending[First], r.call = c, Informed(c, r)
          PROVE  r \in pending'[First] /\ Informed(c, r)'
      BY <2>1, <3>4 DEF Informed, CancelIn
    <3> QED  BY <2>1, <3>1, <3>2, <3>3, <3>4, StoppedFrame
  <2>3. Closed(g)'
    BY <2>1 DEF Tidy, Closed
  <2> QED  BY <2>2, <2>3
<1> QED  BY <1>1, <1>3, <1>4, <1>5

(* The primary cancels what it relays for a dead process.                   *)
LEMMA CrashTidy ==
    ASSUME NEW p \in Procs, Crash(p), NEW g, Core(g), Tidy(g),
           NEW k, \A q \in Procs : q # p => counter'[q] = counter[q] /\ k[q] = g[q]
    PROVE  Tidy(k)'
<1> SUFFICES ASSUME ~faults'.lost
             PROVE  (\A c \in Calls : Stopped(c)') /\ Closed(k)'
  BY DEF Tidy
<1>1. /\ Types /\ Links /\ Settled /\ Waiting /\ Numbered(g)
      /\ \A c \in Calls : Placed(c)
  BY DEF Core
<1>2. /\ ~faults.lost /\ p # First /\ p \in linked /\ ~Primary(p) /\ ext = First
      /\ First \in Procs /\ ThePrimary = First
  BY <1>1, SteadyCrash DEF Steady
<1>3. /\ Closed(g) /\ NoProc \notin Procs /\ linked \subseteq Procs
      /\ \A c \in Calls : Stopped(c)
      /\ pending \in [Procs -> SUBSET Entries] /\ fwd \in [Procs -> Seq(Messages)]
      /\ down \in Seq(Messages) /\ back \in [Procs -> Seq(Results)]
      /\ call \in [Calls -> CallRecords] /\ IsFiniteSet(pending[First])
  BY <1>2, CalmFacts DEF Core, Tidy, Types, ProcTypes, WaitTypes, WorkTypes, MessageTypes
<1>4. PICK o : o = Orphans(First, p)
  OBVIOUS
<1>5. PICK y : y = SetToSeq({Cancel(r.id) : r \in o})
  OBVIOUS
<1>6. /\ UNCHANGED <<up, work, registry>>
      /\ linked' = linked \ {p}
      /\ fwd' = [fwd EXCEPT ![p] = <<>>] /\ back' = [back EXCEPT ![p] = <<>>]
      /\ pending' = [pending EXCEPT ![p] = {}, ![First] = @ \ o]
      /\ down' = down \o y
      /\ call' = [c \in Calls |->
           IF Home[c] = p /\ call[c].st \in {"waiting", "pending"}
           THEN [call[c] EXCEPT !.st = "lost"] ELSE call[c]]
  BY <1>2, <1>4, <1>5 DEF Crash, ToExt, swVars
<1>7. Quiet(y) /\ \A r \in o : CancelIn(y, r.id)
  <2>1. o \subseteq pending[First]
    BY <1>4 DEF Orphans
  <2>2. IsFiniteSet(o) /\ \A r \in o : r.id \in 1 .. N
    BY <2>1, <1>2, <1>3, FS_Subset DEF Entries
  <2> QED  BY <2>2, <1>5, QuietSets
<1>8. y \in Seq(Messages) /\ \A c : ~In(y, c)
  BY <1>7, QuietCalls DEF Quiet
<1>9. /\ pending'[First] = pending[First] \ o
      /\ \A q \in Procs : q # p => fwd'[q] = fwd[q] /\ back'[q] = back[q]
      /\ fwd'[p] = <<>> /\ Range(back'[p]) = {}
  BY <1>2, <1>3, <1>6 DEF Range
<1>10. ASSUME NEW c \in Calls
       PROVE  Stopped(c)'
  <2>1. ASSUME call'[c].st # "pending", NEW q \in Procs
        PROVE  Dropped(fwd'[q], c)
    <3>1. CASE q = p
      BY <3>1, <1>9 DEF Dropped
    <3>2. CASE q # p /\ call[c].st # "pending"
      BY <3>2, <1>3, <1>9 DEF Stopped
    <3>3. CASE q # p /\ call[c].st = "pending"
      <4>1. Home[c] = p
        BY <2>1, <3>3, <1>6
      <4>2. ~In(fwd[q], c)
        BY <3>3, <4>1, <1>1 DEF Placed
      <4> QED  BY <3>3, <4>2, <1>9, NotIn
    <3> QED  BY <3>1, <3>2, <3>3
  <2>2. ASSUME NEW r \in pending[First], r.call = c, Informed(c, r)
        PROVE  CancelIn(y, r.id) \/ (r \in pending'[First] /\ Informed(c, r)')
    <3>1. CASE r \in o
      BY <3>1, <1>7
    <3>2. CASE r \notin o
      <4>1. r \in pending'[First] /\ r.from # p
        BY <3>2, <1>2, <1>4, <1>9 DEF Orphans, Relayed
      <4>2. CASE r.from # First
        <5>1. r.from \in linked' /\ r.from \in Procs /\ r.from = Home[c]
          BY <2>2, <4>1, <4>2, <1>1, <1>2, <1>3, <1>6 DEF Informed, Waiting
        <5>2. call'[c] = call[c] /\ fwd'[r.from] = fwd[r.from]
          BY <5>1, <4>1, <1>6, <1>9
        <5>3. Informed(c, r)'
          BY <5>1, <5>2, <4>2, <2>2 DEF Informed, CancelIn
        <5> QED  BY <4>1, <5>3
      <4>3. CASE r.from = First
        BY <4>1, <4>3 DEF Informed
      <4> QED  BY <4>2, <4>3
    <3> QED  BY <3>1, <3>2
  <2>3. Placed(c) /\ Stopped(c) /\ ~In(y, c)
    BY <1>1, <1>3, <1>8
  <2> QED  BY <2>1, <2>2, <2>3, <1>3, <1>6, <1>8, StoppedFrame
<1>11. Closed(k)'
  <2>1. counter'[First] = counter[First] /\ k[First] = g[First]
    BY <1>2
  <2>2. ASSUME NEW q \in Procs, NEW m \in Range(back'[q])
        PROVE  /\ \E i \in 1 .. counter'[First] : k[First][i] = k[q][m.id]
               /\ \A r \in pending'[First] : r.call # k[q][m.id]
    <3>1. q # p /\ m \in Range(back[q])
      BY <2>2, <1>9
    <3>2. k[q] = g[q]
      BY <3>1
    <3>3. /\ \E i \in 1 .. counter[First] : g[First][i] = g[q][m.id]
          /\ \A r \in pending[First] : r.call # g[q][m.id]
      BY <3>1, <1>3 DEF Closed
    <3>4. \A r \in pending'[First] : r \in pending[First]
      BY <1>9
    <3> QED  BY <3>2, <3>3, <3>4, <2>1
  <2> QED  BY <2>1, <2>2, <1>3, <1>6 DEF Closed
<1> QED  BY <1>10, <1>11

(* Nothing happens, so nothing has to be stopped.                           *)
LEMMA StutterTidy ==
    ASSUME UNCHANGED vars, NEW g, Tidy(g)
    PROVE  Tidy(g)'
BY DEF vars, bridgeVars, linkVars, sockVars, swVars, Tidy, Stopped, Closed, Dropped, Waited,
       Informed, CancelIn, Alive

-----------------------------------------------------------------------------
(* The inductive invariant.                                                *)

(* The invariant holds at the start.                                        *)
LEMMA InitInv == Init => CallsInv
<1> SUFFICES ASSUME Init PROVE \E g : Core(g) /\ Tidy(g)
  BY DEF CallsInv
<1> USE DEF Init
<1>1. NoProc \notin Procs /\ First \in Procs /\ NoCall \notin Calls
  BY BridgeCallsAssumption
<1>2. \A S : <<>> \in Seq(S) /\ Range(<<>>) = {} /\ DOMAIN <<>> = 1 .. 0
  BY DEF Range
<1>3. Types
  <2>1. ProcTypes
    BY <1>1 DEF ProcTypes
  <2>2. WaitTypes
    BY FS_EmptySet DEF WaitTypes
  <2>3. MessageTypes
    BY <1>2 DEF MessageTypes
  <2>4. WorkTypes
    <3>1. work \in [Calls -> WorkRecords] /\ \A c \in Calls : work[c].st = "none"
      BY NFacts DEF NoWork, WorkRecords
    <3>2. call \in [Calls -> CallRecords]
      BY DEF CallRecords
    <3> QED  BY <3>1, <3>2 DEF WorkTypes
  <2> QED  BY <2>1, <2>2, <2>3, <2>4 DEF Types
<1>4. \A p \in Procs : Primary(p) <=> p = First
  BY DEF Primary
<1>5. Links
  BY <1>1, <1>4 DEF Links, NoPrimary, Primary
<1>6. Settled
  BY <1>1, <1>4 DEF Settled
<1>7. \A c \in Calls : ~IsFwd(c) /\ ~IsHeld(c) /\ ~In(down, c)
  BY <1>2 DEF IsFwd, IsHeld, HeldFor, In
<1>8. ASSUME NEW c \in Calls
      PROVE  Placed(c)
  <2>1. Once(down, c) /\ \A p \in Procs : ~In(fwd[p], c) /\ HeldFor(p, c) = {}
    BY <1>2 DEF Once, In, HeldFor
  <2> QED  BY <1>7, <2>1 DEF Placed, NoWork
<1>9. Waiting /\ Holding /\ OwnAnswers
  BY DEF Waiting, Holding, OwnAnswers
<1> DEFINE g == [p \in Procs |-> <<>>]
<1>10. g \in [Procs -> Seq(Calls)] /\ \A p \in Procs : Len(g[p]) = 0 /\ counter[p] = 0
  BY <1>2
<1>11. Numbered(g)
  <2>1. \A p \in Procs : 1 .. counter[p] = {}
    BY <1>10
  <2> QED  BY <1>10, <2>1 DEF Numbered
<1>12. Meant(g)
  <2>1. MeantMessages(g) /\ MeantWaits(g)
    BY <1>1, <1>2 DEF MeantMessages, MeantWaits
  <2>2. MeantWork(g)
    BY DEF MeantWork, NoWork
  <2>3. MeantResults(g)
    BY <1>2 DEF MeantResults
  <2> QED  BY <2>1, <2>2, <2>3 DEF Meant
<1>13. Core(g)
  BY <1>3, <1>5, <1>6, <1>8, <1>9, <1>10, <1>11, <1>12 DEF Core
<1>14. Tidy(g)
  <2>1. ASSUME NEW c \in Calls
        PROVE  Stopped(c)
    <3>1. ~Alive(c)
      BY DEF Alive, NoWork
    <3>2. Dropped(down, c) /\ \A p \in Procs : Dropped(fwd[p], c)
      BY <1>2 DEF Dropped
    <3> QED  BY <3>1, <3>2 DEF Stopped
  <2>2. Closed(g)
    BY <1>2 DEF Closed
  <2> QED  BY <2>1, <2>2 DEF Tidy
<1> QED  BY <1>13, <1>14

(* Every step keeps the invariant: one lemma per kind of step.              *)
LEMMA StepInv == CallsInv /\ [Next]_vars => CallsInv'
<1> SUFFICES ASSUME NEW g, Core(g), Tidy(g), [Next]_vars
             PROVE  \E k : Core(k)' /\ Tidy(k)'
  BY DEF CallsInv
<1>1. ASSUME NEW c \in Calls, ClientStep(c) \/ ClientCancels(c)
      PROVE  \E k : Core(k)' /\ Tidy(k)'
  <2>1. CASE SendCall(c)
    <3>1. PICK k : k = [g EXCEPT ![Home[c]] = Append(@, c)]
      OBVIOUS
    <3>2. Gives(g, k, Home[c], c) /\ Core(k)'
      BY <2>1, <3>1, SendCore
    <3> QED  BY <2>1, <3>2, SendTidy
  <2>2. CASE Wait(c) \/ GiveUp(c)
    BY <2>2, ClientCore, WaitTidy
  <2>3. CASE ClientCancels(c)
    BY <2>3, ClientCore, CancelsTidy
  <2> QED  BY <1>1, <2>1, <2>2, <2>3 DEF ClientStep
<1>2. ASSUME NEW p \in Procs, LinkStep(p) \/ Timers(p)
      PROVE  \E k : Core(k)' /\ Tidy(k)'
  <2>1. ASSUME NEW s \in Procs, RelayCall(p, s)
        PROVE  \E k : Core(k)' /\ Tidy(k)'
    <3>1. PICK k : k = [g EXCEPT ![p] = Append(@, Head(fwd[s]).call)]
      OBVIOUS
    <3>2. IF ext = p THEN Gives(g, k, p, Head(fwd[s]).call) /\ Core(k)' ELSE Core(g)'
      BY <2>1, <3>1, RelayCore
    <3>3. IF ext = p THEN Tidy(k)' ELSE Tidy(g)'
      BY <2>1, <3>2, RelayTidy
    <3> QED  BY <3>2, <3>3
  <2>2. ASSUME NEW h \in held[p], HeldResumes(p, h) \/ HeldExpires(p, h)
        PROVE  \E k : Core(k)' /\ Tidy(k)'
    <3>1. PICK k : k = [g EXCEPT ![p] = Append(@, h.call)]
      OBVIOUS
    <3>2. IF ext = p THEN Core(k)' ELSE Core(g)'
      BY <2>2, <3>1, HeldCore
    <3>3. faults.lost /\ UNCHANGED faults
      <4>1. UNCHANGED faults
        BY <2>2 DEF HeldResumes, HeldExpires
      <4> QED  BY <4>1, CalmFacts
    <3>4. \A j : Tidy(j)'
      BY <3>3 DEF Tidy
    <3> QED  BY <3>2, <3>4
  <2>3. ASSUME NEW s \in Procs, RelayCancel(p, s)
        PROVE  Core(g)' /\ Tidy(g)'
    BY <2>3, ServerCore, RelayCancelTidy
  <2>4. ASSUME NEW r \in pending[p], Timeout(p, r)
        PROVE  Core(g)' /\ Tidy(g)'
    BY <2>4, ServerCore, TimeoutTidy
  <2>5. CASE TakeResult(p) \/ TakeRelayed(p)
    <3>1. Core(g)'
      BY <2>5, ServerCore
    <3> QED  BY <2>5, <3>1, TakeResultTidy, TakeRelayedTidy
  <2> QED  BY <1>2, <2>1, <2>2, <2>3, <2>4, <2>5 DEF LinkStep, Timers
<1>3. ASSUME Register \/ CancelWork \/ \E c \in Calls : Begin(c) \/ Finish(c) \/ Deadline(c)
      PROVE  Core(g)' /\ Tidy(g)'
  <2>1. Core(g)'
    BY <1>3, ExtensionCore
  <2> QED  BY <1>3, <2>1, RegisterTidy, CancelWorkTidy, TurnTidy, FinishTidy
<1>4. ASSUME Drop \/ KillWorker \/ \E p \in Procs : Connect(p) \/ Join(p) \/ RecoveryExpires(p)
      PROVE  Core(g)' /\ Tidy(g)'
  BY <1>4, FaultCore, FaultTidy
<1>5. ASSUME NEW p \in Procs, Crash(p)
      PROVE  \E k : Core(k)' /\ Tidy(k)'
  <2>1. PICK k : k = [g EXCEPT ![p] = <<>>]
    OBVIOUS
  <2>2. Core(k)'
    BY <1>5, <2>1, CrashCore
  <2>3. \A q \in Procs : q # p => counter'[q] = counter[q] /\ k[q] = g[q]
    BY <1>5, <2>1, CrashCore
  <2> QED  BY <1>5, <2>2, <2>3, CrashTidy
<1>6. CASE UNCHANGED vars
  BY <1>6, StutterCore, StutterTidy
<1> QED  BY <1>1, <1>2, <1>3, <1>4, <1>5, <1>6 DEF Next, ExtensionStep, Rest

(* Ids of their own and numbers of their own: the types hold.               *)
LEMMA InvTypes == CallsInv => TypeOK
<1> SUFFICES ASSUME NEW g, Core(g) PROVE TypeOK
  BY DEF CallsInv
<1>1. /\ Types /\ Links /\ Waiting
      /\ g \in [Procs -> Seq(Calls)] /\ Numbered(g)
  BY DEF Core
<1>2. Cardinality({p \in Procs : Primary(p)}) <= 1
  <2>1. CASE NoPrimary
    <3>1. {p \in Procs : Primary(p)} = {}
      BY <2>1 DEF NoPrimary
    <3> QED  BY <3>1, FS_EmptySet
  <2>2. CASE ~NoPrimary
    <3>1. PICK p \in Procs : Primary(p)
      BY <2>2 DEF NoPrimary
    <3>2. {q \in Procs : Primary(q)} = {p}
      BY <1>1, <3>1 DEF Links
    <3>3. Cardinality({p}) = 1
      BY FS_Singleton
    <3> QED  BY <3>2, <3>3
  <2> QED  BY <2>1, <2>2
<1>3. ASSUME NEW p \in Procs
      PROVE  counter[p] \in 0 .. N
  <2>1. PICK n : n = counter[p]
    OBVIOUS
  <2>2. PICK s : s = g[p]
    OBVIOUS
  <2>3. /\ n \in Nat /\ s \in Seq(Calls) /\ Len(s) = n
        /\ \A i, j \in 1 .. n : s[i] = s[j] => i = j
    BY <1>1, <2>1, <2>2 DEF Types, ProcTypes, Numbered
  <2>4. s \in [1 .. n -> Calls] /\ DOMAIN s = 1 .. n
    BY <2>3
  <2>5. s \in Injection(1 .. n, Calls)
    BY <2>3, <2>4 DEF Injection, IsInjective
  <2>6. Cardinality(1 .. n) <= N /\ Cardinality(1 .. n) = n
    <3>1. Cardinality(1 .. n) <= N
      BY <2>5, FS_Injection, BridgeCallsAssumption DEF N
    <3>2. Cardinality(1 .. n) = n
      BY <2>3, FS_Interval
    <3> QED  BY <3>1, <3>2
  <2> QED  BY <2>1, <2>3, <2>6, NFacts
<1>4. linked \subseteq {p \in Procs : role[p] = "proxy"}
  BY <1>1 DEF Types, ProcTypes, Links
<1>5. counter \in [Procs -> 0 .. N] /\ role \in [Procs -> {"primary", "proxy", "off"}]
  BY <1>1, <1>3 DEF Types, ProcTypes
<1>6. ASSUME NEW p \in Procs
      PROVE  /\ \A r \in pending[p] :
                  /\ r \in [id : Ids, call : Calls, from : Procs \cup {NoProc}, sid : 0 .. N]
                  /\ r.id <= counter[p]
             /\ \A r, q \in pending[p] : r.id = q.id => r = q
             /\ held[p] \subseteq [call : Calls, from : Procs \cup {NoProc}, sid : Ids]
  <2>1. ASSUME NEW r \in Entries
        PROVE  r \in [id : Ids, call : Calls, from : Procs \cup {NoProc}, sid : 0 .. N]
    BY NFacts DEF Entries
  <2>2. ASSUME NEW h \in Holds
        PROVE  h \in [call : Calls, from : Procs \cup {NoProc}, sid : Ids]
    BY NFacts DEF Holds
  <2>3. pending[p] \subseteq Entries /\ held[p] \subseteq Holds
    BY <1>1 DEF Types, WaitTypes
  <2>4. \A r \in pending[p] : r.id <= counter[p]
    BY <1>1 DEF Numbered
  <2>5. \A r, q \in pending[p] : r.id = q.id => r = q
    BY <1>1 DEF Waiting
  <2> QED  BY <2>1, <2>2, <2>3, <2>4, <2>5
<1>7. ext \in Procs \cup {NoProc} /\ (ext # NoProc => Primary(ext))
  BY <1>1 DEF Types, ProcTypes, Links
<1>8. /\ work \in [Calls -> [st : {"none", "queued", "running", "over"},
                             id : 0 .. N, aborted : BOOLEAN]]
      /\ registry \in [Ids -> Calls \cup {NoCall}] /\ begun \in [Calls -> 0 .. 2]
  BY <1>1 DEF Types, WorkTypes, WorkRecords
<1>9. \A c \in Calls :
         /\ call[c].st \in {"idle", "waiting", "pending", "done", "lost"}
         /\ call[c].st = "pending" => \E r \in pending[Home[c]] : r.call = c
  BY <1>1 DEF Types, WorkTypes, CallRecords, Waiting
<1> QED  BY <1>2, <1>4, <1>5, <1>6, <1>7, <1>8, <1>9 DEF TypeOK, N

(* Nobody takes a registered call off the registry but its own end.         *)
LEMMA StaysStep ==
    ASSUME CallsInv, [Next]_vars, NEW c \in Calls,
           Alive(c), Alive(c)', registry[work[c].id] = c
    PROVE  registry'[work[c].id] # NoCall
<1>1. WorkTypes /\ Types
  BY DEF CallsInv, Core, Types
<1>2. PICK id : id = work[c].id
  OBVIOUS
<1>3. id \in Ids /\ registry[id] = c /\ registry \in [Ids -> Calls \cup {NoCall}] /\ NoCall \notin Calls
  <2>1. id \in 0 .. N /\ id # 0
    BY <1>1, <1>2 DEF WorkTypes, WorkRecords, Alive
  <2> QED  BY <2>1, <1>1, <1>2, NFacts, BridgeCallsAssumption DEF WorkTypes
<1>4. CASE registry' = registry
  BY <1>2, <1>3, <1>4
<1>5. CASE Register
  <2>1. PICK m : m = Head(down)
    OBVIOUS
  <2>2. m \in Messages /\ m.type = "call"
    BY <1>1, <1>5, <2>1, TailRange DEF Types, MessageTypes, Register
  <2>3. registry' = [registry EXCEPT ![m.id] = m.call] /\ m.call \in Calls
    BY <1>5, <2>1, <2>2 DEF Register, Messages
  <2> QED  BY <1>2, <1>3, <2>3
<1>6. ASSUME NEW d \in Calls, Finish(d)
      PROVE  registry'[id] # NoCall
  <2>1. d # c
    <3>1. work' = [work EXCEPT ![d].st = "over"]
      BY <1>6 DEF Finish
    <3>2. work'[d].st = "over"
      BY <3>1, <1>1 DEF WorkTypes, WorkRecords
    <3> QED  BY <3>2 DEF Alive
  <2>2. registry' = [registry EXCEPT ![work[d].id] = IF @ = d THEN NoCall ELSE @]
    BY <1>6 DEF Finish, Deregistered
  <2>3. registry'[id] = c
    BY <2>1, <2>2, <1>3
  <2> QED  BY <2>3, <1>3
<1>7. CASE KillWorker
  <2>1. work'[c].st = "none"
    BY <1>7 DEF KillWorker, NoWork
  <2> QED  BY <2>1 DEF Alive
<1>8. ASSUME NEW d \in Calls, ClientStep(d) \/ ClientCancels(d) \/ Deadline(d)
      PROVE  registry' = registry
  BY <1>8 DEF ClientStep, SendCall, Wait, GiveUp, ClientCancels, Deadline, swVars
<1>9. ASSUME NEW p \in Procs, LinkStep(p) \/ Timers(p) \/ Connect(p) \/ Crash(p) \/ Join(p) \/ RecoveryExpires(p)
      PROVE  registry' = registry
  <2>1. ASSUME TakeResult(p) \/ TakeRelayed(p) \/ \E s \in Procs : RelayCall(p, s) \/ RelayCancel(p, s)
        PROVE  registry' = registry
    BY <2>1 DEF TakeResult, TakeRelayed, RelayCall, RelayCancel, swVars
  <2>2. ASSUME NEW h \in held[p], HeldResumes(p, h) \/ HeldExpires(p, h)
        PROVE  registry' = registry
    BY <2>2 DEF HeldResumes, HeldExpires, swVars
  <2>3. ASSUME Timers(p) \/ Connect(p) \/ Crash(p) \/ Join(p) \/ RecoveryExpires(p)
        PROVE  registry' = registry
    BY <2>3 DEF Timers, Timeout, Connect, Crash, Join, RecoveryExpires, swVars
  <2> QED  BY <1>9, <2>1, <2>2, <2>3 DEF LinkStep
<1>10. ASSUME CancelWork \/ (\E d \in Calls : Begin(d)) \/ Drop \/ UNCHANGED vars
       PROVE  registry' = registry
  BY <1>10 DEF CancelWork, Begin, Drop, vars, swVars
<1> QED  BY <1>2, <1>4, <1>5, <1>6, <1>7, <1>8, <1>9, <1>10 DEF Next, ExtensionStep, Rest

-----------------------------------------------------------------------------
(* Theorems.                                                               *)

(* The processes, their entries and ids, the messages on their way and the   *)
(* work of the extension stay consistent, whatever drops, crashes and takes  *)
(* over.                                                                    *)
THEOREM CallsConsistent == Spec => []CallsInv
BY InitInv, StepInv, PTL DEF Spec

(* One process owns the port, ids are distinct, whoever waits has an entry,  *)
(* and as long as no process has died a client gets the result of its own    *)
(* call: "the server just ignores the stale id" (service-worker.js:3958).    *)
THEOREM ClientGetsItsResult == Spec => []OwnResult
<1>1. CallsInv => OwnResult
  BY InvTypes DEF CallsInv, Core, OwnAnswers, OwnResult
<1> QED  BY <1>1, CallsConsistent, PTL

(* The extension starts a call at most once: the message of a call is in one *)
(* place, and the extension has not heard of the call while it is.           *)
THEOREM CallStartedOnce == Spec => []StartedOnce
<1>1. CallsInv => StartedOnce
  BY DEF CallsInv, Core, Placed, StartedOnce
<1> QED  BY <1>1, CallsConsistent, PTL

(* A registered call can be cancelled until it is over or a newer call takes *)
(* over its id (_finishBridgeCall, service-worker.js).                       *)
THEOREM CallStaysCancellable == Spec => StaysCancellable
<1>1. CallsInv /\ [Next]_vars =>
        [\A c \in Calls : Alive(c) /\ Alive(c)' /\ registry[work[c].id] = c
            => registry'[work[c].id] # NoCall]_vars
  BY StaysStep
<1> QED  BY <1>1, CallsConsistent, PTL DEF Spec, StaysCancellable

(* While the socket of the extension has never closed, the extension works on *)
(* nothing that nobody waits for once all messages have arrived, whatever is  *)
(* cancelled, late or dies: the cancellation of a call follows its message or *)
(* finds its id registered, unless the call is over.                         *)
THEOREM NoWorkAbandoned == Spec => []NoAbandonedWork
<1>1. CallsInv => NoAbandonedWork
  <2> SUFFICES ASSUME NEW g, Core(g), Tidy(g), ~faults.lost, down = <<>>,
                      \A p \in Procs : fwd[p] = <<>>,
                      NEW c \in Calls, Alive(c), ~work[c].aborted
               PROVE  call[c].st = "pending"
    BY DEF CallsInv, NoAbandonedWork
  <2>1. Range(<<>>) = {}
    BY DEF Range
  <2>2. Waited(c, work[c].id)
    BY <2>1 DEF Tidy, Stopped, CancelIn
  <2>3. PICK r \in pending[First] : r.call = c /\ Informed(c, r)
    BY <2>2 DEF Waited
  <2>4. CASE r.from = First
    BY <2>3, <2>4, CalmFacts DEF Core, Waiting
  <2>5. CASE r.from # First
    <3>1. r.from \in Procs
      BY <2>3, <2>5, CalmFacts DEF Informed
    <3> QED  BY <3>1, <2>1, <2>3, <2>5 DEF Informed, CancelIn
  <2> QED  BY <2>4, <2>5
<1> QED  BY <1>1, CallsConsistent, PTL

=============================================================================
