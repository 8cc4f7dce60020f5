---------------------------- MODULE MCPartsProofs ----------------------------
(***************************************************************************)
(* What the run of MCParts checks of its parts, proved for any constants: of *)
(* SelfRestart that it implements StdioSession, of BridgeElection that roles *)
(* are true, of WorkflowStore and RunHistory that nothing is lost, of        *)
(* FireTimes that the next run is the first slot.  Each part has its own     *)
(* inductive invariant; a step of the run is one of the part or leaves its    *)
(* variables alone.                                                        *)
(***************************************************************************)
EXTENDS MCParts, SequenceTheorems, FiniteSetTheorems, TLAPS

-----------------------------------------------------------------------------
(* SelfRestart: the invariant.                                             *)

\* A line in a pipe.
Lines == [nr : 1 .. Messages, replay : BOOLEAN]

\* The states of a process.
Bridges == [st : {"none", "serving", "paused", "relay"}, captured : Seq(1 .. Messages),
            settled : BOOLEAN, work : SUBSET (1 .. Messages), ready : BOOLEAN,
            drop : BOOLEAN, queued : Seq(Lines)]

\* Types.
TypesOK ==
    /\ client \in [stateful : BOOLEAN, sent : 0 .. Messages, got : [1 .. Messages -> {0, 1}]]
    /\ inp \in [Restart!Procs -> Seq(Lines)] /\ out \in [Restart!Procs -> Seq(1 .. Messages)]
    /\ bridge \in [Restart!Procs -> Bridges]

\* The processes that run, and those that relay to the next one.
Live(p) == bridge[p].st # "none"
Relays(p) == bridge[p].st = "relay"

\* The processes are a chain: all but the last one relay.
Chain ==
    /\ Live(0)
    /\ \A p, q \in Restart!Procs : p < q /\ Live(q) => Relays(p)
    /\ \A p \in Restart!Procs :
         /\ ~Live(p) => bridge[p] = Restart!NoBridge /\ inp[p] = <<>> /\ out[p] = <<>>
         /\ Relays(p) => p + 1 \in Restart!Procs /\ Live(p + 1)
         /\ ~Relays(p) => ~bridge[p].drop /\ bridge[p].queued = <<>>
         /\ bridge[p].st = "paused" => p + 1 \in Restart!Procs

\* What a sequence of message numbers without gaps and repetitions is.
Numbered(s) == \A i \in 1 .. Len(s) : s[i] = i

\* What process p has heard of the handshake.
Heard(p) ==
    /\ Numbered(bridge[p].captured) /\ Len(bridge[p].captured) <= 2
    /\ ~client.stateful => bridge[p].captured = <<>> /\ (Relays(p) => bridge[p].ready) /\ ~bridge[p].drop
    /\ client.stateful => (bridge[p].settled <=> Len(bridge[p].captured) = 2)
    /\ bridge[p].st \in {"paused", "relay"} => bridge[p].settled

\* Replayed lines in front of process p, when a of the client's messages have left
\* that pipe and x have entered it.
Replayed(p, a, x) == Len(inp[p]) - (x[p] - a[p])

\* A pipe with r replayed lines, the first one number c + 1, and then the client's
\* messages from n + 1 on.
Lined(s, c, r, n) ==
    \A i \in 1 .. Len(s) :
        /\ s[i].replay <=> i <= r
        /\ s[i].nr = IF i <= r THEN c + i ELSE n + (i - r)

Input(p, a, x) ==
    /\ Replayed(p, a, x) \in Nat
    /\ Lined(inp[p], Len(bridge[p].captured), Replayed(p, a, x), a[p])

\* The lines of the handshake that process p has got or will get.
Greeted(p, a, x) ==
    LET r == Replayed(p, a, x)
    IN  /\ p = 0 \/ ~client.stateful => r = 0
        /\ p = 0 /\ client.stateful => Len(bridge[p].captured) = IF a[p] <= 2 THEN a[p] ELSE 2
        /\ p # 0 /\ client.stateful =>
             /\ a[p] >= 2
             /\ r + Len(bridge[p].captured) = IF bridge[p - 1].ready THEN 2 ELSE 1
        /\ p # 0 /\ ~bridge[p - 1].ready => x[p] = a[p]

\* A relay holds what has come in and not gone on to the successor.
Holds(p, a, x) ==
    LET q == bridge[p].queued
    IN  /\ x[p + 1] + Len(q) = a[p] /\ (bridge[p].ready => q = <<>>)
        /\ Lined(q, 0, 0, x[p + 1])

FlowAt(p, a, x) ==
    /\ a[p] <= x[p] /\ x[p] <= client.sent
    /\ Input(p, a, x) /\ Greeted(p, a, x)
    /\ IF Relays(p) THEN Holds(p, a, x) ELSE a[p] = Len(took)

\* The client's messages pass the chain in order and none is lost.
Flow(a, x) ==
    /\ a \in [Restart!Procs -> 0 .. Messages] /\ x \in [Restart!Procs -> 0 .. Messages]
    /\ x[0] = client.sent
    /\ \A p \in Restart!Procs : Live(p) => FlowAt(p, a, x)

Flows ==
    /\ took \in Seq(1 .. Messages) /\ Numbered(took)
    /\ \E a, x : Flow(a, x)

\* The requests that process p works on or whose answer is in the pipe behind it.
Open(p) == bridge[p].work \cup Restart!Range(out[p])

\* Without the answer to a replayed line.
Own(p) == IF p = 0 THEN Open(p) ELSE Open(p) \ Restart!Handshake

\* No answer is given twice, and that to a replayed line will be dropped.
Answers ==
    /\ \A p \in Restart!Procs :
         /\ Restart!IsInjective(out[p]) /\ bridge[p].work \cap Restart!Range(out[p]) = {}
         /\ Open(p) \cap Restart!Notifications = {}
         /\ \A k \in Own(p) : k <= Len(took) /\ client.got[k] = 0
    /\ \A p, q \in Restart!Procs : p # q => Own(p) \cap Own(q) = {}
    /\ \A k \in 1 .. Messages : k > Len(took) => client.got[k] = 0
    /\ client.stateful =>
         \A p \in Restart!Procs : Relays(p) =>
           /\ Restart!INITIALIZE \in Open(p + 1) => bridge[p].drop
           /\ bridge[p + 1].captured = <<>> => bridge[p].drop /\ Restart!INITIALIZE \notin Open(p + 1)

RestartInv == TypesOK /\ Chain /\ (\A p \in Restart!Procs : Heard(p)) /\ Flows /\ Answers

-----------------------------------------------------------------------------
(* Lemmas about sequences.                                                 *)

(* What taking the first element off a sequence leaves.                     *)
LEMMA TailFacts ==
    ASSUME NEW S, NEW s \in Seq(S), s # <<>>
    PROVE  /\ Head(s) = s[1] /\ Head(s) \in S /\ 1 \in 1 .. Len(s) /\ Len(s) \in Nat
           /\ Tail(s) \in Seq(S) /\ Len(Tail(s)) = Len(s) - 1
           /\ \A j \in 1 .. Len(Tail(s)) : Tail(s)[j] = s[j + 1]
BY HeadTailProperties

(* What a new element adds to a sequence.                                   *)
LEMMA AppendFacts ==
    ASSUME NEW S, NEW s \in Seq(S), NEW e \in S
    PROVE  /\ Append(s, e) \in Seq(S) /\ Len(Append(s, e)) = Len(s) + 1 /\ Len(s) \in Nat
           /\ \A j \in 1 .. Len(s) : Append(s, e)[j] = s[j]
           /\ Append(s, e)[Len(s) + 1] = e
BY AppendProperties

(* Sets of elements of sequences without repetitions.                       *)
LEMMA TailSet ==
    ASSUME NEW S, NEW s \in Seq(S), s # <<>>, Restart!IsInjective(s)
    PROVE  /\ Restart!IsInjective(Tail(s)) /\ Restart!Range(Tail(s)) = Restart!Range(s) \ {Head(s)}
           /\ Head(s) \in Restart!Range(s)
<1>1. DOMAIN s = 1 .. Len(s) /\ DOMAIN Tail(s) = 1 .. Len(s) - 1 /\ Len(s) \in Nat
  BY TailFacts
<1>2. \A i \in 1 .. Len(s) - 1 : Tail(s)[i] = s[i + 1] /\ i + 1 \in 1 .. Len(s) /\ i + 1 # 1
  BY <1>1, TailFacts
<1>3. \A i \in 1 .. Len(s) : i # 1 => i - 1 \in 1 .. Len(s) - 1 /\ (i - 1) + 1 = i
  BY <1>1
<1>4. Head(s) = s[1] /\ 1 \in 1 .. Len(s)
  BY TailFacts
<1>5. Restart!IsInjective(Tail(s))
  <2>1. ASSUME NEW i \in 1 .. Len(s) - 1, NEW j \in 1 .. Len(s) - 1, Tail(s)[i] = Tail(s)[j]
        PROVE  i = j
    <3>1. i + 1 = j + 1
      BY <1>1, <1>2, <2>1 DEF Restart!IsInjective
    <3> QED  BY <1>1, <3>1
  <2> QED  BY <1>1, <2>1 DEF Restart!IsInjective
<1>6. Restart!Range(Tail(s)) = Restart!Range(s) \ {Head(s)}
  <2>1. ASSUME NEW e \in Restart!Range(Tail(s)) PROVE e \in Restart!Range(s) \ {Head(s)}
    <3>1. PICK i \in 1 .. Len(s) - 1 : e = Tail(s)[i]
      BY <1>1, <2>1 DEF Restart!Range
    <3>2. e = s[i + 1] /\ i + 1 \in 1 .. Len(s) /\ i + 1 # 1
      BY <1>2, <3>1
    <3> QED  BY <1>1, <1>4, <3>2 DEF Restart!Range, Restart!IsInjective
  <2>2. ASSUME NEW e \in Restart!Range(s), e # Head(s) PROVE e \in Restart!Range(Tail(s))
    <3>1. PICK i \in 1 .. Len(s) : e = s[i]
      BY <1>1, <2>2 DEF Restart!Range
    <3>2. i - 1 \in 1 .. Len(s) - 1 /\ (i - 1) + 1 = i
      BY <1>3, <1>4, <2>2, <3>1
    <3>3. Tail(s)[i - 1] = e
      BY <1>2, <3>1, <3>2
    <3> QED  BY <1>1, <3>2, <3>3 DEF Restart!Range
  <2> QED  BY <2>1, <2>2
<1> QED  BY <1>1, <1>4, <1>5, <1>6 DEF Restart!Range

(* A new element makes no repetition.                                     *)
LEMMA AppendSet ==
    ASSUME NEW s \in Seq(1 .. Messages), NEW e \in 1 .. Messages
    PROVE  /\ Restart!Range(Append(s, e)) = Restart!Range(s) \cup {e}
           /\ Restart!IsInjective(s) /\ e \notin Restart!Range(s) => Restart!IsInjective(Append(s, e))
<1>1. /\ DOMAIN s = 1 .. Len(s) /\ DOMAIN Append(s, e) = 1 .. Len(s) + 1 /\ Len(s) \in Nat
      /\ \A i \in 1 .. Len(s) + 1 : Append(s, e)[i] = IF i = Len(s) + 1 THEN e ELSE s[i]
      /\ \A i \in 1 .. Len(s) + 1 : i = Len(s) + 1 \/ i \in 1 .. Len(s)
  BY AppendFacts
<1>2. Restart!Range(Append(s, e)) = Restart!Range(s) \cup {e}
  <2>1. ASSUME NEW d \in Restart!Range(Append(s, e)) PROVE d \in Restart!Range(s) \cup {e}
    BY <1>1, <2>1 DEF Restart!Range
  <2>2. Restart!Range(s) \subseteq Restart!Range(Append(s, e))
    BY <1>1 DEF Restart!Range
  <2>3. e \in Restart!Range(Append(s, e))
    BY <1>1 DEF Restart!Range
  <2> QED  BY <2>1, <2>2, <2>3
<1>3. ASSUME Restart!IsInjective(s), e \notin Restart!Range(s) PROVE Restart!IsInjective(Append(s, e))
  BY <1>1, <1>3 DEF Restart!IsInjective, Restart!Range
<1> QED  BY <1>2, <1>3

(* What a process has captured of the handshake.                            *)
LEMMA CapturedFacts ==
    ASSUME NEW s \in Seq(1 .. Messages), Numbered(s), Len(s) <= 2
    PROVE  /\ s = <<>> <=> Len(s) = 0
           /\ Restart!INITIALIZED \in Restart!Range(s) <=> Len(s) = 2
           /\ Len(s) \in 0 .. 2
<1>1. DOMAIN s = 1 .. Len(s) /\ Len(s) \in Nat
  BY LenProperties
<1>2. Restart!INITIALIZED \in Restart!Range(s) <=> Len(s) = 2
  BY <1>1 DEF Restart!Range, Numbered, Restart!INITIALIZED
<1> QED  BY <1>1, <1>2, EmptySeq

-----------------------------------------------------------------------------
(* SelfRestart: what is done with a pipe.                                  *)

(* A message of the client comes in.                                       *)
LEMMA LinedAppend ==
    ASSUME NEW s \in Seq(Lines), NEW c \in Nat, NEW r \in Nat, NEW n \in Nat, Lined(s, c, r, n),
           NEW l \in Lines, ~l.replay, r <= Len(s), l.nr = n + (Len(s) - r) + 1
    PROVE  Lined(Append(s, l), c, r, n)
<1>1. /\ Len(Append(s, l)) = Len(s) + 1 /\ Len(s) \in Nat
      /\ \A j \in 1 .. Len(s) : Append(s, l)[j] = s[j]
      /\ Append(s, l)[Len(s) + 1] = l
  BY AppendFacts
<1> DEFINE u == Append(s, l)
<1>2. /\ Len(u) = Len(s) + 1 /\ (\A j \in 1 .. Len(s) : u[j] = s[j]) /\ u[Len(s) + 1] = l
  BY <1>1
<1> HIDE DEF u
<1>3. ASSUME NEW i \in 1 .. Len(u)
      PROVE  (u[i].replay <=> i <= r) /\ u[i].nr = IF i <= r THEN c + i ELSE n + (i - r)
  <2>1. CASE i \in 1 .. Len(s)
    BY <1>2, <2>1 DEF Lined
  <2>2. CASE i = Len(s) + 1
    <3>1. u[i] = l /\ ~(i <= r) /\ n + (i - r) = n + (Len(s) - r) + 1
      BY <1>1, <1>2, <2>2
    <3> QED  BY <3>1
  <2> QED  BY <1>1, <1>2, <2>1, <2>2
<1> QED  BY <1>3 DEF Lined, u

(* A line of the handshake comes in after the others.                       *)
LEMMA LinedReplay ==
    ASSUME NEW s \in Seq(Lines), NEW c \in Nat, NEW n \in Nat, Lined(s, c, Len(s), n),
           NEW l \in Lines, l.replay, l.nr = c + Len(s) + 1
    PROVE  Lined(Append(s, l), c, Len(s) + 1, n)
<1>1. /\ Len(Append(s, l)) = Len(s) + 1 /\ Len(s) \in Nat
      /\ \A j \in 1 .. Len(s) : Append(s, l)[j] = s[j]
      /\ Append(s, l)[Len(s) + 1] = l
  BY AppendFacts
<1> DEFINE u == Append(s, l)
<1>2. /\ Len(u) = Len(s) + 1 /\ (\A j \in 1 .. Len(s) : u[j] = s[j]) /\ u[Len(s) + 1] = l
  BY <1>1
<1> HIDE DEF u
<1>3. ASSUME NEW i \in 1 .. Len(u)
      PROVE  u[i].replay /\ u[i].nr = c + i /\ i <= Len(s) + 1
  <2>1. CASE i \in 1 .. Len(s)
    BY <1>1, <1>2, <2>1 DEF Lined
  <2>2. CASE i = Len(s) + 1
    <3>1. u[i] = l /\ c + i = c + Len(s) + 1
      BY <1>1, <1>2, <2>2
    <3> QED  BY <1>1, <2>2, <3>1
  <2> QED  BY <1>1, <1>2, <2>1, <2>2
<1> QED  BY <1>1, <1>3 DEF Lined, u

(* The messages that a relay holds come in after the others.                *)
LEMMA LinedConcat ==
    ASSUME NEW s \in Seq(Lines), NEW c \in Nat, NEW r \in Nat, NEW n \in Nat, Lined(s, c, r, n),
           NEW t \in Seq(Lines), r <= Len(s), Lined(t, 0, 0, n + (Len(s) - r))
    PROVE  Lined(s \o t, c, r, n)
<1>1. /\ Len(s \o t) = Len(s) + Len(t) /\ Len(s) \in Nat /\ Len(t) \in Nat
      /\ \A i \in 1 .. Len(s) + Len(t) : (s \o t)[i] = IF i <= Len(s) THEN s[i] ELSE t[i - Len(s)]
  BY ConcatProperties, LenProperties
<1> DEFINE u == s \o t
<1>2. /\ Len(u) = Len(s) + Len(t)
      /\ \A i \in 1 .. Len(s) + Len(t) : u[i] = IF i <= Len(s) THEN s[i] ELSE t[i - Len(s)]
  BY <1>1
<1> HIDE DEF u
<1>3. ASSUME NEW i \in 1 .. Len(u)
      PROVE  (u[i].replay <=> i <= r) /\ u[i].nr = IF i <= r THEN c + i ELSE n + (i - r)
  <2>1. CASE i <= Len(s)
    <3>1. i \in 1 .. Len(s) /\ u[i] = s[i]
      BY <1>1, <1>2, <2>1
    <3> QED  BY <3>1 DEF Lined
  <2>2. CASE ~(i <= Len(s))
    <3> DEFINE j == i - Len(s)
    <3>1. j \in 1 .. Len(t) /\ u[i] = t[j] /\ ~(i <= r) /\ ~(j <= 0)
          /\ n + (Len(s) - r) + (j - 0) = n + (i - r)
      BY <1>1, <1>2, <2>2
    <3>2. ~t[j].replay /\ t[j].nr = n + (Len(s) - r) + (j - 0)
      BY <3>1 DEF Lined
    <3> QED  BY <3>1, <3>2
  <2> QED  BY <2>1, <2>2
<1> QED  BY <1>3 DEF Lined, u

(* The first line is taken: a line of the handshake, or a message.           *)
LEMMA LinedTail ==
    ASSUME NEW s \in Seq(Lines), s # <<>>, NEW c \in Nat, NEW r \in Nat, NEW n \in Nat,
           Lined(s, c, r, n)
    PROVE  /\ r > 0 => Head(s).replay /\ Head(s).nr = c + 1 /\ Lined(Tail(s), c + 1, r - 1, n)
           /\ r = 0 => ~Head(s).replay /\ Head(s).nr = n + 1 /\ Lined(Tail(s), c, 0, n + 1)
<1>1. /\ Head(s) = s[1] /\ 1 \in 1 .. Len(s) /\ Len(s) \in Nat /\ Len(Tail(s)) = Len(s) - 1
      /\ \A j \in 1 .. Len(Tail(s)) : Tail(s)[j] = s[j + 1]
  BY TailFacts
<1> DEFINE u == Tail(s)
<1>2. /\ Len(u) = Len(s) - 1
      /\ \A j \in 1 .. Len(s) - 1 : u[j] = s[j + 1] /\ j + 1 \in 1 .. Len(s)
  BY <1>1
<1> HIDE DEF u
<1>3. /\ s[1].replay <=> 1 <= r
      /\ s[1].nr = IF 1 <= r THEN c + 1 ELSE n + (1 - r)
  BY <1>1 DEF Lined
<1>4. \A j \in 1 .. Len(s) - 1 : /\ u[j].replay <=> j + 1 <= r
                                 /\ u[j].nr = IF j + 1 <= r THEN c + (j + 1) ELSE n + ((j + 1) - r)
  BY <1>2 DEF Lined
<1>5. CASE r > 0
  <2>1. \A j \in 1 .. Len(s) - 1 : /\ j + 1 <= r <=> j <= r - 1
                                   /\ c + (j + 1) = c + 1 + j /\ (j + 1) - r = j - (r - 1)
    BY <1>1
  <2>2. Lined(u, c + 1, r - 1, n)
    BY <1>2, <1>4, <2>1 DEF Lined
  <2> QED  BY <1>1, <1>3, <1>5, <2>2 DEF u
<1>6. CASE r = 0
  <2>1. \A j \in 1 .. Len(s) - 1 : ~(j + 1 <= 0) /\ ~(j <= 0) /\ n + ((j + 1) - 0) = n + 1 + (j - 0)
    BY <1>1
  <2>2. Lined(u, c, 0, n + 1)
    BY <1>2, <1>4, <1>6, <2>1 DEF Lined
  <2> QED  BY <1>1, <1>3, <1>6, <2>2 DEF u
<1> QED  BY <1>5, <1>6

-----------------------------------------------------------------------------
(* SelfRestart: what does not touch a part of the invariant.               *)

(* A process whose pipe and relay are as before is served as before.        *)
LEMMA FlowFrame ==
    ASSUME NEW p \in Restart!Procs, NEW a, NEW x, NEW b, NEW y, FlowAt(p, a, x),
           b[p] = a[p], y[p] = x[p], Relays(p) => y[p + 1] = x[p + 1],
           inp'[p] = inp[p], (Relays(p)' <=> Relays(p)),
           bridge'[p].captured = bridge[p].captured, bridge'[p].ready = bridge[p].ready,
           bridge'[p].queued = bridge[p].queued,
           p # 0 => bridge'[p - 1].ready = bridge[p - 1].ready,
           client'.stateful = client.stateful, a[p] <= x[p] /\ x[p] <= client.sent => x[p] <= client'.sent,
           Relays(p) \/ Len(took') = Len(took)
    PROVE  FlowAt(p, b, y)'
BY DEF FlowAt, Input, Greeted, Holds, Relays, Replayed

(* A step that only moves answers.                                         *)
LEMMA FlowsKept ==
    ASSUME Restart!SelfRestartAssumption, Flows, client'.stateful = client.stateful, client'.sent = client.sent,
           inp' = inp, took' = took,
           \A p \in Restart!Procs : /\ (Relays(p)' <=> Relays(p)) /\ (Live(p)' => Live(p))
                                    /\ bridge'[p].captured = bridge[p].captured
                                    /\ bridge'[p].ready = bridge[p].ready
                                    /\ bridge'[p].queued = bridge[p].queued
    PROVE  Flows'
<1>1. PICK a, x : Flow(a, x)
  BY DEF Flows
<1>2. ASSUME NEW p \in Restart!Procs, Live(p)'
      PROVE  FlowAt(p, a, x)'
  <2>1. FlowAt(p, a, x)
    BY <1>1, <1>2 DEF Flow
  <2>2. p # 0 => p - 1 \in Restart!Procs
    BY DEF Restart!Procs, Restart!SelfRestartAssumption
  <2> QED
    BY <2>1, <2>2 DEF FlowAt, Input, Greeted, Holds, Relays, Replayed
<1>3. Flow(a, x)'
  BY <1>1, <1>2 DEF Flow, Live
<1> QED
  BY <1>3 DEF Flows, Numbered

(* A step that only moves lines.                                           *)
LEMMA AnswersKept ==
    ASSUME Answers, out' = out, took' = took, client'.stateful = client.stateful,
           client'.got = client.got,
           \A p \in Restart!Procs : /\ bridge'[p].work = bridge[p].work /\ bridge'[p].drop = bridge[p].drop
                                    /\ bridge'[p].captured = bridge[p].captured
                                    /\ (Relays(p)' <=> Relays(p)),
           \A p \in Restart!Procs : Relays(p) => p + 1 \in Restart!Procs
    PROVE  Answers'
<1>1. \A p \in Restart!Procs : Open(p)' = Open(p) /\ Own(p)' = Own(p)
  BY DEF Open, Own, Restart!Handshake
<1>2. Restart!Notifications' = Restart!Notifications
  BY DEF Restart!Notifications, Restart!Handshake
<1> QED
  BY <1>1, <1>2 DEF Answers

(* What is open are messages.                                             *)
LEMMA OpenType ==
    ASSUME TypesOK, NEW p \in Restart!Procs
    PROVE  Open(p) \subseteq 1 .. Messages
<1>1. bridge[p].work \subseteq 1 .. Messages /\ out[p] \in Seq(1 .. Messages)
  BY DEF TypesOK, Bridges
<1>2. DOMAIN out[p] = 1 .. Len(out[p])
  BY <1>1, LenProperties
<1>3. Restart!Range(out[p]) \subseteq 1 .. Messages
  <2>1. \A i \in 1 .. Len(out[p]) : out[p][i] \in 1 .. Messages
    BY <1>1, ElementOfSeq
  <2> QED  BY <1>2, <2>1 DEF Restart!Range
<1> QED  BY <1>1, <1>3 DEF Open

-----------------------------------------------------------------------------
(* SelfRestart: the steps.                                                 *)

(* A message of the client enters the pipe of process 0 behind the others.*)
LEMMA SendKeeps == ASSUME Restart!SelfRestartAssumption, RestartInv, Restart!Send PROVE RestartInv'
<1> DEFINE l == [nr |-> client.sent + 1, replay |-> FALSE]
<1>1. /\ client' = [client EXCEPT !.sent = @ + 1] /\ client.sent < Messages
      /\ inp' = [inp EXCEPT ![0] = Append(@, l)] /\ UNCHANGED <<out, bridge, took>>
  BY DEF Restart!Send
<1>2. /\ client.sent \in 0 .. Messages /\ client.sent + 1 \in 1 .. Messages /\ l \in Lines
      /\ 0 \in Restart!Procs /\ inp[0] \in Seq(Lines) /\ Messages \in Nat
  <2>1. Messages \in Nat /\ 0 \in Restart!Procs /\ client.sent \in 0 .. Messages
    BY DEF RestartInv, TypesOK, Restart!SelfRestartAssumption, Restart!Procs
  <2>2. client.sent + 1 \in 1 .. Messages
    BY <1>1, <2>1
  <2>3. inp[0] \in Seq(Lines)
    BY <2>1 DEF RestartInv, TypesOK
  <2> QED  BY <2>1, <2>2, <2>3 DEF Lines
<1>0. /\ Append(inp[0], l) \in Seq(Lines) /\ Len(Append(inp[0], l)) = Len(inp[0]) + 1
      /\ Len(inp[0]) \in Nat
      /\ \A j \in 1 .. Len(inp[0]) : Append(inp[0], l)[j] = inp[0][j]
      /\ Append(inp[0], l)[Len(inp[0]) + 1] = l /\ l.nr = client.sent + 1 /\ ~l.replay
  BY <1>2, AppendFacts
<1> HIDE DEF l
<1>3. /\ client'.sent = client.sent + 1 /\ client'.stateful = client.stateful
      /\ client'.got = client.got
      /\ client' \in [stateful : BOOLEAN, sent : 0 .. Messages, got : [1 .. Messages -> {0, 1}]]
  <2>1. client \in [stateful : BOOLEAN, sent : 0 .. Messages, got : [1 .. Messages -> {0, 1}]]
    BY DEF RestartInv, TypesOK
  <2>2. client.sent + 1 \in 0 .. Messages
    BY <1>2
  <2> QED  BY <1>1, <2>1, <2>2
<1>4. /\ inp'[0] = Append(inp[0], l) /\ \A p \in Restart!Procs : p # 0 => inp'[p] = inp[p]
      /\ inp' \in [Restart!Procs -> Seq(Lines)]
  BY <1>1, <1>2, <1>0 DEF RestartInv, TypesOK
<1>5. TypesOK'
  BY <1>1, <1>3, <1>4 DEF RestartInv, TypesOK
<1>6. Chain'
  BY <1>1, <1>4 DEF RestartInv, Chain, Live, Relays
<1>7. \A p \in Restart!Procs : Heard(p)'
  BY <1>1, <1>3 DEF RestartInv, Heard, Relays, Numbered
<1>8. Answers'
  BY <1>1, <1>3, AnswersKept DEF RestartInv, Chain, Relays
<1>9. Flows'
  <2>1. PICK a, x : Flow(a, x)
    BY DEF RestartInv, Flows
  <2> DEFINE y == [x EXCEPT ![0] = @ + 1]
  <2>2. /\ y \in [Restart!Procs -> 0 .. Messages] /\ y[0] = client.sent + 1
        /\ \A p \in Restart!Procs : p # 0 => y[p] = x[p]
    BY <1>2, <2>1 DEF Flow
  <2> HIDE DEF y
  <2>3. FlowAt(0, a, y)'
    <3>1. FlowAt(0, a, x) /\ a[0] \in Nat /\ x[0] = client.sent
      BY <1>2, <2>1 DEF RestartInv, Chain, Flow
    <3>2. Replayed(0, a, y)' = Replayed(0, a, x) /\ Replayed(0, a, x) = 0
      <4>1. Replayed(0, a, x) = 0
        BY <3>1 DEF FlowAt, Greeted
      <4>2. Len(inp'[0]) = Len(inp[0]) + 1 /\ y[0] = x[0] + 1 /\ x[0] \in Nat
        BY <1>2, <1>0, <1>4, <2>2, <3>1
      <4>3. Len(inp'[0]) - (y[0] - a[0]) = Len(inp[0]) - (x[0] - a[0])
        BY SMTT(20), <1>0, <3>1, <4>2
      <4> QED  BY <4>1, <4>3 DEF Replayed
    <3>3. Input(0, a, y)'
      <4>1. Len(inp[0]) = client.sent - a[0] /\ Len(inp[0]) \in Nat
        BY <1>2, <1>0, <3>1, <3>2 DEF Replayed
      <4>2. Lined(inp[0], Len(bridge[0].captured), 0, a[0]) /\ Len(bridge[0].captured) \in Nat
        BY <1>2, <3>1, <3>2, LenProperties DEF FlowAt, Input, RestartInv, TypesOK, Bridges
      <4>3. l.nr = a[0] + (Len(inp[0]) - 0) + 1
        BY <1>2, <1>0, <3>1, <4>1
      <4>4. Lined(inp'[0], Len(bridge[0].captured), 0, a[0])
        <5> DEFINE s == inp[0]
                   c == Len(bridge[0].captured)
                   r == 0
                   n == a[0]
        <5>1. /\ s \in Seq(Lines) /\ c \in Nat /\ r \in Nat /\ n \in Nat /\ Lined(s, c, r, n)
              /\ r <= Len(s) /\ l.nr = n + (Len(s) - r) + 1 /\ l \in Lines /\ ~l.replay
          BY <1>2, <1>0, <3>1, <4>1, <4>2, <4>3
        <5> HIDE DEF s, c, r, n
        <5>2. Lined(Append(s, l), c, r, n)
          BY <5>1, LinedAppend
        <5> QED  BY <1>4, <5>2 DEF s, c, r, n
      <4> QED  BY <1>1, <3>2, <4>4 DEF Input
    <3>4. Greeted(0, a, y)'
      BY <1>1, <1>3, <3>1, <3>2 DEF FlowAt, Greeted
    <3>5. Relays(0) => Holds(0, a, y)'
      <4>1. Relays(0) => 0 + 1 \in Restart!Procs
        BY <1>2 DEF RestartInv, Chain
      <4> QED
        BY <1>1, <2>2, <3>1, <4>1 DEF FlowAt, Holds
    <3> QED
      BY <1>1, <1>2, <1>3, <2>2, <3>1, <3>3, <3>4, <3>5 DEF FlowAt, Relays
  <2>4. ASSUME NEW p \in Restart!Procs, p # 0, Live(p)
        PROVE  FlowAt(p, a, y)'
    <3>1. FlowAt(p, a, x) /\ x[p] \in Nat /\ (Relays(p) => p + 1 \in Restart!Procs) /\ p + 1 # 0
      BY <2>1, <2>4 DEF Flow, RestartInv, Chain, Restart!Procs
    <3>2. /\ y[p] = x[p] /\ (Relays(p) => y[p + 1] = x[p + 1]) /\ inp'[p] = inp[p]
          /\ x[p] <= client.sent => x[p] <= client'.sent
      BY <1>2, <1>3, <1>4, <2>2, <2>4, <3>1
    <3> QED
      BY <1>1, <1>3, <2>4, <3>1, <3>2, FlowFrame DEF Relays
  <2>5. Flow(a, y)'
    BY <1>1, <1>2, <1>3, <2>1, <2>2, <2>3, <2>4 DEF Flow, Live
  <2> QED
    BY <1>1, <2>5 DEF RestartInv, Flows, Numbered
<1> QED
  BY <1>5, <1>6, <1>7, <1>8, <1>9 DEF RestartInv

(* A process that stops reading is settled and the last of the chain.     *)
LEMMA StopReadingKeeps ==
    ASSUME Restart!SelfRestartAssumption, RestartInv, NEW p \in Restart!Procs, Restart!StopReading(p)
    PROVE  RestartInv'
<1>1. /\ bridge[p].st = "serving" /\ bridge[p].settled /\ p < Restarts
      /\ bridge' = [bridge EXCEPT ![p].st = "paused"] /\ UNCHANGED <<client, inp, out, took>>
  BY DEF Restart!StopReading, Restart!Idle
<1>2. /\ bridge'[p] = [bridge[p] EXCEPT !.st = "paused"] /\ bridge[p] \in Bridges
      /\ \A q \in Restart!Procs : q # p => bridge'[q] = bridge[q]
      /\ p + 1 \in Restart!Procs
  BY <1>1 DEF RestartInv, TypesOK, Restart!Procs, Restart!SelfRestartAssumption
<1>3. /\ bridge'[p] \in Bridges /\ bridge'[p].st = "paused"
      /\ bridge'[p].captured = bridge[p].captured /\ bridge'[p].ready = bridge[p].ready
      /\ bridge'[p].queued = bridge[p].queued /\ bridge'[p].work = bridge[p].work
      /\ bridge'[p].drop = bridge[p].drop /\ bridge'[p].settled = bridge[p].settled
  BY <1>2 DEF Bridges
<1>4. bridge' \in [Restart!Procs -> Bridges]
  BY <1>1, <1>2, <1>3 DEF RestartInv, TypesOK
<1>5. \A q \in Restart!Procs : /\ (Relays(q)' <=> Relays(q)) /\ (Live(q)' <=> Live(q))
                               /\ bridge'[q].captured = bridge[q].captured
                               /\ bridge'[q].ready = bridge[q].ready
                               /\ bridge'[q].queued = bridge[q].queued /\ bridge'[q].work = bridge[q].work
                               /\ bridge'[q].drop = bridge[q].drop /\ bridge'[q].settled = bridge[q].settled
  BY <1>1, <1>2, <1>3 DEF Relays, Live
<1>6. TypesOK'
  BY <1>1, <1>4 DEF RestartInv, TypesOK
<1>7. Chain'
  <2>1. 0 \in Restart!Procs
    BY DEF Restart!Procs, Restart!SelfRestartAssumption
  <2> QED
    BY <1>1, <1>2, <1>3, <1>5, <2>1 DEF RestartInv, Chain, Live, Relays
<1>8. \A q \in Restart!Procs : Heard(q)'
  <2> TAKE q \in Restart!Procs
  <2>1. Heard(q) /\ (bridge'[q].st = "paused" => q = p \/ bridge[q].st = "paused")
    BY <1>2 DEF RestartInv
  <2> QED
    BY <1>1, <1>5, <2>1 DEF Heard, Relays, Numbered
<1>9. Flows'
  BY <1>1, <1>5, FlowsKept DEF RestartInv
<1>10. Answers'
  BY <1>1, <1>5, AnswersKept DEF RestartInv, Chain
<1> QED
  BY <1>6, <1>7, <1>8, <1>9, <1>10 DEF RestartInv

(* The client gets an answer of process 0, which it did not have.         *)
LEMMA ReceiveKeeps == ASSUME Restart!SelfRestartAssumption, RestartInv, Restart!Receive PROVE RestartInv'
<1> DEFINE k == Head(out[0])
<1>1. /\ out[0] # <<>> /\ client' = [client EXCEPT !.got[k] = @ + 1]
      /\ out' = [out EXCEPT ![0] = Tail(@)] /\ UNCHANGED <<inp, bridge, took>>
  BY DEF Restart!Receive
<1>2. 0 \in Restart!Procs /\ out[0] \in Seq(1 .. Messages) /\ Restart!IsInjective(out[0])
  BY DEF Restart!Procs, Restart!SelfRestartAssumption, RestartInv, TypesOK, Answers
<1>3. /\ k \in 1 .. Messages /\ k \in Restart!Range(out[0]) /\ Tail(out[0]) \in Seq(1 .. Messages)
      /\ Restart!IsInjective(Tail(out[0])) /\ Restart!Range(Tail(out[0])) = Restart!Range(out[0]) \ {k}
  BY <1>1, <1>2, TailFacts, TailSet
<1> HIDE DEF k
<1>4. k \in Own(0) /\ client.got[k] = 0 /\ k \notin bridge[0].work
  BY <1>2, <1>3 DEF Own, Open, RestartInv, Answers
<1>5. /\ client' \in [stateful : BOOLEAN, sent : 0 .. Messages, got : [1 .. Messages -> {0, 1}]]
      /\ client'.stateful = client.stateful /\ client'.sent = client.sent
      /\ \A j \in 1 .. Messages : j # k => client'.got[j] = client.got[j]
  <2>1. client \in [stateful : BOOLEAN, sent : 0 .. Messages, got : [1 .. Messages -> {0, 1}]]
    BY DEF RestartInv, TypesOK
  <2>2. [client.got EXCEPT ![k] = @ + 1] \in [1 .. Messages -> {0, 1}]
    BY <1>3, <1>4, <2>1
  <2>3. client' = [client EXCEPT !.got = [client.got EXCEPT ![k] = @ + 1]]
    BY <1>1, <2>1
  <2> QED  BY <1>3, <2>1, <2>2, <2>3
<1>6. /\ out'[0] = Tail(out[0]) /\ \A p \in Restart!Procs : p # 0 => out'[p] = out[p]
      /\ out' \in [Restart!Procs -> Seq(1 .. Messages)]
  BY <1>1, <1>2, <1>3 DEF RestartInv, TypesOK
<1>7. TypesOK'
  BY <1>1, <1>5, <1>6 DEF RestartInv, TypesOK
<1>8. Chain'
  BY <1>1, <1>6 DEF RestartInv, Chain, Live, Relays
<1>9. \A q \in Restart!Procs : Heard(q)'
  BY <1>1, <1>5 DEF RestartInv, Heard, Relays, Numbered
<1>10. Flows'
  BY <1>1, <1>5, FlowsKept DEF RestartInv, Live, Relays
<1>11. Answers'
  <2>1. Restart!Handshake' = Restart!Handshake /\ Restart!Notifications' = Restart!Notifications
    BY <1>5 DEF Restart!Handshake, Restart!Notifications
  <2>2. Open(0)' = Open(0) \ {k} /\ Own(0)' = Own(0) \ {k}
    <3>1. Open(0)' = bridge[0].work \cup (Restart!Range(out[0]) \ {k})
      BY <1>1, <1>3, <1>6 DEF Open
    <3> QED  BY <1>4, <3>1 DEF Open, Own
  <2>3. \A p \in Restart!Procs : p # 0 => Open(p)' = Open(p) /\ Own(p)' = Own(p)
    BY <1>1, <1>6, <2>1 DEF Open, Own
  <2>4. \A p \in Restart!Procs : k \notin Own(p)' /\ Own(p)' \subseteq Own(p) /\ Open(p)' \subseteq Open(p)
    BY <1>2, <1>4, <2>2, <2>3 DEF RestartInv, Answers
  <2>5. \A p \in Restart!Procs : Own(p) \subseteq 1 .. Messages
    BY OpenType DEF Own, RestartInv
  <2>6. \A p \in Restart!Procs : /\ Restart!IsInjective(out[p])' /\ (bridge[p].work \cap Restart!Range(out[p]) = {})'
    BY <1>1, <1>2, <1>3, <1>6 DEF RestartInv, Answers
  <2>7. \A p \in Restart!Procs : \A j \in Own(p)' : j <= Len(took)' /\ client'.got[j] = 0
    BY <1>1, <1>5, <2>4, <2>5 DEF RestartInv, Answers
  <2>8. \A p, q \in Restart!Procs : p # q => Own(p)' \cap Own(q)' = {}
    BY <2>4 DEF RestartInv, Answers
  <2>9. \A p \in Restart!Procs : Relays(p) => p + 1 \in Restart!Procs
    BY DEF RestartInv, Chain
  <2>10. client'.stateful => \A p \in Restart!Procs : Relays(p)' =>
           /\ Restart!INITIALIZE \in Open(p + 1)' => bridge'[p].drop
           /\ bridge'[p + 1].captured = <<>> => bridge'[p].drop /\ Restart!INITIALIZE \notin Open(p + 1)'
    BY <1>1, <1>5, <2>4, <2>9 DEF RestartInv, Answers, Relays
  <2>11. \A j \in 1 .. Messages : j > Len(took)' => client'.got[j] = 0
    <3>1. k <= Len(took) /\ Len(took) \in Nat
      BY <1>2, <1>4, LenProperties DEF RestartInv, Answers, Flows
    <3>2. \A j \in 1 .. Messages : j > Len(took) => j # k
      BY <1>3, <3>1
    <3> QED  BY <1>1, <1>5, <3>2 DEF RestartInv, Answers
  <2>12. \A p \in Restart!Procs : Open(p)' \cap Restart!Notifications' = {}
    BY <2>1, <2>4 DEF Answers, RestartInv
  <2> QED
    BY <2>6, <2>7, <2>8, <2>10, <2>11, <2>12 DEF Answers
<1> QED
  BY <1>7, <1>8, <1>9, <1>10, <1>11 DEF RestartInv

(* An answer moves from the work of a process to its pipe.                *)
LEMMA AnswerKeeps ==
    ASSUME Restart!SelfRestartAssumption, RestartInv, NEW p \in Restart!Procs, Restart!Answer(p) PROVE RestartInv'
<1>1. PICK k \in bridge[p].work :
        /\ bridge' = [bridge EXCEPT ![p].work = @ \ {k}]
        /\ out' = [out EXCEPT ![p] = Append(@, k)] /\ UNCHANGED <<client, inp, took>>
  BY DEF Restart!Answer
<1>2. /\ bridge'[p] = [bridge[p] EXCEPT !.work = @ \ {k}] /\ bridge[p] \in Bridges
      /\ \A q \in Restart!Procs : q # p => bridge'[q] = bridge[q]
      /\ out'[p] = Append(out[p], k) /\ \A q \in Restart!Procs : q # p => out'[q] = out[q]
      /\ out[p] \in Seq(1 .. Messages) /\ Live(p)
  <2>1. Live(p)
    BY <1>1 DEF RestartInv, Chain, Restart!NoBridge
  <2> QED  BY <1>1, <2>1 DEF RestartInv, TypesOK
<1>3. /\ bridge'[p] \in Bridges /\ bridge'[p].st = bridge[p].st
      /\ bridge'[p].captured = bridge[p].captured /\ bridge'[p].ready = bridge[p].ready
      /\ bridge'[p].queued = bridge[p].queued /\ bridge'[p].work = bridge[p].work \ {k}
      /\ bridge'[p].drop = bridge[p].drop /\ bridge'[p].settled = bridge[p].settled
      /\ k \in 1 .. Messages
  BY <1>2 DEF Bridges
<1>4. /\ Append(out[p], k) \in Seq(1 .. Messages) /\ Restart!Range(out'[p]) = Restart!Range(out[p]) \cup {k}
      /\ Restart!IsInjective(out'[p]) /\ k \notin Restart!Range(out[p])
  <2>1. k \notin Restart!Range(out[p]) /\ Restart!IsInjective(out[p])
    BY <1>1 DEF RestartInv, Answers
  <2>2. Append(out[p], k) \in Seq(1 .. Messages)
    BY <1>2, <1>3, AppendFacts
  <2>3. Restart!Range(Append(out[p], k)) = Restart!Range(out[p]) \cup {k} /\ Restart!IsInjective(Append(out[p], k))
    <3> DEFINE o == out[p]
    <3>1. o \in Seq(1 .. Messages) /\ k \in 1 .. Messages /\ k \notin Restart!Range(o) /\ Restart!IsInjective(o)
      BY <1>2, <1>3, <2>1
    <3> HIDE DEF o
    <3>2. Restart!Range(Append(o, k)) = Restart!Range(o) \cup {k} /\ Restart!IsInjective(Append(o, k))
      <4>1. Restart!Range(Append(o, k)) = Restart!Range(o) \cup {k}
        BY <3>1, AppendSet
      <4>2. Restart!IsInjective(Append(o, k))
        BY <3>1, AppendSet
      <4> QED  BY <4>1, <4>2
    <3> QED  BY <3>2 DEF o
  <2> QED  BY <1>2, <2>1, <2>2, <2>3
<1>5. \A q \in Restart!Procs : /\ (Relays(q)' <=> Relays(q)) /\ (Live(q)' <=> Live(q))
                               /\ bridge'[q].st = bridge[q].st
                               /\ bridge'[q].captured = bridge[q].captured
                               /\ bridge'[q].ready = bridge[q].ready
                               /\ bridge'[q].queued = bridge[q].queued
                               /\ bridge'[q].drop = bridge[q].drop /\ bridge'[q].settled = bridge[q].settled
  BY <1>1, <1>2, <1>3 DEF Relays, Live
<1>6. TypesOK'
  BY <1>1, <1>2, <1>3, <1>4 DEF RestartInv, TypesOK
<1>7. Chain'
  <2>1. 0 \in Restart!Procs
    BY DEF Restart!Procs, Restart!SelfRestartAssumption
  <2> QED
    BY <1>1, <1>2, <1>5, <2>1 DEF RestartInv, Chain
<1>8. \A q \in Restart!Procs : Heard(q)'
  BY <1>1, <1>5 DEF RestartInv, Heard, Numbered
<1>9. Flows'
  BY <1>1, <1>5, FlowsKept DEF RestartInv
<1>10. Answers'
  <2>1. Restart!Handshake' = Restart!Handshake /\ Restart!Notifications' = Restart!Notifications
    BY <1>1 DEF Restart!Handshake, Restart!Notifications
  <2>2. Open(p)' = Open(p)
    BY <1>1, <1>3, <1>4 DEF Open
  <2>3. \A q \in Restart!Procs : Open(q)' = Open(q)
    BY <1>2, <2>2 DEF Open
  <2>4. \A q \in Restart!Procs : Own(q)' = Own(q)
    BY <2>1, <2>3 DEF Own
  <2>5. \A q \in Restart!Procs : Restart!IsInjective(out'[q]) /\ bridge'[q].work \cap Restart!Range(out'[q]) = {}
    BY <1>2, <1>3, <1>4 DEF RestartInv, Answers
  <2>6. \A q \in Restart!Procs : Relays(q) => q + 1 \in Restart!Procs
    BY DEF RestartInv, Chain
  <2> QED
    BY <1>1, <1>5, <2>1, <2>3, <2>4, <2>5, <2>6 DEF Answers, RestartInv
<1> QED
  BY <1>6, <1>7, <1>8, <1>9, <1>10 DEF RestartInv

(* A relay goes on: the rest of the handshake, then what it holds.           *)
LEMMA BecomeReadyFlows ==
    ASSUME Restart!SelfRestartAssumption, RestartInv, NEW p \in Restart!Procs, Relays(p), ~bridge[p].ready,
           inp' = [inp EXCEPT ![p + 1] =
                     Append(@, [nr |-> Restart!INITIALIZED, replay |-> TRUE]) \o bridge[p].queued],
           bridge'[p].ready, bridge'[p].queued = <<>>,
           \A q \in Restart!Procs : /\ (Relays(q)' <=> Relays(q)) /\ (Live(q)' <=> Live(q))
                                    /\ bridge'[q].captured = bridge[q].captured
                                    /\ q # p => bridge'[q].ready = bridge[q].ready
                                    /\ q # p => bridge'[q].queued = bridge[q].queued,
           UNCHANGED <<client, took>>
    PROVE  Flows'
<1> DEFINE l == [nr |-> Restart!INITIALIZED, replay |-> TRUE]
           s == inp[p + 1]
           t == bridge[p].queued
<1>1. /\ p + 1 \in Restart!Procs /\ Live(p + 1) /\ p \in Nat /\ p + 1 # 0 /\ (p + 1) - 1 = p
      /\ 0 \in Restart!Procs /\ client.stateful
  BY DEF RestartInv, Chain, Restart!Procs, Restart!SelfRestartAssumption, Heard, TypesOK
<1>2. l \in Lines /\ s \in Seq(Lines) /\ t \in Seq(Lines) /\ l.nr = 2 /\ l.replay
  <2>1. l \in Lines /\ l.nr = 2 /\ l.replay
    BY DEF Lines, Restart!INITIALIZED, Restart!SelfRestartAssumption
  <2>2. s \in Seq(Lines)
    BY <1>1 DEF RestartInv, TypesOK
  <2>3. t \in Seq(Lines)
    BY DEF RestartInv, TypesOK, Bridges
  <2> QED  BY <2>1, <2>2, <2>3
<1> HIDE DEF l, s, t
<1>3. /\ inp'[p + 1] = Append(s, l) \o t /\ \A q \in Restart!Procs : q # p + 1 => inp'[q] = inp[q]
  BY <1>1 DEF RestartInv, TypesOK, l, s, t
<1>4. /\ Append(s, l) \in Seq(Lines) /\ Len(Append(s, l)) = Len(s) + 1
      /\ Len(inp'[p + 1]) = Len(s) + 1 + Len(t) /\ Len(s) \in Nat /\ Len(t) \in Nat
  <2>1. Append(s, l) \in Seq(Lines) /\ Len(Append(s, l)) = Len(s) + 1
    BY <1>2, AppendFacts
  <2>2. Len(Append(s, l) \o t) = Len(Append(s, l)) + Len(t)
    BY <1>2, <2>1, ConcatProperties
  <2>3. Len(s) \in Nat /\ Len(t) \in Nat
    BY <1>2, LenProperties
  <2> QED  BY <1>3, <2>1, <2>2, <2>3
<1>5. PICK a, x : Flow(a, x)
  BY DEF RestartInv, Flows
<1> DEFINE y == [x EXCEPT ![p + 1] = a[p]]
<1>6. /\ y \in [Restart!Procs -> 0 .. Messages] /\ y[p + 1] = a[p]
      /\ \A q \in Restart!Procs : q # p + 1 => y[q] = x[q]
  BY <1>1, <1>5 DEF Flow
<1> HIDE DEF y
<1>7. /\ FlowAt(p, a, x) /\ FlowAt(p + 1, a, x) /\ a[p] \in Nat /\ x[p] \in Nat
      /\ a[p + 1] \in Nat /\ x[p + 1] \in Nat /\ client.sent \in Nat
  <2>1. Messages \in Nat /\ Live(p)
    BY DEF Restart!SelfRestartAssumption, Live, Relays
  <2>2. FlowAt(p, a, x) /\ FlowAt(p + 1, a, x)
    BY <1>1, <1>5, <2>1 DEF Flow
  <2>3. /\ a[p] \in 0 .. Messages /\ x[p] \in 0 .. Messages /\ a[p + 1] \in 0 .. Messages
        /\ x[p + 1] \in 0 .. Messages /\ client.sent \in 0 .. Messages
    BY <1>1, <1>5 DEF Flow, RestartInv, TypesOK
  <2> QED  BY <2>1, <2>2, <2>3
<1>8. x[p + 1] + Len(t) = a[p] /\ Lined(t, 0, 0, x[p + 1])
  BY <1>7 DEF FlowAt, Holds, t
<1>9. /\ x[p + 1] = a[p + 1] /\ Replayed(p + 1, a, x) = Len(s) /\ a[p + 1] >= 2
      /\ Len(s) + Len(bridge[p + 1].captured) = 1
  <2>1. x[p + 1] = a[p + 1] /\ a[p + 1] >= 2
        /\ Replayed(p + 1, a, x) + Len(bridge[p + 1].captured) = 1
    BY <1>1, <1>7 DEF FlowAt, Greeted
  <2>2. Len(s) - (x[p + 1] - a[p + 1]) = Len(s)
    BY <1>4, <1>7, <2>1
  <2> QED  BY <2>1, <2>2 DEF Replayed, s
<1>10. Replayed(p + 1, a, y)' = Len(s) + 1
  <2>1. (Len(s) + 1 + Len(t)) - (a[p] - a[p + 1]) = Len(s) + 1
    BY <1>4, <1>7, <1>8, <1>9
  <2> QED  BY <1>4, <1>6, <2>1 DEF Replayed
<1>11. Len(bridge[p + 1].captured) \in Nat
  BY <1>1, LenProperties DEF RestartInv, TypesOK, Bridges
<1>12. Input(p + 1, a, y)'
  <2> DEFINE c == Len(bridge[p + 1].captured)
  <2>1. Lined(s, c, Len(s), a[p + 1])
    BY <1>7, <1>9 DEF FlowAt, Input, s
  <2>2. l.nr = c + Len(s) + 1
    BY <1>2, <1>4, <1>9, <1>11
  <2>3. Lined(Append(s, l), c, Len(s) + 1, a[p + 1])
    BY <1>2, <1>7, <1>11, <2>1, <2>2, LinedReplay
  <2>4. a[p + 1] + ((Len(s) + 1) - (Len(s) + 1)) = x[p + 1] /\ Len(s) + 1 \in Nat
    BY <1>4, <1>7, <1>9
  <2>5. Lined(Append(s, l) \o t, c, Len(s) + 1, a[p + 1])
    <3> DEFINE u == Append(s, l)
               r == Len(s) + 1
    <3>1. u \in Seq(Lines) /\ Len(u) = r /\ r \in Nat /\ Lined(u, c, r, a[p + 1])
          /\ Lined(t, 0, 0, a[p + 1] + (r - r)) /\ r <= r
      BY <1>4, <1>8, <2>3, <2>4
    <3> HIDE DEF u, r, c
    <3> QED  BY <1>2, <1>7, <1>11, <3>1, LinedConcat DEF u, r, c
  <2>6. bridge'[p + 1].captured = bridge[p + 1].captured
    BY <1>1
  <2> QED  BY <1>3, <1>10, <2>4, <2>5, <2>6 DEF Input
<1>13. Greeted(p + 1, a, y)'
  <2>1. bridge'[p + 1].captured = bridge[p + 1].captured
    BY <1>1
  <2>2. Len(s) + 1 + Len(bridge[p + 1].captured) = 2
    <3> DEFINE m == Len(s)
               c == Len(bridge[p + 1].captured)
    <3>1. m \in Nat /\ c \in Nat /\ m + c = 1
      BY <1>4, <1>9, <1>11
    <3> HIDE DEF m, c
    <3>2. m + 1 + c = 2
      BY <3>1
    <3> QED  BY <3>2 DEF m, c
  <2>3. bridge'[(p + 1) - 1].ready /\ client'.stateful
    BY <1>1
  <2> QED  BY <1>1, <1>9, <1>10, <2>1, <2>2, <2>3 DEF Greeted
<1>14. Relays(p + 1) => p + 1 + 1 \in Restart!Procs /\ p + 1 + 1 # p + 1
  BY <1>1 DEF RestartInv, Chain
<1>15. FlowAt(p + 1, a, y)'
  <2>1. a[p + 1] <= y[p + 1] /\ y[p + 1] <= client.sent
    BY <1>4, <1>6, <1>7, <1>8, <1>9 DEF FlowAt
  <2>2. IF Relays(p + 1) THEN Holds(p + 1, a, y)' ELSE a[p + 1] = Len(took)
    <3>1. Relays(p + 1) => Holds(p + 1, a, x) /\ y[p + 1 + 1] = x[p + 1 + 1]
      BY <1>6, <1>7, <1>14 DEF FlowAt
    <3>2. bridge'[p + 1].ready = bridge[p + 1].ready /\ bridge'[p + 1].queued = bridge[p + 1].queued
      BY <1>1
    <3> QED  BY <1>7, <3>1, <3>2 DEF FlowAt, Holds
  <2>3. (Relays(p + 1)' <=> Relays(p + 1)) /\ took' = took /\ client' = client
    BY <1>1
  <2> QED  BY <1>12, <1>13, <2>1, <2>2, <2>3 DEF FlowAt
<1>16. FlowAt(p, a, y)'
  <2>1. Len(<<>>) = 0 /\ y[p] = x[p] /\ inp'[p] = inp[p] /\ p + 1 # p
    BY <1>1, <1>3, <1>6
  <2>2. Holds(p, a, y)'
    BY <1>6, <1>7, <2>1 DEF Holds, Lined
  <2>3. p # 0 => p - 1 \in Restart!Procs /\ p - 1 # p
    BY <1>1 DEF Restart!Procs, Restart!SelfRestartAssumption
  <2>4. /\ bridge'[p].captured = bridge[p].captured
        /\ p # 0 => bridge'[p - 1].ready = bridge[p - 1].ready
        /\ client' = client
    BY <2>3
  <2>5. Replayed(p, a, y)' = Replayed(p, a, x)
    BY <2>1 DEF Replayed
  <2>6. Input(p, a, y)'
    BY <1>7, <2>1, <2>4, <2>5 DEF FlowAt, Input
  <2>7. Greeted(p, a, y)'
    BY <1>7, <2>1, <2>4, <2>5 DEF FlowAt, Greeted
  <2> QED  BY <1>7, <2>1, <2>2, <2>4, <2>6, <2>7 DEF FlowAt
<1>17. ASSUME NEW q \in Restart!Procs, Live(q)', q # p, q # p + 1
       PROVE  FlowAt(q, a, y)'
  <2>1. FlowAt(q, a, x) /\ y[q] = x[q] /\ inp'[q] = inp[q]
    BY <1>3, <1>5, <1>6, <1>17 DEF Flow
  <2>2. /\ q # 0 => q - 1 \in Restart!Procs /\ q - 1 # p
        /\ Relays(q) => q + 1 \in Restart!Procs /\ q + 1 # p + 1
    BY <1>17 DEF Restart!Procs, Restart!SelfRestartAssumption, RestartInv, Chain
  <2>3. /\ q # 0 => bridge'[q - 1].ready = bridge[q - 1].ready
        /\ Relays(q) => y[q + 1] = x[q + 1]
    BY <1>6, <2>2
  <2> QED
    BY <1>17, <2>1, <2>3, FlowFrame
<1>18. Flow(a, y)'
  <2>1. y[0] = client.sent
    BY <1>1, <1>5, <1>6 DEF Flow
  <2> QED  BY <1>5, <1>6, <1>15, <1>16, <1>17, <2>1 DEF Flow
<1> QED
  BY <1>18 DEF RestartInv, Flows, Numbered

(* What becoming ready leaves alone, whichever way it comes.              *)
LEMMA BecomeReadyKeeps ==
    ASSUME Restart!SelfRestartAssumption, RestartInv, NEW p \in Restart!Procs, Relays(p), NEW b \in Bridges,
           b.st = "relay", b.captured = bridge[p].captured, b.settled = bridge[p].settled,
           b.work = bridge[p].work, b.ready = bridge[p].ready, b.queued = bridge[p].queued,
           b.drop => bridge[p].drop, Restart!BecomeReady(p, b), UNCHANGED <<client, took>>
    PROVE  /\ inp' \in [Restart!Procs -> Seq(Lines)] /\ bridge' \in [Restart!Procs -> Bridges]
           /\ \A q \in Restart!Procs : ~Live(q) => inp'[q] = inp[q] /\ bridge'[q] = bridge[q]
           /\ \A q \in Restart!Procs : /\ (Relays(q)' <=> Relays(q)) /\ (Live(q)' <=> Live(q))
                                       /\ bridge'[q].st = bridge[q].st
                                       /\ bridge'[q].captured = bridge[q].captured
                                       /\ bridge'[q].work = bridge[q].work
                                       /\ bridge'[q].drop = IF q = p THEN b.drop ELSE bridge[q].drop
                                       /\ ~Relays(q) => bridge'[q].queued = bridge[q].queued
                                       /\ Heard(q)'
           /\ Flows'
<1> DEFINE c == [b EXCEPT !.ready = TRUE, !.queued = <<>>]
<1>1. /\ c \in Bridges /\ c.st = "relay" /\ c.captured = bridge[p].captured
      /\ c.settled = bridge[p].settled /\ c.work = bridge[p].work /\ c.drop = b.drop
      /\ c.ready /\ c.queued = <<>>
  <2>1. <<>> \in Seq(Lines)
    BY EmptySeq
  <2>2. c \in Bridges
    BY <2>1 DEF Bridges
  <2>3. /\ c.st = b.st /\ c.captured = b.captured /\ c.settled = b.settled /\ c.work = b.work
        /\ c.drop = b.drop /\ c.ready = TRUE /\ c.queued = <<>>
    BY DEF Bridges
  <2> HIDE DEF c
  <2> QED  BY <2>2, <2>3
<1>2. bridge' = [bridge EXCEPT ![p] = c]
  BY DEF Restart!BecomeReady
<1> HIDE DEF c
<1>3. /\ bridge'[p] = c /\ (\A q \in Restart!Procs : q # p => bridge'[q] = bridge[q])
      /\ bridge' \in [Restart!Procs -> Bridges]
  BY <1>1, <1>2 DEF RestartInv, TypesOK
<1>4. \A q \in Restart!Procs : /\ (Relays(q)' <=> Relays(q)) /\ (Live(q)' <=> Live(q))
                               /\ bridge'[q].st = bridge[q].st
                               /\ bridge'[q].captured = bridge[q].captured
                               /\ bridge'[q].settled = bridge[q].settled
                               /\ bridge'[q].work = bridge[q].work
                               /\ bridge'[q].drop = IF q = p THEN b.drop ELSE bridge[q].drop
                               /\ q # p => bridge'[q].ready = bridge[q].ready
                               /\ q # p => bridge'[q].queued = bridge[q].queued
  BY <1>1, <1>3 DEF Relays, Live
<1>5. \A q \in Restart!Procs : Heard(q)'
  <2> TAKE q \in Restart!Procs
  <2>1. CASE q = p
    BY <1>1, <1>3, <1>4, <2>1 DEF RestartInv, Heard, Numbered
  <2>2. CASE q # p
    BY <1>4, <2>2 DEF RestartInv, Heard, Numbered
  <2> QED  BY <2>1, <2>2
<1>6. p + 1 \in Restart!Procs /\ Live(p + 1)
  BY DEF RestartInv, Chain
<1>7. CASE bridge[p].ready
  <2>1. inp' = inp
    <3>1. inp' = [inp EXCEPT ![p + 1] = @]
      BY <1>7 DEF Restart!BecomeReady
    <3> QED  BY <1>6, <3>1 DEF RestartInv, TypesOK
  <2>2. bridge[p].queued = <<>>
    <3>1. PICK a, x : Flow(a, x)
      BY DEF RestartInv, Flows
    <3>2. FlowAt(p, a, x)
      BY <3>1 DEF Flow, Live, Relays
    <3> QED  BY <1>7, <3>2 DEF FlowAt, Holds
  <2>3. bridge'[p].ready = bridge[p].ready /\ bridge'[p].queued = bridge[p].queued
    BY <1>1, <1>3, <1>7, <2>2 DEF RestartInv, TypesOK, Bridges
  <2>4. \A q \in Restart!Procs : bridge'[q].ready = bridge[q].ready /\ bridge'[q].queued = bridge[q].queued
    BY <1>4, <2>3
  <2>5. Flows'
    BY <1>4, <2>1, <2>4, FlowsKept DEF RestartInv
  <2>6. inp' \in [Restart!Procs -> Seq(Lines)]
    BY <2>1 DEF RestartInv, TypesOK
  <2> QED  BY <1>3, <1>4, <1>5, <2>1, <2>4, <2>5, <2>6 DEF Live, Relays
<1>8. CASE ~bridge[p].ready
  <2> DEFINE l == [nr |-> Restart!INITIALIZED, replay |-> TRUE]
             i == Append(inp[p + 1], l) \o bridge[p].queued
  <2>1. inp' = [inp EXCEPT ![p + 1] = i]
    BY <1>8 DEF Restart!BecomeReady, Restart!Flushed
  <2>2. i \in Seq(Lines)
    <3>1. l \in Lines
      BY DEF Lines, Restart!INITIALIZED, Restart!SelfRestartAssumption
    <3>2. inp[p + 1] \in Seq(Lines) /\ bridge[p].queued \in Seq(Lines)
      BY <1>6 DEF RestartInv, TypesOK, Bridges
    <3> HIDE DEF l
    <3>3. Append(inp[p + 1], l) \in Seq(Lines)
      BY <3>1, <3>2, AppendFacts
    <3> QED  BY <3>2, <3>3, ConcatProperties
  <2>3. Flows'
    BY <1>1, <1>3, <1>4, <1>8, <2>1, BecomeReadyFlows
  <2> HIDE DEF i
  <2>4. inp' \in [Restart!Procs -> Seq(Lines)] /\ \A q \in Restart!Procs : q # p + 1 => inp'[q] = inp[q]
    BY <1>6, <2>1, <2>2 DEF RestartInv, TypesOK
  <2> QED  BY <1>3, <1>4, <1>5, <1>6, <2>3, <2>4 DEF Live, Relays
<1> QED  BY <1>7, <1>8

(* The relay goes on; the late answer is still to be dropped.             *)
LEMMA TimeoutKeeps ==
    ASSUME Restart!SelfRestartAssumption, RestartInv, NEW p \in Restart!Procs, Restart!Timeout(p) PROVE RestartInv'
<1>1. Relays(p) /\ Restart!BecomeReady(p, bridge[p]) /\ UNCHANGED <<client, out, took>>
  BY DEF Restart!Timeout, Relays
<1>2. bridge[p] \in Bridges /\ bridge[p].st = "relay"
  BY <1>1 DEF RestartInv, TypesOK, Relays
<1>3. /\ inp' \in [Restart!Procs -> Seq(Lines)] /\ bridge' \in [Restart!Procs -> Bridges]
      /\ \A q \in Restart!Procs : ~Live(q) => inp'[q] = inp[q] /\ bridge'[q] = bridge[q]
      /\ \A q \in Restart!Procs : /\ (Relays(q)' <=> Relays(q)) /\ (Live(q)' <=> Live(q))
                                  /\ bridge'[q].st = bridge[q].st
                                  /\ bridge'[q].captured = bridge[q].captured
                                  /\ bridge'[q].work = bridge[q].work
                                  /\ bridge'[q].drop = IF q = p THEN bridge[p].drop ELSE bridge[q].drop
                                  /\ ~Relays(q) => bridge'[q].queued = bridge[q].queued
                                  /\ Heard(q)'
      /\ Flows'
  BY <1>1, <1>2, BecomeReadyKeeps
<1>4. TypesOK'
  BY <1>1, <1>3 DEF RestartInv, TypesOK
<1>5. Chain'
  <2>1. 0 \in Restart!Procs
    BY DEF Restart!Procs, Restart!SelfRestartAssumption
  <2> QED  BY <1>1, <1>3, <2>1 DEF RestartInv, Chain
<1>6. Answers'
  BY <1>1, <1>3, AnswersKept DEF RestartInv, Chain
<1> QED
  BY <1>3, <1>4, <1>5, <1>6 DEF RestartInv

(* The answer to the replayed line is the one that is dropped.            *)
LEMMA DropKeeps ==
    ASSUME Restart!SelfRestartAssumption, RestartInv, NEW p \in Restart!Procs, Restart!RelayOut(p),
           Restart!Dropped(p, Head(out[p + 1]))
    PROVE  RestartInv'
<1> DEFINE b == [bridge[p] EXCEPT !.drop = FALSE]
<1>1. /\ Relays(p) /\ out[p + 1] # <<>> /\ bridge[p].drop /\ Head(out[p + 1]) = Restart!INITIALIZE
      /\ Restart!BecomeReady(p, b) /\ out' = [out EXCEPT ![p + 1] = Tail(@)] /\ UNCHANGED <<client, took>>
  BY DEF Restart!RelayOut, Relays, Restart!Dropped
<1>2. /\ p + 1 \in Restart!Procs /\ p + 1 # 0 /\ 0 \in Restart!Procs /\ bridge[p] \in Bridges
      /\ out[p + 1] \in Seq(1 .. Messages) /\ client.stateful /\ client.stateful \in BOOLEAN
  BY <1>1 DEF RestartInv, Chain, Restart!Procs, Restart!SelfRestartAssumption, TypesOK, Heard
<1>3. /\ b \in Bridges /\ b.st = "relay" /\ b.captured = bridge[p].captured
      /\ b.settled = bridge[p].settled /\ b.work = bridge[p].work /\ b.ready = bridge[p].ready
      /\ b.queued = bridge[p].queued /\ b.drop = FALSE
  BY <1>1, <1>2 DEF Bridges, Relays
<1> HIDE DEF b
<1>4. /\ inp' \in [Restart!Procs -> Seq(Lines)] /\ bridge' \in [Restart!Procs -> Bridges]
      /\ \A q \in Restart!Procs : ~Live(q) => inp'[q] = inp[q] /\ bridge'[q] = bridge[q]
      /\ \A q \in Restart!Procs : /\ (Relays(q)' <=> Relays(q)) /\ (Live(q)' <=> Live(q))
                                  /\ bridge'[q].st = bridge[q].st
                                  /\ bridge'[q].captured = bridge[q].captured
                                  /\ bridge'[q].work = bridge[q].work
                                  /\ bridge'[q].drop = IF q = p THEN b.drop ELSE bridge[q].drop
                                  /\ ~Relays(q) => bridge'[q].queued = bridge[q].queued
                                  /\ Heard(q)'
      /\ Flows'
  BY <1>1, <1>3, BecomeReadyKeeps
<1>5. /\ Tail(out[p + 1]) \in Seq(1 .. Messages) /\ Restart!IsInjective(Tail(out[p + 1]))
      /\ Restart!Range(Tail(out[p + 1])) = Restart!Range(out[p + 1]) \ {Restart!INITIALIZE}
      /\ Restart!INITIALIZE \in Restart!Range(out[p + 1])
  <2>1. Restart!IsInjective(out[p + 1])
    BY <1>2 DEF RestartInv, Answers
  <2> QED  BY <1>1, <1>2, <2>1, TailFacts, TailSet
<1>6. /\ out'[p + 1] = Tail(out[p + 1]) /\ \A q \in Restart!Procs : q # p + 1 => out'[q] = out[q]
      /\ out' \in [Restart!Procs -> Seq(1 .. Messages)]
  BY <1>1, <1>2, <1>5 DEF RestartInv, TypesOK
<1>7. TypesOK'
  BY <1>1, <1>4, <1>6 DEF RestartInv, TypesOK
<1>8. Chain'
  <2>1. Live(p + 1)
    BY <1>1 DEF RestartInv, Chain
  <2>2. Live(0)' /\ \A q, r \in Restart!Procs : q < r /\ Live(r)' => Relays(q)'
    BY <1>2, <1>4 DEF RestartInv, Chain
  <2>3. ASSUME NEW q \in Restart!Procs
        PROVE  /\ ~Live(q)' => bridge'[q] = Restart!NoBridge /\ inp'[q] = <<>> /\ out'[q] = <<>>
               /\ Relays(q)' => q + 1 \in Restart!Procs /\ Live(q + 1)'
               /\ bridge'[q].st = "paused" => q + 1 \in Restart!Procs
    BY <1>4, <1>6, <2>1 DEF RestartInv, Chain
  <2>4. ASSUME NEW q \in Restart!Procs, ~Relays(q)'
        PROVE  ~bridge'[q].drop /\ bridge'[q].queued = <<>>
    <3>1. ~Relays(q) /\ q # p
      BY <1>1, <1>4, <2>4
    <3> QED  BY <1>4, <3>1 DEF RestartInv, Chain
  <2> QED  BY <2>2, <2>3, <2>4 DEF Chain
<1>9. Answers'
  <2>1. Restart!Handshake' = Restart!Handshake /\ Restart!Notifications' = Restart!Notifications
        /\ Restart!INITIALIZE \in Restart!Handshake
    BY <1>1, <1>2 DEF Restart!Handshake, Restart!Notifications
  <2>2. Restart!INITIALIZE \notin bridge[p + 1].work
    BY <1>2, <1>5 DEF RestartInv, Answers
  <2>3. Open(p + 1)' = Open(p + 1) \ {Restart!INITIALIZE}
    <3>1. Open(p + 1)' = bridge[p + 1].work \cup (Restart!Range(out[p + 1]) \ {Restart!INITIALIZE})
      BY <1>2, <1>4, <1>5, <1>6 DEF Open
    <3> QED  BY <2>2, <3>1 DEF Open
  <2>4. \A q \in Restart!Procs : q # p + 1 => Open(q)' = Open(q)
    BY <1>4, <1>6 DEF Open
  <2>5. \A q \in Restart!Procs : Own(q)' = Own(q)
    BY <1>2, <2>1, <2>3, <2>4 DEF Own
  <2>6. \A q \in Restart!Procs : /\ Open(q)' \subseteq Open(q)
                                 /\ Restart!IsInjective(out'[q]) /\ bridge'[q].work \cap Restart!Range(out'[q]) = {}
    <3> TAKE q \in Restart!Procs
    <3>1. Restart!IsInjective(out[q]) /\ bridge[q].work \cap Restart!Range(out[q]) = {}
      BY DEF RestartInv, Answers
    <3>2. CASE q = p + 1
      BY <1>4, <1>5, <1>6, <2>3, <3>1, <3>2
    <3>3. CASE q # p + 1
      BY <1>4, <1>6, <2>4, <3>1, <3>3
    <3> QED  BY <3>2, <3>3
  <2>7. ASSUME NEW q \in Restart!Procs, Relays(q)
        PROVE  /\ Restart!INITIALIZE \in Open(q + 1)' => bridge'[q].drop
               /\ bridge'[q + 1].captured = <<>> => bridge'[q].drop /\ Restart!INITIALIZE \notin Open(q + 1)'
    <3>1. /\ q + 1 \in Restart!Procs
          /\ Restart!INITIALIZE \in Open(q + 1) => bridge[q].drop
          /\ bridge[q + 1].captured = <<>> => bridge[q].drop /\ Restart!INITIALIZE \notin Open(q + 1)
      BY <1>2, <2>7 DEF RestartInv, Chain, Answers
    <3>2. CASE q = p
      <4>1. Restart!INITIALIZE \in Open(p + 1)
        BY <1>5 DEF Open
      <4> QED  BY <1>2, <1>4, <2>3, <3>1, <3>2, <4>1
    <3>3. CASE q # p
      BY <1>4, <2>6, <2>7, <3>1, <3>3
    <3> QED  BY <3>2, <3>3
  <2>8. /\ \A q \in Restart!Procs : Open(q)' \cap Restart!Notifications' = {}
        /\ \A q \in Restart!Procs : \A k \in Own(q)' : k <= Len(took)' /\ client'.got[k] = 0
        /\ \A q, r \in Restart!Procs : q # r => Own(q)' \cap Own(r)' = {}
    BY <1>1, <2>1, <2>5, <2>6 DEF RestartInv, Answers
  <2>9. \A k \in 1 .. Messages : k > Len(took)' => client'.got[k] = 0
    BY <1>1 DEF RestartInv, Answers
  <2> QED  BY <1>4, <2>6, <2>7, <2>8, <2>9 DEF Answers
<1> QED
  BY <1>4, <1>7, <1>8, <1>9 DEF RestartInv

(* Any other answer is one of the client's and moves up the chain.        *)
LEMMA PassOnKeeps ==
    ASSUME Restart!SelfRestartAssumption, RestartInv, NEW p \in Restart!Procs, Restart!RelayOut(p),
           ~Restart!Dropped(p, Head(out[p + 1]))
    PROVE  RestartInv'
<1> DEFINE k == Head(out[p + 1])
<1>1. /\ Relays(p) /\ out[p + 1] # <<>> /\ ~(bridge[p].drop /\ k = Restart!INITIALIZE)
      /\ out' = [out EXCEPT ![p + 1] = Tail(@), ![p] = Append(@, k)]
      /\ UNCHANGED <<client, inp, bridge, took>>
  BY DEF Restart!RelayOut, Relays, Restart!Dropped
<1>2. /\ p + 1 \in Restart!Procs /\ p + 1 # 0 /\ p # p + 1 /\ 0 \in Restart!Procs /\ Live(p + 1) /\ Live(p)
      /\ out[p + 1] \in Seq(1 .. Messages) /\ out[p] \in Seq(1 .. Messages)
      /\ Restart!IsInjective(out[p + 1]) /\ Restart!IsInjective(out[p])
  <2>1. p + 1 \in Restart!Procs /\ Live(p + 1) /\ Live(p)
    BY <1>1 DEF RestartInv, Chain, Live, Relays
  <2>2. p + 1 # 0 /\ p # p + 1 /\ 0 \in Restart!Procs
    BY DEF Restart!Procs, Restart!SelfRestartAssumption
  <2> QED  BY <2>1, <2>2 DEF RestartInv, TypesOK, Answers
<1>3. /\ k \in 1 .. Messages /\ k \in Restart!Range(out[p + 1]) /\ Tail(out[p + 1]) \in Seq(1 .. Messages)
      /\ Restart!IsInjective(Tail(out[p + 1])) /\ Restart!Range(Tail(out[p + 1])) = Restart!Range(out[p + 1]) \ {k}
  BY <1>1, <1>2, TailFacts, TailSet
<1> HIDE DEF k
<1>4. k \in Open(p + 1) /\ k \notin bridge[p + 1].work /\ k \notin Restart!Handshake
  <2>1. k \in Open(p + 1) /\ k \notin bridge[p + 1].work /\ k \notin Restart!Notifications
    BY <1>2, <1>3 DEF Open, RestartInv, Answers
  <2>2. client.stateful => (Restart!INITIALIZE \in Open(p + 1) => bridge[p].drop)
    BY <1>1 DEF RestartInv, Answers
  <2> QED  BY <1>1, <2>1, <2>2 DEF Restart!Notifications, Restart!Handshake
<1>5. k \in Own(p + 1) /\ k \notin Own(p) /\ k \notin Open(p)
  <2>1. k \in Own(p + 1)
    BY <1>4 DEF Own
  <2>2. k \notin Own(p)
    BY <1>2, <2>1 DEF RestartInv, Answers
  <2> QED  BY <1>4, <2>1, <2>2 DEF Own
<1>6. /\ Append(out[p], k) \in Seq(1 .. Messages) /\ Restart!IsInjective(Append(out[p], k))
      /\ Restart!Range(Append(out[p], k)) = Restart!Range(out[p]) \cup {k}
  <2>1. k \notin Restart!Range(out[p])
    BY <1>5 DEF Open
  <2>2. Append(out[p], k) \in Seq(1 .. Messages)
    BY <1>2, <1>3, AppendFacts
  <2> QED  BY <1>2, <1>3, <2>1, <2>2, AppendSet
<1>7. /\ out'[p + 1] = Tail(out[p + 1]) /\ out'[p] = Append(out[p], k)
      /\ \A q \in Restart!Procs : q # p /\ q # p + 1 => out'[q] = out[q]
      /\ out' \in [Restart!Procs -> Seq(1 .. Messages)]
  BY <1>1, <1>2, <1>3, <1>6 DEF RestartInv, TypesOK
<1>8. TypesOK'
  BY <1>1, <1>7 DEF RestartInv, TypesOK
<1>9. Chain'
  BY <1>1, <1>2, <1>7 DEF RestartInv, Chain, Live, Relays
<1>10. \A q \in Restart!Procs : Heard(q)'
  BY <1>1 DEF RestartInv, Heard, Relays, Numbered
<1>11. Flows'
  BY <1>1, FlowsKept DEF RestartInv, Live, Relays
<1>12. Answers'
  <2>1. Restart!Handshake' = Restart!Handshake /\ Restart!Notifications' = Restart!Notifications
    BY <1>1 DEF Restart!Handshake, Restart!Notifications
  <2>2. Open(p + 1)' = Open(p + 1) \ {k}
    <3>1. Open(p + 1)' = bridge[p + 1].work \cup (Restart!Range(out[p + 1]) \ {k})
      BY <1>1, <1>3, <1>7 DEF Open
    <3> QED  BY <1>4, <3>1 DEF Open
  <2>3. Open(p)' = Open(p) \cup {k}
    BY <1>1, <1>6, <1>7 DEF Open
  <2>4. \A q \in Restart!Procs : q # p /\ q # p + 1 => Open(q)' = Open(q)
    BY <1>1, <1>7 DEF Open
  <2>5. /\ Own(p + 1)' = Own(p + 1) \ {k} /\ Own(p)' = Own(p) \cup {k}
        /\ \A q \in Restart!Procs : q # p /\ q # p + 1 => Own(q)' = Own(q)
    BY <1>4, <2>1, <2>2, <2>3, <2>4 DEF Own
  <2>6. \A q \in Restart!Procs : Restart!IsInjective(out'[q])
    BY <1>3, <1>6, <1>7 DEF RestartInv, Answers
  <2>7. \A q \in Restart!Procs : bridge'[q].work \cap Restart!Range(out'[q]) = {}
    <3> TAKE q \in Restart!Procs
    <3>1. bridge[q].work \cap Restart!Range(out[q]) = {} /\ k \notin bridge[p].work
      BY <1>5 DEF RestartInv, Answers, Open
    <3> QED  BY <1>1, <1>3, <1>6, <1>7, <3>1
  <2>8. \A q \in Restart!Procs : Open(q)' \cap Restart!Notifications' = {}
    <3> TAKE q \in Restart!Procs
    <3>1. Open(q) \cap Restart!Notifications = {} /\ k \notin Restart!Notifications
      BY <1>4 DEF RestartInv, Answers, Restart!Notifications
    <3> QED  BY <2>1, <2>2, <2>3, <2>4, <3>1
  <2>9. \A q \in Restart!Procs : \A j \in Own(q)' : j <= Len(took)' /\ client'.got[j] = 0
    <3> TAKE q \in Restart!Procs
    <3>1. \A j \in Own(q) \cup Own(p + 1) : j <= Len(took) /\ client.got[j] = 0
      BY <1>2 DEF RestartInv, Answers
    <3> QED  BY <1>1, <1>5, <2>5, <3>1
  <2>10. \A q, r \in Restart!Procs : q # r => Own(q)' \cap Own(r)' = {}
    <3>1. \A q, r \in Restart!Procs : q # r => Own(q) \cap Own(r) = {}
      BY DEF RestartInv, Answers
    <3>2. \A q \in Restart!Procs : k \in Own(q)' => q = p
      BY <1>2, <1>5, <2>5, <3>1
    <3>3. \A q \in Restart!Procs : Own(q)' \subseteq Own(q) \cup {k}
      BY <2>5
    <3> QED  BY <3>1, <3>2, <3>3
  <2>11. client'.stateful => \A q \in Restart!Procs : Relays(q)' =>
           /\ Restart!INITIALIZE \in Open(q + 1)' => bridge'[q].drop
           /\ bridge'[q + 1].captured = <<>> => bridge'[q].drop /\ Restart!INITIALIZE \notin Open(q + 1)'
    <3>1. client.stateful => k # Restart!INITIALIZE
      BY <1>4 DEF Restart!Handshake
    <3>2. \A q \in Restart!Procs : Relays(q) => q + 1 \in Restart!Procs
      BY DEF RestartInv, Chain
    <3>3. client.stateful
          => \A q \in Restart!Procs : Restart!INITIALIZE \in Open(q)' <=> Restart!INITIALIZE \in Open(q)
      BY <2>2, <2>3, <2>4, <3>1
    <3> QED  BY <1>1, <3>2, <3>3 DEF RestartInv, Answers, Relays
  <2>12. \A j \in 1 .. Messages : j > Len(took)' => client'.got[j] = 0
    BY <1>1 DEF RestartInv, Answers
  <2> QED  BY <2>6, <2>7, <2>8, <2>9, <2>10, <2>11, <2>12 DEF Answers
<1> QED
  BY <1>8, <1>9, <1>10, <1>11, <1>12 DEF RestartInv

(* What a relay reads is the next message of the client.                     *)
LEMMA RelayReads ==
    ASSUME Restart!SelfRestartAssumption, RestartInv, NEW p \in Restart!Procs, Relays(p), inp[p] # <<>>,
           NEW a, NEW x, Flow(a, x)
    PROVE  LET m == Head(inp[p])
           IN  /\ m \in Lines /\ ~m.replay /\ m.nr = a[p] + 1 /\ a[p] + 1 <= x[p]
               /\ Replayed(p, a, x) = 0 /\ Len(Tail(inp[p])) = Len(inp[p]) - 1
               /\ Lined(Tail(inp[p]), Len(bridge[p].captured), 0, a[p] + 1)
               /\ p # 0 => bridge[p - 1].ready
               /\ client.stateful => a[p] >= 2 /\ Len(bridge[p].captured) = 2
               /\ a[p] \in Nat /\ x[p] \in Nat /\ Tail(inp[p]) \in Seq(Lines)
<1> DEFINE s == inp[p]
           c == Len(bridge[p].captured)
           r == Replayed(p, a, x)
           n == a[p]
<1>1. /\ FlowAt(p, a, x) /\ a[p] \in Nat /\ x[p] \in Nat /\ inp[p] \in Seq(Lines)
      /\ Len(inp[p]) \in Nat /\ Len(inp[p]) > 0 /\ c \in Nat
  <2>1. FlowAt(p, a, x) /\ a[p] \in 0 .. Messages /\ x[p] \in 0 .. Messages /\ Messages \in Nat
    BY DEF Flow, Live, Relays, Restart!SelfRestartAssumption
  <2>2. inp[p] \in Seq(Lines) /\ bridge[p].captured \in Seq(1 .. Messages)
    BY DEF RestartInv, TypesOK, Bridges
  <2> QED  BY <2>1, <2>2, EmptySeq, LenProperties
<1>2. r \in Nat /\ Lined(s, c, r, n)
  BY <1>1 DEF FlowAt, Input
<1>3. client.stateful => c = 2
  BY DEF RestartInv, Heard, Relays
<1>4. r = 0 /\ (p # 0 => bridge[p - 1].ready \/ x[p] = a[p]) /\ (client.stateful => a[p] >= 2)
  <2>0. Greeted(p, a, x)
    BY <1>1 DEF FlowAt
  <2>1. CASE ~client.stateful
    <3>1. r = 0 /\ (p # 0 /\ ~bridge[p - 1].ready => x[p] = a[p])
      BY <2>0, <2>1 DEF Greeted
    <3> QED  BY <2>1, <3>1
  <2>2. CASE client.stateful /\ p = 0
    <3>1. r = 0 /\ c = IF a[p] <= 2 THEN a[p] ELSE 2
      BY <2>0, <2>2 DEF Greeted
    <3> HIDE DEF r, c
    <3>2. a[p] >= 2
      BY <1>1, <1>3, <2>2, <3>1
    <3> QED  BY <2>2, <3>1, <3>2
  <2>3. CASE client.stateful /\ p # 0
    <3>1. a[p] >= 2 /\ r + c = IF bridge[p - 1].ready THEN 2 ELSE 1
      BY <1>1, <2>3 DEF FlowAt, Greeted
    <3> HIDE DEF r, c
    <3>2. r = 0
      BY <1>2, <1>3, <2>3, <3>1
    <3> QED  BY <1>3, <1>1, <2>3, <3>1, <3>2 DEF FlowAt, Greeted
  <2> QED  BY <2>1, <2>2, <2>3
<1>5. Len(inp[p]) - (x[p] - a[p]) = 0
  BY <1>4 DEF Replayed
<1>6. a[p] + 1 <= x[p]
  BY <1>1, <1>5
<1>7. /\ ~Head(s).replay /\ Head(s).nr = n + 1 /\ Lined(Tail(s), c, 0, n + 1)
      /\ Head(s) \in Lines /\ Tail(s) \in Seq(Lines) /\ Len(Tail(s)) = Len(s) - 1
  <2>1. s \in Seq(Lines) /\ s # <<>> /\ c \in Nat /\ r \in Nat /\ n \in Nat /\ Lined(s, c, r, n) /\ r = 0
    BY <1>1, <1>2, <1>4
  <2> HIDE DEF s, c, r, n
  <2> QED  BY <2>1, LinedTail, TailFacts
<1> QED
  BY <1>1, <1>3, <1>4, <1>6, <1>7

(* A process that has heard all of the handshake takes another message.       *)
LEMMA GreetedMore ==
    ASSUME NEW p \in Restart!Procs, NEW a, NEW x, NEW b, NEW y, FlowAt(p, a, x), a[p] \in Nat,
           Replayed(p, a, x) = 0, Replayed(p, b, y)' = 0, b[p] = a[p] + 1,
           p # 0 => bridge[p - 1].ready, p # 0 => bridge'[p - 1].ready = bridge[p - 1].ready,
           client' = client, bridge'[p].captured = bridge[p].captured,
           client.stateful => a[p] >= 2
    PROVE  Greeted(p, b, y)'
<1>1. Greeted(p, a, x)
  BY DEF FlowAt
<1>2. a[p] >= 2 => a[p] + 1 >= 2 /\ ~(a[p] + 1 <= 2) /\ (a[p] <= 2 => a[p] = 2)
  OBVIOUS
<1>3. p = 0 /\ client.stateful => Len(bridge'[p].captured) = 2
  BY <1>1, <1>2 DEF Greeted
<1>4. p # 0 /\ client.stateful => 0 + Len(bridge'[p].captured) = IF bridge'[p - 1].ready THEN 2 ELSE 1
  BY <1>1 DEF Greeted
<1> QED  BY <1>2, <1>3, <1>4 DEF Greeted

(* A relay passes the next message on, or holds it behind the ones it holds.*)
LEMMA RelayInFlows ==
    ASSUME Restart!SelfRestartAssumption, RestartInv, NEW p \in Restart!Procs, Restart!RelayIn(p)
    PROVE  Flows'
<1> DEFINE m == Head(inp[p])
<1>1. Relays(p) /\ inp[p] # <<>> /\ UNCHANGED <<client, took>>
  BY DEF Restart!RelayIn, Relays
<1>2. PICK a, x : Flow(a, x)
  BY DEF RestartInv, Flows
<1>3. /\ m \in Lines /\ ~m.replay /\ m.nr = a[p] + 1 /\ a[p] + 1 <= x[p]
      /\ Replayed(p, a, x) = 0 /\ Len(Tail(inp[p])) = Len(inp[p]) - 1
      /\ Lined(Tail(inp[p]), Len(bridge[p].captured), 0, a[p] + 1)
      /\ p # 0 => bridge[p - 1].ready
      /\ client.stateful => a[p] >= 2 /\ Len(bridge[p].captured) = 2
      /\ a[p] \in Nat /\ x[p] \in Nat /\ Tail(inp[p]) \in Seq(Lines)
  BY <1>1, <1>2, RelayReads
<1> HIDE DEF m
<1>4. /\ p + 1 \in Restart!Procs /\ p + 1 # 0 /\ p # p + 1 /\ (p + 1) - 1 = p /\ 0 \in Restart!Procs
      /\ Live(p + 1) /\ Live(p) /\ Messages \in Nat
      /\ (p # 0 => p - 1 \in Restart!Procs /\ p - 1 # p)
  BY <1>1 DEF RestartInv, Chain, Restart!Procs, Restart!SelfRestartAssumption, Live, Relays
<1>5. /\ FlowAt(p, a, x) /\ FlowAt(p + 1, a, x)
      /\ a[p + 1] \in 0 .. Messages /\ x[p + 1] \in 0 .. Messages /\ x[p] \in 0 .. Messages
      /\ client.sent \in 0 .. Messages
      /\ inp[p] \in Seq(Lines) /\ inp[p + 1] \in Seq(Lines) /\ bridge[p].queued \in Seq(Lines)
      /\ Len(bridge[p].captured) \in Nat /\ Len(bridge[p + 1].captured) \in Nat
  <2>1. bridge[p].captured \in Seq(1 .. Messages) /\ bridge[p + 1].captured \in Seq(1 .. Messages)
    BY <1>4 DEF RestartInv, TypesOK, Bridges
  <2> QED
    BY <1>2, <1>4, <2>1, LenProperties DEF Flow, RestartInv, TypesOK, Bridges
<1>6. Len(inp[p]) = x[p] - a[p] /\ Len(inp[p]) \in Nat
  <2>1. Len(inp[p]) - (x[p] - a[p]) = 0 /\ Len(inp[p]) \in Nat
    BY <1>3, <1>5, LenProperties DEF Replayed
  <2> QED  BY <1>3, <2>1
<1> DEFINE b == [a EXCEPT ![p] = @ + 1]
<1>7. /\ b \in [Restart!Procs -> 0 .. Messages] /\ b[p] = a[p] + 1
      /\ \A q \in Restart!Procs : q # p => b[q] = a[q]
  <2>1. a[p] + 1 \in 0 .. Messages
    BY SMTT(20), <1>3, <1>4, <1>5
  <2> QED  BY <1>2, <2>1 DEF Flow
<1> HIDE DEF b
<1>8. CASE bridge[p].ready
  <2>1. /\ inp' = [inp EXCEPT ![p] = Tail(@), ![p + 1] = Append(@, m)] /\ bridge' = bridge
    BY <1>8 DEF Restart!RelayIn, m
  <2>2. /\ inp'[p] = Tail(inp[p]) /\ inp'[p + 1] = Append(inp[p + 1], m)
        /\ \A q \in Restart!Procs : q # p /\ q # p + 1 => inp'[q] = inp[q]
    BY <1>4, <2>1 DEF RestartInv, TypesOK
  <2> DEFINE y == [x EXCEPT ![p + 1] = @ + 1]
  <2>3. x[p + 1] = a[p] /\ bridge[p].queued = <<>>
    <3>1. bridge[p].queued = <<>> /\ x[p + 1] + Len(bridge[p].queued) = a[p]
      BY <1>1, <1>5, <1>8 DEF FlowAt, Holds
    <3> QED  BY <1>4, <1>5, <3>1, EmptySeq
  <2>4. /\ y \in [Restart!Procs -> 0 .. Messages] /\ y[p + 1] = x[p + 1] + 1
        /\ \A q \in Restart!Procs : q # p + 1 => y[q] = x[q]
    <3>1. x[p + 1] + 1 \in 0 .. Messages
      BY <1>3, <1>4, <1>5, <2>3
    <3> QED  BY <1>2, <1>4, <3>1 DEF Flow
  <2> HIDE DEF y
  <2>5. FlowAt(p, b, y)'
    <3>1. Replayed(p, b, y)' = 0
      <4>1. (Len(inp[p]) - 1) - (x[p] - (a[p] + 1)) = 0
        BY <1>3, <1>6
      <4> QED  BY <1>3, <1>4, <1>7, <2>2, <2>4, <4>1 DEF Replayed
    <3>2. Input(p, b, y)'
      BY <1>3, <1>7, <2>1, <2>2, <3>1 DEF Input
    <3>3. Greeted(p, b, y)'
      BY <1>1, <1>3, <1>5, <1>7, <2>1, <3>1, GreetedMore
    <3>4. Holds(p, b, y)'
      <4>1. y[p + 1] + Len(<<>>) = b[p]
        BY <1>3, <1>7, <2>3, <2>4, EmptySeq
      <4> QED  BY <2>1, <2>3, <4>1, EmptySeq DEF Holds, Lined
    <3>5. b[p] <= y[p] /\ y[p] <= client.sent
      BY <1>3, <1>4, <1>5, <1>7, <2>4 DEF FlowAt
    <3> QED  BY <1>1, <2>1, <3>2, <3>3, <3>4, <3>5 DEF FlowAt, Relays
  <2>6. FlowAt(p + 1, b, y)'
    <3> DEFINE s == inp[p + 1]
               c == Len(bridge[p + 1].captured)
               r == Replayed(p + 1, a, x)
               n == a[p + 1]
    <3>1. /\ s \in Seq(Lines) /\ c \in Nat /\ r \in Nat /\ n \in Nat /\ Lined(s, c, r, n)
          /\ Len(s) \in Nat /\ n <= x[p + 1] /\ x[p + 1] \in Nat /\ r = Len(s) - (x[p + 1] - n)
      BY <1>4, <1>5, LenProperties DEF FlowAt, Input, Replayed
    <3>2. Greeted(p + 1, a, x)
      BY <1>5 DEF FlowAt
    <3> HIDE DEF s, c, r, n
    <3>3. r <= Len(s) /\ m.nr = n + (Len(s) - r) + 1
      BY <1>3, <2>3, <3>1
    <3>4. Lined(Append(s, m), c, r, n) /\ Len(Append(s, m)) = Len(s) + 1
      <4>1. Lined(Append(s, m), c, r, n)
        BY <1>3, <3>1, <3>3, LinedAppend
      <4>2. Len(Append(s, m)) = Len(s) + 1
        BY <1>3, <3>1, AppendFacts
      <4> QED  BY <4>1, <4>2
    <3>5. Replayed(p + 1, b, y)' = r
      <4>1. (Len(s) + 1) - ((x[p + 1] + 1) - n) = r
        BY <3>1
      <4> QED  BY <1>4, <1>7, <2>2, <2>4, <3>4, <4>1 DEF Replayed, s, n
    <3>6. Input(p + 1, b, y)'
      BY <1>4, <1>7, <2>1, <2>2, <3>1, <3>4, <3>5 DEF Input, s, c, n
    <3>7. Greeted(p + 1, b, y)'
      BY <1>1, <1>4, <1>7, <1>8, <2>1, <3>2, <3>5 DEF Greeted, r
    <3>8. b[p + 1] <= y[p + 1] /\ y[p + 1] <= client.sent
      <4>1. x[p + 1] + 1 <= client.sent
        BY <1>3, <1>4, <1>5, <2>3 DEF FlowAt
      <4> QED  BY <1>4, <1>7, <2>4, <3>1, <4>1 DEF n
    <3>9. Relays(p + 1) => p + 1 + 1 \in Restart!Procs /\ p + 1 + 1 # p + 1
      BY <1>4 DEF RestartInv, Chain, Restart!Procs
    <3>10. IF Relays(p + 1) THEN Holds(p + 1, b, y)' ELSE b[p + 1] = Len(took)
      BY <1>4, <1>5, <1>7, <2>1, <2>4, <3>9 DEF FlowAt, Holds
    <3> QED  BY <1>1, <2>1, <3>6, <3>7, <3>8, <3>10 DEF FlowAt, Relays
  <2>7. ASSUME NEW q \in Restart!Procs, Live(q), q # p, q # p + 1
        PROVE  FlowAt(q, b, y)'
    <3>1. FlowAt(q, a, x) /\ (Relays(q) => q + 1 \in Restart!Procs /\ q + 1 # p + 1)
      BY <1>2, <2>7 DEF Flow, RestartInv, Chain, Restart!Procs
    <3> QED
      BY <1>1, <1>7, <2>1, <2>2, <2>4, <2>7, <3>1, FlowFrame DEF Relays
  <2>8. Flow(b, y)'
    <3>1. y[0] = client.sent
      BY <1>2, <1>4, <2>4 DEF Flow
    <3> QED  BY <1>1, <1>7, <2>1, <2>4, <2>5, <2>6, <2>7, <3>1 DEF Flow, Live
  <2> QED  BY <1>1, <2>8 DEF RestartInv, Flows, Numbered
<1>9. CASE ~bridge[p].ready
  <2>1. /\ inp' = [inp EXCEPT ![p] = Tail(@)]
        /\ bridge' = [bridge EXCEPT ![p].queued = Append(@, m)]
    BY <1>9 DEF Restart!RelayIn, m
  <2>2. /\ inp'[p] = Tail(inp[p]) /\ (\A q \in Restart!Procs : q # p => inp'[q] = inp[q])
        /\ bridge'[p] = [bridge[p] EXCEPT !.queued = Append(@, m)]
        /\ \A q \in Restart!Procs : q # p => bridge'[q] = bridge[q]
    BY <2>1 DEF RestartInv, TypesOK
  <2>3. /\ bridge'[p].queued = Append(bridge[p].queued, m) /\ bridge'[p].ready = bridge[p].ready
        /\ bridge'[p].captured = bridge[p].captured /\ bridge'[p].st = bridge[p].st
    BY <2>2 DEF RestartInv, TypesOK, Bridges
  <2>4. FlowAt(p, b, x)'
    <3>1. Replayed(p, b, x)' = 0
      <4>1. (Len(inp[p]) - 1) - (x[p] - (a[p] + 1)) = 0
        BY <1>3, <1>6
      <4> QED  BY <1>3, <1>7, <2>2, <4>1 DEF Replayed
    <3>2. Input(p, b, x)'
      BY <1>3, <1>7, <2>2, <2>3, <3>1 DEF Input
    <3>3. Greeted(p, b, x)'
      <4>1. p # 0 => bridge'[p - 1].ready = bridge[p - 1].ready
        BY <1>4, <2>2
      <4> QED  BY <1>1, <1>3, <1>5, <1>7, <2>3, <3>1, <4>1, GreetedMore
    <3>4. Holds(p, b, x)'
      <4> DEFINE s == bridge[p].queued
                 n == x[p + 1]
      <4>1. /\ s \in Seq(Lines) /\ Len(s) \in Nat /\ n \in Nat /\ n + Len(s) = a[p] /\ Lined(s, 0, 0, n)
        BY <1>1, <1>4, <1>5, LenProperties DEF FlowAt, Holds
      <4> HIDE DEF s, n
      <4>2. 0 <= Len(s) /\ m.nr = n + (Len(s) - 0) + 1 /\ n + (Len(s) + 1) = a[p] + 1 /\ 0 \in Nat
        BY <1>3, <4>1
      <4>3. Lined(Append(s, m), 0, 0, n) /\ Len(Append(s, m)) = Len(s) + 1
        BY <1>3, <4>1, <4>2, LinedAppend, AppendFacts
      <4> QED  BY <1>7, <1>9, <2>3, <4>2, <4>3 DEF Holds, s, n
    <3>5. b[p] <= x[p] /\ x[p] <= client.sent
      BY <1>3, <1>5, <1>7 DEF FlowAt
    <3> QED  BY <1>1, <2>3, <3>2, <3>3, <3>4, <3>5 DEF FlowAt, Relays
  <2>5. ASSUME NEW q \in Restart!Procs, Live(q), q # p
        PROVE  FlowAt(q, b, x)'
    <3>1. FlowAt(q, a, x)
      BY <1>2, <2>5 DEF Flow
    <3>2. q # 0 => bridge'[q - 1].ready = bridge[q - 1].ready
      <4>1. q # 0 => q - 1 \in Restart!Procs
        BY DEF Restart!Procs, Restart!SelfRestartAssumption
      <4> QED  BY <2>2, <2>3, <4>1
    <3> QED
      BY <1>1, <1>7, <2>2, <2>5, <3>1, <3>2, FlowFrame DEF Relays
  <2>6. Flow(b, x)'
    BY <1>1, <1>2, <1>7, <2>2, <2>3, <2>4, <2>5 DEF Flow, Live
  <2> QED  BY <1>1, <2>6 DEF RestartInv, Flows, Numbered
<1> QED  BY <1>8, <1>9

(* A relay that takes a line moves no answer.                             *)
LEMMA RelayInKeeps ==
    ASSUME Restart!SelfRestartAssumption, RestartInv, NEW p \in Restart!Procs, Restart!RelayIn(p) PROVE RestartInv'
<1> DEFINE m == Head(inp[p])
<1>1. Relays(p) /\ inp[p] # <<>> /\ UNCHANGED <<client, out, took>>
  BY DEF Restart!RelayIn, Relays
<1>2. /\ p + 1 \in Restart!Procs /\ p # p + 1 /\ Live(p + 1) /\ Live(p) /\ 0 \in Restart!Procs
      /\ inp[p] \in Seq(Lines) /\ inp[p + 1] \in Seq(Lines) /\ bridge[p] \in Bridges
  <2>1. p + 1 \in Restart!Procs /\ p # p + 1 /\ Live(p + 1) /\ Live(p) /\ 0 \in Restart!Procs
    BY <1>1 DEF RestartInv, Chain, Restart!Procs, Restart!SelfRestartAssumption, Live, Relays
  <2> QED  BY <2>1 DEF RestartInv, TypesOK
<1>3. /\ m \in Lines /\ Tail(inp[p]) \in Seq(Lines) /\ Append(inp[p + 1], m) \in Seq(Lines)
      /\ Append(bridge[p].queued, m) \in Seq(Lines)
  <2>1. m \in Lines /\ Tail(inp[p]) \in Seq(Lines)
    BY <1>1, <1>2, TailFacts
  <2>2. bridge[p].queued \in Seq(Lines)
    BY <1>2 DEF Bridges
  <2> HIDE DEF m
  <2> QED  BY <1>2, <2>1, <2>2, AppendFacts
<1> HIDE DEF m
<1>4. /\ inp' \in [Restart!Procs -> Seq(Lines)] /\ bridge' \in [Restart!Procs -> Bridges]
      /\ \A q \in Restart!Procs : q # p /\ q # p + 1 => inp'[q] = inp[q]
      /\ \A q \in Restart!Procs : q # p => bridge'[q] = bridge[q]
      /\ \A q \in Restart!Procs : /\ bridge'[q].st = bridge[q].st /\ bridge'[q].drop = bridge[q].drop
                                  /\ bridge'[q].captured = bridge[q].captured
                                  /\ bridge'[q].settled = bridge[q].settled
                                  /\ bridge'[q].work = bridge[q].work
                                  /\ bridge'[q].ready = bridge[q].ready
  <2>1. CASE bridge[p].ready
    <3>1. inp' = [inp EXCEPT ![p] = Tail(@), ![p + 1] = Append(@, m)] /\ bridge' = bridge
      BY <2>1 DEF Restart!RelayIn, m
    <3> QED  BY <1>2, <1>3, <3>1 DEF RestartInv, TypesOK
  <2>2. CASE ~bridge[p].ready
    <3>1. /\ inp' = [inp EXCEPT ![p] = Tail(@)]
          /\ bridge' = [bridge EXCEPT ![p].queued = Append(@, m)]
      BY <2>2 DEF Restart!RelayIn, m
    <3>2. /\ bridge'[p] = [bridge[p] EXCEPT !.queued = Append(@, m)]
          /\ \A q \in Restart!Procs : q # p => bridge'[q] = bridge[q]
      BY <3>1 DEF RestartInv, TypesOK
    <3>3. /\ bridge'[p] \in Bridges /\ bridge'[p].st = bridge[p].st
          /\ bridge'[p].drop = bridge[p].drop /\ bridge'[p].captured = bridge[p].captured
          /\ bridge'[p].settled = bridge[p].settled /\ bridge'[p].work = bridge[p].work
          /\ bridge'[p].ready = bridge[p].ready
      BY <1>2, <1>3, <3>2 DEF Bridges
    <3>4. bridge' \in [Restart!Procs -> Bridges]
      BY <3>1, <3>2, <3>3 DEF RestartInv, TypesOK
    <3>5. inp' \in [Restart!Procs -> Seq(Lines)] /\ \A q \in Restart!Procs : q # p => inp'[q] = inp[q]
      BY <1>2, <1>3, <3>1 DEF RestartInv, TypesOK
    <3> QED  BY <3>2, <3>3, <3>4, <3>5
  <2> QED  BY <2>1, <2>2
<1>5. \A q \in Restart!Procs : (Relays(q)' <=> Relays(q)) /\ (Live(q)' <=> Live(q))
  BY <1>4 DEF Relays, Live
<1>6. TypesOK'
  BY <1>1, <1>4 DEF RestartInv, TypesOK
<1>7. Chain'
  BY ZenonT(40), <1>1, <1>2, <1>4, <1>5 DEF RestartInv, Chain
<1>8. \A q \in Restart!Procs : Heard(q)'
  BY <1>1, <1>4, <1>5 DEF RestartInv, Heard, Numbered
<1>9. Answers'
  BY <1>1, <1>4, <1>5, AnswersKept DEF RestartInv, Chain
<1> QED
  BY <1>6, <1>7, <1>8, <1>9, RelayInFlows DEF RestartInv

(* A tap that goes on from b to t.                                          *)
TapStep(b, t) ==
    /\ t \in Bridges /\ t.st = b.st /\ t.work = b.work /\ t.ready = b.ready
    /\ t.drop = b.drop /\ t.queued = b.queued
    /\ Numbered(t.captured) /\ Len(t.captured) <= 2
    /\ Len(t.captured) = IF client.stateful /\ Len(b.captured) < 2
                         THEN Len(b.captured) + 1 ELSE Len(b.captured)
    /\ ~client.stateful => t.captured = <<>>
    /\ client.stateful => (t.settled <=> Len(t.captured) = 2)

(* What the tap of the handshake does with the next line.                    *)
LEMMA TapDoes ==
    ASSUME NEW b \in Bridges, NEW m \in Lines, Numbered(b.captured), Len(b.captured) <= 2,
           ~client.stateful => b.captured = <<>>,
           client.stateful => (b.settled <=> Len(b.captured) = 2),
           client.stateful /\ Len(b.captured) < 2 => m.nr = Len(b.captured) + 1
    PROVE  TapStep(b, Restart!Tapped(b, m))
<1> DEFINE s == b.captured
           t == Restart!Tapped(b, m)
<1>1. /\ s \in Seq(1 .. Messages) /\ Len(s) \in Nat /\ Len(s) <= 2 /\ m.nr \in 1 .. Messages
      /\ b.settled \in BOOLEAN /\ (client.stateful => (b.settled <=> Len(s) = 2))
  BY LenProperties DEF Bridges, Lines
<1>2. CASE client.stateful /\ Len(s) < 2
  <2>1. ~b.settled /\ m.nr = Len(s) + 1 /\ m.nr \in Restart!Handshake
    <3> DEFINE c == Len(s)
    <3>1. /\ c \in Nat /\ c < 2 /\ m.nr = c + 1 /\ client.stateful = TRUE
          /\ (client.stateful => (b.settled <=> c = 2))
      BY <1>1, <1>2
    <3> HIDE DEF c
    <3>2. c # 2 /\ (c + 1 = 1 \/ c + 1 = 2)
      BY <3>1
    <3> QED  BY <3>1, <3>2 DEF c, Restart!Handshake, Restart!INITIALIZE, Restart!INITIALIZED
  <2>2. m.nr = Restart!INITIALIZED => s # <<>>
    BY <1>1, <2>1, EmptySeq DEF Restart!INITIALIZED
  <2>3. t = [b EXCEPT !.captured = Append(s, m.nr), !.settled = (m.nr = Restart!INITIALIZED)]
    BY <2>1, <2>2 DEF Restart!Tapped
  <2>4. /\ Append(s, m.nr) \in Seq(1 .. Messages) /\ Len(Append(s, m.nr)) = Len(s) + 1
        /\ \A j \in 1 .. Len(s) : Append(s, m.nr)[j] = s[j]
        /\ Append(s, m.nr)[Len(s) + 1] = m.nr
    BY <1>1, AppendFacts
  <2> DEFINE u == Append(s, m.nr)
  <2>5. /\ u \in Seq(1 .. Messages) /\ Len(u) = Len(s) + 1 /\ (\A j \in 1 .. Len(s) : u[j] = s[j])
        /\ u[Len(s) + 1] = m.nr
        /\ t = [b EXCEPT !.captured = u, !.settled = (m.nr = Restart!INITIALIZED)]
    BY <2>3, <2>4
  <2> HIDE DEF u, t
  <2>6. /\ t \in Bridges /\ t.st = b.st /\ t.work = b.work /\ t.ready = b.ready
        /\ t.drop = b.drop /\ t.queued = b.queued /\ t.captured = u
        /\ t.settled <=> m.nr = Restart!INITIALIZED
    BY <2>5 DEF Bridges
  <2>7. Numbered(u)
    <3>1. \A i \in 1 .. Len(s) : s[i] = i
      BY DEF Numbered
    <3>2. ASSUME NEW i \in 1 .. Len(u) PROVE u[i] = i
      <4>1. i \in 1 .. Len(s) \/ i = Len(s) + 1
        BY <1>1, <2>5
      <4> QED  BY <2>1, <2>5, <3>1, <4>1
    <3> QED  BY <3>2 DEF Numbered
  <2>8. Len(u) <= 2 /\ (m.nr = Restart!INITIALIZED <=> Len(u) = 2)
    BY <1>1, <1>2, <2>1, <2>5 DEF Restart!INITIALIZED
  <2> QED  BY <1>2, <2>5, <2>6, <2>7, <2>8 DEF TapStep, t
<1>3. CASE client.stateful /\ ~(Len(s) < 2)
  <2>1. Len(s) = 2 /\ b.settled
    <3> DEFINE c == Len(s)
    <3>1. /\ c \in Nat /\ c <= 2 /\ ~(c < 2) /\ client.stateful = TRUE
          /\ (client.stateful => (b.settled <=> c = 2))
      BY <1>1, <1>3
    <3> HIDE DEF c
    <3>2. c = 2
      BY <3>1
    <3> QED  BY <3>1, <3>2 DEF c
  <2>2. t = b
    BY <2>1 DEF Restart!Tapped
  <2> QED  BY <1>3, <2>1, <2>2 DEF TapStep
<1>4. CASE ~client.stateful
  <2>1. s = <<>> /\ Restart!Handshake = {}
    BY <1>4 DEF Restart!Handshake
  <2>2. t = b \/ t = [b EXCEPT !.settled = (s = <<>>)]
    BY <2>1 DEF Restart!Tapped
  <2>3. /\ t \in Bridges /\ t.st = b.st /\ t.work = b.work /\ t.ready = b.ready
        /\ t.drop = b.drop /\ t.queued = b.queued /\ t.captured = s
    BY <2>2 DEF Bridges
  <2> HIDE DEF t
  <2>4. Numbered(t.captured) /\ Len(t.captured) <= 2 /\ Len(t.captured) = Len(b.captured)
        /\ t.captured = <<>>
    BY <2>1, <2>3
  <2> QED  BY <1>4, <2>3, <2>4 DEF TapStep, t
<1> QED  BY <1>2, <1>3, <1>4

(* What the last process of the chain reads: a line of the handshake, or the   *)
(* next message of the client.                                               *)
Reads(p, a, x) ==
    LET m == Head(inp[p])
        c == Len(bridge[p].captured)
        r == Replayed(p, a, x)
        u == Tail(inp[p])
    IN  /\ m \in Lines /\ u \in Seq(Lines) /\ Len(u) = Len(inp[p]) - 1
        /\ Len(inp[p]) = r + (x[p] - a[p]) /\ r \in Nat /\ c \in Nat /\ c <= 2
        /\ r > 0 => /\ m.replay /\ m.nr = c + 1 /\ Lined(u, c + 1, r - 1, a[p])
                    /\ client.stateful /\ p # 0 /\ c < 2
        /\ r = 0 => /\ ~m.replay /\ m.nr = a[p] + 1 /\ a[p] + 1 <= x[p]
                    /\ Lined(u, c, 0, a[p] + 1)
                    /\ p # 0 => bridge[p - 1].ready
                    /\ client.stateful => c = IF p # 0 \/ a[p] >= 2 THEN 2 ELSE a[p]
                    /\ client.stateful /\ p # 0 => a[p] >= 2

(* The last process of the chain reads a line of the handshake only if it needs it.*)
LEMMA ServeReads ==
    ASSUME Restart!SelfRestartAssumption, RestartInv, NEW p \in Restart!Procs, bridge[p].st = "serving",
           inp[p] # <<>>, NEW a, NEW x, Flow(a, x)
    PROVE  Reads(p, a, x) /\ a[p] = Len(took) /\ a[p] \in Nat /\ x[p] \in Nat
<1> DEFINE s == inp[p]
           c == Len(bridge[p].captured)
           r == Replayed(p, a, x)
           n == a[p]
           e == x[p]
<1>1. /\ FlowAt(p, a, x) /\ n \in Nat /\ e \in Nat /\ s \in Seq(Lines) /\ s # <<>>
      /\ Len(s) \in Nat /\ Len(s) > 0 /\ c \in Nat /\ c <= 2
  <2>1. FlowAt(p, a, x) /\ a[p] \in 0 .. Messages /\ x[p] \in 0 .. Messages /\ Messages \in Nat
    BY DEF Flow, Live, Restart!SelfRestartAssumption
  <2>2. inp[p] \in Seq(Lines) /\ bridge[p].captured \in Seq(1 .. Messages)
    BY DEF RestartInv, TypesOK, Bridges
  <2>3. c <= 2
    BY DEF RestartInv, Heard
  <2> QED  BY <2>1, <2>2, <2>3, EmptySeq, LenProperties
<1>2. r \in Nat /\ Lined(s, c, r, n) /\ n <= e /\ Greeted(p, a, x) /\ r = Len(s) - (e - n)
  BY <1>1 DEF FlowAt, Input, Replayed
<1>3. n = Len(took)
  BY <1>1 DEF FlowAt, Relays
<1>4. /\ p = 0 \/ ~client.stateful => r = 0
      /\ p = 0 /\ client.stateful => c = IF n <= 2 THEN n ELSE 2
      /\ p # 0 /\ client.stateful => n >= 2 /\ r + c = IF bridge[p - 1].ready THEN 2 ELSE 1
      /\ p # 0 /\ ~bridge[p - 1].ready => e = n
  BY <1>2 DEF Greeted
<1>5. Len(s) = r + (e - n)
  <2> HIDE DEF s, r, n, e
  <2> QED  BY <1>1, <1>2
<1>6. /\ Head(s) \in Lines /\ Tail(s) \in Seq(Lines) /\ Len(Tail(s)) = Len(s) - 1
      /\ r > 0 => Head(s).replay /\ Head(s).nr = c + 1 /\ Lined(Tail(s), c + 1, r - 1, n)
      /\ r = 0 => ~Head(s).replay /\ Head(s).nr = n + 1 /\ Lined(Tail(s), c, 0, n + 1)
  <2> HIDE DEF s, c, r, n
  <2>1. Head(s) \in Lines /\ Tail(s) \in Seq(Lines) /\ Len(Tail(s)) = Len(s) - 1
    BY <1>1, TailFacts
  <2> QED  BY SMTT(20), <1>1, <1>2, <2>1, LinedTail
<1>7. r > 0 => client.stateful /\ p # 0 /\ c < 2
  <2> HIDE DEF r, c, n, e
  <2>1. r > 0 => r # 0
    BY <1>2
  <2>2. r > 0 /\ (r + c = 2 \/ r + c = 1) => c < 2
    BY <1>1, <1>2
  <2> QED  BY <1>4, <2>1, <2>2
<1>8. r = 0 => /\ n + 1 <= e /\ (p # 0 => bridge[p - 1].ready)
               /\ client.stateful => c = IF p # 0 \/ n >= 2 THEN 2 ELSE n
               /\ client.stateful /\ p # 0 => n >= 2
  <2> HIDE DEF r, c, n, e, s
  <2>1. r = 0 => n + 1 <= e /\ e # n
    BY <1>1, <1>5
  <2>2. r = 0 /\ r + c = 2 => c = 2
    BY <1>1
  <2>3. (n <= 2 => n = 2 \/ ~(n >= 2)) /\ (~(n <= 2) => n >= 2)
    BY <1>1
  <2> QED  BY <1>4, <2>1, <2>2, <2>3
<1> QED
  BY <1>1, <1>2, <1>3, <1>5, <1>6, <1>7, <1>8 DEF Reads

(* A serving process is the last of the chain.                               *)
LEMMA LastServes ==
    ASSUME Restart!SelfRestartAssumption, RestartInv, NEW p \in Restart!Procs, ~Relays(p), Live(p)
    PROVE  \A q \in Restart!Procs : Live(q) /\ q # p => Relays(q) /\ q < p
<1> TAKE q \in Restart!Procs
<1>1. q # p => q < p \/ p < q
  BY DEF Restart!Procs, Restart!SelfRestartAssumption
<1> QED  BY <1>1 DEF RestartInv, Chain

(* The step of Serve, put together from what is read and what the tap does.    *)
Serves(p, a, x) ==
    LET m == Head(inp[p])
        r == Replayed(p, a, x)
    IN  /\ Live(p) /\ ~Relays(p) /\ inp[p] # <<>> /\ bridge[p].st = "serving"
        /\ Reads(p, a, x) /\ a[p] = Len(took) /\ a[p] \in Nat /\ x[p] \in Nat
        /\ UNCHANGED <<client, out>> /\ inp' = [inp EXCEPT ![p] = Tail(@)]
        /\ bridge' \in [Restart!Procs -> Bridges]
        /\ \A q \in Restart!Procs : q # p => bridge'[q] = bridge[q]
        /\ TapStep([bridge[p] EXCEPT !.work = bridge'[p].work], bridge'[p])
        /\ bridge'[p].work = IF m.nr \in Restart!Notifications THEN bridge[p].work
                             ELSE bridge[p].work \cup {m.nr}
        /\ took' = IF r = 0 THEN Append(took, m.nr) ELSE took

(* Every message of the client that is read is taken.                     *)
LEMMA ServeDoes ==
    ASSUME Restart!SelfRestartAssumption, RestartInv, NEW p \in Restart!Procs, Restart!Serve(p), NEW a, NEW x,
           Flow(a, x)
    PROVE  Serves(p, a, x)
<1> DEFINE m == Head(inp[p])
           c == Len(bridge[p].captured)
           r == Replayed(p, a, x)
           n == a[p]
           b == Restart!Tapped(bridge[p], m)
           d == [b EXCEPT !.work = IF m.nr \in Restart!Notifications THEN @ ELSE @ \cup {m.nr}]
<1>1. /\ bridge[p].st = "serving" /\ inp[p] # <<>> /\ inp' = [inp EXCEPT ![p] = Tail(@)]
      /\ bridge' = [bridge EXCEPT ![p] = d]
      /\ took' = IF ~m.replay /\ Restart!Takes(bridge[p], m) THEN Append(took, m.nr) ELSE took
      /\ UNCHANGED <<client, out>> /\ Live(p) /\ ~Relays(p)
  BY DEF Restart!Serve, Live, Relays
<1>2. Reads(p, a, x) /\ n = Len(took) /\ n \in Nat /\ x[p] \in Nat
  BY <1>1, ServeReads
<1>3. /\ m \in Lines /\ r \in Nat /\ c \in Nat /\ c <= 2
      /\ r > 0 => m.replay /\ m.nr = c + 1 /\ client.stateful /\ p # 0 /\ c < 2
      /\ r = 0 => /\ ~m.replay /\ m.nr = n + 1
                  /\ client.stateful => c = IF p # 0 \/ n >= 2 THEN 2 ELSE n
  BY <1>2 DEF Reads
<1>4. bridge[p] \in Bridges /\ Heard(p) /\ bridge[p].captured \in Seq(1 .. Messages)
  BY DEF RestartInv, TypesOK, Bridges
<1>5. client.stateful /\ c < 2 => m.nr = c + 1
  <2> HIDE DEF c, r, m, n
  <2>1. r > 0 \/ r = 0
    BY <1>3
  <2>2. r = 0 /\ client.stateful /\ c < 2 => c = n
    BY <1>2, <1>3
  <2> QED  BY <1>3, <2>1, <2>2
<1>6. TapStep(bridge[p], b)
  <2> HIDE DEF m
  <2> QED  BY <1>3, <1>4, <1>5, TapDoes DEF Heard
<1>7. r = 0 => Restart!Takes(bridge[p], m)
  <2>1. c = 2 => Restart!INITIALIZED \in Restart!Range(bridge[p].captured)
    BY <1>4, CapturedFacts DEF Heard
  <2>2. r = 0 /\ client.stateful /\ c # 2 => m.nr \in Restart!Handshake
    <3> HIDE DEF r, c, m, n
    <3>1. r = 0 /\ client.stateful /\ c # 2 => m.nr = n + 1 /\ (n + 1 = 1 \/ n + 1 = 2)
      BY <1>2, <1>3
    <3> QED  BY <3>1 DEF Restart!Handshake, Restart!INITIALIZE, Restart!INITIALIZED
  <2> QED  BY <2>1, <2>2 DEF Restart!Takes
<1>8. took' = IF r = 0 THEN Append(took, m.nr) ELSE took
  <2>1. r = 0 \/ r > 0
    <3> HIDE DEF r
    <3> QED  BY <1>3
  <2>2. r = 0 => ~m.replay
    BY <1>3
  <2>3. r > 0 => m.replay /\ r # 0
    <3> HIDE DEF r, m
    <3> QED  BY <1>3
  <2> HIDE DEF r, m
  <2> QED  BY <1>1, <1>7, <2>1, <2>2, <2>3 DEF m
<1> DEFINE w == IF m.nr \in Restart!Notifications THEN bridge[p].work ELSE bridge[p].work \cup {m.nr}
<1>9. b.work = bridge[p].work /\ b \in Bridges /\ w \in SUBSET (1 .. Messages) /\ d = [b EXCEPT !.work = w]
  <2>1. b.work = bridge[p].work /\ b \in Bridges
    BY <1>6 DEF TapStep
  <2>2. m.nr \in 1 .. Messages /\ bridge[p].work \in SUBSET (1 .. Messages)
    BY <1>3, <1>4 DEF Lines, Bridges
  <2> HIDE DEF m, b
  <2>3. w \in SUBSET (1 .. Messages)
    BY <2>2
  <2>4. d = [b EXCEPT !.work = w]
    BY <2>1
  <2> QED  BY <2>1, <2>3, <2>4
<1> HIDE DEF b, d, w, m
<1>10. /\ d \in Bridges /\ d.st = b.st /\ d.work = w /\ d.ready = b.ready /\ d.drop = b.drop
       /\ d.queued = b.queued /\ d.captured = b.captured /\ d.settled = b.settled
  BY <1>9 DEF Bridges
<1>11. /\ bridge'[p] = d /\ bridge' \in [Restart!Procs -> Bridges]
       /\ \A q \in Restart!Procs : q # p => bridge'[q] = bridge[q]
  BY <1>1, <1>10 DEF RestartInv, TypesOK
<1> DEFINE g == [bridge[p] EXCEPT !.work = d.work]
<1>12. TapStep(g, d)
  <2>1. /\ g.st = bridge[p].st /\ g.work = d.work /\ g.ready = bridge[p].ready
        /\ g.drop = bridge[p].drop /\ g.queued = bridge[p].queued
        /\ g.captured = bridge[p].captured
    BY <1>4 DEF Bridges
  <2> HIDE DEF g
  <2> QED  BY <1>6, <1>10, <2>1 DEF TapStep
<1> QED
  BY <1>1, <1>2, <1>8, <1>10, <1>11, <1>12 DEF Serves, w, m

(* The message that is taken is the one after the last.                   *)
LEMMA ServeFlows ==
    ASSUME Restart!SelfRestartAssumption, RestartInv, NEW p \in Restart!Procs, Restart!Serve(p)
    PROVE  Flows'
<1>1. PICK a, x : Flow(a, x)
  BY DEF RestartInv, Flows
<1> DEFINE m == Head(inp[p])
           u == Tail(inp[p])
           c == Len(bridge[p].captured)
           r == Replayed(p, a, x)
           n == a[p]
           e == x[p]
           g == [bridge[p] EXCEPT !.work = bridge'[p].work]
<1>2. /\ Live(p) /\ ~Relays(p) /\ Reads(p, a, x) /\ n = Len(took) /\ n \in Nat /\ e \in Nat
      /\ UNCHANGED <<client, out>> /\ inp' = [inp EXCEPT ![p] = Tail(@)]
      /\ \A q \in Restart!Procs : q # p => bridge'[q] = bridge[q]
      /\ TapStep(g, bridge'[p])
      /\ took' = IF r = 0 THEN Append(took, m.nr) ELSE took
  <2>1. Serves(p, a, x)
    BY <1>1, ServeDoes
  <2> QED  BY <2>1 DEF Serves
<1>3. /\ m \in Lines /\ u \in Seq(Lines) /\ Len(u) = Len(inp[p]) - 1
      /\ Len(inp[p]) = r + (e - n) /\ r \in Nat /\ c \in Nat /\ c <= 2
      /\ r > 0 => /\ m.replay /\ m.nr = c + 1 /\ Lined(u, c + 1, r - 1, n)
                  /\ client.stateful /\ p # 0 /\ c < 2
      /\ r = 0 => /\ ~m.replay /\ m.nr = n + 1 /\ n + 1 <= e
                  /\ Lined(u, c, 0, n + 1)
                  /\ p # 0 => bridge[p - 1].ready
                  /\ client.stateful => c = IF p # 0 \/ n >= 2 THEN 2 ELSE n
                  /\ client.stateful /\ p # 0 => n >= 2
  BY <1>2 DEF Reads
<1>4. /\ bridge[p] \in Bridges /\ e \in 0 .. Messages /\ n \in 0 .. Messages /\ Messages \in Nat
      /\ FlowAt(p, a, x) /\ took \in Seq(1 .. Messages) /\ Numbered(took)
      /\ (p # 0 => p - 1 \in Restart!Procs /\ p - 1 # p)
  BY SMTT(20), <1>1, <1>2 DEF RestartInv, TypesOK, Flows, Flow, Restart!SelfRestartAssumption, Restart!Procs
<1> DEFINE d == Len(bridge'[p].captured)
<1>5. /\ d = IF client.stateful /\ c < 2 THEN c + 1 ELSE c
      /\ bridge'[p].st = bridge[p].st
  <2>1. g.captured = bridge[p].captured /\ g.st = bridge[p].st
    BY <1>4 DEF Bridges
  <2> HIDE DEF g
  <2> QED  BY <1>2, <2>1 DEF TapStep
<1> HIDE DEF m, c, r, d, g, u
<1>6. /\ inp'[p] = u /\ \A q \in Restart!Procs : q # p => inp'[q] = inp[q]
  BY <1>2 DEF RestartInv, TypesOK, u
<1>7. Greeted(p, a, x) /\ e <= client.sent
  BY <1>4 DEF FlowAt
<1>8. (Relays(p)' <=> Relays(p)) /\ \A q \in Restart!Procs : (Relays(q)' <=> Relays(q)) /\ (Live(q)' <=> Live(q))
  BY <1>2, <1>5 DEF Relays, Live
<1>9. p # 0 => bridge'[p - 1] = bridge[p - 1]
  BY <1>2, <1>4
<1> DEFINE l == IF r = 0 THEN n + 1 ELSE n
<1>10. PICK b \in [Restart!Procs -> 0 .. Messages] : b[p] = l /\ \A q \in Restart!Procs : q # p => b[q] = a[q]
  <2>1. l \in 0 .. Messages
    BY <1>2, <1>3, <1>4
  <2>2. a \in [Restart!Procs -> 0 .. Messages]
    BY <1>1 DEF Flow
  <2> HIDE DEF l
  <2>3. [a EXCEPT ![p] = l] \in [Restart!Procs -> 0 .. Messages]
    BY <2>1, <2>2
  <2>4. [a EXCEPT ![p] = l][p] = l /\ \A q \in Restart!Procs : q # p => [a EXCEPT ![p] = l][q] = a[q]
    BY <2>2
  <2> QED  BY <2>3, <2>4
<1>11. l <= e /\ Replayed(p, b, x)' = IF r = 0 THEN 0 ELSE r - 1
  <2> DEFINE z == Len(inp[p])
  <2>1. Len(u) = z - 1 /\ z = r + (e - n) /\ n <= e
    BY <1>3, <1>4 DEF FlowAt
  <2>5. r \in Nat /\ n \in Nat /\ e \in Nat /\ (r = 0 => n + 1 <= e)
    BY <1>2, <1>3
  <2> HIDE DEF n, e, z
  <2>2. (z - 1) - (e - l) = IF r = 0 THEN 0 ELSE r - 1
    BY <2>1, <2>5
  <2>3. l <= e
    BY <2>1, <2>5
  <2> HIDE DEF l
  <2>4. Replayed(p, b, x)' = (z - 1) - (e - l)
    BY <1>6, <1>10, <2>1 DEF Replayed, e
  <2> QED  BY <2>2, <2>3, <2>4
<1>12. Len(took') = l /\ took' \in Seq(1 .. Messages) /\ Numbered(took)'
  <2>1. CASE r = 0
    <3>1. m.nr = n + 1 /\ m.nr \in 1 .. Messages /\ took' = Append(took, m.nr) /\ l = n + 1
      BY <1>2, <1>3, <2>1 DEF Lines
    <3>2. /\ took' \in Seq(1 .. Messages) /\ Len(took') = n + 1
          /\ (\A j \in 1 .. n : took'[j] = took[j]) /\ took'[n + 1] = n + 1
      <4> DEFINE v == m.nr
      <4>1. v = n + 1 /\ v \in 1 .. Messages /\ took' = Append(took, v) /\ n = Len(took)
        BY <1>2, <3>1
      <4> HIDE DEF v, n
      <4> QED  BY <1>4, <4>1, AppendFacts
    <3>3. ASSUME NEW i \in 1 .. Len(took') PROVE took'[i] = i
      <4>1. i \in 1 .. n \/ i = n + 1
        BY <1>2, <3>2
      <4>2. i \in 1 .. n => took[i] = i
        BY <1>2, <1>4 DEF Numbered
      <4> QED  BY <3>2, <4>1, <4>2
    <3> QED  BY <3>1, <3>2, <3>3 DEF Numbered
  <2>2. CASE r # 0
    BY <1>2, <1>4, <2>2 DEF Numbered
  <2> QED  BY <2>1, <2>2
<1>13. Input(p, b, x)'
  <2>1. CASE r = 0
    <3>1. Lined(u, d, 0, n + 1)
      <4>1. ~(client.stateful /\ c < 2) => Lined(u, d, 0, n + 1)
        BY <1>3, <1>5, <2>1
      <4>2. Lined(u, d, 0, n + 1) <=> Lined(u, c, 0, n + 1)
        BY DEF Lined
      <4> QED  BY <1>3, <2>1, <4>2
    <3> QED  BY <1>6, <1>10, <1>11, <2>1, <3>1 DEF Input, d
  <2>2. CASE r # 0
    <3>1. r > 0 /\ r - 1 \in Nat
      BY <1>3, <2>2
    <3>2. Lined(u, d, r - 1, n)
      BY <1>3, <1>5, <3>1
    <3> QED  BY <1>6, <1>10, <1>11, <2>2, <3>1, <3>2 DEF Input, d
  <2> QED  BY <2>1, <2>2
<1>14. Greeted(p, b, x)'
  <2>1. /\ p = 0 \/ ~client.stateful => r = 0
        /\ p # 0 /\ client.stateful => n >= 2 /\ r + c = IF bridge[p - 1].ready THEN 2 ELSE 1
        /\ p # 0 /\ ~bridge[p - 1].ready => e = n
    BY <1>7 DEF Greeted, r, c
  <2> DEFINE v == IF r = 0 THEN 0 ELSE r - 1
  <2>2. p = 0 \/ ~client.stateful => v = 0
    BY <2>1
  <2>3. p = 0 /\ client.stateful => d = IF l <= 2 THEN l ELSE 2
    <3> HIDE DEF n, e
    <3>1. SUFFICES ASSUME p = 0, client.stateful PROVE d = IF l <= 2 THEN l ELSE 2
      OBVIOUS
    <3>2. r = 0 /\ l = n + 1 /\ c = (IF n >= 2 THEN 2 ELSE n)
          /\ d = (IF c < 2 THEN c + 1 ELSE c)
      BY <1>3, <1>5, <2>1, <3>1
    <3> QED  BY <1>2, <1>3, <3>2
  <2>4. p # 0 /\ client.stateful => l >= 2 /\ v + d = IF bridge[p - 1].ready THEN 2 ELSE 1
    <3>1. SUFFICES ASSUME p # 0, client.stateful
                   PROVE  l >= 2 /\ v + d = IF bridge[p - 1].ready THEN 2 ELSE 1
      OBVIOUS
    <3> DEFINE f == IF bridge[p - 1].ready THEN 2 ELSE 1
    <3>2. n >= 2 /\ r + c = f /\ d = (IF c < 2 THEN c + 1 ELSE c) /\ (r = 0 => c = 2) /\ (r > 0 => c < 2)
      BY <1>3, <1>5, <2>1, <3>1
    <3> HIDE DEF n, e, f
    <3>3. l >= 2
      BY <1>2, <3>2
    <3>4. v + d = f
      BY <1>3, <3>2
    <3> QED  BY <3>3, <3>4 DEF f
  <2>5. p # 0 /\ ~bridge[p - 1].ready => e = l
    BY <1>3, <2>1
  <2> HIDE DEF v, l
  <2>6. Replayed(p, b, x)' = v
    BY <1>11 DEF v
  <2> QED  BY <1>2, <1>9, <1>10, <2>2, <2>3, <2>4, <2>5, <2>6 DEF Greeted, d
<1>15. FlowAt(p, b, x)'
  <2> HIDE DEF l
  <2> QED  BY <1>2, <1>7, <1>8, <1>10, <1>11, <1>12, <1>13, <1>14 DEF FlowAt
<1>16. ASSUME NEW q \in Restart!Procs, Live(q), q # p
       PROVE  FlowAt(q, b, x)'
  <2>1. FlowAt(q, a, x) /\ Relays(q)
    BY <1>1, <1>2, <1>16, LastServes DEF Flow
  <2>2. q # 0 => bridge'[q - 1].ready = bridge[q - 1].ready
    <3>1. q < p
      BY <1>2, <1>16, LastServes
    <3>2. q \in 0 .. Restarts /\ p \in Nat /\ Restarts \in Nat
      BY DEF Restart!Procs, Restart!SelfRestartAssumption
    <3>3. q # 0 => q - 1 \in 0 .. Restarts /\ q - 1 # p
      BY <3>1, <3>2
    <3>4. q # 0 => q - 1 \in Restart!Procs /\ q - 1 # p
      BY <3>3 DEF Restart!Procs
    <3> QED  BY <1>2, <3>4
  <2> QED
    BY <1>2, <1>6, <1>8, <1>10, <1>16, <2>1, <2>2, FlowFrame
<1>17. Flow(b, x)'
  BY <1>1, <1>2, <1>8, <1>10, <1>15, <1>16 DEF Flow
<1> QED
  BY <1>12, <1>17 DEF Flows

(* What a process begins to work on is new, or the replayed initialize.   *)
LEMMA ServeKeeps ==
    ASSUME Restart!SelfRestartAssumption, RestartInv, NEW p \in Restart!Procs, Restart!Serve(p) PROVE RestartInv'
<1>1. PICK a, x : Flow(a, x)
  BY DEF RestartInv, Flows
<1> DEFINE m == Head(inp[p])
           c == Len(bridge[p].captured)
           r == Replayed(p, a, x)
           n == a[p]
           d == bridge'[p]
           g == [bridge[p] EXCEPT !.work = d.work]
<1>2. /\ Live(p) /\ ~Relays(p) /\ Reads(p, a, x) /\ n = Len(took) /\ n \in Nat
      /\ inp[p] # <<>> /\ bridge[p].st = "serving"
      /\ UNCHANGED <<client, out>> /\ inp' = [inp EXCEPT ![p] = Tail(@)]
      /\ bridge' \in [Restart!Procs -> Bridges]
      /\ \A q \in Restart!Procs : q # p => bridge'[q] = bridge[q]
      /\ TapStep(g, d)
      /\ d.work = IF m.nr \in Restart!Notifications THEN bridge[p].work ELSE bridge[p].work \cup {m.nr}
      /\ took' = IF r = 0 THEN Append(took, m.nr) ELSE took
  <2>1. Serves(p, a, x)
    BY <1>1, ServeDoes
  <2> QED  BY <2>1 DEF Serves
<1>3. /\ m \in Lines /\ r \in Nat /\ c \in Nat /\ c <= 2
      /\ r > 0 => m.nr = c + 1 /\ client.stateful /\ p # 0 /\ c < 2
      /\ r = 0 => /\ m.nr = n + 1
                  /\ client.stateful => c = IF p # 0 \/ n >= 2 THEN 2 ELSE n
                  /\ client.stateful /\ p # 0 => n >= 2
  BY <1>2 DEF Reads
<1>4. /\ bridge[p] \in Bridges /\ d \in Bridges /\ inp[p] \in Seq(Lines) /\ m.nr \in 1 .. Messages
      /\ took \in Seq(1 .. Messages) /\ Heard(p) /\ 0 \in Restart!Procs
  <2>1. bridge[p] \in Bridges /\ d \in Bridges /\ inp[p] \in Seq(Lines)
    BY <1>2 DEF RestartInv, TypesOK
  <2>2. m.nr \in 1 .. Messages
    BY <1>3 DEF Lines
  <2> QED
    BY <2>1, <2>2 DEF RestartInv, Flows, Restart!SelfRestartAssumption, Restart!Procs
<1>5. /\ d.st = bridge[p].st /\ d.ready = bridge[p].ready /\ d.drop = bridge[p].drop
      /\ d.queued = bridge[p].queued /\ Numbered(d.captured) /\ Len(d.captured) <= 2
      /\ Len(d.captured) = IF client.stateful /\ c < 2 THEN c + 1 ELSE c
      /\ ~client.stateful => d.captured = <<>>
      /\ client.stateful => (d.settled <=> Len(d.captured) = 2)
  <2>1. /\ g.captured = bridge[p].captured /\ g.st = bridge[p].st /\ g.ready = bridge[p].ready
        /\ g.drop = bridge[p].drop /\ g.queued = bridge[p].queued
    BY <1>4 DEF Bridges
  <2> HIDE DEF g, d
  <2> QED  BY <1>2, <2>1 DEF TapStep
<1>6. \A q \in Restart!Procs : /\ bridge'[q].st = bridge[q].st /\ bridge'[q].drop = bridge[q].drop
                               /\ (Relays(q)' <=> Relays(q)) /\ (Live(q)' <=> Live(q))
                               /\ bridge'[q].ready = bridge[q].ready /\ bridge'[q].queued = bridge[q].queued
  BY <1>2, <1>5 DEF Relays, Live
<1>7. TypesOK'
  <2>1. inp' \in [Restart!Procs -> Seq(Lines)]
    <3>1. Tail(inp[p]) \in Seq(Lines)
      BY <1>2, <1>4, TailFacts
    <3> QED  BY <1>2, <3>1 DEF RestartInv, TypesOK
  <2> QED  BY <1>2, <2>1 DEF RestartInv, TypesOK
<1>8. Chain'
  <2>1. \A q \in Restart!Procs : q # p => inp'[q] = inp[q]
    BY <1>2 DEF RestartInv, TypesOK
  <2>2. Live(0)' /\ \A q, s \in Restart!Procs : q < s /\ Live(s)' => Relays(q)'
    BY <1>4, <1>6 DEF RestartInv, Chain
  <2>3. ASSUME NEW q \in Restart!Procs
        PROVE  /\ ~Live(q)' => bridge'[q] = Restart!NoBridge /\ inp'[q] = <<>> /\ out'[q] = <<>>
               /\ Relays(q)' => q + 1 \in Restart!Procs /\ Live(q + 1)'
               /\ ~Relays(q)' => ~bridge'[q].drop /\ bridge'[q].queued = <<>>
               /\ bridge'[q].st = "paused" => q + 1 \in Restart!Procs
    BY <1>2, <1>6, <2>1 DEF RestartInv, Chain
  <2> QED  BY <2>2, <2>3 DEF Chain
<1>9. \A q \in Restart!Procs : Heard(q)'
  <2>1. Heard(p)'
    BY <1>2, <1>4, <1>5, <1>6 DEF Heard, Numbered
  <2>2. \A q \in Restart!Procs : q # p => Heard(q)'
    BY <1>2, <1>6 DEF RestartInv, Heard, Numbered
  <2> QED  BY <2>1, <2>2
<1> HIDE DEF m, r
<1>10. Open(p)' = IF m.nr \in Restart!Notifications THEN Open(p) ELSE Open(p) \cup {m.nr}
  BY <1>2 DEF Open
<1>11. \A q \in Restart!Procs : q # p => Open(q)' = Open(q)
  BY <1>2 DEF Open
<1>12. Restart!Handshake' = Restart!Handshake /\ Restart!Notifications' = Restart!Notifications
  BY <1>2 DEF Restart!Handshake, Restart!Notifications
<1>13. ASSUME NEW q \in Restart!Procs, Relays(q), q + 1 = p
       PROVE  p # 0 /\ (c = 0 /\ client.stateful => bridge[q].drop /\ Restart!INITIALIZE \notin Open(p))
  <2>1. p # 0
    BY <1>13 DEF Restart!Procs
  <2>2. c = 0 => bridge[p].captured = <<>>
    BY <1>4, EmptySeq DEF Bridges
  <2> QED  BY <1>13, <2>1, <2>2 DEF RestartInv, Answers
<1>14. Answers'
  <2>1. CASE r = 0
    <3>1. m.nr = n + 1 /\ took' = Append(took, m.nr) /\ Len(took') = n + 1
      <4> DEFINE v == m.nr
      <4>1. v = n + 1 /\ v \in 1 .. Messages /\ took' = Append(took, v) /\ n = Len(took)
        BY <1>2, <1>3, <1>4, <2>1
      <4> HIDE DEF v
      <4>2. Len(took') = n + 1
        BY <1>4, <4>1, AppendFacts
      <4> QED  BY <4>1, <4>2 DEF v
    <3>2. \A q \in Restart!Procs : \A k \in Own(q) : k <= n /\ client.got[k] = 0 /\ k \in 1 .. Messages
      BY <1>2, OpenType DEF RestartInv, Answers, Own
    <3>3. \A k \in 1 .. Messages : k > n => client.got[k] = 0
      BY <1>2 DEF RestartInv, Answers
    <3>4. \A q \in Restart!Procs : m.nr \notin Own(q)
      BY <1>2, <3>1, <3>2
    <3>5. client.got[m.nr] = 0
      BY <1>2, <1>4, <3>1, <3>3
    <3>6. client.stateful /\ p # 0 => m.nr \notin Restart!Handshake /\ m.nr # Restart!INITIALIZE /\ c = 2
      BY <1>2, <1>3, <2>1, <3>1 DEF Restart!Handshake, Restart!INITIALIZE, Restart!INITIALIZED
    <3>7. m.nr \notin Open(p)
      <4>1. CASE p = 0
        BY <3>4, <4>1 DEF Own
      <4>2. CASE p # 0 /\ ~client.stateful
        BY <3>4, <4>2 DEF Own, Restart!Handshake
      <4>3. CASE p # 0 /\ client.stateful
        BY <3>4, <3>6, <4>3 DEF Own
      <4> QED  BY <4>1, <4>2, <4>3
    <3>8. /\ Own(p)' \subseteq Own(p) \cup {m.nr}
          /\ \A q \in Restart!Procs : q # p => Own(q)' = Own(q)
      BY <1>10, <1>11, <1>12 DEF Own
    <3>9. \A q \in Restart!Procs : /\ Restart!IsInjective(out'[q]) /\ bridge'[q].work \cap Restart!Range(out'[q]) = {}
                                   /\ Open(q)' \cap Restart!Notifications' = {}
      <4> TAKE q \in Restart!Procs
      <4>1. /\ Restart!IsInjective(out[q]) /\ bridge[q].work \cap Restart!Range(out[q]) = {}
            /\ Open(q) \cap Restart!Notifications = {}
        BY DEF RestartInv, Answers
      <4>2. CASE q = p
        <5>1. m.nr \notin Restart!Range(out[p])
          BY <3>7 DEF Open
        <5> QED  BY <1>2, <1>10, <1>12, <4>1, <4>2, <5>1
      <4>3. CASE q # p
        BY <1>2, <1>11, <1>12, <4>1, <4>3
      <4> QED  BY <4>2, <4>3
    <3>10. \A q \in Restart!Procs : \A k \in Own(q)' : k <= Len(took)' /\ client'.got[k] = 0
      <4> TAKE q \in Restart!Procs
      <4> TAKE k \in Own(q)'
      <4>1. (k \in Own(q)) \/ k = m.nr
        BY <3>8
      <4>2. k \in Own(q) => k <= n + 1
        BY <1>2, <3>2
      <4> QED  BY <1>2, <3>1, <3>2, <3>5, <4>1, <4>2
    <3>11. \A q, s \in Restart!Procs : q # s => Own(q)' \cap Own(s)' = {}
      BY <3>4, <3>8 DEF RestartInv, Answers
    <3>12. \A k \in 1 .. Messages : k > Len(took)' => client'.got[k] = 0
      BY <1>2, <3>1, <3>3
    <3>13. client'.stateful => \A q \in Restart!Procs : Relays(q)' =>
             /\ Restart!INITIALIZE \in Open(q + 1)' => bridge'[q].drop
             /\ bridge'[q + 1].captured = <<>> => bridge'[q].drop /\ Restart!INITIALIZE \notin Open(q + 1)'
      <4>1. SUFFICES ASSUME client.stateful, NEW q \in Restart!Procs, Relays(q)
                     PROVE  /\ Restart!INITIALIZE \in Open(q + 1)' => bridge[q].drop
                            /\ bridge'[q + 1].captured = <<>> =>
                                 bridge[q].drop /\ Restart!INITIALIZE \notin Open(q + 1)'
        BY <1>2, <1>6
      <4>2. /\ q + 1 \in Restart!Procs /\ (Restart!INITIALIZE \in Open(q + 1) => bridge[q].drop)
            /\ bridge[q + 1].captured = <<>> => bridge[q].drop /\ Restart!INITIALIZE \notin Open(q + 1)
        BY <4>1 DEF RestartInv, Chain, Answers
      <4>3. CASE q + 1 = p
        <5>1. m.nr # Restart!INITIALIZE /\ c = 2
          BY <1>13, <3>6, <4>1, <4>3
        <5>2. d.captured # <<>>
          <6> HIDE DEF c
          <6>1. Len(d.captured) # 0
            BY <1>5, <5>1
          <6> QED  BY <6>1, EmptySeq
        <5> QED  BY <1>10, <4>2, <4>3, <5>1, <5>2
      <4>4. CASE q + 1 # p
        BY <1>2, <1>11, <4>2, <4>4
      <4> QED  BY <4>3, <4>4
    <3> QED  BY <3>9, <3>10, <3>11, <3>12, <3>13 DEF Answers
  <2>2. CASE r # 0
    <3>1. /\ m.nr = c + 1 /\ client.stateful /\ p # 0 /\ c < 2 /\ took' = took
          /\ (c = 0 \/ c = 1)
      <4> HIDE DEF c
      <4> QED  BY <1>2, <1>3, <2>2
    <3>2. m.nr \in Restart!Handshake /\ (c = 0 => m.nr = Restart!INITIALIZE)
          /\ (c = 1 => m.nr \in Restart!Notifications)
      <4> HIDE DEF c
      <4> QED  BY <3>1 DEF Restart!Handshake, Restart!Notifications, Restart!INITIALIZE, Restart!INITIALIZED
    <3>3. \A q \in Restart!Procs : Own(q)' = Own(q)
      BY <1>10, <1>11, <1>12, <3>1, <3>2 DEF Own
    <3>4. PICK s \in Restart!Procs : Relays(s) /\ s + 1 = p
      <4>1. p - 1 \in Restart!Procs /\ p - 1 < p /\ (p - 1) + 1 = p
        BY <3>1 DEF Restart!Procs, Restart!SelfRestartAssumption
      <4> QED  BY <1>2, <4>1 DEF RestartInv, Chain
    <3>5. c = 0 => bridge[s].drop /\ Restart!INITIALIZE \notin Open(p)
      BY <1>13, <3>1, <3>4
    <3>6. \A q \in Restart!Procs : /\ Restart!IsInjective(out'[q]) /\ bridge'[q].work \cap Restart!Range(out'[q]) = {}
                                   /\ Open(q)' \cap Restart!Notifications' = {}
      <4> TAKE q \in Restart!Procs
      <4>1. /\ Restart!IsInjective(out[q]) /\ bridge[q].work \cap Restart!Range(out[q]) = {}
            /\ Open(q) \cap Restart!Notifications = {}
        BY DEF RestartInv, Answers
      <4>2. CASE q = p
        <5>1. m.nr \in Restart!Notifications \/ m.nr \notin Restart!Range(out[p])
          BY <3>1, <3>2, <3>5 DEF Open
        <5> QED  BY <1>2, <1>10, <1>12, <4>1, <4>2, <5>1
      <4>3. CASE q # p
        BY <1>2, <1>11, <1>12, <4>1, <4>3
      <4> QED  BY <4>2, <4>3
    <3>7. client'.stateful => \A q \in Restart!Procs : Relays(q)' =>
             /\ Restart!INITIALIZE \in Open(q + 1)' => bridge'[q].drop
             /\ bridge'[q + 1].captured = <<>> => bridge'[q].drop /\ Restart!INITIALIZE \notin Open(q + 1)'
      <4>1. SUFFICES ASSUME client.stateful, NEW q \in Restart!Procs, Relays(q)
                     PROVE  /\ Restart!INITIALIZE \in Open(q + 1)' => bridge[q].drop
                            /\ bridge'[q + 1].captured = <<>> =>
                                 bridge[q].drop /\ Restart!INITIALIZE \notin Open(q + 1)'
        BY <1>2, <1>6
      <4>2. /\ q + 1 \in Restart!Procs /\ (Restart!INITIALIZE \in Open(q + 1) => bridge[q].drop)
            /\ bridge[q + 1].captured = <<>> => bridge[q].drop /\ Restart!INITIALIZE \notin Open(q + 1)
        BY <4>1 DEF RestartInv, Chain, Answers
      <4>3. CASE q + 1 = p
        <5>1. q = s
          BY <3>4, <4>3 DEF Restart!Procs, Restart!SelfRestartAssumption
        <5>2. d.captured # <<>>
          <6>1. Len(d.captured) = c + 1
            BY <1>5, <3>1
          <6>2. Len(d.captured) # 0
            BY <3>1, <6>1
          <6> QED  BY <6>2, EmptySeq
        <5>3. Restart!INITIALIZE \in Open(p)' => bridge[q].drop
          BY <1>10, <3>1, <3>2, <3>5, <4>2, <4>3, <5>1
        <5> QED  BY <4>3, <5>2, <5>3
      <4>4. CASE q + 1 # p
        BY <1>2, <1>11, <4>2, <4>4
      <4> QED  BY <4>3, <4>4
    <3>8. /\ \A q \in Restart!Procs : \A k \in Own(q)' : k <= Len(took)' /\ client'.got[k] = 0
          /\ \A q, t \in Restart!Procs : q # t => Own(q)' \cap Own(t)' = {}
          /\ \A k \in 1 .. Messages : k > Len(took)' => client'.got[k] = 0
      BY <1>2, <3>1, <3>3 DEF RestartInv, Answers
    <3> QED  BY <3>6, <3>7, <3>8 DEF Answers
  <2> QED  BY <2>1, <2>2
<1> QED
  BY <1>7, <1>8, <1>9, <1>14, ServeFlows DEF RestartInv

(* The successor is started, with the handshake to be replayed if there was one. *)
LEMMA SpawnKeeps ==
    ASSUME Restart!SelfRestartAssumption, RestartInv, NEW p \in Restart!Procs, Restart!Spawn(p) PROVE RestartInv'
<1> DEFINE R == Restart!Replay(bridge[p]) # <<>>
           d == bridge'[p]
           e == bridge'[p + 1]
           i == IF R THEN <<[nr |-> Restart!INITIALIZE, replay |-> TRUE]>> ELSE <<>>
<1>1. /\ bridge[p].st = "paused" /\ UNCHANGED <<client, out, took>>
      /\ bridge' = [bridge EXCEPT
                      ![p] = [@ EXCEPT !.st = "relay", !.ready = ~R, !.drop = R],
                      ![p + 1] = [Restart!NoBridge EXCEPT !.st = "serving"]]
      /\ inp' = [inp EXCEPT ![p + 1] = i]
  BY DEF Restart!Spawn
<1>2. /\ p + 1 \in Restart!Procs /\ p + 1 # p /\ p + 1 # 0 /\ (p + 1) - 1 = p /\ 0 \in Restart!Procs /\ p < p + 1
      /\ Live(p) /\ ~Relays(p) /\ ~Live(p + 1) /\ bridge[p + 1] = Restart!NoBridge
      /\ inp[p + 1] = <<>> /\ out[p + 1] = <<>> /\ bridge[p] \in Bridges /\ Heard(p)
      /\ ~bridge[p].drop /\ bridge[p].queued = <<>>
  <2>1. /\ p + 1 \in Restart!Procs /\ Live(p) /\ ~Relays(p) /\ 0 \in Restart!Procs
        /\ p < p + 1 /\ p + 1 # p /\ p + 1 # 0 /\ (p + 1) - 1 = p
    BY <1>1 DEF RestartInv, Chain, Live, Relays, Restart!Procs, Restart!SelfRestartAssumption
  <2>2. ~Live(p + 1)
    BY <2>1 DEF RestartInv, Chain
  <2>3. bridge[p + 1] = Restart!NoBridge /\ inp[p + 1] = <<>> /\ out[p + 1] = <<>>
    BY <2>1, <2>2 DEF RestartInv, Chain
  <2>4. bridge[p] \in Bridges /\ Heard(p) /\ ~bridge[p].drop /\ bridge[p].queued = <<>>
    BY <2>1 DEF RestartInv, Chain, TypesOK
  <2> QED  BY <2>1, <2>2, <2>3, <2>4
<1>3. (R <=> client.stateful) /\ (client.stateful => Len(bridge[p].captured) = 2)
      /\ bridge[p].settled
  <2>1. bridge[p].captured \in Seq(1 .. Messages)
    BY <1>2 DEF Bridges
  <2>2. bridge[p].settled /\ (client.stateful => Len(bridge[p].captured) = 2)
    BY <1>1, <1>2 DEF Heard
  <2>3. client.stateful => R
    <3>1. Len(bridge[p].captured) = 2 => bridge[p].captured # <<>>
      <4>1. bridge[p].captured = <<>> <=> Len(bridge[p].captured) = 0
        BY <1>2, <2>1, CapturedFacts DEF Heard
      <4> DEFINE c == Len(bridge[p].captured)
      <4> HIDE DEF c
      <4>2. c = 2 => c # 0
        OBVIOUS
      <4> QED  BY <4>1, <4>2 DEF c
    <3>2. Len(bridge[p].captured) = 2 => Restart!INITIALIZED \in Restart!Range(bridge[p].captured)
      BY <1>2, <2>1, CapturedFacts DEF Heard
    <3> QED  BY <2>2, <3>1, <3>2 DEF Restart!Replay
  <2>4. ~client.stateful => ~R
    BY <1>2 DEF Restart!Replay, Heard
  <2> QED  BY <2>2, <2>3, <2>4
<1> HIDE DEF R
<1>4. /\ i \in Seq(Lines)
      /\ Len(i) = IF R THEN 1 ELSE 0
      /\ R => i[1].replay /\ i[1].nr = 1
  <2> DEFINE l == [nr |-> Restart!INITIALIZE, replay |-> TRUE]
  <2>1. l \in Lines /\ l.nr = 1 /\ l.replay
    BY DEF Lines, Restart!INITIALIZE, Restart!SelfRestartAssumption
  <2> HIDE DEF l
  <2>2. <<l>> \in Seq(Lines) /\ Len(<<l>>) = 1 /\ <<l>>[1] = l
    BY <2>1
  <2>3. <<>> \in Seq(Lines) /\ Len(<<>>) = 0
    BY EmptySeq
  <2>4. i = IF R THEN <<l>> ELSE <<>>
    BY DEF l
  <2> HIDE DEF i
  <2> QED  BY <2>1, <2>2, <2>3, <2>4
<1> HIDE DEF i
<1>5. /\ d = [bridge[p] EXCEPT !.st = "relay", !.ready = ~R, !.drop = R]
      /\ e = [Restart!NoBridge EXCEPT !.st = "serving"]
      /\ \A q \in Restart!Procs : q # p /\ q # p + 1 => bridge'[q] = bridge[q]
      /\ inp'[p + 1] = i /\ \A q \in Restart!Procs : q # p + 1 => inp'[q] = inp[q]
  BY <1>1, <1>2 DEF RestartInv, TypesOK
<1>6. /\ d \in Bridges /\ d.st = "relay" /\ (d.ready <=> ~R) /\ (d.drop <=> R)
      /\ d.captured = bridge[p].captured /\ d.settled = bridge[p].settled
      /\ d.work = bridge[p].work /\ d.queued = bridge[p].queued
  <2>1. R \in BOOLEAN
    BY DEF R
  <2> HIDE DEF d
  <2> QED  BY <1>2, <1>5, <2>1 DEF Bridges, d
<1>7. /\ e \in Bridges /\ e.st = "serving" /\ e.captured = <<>> /\ ~e.settled /\ e.work = {}
      /\ ~e.ready /\ ~e.drop /\ e.queued = <<>>
  <2>1. <<>> \in Seq(Lines) /\ <<>> \in Seq(1 .. Messages)
    BY EmptySeq
  <2> QED  BY <1>5, <2>1 DEF Restart!NoBridge, Bridges
<1> HIDE DEF d, e
<1>8. /\ bridge' \in [Restart!Procs -> Bridges] /\ inp' \in [Restart!Procs -> Seq(Lines)]
  BY <1>1, <1>2, <1>4, <1>5, <1>6, <1>7 DEF RestartInv, TypesOK, d, e
<1>9. \A q \in Restart!Procs : /\ Relays(q)' <=> q = p \/ Relays(q)
                               /\ Live(q)' <=> q = p + 1 \/ Live(q)
                               /\ Live(q) /\ q # p => Relays(q) /\ q < p /\ q # p + 1
  <2>1. Relays(p)' /\ Live(p)' /\ Live(p + 1)' /\ ~Relays(p + 1)' /\ ~Relays(p + 1)
    BY <1>2, <1>6, <1>7 DEF Relays, Live, d, e
  <2>2. \A q \in Restart!Procs : q # p /\ q # p + 1 => (Relays(q)' <=> Relays(q)) /\ (Live(q)' <=> Live(q))
    BY <1>5 DEF Relays, Live
  <2>3. \A q \in Restart!Procs : Live(q) /\ q # p => Relays(q) /\ q < p /\ q # p + 1
    BY <1>2, LastServes
  <2> QED  BY <1>2, <2>1, <2>2, <2>3
<1>10. TypesOK'
  BY <1>1, <1>8 DEF RestartInv, TypesOK
<1>11. Chain'
  <2>1. Live(0)'
    BY <1>2, <1>9 DEF RestartInv, Chain
  <2>2. ASSUME NEW q \in Restart!Procs, NEW s \in Restart!Procs, q < s, Live(s)'
        PROVE  Relays(q)'
    <3>1. CASE s = p + 1
      <4>1. q = p \/ q < p
        BY <2>2, <3>1 DEF Restart!Procs, Restart!SelfRestartAssumption
      <4>2. q < p => Relays(q)
        BY <1>2 DEF RestartInv, Chain
      <4> QED  BY <1>9, <4>1, <4>2
    <3>2. CASE s # p + 1
      <4>1. Live(s)
        BY <1>9, <2>2, <3>2
      <4>2. Relays(q)
        BY <2>2, <4>1 DEF RestartInv, Chain
      <4> QED  BY <1>9, <4>2
    <3> QED  BY <3>1, <3>2
  <2>3. ASSUME NEW q \in Restart!Procs
        PROVE  /\ ~Live(q)' => bridge'[q] = Restart!NoBridge /\ inp'[q] = <<>> /\ out'[q] = <<>>
               /\ Relays(q)' => q + 1 \in Restart!Procs /\ Live(q + 1)'
               /\ ~Relays(q)' => ~bridge'[q].drop /\ bridge'[q].queued = <<>>
               /\ bridge'[q].st = "paused" => q + 1 \in Restart!Procs
    <3>1. CASE q = p
      <4>1. Live(p)' /\ Relays(p)' /\ Live(p + 1)' /\ bridge'[p].st # "paused"
        BY <1>2, <1>6, <1>9 DEF d
      <4> QED  BY <1>2, <3>1, <4>1
    <3>2. CASE q = p + 1
      <4>1. /\ Live(p + 1)' /\ ~Relays(p + 1)' /\ bridge'[p + 1].st # "paused"
            /\ ~bridge'[p + 1].drop /\ bridge'[p + 1].queued = <<>>
        BY <1>2, <1>7, <1>9 DEF Relays, Live, e
      <4> QED  BY <3>2, <4>1
    <3>3. CASE q # p /\ q # p + 1
      BY <1>1, <1>5, <1>9, <3>3 DEF RestartInv, Chain
    <3> QED  BY <3>1, <3>2, <3>3
  <2> QED  BY <2>1, <2>2, <2>3 DEF Chain
<1>12. \A q \in Restart!Procs : Heard(q)'
  <2>1. Heard(p)'
    BY <1>1, <1>2, <1>3, <1>6 DEF Heard, Relays, Numbered, d
  <2>2. Heard(p + 1)'
    <3>1. Len(e.captured) = 0 /\ Numbered(e.captured) /\ ~Relays(p + 1)'
      BY <1>2, <1>7, <1>9, EmptySeq DEF Numbered, Live, Relays
    <3> QED  BY <1>7, <3>1 DEF Heard, Numbered, e
  <2>3. \A q \in Restart!Procs : q # p /\ q # p + 1 => Heard(q)'
    BY ZenonT(40), <1>1, <1>5 DEF RestartInv, Heard, Numbered, Relays
  <2> QED  BY <2>1, <2>2, <2>3
<1>13. Answers'
  <2>1. Restart!Handshake' = Restart!Handshake /\ Restart!Notifications' = Restart!Notifications
    BY <1>1 DEF Restart!Handshake, Restart!Notifications
  <2>2. \A q \in Restart!Procs : bridge'[q].work = bridge[q].work
    <3>1. Restart!NoBridge.work = {}
      BY DEF Restart!NoBridge
    <3> QED  BY <1>2, <1>5, <1>6, <1>7, <3>1 DEF d, e
  <2>3. \A q \in Restart!Procs : Open(q)' = Open(q) /\ Own(q)' = Own(q)
    BY <1>1, <2>1, <2>2 DEF Open, Own
  <2>4. Restart!INITIALIZE \notin Open(p + 1)
    <3>1. Restart!NoBridge.work = {} /\ Restart!Range(<<>>) = {}
      BY DEF Restart!NoBridge, Restart!Range
    <3> QED  BY <1>2, <3>1 DEF Open
  <2>5. client'.stateful => \A q \in Restart!Procs : Relays(q)' =>
          /\ Restart!INITIALIZE \in Open(q + 1)' => bridge'[q].drop
          /\ bridge'[q + 1].captured = <<>> => bridge'[q].drop /\ Restart!INITIALIZE \notin Open(q + 1)'
    <3>1. SUFFICES ASSUME client.stateful, NEW q \in Restart!Procs, Relays(q)'
                   PROVE  /\ Restart!INITIALIZE \in Open(q + 1)' => bridge'[q].drop
                          /\ bridge'[q + 1].captured = <<>> =>
                               bridge'[q].drop /\ Restart!INITIALIZE \notin Open(q + 1)'
      BY <1>1
    <3>2. CASE q = p
      BY <1>2, <1>3, <1>6, <2>3, <2>4, <3>1, <3>2 DEF d
    <3>3. CASE q # p
      <4>1. Relays(q) /\ q # p + 1 /\ q + 1 # p + 1
        BY <1>2, <1>9, <3>1, <3>3 DEF Restart!Procs, Restart!SelfRestartAssumption, Relays, Live
      <4>2. /\ q + 1 \in Restart!Procs /\ (Restart!INITIALIZE \in Open(q + 1) => bridge[q].drop)
            /\ bridge[q + 1].captured = <<>> => bridge[q].drop /\ Restart!INITIALIZE \notin Open(q + 1)
        BY <3>1, <4>1 DEF RestartInv, Chain, Answers
      <4>3. bridge'[q + 1].captured = bridge[q + 1].captured
        BY <1>5, <1>6, <4>1, <4>2 DEF d
      <4> QED  BY <1>5, <2>3, <3>3, <4>1, <4>2, <4>3
    <3> QED  BY <3>2, <3>3
  <2>6. /\ \A q \in Restart!Procs :
             /\ Restart!IsInjective(out'[q]) /\ bridge'[q].work \cap Restart!Range(out'[q]) = {}
             /\ Open(q)' \cap Restart!Notifications' = {}
             /\ \A k \in Own(q)' : k <= Len(took)' /\ client'.got[k] = 0
        /\ \A q, s \in Restart!Procs : q # s => Own(q)' \cap Own(s)' = {}
        /\ \A k \in 1 .. Messages : k > Len(took)' => client'.got[k] = 0
    BY <1>1, <2>1, <2>2, <2>3 DEF RestartInv, Answers
  <2> QED  BY <2>5, <2>6 DEF Answers
<1>14. Flows'
  <2>1. PICK a, x : Flow(a, x)
    BY DEF RestartInv, Flows
  <2> DEFINE b == [a EXCEPT ![p + 1] = a[p]]
             y == [x EXCEPT ![p + 1] = a[p]]
  <2>2. /\ b \in [Restart!Procs -> 0 .. Messages] /\ y \in [Restart!Procs -> 0 .. Messages]
        /\ b[p + 1] = a[p] /\ y[p + 1] = a[p] /\ b[p] = a[p] /\ y[p] = x[p]
        /\ \A q \in Restart!Procs : q # p + 1 => b[q] = a[q] /\ y[q] = x[q]
    BY <1>2, <2>1 DEF Flow
  <2> HIDE DEF b, y
  <2>3. /\ FlowAt(p, a, x) /\ a[p] \in Nat /\ x[p] \in Nat /\ client.sent \in Nat
    BY <1>2, <2>1 DEF Flow, RestartInv, TypesOK, Restart!SelfRestartAssumption
  <2>4. Greeted(p, a, x) /\ a[p] = Len(took) /\ a[p] <= x[p] /\ x[p] <= client.sent
    BY <1>2, <2>3 DEF FlowAt
  <2>5. client.stateful => a[p] >= 2
    <3> DEFINE c == Len(bridge[p].captured)
    <3>1. client.stateful => c = 2 /\ (p = 0 => c = IF a[p] <= 2 THEN a[p] ELSE 2) /\ (p # 0 => a[p] >= 2)
      BY <1>3, <2>4 DEF Greeted
    <3> HIDE DEF c
    <3> QED  BY <2>3, <3>1
  <2>6. FlowAt(p, b, y)'
    <3>1. p # 0 => bridge'[p - 1] = bridge[p - 1]
      <4>1. p # 0 => p - 1 \in Restart!Procs /\ p - 1 # p /\ p - 1 # p + 1
        BY DEF Restart!Procs, Restart!SelfRestartAssumption
      <4> QED  BY <1>5, <4>1
    <3>2. Replayed(p, b, y)' = Replayed(p, a, x)
      BY <1>2, <1>5, <2>2 DEF Replayed
    <3>3. Input(p, b, y)'
      BY <1>2, <1>5, <1>6, <2>2, <2>3, <3>2 DEF FlowAt, Input, d
    <3>4. Greeted(p, b, y)'
      BY <1>1, <1>6, <2>2, <2>4, <3>1, <3>2 DEF Greeted, d
    <3>5. Holds(p, b, y)'
      <4>1. a[p] + Len(<<>>) = a[p] /\ Lined(<<>>, 0, 0, a[p])
        BY <2>3, EmptySeq DEF Lined
      <4> QED  BY <1>2, <1>6, <2>2, <4>1 DEF Holds, d
    <3> QED  BY <1>1, <1>9, <2>2, <2>4, <3>3, <3>4, <3>5 DEF FlowAt
  <2>7. FlowAt(p + 1, b, y)'
    <3> DEFINE r == IF R THEN 1 ELSE 0
    <3>1. Replayed(p + 1, b, y)' = r
      <4>1. Len(i) = r /\ r \in {0, 1}
        BY <1>4
      <4> HIDE DEF r
      <4>2. r - (a[p] - a[p]) = r
        BY <2>3, <4>1
      <4> QED  BY <1>5, <2>2, <4>1, <4>2 DEF Replayed
    <3>2. Input(p + 1, b, y)'
      <4>1. Lined(i, 0, r, a[p])
        <5>1. CASE R
          <6>1. Len(i) = 1 /\ i[1].replay /\ i[1].nr = 0 + 1 /\ r = 1
            BY <1>4, <5>1
          <6> HIDE DEF r
          <6>2. \A j \in 1 .. 1 : j = 1
            OBVIOUS
          <6> QED  BY <6>1, <6>2 DEF Lined
        <5>2. CASE ~R
          <6>1. Len(i) = 0
            BY <1>4, <5>2
          <6> HIDE DEF r
          <6> QED  BY <6>1 DEF Lined
        <5> QED  BY <5>1, <5>2
      <4>2. Len(e.captured) = 0 /\ r \in Nat
        BY <1>7, EmptySeq
      <4> HIDE DEF r
      <4> QED  BY <1>5, <2>2, <3>1, <4>1, <4>2 DEF Input, e
    <3>3. Greeted(p + 1, b, y)'
      <4>1. /\ Len(e.captured) = 0 /\ (~client.stateful => r = 0)
            /\ (client.stateful => r + 0 = 1 /\ ~d.ready)
        BY <1>3, <1>6, <1>7, EmptySeq
      <4> HIDE DEF r
      <4>2. client.stateful => r + Len(e.captured) = IF d.ready THEN 2 ELSE 1
        BY <4>1
      <4> QED  BY <1>1, <1>2, <2>2, <2>5, <3>1, <4>1, <4>2 DEF Greeted, d, e
    <3>4. a[p] <= a[p] /\ a[p] <= client.sent
      BY <2>3, <2>4
    <3>5. ~Relays(p + 1)'
      BY <1>7 DEF Relays, e
    <3> QED  BY <1>1, <2>2, <2>4, <3>2, <3>3, <3>4, <3>5 DEF FlowAt
  <2>8. ASSUME NEW q \in Restart!Procs, Live(q), q # p
        PROVE  FlowAt(q, b, y)'
    <3>1. FlowAt(q, a, x) /\ Relays(q) /\ q < p /\ q # p + 1
      BY <1>9, <2>1, <2>8 DEF Flow
    <3>2. /\ q + 1 \in Restart!Procs /\ q + 1 # p + 1
          /\ q # 0 => q - 1 \in Restart!Procs /\ q - 1 # p /\ q - 1 # p + 1
      BY <3>1 DEF Restart!Procs, Restart!SelfRestartAssumption, RestartInv, Chain
    <3>3. /\ b[q] = a[q] /\ y[q] = x[q] /\ y[q + 1] = x[q + 1]
          /\ inp'[q] = inp[q] /\ bridge'[q] = bridge[q]
          /\ q # 0 => bridge'[q - 1] = bridge[q - 1]
      BY <1>5, <2>2, <2>8, <3>1, <3>2
    <3> QED
      BY <1>1, <1>9, <3>1, <3>3, FlowFrame
  <2>9. Flow(b, y)'
    <3>1. y[0] = client.sent
      BY <1>2, <2>1, <2>2 DEF Flow
    <3> QED  BY <1>1, <1>9, <2>2, <2>6, <2>7, <2>8, <3>1 DEF Flow
  <2> QED  BY <1>1, <2>9 DEF RestartInv, Flows, Numbered
<1> QED
  BY <1>10, <1>11, <1>12, <1>13, <1>14 DEF RestartInv

-----------------------------------------------------------------------------
(* SelfRestart: the invariant and the refinement.                          *)

(* Process 0 serves, and nothing has been sent.                           *)
LEMMA InitRestart == ASSUME Restart!SelfRestartAssumption, Restart!Init PROVE RestartInv
<1> DEFINE first == [Restart!NoBridge EXCEPT !.st = "serving"]
<1>1. /\ client \in [stateful : BOOLEAN, sent : {0}, got : {[k \in 1 .. Messages |-> 0]}]
      /\ inp = [p \in Restart!Procs |-> <<>>] /\ out = [p \in Restart!Procs |-> <<>>]
      /\ bridge = [p \in Restart!Procs |-> IF p = 0 THEN first ELSE Restart!NoBridge] /\ took = <<>>
      /\ 0 \in Restart!Procs /\ Messages \in Nat
  BY DEF Restart!Init, Restart!SelfRestartAssumption, Restart!Procs
<1>2. /\ <<>> \in Seq(Lines) /\ <<>> \in Seq(1 .. Messages) /\ Len(<<>>) = 0
      /\ Restart!IsInjective(<<>>) /\ Restart!Range(<<>>) = {}
  BY EmptySeq DEF Restart!IsInjective, Restart!Range
<1>3. /\ Restart!NoBridge \in Bridges /\ Restart!NoBridge.st = "none" /\ Restart!NoBridge.captured = <<>>
      /\ ~Restart!NoBridge.settled /\ Restart!NoBridge.work = {} /\ ~Restart!NoBridge.ready /\ ~Restart!NoBridge.drop
      /\ Restart!NoBridge.queued = <<>>
  BY <1>2 DEF Restart!NoBridge, Bridges
<1>4. /\ first \in Bridges /\ first.st = "serving" /\ first.captured = <<>>
      /\ ~first.settled /\ first.work = {} /\ ~first.ready /\ ~first.drop
      /\ first.queued = <<>>
  BY <1>3 DEF Bridges
<1> HIDE DEF first
<1>5. \A p \in Restart!Procs : /\ bridge[p] \in Bridges /\ inp[p] = <<>> /\ out[p] = <<>>
                               /\ bridge[p] = (IF p = 0 THEN first ELSE Restart!NoBridge)
                               /\ bridge[p].captured = <<>> /\ ~bridge[p].settled /\ bridge[p].work = {}
                               /\ ~bridge[p].drop /\ bridge[p].queued = <<>>
                               /\ bridge[p].st = IF p = 0 THEN "serving" ELSE "none"
  BY <1>1, <1>3, <1>4
<1>6. /\ client.sent = 0 /\ client.got = [k \in 1 .. Messages |-> 0]
      /\ \A k \in 1 .. Messages : client.got[k] = 0
  BY <1>1
<1>7. \A p \in Restart!Procs : ~Relays(p) /\ (Live(p) <=> p = 0)
  BY <1>5 DEF Relays, Live
<1>8. TypesOK
  <2>1. client \in [stateful : BOOLEAN, sent : 0 .. Messages, got : [1 .. Messages -> {0, 1}]]
    BY <1>1
  <2> QED  BY <1>1, <1>2, <1>3, <1>4, <2>1 DEF TypesOK
<1>9. Chain
  <2>1. \A p, q \in Restart!Procs : p < q /\ Live(q) => Relays(p)
    BY <1>7 DEF Restart!Procs, Restart!SelfRestartAssumption
  <2> QED  BY <1>1, <1>5, <1>7, <2>1 DEF Chain
<1>10. \A p \in Restart!Procs : Heard(p)
  <2> TAKE p \in Restart!Procs
  <2>1. Numbered(bridge[p].captured) /\ Len(bridge[p].captured) = 0
    BY <1>2, <1>5 DEF Numbered
  <2> QED  BY <1>5, <1>7, <2>1 DEF Heard
<1>11. Flows
  <2> DEFINE a == [p \in Restart!Procs |-> 0]
  <2>1. FlowAt(0, a, a)
    <3>1. a[0] = 0 /\ Replayed(0, a, a) = 0
      BY <1>1, <1>2, <1>5 DEF Replayed
    <3> HIDE DEF a
    <3>2. Input(0, a, a)
      BY <1>1, <1>2, <1>5, <3>1 DEF Input, Lined
    <3>3. Greeted(0, a, a)
      BY <1>1, <1>2, <1>5, <3>1 DEF Greeted
    <3> QED  BY <1>1, <1>2, <1>6, <1>7, <3>1, <3>2, <3>3 DEF FlowAt
  <2>2. a \in [Restart!Procs -> 0 .. Messages] /\ a[0] = 0
    BY <1>1
  <2> HIDE DEF a
  <2>3. Flow(a, a)
    BY <1>6, <1>7, <2>1, <2>2 DEF Flow
  <2> QED  BY <1>1, <1>2, <2>3 DEF Flows, Numbered
<1>12. Answers
  <2>1. \A p \in Restart!Procs : Open(p) = {} /\ Own(p) = {}
    BY <1>2, <1>5 DEF Open, Own
  <2> QED  BY <1>2, <1>5, <1>6, <1>7, <2>1 DEF Answers
<1> QED  BY <1>8, <1>9, <1>10, <1>11, <1>12 DEF RestartInv

(* RestartInv is inductive.                                               *)
LEMMA StepRestart ==
    ASSUME Restart!SelfRestartAssumption, RestartInv, [Restart!Next]_(Restart!vars) PROVE RestartInv'
<1>1. CASE Restart!Send
  BY <1>1, SendKeeps
<1>2. CASE Restart!Receive
  BY <1>2, ReceiveKeeps
<1>3. ASSUME NEW p \in Restart!Procs, Restart!Serve(p) PROVE RestartInv'
  BY <1>3, ServeKeeps
<1>4. ASSUME NEW p \in Restart!Procs, Restart!Answer(p) PROVE RestartInv'
  BY <1>4, AnswerKeeps
<1>5. ASSUME NEW p \in Restart!Procs, Restart!Spawn(p) PROVE RestartInv'
  BY <1>5, SpawnKeeps
<1>6. ASSUME NEW p \in Restart!Procs, Restart!RelayIn(p) PROVE RestartInv'
  BY <1>6, RelayInKeeps
<1>7. ASSUME NEW p \in Restart!Procs, Restart!RelayOut(p) PROVE RestartInv'
  BY <1>7, DropKeeps, PassOnKeeps
<1>8. ASSUME NEW p \in Restart!Procs, Restart!StopReading(p) PROVE RestartInv'
  BY <1>8, StopReadingKeeps
<1>9. ASSUME NEW p \in Restart!Procs, Restart!Timeout(p) PROVE RestartInv'
  BY <1>9, TimeoutKeeps
<1>10. CASE UNCHANGED Restart!vars
  <2>1. UNCHANGED <<client, inp, out, bridge, took>>
    BY <1>10 DEF Restart!vars
  <2>2. \A p \in Restart!Procs : (Relays(p)' <=> Relays(p)) /\ (Live(p)' <=> Live(p))
    BY <2>1 DEF Relays, Live
  <2>3. Flows'
    BY <2>1, <2>2, FlowsKept DEF RestartInv
  <2>4. Answers'
    BY <2>1, <2>2, AnswersKept DEF RestartInv, Chain
  <2>5. TypesOK' /\ Chain'
    <3>1. TypesOK'
      BY <2>1 DEF RestartInv, TypesOK
    <3>2. Chain'
      BY <2>1 DEF RestartInv, Chain, Live, Relays
    <3> QED  BY <3>1, <3>2
  <2>6. \A p \in Restart!Procs : Heard(p)'
    BY <2>1, <2>2 DEF RestartInv, Heard, Numbered
  <2> QED  BY <2>3, <2>4, <2>5, <2>6 DEF RestartInv
<1> QED
  BY <1>1, <1>2, <1>3, <1>4, <1>5, <1>6, <1>7, <1>8, <1>9, <1>10 DEF Restart!Next, Restart!Progress

(* The messages are served in order.                                        *)
LEMMA ServedInOrder == ASSUME RestartInv PROVE Restart!InOrder(took) = Len(took) /\ Len(took) \in Nat
<1>1. took \in Seq(1 .. Messages) /\ Numbered(took)
  BY DEF RestartInv, Flows
<1>2. DOMAIN took = 1 .. Len(took) /\ Len(took) \in Nat
  BY <1>1, LenProperties
<1> QED  BY <1>1, <1>2 DEF Restart!InOrder, Numbered

(* Each step is one of the session or a stutter.                          *)
LEMMA StepImplements ==
    ASSUME Restart!SelfRestartAssumption, RestartInv, RestartInv', [Restart!Next]_(Restart!vars)
    PROVE  [Restart!Session!Next]_(Restart!Session!vars)
<1>1. Restart!InOrder(took) = Len(took) /\ Len(took) \in Nat
  BY ServedInOrder
<1>2. ASSUME UNCHANGED <<client, took>> PROVE UNCHANGED Restart!Session!vars
  BY <1>2 DEF Restart!Session!vars, Restart!Notifications, Restart!Handshake, Restart!InOrder
<1>3. CASE Restart!Send
  <2>1. /\ client.sent < Messages /\ client'.sent = client.sent + 1
        /\ client'.stateful = client.stateful /\ client'.got = client.got /\ took' = took
    BY <1>3 DEF Restart!Send, RestartInv, TypesOK
  <2>2. Restart!Session!Send
    BY <2>1 DEF Restart!Session!Send, Restart!Notifications, Restart!Handshake, Restart!InOrder
  <2> QED  BY <2>2 DEF Restart!Session!Next
<1>4. CASE Restart!Receive
  <2> DEFINE k == Head(out[0])
  <2>1. out[0] # <<>> /\ client' = [client EXCEPT !.got[k] = @ + 1] /\ took' = took
    BY <1>4 DEF Restart!Receive
  <2>2. 0 \in Restart!Procs /\ out[0] \in Seq(1 .. Messages) /\ Restart!IsInjective(out[0])
    <3>1. 0 \in Restart!Procs
      BY DEF Restart!Procs, Restart!SelfRestartAssumption
    <3>2. out[0] \in Seq(1 .. Messages)
      BY <3>1 DEF RestartInv, TypesOK
    <3> QED  BY <3>1, <3>2 DEF RestartInv, Answers
  <2>3. k \in 1 .. Messages /\ k \in Restart!Range(out[0])
    BY <2>1, <2>2, TailFacts, TailSet
  <2> HIDE DEF k
  <2>4. k \in Open(0) /\ k \in Own(0)
    BY <2>3 DEF Open, Own
  <2>5. k <= Len(took) /\ client.got[k] = 0 /\ k \notin Restart!Notifications
    BY <2>2, <2>4 DEF RestartInv, Answers
  <2>6. /\ client'.got = [client.got EXCEPT ![k] = 1] /\ client'.sent = client.sent
        /\ client'.stateful = client.stateful
    <3>1. client \in [stateful : BOOLEAN, sent : 0 .. Messages, got : [1 .. Messages -> {0, 1}]]
      BY DEF RestartInv, TypesOK
    <3>2. client' = [client EXCEPT !.got = [client.got EXCEPT ![k] = @ + 1]]
      BY <2>1
    <3>3. [client.got EXCEPT ![k] = @ + 1] = [client.got EXCEPT ![k] = 1]
      BY <2>5
    <3> QED  BY <3>1, <3>2, <3>3
  <2>7. Restart!Session!Answer(k)
    BY <1>1, <2>1, <2>5, <2>6 DEF Restart!Session!Answer, Restart!Notifications, Restart!Handshake, Restart!InOrder
  <2> QED  BY <2>3, <2>7 DEF Restart!Session!Next
<1>5. ASSUME NEW p \in Restart!Procs, Restart!Serve(p) PROVE [Restart!Session!Next]_(Restart!Session!vars)
  <2>1. PICK a, x : Flow(a, x)
    BY DEF RestartInv, Flows
  <2>2. Serves(p, a, x)
    BY <1>5, <2>1, ServeDoes
  <2> DEFINE r == Replayed(p, a, x)
             m == Head(inp[p])
  <2>3. /\ UNCHANGED client /\ Live(p) /\ a[p] = Len(took) /\ a[p] \in Nat /\ x[p] \in Nat
        /\ took' = IF r = 0 THEN Append(took, m.nr) ELSE took
        /\ r = 0 => a[p] + 1 <= x[p] /\ m \in Lines
    BY <2>2 DEF Serves, Reads
  <2>4. x[p] <= client.sent /\ client.sent \in Nat
    BY <2>1, <2>3 DEF Flow, FlowAt, RestartInv, TypesOK, Restart!SelfRestartAssumption
  <2> HIDE DEF r, m
  <2>5. CASE r = 0
    <3>1. Len(took) < client.sent
      BY <2>3, <2>4, <2>5
    <3>2. Len(took') = Len(took) + 1
      <4> DEFINE v == m.nr
      <4>1. took \in Seq(1 .. Messages) /\ v \in 1 .. Messages /\ took' = Append(took, v)
        BY <2>3, <2>5 DEF Lines, RestartInv, Flows
      <4> HIDE DEF v
      <4> QED  BY <4>1, AppendFacts
    <3>3. Restart!InOrder(took)' = Len(took')
      <4>1. took' \in Seq(1 .. Messages) /\ \A i \in 1 .. Len(took') : took'[i] = i
        BY DEF RestartInv, Flows, Numbered
      <4>2. DOMAIN took' = 1 .. Len(took')
        BY <4>1, LenProperties
      <4> QED  BY <4>1, <4>2 DEF Restart!InOrder
    <3>4. Restart!Session!Serve
      BY <1>1, <2>3, <3>1, <3>2, <3>3 DEF Restart!Session!Serve, Restart!Notifications, Restart!Handshake
    <3> QED  BY <3>4 DEF Restart!Session!Next
  <2>6. CASE r # 0
    BY <1>2, <2>3, <2>6
  <2> QED  BY <2>5, <2>6
<1>6. ASSUME NEW p \in Restart!Procs,
             Restart!Answer(p) \/ Restart!Spawn(p) \/ Restart!RelayIn(p) \/ Restart!RelayOut(p)
             \/ Restart!StopReading(p) \/ Restart!Timeout(p)
      PROVE  UNCHANGED <<client, took>>
  BY <1>6 DEF Restart!Answer, Restart!Spawn, Restart!RelayIn, Restart!RelayOut, Restart!StopReading, Restart!Timeout
<1>7. CASE UNCHANGED Restart!vars
  BY <1>2, <1>7 DEF Restart!vars
<1> QED
  BY <1>2, <1>3, <1>4, <1>5, <1>6, <1>7 DEF Restart!Next, Restart!Progress

(* The first state is one of the session.                                 *)
LEMMA InitImplements == ASSUME Restart!SelfRestartAssumption, Restart!Init PROVE Restart!Session!Init
<1>1. Restart!Notifications \subseteq 1 .. Messages
  BY DEF Restart!Notifications, Restart!Handshake, Restart!INITIALIZE, Restart!INITIALIZED,
     Restart!SelfRestartAssumption
<1>2. Restart!InOrder(took) = 0
  BY InitRestart, ServedInOrder DEF Restart!Init
<1>3. client.sent = 0 /\ client.got = [k \in 1 .. Messages |-> 0]
  BY DEF Restart!Init
<1> QED  BY <1>1, <1>2, <1>3 DEF Restart!Session!Init

-----------------------------------------------------------------------------
(* BridgeElection: the invariant.                                          *)

\* The states of a process.
Processes ==
    [st : {"off", "up", "closing", "removing", "closed", "gone"}, role : Election!Roles,
     task : [Election!Tasks -> {"none", "clean", "rm", "bind", "bound", "connect"}],
     round : 1 .. Rounds, tries : 0 .. MaxTries, conn : {"idle", "lock", "open"},
     token : Servers \cup {NoProc}, link : Servers \cup {NoProc}, write : BOOLEAN]

\* A process does one thing at a time, and nothing once it is the primary.
OneTask(x) ==
    /\ x.task["elect"] = "none" \/ x.task["recover"] = "none"
    /\ x.role = "primary" => x.task["elect"] = "none" /\ x.task["recover"] = "none"

\* As long as a process elects it has no connection, and tries to connect when
\* the port was taken and only then.
Electing(x) ==
    /\ x.task["elect"] \in {"clean", "rm", "bind", "bound"} => x.conn = "idle" /\ x.role = "bootstrapping"
    /\ x.task["elect"] = "connect" => x.conn # "idle" /\ x.role = "proxy"
    /\ x.task["elect"] # "none" => x.link = NoProc

\* A secondary is connected, or has a task.
Secondary(x) ==
    x.st = "up" /\ x.role = "proxy" /\ x.link = NoProc =>
        x.task["elect"] # "none" \/ x.task["recover"] # "none"

\* What is said of one process by itself.
Sound(x) ==
    /\ x \in Processes
    /\ OneTask(x) /\ Electing(x) /\ Secondary(x)
    /\ x.conn = "open" => x.token # NoProc
    /\ x.st = "off" => x = Election!Off
    /\ x.st = "gone" => x = Election!Gone

\* A process in whose hands the port is.
HoldsPort(x) ==
    \/ x.st = "up" /\ x.role = "primary"
    \/ x.task["elect"] = "bound" \/ x.task["recover"] = "bound"

\* The inductive invariant: the port is in the hands of who has it, but for one
\* that is about to close it.
ElectionInv ==
    /\ proc \in [Servers -> Processes]
    /\ port \in Servers \cup {NoProc} /\ lock \in Servers \cup {NoProc} /\ ends \in 0 .. MaxEnds
    /\ \A p \in Servers :
         /\ Sound(proc[p])
         /\ HoldsPort(proc[p]) => port = p
         /\ port = p => HoldsPort(proc[p]) \/ proc[p].st = "closing"

-----------------------------------------------------------------------------
(* BridgeElection: what a process goes on as.                              *)

(* A process that has not started, and one that is gone, is sound and does not *)
(* hold the port.                                                          *)
LEMMA OffSound ==
    ASSUME Election!BridgeElectionAssumption, NEW x \in {Election!Off, Election!Gone}
    PROVE  Sound(x) /\ ~HoldsPort(x)
<1>1. /\ x.st \in {"off", "gone"} /\ x.role = "bootstrapping" /\ x.round = 1 /\ x.tries = 0
      /\ x.conn = "idle" /\ x.token = NoProc /\ x.link = NoProc /\ x.write = FALSE
      /\ x.task = [t \in Election!Tasks |-> "none"]
      /\ x.st = "off" => x = Election!Off
      /\ x.st = "gone" => x = Election!Gone
  <2>1. CASE x = Election!Off
    BY <2>1 DEF Election!Off
  <2>2. CASE x = Election!Gone
    <3>1. Election!Off.st = "off"
      BY DEF Election!Off
    <3>2. /\ x.st = "gone" /\ x.role = Election!Off.role /\ x.round = Election!Off.round
             /\ x.tries = Election!Off.tries
          /\ x.conn = Election!Off.conn /\ x.token = Election!Off.token /\ x.link = Election!Off.link
             /\ x.write = Election!Off.write
          /\ x.task = Election!Off.task
      BY <2>2 DEF Election!Gone, Election!Off
    <3> QED  BY <2>2, <3>2 DEF Election!Off
  <2> QED  BY <2>1, <2>2
<1>2. x \in Processes
  <2>1. Election!Off \in Processes
    BY DEF Election!BridgeElectionAssumption, Election!Off, Election!Tasks, Election!Roles, Processes
  <2>2. Election!Gone \in Processes
    BY <2>1 DEF Election!Gone, Processes
  <2> QED  BY <2>1, <2>2
<1>3. x.task["elect"] = "none" /\ x.task["recover"] = "none"
  BY <1>1 DEF Election!Tasks
<1> QED
  BY <1>1, <1>2, <1>3 DEF Sound, OneTask, Electing, Secondary, HoldsPort

(* Who cannot bind the port joins its owner, and does not hold it.           *)
LEMMA JoinSound ==
    ASSUME NEW x, Sound(x), NEW t \in Election!Tasks, x.task[t] \in {"bind", "bound"}
    PROVE  Sound(Election!Join(x, t)) /\ ~HoldsPort(Election!Join(x, t)) /\ Election!Join(x, t).st = x.st
<1> DEFINE y == Election!Join(x, t)
<1>1. x \in Processes /\ OneTask(x) /\ Electing(x) /\ Secondary(x)
  BY DEF Sound
<1>2. /\ y.st = x.st /\ y.role = "proxy" /\ y.round = x.round /\ y.tries = x.tries
      /\ y.token = x.token /\ y.link = x.link /\ y.write = x.write
      /\ y \in Processes
      /\ \A s \in Election!Tasks \ {t} : y.task[s] = x.task[s]
  BY <1>1 DEF Election!Join, Processes, Election!Tasks, Election!Roles
<1>3. \/ /\ x.link # NoProc /\ y.task[t] = "none" /\ y.conn = x.conn
      \/ /\ x.link = NoProc /\ y.task[t] = "connect"
         /\ y.conn = IF x.conn = "idle" THEN "lock" ELSE x.conn
  BY <1>1 DEF Election!Join, Processes, Election!Tasks
<1>4. x.st \notin {"off", "gone"}
  BY DEF Sound, Election!Off, Election!Gone, Election!Tasks
<1> HIDE DEF y
<1>5. Sound(y)
  BY <1>1, <1>2, <1>3, <1>4 DEF Sound, OneTask, Electing, Secondary, Election!Tasks
<1>6. ~HoldsPort(y)
  BY <1>1, <1>2, <1>3 DEF OneTask, HoldsPort, Election!Tasks
<1> QED
  BY <1>2, <1>5, <1>6 DEF y

(* An attempt to connect that succeeds.                                    *)
LEMMA LinkedSound ==
    ASSUME NEW x, Sound(x), x.conn = "open"
    PROVE  Sound(Election!Linked(x)) /\ (HoldsPort(Election!Linked(x)) <=> HoldsPort(x))
           /\ Election!Linked(x).st = x.st
<1> DEFINE y == Election!Linked(x)
<1>1. x \in Processes /\ OneTask(x) /\ Electing(x) /\ Secondary(x) /\ x.token # NoProc
  BY DEF Sound
<1>2. x.st \notin {"off", "gone"}
  BY DEF Sound, Election!Off, Election!Gone
<1>3. /\ y.st = x.st /\ y.round = x.round /\ y.tries = x.tries /\ y.conn = "idle"
      /\ y.token = NoProc /\ y.link = x.token /\ y.write = x.write
      /\ y.role = IF Election!Waiting(x) = {} THEN x.role ELSE "proxy"
      /\ \A s \in Election!Tasks : y.task[s] = IF x.task[s] = "connect" THEN "none" ELSE x.task[s]
  BY <1>1 DEF Election!Linked, Processes, Election!Waiting
<1>4. y \in Processes
  BY <1>1 DEF Election!Linked, Processes, Election!Roles
<1>5. Election!Waiting(x) = {} <=> x.task["elect"] # "connect" /\ x.task["recover"] # "connect"
  BY DEF Election!Waiting, Election!Tasks
<1> HIDE DEF y
<1>6. Sound(y)
  <2>1. x.task["elect"] \in {"none", "connect"}
    BY <1>1 DEF Electing, Processes, Election!Tasks
  <2>2. y.task["elect"] = "none"
    BY <1>3, <2>1 DEF Election!Tasks
  <2>3. y.role = "primary" => y.task["recover"] = "none"
    BY <1>1, <1>3, <1>5 DEF OneTask, Election!Tasks
  <2> QED
    BY <1>2, <1>3, <1>1, <1>4, <2>2, <2>3 DEF Sound, OneTask, Electing, Secondary
<1>7. HoldsPort(y) <=> HoldsPort(x)
  BY <1>1, <1>3, <1>5 DEF OneTask, HoldsPort, Election!Tasks
<1> QED
  BY <1>3, <1>6, <1>7 DEF y

(* An attempt to connect that fails.                                       *)
LEMMA NotLinkedSound ==
    ASSUME Election!BridgeElectionAssumption, NEW x, Sound(x), x.conn # "idle", NEW y \in Election!NotLinked(x)
    PROVE  Sound(y) /\ (HoldsPort(y) <=> HoldsPort(x)) /\ y.st = x.st
<1> DEFINE z == [x EXCEPT !.conn = "idle", !.token = NoProc]
<1>1. x \in Processes /\ OneTask(x) /\ Electing(x) /\ Secondary(x)
  BY DEF Sound
<1>2. x.st \notin {"off", "gone"}
  BY DEF Sound, Election!Off, Election!Gone
<1>3. Election!Waiting(x) # Election!Tasks
  BY <1>1 DEF Election!Waiting, Election!Tasks, OneTask
<1>4. /\ z \in Processes /\ z.st = x.st /\ z.role = x.role /\ z.task = x.task /\ z.round = x.round
      /\ z.tries = x.tries /\ z.conn = "idle" /\ z.token = NoProc /\ z.link = x.link /\ z.write = x.write
  BY <1>1 DEF Processes
<1> HIDE DEF z
<1>5. CASE Election!Waiting(x) = {}
  <2>1. y = z
    BY <1>3, <1>5 DEF Election!NotLinked, z
  <2>2. x.task["elect"] # "connect"
    BY <1>5 DEF Election!Waiting, Election!Tasks
  <2>3. Sound(z)
    BY <1>1, <1>2, <1>4, <2>2 DEF Sound, OneTask, Electing, Secondary
  <2>4. HoldsPort(z) <=> HoldsPort(x)
    BY <1>4 DEF HoldsPort
  <2> QED  BY <1>4, <2>1, <2>3, <2>4
<1>6. CASE Election!Waiting(x) # {}
  <2>1. PICK t \in Election!Waiting(x) : y = Election!Failed(z, t)
    BY <1>3, <1>6 DEF Election!NotLinked, z
  <2>2. t \in Election!Tasks /\ x.task[t] = "connect"
    BY DEF Election!Waiting
  <2>3. /\ y.st = x.st /\ y.tries = x.tries /\ y.conn = "idle" /\ y.token = NoProc
        /\ y.link = x.link /\ y.write = x.write
        /\ \A s \in Election!Tasks \ {t} : y.task[s] = x.task[s]
    BY <1>4, <2>1 DEF Election!Failed, Processes
  <2>4. \/ t = "elect" /\ y.task[t] = "bind" /\ y.role = "bootstrapping"
        \/ y.task[t] = "none" /\ y.role = "degraded"
    BY <1>4, <2>1, <2>2 DEF Election!Failed, Processes
  <2>5. y \in Processes
    <3>1. CASE t = "elect" /\ z.round < Rounds
      <4>1. y = [z EXCEPT !.role = "bootstrapping", !.task[t] = "bind", !.round = @ + 1]
        BY <2>1, <3>1 DEF Election!Failed
      <4>2. z.round + 1 \in 1 .. Rounds
        BY <1>4, <3>1 DEF Processes, Election!BridgeElectionAssumption
      <4> QED  BY <1>4, <2>2, <4>1, <4>2 DEF Processes, Election!Roles
    <3>2. CASE ~(t = "elect" /\ z.round < Rounds)
      <4>1. y = [z EXCEPT !.role = "degraded", !.task[t] = "none"]
        BY <2>1, <3>2 DEF Election!Failed
      <4> QED  BY <1>4, <2>2, <4>1 DEF Processes, Election!Roles
    <3> QED  BY <3>1, <3>2
  <2>6. Sound(y)
    BY <1>1, <1>2, <2>2, <2>3, <2>4, <2>5 DEF Sound, OneTask, Electing, Secondary, Election!Tasks
  <2>7. HoldsPort(y) <=> HoldsPort(x)
    BY <1>1, <2>2, <2>3, <2>4 DEF OneTask, HoldsPort, Election!Tasks
  <2> QED  BY <2>3, <2>6, <2>7
<1> QED
  BY <1>5, <1>6

(* A process without a connection that recovers.                           *)
LEMMA RecoveringSound ==
    ASSUME Election!BridgeElectionAssumption, NEW x \in Processes, OneTask(x), Electing(x), x.task["elect"] = "none",
           x.conn = "open" => x.token # NoProc, x.st \notin {"off", "gone"}, x.link = NoProc
    PROVE  /\ Sound(Election!Recovering(x)) /\ Election!Recovering(x).st = x.st
           /\ HoldsPort(Election!Recovering(x)) <=> HoldsPort(x)
<1> DEFINE y == Election!Recovering(x)
<1>1. CASE Election!HandedOver(x) \/ x.role = "primary" \/ x.task["recover"] # "none"
  <2>1. y = x
    BY <1>1 DEF Election!Recovering
  <2>2. Secondary(x)
    BY <1>1 DEF Secondary, Election!HandedOver
  <2> QED  BY <2>1, <2>2 DEF Sound
<1>2. CASE /\ ~(Election!HandedOver(x) \/ x.role = "primary" \/ x.task["recover"] # "none")
           /\ x.tries = MaxTries
  <2>1. y = [x EXCEPT !.role = "degraded"]
    BY <1>2 DEF Election!Recovering
  <2>2. y \in Processes
    BY <2>1 DEF Processes, Election!Roles
  <2>3. /\ y.st = x.st /\ y.role = "degraded" /\ y.task = x.task /\ y.conn = x.conn
        /\ y.token = x.token /\ y.link = x.link
    BY <2>1 DEF Processes
  <2> HIDE DEF y
  <2>4. Sound(y) /\ (HoldsPort(y) <=> HoldsPort(x))
    BY <1>2, <2>2, <2>3 DEF Sound, OneTask, Electing, Secondary, HoldsPort
  <2> QED  BY <2>3, <2>4 DEF y
<1>3. CASE /\ ~(Election!HandedOver(x) \/ x.role = "primary" \/ x.task["recover"] # "none")
           /\ x.tries # MaxTries
  <2>1. y = [x EXCEPT !.tries = @ + 1, !.task["recover"] = "bind"]
    BY <1>3 DEF Election!Recovering
  <2>2. y \in Processes
    <3>1. MaxTries \in Nat /\ x.tries \in 0 .. MaxTries /\ x.tries + 1 \in 0 .. MaxTries
      BY <1>3 DEF Processes, Election!BridgeElectionAssumption
    <3>2. [x.task EXCEPT !["recover"] = "bind"]
             \in [Election!Tasks -> {"none", "clean", "rm", "bind", "bound", "connect"}]
      BY DEF Processes, Election!Tasks
    <3> QED  BY <2>1, <3>1, <3>2 DEF Processes
  <2>3. /\ y.st = x.st /\ y.role = x.role /\ y.conn = x.conn /\ y.token = x.token /\ y.link = x.link
        /\ y.task["elect"] = x.task["elect"] /\ y.task["recover"] = "bind"
    BY <2>1 DEF Processes, Election!Tasks
  <2> HIDE DEF y
  <2>4. Sound(y) /\ (HoldsPort(y) <=> HoldsPort(x))
    BY <1>3, <2>2, <2>3 DEF Sound, OneTask, Electing, Secondary, HoldsPort
  <2> QED  BY <2>3, <2>4 DEF y
<1> QED
  BY <1>1, <1>2, <1>3

-----------------------------------------------------------------------------
(* BridgeElection: the steps.                                              *)

(* A step of one process, after which nobody else has the port that did not    *)
(* have it before.                                                         *)
LEMMA OneMoves ==
    ASSUME ElectionInv, NEW p \in Servers, NEW x, Election!Goes(p, x), Sound(x),
           lock' \in Servers \cup {NoProc}, ends' \in 0 .. MaxEnds, NoProc \notin Servers,
           port' = port \/ {port, port'} \subseteq {p, NoProc},
           HoldsPort(x) => port' = p,
           port' = p => HoldsPort(x) \/ x.st = "closing"
    PROVE  ElectionInv'
<1>1. proc' = [proc EXCEPT ![p] = x] /\ x \in Processes
  BY DEF Election!Goes, Sound
<1>2. proc' \in [Servers -> Processes]
  BY <1>1 DEF ElectionInv
<1>3. ASSUME NEW q \in Servers
      PROVE  /\ Sound(proc'[q])
             /\ HoldsPort(proc'[q]) => port' = q
             /\ port' = q => HoldsPort(proc'[q]) \/ proc'[q].st = "closing"
  <2>1. CASE q = p
    <3>1. proc'[q] = x
      BY <1>1, <2>1 DEF ElectionInv
    <3> QED  BY <2>1, <3>1
  <2>2. CASE q # p
    <3>1. proc'[q] = proc[q]
      BY <1>1, <2>2 DEF ElectionInv
    <3> QED  BY <2>2, <3>1 DEF ElectionInv
  <2> QED  BY <2>1, <2>2
<1>4. port' \in Servers \cup {NoProc}
  BY DEF ElectionInv
<1> QED
  BY <1>2, <1>3, <1>4 DEF ElectionInv

(* A step of one process that holds the port as it did before.                 *)
LEMMA OneGoes ==
    ASSUME ElectionInv, Election!BridgeElectionAssumption, NEW p \in Servers, NEW x, Election!Goes(p, x), Sound(x),
           HoldsPort(x) <=> HoldsPort(proc[p]), proc[p].st = "closing" => x.st = "closing",
           port' = port, lock' \in Servers \cup {NoProc}, ends' \in 0 .. MaxEnds
    PROVE  ElectionInv'
<1>1. HoldsPort(x) => port' = p
  BY DEF ElectionInv
<1>2. port' = p => HoldsPort(x) \/ x.st = "closing"
  BY DEF ElectionInv
<1>3. NoProc \notin Servers
  BY DEF Election!BridgeElectionAssumption
<1> QED
  BY <1>1, <1>2, <1>3, OneMoves

-----------------------------------------------------------------------------
(* BridgeElection: the actions.                                            *)

\* What is given where an action is looked at.
Electable == Election!BridgeElectionAssumption /\ ElectionInv

(* What the invariant says of one process.                                   *)
LEMMA OneProcess ==
    ASSUME Electable, NEW p \in Servers
    PROVE  /\ Sound(proc[p]) /\ proc[p] \in Processes /\ OneTask(proc[p]) /\ Electing(proc[p]) /\ Secondary(proc[p])
           /\ Election!Alive(p) <=> proc[p].st \notin {"off", "gone"}
           /\ HoldsPort(proc[p]) => port = p
           /\ port = p => HoldsPort(proc[p]) \/ proc[p].st = "closing"
           /\ NoProc \notin Servers /\ MaxEnds \in Nat
           /\ port \in Servers \cup {NoProc} /\ lock \in Servers \cup {NoProc} /\ ends \in 0 .. MaxEnds
BY DEF Electable, ElectionInv, Sound, Election!Alive, Election!BridgeElectionAssumption

(* The attempt to connect.                                                 *)
LEMMA ConnectionKeeps ==
    ASSUME Electable, NEW p \in Servers, Election!Connection(p) \/ Election!CallConnects(p)
    PROVE  ElectionInv'
<1> DEFINE x == proc[p]
<1>1. /\ Sound(x) /\ x \in Processes /\ OneTask(x) /\ Electing(x) /\ Secondary(x)
      /\ Election!Alive(p) <=> x.st \notin {"off", "gone"}
  BY OneProcess
<1>2. ElectionInv /\ Election!BridgeElectionAssumption
  BY DEF Electable
<1>3. lock \in Servers \cup {NoProc} /\ ends \in 0 .. MaxEnds
  BY OneProcess
<1>4. ASSUME NEW y, Election!Goes(p, y), Sound(y), HoldsPort(y) <=> HoldsPort(x), y.st = x.st,
             UNCHANGED <<port, lock, ends>>
      PROVE  ElectionInv'
  BY <1>2, <1>3, <1>4, OneGoes
<1>5. ASSUME NEW c \in {"lock", "open"}, NEW k \in Servers \cup {NoProc}, c = "open" => k # NoProc,
             x.st \notin {"off", "gone"}, x.task["elect"] \in {"none", "connect"}
      PROVE  LET y == [x EXCEPT !.conn = c, !.token = k]
             IN  Sound(y) /\ (HoldsPort(y) <=> HoldsPort(x)) /\ y.st = x.st
  <2> DEFINE y == [x EXCEPT !.conn = c, !.token = k]
  <2>1. /\ y \in Processes /\ y.st = x.st /\ y.role = x.role /\ y.task = x.task /\ y.conn = c
        /\ y.token = k /\ y.link = x.link
    BY <1>1 DEF Processes
  <2> HIDE DEF y
  <2>2. Sound(y) /\ (HoldsPort(y) <=> HoldsPort(x))
    BY <1>1, <1>5, <2>1 DEF Sound, OneTask, Electing, Secondary, HoldsPort
  <2> QED  BY <2>1, <2>2 DEF y
<1>6. CASE Election!ReadToken(p)
  <2>1. CASE lock # NoProc
    <3>1. Election!Goes(p, [x EXCEPT !.conn = "open", !.token = lock]) /\ UNCHANGED <<port, lock, ends>>
      BY <1>6, <2>1 DEF Election!ReadToken
    <3>2. x.task["elect"] \in {"none", "connect"} /\ x.st \notin {"off", "gone"}
      BY <1>1, <1>6 DEF Election!ReadToken, Electing, Processes, Election!Tasks
    <3> QED  BY <1>3, <1>4, <1>5, <2>1, <3>1, <3>2
  <2>2. CASE lock = NoProc
    <3>1. PICK y \in Election!NotLinked(x) : Election!Goes(p, y) /\ UNCHANGED <<port, lock, ends>>
      BY <1>6, <2>2 DEF Election!ReadToken
    <3>2. Sound(y) /\ (HoldsPort(y) <=> HoldsPort(x)) /\ y.st = x.st
      BY <1>1, <1>2, <1>6, NotLinkedSound DEF Election!ReadToken
    <3> QED  BY <1>4, <3>1, <3>2
  <2> QED  BY <2>1, <2>2
<1>7. CASE Election!OpenLink(p)
  <2>1. CASE port = x.token
    <3>1. Election!Goes(p, Election!Linked(x)) /\ UNCHANGED <<port, lock, ends>>
      BY <1>7, <2>1 DEF Election!OpenLink
    <3>2. Sound(Election!Linked(x)) /\ (HoldsPort(Election!Linked(x)) <=> HoldsPort(x))
          /\ Election!Linked(x).st = x.st
      BY <1>1, <1>7, LinkedSound DEF Election!OpenLink
    <3> QED  BY <1>4, <3>1, <3>2
  <2>2. CASE port # x.token
    <3>1. PICK y \in Election!NotLinked(x) : Election!Goes(p, y) /\ UNCHANGED <<port, lock, ends>>
      BY <1>7, <2>2 DEF Election!OpenLink
    <3>2. Sound(y) /\ (HoldsPort(y) <=> HoldsPort(x)) /\ y.st = x.st
      BY <1>1, <1>2, <1>7, NotLinkedSound DEF Election!OpenLink
    <3> QED  BY <1>4, <3>1, <3>2
  <2> QED  BY <2>1, <2>2
<1>8. CASE Election!CallConnects(p)
  <2>1. Election!Goes(p, [x EXCEPT !.conn = "lock"]) /\ UNCHANGED <<port, lock, ends>>
    BY <1>8 DEF Election!CallConnects
  <2>2. x.st = "up" /\ x.role = "proxy" /\ x.conn = "idle"
    BY <1>8 DEF Election!CallConnects, Election!Up
  <2>3. x.task["elect"] = "none"
    BY <1>1, <2>2 DEF Electing, Processes, Election!Tasks
  <2>4. [x EXCEPT !.conn = "lock"] = [x EXCEPT !.conn = "lock", !.token = x.token]
        /\ x.token \in Servers \cup {NoProc}
    BY <1>1 DEF Processes
  <2> QED  BY <1>4, <1>5, <2>1, <2>2, <2>3, <2>4
<1> QED
  BY <1>6, <1>7, <1>8 DEF Election!Connection

(* A connection that closes, and a call that comes to a process without one.  *)
LEMMA RecoversKeeps ==
    ASSUME Electable, NEW p \in Servers, Election!LinkCloses(p) \/ Election!Nudge(p)
    PROVE  ElectionInv'
<1> DEFINE x == proc[p]
<1>1. /\ Sound(x) /\ x \in Processes /\ OneTask(x) /\ Electing(x) /\ Secondary(x)
      /\ Election!Alive(p) <=> x.st \notin {"off", "gone"}
      /\ lock \in Servers \cup {NoProc} /\ ends \in 0 .. MaxEnds
  BY OneProcess
<1>2. ElectionInv /\ Election!BridgeElectionAssumption
  BY DEF Electable
<1>3. ASSUME NEW y \in Processes, Election!Goes(p, Election!Recovering(y)), UNCHANGED <<port, lock, ends>>,
             y.st = x.st, y.role = x.role, y.task = x.task, y.conn = x.conn, y.token = x.token,
             y.link = NoProc, x.task["elect"] = "none", x.st \notin {"off", "gone"}
      PROVE  ElectionInv'
  <2>1. OneTask(y) /\ Electing(y) /\ (y.conn = "open" => y.token # NoProc)
    BY <1>1, <1>3 DEF OneTask, Electing, Sound
  <2>2. /\ Sound(Election!Recovering(y)) /\ Election!Recovering(y).st = y.st
        /\ HoldsPort(Election!Recovering(y)) <=> HoldsPort(y)
    BY <1>2, <1>3, <2>1, RecoveringSound
  <2>3. HoldsPort(y) <=> HoldsPort(x)
    BY <1>3 DEF HoldsPort
  <2> QED  BY <1>1, <1>2, <1>3, <2>2, <2>3, OneGoes
<1>4. CASE Election!LinkCloses(p)
  <2> DEFINE y == [x EXCEPT !.link = NoProc]
  <2>1. Election!Goes(p, Election!Recovering(y)) /\ UNCHANGED <<port, lock, ends>> /\ x.link # NoProc
        /\ Election!Alive(p)
    BY <1>4 DEF Election!LinkCloses
  <2>2. /\ y \in Processes /\ y.st = x.st /\ y.role = x.role /\ y.task = x.task /\ y.conn = x.conn
        /\ y.token = x.token /\ y.link = NoProc
    BY <1>1 DEF Processes
  <2>3. x.task["elect"] = "none"
    BY <1>1, <2>1 DEF Electing
  <2> HIDE DEF y
  <2> QED  BY <1>1, <1>3, <2>1, <2>2, <2>3
<1>5. CASE Election!Nudge(p)
  <2>1. PICK n \in {0, x.tries} :
           Election!Goes(p, Election!Recovering([x EXCEPT !.tries = n])) /\ UNCHANGED <<port, lock, ends>>
    BY <1>5 DEF Election!Nudge
  <2> DEFINE y == [x EXCEPT !.tries = n]
  <2>2. /\ y \in Processes /\ y.st = x.st /\ y.role = x.role /\ y.task = x.task /\ y.conn = x.conn
        /\ y.token = x.token /\ y.link = x.link
    BY <1>1, <1>2 DEF Processes, Election!BridgeElectionAssumption
  <2>3. x.st = "up" /\ x.link = NoProc /\ x.task["elect"] = "none"
    BY <1>2, <1>5 DEF Election!Nudge, Election!Up, Election!Doing
  <2> HIDE DEF y
  <2>4. Election!Goes(p, Election!Recovering(y))
    BY <2>1 DEF y
  <2> QED  BY <1>3, <2>1, <2>2, <2>3, <2>4
<1> QED
  BY <1>4, <1>5

(* A process that starts, and one that cleans up what it finds.             *)
LEMMA CleanKeeps ==
    ASSUME Electable, NEW p \in Servers, Election!Start(p) \/ Election!Clean(p) \/ Election!RemoveStale(p)
    PROVE  ElectionInv'
<1> DEFINE x == proc[p]
           Next1(k) == [x EXCEPT !.task["elect"] = k]
<1>1. /\ Sound(x) /\ x \in Processes /\ OneTask(x) /\ Electing(x) /\ Secondary(x)
      /\ Election!Alive(p) <=> x.st \notin {"off", "gone"}
      /\ HoldsPort(x) => port = p
      /\ port = p => HoldsPort(x) \/ x.st = "closing"
      /\ lock \in Servers \cup {NoProc} /\ port \in Servers \cup {NoProc}
      /\ ends \in 0 .. MaxEnds /\ MaxEnds \in Nat /\ NoProc \notin Servers
  BY OneProcess
<1>2. ElectionInv /\ Election!BridgeElectionAssumption
  BY DEF Electable
<1>3. ASSUME NEW k \in {"rm", "bind"}, x.task["elect"] \in {"clean", "rm"}, x.st \notin {"off", "gone"}
      PROVE  Sound(Next1(k)) /\ (HoldsPort(Next1(k)) <=> HoldsPort(x)) /\ Next1(k).st = x.st
  <2> DEFINE y == Next1(k)
  <2>1. /\ y \in Processes /\ y.st = x.st /\ y.role = x.role /\ y.conn = x.conn /\ y.token = x.token
        /\ y.link = x.link /\ y.task["elect"] = k /\ y.task["recover"] = x.task["recover"]
    BY <1>1 DEF Processes, Election!Tasks
  <2> HIDE DEF y, Next1
  <2>2. Sound(y) /\ (HoldsPort(y) <=> HoldsPort(x))
    BY <1>1, <1>3, <2>1 DEF Sound, OneTask, Electing, Secondary, HoldsPort
  <2> QED  BY <2>1, <2>2 DEF y
<1>4. CASE Election!Start(p)
  <2> DEFINE y == [Election!Off EXCEPT !.st = "up", !.task["elect"] = "clean"]
  <2>1. x = Election!Off /\ Election!Goes(p, y) /\ UNCHANGED <<port, lock, ends>>
    BY <1>1, <1>4 DEF Election!Start, Sound
  <2>2. /\ y \in Processes /\ y.st = "up" /\ y.role = "bootstrapping" /\ y.conn = "idle" /\ y.token = NoProc
        /\ y.link = NoProc /\ y.task["elect"] = "clean" /\ y.task["recover"] = "none"
    BY <1>1, <2>1 DEF Processes, Election!Off, Election!Tasks
  <2> HIDE DEF y
  <2>3. Sound(y) /\ ~HoldsPort(y)
    BY <2>2 DEF Sound, OneTask, Electing, Secondary, HoldsPort
  <2>4. ~HoldsPort(x) /\ x.st = "off"
    BY <2>1 DEF Election!Off, HoldsPort, Election!Tasks
  <2> QED  BY <1>1, <1>2, <2>1, <2>3, <2>4, OneGoes
<1>5. CASE Election!RemoveStale(p)
  <2>1. Election!Goes(p, Next1("bind")) /\ lock' = NoProc /\ UNCHANGED <<port, ends>>
    BY <1>5 DEF Election!RemoveStale
  <2>2. x.task["elect"] = "rm" /\ x.st \notin {"off", "gone"}
    BY <1>1, <1>5 DEF Election!RemoveStale, Election!Doing
  <2> HIDE DEF Next1
  <2>3. Sound(Next1("bind")) /\ (HoldsPort(Next1("bind")) <=> HoldsPort(x)) /\ Next1("bind").st = x.st
    BY <1>3, <2>2
  <2> QED  BY <1>1, <1>2, <2>1, <2>3, OneGoes
<1>6. CASE Election!Clean(p)
  <2>1. x.task["elect"] = "clean" /\ x.st \notin {"off", "gone"} /\ lock' = lock
    BY <1>1, <1>6 DEF Election!Clean, Election!Doing
  <2>2. ASSUME NEW k \in {"rm", "bind"}, Election!Goes(p, Next1(k)), UNCHANGED <<port, ends>>
        PROVE  ElectionInv'
    <3> HIDE DEF Next1
    <3>1. Sound(Next1(k)) /\ (HoldsPort(Next1(k)) <=> HoldsPort(x)) /\ Next1(k).st = x.st
      BY <1>3, <2>1
    <3> QED  BY <1>1, <1>2, <2>1, <2>2, <3>1, OneGoes
  <2>3. ASSUME port \notin {NoProc, p}, ends < MaxEnds, ends' = ends + 1, port' = NoProc,
               proc' = [proc EXCEPT ![port] = Election!Gone, ![p].task["elect"] = "rm"]
        PROVE  ElectionInv'
    <3> DEFINE q == port
    <3>1. q \in Servers /\ q # p
      BY <1>1, <2>3
    <3>2. proc \in [Servers -> Processes]
      BY <1>2 DEF ElectionInv
    <3>3. proc'[q] = Election!Gone /\ proc'[p] = Next1("rm") /\ \A r \in Servers \ {p, q} : proc'[r] = proc[r]
      BY <2>3, <3>1, <3>2
    <3> HIDE DEF Next1
    <3>4. Sound(Next1("rm")) /\ ~HoldsPort(Next1("rm"))
      BY <1>1, <1>3, <2>1, <3>1
    <3>5. Sound(Election!Gone) /\ ~HoldsPort(Election!Gone)
      BY <1>2, OffSound
    <3>6. \A r \in Servers : Sound(proc'[r]) /\ ~HoldsPort(proc'[r])
      BY <1>2, <3>1, <3>3, <3>4, <3>5 DEF ElectionInv
    <3>7. proc' \in [Servers -> Processes]
      <4>1. DOMAIN proc' = Servers
        BY <2>3, <3>2
      <4>2. proc' = [r \in Servers |-> proc'[r]]
        BY <2>3, <3>2
      <4>3. \A r \in Servers : proc'[r] \in Processes
        BY <3>6 DEF Sound
      <4> QED  BY <4>2, <4>3
    <3>8. ends' \in 0 .. MaxEnds /\ lock' \in Servers \cup {NoProc} /\ port' \in Servers \cup {NoProc}
      BY <1>1, <2>1, <2>3
    <3>9. \A r \in Servers : port' # r
      BY <1>1, <2>3
    <3> QED  BY <3>6, <3>7, <3>8, <3>9 DEF ElectionInv
  <2>4. \/ Election!Goes(p, Next1("rm")) /\ UNCHANGED <<port, ends>>
        \/ Election!Goes(p, Next1("bind")) /\ UNCHANGED <<port, ends>>
        \/ /\ port \notin {NoProc, p} /\ ends < MaxEnds /\ ends' = ends + 1 /\ port' = NoProc
           /\ proc' = [proc EXCEPT ![port] = Election!Gone, ![p].task["elect"] = "rm"]
    BY <1>6 DEF Election!Clean
  <2> QED  BY <2>2, <2>3, <2>4
<1> QED
  BY <1>4, <1>5, <1>6

(* The port is bound, by one process.                                      *)
LEMMA BindKeeps ==
    ASSUME Electable, NEW p \in Servers, NEW t \in Election!Tasks, Election!Bind(p, t) \/ Election!Bound(p, t)
    PROVE  ElectionInv'
<1> DEFINE x == proc[p]
<1>1. /\ Sound(x) /\ x \in Processes /\ OneTask(x) /\ Electing(x) /\ Secondary(x)
      /\ Election!Alive(p) <=> x.st \notin {"off", "gone"}
      /\ HoldsPort(x) => port = p
      /\ port = p => HoldsPort(x) \/ x.st = "closing"
      /\ lock \in Servers \cup {NoProc} /\ port \in Servers \cup {NoProc}
      /\ ends \in 0 .. MaxEnds /\ NoProc \notin Servers
  BY OneProcess
<1>2. ElectionInv /\ Election!BridgeElectionAssumption
  BY DEF Electable
<1>3. x.st \notin {"off", "gone"} /\ UNCHANGED <<lock, ends>> /\ x.task[t] \in {"bind", "bound"}
  BY <1>1 DEF Election!Bind, Election!Bound, Election!Doing
<1>4. x.role # "primary" /\ \A s \in Election!Tasks \ {t} : x.task[s] = "none"
  BY <1>1, <1>3 DEF OneTask, Election!Tasks
<1>5. Sound(Election!Join(x, t)) /\ ~HoldsPort(Election!Join(x, t)) /\ Election!Join(x, t).st = x.st
  BY <1>1, <1>3, JoinSound
<1>6. ASSUME NEW y \in Processes, y.st = x.st, y.conn = x.conn, y.token = x.token, y.link = x.link,
             \A s \in Election!Tasks \ {t} : y.task[s] = "none",
             \/ y.role = x.role /\ y.task[t] = "bound"
             \/ y.role = "primary" /\ y.task[t] = "none" /\ y.st = "up"
      PROVE  Sound(y) /\ HoldsPort(y)
  <2>1. OneTask(y) /\ Electing(y) /\ Secondary(y)
    BY <1>1, <1>3, <1>4, <1>6 DEF OneTask, Electing, Secondary, Election!Tasks
  <2> QED  BY <1>1, <1>3, <1>6, <2>1 DEF Sound, HoldsPort, Election!Tasks
<1>7. CASE Election!Bind(p, t)
  <2>1. x.task[t] = "bind"
    BY <1>7 DEF Election!Bind, Election!Doing
  <2>2. ~HoldsPort(x)
    BY <1>4, <2>1 DEF HoldsPort, Election!Tasks
  <2>3. CASE port = NoProc /\ ~Election!HandedOver(x)
    <3> DEFINE y == [x EXCEPT !.task[t] = "bound"]
    <3>1. port' = p /\ Election!Goes(p, y)
      BY <1>7, <2>3 DEF Election!Bind
    <3>2. /\ y \in Processes /\ y.st = x.st /\ y.role = x.role /\ y.conn = x.conn /\ y.token = x.token
          /\ y.link = x.link /\ y.task[t] = "bound" /\ \A s \in Election!Tasks \ {t} : y.task[s] = "none"
      BY <1>1, <1>4 DEF Processes, Election!Tasks
    <3> HIDE DEF y
    <3>3. Sound(y) /\ HoldsPort(y)
      BY <1>6, <3>2
    <3> QED  BY <1>1, <1>2, <1>3, <2>3, <3>1, <3>3, OneMoves
  <2>4. CASE ~(port = NoProc /\ ~Election!HandedOver(x))
    <3>1. Election!Goes(p, Election!Join(x, t)) /\ port' = port
      BY <1>7, <2>4 DEF Election!Bind
    <3> QED  BY <1>1, <1>2, <1>3, <1>5, <2>2, <3>1, OneGoes
  <2> QED  BY <2>3, <2>4
<1>8. CASE Election!Bound(p, t)
  <2>1. x.task[t] = "bound"
    BY <1>8 DEF Election!Bound, Election!Doing
  <2>2. HoldsPort(x) /\ port = p
    BY <1>1, <2>1 DEF HoldsPort, Election!Tasks
  <2>3. CASE Election!HandedOver(x)
    <3>1. port' = NoProc /\ Election!Goes(p, Election!Join(x, t))
      BY <1>8, <2>3 DEF Election!Bound
    <3> QED  BY <1>1, <1>2, <1>3, <1>5, <2>2, <3>1, OneMoves
  <2>4. CASE ~Election!HandedOver(x)
    <3> DEFINE y == [x EXCEPT !.role = "primary", !.task[t] = "none", !.write = TRUE]
    <3>1. port' = port /\ Election!Goes(p, y)
      BY <1>8, <2>4 DEF Election!Bound
    <3>2. /\ y \in Processes /\ y.st = x.st /\ y.role = "primary" /\ y.conn = x.conn /\ y.token = x.token
          /\ y.link = x.link /\ y.task[t] = "none" /\ \A s \in Election!Tasks \ {t} : y.task[s] = "none"
      BY <1>1, <1>4 DEF Processes, Election!Tasks, Election!Roles
    <3>3. x.st = "up"
      BY <2>4 DEF Election!HandedOver
    <3> HIDE DEF y
    <3>4. Sound(y) /\ HoldsPort(y)
      BY <1>6, <3>2, <3>3
    <3> QED  BY <1>1, <1>2, <1>3, <2>2, <3>1, <3>2, <3>4, OneGoes
  <2> QED  BY <2>3, <2>4
<1> QED
  BY <1>7, <1>8

(* The lock file.                                                          *)
LEMMA LockFileKeeps ==
    ASSUME Electable, NEW p \in Servers, Election!LockFile(p)
    PROVE  ElectionInv'
<1> DEFINE x == proc[p]
<1>1. /\ Sound(x) /\ x \in Processes /\ OneTask(x) /\ Electing(x) /\ Secondary(x)
      /\ Election!Alive(p) <=> x.st \notin {"off", "gone"}
      /\ lock \in Servers \cup {NoProc} /\ ends \in 0 .. MaxEnds
  BY OneProcess
<1>2. ElectionInv /\ Election!BridgeElectionAssumption
  BY DEF Electable
<1>3. PICK w \in BOOLEAN : Election!Goes(p, [x EXCEPT !.write = w]) /\ x.st \notin {"off", "gone"}
  BY <1>1 DEF Election!LockFile, Election!Reassert, Election!WriteLock, Election!Primary, Election!Up
<1>4. UNCHANGED <<port, ends>> /\ lock' \in {p, lock}
  BY DEF Election!LockFile, Election!Reassert, Election!WriteLock
<1> DEFINE y == [x EXCEPT !.write = w]
<1>5. /\ y \in Processes /\ y.st = x.st /\ y.role = x.role /\ y.conn = x.conn /\ y.token = x.token
      /\ y.link = x.link /\ y.task = x.task
  BY <1>1 DEF Processes
<1>6. Election!Goes(p, y)
  BY <1>3
<1> HIDE DEF y
<1>7. Sound(y) /\ (HoldsPort(y) <=> HoldsPort(x))
  BY <1>1, <1>3, <1>5 DEF Sound, OneTask, Electing, Secondary, HoldsPort
<1>8. lock' \in Servers \cup {NoProc} /\ ends' \in 0 .. MaxEnds
  BY <1>1, <1>4
<1> QED
  BY <1>2, <1>4, <1>5, <1>6, <1>7, <1>8, OneGoes

(* A process that is handed over closes, and processes end.                 *)
LEMMA EndKeeps ==
    ASSUME Electable, NEW p \in Servers,
           Election!HandOver(p) \/ Election!Closing(p) \/ Election!Exit(p) \/ Election!Kill(p)
    PROVE  ElectionInv'
<1> DEFINE x == proc[p]
<1>1. /\ Sound(x) /\ x \in Processes /\ OneTask(x) /\ Electing(x) /\ Secondary(x)
      /\ Election!Alive(p) <=> x.st \notin {"off", "gone"}
      /\ HoldsPort(x) => port = p
      /\ port = p => HoldsPort(x) \/ x.st = "closing"
      /\ lock \in Servers \cup {NoProc} /\ port \in Servers \cup {NoProc}
      /\ ends \in 0 .. MaxEnds /\ MaxEnds \in Nat /\ NoProc \notin Servers
  BY OneProcess
<1>2. ElectionInv /\ Election!BridgeElectionAssumption
  BY DEF Electable
<1>3. Election!Ends => ends' \in 0 .. MaxEnds
  BY <1>1 DEF Election!Ends
<1>4. ASSUME NEW s \in {"closing", "removing", "closed"}, NEW k \in {x.link, NoProc},
             x.st \in {"up", "closing", "removing"}
      PROVE  LET y == [x EXCEPT !.link = k, !.st = s]
             IN  Sound(y) /\ y.st = s /\ (HoldsPort(y) <=> Election!Binding(p))
  <2> DEFINE y == [x EXCEPT !.link = k, !.st = s]
  <2>1. /\ y \in Processes /\ y.st = s /\ y.role = x.role /\ y.task = x.task /\ y.conn = x.conn
        /\ y.token = x.token /\ y.link = k
    BY <1>1 DEF Processes
  <2> HIDE DEF y
  <2>2. Sound(y)
    BY <1>1, <1>4, <2>1 DEF Sound, OneTask, Electing, Secondary
  <2>3. HoldsPort(y) <=> Election!Binding(p)
    BY <1>4, <2>1 DEF HoldsPort, Election!Binding, Election!Doing, Election!Tasks
  <2> QED  BY <2>1, <2>2, <2>3 DEF y
<1>5. HoldsPort(x) <=> Election!Binding(p) \/ (x.st = "up" /\ x.role = "primary")
  BY DEF HoldsPort, Election!Binding, Election!Doing, Election!Tasks
<1>6. CASE Election!HandOver(p)
  <2>1. Election!Goes(p, [x EXCEPT !.st = "closing"]) /\ UNCHANGED <<port, lock>> /\ x.st = "up"
    BY <1>6 DEF Election!HandOver, Election!Up
  <2>2. [x EXCEPT !.st = "closing"] = [x EXCEPT !.link = x.link, !.st = "closing"]
    BY <1>1 DEF Processes
  <2> DEFINE y == [x EXCEPT !.link = x.link, !.st = "closing"]
  <2>3. Sound(y) /\ y.st = "closing" /\ (HoldsPort(y) <=> Election!Binding(p))
    BY <1>4, <2>1
  <2> HIDE DEF y
  <2>4. Election!Goes(p, y) /\ ends' \in 0 .. MaxEnds
    BY <1>3, <1>6, <2>1, <2>2 DEF y, Election!HandOver
  <2> QED  BY <1>1, <1>2, <1>5, <2>1, <2>3, <2>4, OneMoves
<1>7. CASE Election!Close(p)
  <2> DEFINE s == IF lock = p THEN "removing" ELSE "closed"
             y == [x EXCEPT !.link = NoProc, !.st = s]
  <2>1. /\ Election!Goes(p, y) /\ UNCHANGED <<lock, ends>> /\ x.st = "closing"
        /\ port' = IF port = p /\ ~Election!Binding(p) THEN NoProc ELSE port
    BY <1>7 DEF Election!Close
  <2>2. Sound(y) /\ (HoldsPort(y) <=> Election!Binding(p))
    BY <1>4, <2>1
  <2> HIDE DEF y
  <2> QED  BY <1>1, <1>2, <1>5, <2>1, <2>2, OneMoves
<1>8. CASE Election!RemoveOwn(p)
  <2>1. Election!Goes(p, [x EXCEPT !.st = "closed"]) /\ lock' = NoProc /\ UNCHANGED <<port, ends>>
        /\ x.st = "removing"
    BY <1>8 DEF Election!RemoveOwn
  <2>2. [x EXCEPT !.st = "closed"] = [x EXCEPT !.link = x.link, !.st = "closed"]
    BY <1>1 DEF Processes
  <2> DEFINE y == [x EXCEPT !.link = x.link, !.st = "closed"]
  <2>3. Sound(y) /\ (HoldsPort(y) <=> Election!Binding(p))
    BY <1>4, <2>1
  <2> HIDE DEF y
  <2>4. Election!Goes(p, y)
    BY <2>1, <2>2 DEF y
  <2> QED  BY <1>1, <1>2, <1>5, <2>1, <2>3, <2>4, OneMoves
<1>9. CASE Election!Exit(p) \/ Election!Kill(p)
  <2>1. Election!Goes(p, Election!Gone) /\ lock' = lock /\ port' = IF port = p THEN NoProc ELSE port
    BY <1>9 DEF Election!Exit, Election!Kill, Election!Exits, Election!Goes
  <2>2. ends' \in 0 .. MaxEnds
    BY <1>1, <1>3, <1>9 DEF Election!Exit, Election!Kill
  <2>3. Sound(Election!Gone) /\ ~HoldsPort(Election!Gone)
    BY <1>2, OffSound
  <2> QED  BY <1>1, <1>2, <2>1, <2>2, <2>3, OneMoves
<1> QED
  BY <1>6, <1>7, <1>8, <1>9 DEF Election!Closing

-----------------------------------------------------------------------------
(* BridgeElection: the property.                                           *)

(* At the start no process has the port.                                   *)
LEMMA InitElection == ASSUME Election!BridgeElectionAssumption, Election!Init PROVE ElectionInv
<1>1. Sound(Election!Off) /\ ~HoldsPort(Election!Off)
  BY OffSound
<1>2. \A p \in Servers : proc[p] = Election!Off /\ port # p
  BY DEF Election!Init, Election!BridgeElectionAssumption
<1>3. proc \in [Servers -> Processes]
  BY <1>1 DEF Election!Init, Sound
<1> QED
  BY <1>1, <1>2, <1>3 DEF Election!Init, ElectionInv, Election!BridgeElectionAssumption

(* Every step keeps the invariant.                                         *)
LEMMA StepElection ==
    ASSUME Election!BridgeElectionAssumption, ElectionInv, [Election!Next]_(Election!vars)
    PROVE  ElectionInv'
<1>1. Electable
  BY DEF Electable
<1>2. CASE UNCHANGED Election!vars
  BY <1>2 DEF Election!vars, ElectionInv
<1>3. ASSUME NEW p \in Servers, Election!Start(p) \/ Election!Clean(p) \/ Election!RemoveStale(p) PROVE ElectionInv'
  BY <1>1, <1>3, CleanKeeps
<1>4. ASSUME NEW p \in Servers, NEW t \in Election!Tasks, Election!Bind(p, t) \/ Election!Bound(p, t)
      PROVE  ElectionInv'
  BY <1>1, <1>4, BindKeeps
<1>5. ASSUME NEW p \in Servers, Election!Connection(p) \/ Election!CallConnects(p) PROVE ElectionInv'
  BY <1>1, <1>5, ConnectionKeeps
<1>6. ASSUME NEW p \in Servers, Election!LinkCloses(p) \/ Election!Nudge(p) PROVE ElectionInv'
  BY <1>1, <1>6, RecoversKeeps
<1>7. ASSUME NEW p \in Servers, Election!LockFile(p) PROVE ElectionInv'
  BY <1>1, <1>7, LockFileKeeps
<1>8. ASSUME NEW p \in Servers, Election!HandOver(p) \/ Election!Closing(p) \/ Election!Exit(p) \/ Election!Kill(p)
      PROVE  ElectionInv'
  BY <1>1, <1>8, EndKeeps
<1> QED
  BY <1>2, <1>3, <1>4, <1>5, <1>6, <1>7, <1>8 DEF Election!Next, Election!Task

(* The invariant says what the processes believe to be.                      *)
LEMMA ElectionImplies == ASSUME ElectionInv PROVE Election!RolesTrue
<1>1. Election!TypeOK
  BY DEF ElectionInv, Election!TypeOK, Processes
<1>2. ASSUME NEW p \in Servers
      PROVE  /\ Election!Primary(p) => port = p
             /\ Election!Up(p) /\ proc[p].role = "proxy" /\ proc[p].link = NoProc =>
                  \E t \in Election!Tasks : proc[p].task[t] # "none"
             /\ proc[p].st \in {"removing", "closed", "gone"} /\ ~Election!Binding(p) => port # p
             /\ Election!Up(p) /\ port = p
                /\ (\A t \in Election!Tasks : Election!Doing(p, t, "none")) => proc[p].role = "primary"
  <2>1. /\ Secondary(proc[p])
        /\ HoldsPort(proc[p]) => port = p
        /\ port = p => HoldsPort(proc[p]) \/ proc[p].st = "closing"
    BY DEF ElectionInv, Sound
  <2>2. Election!Primary(p) => port = p
    BY <2>1 DEF Election!Primary, Election!Up, HoldsPort
  <2>3. Election!Up(p) /\ proc[p].role = "proxy" /\ proc[p].link = NoProc =>
          \E t \in Election!Tasks : proc[p].task[t] # "none"
    BY <2>1 DEF Election!Up, Secondary, Election!Tasks
  <2>4. proc[p].st \in {"removing", "closed", "gone"} /\ ~Election!Binding(p) => port # p
    BY <2>1 DEF HoldsPort, Election!Binding, Election!Doing, Election!Tasks
  <2>5. Election!Up(p) /\ port = p
        /\ (\A t \in Election!Tasks : Election!Doing(p, t, "none")) => proc[p].role = "primary"
    BY <2>1 DEF HoldsPort, Election!Up, Election!Doing, Election!Tasks
  <2> QED  BY <2>2, <2>3, <2>4, <2>5
<1> QED
  BY <1>1, <1>2 DEF Election!RolesTrue, Election!OwnerIsPrimary

-----------------------------------------------------------------------------
(* WorkflowStore: the invariant.                                           *)

\* The states of a run or a change.
WriterRecords ==
    [pc : {"idle", "runs", "queued", "got", "loaded", "stored", "saved", "undoing", "over"},
     mine : Store!Contents, all : [Workflows -> Store!Contents], undo : SUBSET Replays]

\* Who is changing the map, and who has counted its run.
Changing == {"got", "loaded"}
Counting == {"stored", "saved", "undoing", "over"}

\* The chain holds the runs that are being persisted, each once, and only the first
\* of them is past the wait for its turn.
InTurn ==
    /\ chain \in Seq(Replays)
    /\ \A i, j \in 1 .. Len(chain) : chain[i] = chain[j] => i = j
    /\ \A r \in Replays :
         /\ Store!At(r, Changing \cup {"queued", "stored"}) <=> \E i \in 1 .. Len(chain) : chain[i] = r
         /\ Store!At(r, Changing \cup {"stored"}) => chain # <<>> /\ chain[1] = r

\* What the change rec of x is about to save: the map is as it was read, but for
\* one run more or for the edit.
Saves(x, b) ==
    LET w == wfs[OwnerOf[x]]
    IN  b.pc \in Changing =>
          /\ w.there
          /\ b.pc = "loaded" => b.all = wfs
          /\ x \in Replays => b.mine.there /\ b.mine.runs = w.runs + 1
          /\ x \in Replays \ Healing => b.mine.steps = w.steps
          /\ x \in Editors => b.mine = IF x \in Deleting THEN Store!Gone
                                         ELSE [w EXCEPT !.steps = @ \cup {x}]

\* A run that heals has the edits made so far, and none is made beside it.
Heals(x, b) ==
    x \in Healing /\ b.pc \notin {"idle", "over"} =>
        \A u \in Editors : OwnerOf[u] = OwnerOf[x] =>
            /\ ~Store!Going(u)
            /\ /\ b.pc \in Changing \cup {"runs", "queued"}
               /\ Store!At(u, {"over"}) /\ u \notin Deleting /\ wfs[OwnerOf[u]].there
               => u \in b.mine.steps

\* One writer at a time changes the map.
OneChanges == \A x, y \in Store!Writers : Store!At(x, Changing) /\ Store!At(y, Changing) => x = y

\* The inductive invariant.
StoreInv ==
    /\ wfs \in [Workflows -> Store!Contents] /\ undo \subseteq Replays
    /\ writer \in [Store!Writers -> WriterRecords]
    /\ \A u \in Editors : Store!At(u, {"idle", "got", "loaded", "over"})
    /\ InTurn /\ OneChanges
    /\ \A x \in Store!Writers : Saves(x, writer[x]) /\ Heals(x, writer[x])
    /\ Store!RunsCounted /\ Store!EditsKept

-----------------------------------------------------------------------------
(* WorkflowStore: lemmas.                                                  *)

(* Counting in the part is counting.                                        *)
LEMMA StoreCounts ==
    ASSUME NEW S
    PROVE  Store!Cardinality(S) = Cardinality(S) /\ (Store!IsFiniteSet(S) <=> IsFiniteSet(S))
<1>1. Store!Cardinality(S) = Cardinality(S)
  BY Zenon DEF Store!Cardinality, Cardinality
<1>2. Store!IsFiniteSet(S) <=> IsFiniteSet(S)
  BY Zenon DEF Store!IsFiniteSet, IsFiniteSet
<1> QED
  BY <1>1, <1>2

(* One run more that has finished.                                         *)
LEMMA OneMore ==
    ASSUME Store!IsFiniteSet(Replays), NEW S \in SUBSET Replays, NEW r \in Replays \ S
    PROVE  /\ Store!Cardinality(S \cup {r}) = Store!Cardinality(S) + 1 /\ Store!Cardinality(S) \in Nat
           /\ Store!Cardinality(S) + 1 \in 0 .. Store!Cardinality(Replays)
<1>0. IsFiniteSet(Replays)
  BY StoreCounts
<1>1. IsFiniteSet(S)
  BY <1>0, FS_Subset
<1>2. Cardinality(S \cup {r}) = Cardinality(S) + 1 /\ IsFiniteSet(S \cup {r})
  BY <1>1, FS_AddElement
<1>3. Cardinality(S) \in Nat /\ Cardinality(Replays) \in Nat
  BY <1>0, <1>1, FS_CardinalityType
<1>4. Cardinality(S \cup {r}) <= Cardinality(Replays)
  <2>1. S \cup {r} \subseteq Replays
    OBVIOUS
  <2> QED  BY <1>0, <2>1, <1>2, FS_Subset
<1> QED
  BY <1>2, <1>3, <1>4, StoreCounts

\* What is given where a step is looked at.
Storing == Store!WorkflowStoreAssumption /\ StoreInv

(* What the invariant says of one run or change.                             *)
LEMMA OneWriter ==
    ASSUME Storing, NEW x \in Store!Writers
    PROVE  /\ writer[x] \in WriterRecords /\ Saves(x, writer[x]) /\ Heals(x, writer[x])
           /\ OwnerOf[x] \in Workflows /\ wfs[OwnerOf[x]] \in Store!Contents
           /\ x \in Editors <=> x \notin Replays
           /\ x \in Editors => writer[x].pc \in {"idle", "got", "loaded", "over"}
BY DEF Storing, StoreInv, Store!WorkflowStoreAssumption, Store!Writers, Store!At

(* A step of one run or change that leaves the map as it is.                 *)
LEMMA WriterMoves ==
    ASSUME Storing, NEW x \in Store!Writers, NEW b \in WriterRecords, Store!Set(x, b), UNCHANGED wfs,
           undo' \subseteq Replays, InTurn',
           x \in Editors => b.pc \in Changing,
           \/ x \in Editors
           \/ b.pc \in Counting <=> writer[x].pc \in Counting
           \/ ~wfs[OwnerOf[x]].there,
           b.pc \in Changing => \A y \in Store!Writers \ {x} : ~Store!At(y, Changing),
           Saves(x, b), Heals(x, b),
           x \in Editors /\ ~Store!Going(x) => \A r \in Healing : OwnerOf[r] = OwnerOf[x] => ~Store!Going(r)
    PROVE  StoreInv'
<1>1. writer' = [writer EXCEPT ![x] = b] /\ writer \in [Store!Writers -> WriterRecords]
  BY DEF Store!Set, Storing, StoreInv
<1>2. writer' \in [Store!Writers -> WriterRecords] /\ writer'[x] = b
      /\ \A y \in Store!Writers : y # x => writer'[y] = writer[y]
  BY <1>1
<1>3. /\ Replays \subseteq Store!Writers /\ Editors \subseteq Store!Writers /\ Healing \subseteq Replays
      /\ Replays \cap Editors = {}
  BY DEF Storing, Store!WorkflowStoreAssumption, Store!Writers
<1>4. \A u \in Editors : Store!At(u, {"idle", "got", "loaded", "over"})'
  BY <1>2, <1>3 DEF Storing, StoreInv, Store!At, Changing
<1>5. OneChanges'
  BY <1>2 DEF Storing, StoreInv, OneChanges, Store!At
<1>6. ASSUME NEW y \in Store!Writers PROVE Saves(y, writer[y])' /\ Heals(y, writer[y])'
  <2>1. Saves(y, writer[y])'
    <3>1. CASE y = x
      BY <1>2, <3>1 DEF Saves
    <3>2. CASE y # x
      <4>1. Saves(y, writer[y])
        BY OneWriter
      <4> QED  BY <1>2, <3>2, <4>1 DEF Saves
    <3> QED  BY <3>1, <3>2
  <2>2. Heals(y, writer[y])'
    <3>1. ASSUME NEW u \in Editors, OwnerOf[u] = OwnerOf[y], y \in Healing, writer'[y].pc \notin {"idle", "over"}
          PROVE  /\ ~Store!Going(u)'
                 /\ writer'[y].pc \in Changing \cup {"runs", "queued"}
                    /\ Store!At(u, {"over"})' /\ u \notin Deleting /\ wfs'[OwnerOf[u]].there
                    => u \in writer'[y].mine.steps
      <4>1. CASE y = x
        <5>1. u # x
          BY <1>3, <4>1, <3>1
        <5> QED  BY <1>2, <1>3, <3>1, <4>1, <5>1 DEF Heals, Store!Going, Store!At
      <4>2. CASE y # x /\ u = x
        <5>1. Heals(y, writer[y])
          BY OneWriter
        <5>2. writer'[y] = writer[y] /\ Store!Going(y)
          BY <1>2, <3>1, <4>2 DEF Store!Going, Store!At
        <5>3. FALSE
          <6>1. Store!Going(x)
            BY <3>1, <4>2, <5>2
          <6> QED  BY <1>3, <3>1, <4>2, <5>1, <5>2, <6>1 DEF Heals, Store!Going, Store!At
        <5> QED  BY <5>3
      <4>3. CASE y # x /\ u # x
        <5>1. Heals(y, writer[y])
          BY OneWriter
        <5>2. writer'[y] = writer[y] /\ writer'[u] = writer[u]
          BY <1>2, <1>3, <4>3
        <5> QED  BY <3>1, <5>1, <5>2 DEF Heals, Store!Going, Store!At
      <4> QED  BY <4>1, <4>2, <4>3
    <3> QED  BY <3>1 DEF Heals
  <2> QED  BY <2>1, <2>2
<1>7. ASSUME NEW w \in Workflows, wfs'[w].there PROVE wfs'[w].runs = Store!Cardinality(Store!Finished(w)')
  <2>1. \A r \in Replays : OwnerOf[r] = w => (writer'[r].pc \in Counting <=> writer[r].pc \in Counting)
    BY <1>2, <1>3, <1>7 DEF Store!Writers
  <2>2. Store!Finished(w)' = Store!Finished(w)
    BY <2>1 DEF Store!Finished, Store!At, Counting
  <2> QED  BY <1>7, <2>2 DEF Storing, StoreInv, Store!RunsCounted
<1>8. Store!EditsKept'
  <2>1. \A u \in Editors : Store!At(u, {"over"})' => Store!At(u, {"over"})
    BY <1>2, <1>3 DEF Store!At, Changing
  <2> QED  BY <2>1 DEF Store!EditsKept, Storing, StoreInv
<1> QED
  BY <1>2, <1>4, <1>5, <1>6, <1>7, <1>8 DEF StoreInv, Store!RunsCounted, Storing

(* A step that moves a run, within or without the chain.                     *)
LEMMA TurnKept ==
    ASSUME Storing, NEW x \in Store!Writers, NEW b, Store!Set(x, b), UNCHANGED chain,
           x \in Replays => (b.pc \in Changing \cup {"queued", "stored"}
                                 <=> Store!At(x, Changing \cup {"queued", "stored"})),
           x \in Replays /\ b.pc \in Changing \cup {"stored"} => chain # <<>> /\ chain[1] = x
    PROVE  InTurn'
<1>1. \A y \in Store!Writers : writer'[y] = IF y = x THEN b ELSE writer[y]
  BY DEF Store!Set, Storing, StoreInv
<1>2. \A r \in Replays : r \in Store!Writers
  BY DEF Store!Writers
<1> QED
  BY <1>1, <1>2 DEF InTurn, Storing, StoreInv, Store!At

-----------------------------------------------------------------------------
(* WorkflowStore: runs.                                                    *)

(* A run takes its copy of the workflow.                                    *)
LEMMA StartsRight == ASSUME Storing, NEW r \in Replays, Store!Start(r) PROVE StoreInv'
<1> DEFINE b == [writer[r] EXCEPT !.pc = "runs", !.mine = wfs[OwnerOf[r]]]
<1>1. r \in Store!Writers
  BY DEF Store!Writers
<1>2. /\ writer[r] \in WriterRecords /\ OwnerOf[r] \in Workflows /\ wfs[OwnerOf[r]] \in Store!Contents
         /\ r \notin Editors
  BY <1>1, OneWriter
<1>3. /\ writer[r].pc = "idle" /\ Store!Set(r, b) /\ UNCHANGED <<wfs, undo, chain>>
      /\ r \in Healing => \A u \in Editors : ~Store!Going(u)
  BY <1>2 DEF Store!Start, Store!At, Store!Undisturbed, Storing
<1>4. b \in WriterRecords /\ b.pc = "runs" /\ b.mine = wfs[OwnerOf[r]]
  BY <1>2 DEF WriterRecords
<1> HIDE DEF b
<1>5. InTurn'
  BY <1>1, <1>3, <1>4, TurnKept DEF Store!At, Changing
<1>6. Saves(r, b)
  BY <1>4 DEF Saves, Changing
<1>7. Heals(r, b)
  BY <1>3, <1>4 DEF Heals, Store!EditsKept, Storing, StoreInv
<1>8. undo' \subseteq Replays
  BY <1>3 DEF Storing, StoreInv
<1> QED
  BY <1>1, <1>2, <1>3, <1>4, <1>5, <1>6, <1>7, <1>8, WriterMoves DEF Changing, Counting

(* A run ends and waits for its turn.                                       *)
LEMMA EndsRight == ASSUME Storing, NEW r \in Replays, Store!Ends(r) PROVE StoreInv'
<1> DEFINE b == [writer[r] EXCEPT !.pc = "queued"]
<1>1. r \in Store!Writers
  BY DEF Store!Writers
<1>2. writer[r] \in WriterRecords /\ r \notin Editors /\ Heals(r, writer[r])
  BY <1>1, OneWriter
<1>3. /\ writer[r].pc = "runs" /\ Store!Set(r, b) /\ UNCHANGED <<wfs, undo>> /\ chain' = Append(chain, r)
  BY DEF Store!Ends, Store!At
<1>4. b \in WriterRecords /\ b.pc = "queued" /\ b.mine = writer[r].mine
  BY <1>2 DEF WriterRecords
<1> HIDE DEF b
<1>5. InTurn'
  <2>1. chain \in Seq(Replays)
    BY DEF Storing, StoreInv, InTurn
  <2>2. /\ chain' \in Seq(Replays) /\ Len(chain') = Len(chain) + 1 /\ Len(chain) \in Nat
        /\ \A j \in 1 .. Len(chain) : chain'[j] = chain[j]
        /\ chain'[Len(chain) + 1] = r
    BY <1>3, <2>1, AppendFacts
  <2>3. \A j \in 1 .. Len(chain) : chain[j] # r
    BY <1>3 DEF Storing, StoreInv, InTurn, Store!At, Changing
  <2>4. \A j \in 1 .. Len(chain') : j \in 1 .. Len(chain) \/ j = Len(chain) + 1
    BY <2>2
  <2>5. \A i, j \in 1 .. Len(chain') : chain'[i] = chain'[j] => i = j
    BY <2>2, <2>3, <2>4 DEF Storing, StoreInv, InTurn
  <2>6. ASSUME NEW s \in Replays
        PROVE  Store!At(s, Changing \cup {"queued", "stored"})' <=> \E i \in 1 .. Len(chain') : chain'[i] = s
    <3>1. CASE s = r
      <4>1. writer'[s] = b
        BY <1>1, <1>3, <3>1 DEF Store!Set, Storing, StoreInv
      <4>2. Len(chain) + 1 \in 1 .. Len(chain')
        BY <2>2
      <4> QED  BY <1>4, <2>2, <3>1, <4>1, <4>2 DEF Store!At
    <3>2. CASE s # r
      <4>1. writer'[s] = writer[s]
        BY <1>1, <1>3, <3>2 DEF Store!Set, Storing, StoreInv
      <4>2. (\E i \in 1 .. Len(chain') : chain'[i] = s) <=> \E i \in 1 .. Len(chain) : chain[i] = s
        BY <2>2, <2>4, <3>2
      <4> QED  BY <4>1, <4>2 DEF Store!At, Storing, StoreInv, InTurn
    <3> QED  BY <3>1, <3>2
  <2>7. ASSUME NEW s \in Replays, Store!At(s, Changing \cup {"stored"})'
        PROVE  chain' # <<>> /\ chain'[1] = s
    <3>1. s # r
      <4>1. writer'[r] = b
        BY <1>1, <1>3 DEF Store!Set, Storing, StoreInv
      <4> QED  BY <1>4, <2>7, <4>1 DEF Store!At, Changing
    <3>2. writer'[s] = writer[s]
      BY <1>1, <1>3, <3>1 DEF Store!Set, Storing, StoreInv
    <3>3. chain # <<>> /\ chain[1] = s
      BY <2>7, <3>2 DEF Store!At, Storing, StoreInv, InTurn
    <3>4. 1 \in 1 .. Len(chain)
      BY <2>1, <3>3, TailFacts
    <3> QED  BY <2>2, <3>3, <3>4
  <2> QED  BY <2>2, <2>5, <2>6, <2>7 DEF InTurn
<1>6. Saves(r, b)
  BY <1>4 DEF Saves, Changing
<1>7. Heals(r, b)
  BY <1>2, <1>3, <1>4 DEF Heals
<1>8. undo' \subseteq Replays
  BY <1>3 DEF Storing, StoreInv
<1> QED
  BY <1>1, <1>2, <1>3, <1>4, <1>5, <1>6, <1>7, <1>8, WriterMoves DEF Changing, Counting

(* A run that has its turn reads the map.                                   *)
LEMMA GetsRight == ASSUME Storing, NEW r \in Replays, Store!Get(r) PROVE StoreInv'
<1> DEFINE w == wfs[OwnerOf[r]]
<1>1. r \in Store!Writers
  BY DEF Store!Writers
<1>2. /\ writer[r] \in WriterRecords /\ Heals(r, writer[r]) /\ r \notin Editors
      /\ OwnerOf[r] \in Workflows /\ w \in Store!Contents
  BY <1>1, OneWriter
<1>3. /\ writer[r].pc = "queued" /\ UNCHANGED <<wfs, undo, chain>> /\ Head(chain) = r
      /\ \A u \in Editors : ~Store!Going(u)
  BY <1>2 DEF Store!Get, Store!At, Store!MyTurn, Store!Undisturbed, Storing
<1>4. chain # <<>> /\ chain[1] = r
  <2>1. chain \in Seq(Replays) /\ \E i \in 1 .. Len(chain) : chain[i] = r
    BY <1>3 DEF Storing, StoreInv, InTurn, Store!At
  <2>2. chain # <<>>
    BY <2>1
  <2> QED  BY <1>3, <2>1, <2>2, TailFacts
<1>5. \A y \in Store!Writers \ {r} : ~Store!At(y, Changing)
  <2>1. ASSUME NEW y \in Replays, Store!At(y, Changing) PROVE y = r
    BY <1>4, <2>1 DEF Storing, StoreInv, InTurn, Store!At, Changing
  <2>2. ASSUME NEW y \in Editors PROVE ~Store!At(y, Changing)
    BY <1>3 DEF Store!Going, Store!At, Changing
  <2> QED  BY <2>1, <2>2 DEF Store!Writers
<1>6. /\ Store!Counted(r).there = w.there /\ Store!Counted(r).runs = w.runs + 1
      /\ Store!Counted(r).steps = IF r \in Healing THEN writer[r].mine.steps \cup {r} ELSE w.steps
      /\ Store!Counted(r) \in [there : {w.there}, runs : {w.runs + 1}, steps : {Store!Counted(r).steps}]
  <2> DEFINE s == IF r \in Healing THEN writer[r].mine.steps \cup {r} ELSE w.steps
  <2>1. Store!Counted(r) = [w EXCEPT !.runs = w.runs + 1, !.steps = s]
    BY <1>2 DEF Store!Counted, Store!Contents
  <2> HIDE DEF s, w
  <2>2. Store!Counted(r) = [there |-> w.there, runs |-> w.runs + 1, steps |-> s]
    BY <1>2, <2>1 DEF Store!Contents
  <2> QED  BY <2>2 DEF s
<1>7. undo' \subseteq Replays
  BY <1>3 DEF Storing, StoreInv
<1>8. CASE w.there
  <2> DEFINE b == [writer[r] EXCEPT !.pc = "got", !.mine = Store!Counted(r)]
  <2>1. Store!Set(r, b)
    BY <1>6, <1>8 DEF Store!Get
  <2>2. Store!Counted(r) \in Store!Contents
    <3>1. w.runs = Store!Cardinality(Store!Finished(OwnerOf[r]))
      BY <1>2, <1>8 DEF Storing, StoreInv, Store!RunsCounted
    <3>2. Store!Finished(OwnerOf[r]) \subseteq Replays /\ r \notin Store!Finished(OwnerOf[r])
      BY <1>3 DEF Store!Finished, Store!At
    <3>3. w.runs + 1 \in 0 .. Store!Cardinality(Replays)
      BY <3>1, <3>2, OneMore DEF Storing, Store!WorkflowStoreAssumption
    <3>4. writer[r].mine.steps \subseteq Store!Writers /\ w.steps \subseteq Store!Writers /\ w.there \in BOOLEAN
      BY <1>2 DEF WriterRecords, Store!Contents
    <3> QED  BY <1>1, <1>6, <3>3, <3>4 DEF Store!Contents
  <2>3. b \in WriterRecords /\ b.pc = "got" /\ b.mine = Store!Counted(r)
    BY <1>2, <2>2 DEF WriterRecords
  <2> HIDE DEF b
  <2>4. InTurn'
    BY <1>1, <1>3, <1>4, <2>1, <2>3, TurnKept DEF Store!At, Changing
  <2>5. Saves(r, b)
    BY <1>2, <1>6, <1>8, <2>3 DEF Saves
  <2>6. Heals(r, b)
    BY <1>2, <1>3, <1>6, <2>3 DEF Heals
  <2> QED
    BY <1>1, <1>2, <1>3, <1>5, <1>7, <2>1, <2>3, <2>4, <2>5, <2>6, WriterMoves DEF Changing, Counting
<1>9. CASE ~w.there
  <2> DEFINE b == [writer[r] EXCEPT !.pc = "stored"]
  <2>1. Store!Set(r, b)
    BY <1>6, <1>9 DEF Store!Get
  <2>2. b \in WriterRecords /\ b.pc = "stored"
    BY <1>2 DEF WriterRecords
  <2> HIDE DEF b
  <2>3. InTurn'
    BY <1>1, <1>3, <1>4, <2>1, <2>2, TurnKept DEF Store!At, Changing
  <2>4. Saves(r, b)
    BY <2>2 DEF Saves, Changing
  <2>5. Heals(r, b)
    BY <1>3, <2>2 DEF Heals, Changing
  <2> QED
    BY <1>1, <1>2, <1>3, <1>7, <1>9, <2>1, <2>2, <2>3, <2>4, <2>5, WriterMoves DEF Changing
<1> QED
  BY <1>8, <1>9

(* The next run has its turn.                                              *)
LEMMA LeavesRight == ASSUME Storing, NEW r \in Replays, Store!Leave(r) PROVE StoreInv'
<1> DEFINE b == [writer[r] EXCEPT !.pc = "saved"]
<1>1. r \in Store!Writers
  BY DEF Store!Writers
<1>2. writer[r] \in WriterRecords /\ r \notin Editors /\ Heals(r, writer[r])
  BY <1>1, OneWriter
<1>3. /\ writer[r].pc = "stored" /\ Store!Set(r, b) /\ UNCHANGED <<wfs, undo>> /\ chain' = Tail(chain)
  BY DEF Store!Leave, Store!At
<1>4. b \in WriterRecords /\ b.pc = "saved"
  BY <1>2 DEF WriterRecords
<1> HIDE DEF b
<1>5. InTurn'
  <2>1. chain \in Seq(Replays) /\ chain # <<>> /\ chain[1] = r
    BY <1>3 DEF Storing, StoreInv, InTurn, Store!At
  <2>2. /\ chain' \in Seq(Replays) /\ Len(chain') = Len(chain) - 1 /\ Len(chain) \in Nat /\ 1 \in 1 .. Len(chain)
        /\ \A j \in 1 .. Len(chain') : chain'[j] = chain[j + 1]
    BY <1>3, <2>1, TailFacts
  <2>3. \A j \in 1 .. Len(chain') : j + 1 \in 1 .. Len(chain) /\ j + 1 # 1
    BY <2>2
  <2>4. \A j \in 1 .. Len(chain) : j # 1 => j - 1 \in 1 .. Len(chain') /\ (j - 1) + 1 = j
    BY <2>2
  <2>5. \A i, j \in 1 .. Len(chain) : chain[i] = chain[j] => i = j
    BY DEF Storing, StoreInv, InTurn
  <2>6. \A i, j \in 1 .. Len(chain') : chain'[i] = chain'[j] => i = j
    <3>1. ASSUME NEW i \in 1 .. Len(chain'), NEW j \in 1 .. Len(chain'), chain'[i] = chain'[j]
          PROVE  i = j
      <4>1. i + 1 = j + 1
        BY <2>2, <2>3, <2>5, <3>1
      <4>2. i \in Nat /\ j \in Nat
        OBVIOUS
      <4> QED  BY <4>1, <4>2
    <3> QED  BY <3>1
  <2>7. ASSUME NEW s \in Replays
        PROVE  /\ Store!At(s, Changing \cup {"queued", "stored"})' <=> \E i \in 1 .. Len(chain') : chain'[i] = s
               /\ ~Store!At(s, Changing \cup {"stored"})'
    <3>1. CASE s = r
      <4>1. writer'[s] = b
        BY <1>1, <1>3, <3>1 DEF Store!Set, Storing, StoreInv
      <4>2. \A i \in 1 .. Len(chain') : chain'[i] # r
        BY <2>1, <2>2, <2>3, <2>5
      <4> QED  BY <1>4, <3>1, <4>1, <4>2 DEF Store!At, Changing
    <3>2. CASE s # r
      <4>1. writer'[s] = writer[s]
        BY <1>1, <1>3, <3>2 DEF Store!Set, Storing, StoreInv
      <4>2. (\E i \in 1 .. Len(chain') : chain'[i] = s) <=> \E i \in 1 .. Len(chain) : chain[i] = s
        <5>1. ASSUME NEW i \in 1 .. Len(chain'), chain'[i] = s PROVE \E j \in 1 .. Len(chain) : chain[j] = s
          BY <2>2, <2>3, <5>1
        <5>2. ASSUME NEW j \in 1 .. Len(chain), chain[j] = s PROVE \E i \in 1 .. Len(chain') : chain'[i] = s
          <6>1. j # 1
            BY <2>1, <3>2, <5>2
          <6>2. j - 1 \in 1 .. Len(chain') /\ (j - 1) + 1 = j
            BY <2>4, <6>1
          <6> QED  BY <2>2, <5>2, <6>2
        <5> QED  BY <5>1, <5>2
      <4>3. ~Store!At(s, Changing \cup {"stored"})
        BY <2>1, <3>2 DEF Storing, StoreInv, InTurn
      <4> QED  BY <4>1, <4>2, <4>3 DEF Store!At, Storing, StoreInv, InTurn
    <3> QED  BY <3>1, <3>2
  <2> QED  BY <2>2, <2>6, <2>7 DEF InTurn
<1>6. Saves(r, b)
  BY <1>4 DEF Saves, Changing
<1>7. Heals(r, b)
  BY <1>2, <1>3, <1>4 DEF Heals, Changing
<1>8. undo' \subseteq Replays
  BY <1>3 DEF Storing, StoreInv
<1> QED
  BY <1>1, <1>2, <1>3, <1>4, <1>5, <1>6, <1>7, <1>8, WriterMoves DEF Changing, Counting

(* The undo data.                                                          *)
LEMMA UndoRight == ASSUME Storing, NEW r \in Replays, Store!UndoRead(r) \/ Store!UndoWrite(r) PROVE StoreInv'
<1>1. r \in Store!Writers
  BY DEF Store!Writers
<1>2. writer[r] \in WriterRecords /\ r \notin Editors /\ Heals(r, writer[r])
  BY <1>1, OneWriter
<1>3. undo \subseteq Replays
  BY DEF Storing, StoreInv
<1>4. PICK b \in WriterRecords : Store!Set(r, b) /\ b.pc \in {"undoing", "over"}
  <2>1. CASE Store!UndoRead(r)
    <3>1. [writer[r] EXCEPT !.pc = "undoing", !.undo = undo] \in WriterRecords
      BY <1>2, <1>3 DEF WriterRecords
    <3> QED  BY <1>2, <2>1, <3>1 DEF Store!UndoRead, WriterRecords
  <2>2. CASE Store!UndoWrite(r)
    <3>1. [writer[r] EXCEPT !.pc = "over"] \in WriterRecords
      BY <1>2 DEF WriterRecords
    <3> QED  BY <1>2, <2>2, <3>1 DEF Store!UndoWrite, WriterRecords
  <2> QED  BY <2>1, <2>2
<1>5. UNCHANGED <<wfs, chain>> /\ writer[r].pc \in {"saved", "undoing"} /\ undo' \subseteq Replays
  BY <1>2, <1>3 DEF Store!UndoRead, Store!UndoWrite, Store!At, WriterRecords
<1>6. InTurn'
  BY <1>1, <1>4, <1>5, TurnKept DEF Store!At, Changing
<1>7. Saves(r, b)
  BY <1>4 DEF Saves, Changing
<1>8. Heals(r, b)
  BY <1>2, <1>4, <1>5 DEF Heals, Changing
<1> QED
  BY <1>1, <1>2, <1>4, <1>5, <1>6, <1>7, <1>8, WriterMoves DEF Changing, Counting

-----------------------------------------------------------------------------
(* WorkflowStore: changes of the map.                                      *)

(* An edit takes its copy of the workflow.                                  *)
LEMMA EditStarts == ASSUME Storing, NEW u \in Editors, Store!StartEdit(u) PROVE StoreInv'
<1> DEFINE mine == IF u \in Deleting THEN Store!Gone ELSE [wfs[OwnerOf[u]] EXCEPT !.steps = @ \cup {u}]
           b == [writer[u] EXCEPT !.pc = "got", !.mine = mine]
<1>1. u \in Store!Writers
  BY DEF Store!Writers
<1>2. writer[u] \in WriterRecords /\ u \notin Replays /\ u \notin Healing /\ OwnerOf[u] \in Workflows
      /\ wfs[OwnerOf[u]] \in Store!Contents
  BY <1>1, OneWriter DEF Storing, Store!WorkflowStoreAssumption
<1>3. /\ writer[u].pc = "idle" /\ wfs[OwnerOf[u]].there /\ Store!Set(u, b) /\ UNCHANGED <<wfs, undo, chain>>
      /\ \A y \in Editors : ~Store!Going(y)
      /\ \A r \in Replays : ~Store!At(r, {"got", "loaded"})
      /\ \A r \in Healing : Store!Going(r) => OwnerOf[r] # OwnerOf[u]
  BY DEF Store!StartEdit, Store!At, Store!Undisturbed, Storing
<1>4. mine \in Store!Contents
  <2>1. Store!Gone \in Store!Contents
    <3>1. Store!Cardinality(Replays) \in Nat
      BY FS_CardinalityType, StoreCounts DEF Storing, Store!WorkflowStoreAssumption
    <3> QED  BY <3>1 DEF Store!Gone, Store!Contents
  <2>2. [wfs[OwnerOf[u]] EXCEPT !.steps = @ \cup {u}] \in Store!Contents
    BY <1>1, <1>2 DEF Store!Contents
  <2> QED  BY <2>1, <2>2
<1>5. b \in WriterRecords /\ b.pc = "got" /\ b.mine = mine
  BY <1>2, <1>4 DEF WriterRecords
<1>6. \A y \in Store!Writers \ {u} : ~Store!At(y, Changing)
  BY <1>3 DEF Store!Writers, Store!Going, Store!At, Changing
<1>7. Saves(u, b)
  BY <1>2, <1>3, <1>5 DEF Saves
<1>8. Heals(u, b)
  BY <1>2 DEF Heals
<1> HIDE DEF b, mine
<1>9. InTurn'
  BY <1>1, <1>2, <1>3, TurnKept
<1>10. undo' \subseteq Replays /\ \A r \in Healing : OwnerOf[r] = OwnerOf[u] => ~Store!Going(r)
  BY <1>3 DEF Storing, StoreInv
<1> QED
  BY <1>1, <1>2, <1>3, <1>5, <1>6, <1>7, <1>8, <1>9, <1>10, WriterMoves DEF Changing

(* The map is read before it is saved.                                      *)
LEMMA LoadsRight == ASSUME Storing, NEW x \in Store!Writers, Store!LoadAll(x) PROVE StoreInv'
<1> DEFINE b == [writer[x] EXCEPT !.pc = "loaded", !.all = wfs]
<1>1. /\ writer[x] \in WriterRecords /\ Saves(x, writer[x]) /\ Heals(x, writer[x])
      /\ x \in Editors <=> x \notin Replays
      /\ wfs \in [Workflows -> Store!Contents]
  BY OneWriter DEF Storing, StoreInv
<1>2. writer[x].pc = "got" /\ Store!Set(x, b) /\ UNCHANGED <<wfs, undo, chain>>
  BY DEF Store!LoadAll, Store!At
<1>3. /\ b \in WriterRecords /\ b.pc = "loaded" /\ b.all = wfs /\ b.mine = writer[x].mine
  BY <1>1 DEF WriterRecords
<1> HIDE DEF b
<1>4. InTurn'
  <2>1. x \in Replays => chain # <<>> /\ chain[1] = x
    BY <1>2 DEF Storing, StoreInv, InTurn, Store!At, Changing
  <2> QED  BY <1>2, <1>3, <2>1, TurnKept DEF Store!At, Changing
<1>5. \A y \in Store!Writers \ {x} : ~Store!At(y, Changing)
  BY <1>2 DEF Storing, StoreInv, OneChanges, Store!At, Changing
<1>6. Saves(x, b)
  BY <1>1, <1>2, <1>3 DEF Saves, Changing
<1>7. Heals(x, b)
  BY <1>1, <1>2, <1>3 DEF Heals, Changing
<1>8. undo' \subseteq Replays /\ Store!Going(x)
  BY <1>2 DEF Storing, StoreInv, Store!Going, Store!At
<1> QED
  BY <1>1, <1>2, <1>3, <1>4, <1>5, <1>6, <1>7, <1>8, WriterMoves DEF Changing, Counting

(* The map is saved as a whole.                                             *)
LEMMA SavesRight == ASSUME Storing, NEW x \in Store!Writers, Store!SaveAll(x) PROVE StoreInv'
<1> DEFINE w == wfs[OwnerOf[x]]
           mine == writer[x].mine
           b == [writer[x] EXCEPT !.pc = IF x \in Editors THEN "over" ELSE "stored"]
<1>1. /\ writer[x] \in WriterRecords /\ Saves(x, writer[x]) /\ Heals(x, writer[x])
      /\ x \in Editors <=> x \notin Replays
      /\ OwnerOf[x] \in Workflows /\ w \in Store!Contents /\ mine \in Store!Contents
  BY OneWriter DEF WriterRecords
<1>2. writer[x].pc = "loaded" /\ Store!Set(x, b) /\ UNCHANGED <<undo, chain>> /\ writer[x].all = wfs
  BY <1>1 DEF Store!SaveAll, Store!At, Saves, Changing
<1>3. /\ b \in WriterRecords /\ b.mine = mine
      /\ b.pc = IF x \in Editors THEN "over" ELSE "stored"
  BY <1>1 DEF WriterRecords
<1>4. wfs \in [Workflows -> Store!Contents] /\ wfs' = [wfs EXCEPT ![OwnerOf[x]] = mine]
  BY <1>2 DEF Store!SaveAll, Storing, StoreInv
<1>5. wfs' \in [Workflows -> Store!Contents] /\ wfs'[OwnerOf[x]] = mine
      /\ \A v \in Workflows : v # OwnerOf[x] => wfs'[v] = wfs[v]
  BY <1>1, <1>4
<1>6. /\ w.there
      /\ x \in Replays => mine.there /\ mine.runs = w.runs + 1
      /\ x \in Replays \ Healing => mine.steps = w.steps
      /\ x \in Editors \ Deleting => mine.there = w.there /\ mine.runs = w.runs /\ mine.steps = w.steps \cup {x}
      /\ x \in Editors /\ x \in Deleting => ~mine.there
      /\ x \in Healing => \A u \in Editors : OwnerOf[u] = OwnerOf[x] =>
           ~Store!Going(u) /\ (Store!At(u, {"over"}) /\ u \notin Deleting => u \in mine.steps)
  <2>1. /\ w.there
        /\ x \in Replays => mine.there /\ mine.runs = w.runs + 1
        /\ x \in Replays \ Healing => mine.steps = w.steps
        /\ x \in Editors => mine = IF x \in Deleting THEN Store!Gone ELSE [w EXCEPT !.steps = @ \cup {x}]
    BY <1>1, <1>2 DEF Saves, Changing
  <2>2. x \in Editors \ Deleting => mine.there = w.there /\ mine.runs = w.runs /\ mine.steps = w.steps \cup {x}
    BY <1>1, <2>1 DEF Store!Contents
  <2>3. x \in Editors /\ x \in Deleting => ~mine.there
    BY <2>1 DEF Store!Gone
  <2>4. x \in Healing => \A u \in Editors : OwnerOf[u] = OwnerOf[x] =>
           ~Store!Going(u) /\ (Store!At(u, {"over"}) /\ u \notin Deleting => u \in mine.steps)
    BY <1>1, <1>2, <2>1 DEF Heals, Changing
  <2> QED  BY <2>1, <2>2, <2>3, <2>4
<1> HIDE DEF b, mine, w
<1>7. writer' = [writer EXCEPT ![x] = b] /\ writer \in [Store!Writers -> WriterRecords]
  BY <1>2 DEF Store!Set, Storing, StoreInv
<1>8. writer' \in [Store!Writers -> WriterRecords] /\ writer'[x] = b
      /\ \A y \in Store!Writers : y # x => writer'[y] = writer[y]
  BY <1>3, <1>7
<1>9. /\ Replays \subseteq Store!Writers /\ Editors \subseteq Store!Writers /\ Healing \subseteq Replays
      /\ Replays \cap Editors = {} /\ OwnerOf \in [Store!Writers -> Workflows]
  BY DEF Storing, Store!WorkflowStoreAssumption, Store!Writers
<1>10. \A u \in Editors : Store!At(u, {"idle", "got", "loaded", "over"})'
  BY <1>3, <1>8, <1>9 DEF Storing, StoreInv, Store!At
<1>11. \A y \in Store!Writers : ~Store!At(y, Changing)'
  <2>1. \A y \in Store!Writers : Store!At(y, Changing) => y = x
    BY <1>2 DEF Storing, StoreInv, OneChanges, Store!At, Changing
  <2> QED  BY <1>3, <1>8, <2>1 DEF Store!At, Changing
<1>12. InTurn'
  <2>1. x \in Replays => chain # <<>> /\ chain[1] = x
    BY <1>2 DEF Storing, StoreInv, InTurn, Store!At, Changing
  <2> QED  BY <1>1, <1>2, <1>3, <2>1, TurnKept DEF Store!At, Changing
<1>13. \A v \in Workflows : wfs'[v].there => wfs[v].there
  BY <1>1, <1>5, <1>6 DEF w
<1>14. Store!EditsKept'
  <2>1. ASSUME NEW u \in Editors, Store!At(u, {"over"})'
        PROVE  IF u \in Deleting THEN ~wfs'[OwnerOf[u]].there
               ELSE wfs'[OwnerOf[u]].there => u \in wfs'[OwnerOf[u]].steps
    <3>1. CASE u = x
      BY <1>5, <1>6, <3>1
    <3>2. CASE u # x
      <4>1. Store!At(u, {"over"})
        BY <1>8, <1>9, <2>1, <3>2 DEF Store!At
      <4>2. IF u \in Deleting THEN ~wfs[OwnerOf[u]].there
            ELSE wfs[OwnerOf[u]].there => u \in wfs[OwnerOf[u]].steps
        BY <4>1 DEF Storing, StoreInv, Store!EditsKept
      <4>3. CASE OwnerOf[u] # OwnerOf[x]
        BY <1>5, <1>9, <4>2, <4>3
      <4>4. CASE OwnerOf[u] = OwnerOf[x]
        BY <1>1, <1>5, <1>6, <4>1, <4>2, <4>4 DEF w
      <4> QED  BY <4>3, <4>4
    <3> QED  BY <3>1, <3>2
  <2> QED  BY <2>1 DEF Store!EditsKept
<1>15. Store!RunsCounted'
  <2>1. ASSUME NEW v \in Workflows, wfs'[v].there PROVE wfs'[v].runs = Store!Cardinality(Store!Finished(v)')
    <3>1. wfs[v].there /\ wfs[v].runs = Store!Cardinality(Store!Finished(v))
      BY <1>13, <2>1 DEF Storing, StoreInv, Store!RunsCounted
    <3>2. CASE x \in Replays /\ OwnerOf[x] = v
      <4>1. Store!Finished(v)' = Store!Finished(v) \cup {x}
        BY <1>3, <1>1, <1>8, <1>9, <3>2 DEF Store!Finished, Store!At
      <4>2. Store!Finished(v) \subseteq Replays /\ x \in Replays \ Store!Finished(v)
        BY <1>2, <3>2 DEF Store!Finished, Store!At
      <4>3. Store!Cardinality(Store!Finished(v) \cup {x}) = Store!Cardinality(Store!Finished(v)) + 1
        BY <4>2, OneMore DEF Storing, Store!WorkflowStoreAssumption
      <4> QED  BY <1>5, <1>6, <3>1, <3>2, <4>1, <4>3 DEF w
    <3>3. CASE ~(x \in Replays /\ OwnerOf[x] = v)
      <4>1. \A r \in Replays : OwnerOf[r] = v => writer'[r] = writer[r]
        BY <1>8, <1>9, <3>3
      <4>2. Store!Finished(v)' = Store!Finished(v)
        BY <4>1 DEF Store!Finished, Store!At
      <4>3. wfs'[v].runs = wfs[v].runs
        <5>1. CASE v # OwnerOf[x]
          BY <1>5, <5>1
        <5>2. CASE v = OwnerOf[x]
          BY <1>1, <1>5, <1>6, <2>1, <3>3, <5>2 DEF w
        <5> QED  BY <5>1, <5>2
      <4> QED  BY <3>1, <4>2, <4>3
    <3> QED  BY <3>2, <3>3
  <2> QED  BY <2>1 DEF Store!RunsCounted
<1>16. ASSUME NEW y \in Store!Writers PROVE Saves(y, writer[y])' /\ Heals(y, writer[y])'
  <2>1. Saves(y, writer[y])'
    BY <1>11 DEF Saves, Store!At
  <2>2. ASSUME NEW u \in Editors, OwnerOf[u] = OwnerOf[y], y \in Healing, writer'[y].pc \notin {"idle", "over"}
        PROVE  /\ ~Store!Going(u)'
               /\ writer'[y].pc \in Changing \cup {"runs", "queued"}
                  /\ Store!At(u, {"over"})' /\ u \notin Deleting /\ wfs'[OwnerOf[u]].there
                  => u \in writer'[y].mine.steps
    <3>1. Heals(y, writer[y])
      BY OneWriter
    <3>2. CASE y = x
      <4>1. u # x /\ writer'[u] = writer[u] /\ ~Store!Going(u)
        BY <1>6, <1>8, <1>9, <2>2, <3>2
      <4> QED  BY <1>1, <1>3, <1>8, <1>9, <2>2, <3>2, <4>1 DEF Store!Going, Store!At, Changing
    <3>3. CASE y # x /\ u = x
      <4>1. writer'[y] = writer[y] /\ Store!Going(x)
        BY <1>2, <1>8, <3>3 DEF Store!Going, Store!At
      <4> QED  BY <2>2, <3>1, <3>3, <4>1 DEF Heals
    <3>4. CASE y # x /\ u # x
      <4>1. writer'[y] = writer[y] /\ writer'[u] = writer[u]
        BY <1>8, <1>9, <3>4
      <4>2. wfs'[OwnerOf[u]].there => wfs[OwnerOf[u]].there
        BY <1>9, <1>13
      <4> QED  BY <2>2, <3>1, <4>1, <4>2 DEF Heals, Store!Going, Store!At
    <3> QED  BY <3>2, <3>3, <3>4
  <2>3. Heals(y, writer[y])'
    BY <2>2 DEF Heals
  <2> QED  BY <2>1, <2>3
<1>17. OneChanges' /\ undo' \subseteq Replays
  BY <1>2, <1>11 DEF OneChanges, Storing, StoreInv
<1> QED
  BY <1>5, <1>8, <1>10, <1>12, <1>14, <1>15, <1>16, <1>17 DEF StoreInv

-----------------------------------------------------------------------------
(* WorkflowStore: the invariant holds.                                     *)

(* At the start nothing has been counted.                                   *)
LEMMA InitStore == ASSUME Store!WorkflowStoreAssumption, Store!Init PROVE StoreInv
<1>1. Store!Cardinality(Replays) \in Nat
  BY FS_CardinalityType, StoreCounts DEF Store!WorkflowStoreAssumption
<1>2. Store!Fresh \in Store!Contents /\ Store!Gone \in Store!Contents
  BY <1>1 DEF Store!Fresh, Store!Gone, Store!Contents
<1>3. wfs \in [Workflows -> Store!Contents] /\ \A w \in Workflows : wfs[w] = Store!Fresh
  BY <1>2 DEF Store!Init
<1>4. writer \in [Store!Writers -> WriterRecords] /\ \A x \in Store!Writers : writer[x].pc = "idle"
  BY <1>2, <1>3 DEF Store!Init, WriterRecords
<1>5. Replays \subseteq Store!Writers /\ Editors \subseteq Store!Writers
  BY DEF Store!Writers
<1>6. InTurn
  BY <1>4, <1>5 DEF InTurn, Store!Init, Store!At, Changing
<1>7. OneChanges /\ \A x \in Store!Writers : Saves(x, writer[x]) /\ Heals(x, writer[x])
  BY <1>4 DEF OneChanges, Saves, Heals, Store!At, Changing
<1>8. Store!RunsCounted
  <2>1. \A w \in Workflows : Store!Finished(w) = {}
    BY <1>4, <1>5 DEF Store!Finished, Store!At
  <2>2. Store!Cardinality({}) = 0
    BY StoreCounts, FS_EmptySet
  <2>3. ASSUME NEW w \in Workflows PROVE wfs[w].runs = Store!Cardinality(Store!Finished(w))
    <3>1. wfs[w].runs = 0
      BY <1>3 DEF Store!Fresh
    <3>2. Store!Finished(w) = {}
      BY <2>1
    <3> QED  BY <2>2, <3>1, <3>2
  <2> QED  BY <2>3 DEF Store!RunsCounted
<1>9. Store!EditsKept
  BY <1>4, <1>5 DEF Store!EditsKept, Store!At
<1>10. (\A u \in Editors : Store!At(u, {"idle", "got", "loaded", "over"})) /\ undo \subseteq Replays
  BY <1>4, <1>5 DEF Store!At, Store!Init
<1> QED
  BY <1>3, <1>4, <1>6, <1>7, <1>8, <1>9, <1>10 DEF StoreInv

(* Every step keeps the invariant.                                         *)
LEMMA StepStore ==
    ASSUME Store!WorkflowStoreAssumption, StoreInv, [Store!Next]_(Store!vars)
    PROVE  StoreInv'
<1>1. Storing
  BY DEF Storing
<1>2. CASE UNCHANGED Store!vars
  BY <1>2 DEF Store!vars, StoreInv, InTurn, OneChanges, Saves, Heals, Store!RunsCounted, Store!EditsKept,
     Store!Finished, Store!Going, Store!At
<1>3. ASSUME NEW r \in Replays,
             Store!Start(r) \/ Store!Ends(r) \/ Store!Get(r) \/ Store!Leave(r) \/ Store!UndoRead(r)
             \/ Store!UndoWrite(r)
      PROVE  StoreInv'
  BY <1>1, <1>3, StartsRight, EndsRight, GetsRight, LeavesRight, UndoRight
<1>4. ASSUME NEW u \in Editors, Store!StartEdit(u) PROVE StoreInv'
  BY <1>1, <1>4, EditStarts
<1>5. ASSUME NEW x \in Store!Writers, Store!LoadAll(x) \/ Store!SaveAll(x) PROVE StoreInv'
  BY <1>1, <1>5, LoadsRight, SavesRight
<1> QED
  BY <1>2, <1>3, <1>4, <1>5 DEF Store!Next

(* The invariant says what is stored.                                      *)
LEMMA StoreImplies == ASSUME StoreInv PROVE Store!TypeOK /\ Store!StoreKept
<1>1. \A r \in Replays : Store!At(r, {"got", "loaded", "stored"}) => Head(chain) = r
  <2>1. ASSUME NEW r \in Replays, Store!At(r, {"got", "loaded", "stored"}) PROVE Head(chain) = r
    <3>1. chain \in Seq(Replays) /\ chain # <<>> /\ chain[1] = r
      BY <2>1 DEF StoreInv, InTurn, Store!At, Changing
    <3> QED  BY <3>1, TailFacts
  <2> QED  BY <2>1
<1>2. \A x \in Store!Writers : /\ writer[x].mine \in Store!Contents /\ writer[x].undo \subseteq Replays
                               /\ writer[x].all \in [Workflows -> Store!Contents]
  BY DEF StoreInv, WriterRecords
<1> QED
  BY <1>1, <1>2 DEF StoreInv, Store!TypeOK, Store!StoreKept

-----------------------------------------------------------------------------
(* RunHistory: the invariant.                                              *)

\* Types, with at most one write under way.
HistoryTypes ==
    /\ disk \in History!Lists /\ cache \in History!Lists /\ sig \in History!Lists /\ timer \in BOOLEAN
    /\ loading \in Seq(History!Lists) /\ Len(loading) <= 1
    /\ writes \in Seq(SUBSET Reports) /\ Len(writes) <= 1
    /\ events \in Seq(History!Lists)
    /\ clear \in [st : {"none", "removed", "waits", "done"}, waits : {0, 1}]
    /\ seen \in [Reports -> {"running", "kept", "cleared", "lost"}]
    /\ kills \in 0 .. 1

\* Without a list in memory nothing is written; and clearing waits for as many writes
\* as there are.
Pending ==
    /\ cache = NoList => ~timer /\ writes = <<>>
    /\ timer \/ writes # <<>> => Reports # {}
    /\ clear.waits = IF clear.st = "waits" THEN Len(writes) ELSE 0
    /\ clear.st = "waits" => History!With("kept") = {} /\ cache # NoList /\ sig # NoList

\* The last event on its way is that of the value in storage.
LastEvent == events # <<>> => events[Len(events)] = disk

\* The list in memory is the one that was written last or taken over, and what has
\* come since.
Signed ==
    sig # NoList => cache # NoList /\ sig \subseteq cache /\ cache \ sig \subseteq History!With("kept")

\* A report that is not stored waits for the timer or is being written.
ReportsKept ==
    clear.st \in {"none", "done"} =>
        /\ writes # <<>> => sig = writes[1] /\ events = <<>>
        /\ cache = NoList => History!With("kept") \subseteq History!List(disk)
        /\ cache = NoList /\ loading # <<>> => loading[1] = disk
        /\ cache # NoList /\ events = <<>> => History!With("kept") \subseteq cache
        /\ ~timer /\ writes = <<>> => History!With("kept") \subseteq History!List(disk)
        /\ ~timer /\ writes # <<>> => History!With("kept") \subseteq writes[1]
        /\ events # <<>> =>
             \/ History!With("kept") \subseteq History!List(disk)
             \/ sig # NoList /\ sig = History!List(disk) /\ Len(events) = 1 /\ History!With("kept") \subseteq cache

\* What was cleared is in no list that is or will be stored or taken over.
ClearedGone ==
    /\ clear.st = "waits" /\ events = <<>>
       => History!With("cleared") \cap History!List(cache) \subseteq History!List(disk)
    /\ clear.st = "done" =>
         /\ History!With("cleared") \cap History!List(disk) = {}
         /\ events = <<>> => History!With("cleared") \cap History!List(cache) = {}
         /\ writes # <<>> => History!With("cleared") \cap writes[1] = {}
         /\ cache = NoList /\ loading # <<>> => History!With("cleared") \cap History!List(loading[1]) = {}

\* The inductive invariant.
HistoryInv == HistoryTypes /\ Pending /\ LastEvent /\ Signed /\ ReportsKept /\ ClearedGone

-----------------------------------------------------------------------------
(* RunHistory: lemmas.                                                     *)

\* What is given where a step of the history is looked at.
Reporting == History!RunHistoryAssumption /\ HistoryInv

(* A stored value stands for a list, and no list is empty but by that.        *)
LEMMA ListFacts ==
    ASSUME History!RunHistoryAssumption, NEW v \in History!Lists
    PROVE  History!List(v) \in SUBSET Reports /\ History!List(v) # NoList /\ History!List(v) \in History!Lists
           /\ (v # NoList => History!List(v) = v)
BY DEF History!RunHistoryAssumption, History!Lists, History!List

(* A status says which runs are in it.                                     *)
LEMMA WithFacts ==
    /\ History!With("kept") \cap History!With("cleared") = {}
    /\ History!With("kept") \subseteq Reports /\ History!With("cleared") \subseteq Reports
BY DEF History!With

(* The one write under way.                                                *)
LEMMA OneWrite ==
    ASSUME Reporting, writes # <<>>
    PROVE  /\ Len(writes) = 1 /\ Head(writes) = writes[1] /\ Tail(writes) = <<>>
           /\ writes[1] \in SUBSET Reports /\ writes[1] \in History!Lists /\ writes[1] # NoList
           /\ History!List(writes[1]) = writes[1] /\ cache # NoList
<1>1. writes \in Seq(SUBSET Reports) /\ Len(writes) <= 1 /\ cache # NoList
  BY DEF Reporting, HistoryInv, HistoryTypes, Pending
<1>2. /\ Head(writes) = writes[1] /\ Tail(writes) \in Seq(SUBSET Reports)
      /\ Len(Tail(writes)) = Len(writes) - 1 /\ Len(writes) \in Nat /\ Len(writes) >= 1
      /\ writes[1] \in SUBSET Reports
  BY <1>1, HeadTailProperties, ElementOfSeq, LenProperties, EmptySeq
<1>3. Len(writes) = 1 /\ Tail(writes) = <<>>
  BY <1>1, <1>2, EmptySeq
<1>4. writes[1] \in History!Lists /\ writes[1] # NoList /\ History!List(writes[1]) = writes[1]
  BY <1>2 DEF Reporting, History!RunHistoryAssumption, History!Lists, History!List
<1> QED
  BY <1>1, <1>2, <1>3, <1>4

(* The next event, and those after it.                                      *)
LEMMA FirstEvent ==
    ASSUME Reporting, events # <<>>
    PROVE  /\ Head(events) \in History!Lists /\ Tail(events) \in Seq(History!Lists)
           /\ Tail(events) = <<>> => Head(events) = disk
           /\ Tail(events) # <<>> => Len(events) # 1 /\ Tail(events)[Len(Tail(events))] = disk
<1>1. events \in Seq(History!Lists) /\ events[Len(events)] = disk
  BY DEF Reporting, HistoryInv, HistoryTypes, LastEvent
<1>2. /\ Head(events) = events[1] /\ Head(events) \in History!Lists /\ Tail(events) \in Seq(History!Lists)
      /\ Len(Tail(events)) = Len(events) - 1 /\ Len(events) \in Nat
      /\ \A j \in 1 .. Len(Tail(events)) : Tail(events)[j] = events[j + 1]
  BY <1>1, TailFacts
<1>3. Tail(events) = <<>> => Len(events) = 1
  <2>1. Tail(events) = <<>> => Len(Tail(events)) = 0
    BY <1>2, EmptySeq
  <2> QED  BY <1>2, <2>1
<1>4. Tail(events) # <<>> => Len(Tail(events)) \in Nat \ {0}
  BY <1>2, EmptySeq, LenProperties
<1> QED
  BY <1>1, <1>2, <1>3, <1>4

(* What is stored is announced, if it is new.                               *)
LEMMA StoreFacts ==
    ASSUME Reporting, NEW v \in History!Lists, History!Store(v)
    PROVE  /\ disk' = v /\ events' \in Seq(History!Lists) /\ LastEvent'
           /\ events' = <<>> => events = <<>> /\ disk = v
           /\ events = <<>> /\ events' # <<>> => Len(events') = 1
<1>1. events \in Seq(History!Lists) /\ LastEvent
  BY DEF Reporting, HistoryInv, HistoryTypes
<1>2. CASE v = disk
  BY <1>1, <1>2 DEF History!Store, LastEvent
<1>3. CASE v # disk
  <2>1. events' = Append(events, v) /\ disk' = v
    BY <1>3 DEF History!Store
  <2>2. /\ events' \in Seq(History!Lists) /\ Len(events') = Len(events) + 1 /\ Len(events) \in Nat
        /\ events'[Len(events) + 1] = v
    BY <1>1, <2>1, AppendFacts
  <2>3. events' # <<>> /\ (events = <<>> => Len(events') = 1)
    BY <2>2, EmptySeq
  <2> QED  BY <2>1, <2>2, <2>3 DEF LastEvent
<1> QED
  BY <1>2, <1>3

(* The invariant starts.                                                   *)
LEMMA InitHistory == History!RunHistoryAssumption /\ History!Init => HistoryInv
<1> SUFFICES ASSUME History!RunHistoryAssumption, History!Init PROVE HistoryInv
  OBVIOUS
<1>1. /\ <<>> \in Seq(History!Lists) /\ <<>> \in Seq(SUBSET Reports) /\ Len(<<>>) = 0
  BY EmptySeq
<1>2. HistoryTypes
  <2>1. clear \in [st : {"none", "removed", "waits", "done"}, waits : {0, 1}] /\ kills \in 0 .. 1
    BY DEF History!Init, History!RunHistoryAssumption
  <2>2. Len(loading) <= 1 /\ Len(writes) <= 1
    BY <1>1 DEF History!Init
  <2>3. disk \in History!Lists /\ cache \in History!Lists /\ sig \in History!Lists /\ timer \in BOOLEAN
    BY DEF History!Init, History!Lists
  <2> QED  BY <1>1, <2>1, <2>2, <2>3 DEF History!Init, HistoryTypes
<1>3. History!With("kept") = {} /\ History!With("cleared") = {}
  BY DEF History!Init, History!With
<1> QED
  BY <1>2, <1>3 DEF History!Init, HistoryInv, Pending, LastEvent, Signed, ReportsKept, ClearedGone

-----------------------------------------------------------------------------
(* RunHistory: the steps.                                                  *)

(* A list is read.                                                         *)
LEMMA ListRead == ASSUME Reporting, History!LoadReads PROVE HistoryInv'
<1>1. disk \in History!Lists
  BY DEF Reporting, HistoryInv, HistoryTypes
<1>2. <<disk>> \in Seq(History!Lists) /\ Len(<<disk>>) = 1 /\ <<disk>>[1] = disk
  BY <1>1
<1>3. HistoryTypes'
  BY <1>2 DEF History!LoadReads, Reporting, HistoryInv, HistoryTypes
<1>4. History!With("kept")' = History!With("kept") /\ History!With("cleared")' = History!With("cleared")
      /\ History!List(disk)' = History!List(disk)
  BY DEF History!LoadReads, History!With, History!List
<1>5. Pending' /\ LastEvent' /\ Signed'
  BY <1>4 DEF History!LoadReads, Reporting, HistoryInv, Pending, LastEvent, Signed
<1>6. ReportsKept'
  BY <1>2, <1>4 DEF History!LoadReads, Reporting, HistoryInv, ReportsKept
<1>7. ClearedGone'
  BY <1>2, <1>4 DEF History!LoadReads, Reporting, HistoryInv, ClearedGone, History!List
<1> QED
  BY <1>3, <1>5, <1>6, <1>7 DEF HistoryInv

(* A list is taken over when none is there.                                  *)
LEMMA ListTaken == ASSUME Reporting, History!LoadReturns PROVE HistoryInv'
<1>1. loading[1] \in History!Lists /\ <<>> \in Seq(History!Lists) /\ Len(<<>>) = 0
  BY ElementOfSeq, EmptySeq, LenProperties DEF History!LoadReturns, Reporting, HistoryInv, HistoryTypes
<1>2. /\ cache # NoList => cache' = cache
      /\ cache = NoList => cache' = History!List(loading[1])
      /\ cache' # NoList /\ cache' \in History!Lists
  BY <1>1, ListFacts DEF History!LoadReturns, History!Loaded, Reporting, HistoryInv, HistoryTypes
<1>3. HistoryTypes'
  BY <1>1, <1>2 DEF History!LoadReturns, Reporting, HistoryInv, HistoryTypes
<1>4. /\ History!With("kept")' = History!With("kept") /\ History!With("cleared")' = History!With("cleared")
      /\ History!List(disk)' = History!List(disk) /\ History!List(cache') = cache'
  BY <1>2 DEF History!LoadReturns, History!With, History!List
<1>5. Pending' /\ LastEvent' /\ Signed'
  BY <1>2, <1>4 DEF History!LoadReturns, Reporting, HistoryInv, Pending, LastEvent, Signed
<1>6. ReportsKept'
  BY <1>2, <1>4 DEF History!LoadReturns, Reporting, HistoryInv, ReportsKept, Signed
<1>7. ClearedGone'
  <2>1. cache # NoList => History!List(cache)' = History!List(cache)
    BY <1>2 DEF History!List
  <2>2. cache = NoList => clear.st # "waits" /\ History!List(cache)' = History!List(loading[1])
    BY <1>2, <1>4 DEF Reporting, HistoryInv, Pending, History!List
  <2> QED  BY <1>2, <1>4, <2>1, <2>2 DEF History!LoadReturns, Reporting, HistoryInv, ClearedGone
<1> QED
  BY <1>3, <1>5, <1>6, <1>7 DEF HistoryInv

(* A run finishes.                                                         *)
LEMMA RunReported == ASSUME Reporting, NEW r \in Reports, History!Push(r) PROVE HistoryInv'
<1>1. cache \in SUBSET Reports /\ cache # NoList /\ events = <<>> /\ clear.st # "waits"
  BY DEF History!Push, History!Quiet, Reporting, HistoryInv, HistoryTypes, History!Lists
<1>2. /\ cache' = cache \cup {r} /\ cache' \in SUBSET Reports /\ cache' \in History!Lists /\ cache' # NoList
      /\ History!List(cache) = cache /\ History!List(cache') = cache'
  BY <1>1 DEF History!Push, History!Lists, History!List, Reporting, History!RunHistoryAssumption
<1>3. History!With("kept")' = History!With("kept") \cup {r} /\ History!With("cleared")' = History!With("cleared")
      /\ r \notin History!With("cleared")
  BY DEF History!Push, History!With, Reporting, HistoryInv, HistoryTypes
<1>4. HistoryTypes'
  BY <1>2 DEF History!Push, Reporting, HistoryInv, HistoryTypes
<1>5. Pending' /\ LastEvent' /\ Signed'
  BY <1>1, <1>2, <1>3 DEF History!Push, Reporting, HistoryInv, Pending, LastEvent, Signed
<1>6. ReportsKept'
  BY <1>1, <1>2, <1>3 DEF History!Push, Reporting, HistoryInv, ReportsKept
<1>7. ClearedGone'
  <2>1. History!List(disk)' = History!List(disk) /\ History!List(cache)' = cache \cup {r}
    BY <1>2 DEF History!Push, History!List
  <2> QED  BY <1>1, <1>2, <1>3, <2>1 DEF History!Push, Reporting, HistoryInv, ClearedGone
<1> QED
  BY <1>4, <1>5, <1>6, <1>7 DEF HistoryInv

(* A write is started.                                                     *)
LEMMA WriteStarted == ASSUME Reporting, History!Flush PROVE HistoryInv'
<1>1. cache \in SUBSET Reports /\ cache \in History!Lists /\ cache # NoList /\ History!List(cache) = cache
      /\ writes = <<>>
      /\ events = <<>> /\ clear.st # "waits"
  BY DEF History!Flush, History!Written, History!Quiet, Reporting, HistoryInv, HistoryTypes, History!Lists,
     History!List
<1>2. writes' = <<cache>> /\ writes' \in Seq(SUBSET Reports) /\ Len(writes') = 1 /\ writes' # <<>>
      /\ writes'[1] = cache
  <2>1. writes' = <<cache>>
    BY <1>1 DEF History!Flush
  <2> QED  BY <1>1, <2>1
<1>3. History!With("kept")' = History!With("kept") /\ History!With("cleared")' = History!With("cleared")
      /\ History!List(disk)' = History!List(disk) /\ History!List(cache)' = History!List(cache)
  BY DEF History!Flush, History!With, History!List
<1>4. HistoryTypes'
  <2>1. Len(writes') <= 1
    BY <1>2
  <2> QED  BY <1>1, <1>2, <2>1 DEF History!Flush, Reporting, HistoryInv, HistoryTypes
<1>5. Pending' /\ LastEvent' /\ Signed'
  BY <1>1, <1>2, <1>3 DEF History!Flush, Reporting, HistoryInv, Pending, LastEvent, Signed
<1>6. ReportsKept'
  BY <1>1, <1>2, <1>3 DEF History!Flush, Reporting, HistoryInv, ReportsKept
<1>7. ClearedGone'
  BY <1>1, <1>2, <1>3 DEF History!Flush, Reporting, HistoryInv, ClearedGone
<1> QED
  BY <1>4, <1>5, <1>6, <1>7 DEF HistoryInv

(* A write lands.                                                          *)
LEMMA ListStored == ASSUME Reporting, History!WriteLands PROVE HistoryInv'
<1> DEFINE w == writes[1]
<1>1. /\ writes # <<>> /\ Len(writes) = 1 /\ Head(writes) = w /\ writes' = <<>>
      /\ w \in SUBSET Reports /\ w \in History!Lists /\ w # NoList /\ History!List(w) = w /\ cache # NoList
  BY OneWrite DEF History!WriteLands
<1>2. /\ disk' = w /\ events' \in Seq(History!Lists) /\ LastEvent'
      /\ events' = <<>> => events = <<>> /\ disk = w
      /\ events = <<>> /\ events' # <<>> => Len(events') = 1
  <2>1. History!Store(w)
    BY <1>1 DEF History!WriteLands
  <2> QED  BY <1>1, <2>1, StoreFacts
<1>3. /\ History!With("kept")' = History!With("kept") /\ History!With("cleared")' = History!With("cleared")
      /\ History!List(disk)' = w /\ History!List(cache)' = History!List(cache)
  BY <1>1, <1>2 DEF History!WriteLands, History!With, History!List
<1>4. /\ clear'.st = clear.st /\ clear'.waits = 0
      /\ clear' \in [st : {"none", "removed", "waits", "done"}, waits : {0, 1}]
  BY <1>1 DEF History!WriteLands, Reporting, HistoryInv, HistoryTypes, Pending
<1>5. HistoryTypes'
  <2>1. writes' \in Seq(SUBSET Reports) /\ Len(writes') <= 1
    BY <1>1, EmptySeq
  <2> QED  BY <1>1, <1>2, <1>4, <2>1 DEF History!WriteLands, Reporting, HistoryInv, HistoryTypes
<1>6. Pending'
  <2>1. Len(writes') = 0
    BY <1>1
  <2> QED  BY <1>1, <1>3, <1>4, <2>1 DEF History!WriteLands, Reporting, HistoryInv, Pending
<1>7. Signed'
  BY <1>3 DEF History!WriteLands, Reporting, HistoryInv, Signed
<1>8. ReportsKept'
  <2> HIDE DEF w
  <2> SUFFICES ASSUME clear.st \in {"none", "done"}
               PROVE  /\ events' = <<>> => History!With("kept") \subseteq cache
                      /\ ~timer => History!With("kept") \subseteq w
                      /\ events' # <<>> => sig # NoList /\ sig = w /\ Len(events') = 1
                         /\ History!With("kept") \subseteq cache
    BY <1>1, <1>3, <1>4 DEF History!WriteLands, ReportsKept
  <2> QED  BY <1>1, <1>2 DEF w, Reporting, HistoryInv, ReportsKept
<1>9. ClearedGone'
  BY <1>1, <1>2, <1>3, <1>4 DEF History!WriteLands, Reporting, HistoryInv, ClearedGone
<1> QED
  BY <1>2, <1>5, <1>6, <1>7, <1>8, <1>9 DEF HistoryInv

(* A storage event is taken for an own write, or its list is taken over.      *)
LEMMA EventHeard == ASSUME Reporting, History!Event PROVE HistoryInv'
<1> DEFINE v == Head(events)
<1>1. /\ events # <<>> /\ v \in History!Lists /\ events' = Tail(events) /\ events' \in Seq(History!Lists)
      /\ events' = <<>> => v = disk
      /\ events' # <<>> => Len(events) # 1 /\ events'[Len(events')] = disk
  BY FirstEvent DEF History!Event
<1>2. /\ disk' = disk /\ loading' = loading /\ timer' = timer /\ writes' = writes /\ clear' = clear
      /\ seen' = seen /\ kills' = kills
  BY DEF History!Event
<1>3. History!List(v) \in SUBSET Reports /\ History!List(v) # NoList /\ History!List(v) \in History!Lists
  BY <1>1, ListFacts DEF Reporting
<1>4. \/ History!Own(v) /\ cache' = cache /\ sig' = sig
      \/ ~History!Own(v) /\ cache' = History!List(v) /\ sig' = History!List(v)
  BY DEF History!Event
<1> HIDE DEF v
<1>5. HistoryTypes'
  BY <1>1, <1>2, <1>3, <1>4 DEF Reporting, HistoryInv, HistoryTypes
<1>6. History!With("kept")' = History!With("kept") /\ History!With("cleared")' = History!With("cleared")
      /\ History!List(disk)' = History!List(disk)
  BY <1>2 DEF History!With, History!List
<1>7. Pending'
  BY <1>2, <1>3, <1>4, <1>6 DEF Reporting, HistoryInv, Pending
<1>8. LastEvent'
  BY <1>1, <1>2 DEF LastEvent
<1>9. Signed'
  BY <1>3, <1>4, <1>6 DEF Reporting, HistoryInv, Signed
<1>10. ReportsKept'
  <2> SUFFICES ASSUME clear.st \in {"none", "done"}
               PROVE  ReportsKept'
    BY <1>2 DEF ReportsKept
  <2>1. writes = <<>>
    BY <1>1 DEF Reporting, HistoryInv, ReportsKept
  <2>2. /\ cache' = NoList => cache = NoList
        /\ cache = NoList => History!With("kept") \subseteq History!List(disk)
        /\ cache = NoList /\ loading # <<>> => loading[1] = disk
        /\ ~timer => History!With("kept") \subseteq History!List(disk)
    BY <1>3, <1>4, <2>1 DEF Reporting, HistoryInv, ReportsKept
  <2>3. CASE History!With("kept") \subseteq History!List(disk)
    <3>1. cache' # NoList /\ events' = <<>> => History!With("kept") \subseteq cache'
      BY <1>1, <1>4, <2>3 DEF History!Own, Reporting, HistoryInv, Signed
    <3> QED  BY <1>2, <1>6, <2>1, <2>2, <2>3, <3>1 DEF ReportsKept
  <2>4. CASE sig # NoList /\ sig = History!List(disk) /\ Len(events) = 1 /\ History!With("kept") \subseteq cache
    <3>1. events' = <<>> /\ History!Own(v) /\ cache' = cache
      BY <1>1, <1>4, <2>4 DEF History!Own
    <3> QED  BY <1>2, <1>6, <2>1, <2>2, <2>4, <3>1 DEF ReportsKept
  <2> QED  BY <1>1, <2>3, <2>4 DEF Reporting, HistoryInv, ReportsKept
<1>11. ClearedGone'
  <2>1. CASE History!Own(v)
    <3>1. History!List(cache)' = History!List(cache) /\ cache' = cache /\ sig # NoList /\ History!List(v) = sig
          /\ History!List(cache) = cache
      BY <1>4, <2>1 DEF History!Own, History!List, Reporting, HistoryInv, Signed
    <3>2. cache \ sig \subseteq History!With("kept") /\ sig \subseteq cache
      BY <3>1 DEF Reporting, HistoryInv, Signed
    <3>3. ASSUME clear.st = "waits", events' = <<>>
          PROVE  History!With("cleared") \cap History!List(cache) \subseteq History!List(disk)
      BY <1>1, <3>1, <3>2, <3>3, WithFacts
    <3>4. ASSUME clear.st = "done", events' = <<>> PROVE History!With("cleared") \cap History!List(cache) = {}
      <4>1. History!With("cleared") \cap History!List(disk) = {}
        BY <3>4 DEF Reporting, HistoryInv, ClearedGone
      <4> QED  BY <1>1, <3>1, <3>2, <3>4, <4>1, WithFacts
    <3> QED  BY <1>2, <1>6, <3>1, <3>3, <3>4 DEF Reporting, HistoryInv, ClearedGone
  <2>2. CASE ~History!Own(v)
    <3>1. cache' = History!List(v) /\ History!List(cache)' = History!List(v)
      BY <1>3, <1>4, <2>2 DEF History!List
    <3>2. cache' # NoList
      BY <1>3, <3>1
    <3> QED  BY <1>1, <1>2, <1>6, <3>1, <3>2 DEF Reporting, HistoryInv, ClearedGone
  <2> QED  BY <2>1, <2>2
<1> QED
  BY <1>5, <1>7, <1>8, <1>9, <1>10, <1>11 DEF HistoryInv

(* The popup removes the history.                                            *)
LEMMA KeyRemoved == ASSUME Reporting, History!ClearStarts PROVE HistoryInv'
<1>1. NoList \in History!Lists
  BY DEF History!Lists
<1>2. disk' = NoList /\ events' \in Seq(History!Lists) /\ LastEvent'
  BY <1>1, StoreFacts DEF History!ClearStarts
<1>3. /\ clear'.st = "removed" /\ clear'.waits = clear.waits /\ clear.st = "none"
      /\ clear' \in [st : {"none", "removed", "waits", "done"}, waits : {0, 1}]
  BY DEF History!ClearStarts, Reporting, HistoryInv, HistoryTypes
<1>4. HistoryTypes'
  BY <1>1, <1>2, <1>3 DEF History!ClearStarts, Reporting, HistoryInv, HistoryTypes
<1>5. History!With("kept")' = History!With("kept")
  BY DEF History!ClearStarts, History!With
<1>6. Pending' /\ Signed'
  BY <1>3, <1>5 DEF History!ClearStarts, Reporting, HistoryInv, Pending, Signed
<1>7. ReportsKept' /\ ClearedGone'
  BY <1>3 DEF ReportsKept, ClearedGone
<1> QED
  BY <1>2, <1>4, <1>6, <1>7 DEF HistoryInv

(* The engine gives up what there is.                                       *)
LEMMA ReportsCleared == ASSUME Reporting, History!ClearEngine PROVE HistoryInv'
<1>1. writes \in Seq(SUBSET Reports) /\ Len(writes) \in {0, 1}
  <2>1. writes \in Seq(SUBSET Reports) /\ Len(writes) <= 1
    BY DEF Reporting, HistoryInv, HistoryTypes
  <2>2. Len(writes) \in Nat
    BY <2>1, LenProperties
  <2>3. \A n \in Nat : n <= 1 => n \in {0, 1}
    OBVIOUS
  <2> QED  BY <2>1, <2>2, <2>3
<1>2. /\ clear' = [st |-> "waits", waits |-> Len(writes)]
      /\ clear' \in [st : {"none", "removed", "waits", "done"}, waits : {0, 1}]
  BY <1>1 DEF History!ClearEngine
<1>3. seen' \in [Reports -> {"running", "kept", "cleared", "lost"}] /\ History!With("kept")' = {}
  BY DEF History!ClearEngine, History!With, Reporting, HistoryInv, HistoryTypes
<1>4. /\ cache' = {} /\ sig' = {} /\ {} # NoList /\ {} \in History!Lists /\ ~timer' /\ timer' \in BOOLEAN
      /\ History!List(cache)' = {}
  BY DEF History!ClearEngine, Reporting, History!RunHistoryAssumption, History!Lists, History!List
<1>5. HistoryTypes'
  BY <1>2, <1>3, <1>4 DEF History!ClearEngine, Reporting, HistoryInv, HistoryTypes
<1>6. Pending' /\ LastEvent' /\ Signed'
  BY <1>2, <1>3, <1>4 DEF History!ClearEngine, Reporting, HistoryInv, Pending, LastEvent, Signed
<1>7. ReportsKept' /\ ClearedGone'
  BY <1>2, <1>4 DEF ReportsKept, ClearedGone
<1> QED
  BY <1>5, <1>6, <1>7 DEF HistoryInv

(* The key is removed again.                                               *)
LEMMA KeyRemovedAgain == ASSUME Reporting, History!ClearRemoves PROVE HistoryInv'
<1>1. NoList \in History!Lists
  BY DEF History!Lists
<1>2. /\ disk' = NoList /\ events' \in Seq(History!Lists) /\ LastEvent'
      /\ events' = <<>> => events = <<>> /\ disk = NoList
  BY <1>1, StoreFacts DEF History!ClearRemoves
<1>3. /\ clear'.st = "done" /\ clear'.waits = 0 /\ clear.st = "waits" /\ clear.waits = 0
      /\ clear' \in [st : {"none", "removed", "waits", "done"}, waits : {0, 1}]
  BY DEF History!ClearRemoves, History!WritesOver, Reporting, HistoryInv, HistoryTypes
<1>4. writes = <<>> /\ History!With("kept") = {} /\ cache # NoList
  BY <1>3, EmptySeq DEF Reporting, HistoryInv, HistoryTypes, Pending
<1>5. HistoryTypes'
  BY <1>1, <1>2, <1>3 DEF History!ClearRemoves, Reporting, HistoryInv, HistoryTypes
<1>6. /\ History!With("kept")' = {} /\ History!With("cleared")' = History!With("cleared") /\ History!List(disk)' = {}
      /\ History!List(cache)' = History!List(cache)
  BY <1>2, <1>4 DEF History!ClearRemoves, History!With, History!List
<1>7. Pending' /\ Signed'
  BY <1>3, <1>4, <1>6 DEF History!ClearRemoves, Reporting, HistoryInv, Pending, Signed
<1>8. ReportsKept'
  BY <1>4, <1>6 DEF History!ClearRemoves, ReportsKept
<1>9. ClearedGone'
  <2>1. events' = <<>> => History!With("cleared") \cap History!List(cache) = {}
    <3>1. History!List(NoList) = {}
      BY DEF History!List
    <3> QED  BY <1>2, <1>3, <3>1 DEF Reporting, HistoryInv, ClearedGone
  <2> QED  BY <1>3, <1>4, <1>6, <2>1 DEF History!ClearRemoves, ClearedGone
<1> QED
  BY <1>2, <1>5, <1>7, <1>8, <1>9 DEF HistoryInv

(* The worker is killed.                                                   *)
LEMMA WorkerKilled == ASSUME Reporting, History!Kill PROVE HistoryInv'
<1>1. PICK v \in History!Lists : /\ History!Store(v)
                                 /\ v = disk \/ (writes # <<>> /\ v = writes[1])
  <2>1. disk \in History!Lists
    BY DEF Reporting, HistoryInv, HistoryTypes
  <2>2. CASE History!Store(disk)
    BY <2>1, <2>2 DEF History!Store
  <2>3. CASE writes # <<>> /\ History!Store(Head(writes))
    <3>1. writes[1] \in History!Lists /\ Head(writes) = writes[1]
      BY <2>3, OneWrite
    <3> QED  BY <2>3, <3>1 DEF History!Store
  <2> QED  BY <2>2, <2>3 DEF History!Kill
<1>2. disk' = v /\ events' \in Seq(History!Lists) /\ LastEvent'
  BY <1>1, StoreFacts
<1>3. /\ clear' \in [st : {"none", "removed", "waits", "done"}, waits : {0, 1}]
      /\ clear'.st \in {"none", "done"} /\ clear'.waits = 0 /\ (clear'.st = "done" => clear.st = "done")
  BY DEF History!Kill, Reporting, HistoryInv, HistoryTypes, Pending
<1>4. /\ seen' \in [Reports -> {"running", "kept", "cleared", "lost"}]
      /\ History!With("kept")' \subseteq History!List(disk)' /\ History!With("cleared")' = History!With("cleared")
  BY DEF History!Kill, History!With, Reporting, HistoryInv, HistoryTypes, History!List
<1>5. /\ cache' = NoList /\ loading' = <<>> /\ timer' = FALSE /\ writes' = <<>> /\ sig' = NoList
      /\ kills' \in 0 .. 1
  BY DEF History!Kill, Reporting, HistoryInv, HistoryTypes, History!RunHistoryAssumption
<1>6. HistoryTypes'
  <2>1. /\ loading' \in Seq(History!Lists) /\ writes' \in Seq(SUBSET Reports) /\ Len(loading') <= 1
           /\ Len(writes') <= 1
        /\ NoList \in History!Lists
    BY <1>5, EmptySeq DEF History!Lists
  <2> QED  BY <1>1, <1>2, <1>3, <1>4, <1>5, <2>1 DEF HistoryTypes
<1>7. Pending' /\ Signed'
  BY <1>3, <1>5 DEF Pending, Signed
<1>8. ReportsKept'
  BY <1>4, <1>5 DEF ReportsKept
<1>9. ClearedGone'
  <2>1. ASSUME clear.st = "done" PROVE History!With("cleared") \cap History!List(v) = {}
    <3>1. CASE v = disk
      BY <2>1, <3>1 DEF Reporting, HistoryInv, ClearedGone
    <3>2. CASE writes # <<>> /\ v = writes[1]
      BY <2>1, <3>2, OneWrite DEF Reporting, HistoryInv, ClearedGone
    <3> QED  BY <1>1, <3>1, <3>2
  <2>2. History!List(disk)' = History!List(v) /\ History!List(cache)' = {}
    BY <1>2, <1>5 DEF History!List
  <2> QED  BY <1>3, <1>4, <1>5, <2>1, <2>2 DEF ClearedGone
<1> QED
  BY <1>2, <1>6, <1>7, <1>8, <1>9 DEF HistoryInv

(* Every step keeps the invariant.                                           *)
LEMMA StepHistory == ASSUME History!RunHistoryAssumption, HistoryInv, [History!Next]_(History!vars) PROVE HistoryInv'
<1>0. Reporting
  BY DEF Reporting
<1>1. CASE UNCHANGED History!vars
  BY <1>1 DEF History!vars, HistoryInv, HistoryTypes, Pending, LastEvent, Signed, ReportsKept, ClearedGone,
     History!With, History!List
<1> QED
  BY <1>0, <1>1, ListRead, ListTaken, RunReported, WriteStarted, ListStored, EventHeard, KeyRemoved,
     ReportsCleared, KeyRemovedAgain, WorkerKilled DEF History!Next

(* Counting in the part is counting.                                        *)
LEMMA HistoryCounts ==
    ASSUME NEW S
    PROVE  History!Cardinality(S) = Cardinality(S) /\ (History!IsFiniteSet(S) <=> IsFiniteSet(S))
<1>1. History!Cardinality(S) = Cardinality(S)
  BY Zenon DEF History!Cardinality, Cardinality
<1>2. History!IsFiniteSet(S) <=> IsFiniteSet(S)
  BY Zenon DEF History!IsFiniteSet, IsFiniteSet
<1> QED
  BY <1>1, <1>2

(* What the invariant says of the properties.                                *)
LEMMA HistoryImplies == ASSUME History!RunHistoryAssumption, HistoryInv PROVE History!TypeOK /\ History!HistoryKept
<1>1. History!IsFiniteSet(Reports) /\ (writes # <<>> => Reports # {})
  BY DEF History!RunHistoryAssumption, HistoryInv, Pending
<1>2. History!Cardinality(Reports) \in Nat /\ (Reports # {} => History!Cardinality(Reports) # 0)
  BY <1>1, HistoryCounts, FS_CardinalityType, FS_EmptySet
<1>3. clear \in [st : {"none", "removed", "waits", "done"}, waits : 0 .. History!Cardinality(Reports)]
  <2>1. writes = <<>> => Len(writes) = 0
    OBVIOUS
  <2> QED  BY <1>1, <1>2, <2>1 DEF HistoryInv, HistoryTypes, Pending
<1>4. History!TypeOK
  BY <1>3 DEF HistoryInv, HistoryTypes, Pending, History!TypeOK
<1>5. History!HistoryKept
  <2>1. History!ClearedStays \/ events # <<>>
    BY DEF History!ClearedStays, HistoryInv, ClearedGone
  <2>2. History!AtRest => History!With("kept") \subseteq History!List(disk)
    BY DEF History!AtRest, HistoryInv, ReportsKept
  <2> QED  BY <2>1, <2>2 DEF History!HistoryKept, History!AtRest
<1> QED
  BY <1>4, <1>5

-----------------------------------------------------------------------------
(* FireTimes: arithmetic.                                                  *)

\* The local clock changes by one unit, if at all.
Clock == Fire!FireTimesAssumption /\ gap \in {0, 1, -1}

(* The product with a larger number is larger.                               *)
LEMMA TimesMore ==
    ASSUME NEW a \in Nat, NEW b \in Nat, NEW n \in Nat, a <= b
    PROVE  a * n \in Nat /\ b * n \in Nat /\ a * n <= b * n
<1>1. PICK c \in Nat : b = a + c
  <2>1. b - a \in Nat /\ b = a + (b - a)
    OBVIOUS
  <2> QED  BY <2>1
<1>2. b * n = a * n + c * n /\ a * n \in Nat /\ c * n \in Nat
  BY <1>1
<1> QED
  BY <1>2

(* What division by a positive number gives.                                 *)
LEMMA DivFacts ==
    ASSUME NEW a \in Nat, NEW n \in Nat \ {0}
    PROVE  /\ a \div n \in Nat /\ (a \div n) * n \in Nat
           /\ (a \div n) * n <= a /\ a < (a \div n) * n + n /\ a \div n <= a
OBVIOUS

(* A number less than another is at least one less.                          *)
LEMMA TimesLess ==
    ASSUME NEW a \in Nat, NEW b \in Nat, NEW n \in Nat, a * n < b * n
    PROVE  a + 1 <= b
<1>1. ~(b <= a)
  BY TimesMore
<1> QED
  BY <1>1

(* A day has more than one unit.                                             *)
LEMMA ClockFacts ==
    ASSUME Clock
    PROVE  /\ DayLen \in Nat /\ DayLen > 1 /\ ShiftAt \in Nat /\ ShiftAt > 0 /\ Horizon \in Nat
           /\ gap \in {0, 1, -1} /\ Steps \subseteq Nat \ {0}
BY DEF Clock, Fire!FireTimesAssumption

(* The greater of the change and nothing.                                    *)
LEMMA MaxFacts ==
    /\ gap = 0 => Fire!Max({gap, 0}) = 0
    /\ gap = 1 => Fire!Max({gap, 0}) = 1
    /\ gap = -1 => Fire!Max({gap, 0}) = 0
<1>1. ASSUME gap = 0 PROVE Fire!Max({gap, 0}) = 0
  BY <1>1 DEF Fire!Max
<1>2. ASSUME gap = 1 PROVE Fire!Max({gap, 0}) = 1
  <2>1. 1 \in {gap, 0} /\ \A y \in {gap, 0} : 1 >= y
    BY <1>2
  <2>2. \A x \in {gap, 0} : (\A y \in {gap, 0} : x >= y) => x = 1
    BY <1>2
  <2> QED  BY <2>1, <2>2 DEF Fire!Max
<1>3. ASSUME gap = -1 PROVE Fire!Max({gap, 0}) = 0
  <2>1. 0 \in {gap, 0} /\ \A y \in {gap, 0} : 0 >= y
    BY <1>3
  <2>2. \A x \in {gap, 0} : (\A y \in {gap, 0} : x >= y) => x = 0
    BY <1>3
  <2> QED  BY <2>1, <2>2 DEF Fire!Max
<1> QED
  BY <1>1, <1>2, <1>3

\* The moment at which the local clock has run for c units.
Moment(c) == IF c < ShiftAt + Fire!Max({gap, 0}) THEN c ELSE c - gap

(* A local time is at most one unit away from the moment.                     *)
LEMMA MomentFacts ==
    ASSUME Clock, NEW c \in Nat
    PROVE  /\ Moment(c) \in Nat
           /\ gap = 0 => Moment(c) = c
           /\ gap = 1 => Moment(c) = IF c <= ShiftAt THEN c ELSE c - 1
           /\ gap = -1 => Moment(c) = IF c < ShiftAt THEN c ELSE c + 1
<1>1. CASE gap = 0
  BY <1>1, ClockFacts, MaxFacts DEF Moment
<1>2. CASE gap = 1
  <2>1. Moment(c) = IF c < ShiftAt + 1 THEN c ELSE c - 1
    BY <1>2, MaxFacts DEF Moment
  <2>2. Moment(c) = IF c <= ShiftAt THEN c ELSE c - 1
    BY <2>1, ClockFacts
  <2> QED  BY <1>2, <2>2, ClockFacts
<1>3. CASE gap = -1
  <2>1. Moment(c) = IF c < ShiftAt + 0 THEN c ELSE c - (-1)
    BY <1>3, MaxFacts DEF Moment
  <2>2. Moment(c) = IF c < ShiftAt THEN c ELSE c + 1
    BY <2>1, ClockFacts
  <2> QED  BY <1>3, <2>2
<1> QED
  BY <1>1, <1>2, <1>3, ClockFacts

(* A later local time is no earlier moment.                                   *)
LEMMA MomentLater ==
    ASSUME Clock, NEW c \in Nat, NEW k \in Nat, c <= k
    PROVE  Moment(c) <= Moment(k)
<1>1. CASE gap = 0
  BY <1>1, MomentFacts
<1>2. CASE gap = 1
  <2>1. /\ Moment(c) = IF c <= ShiftAt THEN c ELSE c - 1
        /\ Moment(k) = IF k <= ShiftAt THEN k ELSE k - 1
    BY <1>2, MomentFacts
  <2> QED  BY <2>1, ClockFacts
<1>3. CASE gap = -1
  <2>1. /\ Moment(c) = IF c < ShiftAt THEN c ELSE c + 1
        /\ Moment(k) = IF k < ShiftAt THEN k ELSE k + 1
    BY <1>3, MomentFacts
  <2> QED  BY <2>1, ClockFacts
<1> QED
  BY <1>1, <1>2, <1>3, ClockFacts

(* A local time is a moment.                                                 *)
LEMMA LocalFacts ==
    ASSUME Clock, NEW d \in Nat, NEW t \in Nat
    PROVE  /\ d * DayLen \in Nat /\ d * DayLen + t \in Nat
           /\ Fire!Local(d, t) = Moment(d * DayLen + t) /\ Fire!Local(d, t) \in Nat
<1>1. d * DayLen \in Nat
  BY TimesMore, ClockFacts
<1>2. d * DayLen + t \in Nat
  BY <1>1
<1>3. Fire!Local(d, t) = Moment(d * DayLen + t)
  BY DEF Fire!Local, Moment
<1> QED
  BY <1>1, <1>2, <1>3, MomentFacts

(* The same time of a later day, and each time of it, is no earlier moment.      *)
LEMMA DaysLater ==
    ASSUME Clock, NEW d \in Nat, NEW e \in Nat, NEW t \in Nat, NEW u \in Nat,
           \/ d <= e /\ t <= u
           \/ d < e /\ t < DayLen
    PROVE  Fire!Local(d, t) <= Fire!Local(e, u)
<1> DEFINE a == d * DayLen
           b == e * DayLen
<1>1. a \in Nat /\ b \in Nat /\ Fire!Local(d, t) = Moment(a + t) /\ Fire!Local(e, u) = Moment(b + u)
  BY LocalFacts
<1>2. d <= e => a <= b
  BY TimesMore, ClockFacts
<1>3. d < e => a + DayLen <= b
  <2> HAVE d < e
  <2>1. (d + 1) * DayLen <= b
    BY TimesMore, ClockFacts
  <2>2. (d + 1) * DayLen = a + DayLen
    BY ClockFacts
  <2> QED  BY <2>1, <2>2
<1> HIDE DEF a, b
<1>4. a + t <= b + u
  BY <1>1, <1>2, <1>3, ClockFacts
<1>5. a + t \in Nat /\ b + u \in Nat
  BY <1>1
<1> QED
  BY <1>1, <1>4, <1>5, MomentLater

(* The local date of a moment.                                               *)
LEMMA DayFacts ==
    ASSUME Clock, NEW now \in 0 .. Horizon
    PROVE  /\ Fire!Day(now) \in 0 .. Horizon
           /\ Fire!Local(Fire!Day(now), 0) <= now /\ now < Fire!Local(Fire!Day(now) + 1, 0)
<1> DEFINE q == now \div DayLen
           a == q * DayLen
<1>1. now \in Nat /\ q \in Nat /\ a \in Nat /\ a <= now /\ now < a + DayLen
  BY DivFacts, ClockFacts
<1> HIDE DEF q
<1>2. Fire!Local(q, 0) = Moment(a)
  BY <1>1, LocalFacts
<1>3. Fire!Local(q + 1, 0) = Moment(a + DayLen)
  <2>1. (q + 1) * DayLen + 0 = a + DayLen /\ q + 1 \in Nat
    BY <1>1, ClockFacts
  <2> QED  BY <2>1, LocalFacts
<1>4. Fire!Local(q + 2, 0) = Moment(a + DayLen + DayLen)
  <2>1. (q + 2) * DayLen + 0 = a + DayLen + DayLen /\ q + 2 \in Nat
    BY <1>1, ClockFacts
  <2> QED  BY <2>1, LocalFacts
<1>5. q <= a
  <2>1. PICK c \in Nat : DayLen = c + 1
    <3>1. DayLen - 1 \in Nat /\ DayLen = (DayLen - 1) + 1
      BY ClockFacts
    <3> QED  BY <3>1
  <2>2. q * (c + 1) = q * c + q /\ q * c \in Nat
    BY <1>1
  <2> QED  BY <1>1, <2>1, <2>2
<1>6. q # 0 => /\ Fire!Local(q - 1, 0) = Moment(a - DayLen) /\ a - DayLen \in Nat /\ q - 1 \in Nat
  <2> HAVE q # 0
  <2>1. q - 1 \in Nat
    BY <1>1
  <2>2. ((q - 1) + 1) * DayLen = (q - 1) * DayLen + DayLen /\ (q - 1) + 1 = q
    <3>1. PICK p \in Nat : p = q - 1
      BY <2>1
    <3>2. (p + 1) * DayLen = p * DayLen + DayLen
      BY ClockFacts
    <3> QED  BY <1>1, <3>1, <3>2
  <2>3. (q - 1) * DayLen \in Nat
    BY <2>1, TimesMore, ClockFacts
  <2>4. (q - 1) * DayLen + 0 = a - DayLen
    BY <1>1, <2>2, <2>3, ClockFacts
  <2> QED  BY <2>1, <2>3, <2>4, LocalFacts
<1>7. q = 0 => a = 0
  BY ClockFacts
<1> HIDE DEF a
<1>8. DayLen \in Nat /\ DayLen > 1 /\ a + DayLen \in Nat /\ a + DayLen + DayLen \in Nat /\ Horizon \in Nat
      /\ ShiftAt \in Nat /\ ShiftAt > 0
  BY <1>1, ClockFacts
<1>9. \E d \in 0 .. Horizon : Fire!Local(d, 0) <= now /\ now < Fire!Local(d + 1, 0)
  <2>1. CASE gap = 0
    <3>1. Moment(a) = a /\ Moment(a + DayLen) = a + DayLen
      BY <1>1, <1>8, <2>1, MomentFacts
    <3>2. q \in 0 .. Horizon
      BY <1>1, <1>5, <1>8
    <3> QED  BY <1>1, <1>2, <1>3, <3>1, <3>2
  <2>2. CASE gap = 1
    <3>1. /\ Moment(a) = IF a <= ShiftAt THEN a ELSE a - 1
          /\ Moment(a + DayLen) = IF a + DayLen <= ShiftAt THEN a + DayLen ELSE a + DayLen - 1
          /\ Moment(a + DayLen + DayLen) = IF a + DayLen + DayLen <= ShiftAt THEN a + DayLen + DayLen
                                           ELSE a + DayLen + DayLen - 1
      BY <1>1, <1>8, <2>2, MomentFacts
    <3>2. CASE now < Moment(a + DayLen)
      <4>1. Moment(a) <= now /\ q \in 0 .. Horizon
        BY <1>1, <1>5, <1>8, <3>1
      <4> QED  BY <1>2, <1>3, <3>2, <4>1
    <3>3. CASE ~(now < Moment(a + DayLen))
      <4>1. /\ Moment(a + DayLen) <= now /\ now < Moment(a + DayLen + DayLen) /\ q + 1 \in 0 .. Horizon
            /\ (q + 1) + 1 = q + 2
        BY <1>1, <1>5, <1>8, <3>1, <3>3
      <4> QED  BY <1>3, <1>4, <4>1
    <3> QED  BY <3>2, <3>3
  <2>3. CASE gap = -1
    <3>1. /\ Moment(a) = IF a < ShiftAt THEN a ELSE a + 1
          /\ Moment(a + DayLen) = IF a + DayLen < ShiftAt THEN a + DayLen ELSE a + DayLen + 1
      BY <1>1, <1>8, <2>3, MomentFacts
    <3>2. CASE Moment(a) <= now
      <4>1. now < Moment(a + DayLen) /\ q \in 0 .. Horizon
        BY <1>1, <1>5, <1>8, <3>1
      <4> QED  BY <1>2, <1>3, <3>2, <4>1
    <3>3. CASE ~(Moment(a) <= now)
      <4>1. now = a /\ a >= ShiftAt /\ q # 0 /\ now < Moment(a)
        BY <1>1, <1>7, <1>8, <3>1, <3>3
      <4>2. Moment(a - DayLen) = IF a - DayLen < ShiftAt THEN a - DayLen ELSE a - DayLen + 1
        BY <1>6, <2>3, <4>1, MomentFacts
      <4>3. Moment(a - DayLen) <= now /\ q - 1 \in 0 .. Horizon /\ (q - 1) + 1 = q
        BY <1>1, <1>5, <1>8, <4>1, <4>2
      <4> QED  BY <1>2, <1>6, <4>1, <4>3
    <3> QED  BY <3>2, <3>3
  <2> QED  BY <2>1, <2>2, <2>3, ClockFacts
<1> QED
  BY <1>9 DEF Fire!Day

(* A set of days to try has a first one.                                      *)
LEMMA MinFacts ==
    ASSUME NEW S \in SUBSET Fire!LookAhead, S # {}
    PROVE  Fire!Min(S) \in S /\ \A y \in S : Fire!Min(S) <= y
<1>1. \E x \in S : \A y \in S : x <= y
  <2>1. S \subseteq 0 .. 8
    BY DEF Fire!LookAhead
  <2> DEFINE Below(n) == \A y \in S : n <= y
  <2>2. ASSUME NEW n \in 0 .. 8, Below(n), n \notin S PROVE Below(n + 1)
    <3>1. ASSUME NEW y \in S PROVE n + 1 <= y
      <4>1. n <= y /\ y # n /\ y \in Int
        BY <2>1, <2>2
      <4> QED  BY <4>1
    <3> QED  BY <3>1
  <2>3. Below(0) /\ ~Below(9)
    <3>1. PICK y \in S : TRUE
      OBVIOUS
    <3>2. ~(9 <= y)
      BY <2>1
    <3> QED  BY <2>1, <3>2
  <2> HIDE DEF Below
  <2>4. \E n \in 0 .. 8 : n \in S /\ Below(n)
    BY <2>2, <2>3
  <2> QED  BY <2>4 DEF Below
<1> QED
  BY <1>1 DEF Fire!Min

(* Each day of the week comes within the next seven days.                     *)
LEMMA WeekdayComes ==
    ASSUME NEW d \in Nat, NEW w \in 0 .. 6
    PROVE  \E add \in 1 .. 7 : Fire!Weekday(d + add) = w
<1> DEFINE add == 1 + ((w - d - 1) % 7)
<1>1. add \in 1 .. 7 /\ (d + add) % 7 = w
  OBVIOUS
<1> QED
  BY <1>1 DEF Fire!Weekday

(* The next run of a daily or weekly schedule is its first slot after the moment. *)
LEMMA CalendarFirst ==
    ASSUME Clock, NEW now \in 0 .. Horizon, NEW t \in 0 .. DayLen - 1, NEW days \in SUBSET (0 .. 6), days # {}
    PROVE  /\ Fire!CalendarNext(t, days, now) > now
           /\ \E d \in 0 .. Horizon + 9 : Fire!Weekday(d) \in days
              /\ Fire!CalendarNext(t, days, now) = Fire!Local(d, t)
           /\ \A d \in Nat : Fire!Weekday(d) \in days /\ Fire!Local(d, t) > now
                => Fire!CalendarNext(t, days, now) <= Fire!Local(d, t)
<1> DEFINE day == Fire!Day(now)
           hits == {add \in Fire!LookAhead : Fire!Local(day + add, t) > now /\ Fire!Weekday(day + add) \in days}
<1>1. day \in 0 .. Horizon /\ day \in Nat /\ Fire!Local(day, 0) <= now /\ now < Fire!Local(day + 1, 0) /\ t \in Nat
      /\ now \in Nat
  BY DayFacts, ClockFacts
<1>2. Fire!CalendarNext(t, days, now) = Fire!Local(day + Fire!Min(hits), t) /\ hits \in SUBSET Fire!LookAhead
  BY DEF Fire!CalendarNext
<1> HIDE DEF day
<1>3. \A e \in Nat : e > day => Fire!Local(e, t) > now
  <2> TAKE e \in Nat
  <2> HAVE e > day
  <2>1. Fire!Local(day + 1, 0) <= Fire!Local(e, t)
    <3>1. day + 1 <= e /\ day + 1 \in Nat /\ 0 <= t /\ 0 \in Nat
      BY <1>1
    <3> QED  BY <1>1, <3>1, DaysLater
  <2>2. Fire!Local(day + 1, 0) \in Nat /\ Fire!Local(e, t) \in Nat
    <3>1. day + 1 \in Nat /\ 0 \in Nat
      BY <1>1
    <3> QED  BY <1>1, <3>1, LocalFacts
  <2> QED  BY <1>1, <2>1, <2>2
<1>4. hits # {}
  <2>1. PICK w \in days : TRUE
    OBVIOUS
  <2>2. PICK add \in 1 .. 7 : Fire!Weekday(day + add) = w
    BY <1>1, WeekdayComes
  <2>3. Fire!Local(day + add, t) > now
    BY <1>1, <1>3
  <2> QED  BY <2>2, <2>3 DEF Fire!LookAhead
<1> DEFINE first == Fire!Min(hits)
<1>5. first \in hits /\ \A y \in hits : first <= y
  BY <1>2, <1>4, MinFacts
<1>6. first \in Fire!LookAhead /\ Fire!Local(day + first, t) > now /\ Fire!Weekday(day + first) \in days
  BY <1>5
<1> HIDE DEF first
<1>7. first \in 0 .. 8 /\ day + first \in 0 .. Horizon + 9 /\ day + first \in Nat
  BY <1>1, <1>6, ClockFacts DEF Fire!LookAhead
<1>8. ASSUME NEW d \in Nat, Fire!Weekday(d) \in days, Fire!Local(d, t) > now
      PROVE  Fire!Local(day + first, t) <= Fire!Local(d, t)
  <2>1. d >= day
    <3>1. d < day => Fire!Local(d, t) <= Fire!Local(day, 0)
      <4>1. 0 \in Nat /\ t < DayLen
        BY ClockFacts
      <4> QED  BY <1>1, <4>1, DaysLater
    <3>2. Fire!Local(d, t) \in Nat /\ Fire!Local(day, 0) \in Nat
      BY <1>1, LocalFacts
    <3> QED  BY <1>1, <1>8, <3>1, <3>2
  <2>2. CASE d - day \in Fire!LookAhead
    <3>1. d - day \in hits /\ day + (d - day) = d
      BY <1>1, <1>8, <2>2
    <3>2. day + first <= d
      BY <1>1, <1>5, <1>7, <2>1, <3>1
    <3> QED  BY <1>1, <1>7, <3>2, DaysLater
  <2>3. CASE d - day \notin Fire!LookAhead
    <3>1. day + first <= d
      BY <1>1, <1>7, <2>1, <2>3 DEF Fire!LookAhead
    <3> QED  BY <1>1, <1>7, <3>1, DaysLater
  <2> QED  BY <2>2, <2>3
<1>9. Fire!CalendarNext(t, days, now) = Fire!Local(day + first, t)
  BY <1>2 DEF first
<1> QED
  BY <1>6, <1>7, <1>8, <1>9

(* The next run of an interval is its first slot after the moment.              *)
LEMMA EveryFirst ==
    ASSUME Clock, NEW now \in 0 .. Horizon, NEW anchor \in 0 .. 2, NEW step \in Steps
    PROVE  /\ Fire!EveryNext(anchor, step, now) > now
           /\ \E n \in 0 .. Horizon + 1 : Fire!EveryNext(anchor, step, now) = anchor + n * step
           /\ \A n \in Nat : anchor + n * step > now => Fire!EveryNext(anchor, step, now) <= anchor + n * step
<1>1. step \in Nat \ {0} /\ now \in Nat /\ anchor \in Nat /\ Horizon \in Nat
  BY ClockFacts
<1>2. CASE anchor > now
  <2>1. Fire!EveryNext(anchor, step, now) = anchor /\ anchor = anchor + 0 * step /\ 0 \in 0 .. Horizon + 1
    BY <1>1, <1>2 DEF Fire!EveryNext
  <2>2. \A n \in Nat : n * step \in Nat
    BY <1>1, TimesMore
  <2> QED  BY <1>1, <1>2, <2>1, <2>2
<1>3. CASE ~(anchor > now)
  <2> DEFINE k == (now - anchor) \div step
  <2>1. now - anchor \in Nat
    BY <1>1, <1>3
  <2>2. k \in Nat /\ k * step \in Nat /\ k * step <= now - anchor /\ now - anchor < k * step + step
        /\ k <= now - anchor
    BY <1>1, <2>1, DivFacts
  <2>3. Fire!EveryNext(anchor, step, now) = anchor + (k + 1) * step
    BY <1>3 DEF Fire!EveryNext
  <2> HIDE DEF k
  <2>4. (k + 1) * step = k * step + step
    BY <1>1, <2>2
  <2>5. k + 1 \in 0 .. Horizon + 1
    BY <1>1, <2>2
  <2>6. ASSUME NEW n \in Nat, anchor + n * step > now PROVE (k + 1) * step <= n * step
    <3>1. n * step \in Nat /\ k * step < n * step
      <4>1. n * step \in Nat
        BY <1>1, TimesMore
      <4> QED  BY <1>1, <2>2, <2>6, <4>1
    <3>2. k + 1 <= n
      BY <1>1, <2>2, <3>1, TimesLess
    <3> QED  BY <1>1, <2>2, <3>2, TimesMore
  <2>7. \A n \in Nat : anchor + n * step > now => anchor + (k + 1) * step <= anchor + n * step
    <3>1. (k + 1) * step \in Nat /\ \A n \in Nat : n * step \in Nat
      BY <1>1, <2>2, TimesMore
    <3> QED  BY <1>1, <2>6, <3>1
  <2>8. anchor + (k + 1) * step > now
    BY <1>1, <2>1, <2>2, <2>4
  <2> QED  BY <2>3, <2>5, <2>7, <2>8
<1> QED
  BY <1>2, <1>3

(* nextFireTime gives the first slot after the moment.                          *)
LEMMA FirstSlot ==
    ASSUME Clock, spec \in Fire!Specs, from \in 0 .. Horizon, fire = Fire!NextFireTime(spec, from)
    PROVE  Fire!FirstSlotAfter
<1>1. CASE spec.kind = "every"
  <2>1. spec.anchor \in 0 .. 2 /\ spec.step \in Steps
    BY <1>1 DEF Fire!Specs
  <2>2. fire = Fire!EveryNext(spec.anchor, spec.step, from)
    BY <1>1 DEF Fire!NextFireTime
  <2>3. Fire!Slots(spec) = {spec.anchor + n * spec.step : n \in 0 .. Horizon + 1}
    BY <1>1 DEF Fire!Slots
  <2>4. fire > from /\ fire \in Fire!Slots(spec)
    BY <2>1, <2>2, <2>3, EveryFirst
  <2>5. ASSUME NEW x \in Fire!Slots(spec), x > from PROVE fire <= x
    <3>1. PICK n \in 0 .. Horizon + 1 : x = spec.anchor + n * spec.step
      BY <2>3
    <3>2. n \in Nat
      BY ClockFacts
    <3> QED  BY <2>1, <2>2, <2>5, <3>1, <3>2, EveryFirst
  <2> QED  BY <2>4, <2>5 DEF Fire!FirstSlotAfter
<1>2. CASE spec.kind # "every"
  <2>1. spec.t \in 0 .. DayLen - 1 /\ spec.days \in SUBSET (0 .. 6) /\ spec.days # {}
    BY <1>2 DEF Fire!Specs
  <2>2. fire = Fire!CalendarNext(spec.t, spec.days, from)
    BY <1>2 DEF Fire!NextFireTime
  <2>3. Fire!Slots(spec) = {Fire!Local(d, spec.t) : d \in {d \in 0 .. Horizon + 9 : Fire!Weekday(d) \in spec.days}}
    BY <1>2 DEF Fire!Slots
  <2>4. fire > from /\ fire \in Fire!Slots(spec)
    BY <2>1, <2>2, <2>3, CalendarFirst
  <2>5. ASSUME NEW x \in Fire!Slots(spec), x > from PROVE fire <= x
    <3>1. PICK d \in 0 .. Horizon + 9 : Fire!Weekday(d) \in spec.days /\ x = Fire!Local(d, spec.t)
      BY <2>3
    <3>2. d \in Nat
      BY ClockFacts
    <3> QED  BY <2>1, <2>2, <2>5, <3>1, <3>2, CalendarFirst
  <2> QED  BY <2>4, <2>5 DEF Fire!FirstSlotAfter
<1> QED
  BY <1>1, <1>2

\* The inductive invariant.
FireInv == gap \in {0, 1, -1} /\ spec \in Fire!Specs /\ from \in 0 .. Horizon /\ fire = Fire!NextFireTime(spec, from)

(* The invariant starts.                                                   *)
LEMMA InitFire == Fire!FireTimesAssumption /\ Fire!Init => FireInv
BY DEF Fire!FireTimesAssumption, Fire!Init, FireInv

(* The next run is a moment.                                                 *)
LEMMA FireIsNat ==
    ASSUME Fire!FireTimesAssumption, FireInv
    PROVE  fire > from /\ fire \in Nat
<1>1. Clock /\ Fire!FirstSlotAfter
  BY FirstSlot DEF Clock, FireInv
<1>2. ASSUME NEW x \in Fire!Slots(spec) PROVE x \in Nat
  <2>1. CASE spec.kind = "every"
    <3>1. PICK n \in 0 .. Horizon + 1 : x = spec.anchor + n * spec.step
      BY <2>1 DEF Fire!Slots
    <3>2. spec.anchor \in Nat /\ spec.step \in Nat /\ n \in Nat
      BY <1>1, <2>1, ClockFacts DEF FireInv, Fire!Specs
    <3>3. n * spec.step \in Nat
      BY <3>2, TimesMore
    <3> QED  BY <3>1, <3>2, <3>3
  <2>2. CASE spec.kind # "every"
    <3>1. PICK d \in 0 .. Horizon + 9 : x = Fire!Local(d, spec.t)
      BY <2>2 DEF Fire!Slots
    <3>2. spec.t \in Nat /\ d \in Nat
      BY <1>1, <2>2, ClockFacts DEF FireInv, Fire!Specs
    <3> QED  BY <1>1, <3>1, <3>2, LocalFacts
  <2> QED  BY <2>1, <2>2
<1> QED
  BY <1>1, <1>2 DEF Fire!FirstSlotAfter

(* Every step keeps the invariant.                                           *)
LEMMA StepFire == ASSUME Fire!FireTimesAssumption, FireInv, [Fire!Next]_(Fire!vars) PROVE FireInv'
<1>1. CASE UNCHANGED Fire!vars
  BY <1>1 DEF Fire!vars, FireInv, Fire!NextFireTime, Fire!CalendarNext, Fire!Local, Fire!Day, Fire!EveryNext
<1>2. CASE Fire!Compute
  <2>1. PICK now \in {from + 1, fire - 1, fire, fire + 1} :
          /\ from < now /\ now <= Horizon /\ from' = now /\ fire' = Fire!NextFireTime(spec, now)
          /\ UNCHANGED <<gap, spec>>
    BY <1>2 DEF Fire!Compute
  <2>2. fire > from /\ fire \in Nat
    BY FireIsNat
  <2>3. now \in 0 .. Horizon
    BY <2>1, <2>2 DEF FireInv, Fire!FireTimesAssumption
  <2> QED  BY SMTT(20), <2>1, <2>3 DEF FireInv, Fire!NextFireTime, Fire!CalendarNext, Fire!Local, Fire!Day, Fire!EveryNext
<1> QED
  BY <1>1, <1>2 DEF Fire!Next

(* What the invariant says of the property.                                  *)
LEMMA FireImplies == ASSUME Fire!FireTimesAssumption, FireInv PROVE Fire!FirstSlotAfter
BY FirstSlot DEF Clock, FireInv

-----------------------------------------------------------------------------
(* The theorems.                                                           *)

(* A step of the run is one of the part, or leaves its variables alone.      *)
LEMMA RestartSteps == [Next]_partVars => [Restart!Next]_(Restart!vars)
BY DEF Next, partVars, restartVars, Restart!vars

(* The same of the election.                                               *)
LEMMA ElectionSteps == [Next]_partVars => [Election!Next]_(Election!vars)
BY DEF Next, partVars, electionVars, Election!vars

(* Until a successor is ready nothing that the client sends is passed to it.  *)
LEMMA RestartTypes == ASSUME Restart!SelfRestartAssumption, RestartInv PROVE Restart!TypeOK
<1>1. client \in [stateful : BOOLEAN, sent : 0 .. Messages, got : [1 .. Messages -> 0 .. Restarts + 1]]
  <2>1. {0, 1} \subseteq 0 .. Restarts + 1
    BY DEF Restart!SelfRestartAssumption
  <2> QED  BY <2>1 DEF RestartInv, TypesOK
<1>2. took \in Seq(1 .. Messages)
  BY DEF RestartInv, Flows
<1>3. ASSUME NEW p \in Restart!Procs
      PROVE  /\ inp[p] \in Seq([nr : 1 .. Messages, replay : BOOLEAN]) /\ out[p] \in Seq(1 .. Messages)
             /\ bridge[p].st \in {"none", "serving", "paused", "relay"}
  BY DEF RestartInv, TypesOK, Lines, Bridges
<1>4. ASSUME NEW p \in Restart!Procs, bridge[p].st = "relay" /\ ~bridge[p].ready
      PROVE  \A m \in Restart!Range(inp[p + 1]) : m.replay
  <2>1. p + 1 \in Restart!Procs /\ Live(p + 1) /\ p + 1 # 0 /\ (p + 1) - 1 = p
    BY <1>4 DEF RestartInv, Chain, Relays, Restart!Procs
  <2> DEFINE q == p + 1
  <2>2. inp[q] \in Seq(Lines)
    BY <2>1 DEF RestartInv, TypesOK
  <2>3. PICK a, x : Flow(a, x)
    BY DEF RestartInv, Flows
  <2>4. FlowAt(q, a, x) /\ a[q] \in 0 .. Messages /\ x[q] \in 0 .. Messages
    BY <2>1, <2>3 DEF Flow
  <2>5. x[q] = a[q]
    BY <1>4, <2>1, <2>4 DEF FlowAt, Greeted
  <2>6. Lined(inp[q], Len(bridge[q].captured), Replayed(q, a, x), a[q])
    BY <2>4 DEF FlowAt, Input
  <2>7. Len(inp[q]) \in Nat /\ DOMAIN inp[q] = 1 .. Len(inp[q])
    BY <2>2, LenProperties
  <2>8. Replayed(q, a, x) = Len(inp[q])
    BY <2>4, <2>5, <2>7 DEF Replayed
  <2>9. \A i \in 1 .. Len(inp[q]) : inp[q][i].replay
    BY <2>6, <2>7, <2>8 DEF Lined
  <2> QED  BY <2>7, <2>9 DEF Restart!Range
<1> QED
  BY <1>1, <1>2, <1>3, <1>4 DEF Restart!TypeOK

(* Roles are true (tryBecomePrimary, recoverBridge, closeBridgeResources of    *)
(* index.js): for any number of processes, rounds, attempts and ends at most one *)
(* process is the primary, and it is the one that has bound the port; a secondary *)
(* is connected or looking for its primary; and a process that was handed over  *)
(* gives the port back also when it had been binding it.  Two attempts at the    *)
(* port never overlap in the run.  Of a restart in place: a successor is sent    *)
(* nothing of the client's before it is ready.                               *)
THEOREM RolesTrueThere == Spec => []RolesTrue
<1>1. Init => RestartInv /\ ElectionInv
  BY InitRestart, InitElection, PartsAssumption DEF Init
<1>2. RestartInv /\ ElectionInv /\ [Next]_partVars => RestartInv' /\ ElectionInv'
  BY RestartSteps, ElectionSteps, StepRestart, StepElection, PartsAssumption
<1>3. RestartInv /\ ElectionInv => RolesTrue
  BY RestartTypes, ElectionImplies, PartsAssumption DEF RolesTrue
<1> QED
  BY <1>1, <1>2, <1>3, PTL DEF Spec

(* The client of a bridge that is restarted in place, any number of times, sees  *)
(* the session of one process: its messages are served in the order in which it *)
(* sent them, once each and none is left out, and no request is answered twice  *)
(* (restartInPlace, startRelay and createHandshakeTap of self-restart.js).      *)
THEOREM SessionIsKept == Spec => Restart!Session!Spec
<1>1. Init => RestartInv /\ Restart!Session!Init
  BY InitRestart, InitImplements, PartsAssumption DEF Init
<1>2. RestartInv /\ [Next]_partVars => RestartInv'
  BY RestartSteps, StepRestart, PartsAssumption
<1>3. Spec => []RestartInv
  BY <1>1, <1>2, PTL DEF Spec
<1>4. RestartInv /\ RestartInv' /\ [Next]_partVars => [Restart!Session!Next]_(Restart!Session!vars)
  BY RestartSteps, StepImplements, PartsAssumption
<1> QED
  BY <1>1, <1>3, <1>4, PTL DEF Spec, Restart!Session!Spec

(* A step of the run is one of the saved workflows, or leaves them alone.      *)
LEMMA StoreSteps == [Next]_partVars => [Store!Next]_(Store!vars)
BY DEF Next, partVars, storeVars, Store!vars

(* The same of the history.                                                *)
LEMMA HistorySteps == [Next]_partVars => [History!Next]_(History!vars)
BY DEF Next, partVars, historyVars, History!vars

(* Saved workflows and their history (persistRunStats, saveWorkflow and          *)
(* deleteWorkflow, pushRun, flushRuns and clearRunHistory of workflow-engine.js): *)
(* for any workflows, runs and changes each run is counted once, a workflow that *)
(* was deleted stays deleted and each edit is in its workflow; every finished run *)
(* is in the stored history once all is written, but for those lost with a       *)
(* worker, and a history that was cleared does not come back.  The run makes the *)
(* assumptions Apart and Prompt of the two modules.                           *)
THEOREM StoreKeptThere == Spec => []StoreKept
<1>1. Init => StoreInv /\ HistoryInv
  BY InitStore, InitHistory, PartsAssumption DEF Init
<1>2. StoreInv /\ HistoryInv /\ [Next]_partVars => StoreInv' /\ HistoryInv'
  BY StoreSteps, HistorySteps, StepStore, StepHistory, PartsAssumption
<1>3. StoreInv /\ HistoryInv => StoreKept
  BY StoreImplies, HistoryImplies, PartsAssumption DEF StoreKept
<1> QED
  BY <1>1, <1>2, <1>3, PTL DEF Spec

(* A step of the run computes a next run, or leaves it alone.                   *)
LEMMA FireSteps == [Next]_partVars => [Fire!Next]_(Fire!vars)
BY DEF Next, partVars, fireVars, Fire!vars

\* The invariant, when next runs are what is computed.
FirePart == part = "fire" => FireInv

(* The next run of a schedule (nextFireTime of scheduler.js) is its first slot   *)
(* after the moment, for a day of any length, any slots and any change of the    *)
(* clock by one unit: none is passed over, and none is served twice.            *)
THEOREM FirstSlotThere == Spec => []FirstSlotAfter
<1>1. Init => FirePart
  BY InitFire, PartsAssumption DEF Init, FirePart
<1>2. FirePart /\ [Next]_partVars => FirePart'
  <2>1. [Next]_partVars => part' = part
    BY DEF Next, partVars
  <2> QED  BY <2>1, FireSteps, StepFire, PartsAssumption DEF FirePart
<1>3. FirePart => FirstSlotAfter
  <2>1. FireInv => Fire!FirstSlotAfter
    BY FireImplies, PartsAssumption
  <2> QED  BY <2>1, Zenon DEF FirePart, FirstSlotAfter
<1> QED
  BY <1>1, <1>2, <1>3, PTL DEF Spec

=============================================================================
