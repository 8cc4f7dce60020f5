--------------------------- MODULE ToolLanesProofs ---------------------------
(***************************************************************************)
(* The lane scheduler for any number of calls, keys and batches.  LaneInv   *)
(* is inductive and gives LaneExclusion; with GateInv, which adds the gate   *)
(* and what heldLanes says, it gives LocksSound, NoLateStart and            *)
(* ExclusiveAlone; with OrderInv, which adds who comes before whom in the   *)
(* queues, it gives ArrivalOrder.                                          *)
(***************************************************************************)
EXTENDS ToolLanes, SequenceTheorems, FiniteSetTheorems, TLAPS

USE CallsAssumption DEF GATE_KEY

(* The context of a call is a call, and is its own context.                *)
LEMMA RootFacts ==
    ASSUME NEW c \in Calls
    PROVE  /\ Root(c) \in Calls
           /\ Root(Root(c)) = Root(c)
           /\ Root(c) # c => Parent[c] = Root(c) /\ Parent[c] # NoCall
           /\ Parent[c] # NoCall => Parent[c] = Root(c) /\ Root(c) # c
BY ScenarioAssumption DEF Root

(* NeedsMet depends only on the batch of a step while the batch runs.       *)
LEMMA NeedsMetStep ==
    ASSUME NEW c \in Calls, NEW w, NeedsMet(c, w), wanted'[c] = w,
           Root(c) # c /\ pc'[Root(c)] = "running" =>
             pc[Root(c)] = "running" /\ acquired'[Root(c)] = acquired[Root(c)]
    PROVE  NeedsMet(c, wanted[c])'
<1>1. CASE Root(c) = c
  BY <1>1 DEF NeedsMet, Root
<1>2. CASE Root(c) # c
  BY <1>2 DEF NeedsMet, Root
<1> QED  BY <1>1, <1>2

(* What removing one element of a sequence leaves.                         *)
LEMMA RemoveAtFacts ==
    ASSUME NEW S, NEW s \in Seq(S), NEW i \in 1 .. Len(s)
    PROVE  /\ RemoveAt(s, i) \in Seq(S)
           /\ Len(RemoveAt(s, i)) = Len(s) - 1
           /\ \A j \in 1 .. Len(s) - 1 :
                RemoveAt(s, i)[j] = s[IF j < i THEN j ELSE j + 1]
<1> DEFINE l == SubSeq(s, 1, i - 1)
           r == SubSeq(s, i + 1, Len(s))
<1>1. /\ l \in Seq(S) /\ Len(l) = i - 1
      /\ \A j \in 1 .. i - 1 : l[j] = s[j]
  OBVIOUS
<1>2. /\ r \in Seq(S) /\ Len(r) = Len(s) - i
      /\ \A j \in 1 .. Len(s) - i : r[j] = s[i + j]
  OBVIOUS
<1>3. RemoveAt(s, i) = l \o r
  BY DEF RemoveAt
<1> HIDE DEF l, r
<1>4. /\ l \o r \in Seq(S)
      /\ Len(l \o r) = Len(l) + Len(r)
      /\ \A j \in 1 .. Len(l) + Len(r) :
           (l \o r)[j] = IF j <= Len(l) THEN l[j] ELSE r[j - Len(l)]
  BY <1>1, <1>2, ConcatProperties
<1>5. Len(s) \in Nat
  OBVIOUS
<1>6. ASSUME NEW j \in 1 .. Len(s) - 1
      PROVE  (l \o r)[j] = s[IF j < i THEN j ELSE j + 1]
  <2>1. CASE j < i
    <3>1. j \in 1 .. Len(l) + Len(r) /\ j <= Len(l) /\ j \in 1 .. i - 1
      BY <1>1, <1>2, <1>5, <2>1
    <3> QED  BY <1>1, <1>4, <2>1, <3>1
  <2>2. CASE ~(j < i)
    <3>1. /\ j \in 1 .. Len(l) + Len(r) /\ ~(j <= Len(l))
          /\ j - Len(l) \in 1 .. Len(s) - i /\ i + (j - Len(l)) = j + 1
      BY <1>1, <1>2, <1>5, <2>2
    <3>2. (l \o r)[j] = r[j - Len(l)]
      BY <1>4, <3>1
    <3> QED  BY <1>2, <2>2, <3>1, <3>2
  <2> QED  BY <2>1, <2>2
<1>7. Len(l) + Len(r) = Len(s) - 1
  BY <1>1, <1>2, <1>5
<1> QED  BY <1>3, <1>4, <1>6, <1>7

(* What taking the first waiter off a queue leaves.                        *)
LEMMA TailFacts ==
    ASSUME NEW S, NEW s \in Seq(S), s # <<>>
    PROVE  /\ Head(s) = s[1] /\ Head(s) \in S /\ Tail(s) \in Seq(S)
           /\ 1 \in 1 .. Len(s)
           /\ Len(Tail(s)) = Len(s) - 1
           /\ \A j \in 1 .. Len(Tail(s)) : Tail(s)[j] = s[j + 1]
BY HeadTailProperties

(* What an arriving waiter adds to a queue.                                *)
LEMMA AppendFacts ==
    ASSUME NEW S, NEW s \in Seq(S), NEW e \in S
    PROVE  /\ Append(s, e) \in Seq(S)
           /\ Len(Append(s, e)) = Len(s) + 1
           /\ \A j \in 1 .. Len(s) : Append(s, e)[j] = s[j]
           /\ Append(s, e)[Len(s) + 1] = e
BY AppendProperties

(* pumpGate cuts a queue in two: the first n waiters pass, the rest stay.   *)
LEMMA PassFacts ==
    ASSUME NEW q \in Seq(Calls), NEW sh, NEW ex
    PROVE  LET n == Admitted(q, sh, ex)
           IN  /\ n \in 0 .. Len(q)
               /\ ToSet(SubSeq(q, 1, n)) = {q[i] : i \in 1 .. n}
               /\ SubSeq(q, n + 1, Len(q)) \in Seq(Calls)
               /\ Len(SubSeq(q, n + 1, Len(q))) = Len(q) - n
               /\ \A j \in 1 .. Len(q) - n : SubSeq(q, n + 1, Len(q))[j] = q[n + j]
<1> DEFINE n == Admitted(q, sh, ex)
           lead == {m \in 1 .. Len(q) : \A i \in 1 .. m : q[i] \notin Exclusive}
<1>1. Len(q) \in Nat
  OBVIOUS
<1>2. Cardinality(lead) \in 0 .. Len(q)
  <2>1. IsFiniteSet(1 .. Len(q)) /\ Cardinality(1 .. Len(q)) = Len(q)
    BY <1>1, FS_Interval
  <2>2. IsFiniteSet(lead) /\ Cardinality(lead) <= Len(q)
    BY <2>1, FS_Subset
  <2> QED  BY <1>1, <2>2, FS_CardinalityType
<1>3. n \in 0 .. Len(q)
  BY <1>1, <1>2, EmptySeq DEF Admitted
<1> HIDE DEF n, lead
<1>4. ToSet(SubSeq(q, 1, n)) = {q[i] : i \in 1 .. n}
  BY <1>1, <1>3 DEF ToSet
<1>5. /\ SubSeq(q, n + 1, Len(q)) \in Seq(Calls)
      /\ Len(SubSeq(q, n + 1, Len(q))) = Len(q) - n
      /\ \A j \in 1 .. Len(q) - n : SubSeq(q, n + 1, Len(q))[j] = q[n + j]
  BY <1>1, <1>3
<1> QED  BY <1>3, <1>4, <1>5 DEF n

(* Nothing is held or waited for at the start.                              *)
LEMMA InitInv == Init => LaneInv
<1> SUFFICES ASSUME Init PROVE LaneInv
  OBVIOUS
<1>1. LockTypeOK
  BY ScenarioAssumption DEF Init, LockTypeOK
<1>2. WaitersPending
  BY DEF Init, WaitersPending
<1>3. TicketsHoldKeys
  BY DEF Init, TicketsHoldKeys
<1>4. HeldLanesCovered
  BY DEF Init, HeldLanesCovered
<1>5. NeedsCovered
  BY DEF Init, NeedsCovered
<1>6. StepsInsideBatch
  BY DEF Init, StepsInsideBatch
<1> QED  BY <1>1, <1>2, <1>3, <1>4, <1>5, <1>6 DEF LaneInv

(* Ending a ticket (release, failed acquire or watchdog) keeps the          *)
(* invariant: its keys go to waiters that wait for exactly those keys.      *)
LEMMA ReleaseInv ==
    ASSUME LaneInv, NEW c \in Calls, NEW got \in SUBSET Keys, NEW jobs,
           NEW p \in {"failed", "orphaned", "done"},
           ReleaseTicket(c, got, jobs),
           pc' = [pc EXCEPT ![c] = p],
           acquired[c] \subseteq got,
           \A k \in got : holder[k] = c,
           wake[c] # "none" \/ pc[c] = "running",
           p = "orphaned" => pc[c] = "running",
           \A d \in Calls : Parent[d] = c /\ p # "orphaned"
             => pc[d] \notin {"gate", "key", "running", "orphaned"}
    PROVE  LaneInv'
<1> USE DEF LaneInv
<1> DEFINE freed == {k \in got : holder[k] = c}
           inGate == c \in shared \/ exclusive = c
           sh == shared \ {c}
           ex == IF exclusive = c THEN NoCall ELSE exclusive
           passed == IF inGate THEN Passed(gateQ, sh, ex) ELSE <<>>
           woken == {NextWaiter(k) : k \in Handed(freed)} \cup ToSet(passed)
<1>1. freed = got
  OBVIOUS
<1>2. gateQ \in Seq(Calls) /\ Len(gateQ) \in Nat
  BY DEF LockTypeOK
<1>3. \E n \in 0 .. Len(gateQ) :
        /\ ToSet(passed) = {gateQ[i] : i \in 1 .. n}
        /\ gateQ' \in Seq(Calls)
        /\ Len(gateQ') = Len(gateQ) - n
        /\ \A j \in 1 .. Len(gateQ') : gateQ'[j] = gateQ[n + j]
  <2>1. CASE inGate
    <3> DEFINE m == Admitted(gateQ, sh, ex)
    <3>1. /\ passed = SubSeq(gateQ, 1, m)
          /\ gateQ' = SubSeq(gateQ, m + 1, Len(gateQ))
      BY <2>1 DEF ReleaseTicket, PumpGate, Passed
    <3> HIDE DEF passed, inGate, sh, ex
    <3>2. /\ m \in 0 .. Len(gateQ)
          /\ ToSet(passed) = {gateQ[i] : i \in 1 .. m}
          /\ gateQ' \in Seq(Calls)
          /\ Len(gateQ') = Len(gateQ) - m
          /\ \A j \in 1 .. Len(gateQ) - m : gateQ'[j] = gateQ[m + j]
      BY <1>2, <3>1, PassFacts
    <3> HIDE DEF m
    <3> QED  BY <3>2
  <2>2. CASE ~inGate
    <3>1. gateQ' = gateQ /\ ToSet(passed) = {}
      BY <2>2 DEF ReleaseTicket, ToSet
    <3>2. 0 \in 0 .. Len(gateQ) /\ 1 .. 0 = {}
      BY <1>2
    <3>3. {gateQ[i] : i \in 1 .. 0} = {}
      BY <3>2
    <3>4. \A j \in 1 .. Len(gateQ) : 0 + j = j
      BY <1>2
    <3>5. Len(gateQ') = Len(gateQ) - 0
      BY <1>2, <3>1
    <3>6. ToSet(passed) = {gateQ[i] : i \in 1 .. 0}
      BY <3>1, <3>3
    <3>7. \A j \in 1 .. Len(gateQ') : gateQ'[j] = gateQ[0 + j]
      BY <3>1, <3>4
    <3> HIDE DEF passed, inGate, sh, ex
    <3> WITNESS 0 \in 0 .. Len(gateQ)
    <3> QED  BY <1>2, <3>1, <3>5, <3>6, <3>7
  <2> QED  BY <2>1, <2>2
<1>4. PICK n \in 0 .. Len(gateQ) :
        /\ ToSet(passed) = {gateQ[i] : i \in 1 .. n}
        /\ gateQ' \in Seq(Calls)
        /\ Len(gateQ') = Len(gateQ) - n
        /\ \A j \in 1 .. Len(gateQ') : gateQ'[j] = gateQ[n + j]
  BY <1>3
<1>5. /\ holder' = [k \in Keys |-> IF k \notin got THEN holder[k]
                       ELSE IF keyQ[k] = <<>> THEN NoCall ELSE Head(keyQ[k])]
      /\ keyQ' = [k \in Keys |-> IF k \in got /\ keyQ[k] # <<>>
                                 THEN Tail(keyQ[k]) ELSE keyQ[k]]
  BY <1>1 DEF ReleaseTicket, PumpKeys, NextWaiter
<1>6. wake' = [d \in Calls |-> IF d = c THEN "none"
                               ELSE IF d \in woken THEN "granted" ELSE wake[d]]
  BY DEF ReleaseTicket
<1>7. /\ acquired' = [acquired EXCEPT ![c] = {}]
      /\ held' = [held EXCEPT ![Root(c)] = @ \ (got \cup GatePass(c))]
      /\ UNCHANGED <<pendingError, wanted, at>>
  BY DEF ReleaseTicket
<1>8. \A d : d \in woken <=> \/ \E k \in got : keyQ[k] # <<>> /\ d = Head(keyQ[k])
                             \/ \E i \in 1 .. n : d = gateQ[i]
  BY <1>1, <1>4 DEF Handed, NextWaiter
<1>9. \A k \in Keys : keyQ[k] # <<>> =>
        /\ Head(keyQ[k]) = keyQ[k][1] /\ Head(keyQ[k]) \in Calls
        /\ Tail(keyQ[k]) \in Seq(Calls) /\ 1 \in 1 .. Len(keyQ[k])
        /\ Len(Tail(keyQ[k])) = Len(keyQ[k]) - 1
        /\ \A j \in 1 .. Len(Tail(keyQ[k])) : Tail(keyQ[k])[j] = keyQ[k][j + 1]
  BY TailFacts DEF LockTypeOK
<1>10. \A k \in Keys : keyQ[k] \in Seq(Calls) /\ Len(keyQ[k]) \in Nat
  BY DEF LockTypeOK
<1> HIDE DEF freed, inGate, sh, ex, passed, woken
<1>11. \A k \in got : keyQ[k] # <<>> =>
         LET h == Head(keyQ[k])
         IN  pc[h] = "key" /\ wake[h] = "none" /\ at[h] = k /\ h \in Calls /\ h # c
  BY <1>9 DEF WaitersPending
<1>12. LockTypeOK'
  <2>1. holder' \in [Keys -> Calls \cup {NoCall}] /\ keyQ' \in [Keys -> Seq(Calls)]
    BY <1>5, <1>9 DEF LockTypeOK
  <2>2. wake' \in [Calls -> {"none", "granted", "rejected"}]
    BY <1>6 DEF LockTypeOK
  <2>3. held' \in [Calls -> SUBSET (Keys \cup {GATE_KEY})]
    BY <1>7, RootFacts DEF LockTypeOK
  <2>4. acquired' \in [Calls -> SUBSET Keys]
    BY <1>7 DEF LockTypeOK
  <2> QED  BY <1>4, <1>7, <2>1, <2>2, <2>3, <2>4 DEF LockTypeOK
<1>13. WaitersPending'
  <2>1. ASSUME NEW d \in Calls, wake'[d] # "none" PROVE Waiting(d)'
    <3>1. d # c /\ (d \in woken \/ wake[d] # "none")
      BY <1>6, <2>1
    <3>2. pc[d] \in {"gate", "key"}
      BY <1>2, <1>8, <1>11, <3>1 DEF WaitersPending, Waiting
    <3> QED  BY <3>1, <3>2 DEF LockTypeOK, Waiting
  <2>2. ASSUME NEW k \in Keys, NEW i \in 1 .. Len(keyQ'[k])
        PROVE  /\ pc'[keyQ'[k][i]] = "key" /\ wake'[keyQ'[k][i]] = "none"
               /\ at'[keyQ'[k][i]] = k
               /\ \A j \in 1 .. Len(keyQ'[k]) : keyQ'[k][i] = keyQ'[k][j] => i = j
    <3>1. PICK s \in {0, 1} :
            /\ s = 1 <=> (k \in got /\ keyQ[k] # <<>>)
            /\ Len(keyQ'[k]) = Len(keyQ[k]) - s
            /\ \A j \in 1 .. Len(keyQ'[k]) : keyQ'[k][j] = keyQ[k][j + s]
      BY <1>5, <1>9, <1>10
    <3>2. \A j \in 1 .. Len(keyQ'[k]) : j + s \in 1 .. Len(keyQ[k])
      BY <1>10, <3>1
    <3> DEFINE d == keyQ'[k][i]
    <3>3. /\ d \in Calls /\ d = keyQ[k][i + s]
          /\ pc[d] = "key" /\ wake[d] = "none" /\ at[d] = k /\ d # c
      BY <1>10, <3>1, <3>2 DEF WaitersPending
    <3>4. ASSUME NEW j \in 1 .. Len(keyQ'[k]), keyQ'[k][i] = keyQ'[k][j]
          PROVE  i = j
      <4>1. keyQ[k][i + s] = keyQ[k][j + s]
        BY <3>1, <3>4
      <4>2. i + s = j + s
        BY <3>2, <4>1 DEF WaitersPending
      <4> QED  BY <1>10, <3>1, <4>2
    <3>5. d \notin woken
      <4>1. ASSUME NEW k2 \in got, keyQ[k2] # <<>>, d = Head(keyQ[k2]) PROVE FALSE
        <5>1. k2 = k /\ s = 1
          BY <1>11, <3>1, <3>3, <4>1
        <5>2. keyQ[k][1] = keyQ[k][i + s] /\ 1 \in 1 .. Len(keyQ[k])
              /\ i + s \in 1 .. Len(keyQ[k]) /\ i + s # 1
          BY <1>9, <3>2, <3>3, <4>1, <5>1
        <5> QED  BY <5>2 DEF WaitersPending
      <4>2. ASSUME NEW m \in 1 .. n, d = gateQ[m] PROVE FALSE
        BY <1>2, <3>3, <4>2 DEF WaitersPending
      <4> QED  BY <1>8, <4>1, <4>2
    <3> HIDE DEF d
    <3>6. pc'[d] = "key" /\ wake'[d] = "none" /\ at'[d] = k
      BY <1>6, <1>7, <3>3, <3>5 DEF LockTypeOK
    <3> QED  BY <3>4, <3>6 DEF d
  <2>3. ASSUME NEW i \in 1 .. Len(gateQ')
        PROVE  /\ pc'[gateQ'[i]] = "gate" /\ wake'[gateQ'[i]] = "none"
               /\ \A j \in 1 .. Len(gateQ') : gateQ'[i] = gateQ'[j] => i = j
    <3>1. \A j \in 1 .. Len(gateQ') : n + j \in 1 .. Len(gateQ) /\ n + j \notin 1 .. n
      BY <1>2, <1>4
    <3> DEFINE d == gateQ'[i]
    <3>2. /\ d \in Calls /\ d = gateQ[n + i]
          /\ pc[d] = "gate" /\ wake[d] = "none" /\ d # c
      BY <1>2, <1>4, <3>1 DEF WaitersPending
    <3>3. ASSUME NEW j \in 1 .. Len(gateQ'), gateQ'[i] = gateQ'[j]
          PROVE  i = j
      <4>1. gateQ[n + i] = gateQ[n + j]
        BY <1>4, <3>3
      <4>2. n + i = n + j
        BY <3>1, <4>1 DEF WaitersPending
      <4> QED  BY <1>2, <1>4, <4>2
    <3>4. d \notin woken
      <4>1. \A k \in got : keyQ[k] # <<>> => d # Head(keyQ[k])
        BY <1>11, <3>2
      <4>2. ASSUME NEW m \in 1 .. n, d = gateQ[m] PROVE FALSE
        <5>1. m \in 1 .. Len(gateQ) /\ gateQ[m] = gateQ[n + i]
          BY <1>2, <3>2, <4>2
        <5>2. m = n + i
          BY <3>1, <5>1 DEF WaitersPending
        <5> QED  BY <3>1, <5>2
      <4> QED  BY <1>8, <4>1, <4>2
    <3> HIDE DEF d
    <3>5. pc'[d] = "gate" /\ wake'[d] = "none"
      BY <1>6, <3>2, <3>4 DEF LockTypeOK
    <3> QED  BY <3>3, <3>5 DEF d
  <2> QED  BY <2>1, <2>2, <2>3 DEF WaitersPending
<1>14. TicketsHoldKeys'
  <2>1. ASSUME NEW d \in Calls, NEW k \in acquired'[d] PROVE holder'[k] = d
    <3>1. d # c /\ k \in acquired[d] /\ holder[k] = d /\ k \in Keys
      BY <1>7, <2>1 DEF LockTypeOK, TicketsHoldKeys
    <3> QED  BY <1>5, <3>1
  <2>2. ASSUME NEW d \in Calls, acquired'[d] # {} PROVE pc'[d] \in {"key", "running"}
    BY <1>7, <2>2 DEF LockTypeOK, TicketsHoldKeys
  <2>3. ASSUME NEW d \in Calls, pc'[d] = "key"
        PROVE  at'[d] \in Keys /\ (wake'[d] = "granted" => holder'[at'[d]] = d)
    <3>1. d # c /\ pc[d] = "key" /\ at[d] \in Keys /\ at'[d] = at[d]
      BY <1>7, <2>3 DEF LockTypeOK, TicketsHoldKeys
    <3>2. CASE d \in woken
      <4>1. \A i \in 1 .. n : d # gateQ[i]
        BY <1>2, <3>1 DEF WaitersPending
      <4>2. PICK k \in got : keyQ[k] # <<>> /\ d = Head(keyQ[k])
        BY <1>8, <3>2, <4>1
      <4> QED  BY <1>5, <1>11, <3>1, <4>2
    <3>3. CASE d \notin woken
      <4>1. wake'[d] = "granted" => holder[at[d]] = d
        BY <1>6, <3>1, <3>3 DEF TicketsHoldKeys
      <4> QED  BY <1>5, <3>1, <4>1
    <3> QED  BY <3>2, <3>3
  <2> QED  BY <2>1, <2>2, <2>3 DEF TicketsHoldKeys
<1>15. HeldLanesCovered'
  <2> SUFFICES ASSUME NEW x \in Calls, NEW k \in held'[x] \cap Keys
               PROVE  \E d \in Calls : Root(d) = x /\ pc'[d] = "running" /\ k \in acquired'[d]
    BY DEF HeldLanesCovered, Root
  <2>1. k \in held[x] /\ (x = Root(c) => k \notin got)
    BY <1>7, RootFacts DEF LockTypeOK
  <2>2. PICK d \in Calls : Root(d) = x /\ pc[d] = "running" /\ k \in acquired[d]
    BY <2>1 DEF HeldLanesCovered
  <2>3. d # c
    BY <2>1, <2>2
  <2> QED  BY <1>7, <2>2, <2>3 DEF LockTypeOK
<1>16. NeedsCovered'
  <2>1. \A d \in Calls : d # c => pc'[d] = pc[d] /\ acquired'[d] = acquired[d]
    BY <1>7 DEF LockTypeOK
  <2>2. pc'[c] = p
    BY DEF LockTypeOK
  <2>3. \A d \in Calls :
        /\ pc'[d] = "idle" => wanted'[d] = {}
        /\ pc'[d] = "running" => wanted'[d] = acquired'[d]
    BY <1>7, <2>1, <2>2 DEF NeedsCovered
  <2>4. ASSUME NEW d \in Calls, pc'[d] \in {"gate", "key", "running"}
        PROVE  NeedsMet(d, wanted[d])'
    <3>1. Root(d) # d /\ pc'[Root(d)] = "running" =>
            pc[Root(d)] = "running" /\ acquired'[Root(d)] = acquired[Root(d)]
      BY <2>1, <2>2, RootFacts
    <3>2. NeedsMet(d, wanted'[d])
      BY <1>7, <2>1, <2>2, <2>4 DEF NeedsCovered
    <3> QED  BY <3>1, <3>2, NeedsMetStep
  <2> QED  BY <2>3, <2>4 DEF NeedsCovered
<1>17. StepsInsideBatch'
  <2>1. \A d \in Calls : d # c => pc'[d] = pc[d]
    BY DEF LockTypeOK
  <2>2. pc'[c] = p
    BY DEF LockTypeOK
  <2> QED  BY <2>1, <2>2, ScenarioAssumption
  DEF StepsInsideBatch, InsideBatch, Executing
<1> QED  BY <1>12, <1>13, <1>14, <1>15, <1>16, <1>17

(* What acquire() subtracts from a call's keys, its running batch holds.    *)
LEMMA ArrivalFacts ==
    ASSUME LaneInv, NEW c \in Calls, MayArrive(c)
    PROVE  /\ pc[c] = "idle" /\ wake[c] = "none" /\ acquired[c] = {} /\ wanted[c] = {}
           /\ StillWanted(c) \in SUBSET Keys
           /\ InsideBatch(c)
           /\ NeedsMet(c, StillWanted(c))
<1> USE DEF LaneInv
<1>1. pc[c] = "idle" /\ wake[c] = "none" /\ acquired[c] = {} /\ wanted[c] = {}
  BY DEF MayArrive, WaitersPending, Waiting, TicketsHoldKeys, NeedsCovered
<1>2. StillWanted(c) \in SUBSET Keys /\ Need[c] \subseteq Keys
  BY ScenarioAssumption DEF StillWanted
<1>3. Parent[c] # NoCall => Executing(Parent[c])
  BY DEF MayArrive
<1>4. ASSUME NEW k \in Need[c], k \notin StillWanted(c)
      PROVE  Root(c) # c /\ k \in acquired[Root(c)]
  <2>1. k \in held[Root(c)] \cap Keys
    BY <1>2, <1>4 DEF StillWanted
  <2>2. PICK d \in Calls : Root(d) = Root(c) /\ pc[d] = "running" /\ k \in acquired[d]
    BY <2>1, RootFacts DEF HeldLanesCovered
  <2>3. d # c
    BY <1>1, <2>2
  <2>4. CASE Root(c) = c
    <3>1. Parent[d] = c /\ Parent[d] # NoCall
      BY <2>2, <2>3, <2>4, RootFacts
    <3> QED  BY <1>1, <2>2, <3>1 DEF StepsInsideBatch, InsideBatch, Executing
  <2>5. CASE Root(c) # c
    <3>1. Parent[c] = Root(c) /\ Parent[c] # NoCall
      BY <2>5, RootFacts
    <3>2. d = Root(c) \/ d \in Steps(Parent[c])
      BY <2>2, <3>1, RootFacts DEF Steps
    <3> QED  BY <2>2, <2>5, <3>1, <3>2 DEF MayArrive, Settled
  <2> QED  BY <2>4, <2>5
<1> QED  BY <1>1, <1>2, <1>3, <1>4 DEF InsideBatch, NeedsMet

(* Asking for one more key keeps the invariant: a free key is nobody's, and  *)
(* a call that queues for a key queues nowhere else.                        *)
LEMMA LockKeyInv ==
    ASSUME LaneInv, NEW c \in Calls, NEW k \in Keys, NEW jobs,
           NEW got \in SUBSET Keys, NEW w \in SUBSET Keys,
           LockKey(c, k, jobs),
           acquired' = [acquired EXCEPT ![c] = got],
           wanted' = [wanted EXCEPT ![c] = w],
           UNCHANGED <<pendingError, gateQ, held>>,
           pc[c] \in {"idle", "gate", "key"},
           pc[c] = "idle" \/ wake[c] # "none",
           \A j \in got : holder[j] = c,
           InsideBatch(c), NeedsMet(c, w)
    PROVE  LaneInv'
<1> USE DEF LaneInv
<1>1. /\ pc' = [pc EXCEPT ![c] = "key"]
      /\ at' = [at EXCEPT ![c] = k]
  BY DEF LockKey
<1>2. \/ /\ holder[k] = NoCall /\ holder' = [holder EXCEPT ![k] = c]
         /\ wake' = [wake EXCEPT ![c] = "granted"] /\ keyQ' = keyQ
      \/ /\ keyQ' = [keyQ EXCEPT ![k] = Append(@, c)]
         /\ wake' = [wake EXCEPT ![c] = "none"] /\ holder' = holder
  BY DEF LockKey, KeyFree
<1>3. \A j \in Keys : keyQ[j] \in Seq(Calls) /\ Len(keyQ[j]) \in Nat
  BY DEF LockTypeOK
<1>4. \A j \in Keys : \A i \in 1 .. Len(keyQ[j]) : keyQ[j][i] # c /\ keyQ[j][i] \in Calls
  BY <1>3 DEF WaitersPending
<1>5. \A i \in 1 .. Len(gateQ) : gateQ[i] # c /\ gateQ[i] \in Calls
  BY DEF WaitersPending, LockTypeOK
<1>6. \A d \in Calls : d # c => /\ pc'[d] = pc[d] /\ wake'[d] = wake[d] /\ at'[d] = at[d]
                                /\ acquired'[d] = acquired[d] /\ wanted'[d] = wanted[d]
  BY <1>1, <1>2 DEF LockTypeOK
<1>7. /\ pc'[c] = "key" /\ at'[c] = k /\ acquired'[c] = got /\ wanted'[c] = w
  BY <1>1 DEF LockTypeOK
<1>8. /\ Len(Append(keyQ[k], c)) = Len(keyQ[k]) + 1 /\ Append(keyQ[k], c) \in Seq(Calls)
      /\ \A i \in 1 .. Len(keyQ[k]) : Append(keyQ[k], c)[i] = keyQ[k][i]
      /\ Append(keyQ[k], c)[Len(keyQ[k]) + 1] = c
  BY <1>3, AppendFacts
<1>9. LockTypeOK'
  <2>1. holder' \in [Keys -> Calls \cup {NoCall}]
    <3>1. holder \in [Keys -> Calls \cup {NoCall}]
      BY DEF LockTypeOK
    <3>2. CASE holder' = [holder EXCEPT ![k] = c]
      BY <3>1, <3>2
    <3> QED  BY <1>2, <3>1, <3>2
  <2>2. keyQ' \in [Keys -> Seq(Calls)]
    <3>1. CASE keyQ' = keyQ
      BY <3>1 DEF LockTypeOK
    <3>2. CASE keyQ' = [keyQ EXCEPT ![k] = Append(@, c)]
      BY <1>8, <3>2 DEF LockTypeOK
    <3> QED  BY <1>2, <3>1, <3>2
  <2>3. wake' \in [Calls -> {"none", "granted", "rejected"}]
    BY <1>2 DEF LockTypeOK
  <2> QED  BY <1>1, <2>1, <2>2, <2>3 DEF LockTypeOK
<1>10. WaitersPending'
  <2>1. \A d \in Calls : wake'[d] # "none" => Waiting(d)'
    BY <1>6, <1>7 DEF WaitersPending, Waiting
  <2>2. ASSUME NEW j \in Keys, keyQ'[j] = keyQ[j], NEW i \in 1 .. Len(keyQ'[j])
        PROVE  /\ pc'[keyQ'[j][i]] = "key" /\ wake'[keyQ'[j][i]] = "none"
               /\ at'[keyQ'[j][i]] = j
               /\ \A m \in 1 .. Len(keyQ'[j]) : keyQ'[j][i] = keyQ'[j][m] => i = m
    BY <1>4, <1>6, <2>2 DEF WaitersPending
  <2>3. ASSUME keyQ'[k] # keyQ[k], NEW i \in 1 .. Len(keyQ'[k])
        PROVE  /\ pc'[keyQ'[k][i]] = "key" /\ wake'[keyQ'[k][i]] = "none"
               /\ at'[keyQ'[k][i]] = k
               /\ \A m \in 1 .. Len(keyQ'[k]) : keyQ'[k][i] = keyQ'[k][m] => i = m
    <3>1. keyQ'[k] = Append(keyQ[k], c) /\ wake'[c] = "none"
      BY <1>2, <2>3 DEF LockTypeOK
    <3>2. \A m \in 1 .. Len(keyQ'[k]) : m \in 1 .. Len(keyQ[k]) \/ m = Len(keyQ[k]) + 1
      BY <1>3, <1>8, <3>1
    <3>3. CASE i = Len(keyQ[k]) + 1
      BY <1>4, <1>7, <1>8, <3>1, <3>2, <3>3
    <3>4. CASE i \in 1 .. Len(keyQ[k])
      BY <1>4, <1>6, <1>8, <3>1, <3>2, <3>4 DEF WaitersPending
    <3> QED  BY <3>2, <3>3, <3>4
  <2>4. \A j \in Keys : j # k => keyQ'[j] = keyQ[j]
    BY <1>2 DEF LockTypeOK
  <2>5. \A i \in 1 .. Len(gateQ') :
         /\ pc'[gateQ'[i]] = "gate" /\ wake'[gateQ'[i]] = "none"
         /\ \A j \in 1 .. Len(gateQ') : gateQ'[i] = gateQ'[j] => i = j
    BY <1>5, <1>6 DEF WaitersPending
  <2> QED  BY <2>1, <2>2, <2>3, <2>4, <2>5 DEF WaitersPending
<1>11. TicketsHoldKeys'
  <2>1. ASSUME NEW d \in Calls, NEW j \in acquired'[d] PROVE holder'[j] = d
    <3>1. holder[j] = d /\ j \in Keys
      BY <1>6, <1>7 DEF TicketsHoldKeys, LockTypeOK
    <3> QED  BY <1>2, <3>1 DEF LockTypeOK
  <2>2. \A d \in Calls : acquired'[d] # {} => pc'[d] \in {"key", "running"}
    BY <1>6, <1>7 DEF TicketsHoldKeys
  <2>3. ASSUME NEW d \in Calls, pc'[d] = "key"
        PROVE  at'[d] \in Keys /\ (wake'[d] = "granted" => holder'[at'[d]] = d)
    <3>1. CASE d = c
      BY <1>2, <1>7, <3>1 DEF LockTypeOK
    <3>2. CASE d # c
      BY <1>2, <1>6, <2>3, <3>2 DEF TicketsHoldKeys, LockTypeOK
    <3> QED  BY <3>1, <3>2
  <2> QED  BY <2>1, <2>2, <2>3 DEF TicketsHoldKeys
<1>12. HeldLanesCovered'
  BY <1>6 DEF HeldLanesCovered, Root
<1>13. NeedsCovered'
  <2>1. \A d \in Calls :
        /\ pc'[d] = "idle" => wanted'[d] = {}
        /\ pc'[d] = "running" => wanted'[d] = acquired'[d]
    BY <1>6, <1>7 DEF NeedsCovered
  <2>2. ASSUME NEW d \in Calls, pc'[d] \in {"gate", "key", "running"}
        PROVE  NeedsMet(d, wanted[d])'
    <3>1. Root(d) # d /\ pc'[Root(d)] = "running" =>
            pc[Root(d)] = "running" /\ acquired'[Root(d)] = acquired[Root(d)]
      BY <1>6, <1>7, RootFacts
    <3>2. NeedsMet(d, wanted'[d])
      BY <1>6, <1>7, <2>2 DEF NeedsCovered
    <3> QED  BY <3>1, <3>2, NeedsMetStep
  <2> QED  BY <2>1, <2>2 DEF NeedsCovered
<1>14. StepsInsideBatch'
  BY <1>6, <1>7, ScenarioAssumption
  DEF StepsInsideBatch, InsideBatch, Executing
<1> QED  BY <1>9, <1>10, <1>11, <1>12, <1>13, <1>14

(* A call that starts to run records what it holds.                        *)
LEMMA StartInv ==
    ASSUME LaneInv, NEW c \in Calls, NEW got \in SUBSET Keys, NEW jobs,
           Start(c, got, jobs),
           UNCHANGED <<pendingError, wanted, at, lockVars>>,
           pc[c] \in {"idle", "gate", "key"},
           pc[c] = "idle" \/ wake[c] # "none",
           wanted[c] = got,
           acquired[c] \subseteq got,
           \A j \in got : holder[j] = c,
           InsideBatch(c), NeedsMet(c, got)
    PROVE  LaneInv'
<1> USE DEF LaneInv
<1>1. /\ pc' = [pc EXCEPT ![c] = "running"]
      /\ acquired' = [acquired EXCEPT ![c] = got]
      /\ wake' = [wake EXCEPT ![c] = "none"]
      /\ held' = [held EXCEPT ![Root(c)] = @ \cup got \cup GatePass(c)]
      /\ UNCHANGED <<holder, keyQ, gateQ>>
  BY DEF Start, lockVars
<1>2. \A d \in Calls : d # c => /\ pc'[d] = pc[d] /\ wake'[d] = wake[d]
                                /\ acquired'[d] = acquired[d]
  BY <1>1 DEF LockTypeOK
<1>3. pc'[c] = "running" /\ wake'[c] = "none" /\ acquired'[c] = got
  BY <1>1 DEF LockTypeOK
<1>4. GatePass(c) \subseteq {GATE_KEY} /\ GATE_KEY \notin Keys
  BY KeysAssumption DEF GatePass
<1>5. LockTypeOK'
  BY <1>1, <1>4, RootFacts DEF LockTypeOK
<1>6. WaitersPending'
  <2>1. \A k \in Keys : \A i \in 1 .. Len(keyQ[k]) : keyQ[k][i] # c /\ keyQ[k][i] \in Calls
    BY DEF WaitersPending, LockTypeOK
  <2>2. \A i \in 1 .. Len(gateQ) : gateQ[i] # c /\ gateQ[i] \in Calls
    BY DEF WaitersPending, LockTypeOK
  <2>3. \A d \in Calls : wake'[d] # "none" => Waiting(d)'
    BY <1>2, <1>3 DEF WaitersPending, Waiting
  <2>4. \A k \in Keys : \A i \in 1 .. Len(keyQ'[k]) :
         /\ pc'[keyQ'[k][i]] = "key" /\ wake'[keyQ'[k][i]] = "none" /\ at'[keyQ'[k][i]] = k
         /\ \A j \in 1 .. Len(keyQ'[k]) : keyQ'[k][i] = keyQ'[k][j] => i = j
    BY <1>1, <1>2, <2>1 DEF WaitersPending
  <2>5. \A i \in 1 .. Len(gateQ') :
         /\ pc'[gateQ'[i]] = "gate" /\ wake'[gateQ'[i]] = "none"
         /\ \A j \in 1 .. Len(gateQ') : gateQ'[i] = gateQ'[j] => i = j
    BY <1>1, <1>2, <2>2 DEF WaitersPending
  <2> QED  BY <2>3, <2>4, <2>5 DEF WaitersPending
<1>7. TicketsHoldKeys'
  BY <1>1, <1>2, <1>3 DEF TicketsHoldKeys
<1>8. HeldLanesCovered'
  <2> SUFFICES ASSUME NEW x \in Calls, NEW k \in held'[x] \cap Keys
               PROVE  \E d \in Calls : Root(d) = x /\ pc'[d] = "running" /\ k \in acquired'[d]
    BY DEF HeldLanesCovered, Root
  <2>1. k \in held[x] \/ (x = Root(c) /\ k \in got)
    BY <1>1, <1>4, RootFacts DEF LockTypeOK
  <2>2. CASE k \in held[x]
    <3>1. PICK d \in Calls : Root(d) = x /\ pc[d] = "running" /\ k \in acquired[d]
      BY <2>2 DEF HeldLanesCovered
    <3> QED  BY <1>2, <3>1
  <2>3. CASE x = Root(c) /\ k \in got
    BY <1>3, <2>3
  <2> QED  BY <2>1, <2>2, <2>3
<1>9. NeedsCovered'
  <2>1. \A d \in Calls :
        /\ pc'[d] = "idle" => wanted'[d] = {}
        /\ pc'[d] = "running" => wanted'[d] = acquired'[d]
    BY <1>2, <1>3 DEF NeedsCovered
  <2>2. ASSUME NEW d \in Calls, pc'[d] \in {"gate", "key", "running"}
        PROVE  NeedsMet(d, wanted[d])'
    <3>1. Root(d) # d => Root(d) # c
      BY <1>2, <2>2, RootFacts DEF StepsInsideBatch, InsideBatch, Executing
    <3>2. Root(d) # d /\ pc'[Root(d)] = "running" =>
            pc[Root(d)] = "running" /\ acquired'[Root(d)] = acquired[Root(d)]
      BY <1>2, <3>1, RootFacts
    <3>3. NeedsMet(d, wanted'[d])
      BY <1>1, <1>2, <2>2 DEF NeedsCovered
    <3> QED  BY <3>2, <3>3, NeedsMetStep
  <2> QED  BY <2>1, <2>2 DEF NeedsCovered
<1>10. StepsInsideBatch'
  BY <1>2, <1>3, ScenarioAssumption
  DEF StepsInsideBatch, InsideBatch, Executing
<1> QED  BY <1>5, <1>6, <1>7, <1>8, <1>9, <1>10

(* Queueing at the gate, or passing it at once.                            *)
LEMMA LockGateInv ==
    ASSUME LaneInv, NEW c \in Calls, ArriveAtGate(c)
    PROVE  LaneInv'
<1> USE DEF LaneInv
<1>1. /\ pc' = [pc EXCEPT ![c] = "gate"]
      /\ wanted' = [wanted EXCEPT ![c] = StillWanted(c)]
      /\ \/ wake' = [wake EXCEPT ![c] = "granted"] /\ gateQ' = gateQ
         \/ wake' = wake /\ gateQ' = Append(gateQ, c)
      /\ UNCHANGED <<pendingError, acquired, at, holder, keyQ, held>>
  BY DEF ArriveAtGate, LockGate
<1>2. /\ pc[c] = "idle" /\ wake[c] = "none" /\ acquired[c] = {} /\ wanted[c] = {}
      /\ StillWanted(c) \in SUBSET Keys
      /\ InsideBatch(c) /\ NeedsMet(c, StillWanted(c))
  BY ArrivalFacts DEF ArriveAtGate
<1>3. \A d \in Calls : d # c => /\ pc'[d] = pc[d] /\ wake'[d] = wake[d]
                                /\ wanted'[d] = wanted[d]
  BY <1>1 DEF LockTypeOK
<1>4. pc'[c] = "gate" /\ wanted'[c] = StillWanted(c)
  BY <1>1 DEF LockTypeOK
<1>5. /\ gateQ \in Seq(Calls) /\ Len(gateQ) \in Nat
      /\ \A i \in 1 .. Len(gateQ) : gateQ[i] # c /\ gateQ[i] \in Calls
  BY <1>2 DEF WaitersPending, LockTypeOK
<1>6. \A k \in Keys : \A i \in 1 .. Len(keyQ[k]) : keyQ[k][i] # c /\ keyQ[k][i] \in Calls
  BY <1>2 DEF WaitersPending, LockTypeOK
<1>7. /\ Len(Append(gateQ, c)) = Len(gateQ) + 1 /\ Append(gateQ, c) \in Seq(Calls)
      /\ \A i \in 1 .. Len(gateQ) : Append(gateQ, c)[i] = gateQ[i]
      /\ Append(gateQ, c)[Len(gateQ) + 1] = c
  BY <1>5, AppendFacts
<1>8. LockTypeOK'
  BY <1>1, <1>2, <1>7 DEF LockTypeOK
<1>9. WaitersPending'
  <2>1. \A d \in Calls : wake'[d] # "none" => Waiting(d)'
    BY <1>3, <1>4 DEF WaitersPending, Waiting
  <2>2. \A k \in Keys : \A i \in 1 .. Len(keyQ'[k]) :
         /\ pc'[keyQ'[k][i]] = "key" /\ wake'[keyQ'[k][i]] = "none" /\ at'[keyQ'[k][i]] = k
         /\ \A j \in 1 .. Len(keyQ'[k]) : keyQ'[k][i] = keyQ'[k][j] => i = j
    BY <1>1, <1>3, <1>6 DEF WaitersPending
  <2>3. ASSUME NEW i \in 1 .. Len(gateQ')
        PROVE  /\ pc'[gateQ'[i]] = "gate" /\ wake'[gateQ'[i]] = "none"
               /\ \A j \in 1 .. Len(gateQ') : gateQ'[i] = gateQ'[j] => i = j
    <3>1. CASE gateQ' = gateQ
      BY <1>3, <1>5, <3>1 DEF WaitersPending
    <3>2. CASE gateQ' = Append(gateQ, c) /\ wake' = wake
      <4>1. \A m \in 1 .. Len(gateQ') : m \in 1 .. Len(gateQ) \/ m = Len(gateQ) + 1
        BY <1>5, <1>7, <3>2
      <4>2. CASE i = Len(gateQ) + 1
        BY <1>2, <1>4, <1>5, <1>7, <3>2, <4>1, <4>2
      <4>3. CASE i \in 1 .. Len(gateQ)
        BY <1>3, <1>5, <1>7, <3>2, <4>1, <4>3 DEF WaitersPending
      <4> QED  BY <4>1, <4>2, <4>3
    <3> QED  BY <1>1, <3>1, <3>2
  <2> QED  BY <2>1, <2>2, <2>3 DEF WaitersPending
<1>10. TicketsHoldKeys'
  BY <1>1, <1>2, <1>3, <1>4 DEF TicketsHoldKeys
<1>11. HeldLanesCovered'
  BY <1>1, <1>2, <1>3 DEF HeldLanesCovered, Root
<1>12. NeedsCovered'
  <2>1. \A d \in Calls :
        /\ pc'[d] = "idle" => wanted'[d] = {}
        /\ pc'[d] = "running" => wanted'[d] = acquired'[d]
    BY <1>1, <1>3, <1>4 DEF NeedsCovered
  <2>2. ASSUME NEW d \in Calls, pc'[d] \in {"gate", "key", "running"}
        PROVE  NeedsMet(d, wanted[d])'
    <3>1. Root(d) # d /\ pc'[Root(d)] = "running" =>
            pc[Root(d)] = "running" /\ acquired'[Root(d)] = acquired[Root(d)]
      BY <1>1, <1>3, <1>4, RootFacts
    <3>2. NeedsMet(d, wanted'[d])
      BY <1>2, <1>3, <1>4, <2>2 DEF NeedsCovered
    <3> QED  BY <3>1, <3>2, NeedsMetStep
  <2> QED  BY <2>1, <2>2 DEF NeedsCovered
<1>13. StepsInsideBatch'
  BY <1>2, <1>3, <1>4, ScenarioAssumption
  DEF StepsInsideBatch, InsideBatch, Executing
<1> QED  BY <1>8, <1>9, <1>10, <1>11, <1>12, <1>13

(* Taking a waiter out of its queue, and letting the ones behind it pass    *)
(* the gate, keeps the invariant.                                          *)
LEMMA DropWaiterInv ==
    ASSUME LaneInv, NEW c \in Calls, Waiting(c), DropWaiter(c),
           UNCHANGED <<pc, wanted, acquired, at, held>>
    PROVE  LaneInv'
<1> USE DEF LaneInv
<1>1. UNCHANGED holder /\ pc[c] \in {"gate", "key"} /\ (pc[c] = "key" => at[c] \in Keys)
  BY DEF DropWaiter, Waiting, TicketsHoldKeys, lockVars
<1>2. gateQ \in Seq(Calls) /\ Len(gateQ) \in Nat
      /\ \A k \in Keys : keyQ[k] \in Seq(Calls) /\ Len(keyQ[k]) \in Nat
  BY DEF LockTypeOK
<1>3. /\ HeldLanesCovered' /\ NeedsCovered' /\ StepsInsideBatch'
  BY DEF HeldLanesCovered, NeedsCovered, NeedsMet, StepsInsideBatch, InsideBatch,
         Executing, Root
<1>4. CASE wake[c] # "none"
  <2>1. /\ pendingError' = [pendingError EXCEPT ![c] = TRUE]
        /\ UNCHANGED <<wake, keyQ, gateQ>>
    BY <1>4 DEF DropWaiter, lockVars
  <2>2. LockTypeOK'
    BY <1>1, <2>1 DEF LockTypeOK
  <2>3. WaitersPending' /\ TicketsHoldKeys'
    BY <1>1, <2>1 DEF WaitersPending, Waiting, TicketsHoldKeys
  <2> QED  BY <1>3, <2>2, <2>3
<1>5. CASE wake[c] = "none" /\ pc[c] = "key"
  <2> DEFINE k == at[c]
  <2>1. PICK i \in 1 .. Len(keyQ[k]) :
          /\ keyQ[k][i] = c
          /\ keyQ' = [keyQ EXCEPT ![k] = RemoveAt(@, i)]
    BY <1>5 DEF DropWaiter
  <2>2. /\ wake' = [wake EXCEPT ![c] = "rejected"]
        /\ UNCHANGED <<pendingError, gateQ>> /\ k \in Keys
    BY <1>1, <1>5 DEF DropWaiter
  <2> HIDE DEF k
  <2>3. /\ keyQ'[k] \in Seq(Calls) /\ Len(keyQ'[k]) = Len(keyQ[k]) - 1
        /\ \A j \in 1 .. Len(keyQ[k]) - 1 :
             keyQ'[k][j] = keyQ[k][IF j < i THEN j ELSE j + 1]
        /\ \A m \in Keys : m # k => keyQ'[m] = keyQ[m]
    <3>1. keyQ'[k] = RemoveAt(keyQ[k], i) /\ \A m \in Keys : m # k => keyQ'[m] = keyQ[m]
      BY <2>1, <2>2 DEF LockTypeOK
    <3>2. keyQ[k] \in Seq(Calls)
      BY <1>2, <2>2
    <3> QED  BY <3>1, <3>2, RemoveAtFacts
  <2>4. LockTypeOK'
    <3>1. keyQ' \in [Keys -> Seq(Calls)]
      BY <2>1, <2>2, <2>3 DEF LockTypeOK
    <3> QED  BY <1>1, <2>2, <3>1 DEF LockTypeOK
  <2>5. \A d \in Calls : d # c => wake'[d] = wake[d]
    BY <2>2 DEF LockTypeOK
  <2>6. WaitersPending'
    <3>1. \A d \in Calls : wake'[d] # "none" => Waiting(d)'
      BY <1>1, <2>5 DEF WaitersPending, Waiting
    <3>2. ASSUME NEW m \in Keys, NEW j \in 1 .. Len(keyQ'[m])
          PROVE  /\ pc'[keyQ'[m][j]] = "key" /\ wake'[keyQ'[m][j]] = "none"
                 /\ at'[keyQ'[m][j]] = m
                 /\ \A h \in 1 .. Len(keyQ'[m]) : keyQ'[m][j] = keyQ'[m][h] => j = h
      <4>1. CASE m # k
        <5>1. keyQ'[m] = keyQ[m] /\ keyQ[m][j] \in Calls /\ at[keyQ[m][j]] = m
          BY <1>2, <2>3, <3>2, <4>1 DEF WaitersPending
        <5>2. keyQ[m][j] # c
          BY <4>1, <5>1 DEF k
        <5> QED  BY <2>5, <3>2, <5>1, <5>2 DEF WaitersPending
      <4>2. CASE m = k
        <5> DEFINE old(h) == IF h < i THEN h ELSE h + 1
        <5>1. \A h \in 1 .. Len(keyQ'[k]) :
                /\ old(h) \in 1 .. Len(keyQ[k]) /\ old(h) # i
                /\ keyQ'[k][h] = keyQ[k][old(h)]
          BY <1>2, <2>2, <2>3
        <5>2. \A h, g \in 1 .. Len(keyQ'[k]) : old(h) = old(g) => h = g
          BY <1>2, <2>2, <2>3
        <5>3. old(j) \in 1 .. Len(keyQ[k]) /\ keyQ'[k][j] = keyQ[k][old(j)]
              /\ old(j) # i
          BY <3>2, <4>2, <5>1
        <5> HIDE DEF old
        <5>4. keyQ[k][old(j)] \in Calls /\ keyQ[k][old(j)] # c
          BY <1>2, <2>1, <2>2, <5>3 DEF WaitersPending
        <5>5. /\ pc[keyQ[k][old(j)]] = "key" /\ wake[keyQ[k][old(j)]] = "none"
              /\ at[keyQ[k][old(j)]] = k
          BY <2>2, <5>3 DEF WaitersPending
        <5>6. ASSUME NEW h \in 1 .. Len(keyQ'[k]), keyQ'[k][j] = keyQ'[k][h]
              PROVE  j = h
          <6>1. /\ old(h) \in 1 .. Len(keyQ[k])
                /\ keyQ[k][old(j)] = keyQ[k][old(h)]
            BY <5>1, <5>3, <5>6
          <6>2. old(j) = old(h)
            BY <2>2, <5>3, <6>1 DEF WaitersPending
          <6> QED  BY <3>2, <4>2, <5>2, <5>6, <6>2
        <5> QED  BY <2>5, <4>2, <5>3, <5>4, <5>5, <5>6
      <4> QED  BY <4>1, <4>2
    <3>3. \A j \in 1 .. Len(gateQ) : gateQ[j] # c /\ gateQ[j] \in Calls
      BY <1>2, <1>5 DEF WaitersPending
    <3>4. \A j \in 1 .. Len(gateQ') :
            /\ pc'[gateQ'[j]] = "gate" /\ wake'[gateQ'[j]] = "none"
            /\ \A h \in 1 .. Len(gateQ') : gateQ'[j] = gateQ'[h] => j = h
      BY <2>2, <2>5, <3>3 DEF WaitersPending
    <3> QED  BY <3>1, <3>2, <3>4 DEF WaitersPending
  <2>7. TicketsHoldKeys'
    BY <1>1, <2>2, <2>5 DEF TicketsHoldKeys, LockTypeOK
  <2> QED  BY <1>3, <2>4, <2>6, <2>7
<1>6. CASE wake[c] = "none" /\ pc[c] = "gate"
  <2>1. PICK i \in 1 .. Len(gateQ) :
          LET rest == RemoveAt(gateQ, i)
              passed == Passed(rest, shared, exclusive)
          IN  /\ gateQ[i] = c
              /\ PumpGate(rest, shared, exclusive)
              /\ wake' = [d \in Calls |-> IF d = c THEN "rejected"
                                          ELSE IF d \in ToSet(passed) THEN "granted"
                                          ELSE wake[d]]
    BY <1>6 DEF DropWaiter
  <2>2. UNCHANGED <<pendingError, keyQ>>
    BY <1>6 DEF DropWaiter
  <2> DEFINE rest == RemoveAt(gateQ, i)
  <2>3. /\ rest \in Seq(Calls) /\ Len(rest) = Len(gateQ) - 1
        /\ \A j \in 1 .. Len(gateQ) - 1 : rest[j] = gateQ[IF j < i THEN j ELSE j + 1]
    BY <1>2, RemoveAtFacts
  <2> HIDE DEF rest
  <2>4. PumpGate(rest, shared, exclusive)
    BY <2>1 DEF rest
  <2> DEFINE n == Admitted(rest, shared, exclusive)
  <2>5. /\ n \in 0 .. Len(rest)
        /\ ToSet(SubSeq(rest, 1, n)) = {rest[j] : j \in 1 .. n}
        /\ SubSeq(rest, n + 1, Len(rest)) \in Seq(Calls)
        /\ Len(SubSeq(rest, n + 1, Len(rest))) = Len(rest) - n
        /\ \A j \in 1 .. Len(rest) - n : SubSeq(rest, n + 1, Len(rest))[j] = rest[n + j]
    BY <2>3, PassFacts
  <2> HIDE DEF n
  <2>6. /\ gateQ' \in Seq(Calls)
        /\ Len(gateQ') = Len(rest) - n
        /\ \A j \in 1 .. Len(gateQ') : gateQ'[j] = rest[n + j]
    <3>1. gateQ' = SubSeq(rest, n + 1, Len(rest))
      BY <2>4 DEF PumpGate, n
    <3> QED  BY <2>5, <3>1
  <2>7. wake' = [d \in Calls |-> IF d = c THEN "rejected"
                                 ELSE IF d \in {rest[j] : j \in 1 .. n} THEN "granted"
                                 ELSE wake[d]]
    <3>1. Passed(rest, shared, exclusive) = SubSeq(rest, 1, n)
      BY DEF Passed, n
    <3> QED  BY <2>1, <2>5, <3>1 DEF rest
  <2>8. \A j \in 1 .. Len(rest) :
          /\ rest[j] \in Calls /\ rest[j] # c
          /\ pc[rest[j]] = "gate" /\ wake[rest[j]] = "none"
          /\ \A h \in 1 .. Len(rest) : rest[j] = rest[h] => j = h
    <3> DEFINE old(h) == IF h < i THEN h ELSE h + 1
    <3>1. \A h \in 1 .. Len(rest) :
            /\ old(h) \in 1 .. Len(gateQ) /\ old(h) # i /\ rest[h] = gateQ[old(h)]
      BY <1>2, <2>3
    <3>2. \A h, g \in 1 .. Len(rest) : old(h) = old(g) => h = g
      BY <1>2, <2>3
    <3> HIDE DEF old
    <3>3. gateQ[i] = c
      BY <2>1
    <3>4. ASSUME NEW j \in 1 .. Len(rest)
          PROVE  /\ rest[j] \in Calls /\ rest[j] # c
                 /\ pc[rest[j]] = "gate" /\ wake[rest[j]] = "none"
      BY <1>2, <3>1, <3>3 DEF WaitersPending
    <3>5. ASSUME NEW j \in 1 .. Len(rest), NEW h \in 1 .. Len(rest), rest[j] = rest[h]
          PROVE  j = h
      <4>1. /\ old(j) \in 1 .. Len(gateQ) /\ old(h) \in 1 .. Len(gateQ)
            /\ gateQ[old(j)] = gateQ[old(h)]
        BY <3>1, <3>5
      <4>2. old(j) = old(h)
        BY <4>1 DEF WaitersPending
      <4> QED  BY <3>2, <4>2
    <3> QED  BY <3>4, <3>5
  <2>9. LockTypeOK'
    BY <1>1, <2>2, <2>6, <2>7 DEF LockTypeOK
  <2>10. WaitersPending'
    <3>1. \A d \in Calls : wake'[d] # "none" => Waiting(d)'
      <4>1. \A j \in 1 .. n : pc[rest[j]] = "gate"
        BY <2>5, <1>2, <2>3, <2>8
      <4> QED  BY <1>1, <2>7, <4>1 DEF WaitersPending, Waiting
    <3>2. \A k \in Keys : \A j \in 1 .. Len(keyQ[k]) :
            keyQ[k][j] \in Calls /\ pc[keyQ[k][j]] = "key"
      BY <1>2 DEF WaitersPending
    <3>3. \A j \in 1 .. n : pc[rest[j]] = "gate"
      BY <2>5, <2>3, <2>8, <1>2
    <3>4. \A d \in Calls : pc[d] = "key" => wake'[d] = wake[d]
      BY <1>6, <2>7, <3>3
    <3>5. \A k \in Keys : \A j \in 1 .. Len(keyQ'[k]) :
            /\ pc'[keyQ'[k][j]] = "key" /\ wake'[keyQ'[k][j]] = "none"
            /\ at'[keyQ'[k][j]] = k
            /\ \A h \in 1 .. Len(keyQ'[k]) : keyQ'[k][j] = keyQ'[k][h] => j = h
      BY <2>2, <3>2, <3>4 DEF WaitersPending
    <3>6. ASSUME NEW j \in 1 .. Len(gateQ')
          PROVE  /\ pc'[gateQ'[j]] = "gate" /\ wake'[gateQ'[j]] = "none"
                 /\ \A h \in 1 .. Len(gateQ') : gateQ'[j] = gateQ'[h] => j = h
      <4>1. \A h \in 1 .. Len(gateQ') :
              n + h \in 1 .. Len(rest) /\ n + h \notin 1 .. n /\ gateQ'[h] = rest[n + h]
        BY <2>5, <1>2, <2>3, <2>6
      <4>2. rest[n + j] \notin {rest[h] : h \in 1 .. n}
        <5>1. ASSUME NEW h \in 1 .. n, rest[n + j] = rest[h] PROVE FALSE
          <6>1. h \in 1 .. Len(rest)
            BY <2>5, <1>2, <2>3
          <6>2. n + j = h
            BY <2>8, <3>6, <4>1, <5>1, <6>1
          <6> QED  BY <3>6, <4>1, <6>2
        <5> QED  BY <5>1
      <4>3. pc'[gateQ'[j]] = "gate" /\ wake'[gateQ'[j]] = "none"
        BY <2>7, <2>8, <3>6, <4>1, <4>2
      <4>4. ASSUME NEW h \in 1 .. Len(gateQ'), gateQ'[j] = gateQ'[h] PROVE j = h
        <5>1. n + j = n + h
          BY <2>5, <2>8, <3>6, <4>1, <4>4
        <5> QED  BY <2>5, <1>2, <2>3, <2>6, <3>6, <5>1
      <4> QED  BY <4>3, <4>4
    <3> QED  BY <3>1, <3>5, <3>6 DEF WaitersPending
  <2>11. TicketsHoldKeys'
    <3>1. \A j \in 1 .. n : pc[rest[j]] = "gate"
      BY <2>5, <2>3, <2>8, <1>2
    <3>2. \A d \in Calls : pc[d] = "key" => wake'[d] = wake[d]
      BY <1>6, <2>7, <3>1
    <3> QED  BY <1>1, <3>2 DEF TicketsHoldKeys
  <2> QED  BY <1>3, <2>9, <2>10, <2>11
<1> QED  BY <1>1, <1>4, <1>5, <1>6

(* A call that is refused, or whose orphaned handler returns, holds nothing. *)
LEMMA EndInv ==
    ASSUME LaneInv, NEW c \in Calls, NEW p \in {"failed", "done"},
           pc' = [pc EXCEPT ![c] = p],
           pc[c] \in {"idle", "orphaned"},
           \A d \in Calls : Parent[d] = c
             => pc[d] \notin {"gate", "key", "running", "orphaned"},
           UNCHANGED <<wake, pendingError, wanted, acquired, at, holder, keyQ, gateQ, held>>
    PROVE  LaneInv'
<1> USE DEF LaneInv
<1>1. pc'[c] = p /\ \A d \in Calls : d # c => pc'[d] = pc[d]
  BY DEF LockTypeOK
<1>2. LockTypeOK'
  BY DEF LockTypeOK
<1>3. WaitersPending'
  <2>1. \A k \in Keys : \A i \in 1 .. Len(keyQ[k]) : keyQ[k][i] # c /\ keyQ[k][i] \in Calls
    BY DEF WaitersPending, LockTypeOK
  <2>2. \A i \in 1 .. Len(gateQ) : gateQ[i] # c /\ gateQ[i] \in Calls
    BY DEF WaitersPending, LockTypeOK
  <2> QED  BY <1>1, <2>1, <2>2 DEF WaitersPending, Waiting
<1>4. TicketsHoldKeys' /\ HeldLanesCovered'
  BY <1>1 DEF TicketsHoldKeys, HeldLanesCovered, Root
<1>5. NeedsCovered'
  <2>1. ASSUME NEW d \in Calls, pc'[d] \in {"gate", "key", "running"}
        PROVE  NeedsMet(d, wanted[d])'
    <3>1. Root(d) # d /\ pc'[Root(d)] = "running" =>
            pc[Root(d)] = "running" /\ acquired'[Root(d)] = acquired[Root(d)]
      BY <1>1, RootFacts
    <3>2. NeedsMet(d, wanted'[d])
      BY <1>1, <2>1 DEF NeedsCovered
    <3> QED  BY <3>1, <3>2, NeedsMetStep
  <2>2. \A d \in Calls :
          /\ pc'[d] = "idle" => wanted'[d] = {}
          /\ pc'[d] = "running" => wanted'[d] = acquired'[d]
    BY <1>1 DEF NeedsCovered
  <2> QED  BY <2>1, <2>2 DEF NeedsCovered
<1>6. StepsInsideBatch'
  BY <1>1, ScenarioAssumption DEF StepsInsideBatch, InsideBatch, Executing
<1> QED  BY <1>2, <1>3, <1>4, <1>5, <1>6

(* The invariant is strong enough.                                         *)
LEMMA InvExclusion == LaneInv => LaneExclusion
<1> SUFFICES ASSUME LaneInv, NEW c \in Calls, NEW d \in Calls,
                    Protected(c), Protected(d), Root(c) # Root(d),
                    NEW k \in Need[c] \cap Need[d]
             PROVE  FALSE
  BY ScenarioAssumption DEF LaneExclusion
<1>1. \A e \in Calls : Protected(e) /\ k \in Need[e]
          => /\ k \in Keys
             /\ holder[k] \in {e, Root(e)}
  BY RootFacts, ScenarioAssumption
  DEF LaneInv, LockTypeOK, NeedsCovered, NeedsMet, TicketsHoldKeys, Protected
<1>2. \A e \in Calls : Protected(e) /\ k \in Need[e] => Root(holder[k]) = Root(e)
  BY <1>1, RootFacts
<1> QED  BY <1>2

(* Each action preserves the invariant: it either starts a call, moves it    *)
(* from lane to lane, or ends it.                                           *)
LEMMA StepInv == LaneInv /\ [Next]_vars => LaneInv'
<1> SUFFICES ASSUME LaneInv, [Next]_vars PROVE LaneInv'
  OBVIOUS
<1> DEFINE Over(c) == \A d \in Calls : Parent[d] = c
                        => pc[d] \notin {"gate", "key", "running", "orphaned"}
<1>1. \A c \in Calls : ~Executing(c) => Over(c)
  BY ScenarioAssumption DEF LaneInv, StepsInsideBatch, InsideBatch
<1>2. ASSUME NEW c \in Calls, ArriveRefused(c) PROVE LaneInv'
  <2>1. pc[c] = "idle" /\ Over(c)
    BY <1>1, <1>2, ArrivalFacts DEF ArriveRefused, Executing
  <2> QED  BY <1>2, <2>1, EndInv DEF ArriveRefused, lockVars
<1>3. ASSUME NEW c \in Calls, ArriveAtGate(c) PROVE LaneInv'
  BY <1>3, LockGateInv
<1>4. ASSUME NEW c \in Calls, ArriveAtKeys(c) PROVE LaneInv'
  <2>1. PICK k \in Keys : First(k, StillWanted(c)) /\ LockKey(c, k, micro)
    BY <1>4 DEF ArriveAtKeys
  <2>2. /\ pc[c] = "idle" /\ acquired[c] = {} /\ StillWanted(c) \in SUBSET Keys
        /\ InsideBatch(c) /\ NeedsMet(c, StillWanted(c))
    BY <1>4, ArrivalFacts DEF ArriveAtKeys
  <2>3. acquired' = [acquired EXCEPT ![c] = {}]
    BY <1>4, <2>2 DEF ArriveAtKeys, LaneInv, LockTypeOK
  <2>4. /\ wanted' = [wanted EXCEPT ![c] = StillWanted(c)]
        /\ UNCHANGED <<pendingError, gateQ, held>>
    BY <1>4 DEF ArriveAtKeys
  <2>5. {} \in SUBSET Keys /\ \A j \in {} : holder[j] = c
    OBVIOUS
  <2> HIDE DEF Over
  <2> QED  BY <2>1, <2>2, <2>3, <2>4, <2>5, LockKeyInv
<1>5. ASSUME NEW c \in Calls, ArriveAndRun(c) PROVE LaneInv'
  <2>1. /\ pc[c] = "idle" /\ acquired[c] = {} /\ wanted[c] = {}
        /\ InsideBatch(c) /\ NeedsMet(c, {})
    BY <1>5, ArrivalFacts DEF ArriveAndRun
  <2>2. Start(c, {}, micro) /\ UNCHANGED <<pendingError, wanted, at, lockVars>>
    BY <1>5 DEF ArriveAndRun
  <2>3. {} \in SUBSET Keys /\ \A j \in {} : holder[j] = c
    OBVIOUS
  <2> QED  BY <2>1, <2>2, <2>3, StartInv
<1>6. \A c \in Calls : IsNextJob(c) =>
        /\ pc[c] \in {"gate", "key"} /\ wake[c] # "none"
        /\ Got(c) \in SUBSET Keys /\ acquired[c] \subseteq Got(c)
        /\ \A k \in Got(c) : holder[k] = c
        /\ InsideBatch(c) /\ NeedsMet(c, wanted[c])
  <2> TAKE c \in Calls
  <2> HAVE IsNextJob(c)
  <2>1. pc[c] \in {"gate", "key"} /\ wake[c] # "none"
    BY DEF IsNextJob, LaneInv, WaitersPending, Waiting
  <2>2. /\ Got(c) \in SUBSET Keys /\ acquired[c] \subseteq Got(c)
        /\ \A k \in Got(c) : holder[k] = c
    BY <2>1 DEF Got, LaneInv, LockTypeOK, TicketsHoldKeys
  <2>3. InsideBatch(c) /\ NeedsMet(c, wanted[c])
    BY <2>1 DEF LaneInv, StepsInsideBatch, NeedsCovered
  <2> QED  BY <2>1, <2>2, <2>3
<1>7. ASSUME NEW c \in Calls, ResumeRejected(c) PROVE LaneInv'
  <2>1. IsNextJob(c) /\ ReleaseTicket(c, Got(c), Tail(micro))
        /\ pc' = [pc EXCEPT ![c] = "failed"]
    BY <1>7 DEF ResumeRejected
  <2>2. Over(c)
    BY <1>1, <1>6, <2>1 DEF Executing
  <2> QED  BY <1>6, <2>1, <2>2, ReleaseInv
<1>8. ASSUME NEW c \in Calls, ResumeNextKey(c) PROVE LaneInv'
  <2>1. PICK k \in Keys : LockKey(c, k, Tail(micro))
    BY <1>8 DEF ResumeNextKey
  <2>2. /\ IsNextJob(c) /\ acquired' = [acquired EXCEPT ![c] = Got(c)]
        /\ UNCHANGED <<pendingError, gateQ, held, wanted>>
    BY <1>8 DEF ResumeNextKey
  <2>3. wanted' = [wanted EXCEPT ![c] = wanted[c]] /\ wanted[c] \in SUBSET Keys
    BY <2>2 DEF LaneInv, LockTypeOK
  <2>4. /\ pc[c] \in {"gate", "key"} /\ wake[c] # "none"
        /\ Got(c) \in SUBSET Keys /\ \A j \in Got(c) : holder[j] = c
        /\ InsideBatch(c) /\ NeedsMet(c, wanted[c])
    BY <1>6, <2>2
  <2> HIDE DEF Over
  <2> QED  BY <2>1, <2>2, <2>3, <2>4, LockKeyInv
<1>9. ASSUME NEW c \in Calls, ResumeStart(c) PROVE LaneInv'
  <2>1. /\ IsNextJob(c) /\ wanted[c] = Got(c) /\ Start(c, Got(c), Tail(micro))
        /\ UNCHANGED <<pendingError, wanted, at, lockVars>>
    BY <1>9 DEF ResumeStart
  <2>2. /\ pc[c] \in {"gate", "key"} /\ wake[c] # "none"
        /\ Got(c) \in SUBSET Keys /\ acquired[c] \subseteq Got(c)
        /\ \A k \in Got(c) : holder[k] = c
        /\ InsideBatch(c) /\ NeedsMet(c, Got(c))
    BY <1>6, <2>1
  <2> HIDE DEF Over
  <2> QED  BY <2>1, <2>2, StartInv
<1>10. \A c \in Calls : pc[c] = "running" =>
         /\ acquired[c] \in SUBSET Keys /\ acquired[c] \subseteq acquired[c]
         /\ \A k \in acquired[c] : holder[k] = c
  BY DEF LaneInv, LockTypeOK, TicketsHoldKeys
<1>11. ASSUME NEW c \in Calls, Finish(c) PROVE LaneInv'
  <2>1. Over(c)
    BY <1>11 DEF Finish, Steps, Settled
  <2>2. CASE pc[c] = "running"
    <3>1. ReleaseTicket(c, acquired[c], micro) /\ pc' = [pc EXCEPT ![c] = "done"]
      BY <1>11, <2>2 DEF Finish
    <3> QED  BY <1>10, <2>1, <2>2, <3>1, ReleaseInv
  <2>3. CASE pc[c] = "orphaned"
    BY <1>11, <2>1, <2>3, EndInv DEF Finish, lockVars
  <2> QED  BY <1>11, <2>2, <2>3 DEF Finish, Executing
<1>12. ASSUME NEW c \in Calls, Watchdog(c) PROVE LaneInv'
  <2>1. /\ ReleaseTicket(c, acquired[c], micro) /\ pc' = [pc EXCEPT ![c] = "orphaned"]
        /\ pc[c] = "running"
    BY <1>12 DEF Watchdog
  <2> QED  BY <1>10, <2>1, ReleaseInv
<1>13. ASSUME NEW x \in Calls, Abort(x) PROVE LaneInv'
  <2>1. UNCHANGED <<pc, wanted, acquired, at, held>>
    BY <1>13 DEF Abort
  <2>2. CASE \E c \in Calls : Root(c) = x /\ Waiting(c) /\ DropWaiter(c)
    BY <2>1, <2>2, DropWaiterInv
  <2>3. CASE UNCHANGED <<wake, pendingError, lockVars, micro>>
    BY <2>1, <2>3
    DEF lockVars, LaneInv, LockTypeOK, WaitersPending, Waiting, TicketsHoldKeys,
        HeldLanesCovered, NeedsCovered, NeedsMet, StepsInsideBatch, InsideBatch,
        Executing, Root
  <2> QED  BY <1>13, <2>2, <2>3 DEF Abort
<1>14. ASSUME NEW c \in Calls, AcquireTimeout(c) PROVE LaneInv'
  BY <1>14, DropWaiterInv DEF AcquireTimeout
<1>15. ASSUME UNCHANGED <<pc, wake, pendingError, wanted, acquired, at, lockVars, held>>
       PROVE  LaneInv'
  BY <1>15
  DEF lockVars, LaneInv, LockTypeOK, WaitersPending, Waiting, TicketsHoldKeys,
      HeldLanesCovered, NeedsCovered, NeedsMet, StepsInsideBatch, InsideBatch,
      Executing, Root
<1>16. ASSUME NEW x \in Calls, DeadlinePasses(x) PROVE LaneInv'
  BY <1>15, <1>16 DEF DeadlinePasses
<1>17. CASE UNCHANGED vars
  BY <1>15, <1>17 DEF vars
<1> HIDE DEF Over
<1> QED
  BY <1>2, <1>3, <1>4, <1>5, <1>7, <1>8, <1>9, <1>11, <1>12, <1>13, <1>14,
     <1>16, <1>17 DEF Next, AllSettled

(* The lane scheduler's bookkeeping is consistent in every reachable state:  *)
(* waiters really wait, tickets really hold their keys, heldLanes names only *)
(* lanes that are held, and a batch outlives its steps.                     *)
THEOREM LanesConsistent == Spec => []LaneInv
BY InitInv, StepInv, PTL DEF Spec

(* "Two calls on the same tab run one after another": no two calls of        *)
(* different contexts run on the same lane at once, for any number of calls, *)
(* keys and batches, whatever is aborted, late or given up.                 *)
THEOREM LanesExclude == Spec => []LaneExclusion
BY LanesConsistent, InvExclusion, PTL

-----------------------------------------------------------------------------
(* The gate, the holders and heldLanes.                                     *)

InGate(c) == c \in shared \/ exclusive = c
Active(c) == pc[c] \in {"gate", "key", "running", "orphaned"}

\* Who is in the gate waits no longer for it; an exclusive call is alone there.
GateHolders ==
    /\ shared \subseteq Calls \ Exclusive /\ exclusive \in Exclusive \cup {NoCall}
    /\ exclusive # NoCall => shared = {}
    /\ \A c \in Calls : InGate(c) => pc[c] \in {"key", "running"} \/ (pc[c] = "gate" /\ wake[c] = "granted")
    /\ \A c \in Calls : pc[c] = "gate" /\ wake[c] = "granted" => InGate(c)

\* A key is held by a call that has recorded it or is about to, and whoever waits,
\* waits for a holder.
KeyHolders ==
    /\ \A k \in Keys : keyQ[k] # <<>> => holder[k] # NoCall
    /\ \A k \in Keys : \A c \in Calls : holder[k] = c =>
         k \in acquired[c] \/ (pc[c] = "key" /\ wake[c] = "granted" /\ at[c] = k)

\* One step of a batch at a time, and not in the gate when the batch is.
BatchSteps ==
    /\ \A c, d \in Calls : Parent[c] # NoCall /\ Parent[c] = Parent[d] /\ Active(c) /\ Active(d) => c = d
    /\ \A c \in Calls : Parent[c] # NoCall /\ (pc[c] = "gate" \/ InGate(c)) => ~InGate(Parent[c])

\* c is in the gate, itself or by its batch.
PastIt(c) == InGate(c) \/ (Parent[c] # NoCall /\ (pc[Parent[c]] = "running" => InGate(Parent[c])))

\* Who waits for a key or has one has passed the gate.
PastGate ==
    /\ \A c \in Calls : pc[c] = "key" \/ (pc[c] = "running" /\ wanted[c] # {}) => PastIt(c)
    /\ \A c \in Exclusive : Parent[c] = NoCall /\ pc[c] = "running" => exclusive = c

\* What a call leaves behind: nothing to begin with, and finite sets of keys.
Tidy ==
    /\ \A c \in Calls : pc[c] = "idle" => ~pendingError[c]
    /\ \A c \in Calls : IsFiniteSet(acquired[c])

GateBlocked == gateQ # <<>> => ~CanGrant(Head(gateQ), shared, exclusive)

\* HeldLanesTruthful, lane by lane.
HeldExact ==
    \A x \in Calls : Root(x) = x =>
        /\ \A k \in Keys : k \in held[x] <=>
             \E d \in Calls : Root(d) = x /\ pc[d] = "running" /\ holder[k] = d
        /\ GATE_KEY \in held[x] <=>
             \E d \in Calls : Root(d) = x /\ pc[d] = "running" /\ InGate(d)

\* The jobs and signals of the scheduler.
JobTypeOK ==
    /\ aborted \subseteq Calls /\ late \subseteq Calls
    /\ micro \in Seq(Calls) /\ arrived \in Seq(Calls)

GateInv ==
    /\ JobTypeOK /\ GateHolders /\ KeyHolders /\ BatchSteps /\ PastGate /\ Tidy
    /\ GateBlocked /\ HeldExact


(* How far pumpGate goes: a grantable exclusive waiter passes alone, shared  *)
(* ones pass up to the next exclusive one, and whoever is next is blocked.   *)
LEMMA PassBlocks ==
    ASSUME NEW q \in Seq(Calls), NEW sh \in SUBSET (Calls \ Exclusive), NEW ex \in Exclusive \cup {NoCall},
           ex # NoCall => sh = {}
    PROVE  LET n == Admitted(q, sh, ex)
           IN  /\ n \in 0 .. Len(q)
               /\ \/ /\ \A i \in 1 .. n : q[i] \notin Exclusive /\ ex = NoCall
                     /\ n = 0 /\ q # << >> => ~CanGrant(q[1], sh, ex)
                     /\ n > 0 /\ n < Len(q) => q[n + 1] \in Exclusive
                  \/ n = 1 /\ q[1] \in Exclusive /\ sh = {} /\ ex = NoCall
<1> DEFINE n == Admitted(q, sh, ex)
           lead == {m \in 1 .. Len(q) : \A i \in 1 .. m : q[i] \notin Exclusive}
<1>1. Len(q) \in Nat /\ (q # << >> => 1 \in 1 .. Len(q) /\ Head(q) = q[1]) /\ (q = << >> => Len(q) = 0)
  OBVIOUS
<1>2. CASE q = << >> \/ ~CanGrant(Head(q), sh, ex)
  <2>1. n = 0
    BY <1>2 DEF Admitted
  <2> HIDE DEF n
  <2> QED  BY <1>1, <1>2, <2>1 DEF n
<1>3. CASE q # << >> /\ CanGrant(Head(q), sh, ex) /\ Head(q) \in Exclusive
  <2>1. n = 1
    BY <1>3 DEF Admitted
  <2>2. ex = NoCall /\ sh = {}
    BY <1>3 DEF CanGrant
  <2> HIDE DEF n
  <2> QED  BY <1>1, <1>3, <2>1, <2>2 DEF n
<1>4. CASE q # << >> /\ CanGrant(Head(q), sh, ex) /\ Head(q) \notin Exclusive
  <2>1. n = Cardinality(lead)
    BY <1>4 DEF Admitted
  <2>2. IsFiniteSet(lead) /\ n \in Nat
    <3>1. IsFiniteSet(1 .. Len(q))
      BY <1>1, FS_Interval
    <3> QED  BY <2>1, <3>1, FS_Subset, FS_CardinalityType
  <2>3. ASSUME NEW m \in lead PROVE 1 .. m \subseteq lead
    <3>1. m \in 1 .. Len(q) /\ \A i \in 1 .. m : q[i] \notin Exclusive
      OBVIOUS
    <3>2. ASSUME NEW i \in 1 .. m PROVE i \in lead
      <4>1. i \in 1 .. Len(q) /\ \A j \in 1 .. i : j \in 1 .. m
        BY <1>1, <3>1
      <4> QED  BY <3>1, <4>1
    <3> HIDE DEF lead
    <3> QED  BY <3>2
  <2>4. ASSUME NEW m \in lead PROVE m \in 1 .. n
    <3>1. m \in Nat /\ m >= 1 /\ IsFiniteSet(1 .. m) /\ Cardinality(1 .. m) = m
      BY <1>1, FS_Interval
    <3>2. m <= n
      <4> HIDE DEF n, lead
      <4> QED  BY <2>1, <2>2, <2>3, <3>1, FS_Subset
    <3> QED  BY <2>2, <3>1, <3>2
  <2>5. IsFiniteSet(1 .. n) /\ Cardinality(1 .. n) = n
    BY <2>2, FS_Interval
  <2>6. lead = 1 .. n
    <3> HIDE DEF n, lead
    <3>1. lead \subseteq 1 .. n
      BY <2>4
    <3> QED  BY <2>1, <2>5, <3>1, FS_Subset
  <2>7. 1 \in lead
    BY <1>1, <1>4
  <2>8. \A i \in 1 .. n : i \in 1 .. Len(q) /\ q[i] \notin Exclusive
    <3> TAKE i \in 1 .. n
    <3>1. i \in lead
      BY <2>6
    <3>2. i \in 1 .. i
      BY <2>2
    <3> QED  BY <3>1, <3>2
  <2>9. n > 0 /\ n <= Len(q)
    <3>1. n \in 1 .. n
      BY <2>2, <2>6, <2>7
    <3> QED  BY <1>1, <2>2, <2>8, <3>1
  <2>10. n < Len(q) => q[n + 1] \in Exclusive
    <3> SUFFICES ASSUME n < Len(q), q[n + 1] \notin Exclusive PROVE FALSE
      OBVIOUS
    <3>1. n + 1 \in 1 .. Len(q) /\ n + 1 \notin 1 .. n /\ \A i \in 1 .. n + 1 : i \in 1 .. n \/ i = n + 1
      BY <1>1, <2>2
    <3>2. \A i \in 1 .. n + 1 : q[i] \notin Exclusive
      BY <2>8, <3>1
    <3>3. n + 1 \in lead
      BY <3>1, <3>2
    <3> QED  BY <2>6, <3>1, <3>3
  <2>11. ex = NoCall
    BY <1>4 DEF CanGrant
  <2> HIDE DEF n, lead
  <2>12. n \in 0 .. Len(q)
    BY <1>1, <2>2, <2>9
  <2> QED  BY <2>2, <2>8, <2>9, <2>10, <2>11, <2>12 DEF n
<1> QED  BY <1>2, <1>3, <1>4

(* What pumpGate does: the first n waiters are in the gate, the next one may *)
(* not pass, and an exclusive call in the gate is alone there.               *)
LEMMA PumpFacts ==
    ASSUME NEW q \in Seq(Calls), NEW sh \in SUBSET (Calls \ Exclusive), NEW ex \in Exclusive \cup {NoCall},
           ex # NoCall => sh = {}, PumpGate(q, sh, ex)
    PROVE  \E n \in 0 .. Len(q) :
              /\ Passed(q, sh, ex) = SubSeq(q, 1, n)
              /\ ToSet(Passed(q, sh, ex)) = {q[i] : i \in 1 .. n}
              /\ gateQ' \in Seq(Calls) /\ Len(gateQ') = Len(q) - n
              /\ \A j \in 1 .. Len(gateQ') : gateQ'[j] = q[n + j]
              /\ shared' \subseteq Calls \ Exclusive /\ exclusive' \in Exclusive \cup {NoCall}
              /\ exclusive' # NoCall => shared' = {}
              /\ \A d \in Calls : InGate(d)' <=> d \in sh \/ ex = d \/ \E i \in 1 .. n : q[i] = d
              /\ GateBlocked'
<1>1. PICK n : n = Admitted(q, sh, ex)
  OBVIOUS
<1>2. /\ n \in 0 .. Len(q)
      /\ \/ /\ \A i \in 1 .. n : q[i] \notin Exclusive /\ ex = NoCall
            /\ n = 0 /\ q # << >> => ~CanGrant(q[1], sh, ex)
            /\ n > 0 /\ n < Len(q) => q[n + 1] \in Exclusive
         \/ n = 1 /\ q[1] \in Exclusive /\ sh = {} /\ ex = NoCall
  BY <1>1, PassBlocks
<1>3. /\ ToSet(SubSeq(q, 1, n)) = {q[i] : i \in 1 .. n}
      /\ SubSeq(q, n + 1, Len(q)) \in Seq(Calls)
      /\ Len(SubSeq(q, n + 1, Len(q))) = Len(q) - n
      /\ \A j \in 1 .. Len(q) - n : SubSeq(q, n + 1, Len(q))[j] = q[n + j]
  BY <1>1, PassFacts
<1>4. Len(q) \in Nat /\ \A i \in 1 .. Len(q) : q[i] \in Calls
  OBVIOUS
<1>5. PICK S : S = {q[i] : i \in 1 .. n}
  OBVIOUS
<1>6. /\ gateQ' = SubSeq(q, n + 1, Len(q)) /\ Passed(q, sh, ex) = SubSeq(q, 1, n)
      /\ shared' = sh \cup (S \ Exclusive)
      /\ exclusive' = IF S \cap Exclusive = {} THEN ex ELSE CHOOSE c \in S \cap Exclusive : TRUE
  BY <1>1, <1>3, <1>5 DEF PumpGate, Passed, GrantGate
<1>7. S \subseteq Calls /\ \A d : d \in S <=> \E i \in 1 .. n : q[i] = d
  BY <1>2, <1>4, <1>5
<1>8. gateQ' # << >> => n < Len(q) /\ Head(gateQ') = q[n + 1]
  <2> SUFFICES ASSUME gateQ' # << >> PROVE n < Len(q) /\ Head(gateQ') = q[n + 1]
    OBVIOUS
  <2>1. Head(gateQ') = gateQ'[1] /\ 1 \in 1 .. Len(gateQ')
    BY <1>3, <1>6, TailFacts
  <2> QED  BY <1>2, <1>3, <1>4, <1>6, <2>1
<1>9. CASE \A i \in 1 .. n : q[i] \notin Exclusive /\ ex = NoCall
  <2>1. S \cap Exclusive = {} /\ S \ Exclusive = S
    BY <1>7, <1>9
  <2>2. shared' = sh \cup S /\ exclusive' = ex
    BY <1>6, <2>1
  <2>3. \A d \in Calls : InGate(d)' <=> d \in sh \/ ex = d \/ \E i \in 1 .. n : q[i] = d
    BY <1>7, <2>2 DEF InGate
  <2>4. shared' \subseteq Calls \ Exclusive /\ (exclusive' # NoCall => shared' = {})
    <3>1. CASE n = 0
      <4>1. S = {}
        BY <1>5, <3>1
      <4> QED  BY <2>2, <4>1
    <3>2. CASE n > 0
      BY <1>2, <1>7, <1>9, <2>1, <2>2, <3>2
    <3> QED  BY <1>2, <3>1, <3>2
  <2>5. GateBlocked'
    <3> SUFFICES ASSUME gateQ' # << >> PROVE ~CanGrant(Head(gateQ'), shared', exclusive')
      BY DEF GateBlocked, CanGrant
    <3>1. CASE n = 0
      <4>1. S = {} /\ q # << >> /\ n + 1 = 1
        BY <1>2, <1>4, <1>5, <1>8, <3>1
      <4>2. ~CanGrant(q[1], sh, ex)
        BY <1>2, <3>1, <4>1
      <4> QED  BY <1>8, <2>2, <4>1, <4>2
    <3>2. CASE n > 0
      <4>1. q[1] \in S /\ q[n + 1] \in Exclusive
        <5>1. 1 \in 1 .. n
          BY <1>2, <3>2
        <5>2. q[1] \in S
          BY <1>7, <5>1
        <5> QED  BY <1>2, <1>8, <1>9, <3>2, <5>1, <5>2
      <4>2. shared' # {} /\ Head(gateQ') \in Exclusive
        BY <1>8, <2>2, <4>1
      <4> QED  BY <4>2 DEF CanGrant
    <3> QED  BY <1>2, <3>1, <3>2
  <2> QED  BY <1>2, <1>3, <1>6, <2>2, <2>3, <2>4, <2>5
<1>10. CASE n = 1 /\ q[1] \in Exclusive /\ sh = {} /\ ex = NoCall
  <2>1. S = {q[1]} /\ q[1] \in Calls
    BY <1>2, <1>4, <1>5, <1>10
  <2>2. shared' = {} /\ exclusive' = q[1]
    BY <1>6, <1>10, <2>1
  <2>3. \A d \in Calls : InGate(d)' <=> d \in sh \/ ex = d \/ \E i \in 1 .. n : q[i] = d
    BY <1>10, <2>2 DEF InGate
  <2>4. GateBlocked'
    BY <2>1, <2>2 DEF GateBlocked, CanGrant
  <2> QED  BY <1>2, <1>3, <1>6, <1>10, <2>2, <2>3, <2>4
<1>11. CASE n = 0
  <2>1. \A i \in 1 .. n : q[i] \notin Exclusive /\ ex = NoCall
    BY <1>11
  <2> QED  BY <1>9, <2>1
<1> QED  BY <1>2, <1>9, <1>10, <1>11

(* Numbering the elements of a finite set of numbers from the largest down   *)
(* numbers them all, each once.                                             *)
LEMMA NthFacts ==
    ASSUME NEW S \in SUBSET Int, IsFiniteSet(S)
    PROVE  LET Nth(i) == CHOOSE k \in S : Cardinality({j \in S : j >= k}) = i
           IN  /\ Cardinality(S) \in Nat
               /\ \A i \in 1 .. Cardinality(S) : Nth(i) \in S
               /\ \A i, j \in 1 .. Cardinality(S) : Nth(i) = Nth(j) => i = j
               /\ \A k \in S : \E i \in 1 .. Cardinality(S) : Nth(i) = k
<1> DEFINE up(k) == {j \in S : j >= k}
           rank == [k \in S |-> Cardinality(up(k))]
           N == Cardinality(S)
           Nth(i) == CHOOSE k \in S : Cardinality({j \in S : j >= k}) = i
<1>1. N \in Nat
  BY FS_CardinalityType
<1>2. ASSUME NEW k \in S PROVE IsFiniteSet(up(k)) /\ Cardinality(up(k)) \in 1 .. N
  <2>1. up(k) \in SUBSET S /\ k \in up(k)
    OBVIOUS
  <2> HIDE DEF up
  <2>2. IsFiniteSet(up(k)) /\ Cardinality(up(k)) <= N /\ Cardinality(up(k)) \in Nat
    BY <2>1, FS_Subset, FS_CardinalityType
  <2>3. Cardinality(up(k)) # 0
    BY <2>1, <2>2, FS_EmptySet
  <2>4. PICK n : n = Cardinality(up(k))
    OBVIOUS
  <2>5. n \in Nat /\ n <= N /\ n # 0
    BY <2>2, <2>3, <2>4
  <2> HIDE DEF N
  <2>6. n \in 1 .. N
    BY <1>1, <2>5
  <2> QED  BY <2>2, <2>4, <2>6
<1>3. ASSUME NEW k \in S, NEW m \in S, k < m PROVE rank[k] # rank[m]
  <2>1. \A j \in S : j \in Int
    OBVIOUS
  <2>2. k >= k /\ ~(k >= m) /\ \A j \in S : j >= m => j >= k
    BY <1>3, <2>1
  <2>3. up(m) \in SUBSET up(k) /\ k \in up(k) /\ k \notin up(m)
    BY <2>2
  <2> HIDE DEF up
  <2>4. Cardinality(up(k)) # Cardinality(up(m))
    BY <1>2, <2>3, FS_Subset
  <2> QED  BY <2>4
<1>4. rank \in Injection(S, 1 .. N)
  <2>1. rank \in [S -> 1 .. N]
    BY <1>2
  <2> HIDE DEF rank
  <2>2. \A k, m \in S : rank[k] = rank[m] => k = m
    BY <1>3
  <2> QED  BY <2>1, <2>2 DEF Injection, IsInjective
<1>5. rank \in Surjection(S, 1 .. N)
  <2>1. IsFiniteSet(1 .. N) /\ Cardinality(1 .. N) = N
    BY <1>1, FS_Interval
  <2> HIDE DEF rank
  <2> QED  BY <1>4, <2>1, FS_Injection
<1>6. /\ \A i \in 1 .. N : \E k \in S : rank[k] = i
      /\ \A k, m \in S : rank[k] = rank[m] => k = m
  <2> HIDE DEF rank, N
  <2> QED  BY <1>4, <1>5 DEF Injection, IsInjective, Surjection
<1>7. ASSUME NEW i \in 1 .. N PROVE Nth(i) \in S /\ rank[Nth(i)] = i
  <2>1. \E k \in S : Cardinality({j \in S : j >= k}) = i
    BY <1>6
  <2>2. Nth(i) \in S /\ Cardinality({j \in S : j >= Nth(i)}) = i
    BY <2>1
  <2> QED  BY <2>2
<1>8. ASSUME NEW k \in S PROVE rank[k] \in 1 .. N /\ Nth(rank[k]) = k
  <2>1. rank[k] \in 1 .. N
    BY <1>2
  <2> HIDE DEF rank, Nth
  <2> QED  BY <1>6, <1>7, <2>1
<1> HIDE DEF rank, Nth, N
<1>9. \A i, j \in 1 .. N : Nth(i) = Nth(j) => i = j
  BY <1>7
<1>10. \A k \in S : \E i \in 1 .. N : Nth(i) = k
  BY <1>8
<1> QED  BY <1>1, <1>7, <1>9, <1>10 DEF Nth, N

(* The waiters of the freed keys, one job each.                             *)
LEMMA HandedFacts ==
    ASSUME LockTypeOK, NEW freed \in SUBSET Keys, IsFiniteSet(freed)
    PROVE  /\ HandedInOrder(freed) \in Seq(Calls)
           /\ \A d : (\E i \in DOMAIN HandedInOrder(freed) : HandedInOrder(freed)[i] = d) <=>
                     \E k \in freed : keyQ[k] # <<>> /\ Head(keyQ[k]) = d
           /\ (\A k, m \in Handed(freed) : NextWaiter(k) = NextWaiter(m) => k = m) =>
              \A i, j \in DOMAIN HandedInOrder(freed) :
                 HandedInOrder(freed)[i] = HandedInOrder(freed)[j] => i = j
<1> DEFINE S == Handed(freed)
           N == Cardinality(S)
           Nth(i) == CHOOSE k \in S : Cardinality({j \in S : j >= k}) = i
           s == [i \in 1 .. N |-> NextWaiter(Nth(i))]
<1>1. S \in SUBSET Int /\ S \in SUBSET freed
  <2>1. \A k \in S : k \in freed
    BY DEF Handed
  <2> HIDE DEF S
  <2>2. \A k \in Keys : k \in Int
    BY KeysAssumption
  <2> QED  BY <2>1, <2>2
<1>2. IsFiniteSet(S)
  <2> HIDE DEF S
  <2> QED  BY <1>1, FS_Subset
<1>3. /\ N \in Nat
      /\ \A i \in 1 .. N : Nth(i) \in S
      /\ \A i, j \in 1 .. N : Nth(i) = Nth(j) => i = j
      /\ \A k \in S : \E i \in 1 .. N : Nth(i) = k
  <2> HIDE DEF S
  <2> QED  BY <1>1, <1>2, NthFacts
<1>4. HandedInOrder(freed) = s
  BY DEF HandedInOrder
<1>5. \A k \in S : NextWaiter(k) \in Calls /\ NextWaiter(k) = Head(keyQ[k])
  BY TailFacts DEF Handed, NextWaiter, LockTypeOK
<1> HIDE DEF Nth, N
<1>6. s \in Seq(Calls) /\ DOMAIN s = 1 .. N /\ \A i \in 1 .. N : s[i] = NextWaiter(Nth(i))
  <2>1. s \in [1 .. N -> Calls]
    BY <1>3, <1>5
  <2> QED  BY <1>3, <2>1, SeqDef
<1> HIDE DEF s
<1>7. \A d : (\E i \in 1 .. N : s[i] = d) <=> \E k \in S : NextWaiter(k) = d
  BY <1>3, <1>6
<1>8. \A d : (\E k \in S : NextWaiter(k) = d) <=>
             \E k \in freed : keyQ[k] # <<>> /\ Head(keyQ[k]) = d
  BY DEF Handed, NextWaiter
<1>9. (\A k, m \in S : NextWaiter(k) = NextWaiter(m) => k = m) =>
        \A i, j \in 1 .. N : s[i] = s[j] => i = j
  BY <1>3, <1>6
<1> QED  BY <1>4, <1>6, <1>7, <1>8, <1>9

(* Who is in the gate is at work and, when exclusive, alone.                 *)
LEMMA GateFacts ==
    ASSUME GateInv, NEW c \in Calls, InGate(c)
    PROVE  /\ pc[c] \in {"key", "running"} \/ (pc[c] = "gate" /\ wake[c] = "granted")
           /\ Active(c)
           /\ c \in Exclusive => exclusive = c
           /\ \A d \in Calls : exclusive = d /\ InGate(c) => c = d
BY DEF GateInv, GateHolders, InGate, Active

(* A context passes the gate once: a batch and its steps do not meet there.  *)
LEMMA OneInGate ==
    ASSUME GateInv, NEW c \in Calls, NEW d \in Calls,
           Root(c) = Root(d), InGate(c), InGate(d)
    PROVE  c = d
<1>1. CASE Root(c) = c
  <2>1. Root(d) # d => Parent[d] = c /\ Parent[d] # NoCall
    BY <1>1, RootFacts
  <2> QED  BY <1>1, <2>1 DEF GateInv, BatchSteps
<1>2. CASE Root(c) # c /\ Root(d) = d
  <2>1. Parent[c] = d /\ Parent[c] # NoCall
    BY <1>2, RootFacts
  <2> QED  BY <2>1 DEF GateInv, BatchSteps
<1>3. CASE Root(c) # c /\ Root(d) # d
  <2>1. Parent[c] = Parent[d] /\ Parent[c] # NoCall
    BY <1>3, RootFacts
  <2> QED  BY <2>1, GateFacts DEF GateInv, BatchSteps
<1> QED  BY <1>1, <1>2, <1>3

\* What releaseTicket(c) does to the locks: the first n waiters of the gate and
\* the first waiter of each key in got are granted, and nobody else.
Released(c, got, jobs, n) ==
    /\ ~InGate(c) => n = 0
    /\ \A i \in 1 .. n : /\ gateQ[i] \in Calls /\ gateQ[i] # c
                         /\ pc[gateQ[i]] = "gate" /\ wake[gateQ[i]] = "none"
    /\ gateQ' \in Seq(Calls) /\ Len(gateQ') = Len(gateQ) - n
    /\ \A j \in 1 .. Len(gateQ') : gateQ'[j] = gateQ[n + j]
    /\ shared' \subseteq Calls \ Exclusive /\ exclusive' \in Exclusive \cup {NoCall}
    /\ exclusive' # NoCall => shared' = {}
    /\ \A d \in Calls : InGate(d)' <=> (d # c /\ InGate(d)) \/ \E i \in 1 .. n : gateQ[i] = d
    /\ GateBlocked'
    /\ wake'[c] = "none"
    /\ \A d \in Calls : d # c => wake'[d] =
         IF \/ \E i \in 1 .. n : gateQ[i] = d
            \/ \E k \in got : keyQ[k] # <<>> /\ Head(keyQ[k]) = d
         THEN "granted" ELSE wake[d]
    /\ holder' = [k \in Keys |-> IF k \notin got THEN holder[k]
                    ELSE IF keyQ[k] = <<>> THEN NoCall ELSE Head(keyQ[k])]
    /\ keyQ' = [k \in Keys |-> IF k \in got /\ keyQ[k] # <<>>
                               THEN Tail(keyQ[k]) ELSE keyQ[k]]
    /\ micro' = jobs \o HandedInOrder(got) \o SubSeq(gateQ, 1, n)

(* releaseTicket grants the locks that way.                                 *)
LEMMA ReleaseFacts ==
    ASSUME LaneInv, GateInv, NEW c \in Calls, NEW got \in SUBSET Keys, NEW jobs,
           ReleaseTicket(c, got, jobs), \A k \in got : holder[k] = c,
           wake[c] # "none" \/ pc[c] = "running"
    PROVE  \E n \in 0 .. Len(gateQ) : Released(c, got, jobs, n)
<1> DEFINE freed  == {k \in got : holder[k] = c}
           inGate == c \in shared \/ exclusive = c
           sh     == shared \ {c}
           ex     == IF exclusive = c THEN NoCall ELSE exclusive
           passed == IF inGate THEN Passed(gateQ, sh, ex) ELSE <<>>
           woken  == {NextWaiter(k) : k \in Handed(freed)} \cup ToSet(passed)
<1>1. freed = got /\ (inGate <=> InGate(c))
  BY DEF InGate
<1>2. gateQ \in Seq(Calls) /\ Len(gateQ) \in Nat /\ \A i \in 1 .. Len(gateQ) : gateQ[i] \in Calls
  BY DEF LaneInv, LockTypeOK
<1>3. /\ inGate => PumpGate(gateQ, sh, ex)
      /\ ~inGate => UNCHANGED <<shared, exclusive, gateQ>>
      /\ wake' = [d \in Calls |-> IF d = c THEN "none"
                                  ELSE IF d \in woken THEN "granted" ELSE wake[d]]
      /\ micro' = jobs \o HandedInOrder(freed) \o passed
  BY DEF ReleaseTicket
<1>4. /\ holder' = [k \in Keys |-> IF k \notin got THEN holder[k]
                       ELSE IF keyQ[k] = <<>> THEN NoCall ELSE Head(keyQ[k])]
      /\ keyQ' = [k \in Keys |-> IF k \in got /\ keyQ[k] # <<>>
                                 THEN Tail(keyQ[k]) ELSE keyQ[k]]
  BY <1>1 DEF ReleaseTicket, PumpKeys, NextWaiter
<1>5. /\ shared \subseteq Calls \ Exclusive /\ exclusive \in Exclusive \cup {NoCall}
      /\ exclusive # NoCall => shared = {}
      /\ sh \in SUBSET (Calls \ Exclusive) /\ ex \in Exclusive \cup {NoCall}
      /\ ex # NoCall => sh = {}
      /\ \A d \in Calls : (d \in sh \/ ex = d) <=> (d # c /\ InGate(d))
  BY DEF GateInv, GateHolders, InGate
<1>6. ToSet(<<>>) = {} /\ SubSeq(gateQ, 1, 0) = <<>>
  BY <1>2 DEF ToSet
<1> HIDE DEF sh, ex
<1>7. \E n \in 0 .. Len(gateQ) :
        /\ ~InGate(c) => n = 0
        /\ passed = SubSeq(gateQ, 1, n)
        /\ ToSet(passed) = {gateQ[i] : i \in 1 .. n}
        /\ gateQ' \in Seq(Calls) /\ Len(gateQ') = Len(gateQ) - n
        /\ \A j \in 1 .. Len(gateQ') : gateQ'[j] = gateQ[n + j]
        /\ shared' \subseteq Calls \ Exclusive /\ exclusive' \in Exclusive \cup {NoCall}
        /\ exclusive' # NoCall => shared' = {}
        /\ \A d \in Calls : InGate(d)' <=>
             (d # c /\ InGate(d)) \/ \E i \in 1 .. n : gateQ[i] = d
        /\ GateBlocked'
  <2>1. CASE inGate
    <3>1. PumpGate(gateQ, sh, ex) /\ passed = Passed(gateQ, sh, ex)
      BY <1>3, <2>1
    <3> HIDE DEF passed, inGate
    <3>2. PICK n \in 0 .. Len(gateQ) :
            /\ Passed(gateQ, sh, ex) = SubSeq(gateQ, 1, n)
            /\ ToSet(Passed(gateQ, sh, ex)) = {gateQ[i] : i \in 1 .. n}
            /\ gateQ' \in Seq(Calls) /\ Len(gateQ') = Len(gateQ) - n
            /\ \A j \in 1 .. Len(gateQ') : gateQ'[j] = gateQ[n + j]
            /\ shared' \subseteq Calls \ Exclusive /\ exclusive' \in Exclusive \cup {NoCall}
            /\ exclusive' # NoCall => shared' = {}
            /\ \A d \in Calls : InGate(d)' <=>
                 d \in sh \/ ex = d \/ \E i \in 1 .. n : gateQ[i] = d
            /\ GateBlocked'
      BY <1>2, <1>5, <3>1, PumpFacts
    <3>3. \A d \in Calls : InGate(d)' <=>
             (d # c /\ InGate(d)) \/ \E i \in 1 .. n : gateQ[i] = d
      BY <1>5, <3>2
    <3> WITNESS n \in 0 .. Len(gateQ)
    <3> QED  BY <1>1, <2>1, <3>1, <3>2, <3>3
  <2>2. CASE ~inGate
    <3>1. UNCHANGED <<shared, exclusive, gateQ>> /\ passed = <<>>
      BY <1>3, <2>2
    <3> HIDE DEF passed, inGate
    <3>2. 0 \in 0 .. Len(gateQ) /\ 1 .. 0 = {} /\ \A j \in 1 .. Len(gateQ) : 0 + j = j
      BY <1>2
    <3>3. ToSet(passed) = {gateQ[i] : i \in 1 .. 0}
      BY <1>6, <3>1, <3>2
    <3>4. \A d \in Calls : InGate(d)' <=>
             (d # c /\ InGate(d)) \/ \E i \in 1 .. 0 : gateQ[i] = d
      BY <1>1, <2>2, <3>1, <3>2 DEF InGate
    <3>5. GateBlocked'
      BY <3>1 DEF GateInv, GateBlocked, CanGrant
    <3>6. Len(gateQ') = Len(gateQ) - 0 /\ \A j \in 1 .. Len(gateQ') : gateQ'[j] = gateQ[0 + j]
      BY <1>2, <3>1, <3>2
    <3> WITNESS 0 \in 0 .. Len(gateQ)
    <3> QED  BY <1>2, <1>5, <1>6, <3>1, <3>3, <3>4, <3>5, <3>6
  <2> QED  BY <2>1, <2>2
<1> HIDE DEF passed, inGate, woken, freed
<1>8. PICK n \in 0 .. Len(gateQ) :
        /\ ~InGate(c) => n = 0
        /\ passed = SubSeq(gateQ, 1, n)
        /\ ToSet(passed) = {gateQ[i] : i \in 1 .. n}
        /\ gateQ' \in Seq(Calls) /\ Len(gateQ') = Len(gateQ) - n
        /\ \A j \in 1 .. Len(gateQ') : gateQ'[j] = gateQ[n + j]
        /\ shared' \subseteq Calls \ Exclusive /\ exclusive' \in Exclusive \cup {NoCall}
        /\ exclusive' # NoCall => shared' = {}
        /\ \A d \in Calls : InGate(d)' <=>
             (d # c /\ InGate(d)) \/ \E i \in 1 .. n : gateQ[i] = d
        /\ GateBlocked'
  BY <1>7
<1>9. \A d : d \in woken <=> \/ \E i \in 1 .. n : gateQ[i] = d
                             \/ \E k \in got : keyQ[k] # <<>> /\ Head(keyQ[k]) = d
  BY <1>1, <1>8 DEF Handed, NextWaiter, woken
<1>10. \A i \in 1 .. n : i \in 1 .. Len(gateQ)
  BY <1>2
<1>11. \A i \in 1 .. Len(gateQ) : /\ gateQ[i] \in Calls /\ gateQ[i] # c
                                  /\ pc[gateQ[i]] = "gate" /\ wake[gateQ[i]] = "none"
  BY <1>2 DEF LaneInv, WaitersPending
<1>12. \A d \in Calls : d # c => wake'[d] =
          IF \/ \E i \in 1 .. n : gateQ[i] = d
             \/ \E k \in got : keyQ[k] # <<>> /\ Head(keyQ[k]) = d
          THEN "granted" ELSE wake[d]
  BY <1>3, <1>9
<1>13. wake'[c] = "none" /\ micro' = jobs \o HandedInOrder(got) \o SubSeq(gateQ, 1, n)
  BY <1>1, <1>3, <1>8
<1>14. Released(c, got, jobs, n)
  BY <1>4, <1>8, <1>10, <1>11, <1>12, <1>13 DEF Released
<1> QED  BY <1>14

(* The keys locked for a call are exactly those it has got.                  *)
LEMMA GotFacts ==
    ASSUME LaneInv, GateInv, NEW c \in Calls
    PROVE  /\ Got(c) \in SUBSET Keys /\ IsFiniteSet(Got(c)) /\ acquired[c] \subseteq Got(c)
           /\ \A k \in Keys : holder[k] = c <=> k \in Got(c)
           /\ pc[c] # "key" => Got(c) = acquired[c]
           /\ pc[c] \notin {"key", "running"} => Got(c) = {}
<1>1. acquired[c] \in SUBSET Keys /\ IsFiniteSet(acquired[c])
  BY DEF LaneInv, LockTypeOK, GateInv, Tidy
<1>2. IsFiniteSet(acquired[c] \cup {at[c]})
  BY <1>1, FS_AddElement
<1>3. Got(c) \in SUBSET Keys /\ IsFiniteSet(Got(c)) /\ acquired[c] \subseteq Got(c)
  BY <1>1, <1>2 DEF Got, LaneInv, TicketsHoldKeys
<1>4. \A k \in Keys : holder[k] = c => k \in Got(c)
  BY DEF Got, GateInv, KeyHolders
<1>5. \A k \in Got(c) : holder[k] = c
  BY DEF Got, LaneInv, TicketsHoldKeys
<1>6. pc[c] # "key" => Got(c) = acquired[c]
  BY DEF Got
<1>7. pc[c] \notin {"key", "running"} => acquired[c] = {}
  BY DEF LaneInv, TicketsHoldKeys
<1> QED  BY <1>3, <1>4, <1>5, <1>6, <1>7

(* Ending a ticket leaves the gate, the holders and heldLanes in order.      *)
LEMMA ReleaseGate ==
    ASSUME LaneInv, GateInv, NEW c \in Calls, NEW jobs \in Seq(Calls),
           NEW p \in {"failed", "orphaned", "done"},
           ReleaseTicket(c, Got(c), jobs), pc' = [pc EXCEPT ![c] = p],
           pc[c] \in {"gate", "key", "running"},
           wake[c] # "none" \/ pc[c] = "running",
           p = "orphaned" => pc[c] = "running",
           UNCHANGED arrived
    PROVE  GateInv'
<1>1. PICK got : got = Got(c)
  OBVIOUS
<1>2. /\ got \in SUBSET Keys /\ IsFiniteSet(got) /\ acquired[c] \subseteq got
      /\ \A k \in Keys : holder[k] = c <=> k \in got
      /\ \A k \in got : holder[k] = c
  BY <1>1, GotFacts
<1>3. ReleaseTicket(c, got, jobs)
  BY <1>1
<1>4. PICK n \in 0 .. Len(gateQ) : Released(c, got, jobs, n)
  BY <1>2, <1>3, ReleaseFacts
<1>5. /\ \A i \in 1 .. n : /\ gateQ[i] \in Calls /\ gateQ[i] # c
                           /\ pc[gateQ[i]] = "gate" /\ wake[gateQ[i]] = "none"
      /\ shared' \subseteq Calls \ Exclusive /\ exclusive' \in Exclusive \cup {NoCall}
      /\ exclusive' # NoCall => shared' = {}
      /\ \A d \in Calls : InGate(d)' <=> (d # c /\ InGate(d)) \/ \E i \in 1 .. n : gateQ[i] = d
      /\ GateBlocked'
      /\ wake'[c] = "none"
      /\ \A d \in Calls : d # c => wake'[d] =
           IF \/ \E i \in 1 .. n : gateQ[i] = d
              \/ \E k \in got : keyQ[k] # <<>> /\ Head(keyQ[k]) = d
           THEN "granted" ELSE wake[d]
      /\ holder' = [k \in Keys |-> IF k \notin got THEN holder[k]
                      ELSE IF keyQ[k] = <<>> THEN NoCall ELSE Head(keyQ[k])]
      /\ keyQ' = [k \in Keys |-> IF k \in got /\ keyQ[k] # <<>>
                                 THEN Tail(keyQ[k]) ELSE keyQ[k]]
      /\ micro' = jobs \o HandedInOrder(got) \o SubSeq(gateQ, 1, n)
  BY <1>4 DEF Released
<1>6. pc'[c] = p /\ \A d \in Calls : d # c => pc'[d] = pc[d]
  BY DEF LaneInv, LockTypeOK
<1>7. /\ acquired'[c] = {} /\ \A d \in Calls : d # c => acquired'[d] = acquired[d]
      /\ \A x \in Calls : held'[x] =
           IF x = Root(c) THEN held[x] \ (got \cup GatePass(c)) ELSE held[x]
      /\ UNCHANGED <<pendingError, wanted, at, aborted, late>>
  <2>1. /\ acquired' = [acquired EXCEPT ![c] = {}]
        /\ held' = [held EXCEPT ![Root(c)] = @ \ (got \cup GatePass(c))]
        /\ UNCHANGED <<pendingError, wanted, at, aborted, late>>
    BY <1>3 DEF ReleaseTicket
  <2>2. acquired \in [Calls -> SUBSET Keys] /\ held \in [Calls -> SUBSET (Keys \cup {GATE_KEY})]
    BY DEF LaneInv, LockTypeOK
  <2>3. Root(c) \in Calls
    BY RootFacts
  <2>4. acquired'[c] = {} /\ \A d \in Calls : d # c => acquired'[d] = acquired[d]
    BY <2>1, <2>2
  <2>5. \A x \in Calls : held'[x] =
          IF x = Root(c) THEN held[x] \ (got \cup GatePass(c)) ELSE held[x]
    BY <2>1, <2>2, <2>3
  <2> QED  BY <2>1, <2>4, <2>5
<1>8. \A k \in got : keyQ[k] # <<>> =>
        LET h == Head(keyQ[k])
        IN  h \in Calls /\ h # c /\ pc[h] = "key" /\ wake[h] = "none" /\ at[h] = k
  <2> SUFFICES ASSUME NEW k \in got, keyQ[k] # <<>>
               PROVE  LET h == Head(keyQ[k])
                      IN  h \in Calls /\ h # c /\ pc[h] = "key" /\ wake[h] = "none" /\ at[h] = k
    OBVIOUS
  <2>1. Head(keyQ[k]) = keyQ[k][1] /\ Head(keyQ[k]) \in Calls /\ 1 \in 1 .. Len(keyQ[k]) /\ k \in Keys
    BY <1>2, TailFacts DEF LaneInv, LockTypeOK
  <2> QED  BY <2>1 DEF LaneInv, WaitersPending
<1>9. \A d \in Calls : InGate(d)' /\ ~(d # c /\ InGate(d)) =>
        d # c /\ pc[d] = "gate" /\ wake[d] = "none" /\ wake'[d] = "granted"
  <2> SUFFICES ASSUME NEW d \in Calls, InGate(d)', ~(d # c /\ InGate(d))
               PROVE  d # c /\ pc[d] = "gate" /\ wake[d] = "none" /\ wake'[d] = "granted"
    OBVIOUS
  <2>1. PICK i \in 1 .. n : gateQ[i] = d
    BY <1>5
  <2>2. d # c /\ pc[d] = "gate" /\ wake[d] = "none"
    BY <1>5, <2>1
  <2> QED  BY <1>5, <2>1, <2>2
<1>10. \A d \in Calls : d # c /\ InGate(d) => InGate(d)'
  BY <1>5
<1> HIDE DEF InGate
<1>11. JobTypeOK'
  <2>1. HandedInOrder(got) \in Seq(Calls)
    BY <1>2, HandedFacts DEF LaneInv
  <2>2. SubSeq(gateQ, 1, n) \in Seq(Calls)
    <3>1. gateQ \in Seq(Calls) /\ Len(gateQ) \in Nat
      BY DEF LaneInv, LockTypeOK
    <3> QED  BY <3>1, <1>5
  <2>3. jobs \o HandedInOrder(got) \o SubSeq(gateQ, 1, n) \in Seq(Calls)
    BY <2>1, <2>2
  <2> QED  BY <1>5, <1>7, <2>3 DEF GateInv, JobTypeOK
<1>12. GateHolders'
  <2>1. ASSUME NEW d \in Calls, InGate(d)'
        PROVE  pc'[d] \in {"key", "running"} \/ (pc'[d] = "gate" /\ wake'[d] = "granted")
    <3>1. CASE d # c /\ InGate(d)
      BY <1>5, <1>6, <3>1 DEF GateInv, GateHolders
    <3> QED  BY <1>6, <1>9, <2>1, <3>1
  <2>2. ASSUME NEW d \in Calls, pc'[d] = "gate", wake'[d] = "granted" PROVE InGate(d)'
    <3>1. d # c /\ pc[d] = "gate"
      BY <1>6, <2>2
    <3>2. CASE wake[d] = "granted"
      BY <1>10, <3>1, <3>2 DEF GateInv, GateHolders
    <3>3. CASE wake[d] # "granted"
      <4>1. \A k \in got : keyQ[k] # <<>> => Head(keyQ[k]) # d
        BY <1>8, <3>1
      <4>2. \E i \in 1 .. n : gateQ[i] = d
        BY <1>5, <2>2, <3>1, <3>3, <4>1
      <4> QED  BY <1>5, <4>2
    <3> QED  BY <3>2, <3>3
  <2> QED  BY <1>5, <2>1, <2>2 DEF GateHolders
<1>13. KeyHolders'
  <2>1. \A k \in Keys : keyQ'[k] # <<>> => holder'[k] # NoCall
    BY <1>5, <1>8 DEF GateInv, KeyHolders
  <2>2. ASSUME NEW k \in Keys, NEW d \in Calls, holder'[k] = d
        PROVE  k \in acquired'[d] \/ (pc'[d] = "key" /\ wake'[d] = "granted" /\ at'[d] = k)
    <3>1. CASE k \notin got
      <4>1. holder[k] = d /\ d # c
        BY <1>2, <1>5, <2>2, <3>1
      <4>2. k \in acquired[d] \/ (pc[d] = "key" /\ wake[d] = "granted" /\ at[d] = k)
        BY <4>1 DEF GateInv, KeyHolders
      <4> QED  BY <1>5, <1>6, <1>7, <4>1, <4>2
    <3>2. CASE k \in got
      <4>1. keyQ[k] # <<>> /\ Head(keyQ[k]) = d
        BY <1>5, <2>2, <3>2
      <4> QED  BY <1>5, <1>6, <1>7, <1>8, <3>2, <4>1
    <3> QED  BY <3>1, <3>2
  <2> QED  BY <2>1, <2>2 DEF KeyHolders
<1>14. BatchSteps'
  <2>1. \A d \in Calls : Active(d)' => Active(d)
    BY <1>6 DEF Active
  <2>2. \A d \in Calls : InGate(d)' \/ pc'[d] = "gate" => InGate(d) \/ pc[d] = "gate"
    BY <1>6, <1>9
  <2>3. ASSUME NEW d \in Calls, Parent[d] # NoCall, pc'[d] = "gate" \/ InGate(d)'
        PROVE  ~InGate(Parent[d])'
    <3>1. ~InGate(Parent[d]) /\ Active(d) /\ Parent[d] \in Calls
      BY <2>2, <2>3, GateFacts, ScenarioAssumption DEF GateInv, BatchSteps, Active
    <3>2. pc[Parent[d]] # "gate"
      BY <2>3, <3>1 DEF Active, LaneInv, StepsInsideBatch, InsideBatch, Executing
    <3> QED  BY <1>9, <3>1, <3>2
  <2> QED  BY <2>1, <2>3 DEF GateInv, BatchSteps
<1>15. PastGate'
  <2>1. ASSUME NEW d \in Calls, pc'[d] = "key" \/ (pc'[d] = "running" /\ wanted'[d] # {})
        PROVE  PastIt(d)'
    <3>1. d # c /\ PastIt(d)
      BY <1>6, <1>7, <2>1 DEF GateInv, PastGate
    <3>2. CASE InGate(d)
      BY <1>10, <3>1, <3>2 DEF PastIt
    <3>3. CASE Parent[d] # NoCall /\ (pc[Parent[d]] = "running" => InGate(Parent[d]))
      BY <1>6, <1>10, <3>3, ScenarioAssumption DEF PastIt
    <3> QED  BY <3>1, <3>2, <3>3 DEF PastIt
  <2>2. ASSUME NEW d \in Exclusive, Parent[d] = NoCall, pc'[d] = "running"
        PROVE  exclusive' = d
    <3>1. d \in Calls /\ d # c /\ exclusive = d
      BY <1>6, <2>2, ScenarioAssumption DEF GateInv, PastGate
    <3>2. InGate(d)'
      BY <1>10, <3>1 DEF InGate
    <3> QED  BY <1>5, <3>2 DEF InGate
  <2> QED  BY <2>1, <2>2 DEF PastGate
<1>16. Tidy'
  <2>1. \A d \in Calls : IsFiniteSet(acquired'[d])
    BY <1>7, FS_EmptySet DEF GateInv, Tidy
  <2> QED  BY <1>6, <1>7, <2>1 DEF GateInv, Tidy
<1>17. HeldExact'
  <2> SUFFICES ASSUME NEW x \in Calls, Root(x) = x
               PROVE  /\ \A k \in Keys : k \in held'[x] <=>
                           \E d \in Calls : Root(d) = x /\ pc'[d] = "running" /\ holder'[k] = d
                      /\ GATE_KEY \in held'[x] <=>
                           \E d \in Calls : Root(d) = x /\ pc'[d] = "running" /\ InGate(d)'
    BY DEF HeldExact, Root
  <2>1. \A d \in Calls : pc'[d] = "running" <=> d # c /\ pc[d] = "running"
    BY <1>6
  <2>2. /\ \A k \in Keys : k \in held[x] <=>
             \E d \in Calls : Root(d) = x /\ pc[d] = "running" /\ holder[k] = d
        /\ GATE_KEY \in held[x] <=>
             \E d \in Calls : Root(d) = x /\ pc[d] = "running" /\ InGate(d)
    BY DEF GateInv, HeldExact
  <2>3. GATE_KEY \notin Keys
    BY KeysAssumption
  <2>4. GatePass(c) = IF InGate(c) THEN {GATE_KEY} ELSE {}
    BY DEF GatePass, InGate
  <2>5. \A k \in Keys, d \in Calls : d # c /\ pc[d] = "running" =>
           (holder'[k] = d <=> holder[k] = d)
    BY <1>2, <1>5, <1>8
  <2>6. \A d \in Calls : d # c /\ pc[d] = "running" => (InGate(d)' <=> InGate(d))
    BY <1>9, <1>10
  <2>7. ASSUME NEW k \in Keys
        PROVE  k \in held'[x] <=>
                 \E d \in Calls : Root(d) = x /\ pc'[d] = "running" /\ holder'[k] = d
    <3>1. (\E d \in Calls : Root(d) = x /\ pc'[d] = "running" /\ holder'[k] = d)
            <=> \E d \in Calls : Root(d) = x /\ d # c /\ pc[d] = "running" /\ holder[k] = d
      BY <2>1, <2>5
    <3>2. k \in held'[x] <=> k \in held[x] /\ ~(x = Root(c) /\ k \in got)
      BY <1>7, <2>3, <2>4
    <3> QED  BY <1>2, <2>2, <3>1, <3>2
  <2>8. GATE_KEY \in held'[x] <=>
          \E d \in Calls : Root(d) = x /\ pc'[d] = "running" /\ InGate(d)'
    <3>1. (\E d \in Calls : Root(d) = x /\ pc'[d] = "running" /\ InGate(d)')
            <=> \E d \in Calls : Root(d) = x /\ d # c /\ pc[d] = "running" /\ InGate(d)
      BY <2>1, <2>6
    <3>2. GATE_KEY \in held'[x] <=> GATE_KEY \in held[x] /\ ~(x = Root(c) /\ InGate(c))
      BY <1>2, <1>7, <2>3, <2>4
    <3>3. x = Root(c) /\ InGate(c) => \A d \in Calls : Root(d) = x /\ InGate(d) => d = c
      BY OneInGate
    <3> QED  BY <2>2, <3>1, <3>2, <3>3
  <2> QED  BY <2>7, <2>8
<1> QED  BY <1>5, <1>11, <1>12, <1>13, <1>14, <1>15, <1>16, <1>17 DEF GateInv

(* Asking for one more key leaves the gate alone and heldLanes exact.        *)
LEMMA LockKeyGate ==
    ASSUME LaneInv, GateInv, NEW c \in Calls, NEW k \in Keys, NEW jobs \in Seq(Calls),
           LockKey(c, k, jobs), acquired' = [acquired EXCEPT ![c] = Got(c)],
           UNCHANGED <<pendingError, shared, exclusive, gateQ, held, aborted, late>>,
           arrived' \in Seq(Calls),
           \A d \in Calls : d # c => wanted'[d] = wanted[d],
           pc[c] \in {"idle", "gate", "key"},
           \A d \in Calls : Parent[c] # NoCall /\ Parent[d] = Parent[c] /\ Active(d) => d = c,
           PastIt(c)
    PROVE  GateInv'
<1>1. PICK got : got = Got(c)
  OBVIOUS
<1>2. got \in SUBSET Keys /\ IsFiniteSet(got) /\ \A j \in Keys : holder[j] = c <=> j \in got
  BY <1>1, GotFacts
<1>3. /\ pc' = [pc EXCEPT ![c] = "key"] /\ at' = [at EXCEPT ![c] = k]
      /\ \/ /\ holder[k] = NoCall /\ holder' = [holder EXCEPT ![k] = c]
            /\ wake' = [wake EXCEPT ![c] = "granted"] /\ keyQ' = keyQ /\ keyQ[k] = <<>>
            /\ micro' = Append(jobs, c)
         \/ /\ holder[k] # NoCall \/ keyQ[k] # <<>>
            /\ keyQ' = [keyQ EXCEPT ![k] = Append(@, c)]
            /\ wake' = [wake EXCEPT ![c] = "none"] /\ holder' = holder
            /\ micro' = jobs
  BY DEF LockKey, KeyFree
<1>4. /\ pc'[c] = "key" /\ at'[c] = k /\ acquired'[c] = got
      /\ \A d \in Calls : d # c => /\ pc'[d] = pc[d] /\ wake'[d] = wake[d] /\ at'[d] = at[d]
                                   /\ acquired'[d] = acquired[d]
  BY <1>1, <1>3 DEF LaneInv, LockTypeOK
<1>5. \A d \in Calls : InGate(d)' <=> InGate(d)
  BY DEF InGate
<1>6. \A d \in Calls : pc'[d] = "running" <=> pc[d] = "running"
  BY <1>4
<1> HIDE DEF InGate
<1>7. JobTypeOK'
  <2>1. Append(jobs, c) \in Seq(Calls)
    BY AppendFacts
  <2>2. micro' \in Seq(Calls)
    BY <1>3, <2>1
  <2> QED  BY <2>2 DEF GateInv, JobTypeOK
<1>8. GateHolders'
  BY <1>4, <1>5 DEF GateInv, GateHolders
<1>9. KeyHolders'
  <2>1. ASSUME NEW j \in Keys, keyQ'[j] # <<>> PROVE holder'[j] # NoCall
    <3>1. holder[j] # NoCall => holder'[j] # NoCall
      BY <1>3 DEF LaneInv, LockTypeOK
    <3>2. holder[j] # NoCall
      BY <1>3, <2>1 DEF GateInv, KeyHolders, LaneInv, LockTypeOK
    <3> QED  BY <3>1, <3>2
  <2>2. ASSUME NEW j \in Keys, NEW d \in Calls, holder'[j] = d
        PROVE  j \in acquired'[d] \/ (pc'[d] = "key" /\ wake'[d] = "granted" /\ at'[d] = j)
    <3>1. CASE holder[j] = d
      BY <1>2, <1>4, <3>1 DEF GateInv, KeyHolders
    <3>2. CASE holder[j] # d
      <4>1. j = k /\ d = c /\ wake'[c] = "granted"
        BY <1>3, <2>2, <3>2 DEF LaneInv, LockTypeOK
      <4> QED  BY <1>4, <4>1
    <3> QED  BY <3>1, <3>2
  <2> QED  BY <2>1, <2>2 DEF KeyHolders
<1>10. BatchSteps'
  <2>1. \A d \in Calls : Active(d)' => Active(d) \/ d = c
    BY <1>4 DEF Active
  <2>2. \A d \in Calls : pc'[d] = "gate" => pc[d] = "gate"
    BY <1>4
  <2>3. \A d, e \in Calls : Parent[d] # NoCall /\ Parent[d] = Parent[e]
                             /\ Active(d)' /\ Active(e)' => d = e
    BY <2>1 DEF GateInv, BatchSteps
  <2>4. \A d \in Calls : Parent[d] # NoCall /\ (pc'[d] = "gate" \/ InGate(d)')
                          => ~InGate(Parent[d])'
    BY <1>5, <2>2, ScenarioAssumption DEF GateInv, BatchSteps
  <2> QED  BY <2>3, <2>4 DEF BatchSteps
<1>11. PastGate'
  <2>1. \A d \in Calls : PastIt(d) => PastIt(d)'
    BY <1>5, <1>6, ScenarioAssumption DEF PastIt
  <2>2. \A d \in Calls : pc'[d] = "key" \/ (pc'[d] = "running" /\ wanted'[d] # {}) => PastIt(d)'
    BY <1>4, <2>1 DEF GateInv, PastGate
  <2>3. \A d \in Exclusive : Parent[d] = NoCall /\ pc'[d] = "running" => exclusive' = d
    BY <1>6, ScenarioAssumption DEF GateInv, PastGate
  <2> QED  BY <2>2, <2>3 DEF PastGate
<1>12. Tidy'
  BY <1>2, <1>4 DEF GateInv, Tidy
<1>13. GateBlocked'
  BY DEF GateInv, GateBlocked, CanGrant
<1>14. HeldExact'
  <2>1. \A j \in Keys, d \in Calls : pc[d] = "running" => (holder'[j] = d <=> holder[j] = d)
    BY <1>3 DEF LaneInv, LockTypeOK
  <2> QED  BY <1>5, <1>6, <2>1 DEF GateInv, HeldExact, Root
<1> QED  BY <1>7, <1>8, <1>9, <1>10, <1>11, <1>12, <1>13, <1>14 DEF GateInv

(* A call that starts to run adds to heldLanes exactly what it holds.        *)
LEMMA StartGate ==
    ASSUME LaneInv, GateInv, NEW c \in Calls, NEW jobs \in Seq(Calls),
           Start(c, Got(c), jobs),
           UNCHANGED <<pendingError, wanted, at, lockVars, aborted, late>>,
           arrived' \in Seq(Calls),
           pc[c] \in {"idle", "gate", "key"},
           \A d \in Calls : Parent[c] # NoCall /\ Parent[d] = Parent[c] /\ Active(d) => d = c,
           wanted[c] = {} \/ PastIt(c),
           c \in Exclusive /\ Parent[c] = NoCall => InGate(c)
    PROVE  GateInv'
<1>1. PICK got : got = Got(c)
  OBVIOUS
<1>2. got \in SUBSET Keys /\ IsFiniteSet(got) /\ \A j \in Keys : holder[j] = c <=> j \in got
  BY <1>1, GotFacts
<1>3. /\ pc' = [pc EXCEPT ![c] = "running"] /\ acquired' = [acquired EXCEPT ![c] = got]
      /\ held' = [held EXCEPT ![Root(c)] = @ \cup got \cup GatePass(c)]
      /\ wake' = [wake EXCEPT ![c] = "none"] /\ micro' = jobs
  BY <1>1 DEF Start
<1>4. /\ pc'[c] = "running" /\ acquired'[c] = got
      /\ \A d \in Calls : d # c => /\ pc'[d] = pc[d] /\ wake'[d] = wake[d]
                                   /\ acquired'[d] = acquired[d]
  BY <1>3 DEF LaneInv, LockTypeOK
<1>5. UNCHANGED <<holder, keyQ, shared, exclusive, gateQ>>
  BY DEF lockVars
<1>6. \A d \in Calls : InGate(d)' <=> InGate(d)
  BY <1>5 DEF InGate
<1>7. JobTypeOK'
  BY <1>3 DEF GateInv, JobTypeOK
<1>8. GateHolders'
  <2>1. \A d \in Calls : InGate(d)' => pc'[d] \in {"key", "running"}
                                         \/ (pc'[d] = "gate" /\ wake'[d] = "granted")
    BY <1>4, <1>6, GateFacts
  <2>2. \A d \in Calls : pc'[d] = "gate" /\ wake'[d] = "granted" => InGate(d)'
    BY <1>4, <1>6 DEF GateInv, GateHolders
  <2> QED  BY <1>5, <2>1, <2>2 DEF GateInv, GateHolders
<1>9. KeyHolders'
  <2>1. ASSUME NEW j \in Keys, NEW d \in Calls, holder'[j] = d
        PROVE  j \in acquired'[d] \/ (pc'[d] = "key" /\ wake'[d] = "granted" /\ at'[d] = j)
    BY <1>2, <1>4, <1>5, <2>1 DEF GateInv, KeyHolders
  <2> QED  BY <1>5, <2>1 DEF GateInv, KeyHolders
<1>10. BatchSteps'
  <2>1. \A d \in Calls : Active(d)' => Active(d) \/ d = c
    BY <1>4 DEF Active
  <2>2. \A d \in Calls : pc'[d] = "gate" => pc[d] = "gate"
    BY <1>4
  <2>3. \A d, e \in Calls : Parent[d] # NoCall /\ Parent[d] = Parent[e]
                             /\ Active(d)' /\ Active(e)' => d = e
    BY <2>1 DEF GateInv, BatchSteps
  <2>4. \A d \in Calls : Parent[d] # NoCall /\ (pc'[d] = "gate" \/ InGate(d)')
                          => ~InGate(Parent[d])'
    BY <1>6, <2>2, ScenarioAssumption DEF GateInv, BatchSteps
  <2> QED  BY <2>3, <2>4 DEF BatchSteps
<1>11. PastGate'
  <2>1. ASSUME NEW d \in Calls, pc'[d] = "key" \/ (pc'[d] = "running" /\ wanted'[d] # {})
        PROVE  PastIt(d)'
    <3>1. PastIt(d)
      BY <1>4, <2>1 DEF GateInv, PastGate
    <3>2. Parent[d] # NoCall => Parent[d] # c
      BY <1>4, <2>1, ScenarioAssumption
      DEF LaneInv, StepsInsideBatch, InsideBatch, Executing
    <3> QED  BY <1>4, <1>6, <3>1, <3>2, ScenarioAssumption DEF PastIt
  <2>2. ASSUME NEW d \in Exclusive, Parent[d] = NoCall, pc'[d] = "running"
        PROVE  exclusive' = d
    <3>1. d \in Calls /\ (d # c => exclusive = d)
      BY <1>4, <2>2, ScenarioAssumption DEF GateInv, PastGate
    <3> QED  BY <1>5, <2>2, <3>1, GateFacts
  <2> QED  BY <2>1, <2>2 DEF PastGate
<1>12. Tidy'
  BY <1>2, <1>4 DEF GateInv, Tidy
<1>13. GateBlocked'
  BY <1>5 DEF GateInv, GateBlocked, CanGrant
<1>14. HeldExact'
  <2> SUFFICES ASSUME NEW x \in Calls, Root(x) = x
               PROVE  /\ \A k \in Keys : k \in held'[x] <=>
                           \E d \in Calls : Root(d) = x /\ pc'[d] = "running" /\ holder'[k] = d
                      /\ GATE_KEY \in held'[x] <=>
                           \E d \in Calls : Root(d) = x /\ pc'[d] = "running" /\ InGate(d)'
    BY DEF HeldExact, Root
  <2>1. \A d \in Calls : pc'[d] = "running" <=> d = c \/ pc[d] = "running"
    BY <1>4
  <2>2. /\ \A k \in Keys : k \in held[x] <=>
             \E d \in Calls : Root(d) = x /\ pc[d] = "running" /\ holder[k] = d
        /\ GATE_KEY \in held[x] <=>
             \E d \in Calls : Root(d) = x /\ pc[d] = "running" /\ InGate(d)
    BY DEF GateInv, HeldExact
  <2>3. GATE_KEY \notin Keys
    BY KeysAssumption
  <2>4. GatePass(c) = IF InGate(c) THEN {GATE_KEY} ELSE {}
    BY DEF GatePass, InGate
  <2>5. held'[x] = IF x = Root(c) THEN held[x] \cup got \cup GatePass(c) ELSE held[x]
    BY <1>3, RootFacts DEF LaneInv, LockTypeOK
  <2>6. ASSUME NEW k \in Keys
        PROVE  k \in held'[x] <=>
                 \E d \in Calls : Root(d) = x /\ pc'[d] = "running" /\ holder'[k] = d
    <3>1. (\E d \in Calls : Root(d) = x /\ pc'[d] = "running" /\ holder'[k] = d)
            <=> \/ \E d \in Calls : Root(d) = x /\ pc[d] = "running" /\ holder[k] = d
                \/ x = Root(c) /\ holder[k] = c
      BY <1>5, <2>1
    <3>2. k \in held'[x] <=> k \in held[x] \/ (x = Root(c) /\ k \in got)
      BY <2>3, <2>4, <2>5
    <3> QED  BY <1>2, <2>2, <3>1, <3>2
  <2>7. GATE_KEY \in held'[x] <=>
          \E d \in Calls : Root(d) = x /\ pc'[d] = "running" /\ InGate(d)'
    <3>1. (\E d \in Calls : Root(d) = x /\ pc'[d] = "running" /\ InGate(d)')
            <=> \/ \E d \in Calls : Root(d) = x /\ pc[d] = "running" /\ InGate(d)
                \/ x = Root(c) /\ InGate(c)
      BY <1>6, <2>1
    <3>2. GATE_KEY \in held'[x] <=> GATE_KEY \in held[x] \/ (x = Root(c) /\ InGate(c))
      BY <1>2, <2>3, <2>4, <2>5
    <3> QED  BY <2>2, <3>1, <3>2
  <2> QED  BY <2>6, <2>7
<1> QED  BY <1>7, <1>8, <1>9, <1>10, <1>11, <1>12, <1>13, <1>14 DEF GateInv

(* A batch that runs in the gate has its marker in heldLanes, so its steps    *)
(* find the gate already passed, and only they do.                           *)
LEMMA MarkerFacts ==
    ASSUME LaneInv, GateInv, NEW c \in Calls, MayArrive(c)
    PROVE  /\ ~NeedsGate(c) => Parent[c] # NoCall /\ InGate(Parent[c])
           /\ NeedsGate(c) /\ Parent[c] # NoCall => ~InGate(Parent[c])
           /\ pc[c] = "idle" /\ ~InGate(c) /\ ~Active(c)
           /\ \A d \in Calls : Parent[d] = c => ~Active(d) /\ ~InGate(d)
           /\ \A d \in Calls : Parent[c] # NoCall /\ Parent[d] = Parent[c] => ~Active(d)
<1>1. pc[c] = "idle" /\ ~Active(c) /\ ~InGate(c)
  BY GateFacts DEF MayArrive, Active
<1>2. \A d \in Calls : Parent[d] = c => ~Active(d)
  BY <1>1 DEF LaneInv, StepsInsideBatch, InsideBatch, Executing, Active
<1>3. \A d \in Calls : Parent[c] # NoCall /\ Parent[d] = Parent[c] => ~Active(d)
  BY DEF MayArrive, Steps, Settled, Active
<1>4. Root(c) \in Calls /\ Root(Root(c)) = Root(c)
  BY RootFacts
<1>5. GATE_KEY \in held[Root(c)] <=>
        \E d \in Calls : Root(d) = Root(c) /\ pc[d] = "running" /\ InGate(d)
  BY <1>4 DEF GateInv, HeldExact
<1>6. ASSUME ~NeedsGate(c) PROVE Parent[c] # NoCall /\ InGate(Parent[c])
  <2>1. PICK d \in Calls : Root(d) = Root(c) /\ pc[d] = "running" /\ InGate(d)
    BY <1>5, <1>6 DEF NeedsGate
  <2>2. d # c /\ Active(d)
    BY <1>1, <2>1 DEF Active
  <2>3. Root(c) # c
    <3>1. Root(c) = c => Parent[d] = c
      BY <2>1, <2>2, RootFacts
    <3> QED  BY <1>2, <2>2, <3>1
  <2>4. Parent[c] = Root(c) /\ Parent[c] # NoCall
    BY <2>3, RootFacts
  <2>5. d = Root(c)
    <3>1. Root(d) # d => Parent[d] = Root(c)
      BY <2>1, RootFacts
    <3> QED  BY <1>3, <2>1, <2>2, <2>4, <3>1
  <2> QED  BY <2>1, <2>4, <2>5
<1>7. ASSUME NeedsGate(c), Parent[c] # NoCall, InGate(Parent[c]) PROVE FALSE
  <2>1. Parent[c] = Root(c) /\ Executing(Parent[c])
    BY <1>7, RootFacts DEF MayArrive
  <2>2. pc[Root(c)] = "running"
    BY <1>4, <1>7, <2>1, GateFacts DEF Executing
  <2> QED  BY <1>4, <1>5, <1>7, <2>1, <2>2 DEF NeedsGate
<1>8. \A d \in Calls : Parent[d] = c => ~InGate(d)
  BY <1>2, GateFacts
<1> QED  BY <1>1, <1>2, <1>3, <1>6, <1>7, <1>8

(* Passing the gate at once, or queueing there behind a call that is blocked. *)
LEMMA LockGateGate ==
    ASSUME LaneInv, GateInv, NEW c \in Calls, ArriveAtGate(c)
    PROVE  GateInv'
<1>1. /\ MayArrive(c) /\ NeedsGate(c) /\ arrived' = Append(arrived, c)
      /\ pc' = [pc EXCEPT ![c] = "gate"]
      /\ wanted' = [wanted EXCEPT ![c] = StillWanted(c)]
      /\ \/ /\ GateFree(c) /\ GrantGate({c}, shared, exclusive)
            /\ wake' = [wake EXCEPT ![c] = "granted"] /\ micro' = Append(micro, c)
            /\ gateQ' = gateQ
         \/ /\ ~GateFree(c) /\ gateQ' = Append(gateQ, c)
            /\ UNCHANGED <<shared, exclusive, wake, micro>>
      /\ UNCHANGED <<pendingError, acquired, at, holder, keyQ, held, aborted, late>>
  BY DEF ArriveAtGate, LockGate
<1>2. /\ pc[c] = "idle" /\ ~InGate(c) /\ ~Active(c) /\ wake[c] = "none"
      /\ Parent[c] # NoCall => ~InGate(Parent[c])
      /\ \A d \in Calls : Parent[d] = c => ~Active(d) /\ ~InGate(d)
      /\ \A d \in Calls : Parent[c] # NoCall /\ Parent[d] = Parent[c] => ~Active(d)
  BY <1>1, MarkerFacts, ArrivalFacts
<1>3. /\ pc'[c] = "gate"
      /\ \A d \in Calls : d # c => pc'[d] = pc[d] /\ wake'[d] = wake[d] /\ wanted'[d] = wanted[d]
  BY <1>1 DEF LaneInv, LockTypeOK
<1>4. gateQ \in Seq(Calls) /\ micro \in Seq(Calls) /\ arrived \in Seq(Calls)
  BY DEF LaneInv, LockTypeOK, GateInv, JobTypeOK
<1>5. /\ shared \subseteq Calls \ Exclusive /\ exclusive \in Exclusive \cup {NoCall}
      /\ exclusive # NoCall => shared = {}
  BY DEF GateInv, GateHolders
<1>6. /\ \A d \in Calls : InGate(d)' <=> InGate(d) \/ (d = c /\ wake'[c] = "granted")
      /\ shared' \subseteq Calls \ Exclusive /\ exclusive' \in Exclusive \cup {NoCall}
      /\ exclusive' # NoCall => shared' = {}
      /\ GateBlocked'
  <2>1. CASE /\ GateFree(c) /\ GrantGate({c}, shared, exclusive)
             /\ wake' = [wake EXCEPT ![c] = "granted"] /\ gateQ' = gateQ
    <3>1. gateQ' = <<>> /\ exclusive = NoCall /\ (c \in Exclusive => shared = {})
      BY <2>1 DEF GateFree, CanGrant
    <3>2. wake'[c] = "granted"
      BY <2>1 DEF LaneInv, LockTypeOK
    <3>3. CASE c \in Exclusive
      <4>1. shared' = {} /\ exclusive' = c
        BY <2>1, <3>1, <3>3 DEF GrantGate
      <4> QED  BY <1>5, <3>1, <3>2, <3>3, <4>1 DEF InGate, GateBlocked
    <3>4. CASE c \notin Exclusive
      <4>1. shared' = shared \cup {c} /\ exclusive' = NoCall
        BY <2>1, <3>1, <3>4 DEF GrantGate
      <4> QED  BY <1>5, <3>1, <3>2, <3>4, <4>1 DEF InGate, GateBlocked
    <3> QED  BY <3>3, <3>4
  <2>2. CASE /\ ~GateFree(c) /\ gateQ' = Append(gateQ, c)
             /\ UNCHANGED <<shared, exclusive, wake, micro>>
    <3>1. \A d \in Calls : InGate(d)' <=> InGate(d)
      BY <2>2 DEF InGate
    <3>2. CASE gateQ = <<>>
      <4>1. Head(gateQ') = c /\ ~CanGrant(c, shared, exclusive)
        BY <2>2, <3>2 DEF GateFree
      <4>2. GateBlocked'
        BY <2>2, <4>1 DEF GateBlocked, CanGrant
      <4> QED  BY <1>2, <1>5, <2>2, <3>1, <4>2
    <3>3. CASE gateQ # <<>>
      <4>1. Head(gateQ') = Head(gateQ)
        BY <1>4, <2>2, <3>3
      <4>2. GateBlocked'
        BY <2>2, <3>3, <4>1 DEF GateInv, GateBlocked, CanGrant
      <4> QED  BY <1>2, <1>5, <2>2, <3>1, <4>2
    <3> QED  BY <3>2, <3>3
  <2> QED  BY <1>1, <2>1, <2>2
<1> HIDE DEF InGate
<1>7. JobTypeOK'
  <2>1. Append(micro, c) \in Seq(Calls) /\ Append(arrived, c) \in Seq(Calls)
    BY <1>4, AppendFacts
  <2>2. micro' \in Seq(Calls) /\ arrived' \in Seq(Calls)
    BY <1>1, <1>4, <2>1
  <2> QED  BY <1>1, <2>2 DEF GateInv, JobTypeOK
<1>8. GateHolders'
  <2>1. ASSUME NEW d \in Calls, InGate(d)'
        PROVE  pc'[d] \in {"key", "running"} \/ (pc'[d] = "gate" /\ wake'[d] = "granted")
    BY <1>2, <1>3, <1>6, <2>1 DEF GateInv, GateHolders
  <2>2. ASSUME NEW d \in Calls, pc'[d] = "gate", wake'[d] = "granted" PROVE InGate(d)'
    BY <1>3, <1>6, <2>2 DEF GateInv, GateHolders
  <2> QED  BY <1>6, <2>1, <2>2 DEF GateHolders
<1>9. KeyHolders'
  <2>1. ASSUME NEW k \in Keys, NEW d \in Calls, holder'[k] = d
        PROVE  k \in acquired'[d] \/ (pc'[d] = "key" /\ wake'[d] = "granted" /\ at'[d] = k)
    BY <1>1, <1>2, <1>3, <2>1 DEF GateInv, KeyHolders
  <2> QED  BY <1>1, <2>1 DEF GateInv, KeyHolders
<1>10. BatchSteps'
  <2>1. \A d \in Calls : Active(d)' => Active(d) \/ d = c
    BY <1>3 DEF Active
  <2>2. \A d \in Calls : pc'[d] = "gate" => pc[d] = "gate" \/ d = c
    BY <1>3
  <2>3. \A d, e \in Calls : Parent[d] # NoCall /\ Parent[d] = Parent[e]
                             /\ Active(d)' /\ Active(e)' => d = e
    BY <1>2, <2>1 DEF GateInv, BatchSteps
  <2>4. ASSUME NEW d \in Calls, Parent[d] # NoCall, pc'[d] = "gate" \/ InGate(d)'
        PROVE  ~InGate(Parent[d])'
    <3>1. Parent[d] \in Calls /\ (d = c => Parent[d] # c)
      BY <2>4, ScenarioAssumption
    <3>2. CASE d = c
      BY <1>2, <1>6, <2>4, <3>1, <3>2
    <3>3. CASE d # c
      <4>1. ~InGate(Parent[d]) /\ Active(d)
        BY <1>6, <2>2, <2>4, <3>3, GateFacts DEF GateInv, BatchSteps, Active
      <4>2. Parent[d] # c
        BY <1>2, <4>1
      <4> QED  BY <1>6, <3>1, <4>1, <4>2
    <3> QED  BY <3>2, <3>3
  <2> QED  BY <2>3, <2>4 DEF BatchSteps
<1>11. PastGate'
  <2>1. \A d \in Calls : PastIt(d) => PastIt(d)'
    BY <1>3, <1>6, ScenarioAssumption DEF PastIt
  <2>2. \A d \in Calls : pc'[d] = "key" \/ (pc'[d] = "running" /\ wanted'[d] # {}) => PastIt(d)'
    BY <1>3, <2>1 DEF GateInv, PastGate
  <2>3. ASSUME NEW d \in Exclusive, Parent[d] = NoCall, pc'[d] = "running"
        PROVE  exclusive' = d
    <3>1. d \in Calls /\ d # c /\ exclusive = d
      BY <1>3, <2>3, ScenarioAssumption DEF GateInv, PastGate
    <3>2. InGate(d)'
      BY <1>6, <3>1 DEF InGate
    <3> QED  BY <1>6, <3>1, <3>2 DEF InGate
  <2> QED  BY <2>2, <2>3 DEF PastGate
<1>12. Tidy'
  BY <1>1, <1>3 DEF GateInv, Tidy
<1>13. HeldExact'
  <2>1. \A d \in Calls : pc'[d] = "running" <=> pc[d] = "running"
    BY <1>2, <1>3
  <2>2. \A d \in Calls : pc[d] = "running" => (InGate(d)' <=> InGate(d))
    BY <1>2, <1>6
  <2> QED  BY <1>1, <2>1, <2>2 DEF GateInv, HeldExact, Root
<1> QED  BY <1>6, <1>7, <1>8, <1>9, <1>10, <1>11, <1>12, <1>13 DEF GateInv

(* A waiter that gives up is flagged or leaves its queue, and the gate lets   *)
(* pass whom it alone held up.                                              *)
LEMMA DropWaiterGate ==
    ASSUME LaneInv, GateInv, NEW c \in Calls, Waiting(c), DropWaiter(c),
           UNCHANGED <<pc, wanted, acquired, at, held, arrived>>,
           aborted' \subseteq Calls, late' \subseteq Calls
    PROVE  GateInv'
<1>1. UNCHANGED holder /\ pc[c] \in {"gate", "key"} /\ c \in Calls
  BY DEF DropWaiter, Waiting, lockVars
<1>2. /\ gateQ \in Seq(Calls) /\ Len(gateQ) \in Nat /\ micro \in Seq(Calls)
      /\ \A k \in Keys : keyQ[k] \in Seq(Calls) /\ Len(keyQ[k]) \in Nat
  BY DEF LaneInv, LockTypeOK, GateInv, JobTypeOK
<1>3. /\ shared' \subseteq Calls \ Exclusive /\ exclusive' \in Exclusive \cup {NoCall}
      /\ exclusive' # NoCall => shared' = {}
      /\ GateBlocked' /\ micro' \in Seq(Calls)
      /\ \A d \in Calls : InGate(d)' <=>
           InGate(d) \/ (pc[d] = "gate" /\ wake[d] = "none" /\ wake'[d] = "granted")
      /\ \A d \in Calls : \/ wake'[d] = wake[d]
                          \/ wake[d] = "none" /\ wake'[d] = "rejected"
                          \/ wake[d] = "none" /\ wake'[d] = "granted" /\ pc[d] = "gate"
      /\ \A k \in Keys : keyQ'[k] # <<>> => keyQ[k] # <<>>
      /\ \A d \in Calls : d # c => pendingError'[d] = pendingError[d]
  <2>1. CASE wake[c] # "none"
    <3>1. /\ pendingError' = [pendingError EXCEPT ![c] = TRUE]
          /\ UNCHANGED <<wake, keyQ, gateQ, shared, exclusive, micro>>
      BY <2>1 DEF DropWaiter, lockVars
    <3>2. \A d \in Calls : d # c => pendingError'[d] = pendingError[d]
      BY <3>1 DEF LaneInv, LockTypeOK
    <3>3. \A d \in Calls : InGate(d)' <=> InGate(d)
      BY <3>1 DEF InGate
    <3>4. GateBlocked'
      BY <3>1 DEF GateInv, GateBlocked, CanGrant
    <3> QED  BY <1>2, <3>1, <3>2, <3>3, <3>4 DEF GateInv, GateHolders
  <2>2. CASE wake[c] = "none" /\ pc[c] = "key"
    <3>1. PICK i \in 1 .. Len(keyQ[at[c]]) :
            /\ keyQ' = [keyQ EXCEPT ![at[c]] = RemoveAt(@, i)]
      BY <2>2 DEF DropWaiter
    <3>2. /\ wake' = [wake EXCEPT ![c] = "rejected"] /\ micro' = Append(micro, c)
          /\ UNCHANGED <<pendingError, gateQ, shared, exclusive>>
      BY <2>2 DEF DropWaiter
    <3>3. \A d \in Calls : InGate(d)' <=> InGate(d)
      BY <3>2 DEF InGate
    <3>4. GateBlocked'
      BY <3>2 DEF GateInv, GateBlocked, CanGrant
    <3>5. \A d \in Calls : wake'[d] = IF d = c THEN "rejected" ELSE wake[d]
      BY <3>2 DEF LaneInv, LockTypeOK
    <3>6. at[c] \in Keys
      BY <2>2 DEF LaneInv, TicketsHoldKeys
    <3>7. keyQ[at[c]] # <<>>
      <4>1. Len(keyQ[at[c]]) \in Nat /\ Len(keyQ[at[c]]) >= 1
        BY <1>2, <3>1, <3>6
      <4> QED  BY <4>1
    <3>8. \A k \in Keys : k # at[c] => keyQ'[k] = keyQ[k]
      BY <3>1 DEF LaneInv, LockTypeOK
    <3>9. micro' \in Seq(Calls)
      BY <1>2, <3>2, AppendFacts
    <3> QED  BY <2>2, <3>2, <3>3, <3>4, <3>5, <3>7, <3>8, <3>9 DEF GateInv, GateHolders
  <2>3. CASE wake[c] = "none" /\ pc[c] = "gate"
    <3>1. PICK i \in 1 .. Len(gateQ) :
            LET rest == RemoveAt(gateQ, i)
                passed == Passed(rest, shared, exclusive)
            IN  /\ gateQ[i] = c
                /\ PumpGate(rest, shared, exclusive)
                /\ wake' = [d \in Calls |-> IF d = c THEN "rejected"
                                            ELSE IF d \in ToSet(passed) THEN "granted"
                                            ELSE wake[d]]
                /\ micro' = Append(micro \o passed, c)
      BY <2>3 DEF DropWaiter
    <3>2. UNCHANGED <<pendingError, keyQ>>
      BY <2>3 DEF DropWaiter
    <3>3. PICK rest : rest = RemoveAt(gateQ, i)
      OBVIOUS
    <3>4. /\ rest \in Seq(Calls) /\ Len(rest) = Len(gateQ) - 1
          /\ \A j \in 1 .. Len(gateQ) - 1 : rest[j] = gateQ[IF j < i THEN j ELSE j + 1]
      BY <1>2, <3>3, RemoveAtFacts
    <3>5. /\ shared \in SUBSET (Calls \ Exclusive) /\ exclusive \in Exclusive \cup {NoCall}
          /\ exclusive # NoCall => shared = {}
      BY DEF GateInv, GateHolders
    <3>6. PumpGate(rest, shared, exclusive)
      BY <3>1, <3>3
    <3>7. \E n \in 0 .. Len(rest) :
              /\ Passed(rest, shared, exclusive) = SubSeq(rest, 1, n)
              /\ ToSet(Passed(rest, shared, exclusive)) = {rest[j] : j \in 1 .. n}
              /\ gateQ' \in Seq(Calls) /\ Len(gateQ') = Len(rest) - n
              /\ \A j \in 1 .. Len(gateQ') : gateQ'[j] = rest[n + j]
              /\ shared' \subseteq Calls \ Exclusive /\ exclusive' \in Exclusive \cup {NoCall}
              /\ exclusive' # NoCall => shared' = {}
              /\ \A d \in Calls : InGate(d)' <=>
                   d \in shared \/ exclusive = d \/ \E j \in 1 .. n : rest[j] = d
              /\ GateBlocked'
      BY <3>4, <3>5, <3>6, PumpFacts
    <3>8. PICK n \in 0 .. Len(rest) :
              /\ Passed(rest, shared, exclusive) = SubSeq(rest, 1, n)
              /\ ToSet(Passed(rest, shared, exclusive)) = {rest[j] : j \in 1 .. n}
              /\ shared' \subseteq Calls \ Exclusive /\ exclusive' \in Exclusive \cup {NoCall}
              /\ exclusive' # NoCall => shared' = {}
              /\ \A d \in Calls : InGate(d)' <=>
                   d \in shared \/ exclusive = d \/ \E j \in 1 .. n : rest[j] = d
              /\ GateBlocked'
      BY <3>7
    <3>9. \A j \in 1 .. n : /\ rest[j] \in Calls /\ rest[j] # c
                            /\ pc[rest[j]] = "gate" /\ wake[rest[j]] = "none"
      <4> SUFFICES ASSUME NEW j \in 1 .. n
                   PROVE  /\ rest[j] \in Calls /\ rest[j] # c
                          /\ pc[rest[j]] = "gate" /\ wake[rest[j]] = "none"
        OBVIOUS
      <4>1. \E h \in 1 .. Len(gateQ) : h # i /\ rest[j] = gateQ[h]
        <5>1. j \in 1 .. Len(gateQ) - 1
          BY <1>2, <3>4
        <5>2. rest[j] = gateQ[IF j < i THEN j ELSE j + 1]
          BY <3>4, <5>1
        <5>3. CASE j < i
          BY <1>2, <5>1, <5>2, <5>3
        <5>4. CASE ~(j < i)
          <6>1. j + 1 \in 1 .. Len(gateQ) /\ j + 1 # i
            BY <1>2, <5>1, <5>4
          <6> QED  BY <5>2, <5>4, <6>1
        <5> QED  BY <5>3, <5>4
      <4>2. PICK h \in 1 .. Len(gateQ) : h # i /\ rest[j] = gateQ[h]
        BY <4>1
      <4>3. /\ gateQ[h] \in Calls /\ pc[gateQ[h]] = "gate" /\ wake[gateQ[h]] = "none"
            /\ gateQ[h] = gateQ[i] => h = i
        BY <1>2 DEF LaneInv, WaitersPending
      <4> QED  BY <3>1, <4>2, <4>3
    <3>10. \A d \in Calls : wake'[d] = IF d = c THEN "rejected"
                                      ELSE IF \E j \in 1 .. n : rest[j] = d THEN "granted"
                                      ELSE wake[d]
      BY <3>1, <3>3, <3>8
    <3>11. \A d \in Calls : InGate(d)' <=>
             InGate(d) \/ (pc[d] = "gate" /\ wake[d] = "none" /\ wake'[d] = "granted")
      <4>1. \A d \in Calls : InGate(d)' <=> InGate(d) \/ \E j \in 1 .. n : rest[j] = d
        BY <3>8 DEF InGate
      <4>2. \A d \in Calls : (\E j \in 1 .. n : rest[j] = d) =>
              d # c /\ pc[d] = "gate" /\ wake[d] = "none"
        BY <3>9
      <4> HIDE DEF InGate
      <4> QED  BY <3>10, <4>1, <4>2
    <3>12. \A d \in Calls : \/ wake'[d] = wake[d]
                            \/ wake[d] = "none" /\ wake'[d] = "rejected"
                            \/ wake[d] = "none" /\ wake'[d] = "granted" /\ pc[d] = "gate"
      BY <2>3, <3>9, <3>10
    <3>13. micro' \in Seq(Calls)
      <4>1. SubSeq(rest, 1, n) \in Seq(Calls)
        BY <3>4
      <4>2. micro \o SubSeq(rest, 1, n) \in Seq(Calls)
        BY <1>2, <4>1
      <4>3. micro' = Append(micro \o SubSeq(rest, 1, n), c)
        BY <3>1, <3>3, <3>8
      <4> QED  BY <4>2, <4>3, AppendFacts
    <3> QED  BY <3>2, <3>8, <3>11, <3>12, <3>13
  <2> QED  BY <1>1, <2>1, <2>2, <2>3
<1> HIDE DEF InGate
<1>4. JobTypeOK'
  BY <1>3 DEF GateInv, JobTypeOK
<1>5. GateHolders'
  <2>1. \A d \in Calls : InGate(d)' => pc'[d] \in {"key", "running"}
                                         \/ (pc'[d] = "gate" /\ wake'[d] = "granted")
    BY <1>3, GateFacts
  <2>2. \A d \in Calls : pc'[d] = "gate" /\ wake'[d] = "granted" => InGate(d)'
    BY <1>3 DEF GateInv, GateHolders
  <2> QED  BY <1>3, <2>1, <2>2 DEF GateHolders
<1>6. KeyHolders'
  BY <1>1, <1>3 DEF GateInv, KeyHolders
<1>7. BatchSteps'
  <2>1. ASSUME NEW d \in Calls, Parent[d] # NoCall, pc'[d] = "gate" \/ InGate(d)'
        PROVE  ~InGate(Parent[d])'
    <3>1. ~InGate(Parent[d]) /\ Active(d) /\ Parent[d] \in Calls
      BY <1>3, <2>1, GateFacts, ScenarioAssumption DEF GateInv, BatchSteps, Active
    <3>2. pc[Parent[d]] # "gate"
      BY <2>1, <3>1 DEF Active, LaneInv, StepsInsideBatch, InsideBatch, Executing
    <3> QED  BY <1>3, <3>1, <3>2
  <2>2. \A d \in Calls : Active(d)' <=> Active(d)
    BY DEF Active
  <2> QED  BY <2>1, <2>2 DEF GateInv, BatchSteps
<1>8. PastGate'
  <2>1. \A d \in Calls : PastIt(d) => PastIt(d)'
    BY <1>3, ScenarioAssumption DEF PastIt
  <2>2. ASSUME NEW d \in Exclusive, Parent[d] = NoCall, pc'[d] = "running"
        PROVE  exclusive' = d
    <3>1. d \in Calls /\ InGate(d)
      BY <2>2, ScenarioAssumption DEF GateInv, PastGate, InGate
    <3>2. InGate(d)'
      BY <1>3, <3>1
    <3> QED  BY <1>3, <3>2 DEF InGate
  <2> QED  BY <2>1, <2>2 DEF GateInv, PastGate
<1>9. Tidy'
  BY <1>1, <1>3 DEF GateInv, Tidy
<1>10. HeldExact'
  <2>1. \A d \in Calls : pc[d] = "running" => (InGate(d)' <=> InGate(d))
    BY <1>3
  <2> QED  BY <1>1, <2>1 DEF GateInv, HeldExact, Root
<1> QED  BY <1>3, <1>4, <1>5, <1>6, <1>7, <1>8, <1>9, <1>10 DEF GateInv

(* A call that is refused, or whose orphaned handler returns, is not in the   *)
(* gate and holds nothing.                                                  *)
LEMMA EndGate ==
    ASSUME LaneInv, GateInv, NEW c \in Calls, NEW p \in {"failed", "done"},
           pc' = [pc EXCEPT ![c] = p],
           pc[c] \in {"idle", "orphaned"},
           UNCHANGED <<wake, pendingError, wanted, acquired, at, lockVars, held, aborted,
                       late, micro>>,
           arrived' \in Seq(Calls)
    PROVE  GateInv'
<1>1. pc'[c] = p /\ \A d \in Calls : d # c => pc'[d] = pc[d]
  BY DEF LaneInv, LockTypeOK
<1>2. UNCHANGED <<holder, keyQ, shared, exclusive, gateQ>>
  BY DEF lockVars
<1>3. ~InGate(c) /\ \A d \in Calls : InGate(d)' <=> InGate(d)
  BY <1>2, GateFacts DEF InGate
<1>4. \A k \in Keys : holder[k] # c
  BY GotFacts
<1>5. /\ \A d \in Calls : pc'[d] = "running" <=> pc[d] = "running"
      /\ \A d \in Calls : pc'[d] = "gate" <=> pc[d] = "gate"
      /\ \A d \in Calls : pc'[d] = "key" <=> pc[d] = "key"
  BY <1>1
<1> HIDE DEF InGate
<1>6. JobTypeOK' /\ GateBlocked'
  BY <1>2 DEF GateInv, JobTypeOK, GateBlocked, CanGrant
<1>7. GateHolders'
  BY <1>2, <1>3, <1>5 DEF GateInv, GateHolders
<1>8. KeyHolders'
  BY <1>2, <1>4, <1>5 DEF GateInv, KeyHolders
<1>9. BatchSteps'
  <2>1. \A d \in Calls : Active(d)' => Active(d)
    BY <1>1 DEF Active
  <2>2. \A d \in Calls : Parent[d] # NoCall /\ (pc'[d] = "gate" \/ InGate(d)')
                          => ~InGate(Parent[d])'
    BY <1>3, <1>5, ScenarioAssumption DEF GateInv, BatchSteps
  <2> QED  BY <2>1, <2>2 DEF GateInv, BatchSteps
<1>10. PastGate'
  <2>1. \A d \in Calls : PastIt(d) => PastIt(d)'
    BY <1>3, <1>5, ScenarioAssumption DEF PastIt
  <2>2. \A d \in Exclusive : d \in Calls
    BY ScenarioAssumption
  <2> QED  BY <1>2, <1>5, <2>1, <2>2 DEF GateInv, PastGate
<1>11. Tidy'
  BY <1>1 DEF GateInv, Tidy
<1>12. HeldExact'
  BY <1>2, <1>3, <1>5 DEF GateInv, HeldExact, Root
<1> QED  BY <1>6, <1>7, <1>8, <1>9, <1>10, <1>11, <1>12 DEF GateInv

(* Signals, deadlines and idle steps leave all of it alone.                  *)
LEMMA SameGate ==
    ASSUME GateInv,
           UNCHANGED <<pc, wake, pendingError, wanted, acquired, at, lockVars, held, micro,
                       arrived>>,
           aborted' \subseteq Calls, late' \subseteq Calls
    PROVE  GateInv'
<1>1. UNCHANGED <<holder, keyQ, shared, exclusive, gateQ>>
  BY DEF lockVars
<1>2. \A d \in Calls : InGate(d)' <=> InGate(d)
  BY <1>1 DEF InGate
<1>3. JobTypeOK' /\ GateBlocked'
  BY <1>1 DEF GateInv, JobTypeOK, GateBlocked, CanGrant
<1>4. GateHolders' /\ KeyHolders' /\ Tidy'
  BY <1>1 DEF GateInv, GateHolders, KeyHolders, Tidy, InGate
<1>5. BatchSteps'
  BY <1>1 DEF GateInv, BatchSteps, Active, InGate
<1>6. PastGate'
  BY <1>1 DEF GateInv, PastGate, PastIt, InGate
<1>7. HeldExact'
  BY <1>1 DEF GateInv, HeldExact, Root, InGate
<1> QED  BY <1>3, <1>4, <1>5, <1>6, <1>7 DEF GateInv

(* Nobody is in the gate at the start.                                      *)
LEMMA InitGate == Init => GateInv
<1> SUFFICES ASSUME Init PROVE GateInv
  OBVIOUS
<1>1. \A c \in Calls : ~InGate(c)
  BY DEF Init, InGate
<1>2. JobTypeOK /\ GateHolders /\ GateBlocked /\ BatchSteps
  BY <1>1 DEF Init, JobTypeOK, GateHolders, GateBlocked, BatchSteps, Active
<1>3. KeyHolders /\ PastGate
  BY ScenarioAssumption DEF Init, KeyHolders, PastGate
<1>4. Tidy
  BY FS_EmptySet DEF Init, Tidy
<1>5. HeldExact
  BY DEF Init, HeldExact
<1> QED  BY <1>2, <1>3, <1>4, <1>5 DEF GateInv

(* Each action keeps the gate, the holders and heldLanes in order.           *)
LEMMA StepGate == LaneInv /\ GateInv /\ [Next]_vars => GateInv'
<1> SUFFICES ASSUME LaneInv, GateInv, [Next]_vars PROVE GateInv'
  OBVIOUS
<1>1. /\ micro \in Seq(Calls) /\ arrived \in Seq(Calls) /\ aborted \subseteq Calls
      /\ late \subseteq Calls
      /\ \A c \in Calls : Append(arrived, c) \in Seq(Calls)
  BY AppendFacts DEF GateInv, JobTypeOK
<1>2. \A c \in Calls : MayArrive(c) => pc[c] = "idle" /\ wanted[c] = {} /\ acquired[c] = {}
                                       /\ Got(c) = {}
  BY ArrivalFacts, GotFacts
<1>3. ASSUME NEW c \in Calls, ArriveRefused(c) PROVE GateInv'
  <2>1. pc[c] = "idle" /\ pc' = [pc EXCEPT ![c] = "failed"] /\ arrived' \in Seq(Calls)
    BY <1>1, <1>2, <1>3 DEF ArriveRefused
  <2>2. UNCHANGED <<wake, pendingError, wanted, acquired, at, lockVars, held, aborted, late,
                    micro>>
    BY <1>3 DEF ArriveRefused
  <2> QED  BY <2>1, <2>2, EndGate
<1>4. ASSUME NEW c \in Calls, ArriveAtGate(c) PROVE GateInv'
  BY <1>4, LockGateGate
<1>5. ASSUME NEW c \in Calls, ArriveAtKeys(c) PROVE GateInv'
  <2>1. PICK k \in Keys : LockKey(c, k, micro)
    BY <1>5 DEF ArriveAtKeys
  <2>2. MayArrive(c) /\ ~NeedsGate(c) /\ arrived' \in Seq(Calls)
    BY <1>1, <1>5 DEF ArriveAtKeys
  <2>3. /\ PastIt(c) /\ pc[c] = "idle"
        /\ \A d \in Calls : Parent[c] # NoCall /\ Parent[d] = Parent[c] /\ Active(d) => d = c
    BY <2>2, MarkerFacts DEF PastIt
  <2>4. acquired' = [acquired EXCEPT ![c] = Got(c)]
    BY <1>2, <1>5, <2>2 DEF ArriveAtKeys, LaneInv, LockTypeOK
  <2>5. \A d \in Calls : d # c => wanted'[d] = wanted[d]
    BY <1>5 DEF ArriveAtKeys, LaneInv, LockTypeOK
  <2>6. UNCHANGED <<pendingError, shared, exclusive, gateQ, held, aborted, late>>
    BY <1>5 DEF ArriveAtKeys
  <2> QED  BY <1>1, <2>1, <2>2, <2>3, <2>4, <2>5, <2>6, LockKeyGate
<1>6. ASSUME NEW c \in Calls, ArriveAndRun(c) PROVE GateInv'
  <2>1. MayArrive(c) /\ arrived' \in Seq(Calls) /\ (NeedsGate(c) => c \notin Exclusive)
    BY <1>1, <1>6 DEF ArriveAndRun
  <2>2. /\ pc[c] = "idle" /\ wanted[c] = {}
        /\ \A d \in Calls : Parent[c] # NoCall /\ Parent[d] = Parent[c] /\ Active(d) => d = c
        /\ c \in Exclusive /\ Parent[c] = NoCall => InGate(c)
    BY <1>2, <2>1, MarkerFacts
  <2>3. Start(c, Got(c), micro)
    BY <1>2, <1>6, <2>1 DEF ArriveAndRun
  <2>4. UNCHANGED <<pendingError, wanted, at, lockVars, aborted, late>>
    BY <1>6 DEF ArriveAndRun
  <2> QED  BY <1>1, <2>1, <2>2, <2>3, <2>4, StartGate
<1>7. ASSUME NEW c \in Calls, IsNextJob(c)
      PROVE  /\ pc[c] \in {"gate", "key"} /\ wake[c] # "none" /\ Tail(micro) \in Seq(Calls)
             /\ \A d \in Calls : Parent[c] # NoCall /\ Parent[d] = Parent[c] /\ Active(d) => d = c
             /\ ~Fails(c) => PastIt(c) /\ (c \in Exclusive /\ Parent[c] = NoCall => InGate(c))
  <2>1. pc[c] \in {"gate", "key"} /\ wake[c] # "none"
    BY <1>7 DEF IsNextJob, LaneInv, WaitersPending, Waiting
  <2>2. Tail(micro) \in Seq(Calls)
    BY <1>1, <1>7, TailFacts DEF IsNextJob
  <2>3. \A d \in Calls : Parent[c] # NoCall /\ Parent[d] = Parent[c] /\ Active(d) => d = c
    BY <2>1 DEF GateInv, BatchSteps, Active
  <2>4. ~Fails(c) => wake[c] = "granted"
    BY <2>1 DEF Fails, LaneInv, LockTypeOK
  <2>5. ~Fails(c) => PastIt(c)
    BY <2>1, <2>4 DEF GateInv, GateHolders, PastGate, PastIt
  <2> QED  BY <2>1, <2>2, <2>3, <2>5 DEF PastIt
<1>8. ASSUME NEW c \in Calls, ResumeRejected(c) PROVE GateInv'
  <2>1. /\ IsNextJob(c) /\ ReleaseTicket(c, Got(c), Tail(micro))
        /\ pc' = [pc EXCEPT ![c] = "failed"] /\ UNCHANGED arrived
    BY <1>8 DEF ResumeRejected
  <2> QED  BY <1>7, <2>1, ReleaseGate
<1>9. ASSUME NEW c \in Calls, ResumeNextKey(c) PROVE GateInv'
  <2>1. PICK k \in Keys : LockKey(c, k, Tail(micro))
    BY <1>9 DEF ResumeNextKey
  <2>2. /\ IsNextJob(c) /\ ~Fails(c) /\ acquired' = [acquired EXCEPT ![c] = Got(c)]
        /\ UNCHANGED <<pendingError, shared, exclusive, gateQ, held, aborted, late>>
        /\ wanted' = wanted /\ arrived' \in Seq(Calls)
    BY <1>1, <1>9 DEF ResumeNextKey
  <2> QED  BY <1>7, <2>1, <2>2, LockKeyGate
<1>10. ASSUME NEW c \in Calls, ResumeStart(c) PROVE GateInv'
  <2>1. /\ IsNextJob(c) /\ ~Fails(c) /\ Start(c, Got(c), Tail(micro))
        /\ UNCHANGED <<pendingError, wanted, at, lockVars, aborted, late>>
        /\ arrived' \in Seq(Calls)
    BY <1>1, <1>10 DEF ResumeStart
  <2> QED  BY <1>7, <2>1, StartGate
<1>11. \A c \in Calls : pc[c] = "running" => Got(c) = acquired[c]
  BY GotFacts
<1>12. ASSUME NEW c \in Calls, Finish(c) PROVE GateInv'
  <2>1. CASE pc[c] = "running"
    <3>1. /\ ReleaseTicket(c, Got(c), micro) /\ pc' = [pc EXCEPT ![c] = "done"]
          /\ UNCHANGED arrived
      BY <1>11, <1>12, <2>1 DEF Finish
    <3> QED  BY <1>1, <2>1, <3>1, ReleaseGate
  <2>2. CASE pc[c] = "orphaned"
    <3>1. /\ pc' = [pc EXCEPT ![c] = "done"] /\ arrived' \in Seq(Calls)
          /\ UNCHANGED <<wake, pendingError, wanted, acquired, at, lockVars, held, aborted,
                         late, micro>>
      BY <1>1, <1>12, <2>2 DEF Finish
    <3> QED  BY <2>2, <3>1, EndGate
  <2> QED  BY <1>12, <2>1, <2>2 DEF Finish, Executing
<1>13. ASSUME NEW c \in Calls, Watchdog(c) PROVE GateInv'
  <2>1. /\ ReleaseTicket(c, Got(c), micro) /\ pc' = [pc EXCEPT ![c] = "orphaned"]
        /\ pc[c] = "running" /\ UNCHANGED arrived
    BY <1>11, <1>13 DEF Watchdog
  <2> QED  BY <1>1, <2>1, ReleaseGate
<1>14. ASSUME NEW x \in Calls, Abort(x) PROVE GateInv'
  <2>1. /\ UNCHANGED <<pc, wanted, acquired, at, held, arrived>>
        /\ aborted' \subseteq Calls /\ late' \subseteq Calls
    BY <1>1, <1>14 DEF Abort
  <2>2. CASE \E c \in Calls : Root(c) = x /\ Waiting(c) /\ DropWaiter(c)
    BY <2>1, <2>2, DropWaiterGate
  <2>3. CASE UNCHANGED <<wake, pendingError, lockVars, micro>>
    BY <2>1, <2>3, SameGate
  <2> QED  BY <1>14, <2>2, <2>3 DEF Abort
<1>15. ASSUME NEW c \in Calls, AcquireTimeout(c) PROVE GateInv'
  <2>1. /\ UNCHANGED <<pc, wanted, acquired, at, held, arrived>>
        /\ aborted' \subseteq Calls /\ late' \subseteq Calls
        /\ Waiting(c) /\ DropWaiter(c)
    BY <1>1, <1>15 DEF AcquireTimeout
  <2> QED  BY <2>1, DropWaiterGate
<1>16. ASSUME NEW x \in Calls, DeadlinePasses(x) PROVE GateInv'
  <2>1. aborted' \subseteq Calls /\ late' \subseteq Calls
    BY <1>1, <1>16 DEF DeadlinePasses
  <2> QED  BY <1>16, <2>1, SameGate DEF DeadlinePasses
<1>17. CASE UNCHANGED vars
  BY <1>1, <1>17, SameGate DEF vars
<1> QED
  BY <1>3, <1>4, <1>5, <1>6, <1>8, <1>9, <1>10, <1>12, <1>13, <1>14, <1>15,
     <1>16, <1>17 DEF Next, AllSettled

(* The gate lets in one exclusive call or any number of shared ones, a        *)
(* context passes it once, and heldLanes says exactly what is held.          *)
THEOREM GateConsistent == Spec => []GateInv
<1>1. LaneInv /\ GateInv /\ [Next]_vars => LaneInv' /\ GateInv'
  BY StepInv, StepGate
<1> QED  BY InitInv, InitGate, <1>1, PTL DEF Spec

(* The invariant is strong enough for what the locks promise.                *)
LEMMA InvSound == LaneInv /\ GateInv => LocksSound
<1> SUFFICES ASSUME LaneInv, GateInv PROVE LocksSound
  OBVIOUS
<1>1. TypeOK
  BY ScenarioAssumption DEF TypeOK, LaneInv, GateInv, JobTypeOK, GateHolders
<1>2. QueuesAreBlocked
  BY DEF QueuesAreBlocked, GateInv, KeyHolders, GateBlocked
<1>3. HoldersAreLive
  <2>1. ASSUME NEW k \in Keys, holder[k] # NoCall
        PROVE  pc[holder[k]] \in {"key", "running"}
    <3>1. holder[k] \in Calls
      BY <2>1 DEF LaneInv, LockTypeOK
    <3> QED  BY <3>1 DEF GateInv, KeyHolders, LaneInv, TicketsHoldKeys
  <2>2. ASSUME NEW c \in shared \cup ({exclusive} \ {NoCall})
        PROVE  pc[c] \in {"gate", "key", "running"}
    <3>1. c \in Calls /\ InGate(c)
      BY ScenarioAssumption DEF InGate, GateInv, GateHolders
    <3> QED  BY <3>1, GateFacts
  <2> QED  BY <2>1, <2>2 DEF HoldersAreLive
<1>4. HeldLanesTruthful
  <2> SUFFICES ASSUME NEW c \in Calls, Root(c) = c
               PROVE  LET own == {d \in Calls : Root(d) = c /\ pc[d] = "running"}
                      IN  held[c] = {k \in Keys : holder[k] \in own}
                            \cup {g \in {GATE_KEY} : own \cap (shared \cup {exclusive}) # {}}
    BY DEF HeldLanesTruthful
  <2> DEFINE own == {d \in Calls : Root(d) = c /\ pc[d] = "running"}
  <2>1. held[c] \subseteq Keys \cup {GATE_KEY} /\ GATE_KEY \notin Keys
    BY KeysAssumption DEF LaneInv, LockTypeOK
  <2>2. \A k \in Keys : k \in held[c] <=> holder[k] \in own
    BY DEF GateInv, HeldExact
  <2>3. GATE_KEY \in held[c] <=> own \cap (shared \cup {exclusive}) # {}
    <3>1. \A d \in Calls : InGate(d) <=> d \in shared \cup {exclusive}
      BY DEF InGate
    <3> QED  BY <3>1 DEF GateInv, HeldExact
  <2> HIDE DEF own
  <2>4. held[c] = {k \in Keys : holder[k] \in own}
                    \cup {g \in {GATE_KEY} : own \cap (shared \cup {exclusive}) # {}}
    BY <2>1, <2>2, <2>3
  <2> QED  BY <2>4 DEF own
<1> QED  BY <1>1, <1>2, <1>3, <1>4 DEF LocksSound

(* No wake-up is lost, nothing leaks and heldLanes is true, whatever mix of   *)
(* aborts, timeouts, deadlines and grants came before (tool-lanes.js:54-172). *)
THEOREM LocksAreSound == Spec => []LocksSound
BY LanesConsistent, GateConsistent, InvSound, PTL

(* A handler starts only in the job that found its call neither aborted, late *)
(* nor flagged by a timer: between that look and the start nothing else runs. *)
THEOREM LateNeverStarts == Spec => NoLateStart
<1> DEFINE A == \A c \in Calls : pc[c] # "running" /\ pc'[c] = "running"
                  => ~Cancelled(c) /\ ~pendingError[c]
<1>1. ASSUME LaneInv, GateInv, [Next]_vars PROVE A
  <2> SUFFICES ASSUME NEW c \in Calls, pc[c] # "running", pc'[c] = "running"
               PROVE  ~Cancelled(c) /\ ~pendingError[c]
    OBVIOUS
  <2>1. pc \in [Calls -> {"idle", "gate", "key", "running", "orphaned", "failed", "done"}]
    BY <1>1 DEF LaneInv, LockTypeOK
  <2>2. \A d \in Calls : ~ArriveRefused(d) /\ ~ArriveAtGate(d) /\ ~ArriveAtKeys(d)
                          /\ ~ResumeRejected(d) /\ ~ResumeNextKey(d)
    BY <2>1 DEF ArriveRefused, ArriveAtGate, ArriveAtKeys, ResumeRejected, ResumeNextKey,
                LockGate, LockKey
  <2>3. \A d \in Calls : ~Finish(d) /\ ~Watchdog(d) /\ ~Abort(d) /\ ~AcquireTimeout(d)
                          /\ ~DeadlinePasses(d)
    BY <2>1 DEF Finish, Watchdog, Abort, AcquireTimeout, DeadlinePasses
  <2>4. PICK d \in Calls : ArriveAndRun(d) \/ ResumeStart(d)
    BY <1>1, <2>2, <2>3 DEF Next, AllSettled, vars
  <2>5. d = c
    BY <2>1, <2>4 DEF ArriveAndRun, ResumeStart, Start
  <2>6. CASE ArriveAndRun(c)
    BY <1>1, <2>6 DEF ArriveAndRun, MayArrive, GateInv, Tidy
  <2>7. CASE ResumeStart(c)
    BY <2>7 DEF ResumeStart, Fails
  <2> QED  BY <2>4, <2>5, <2>6, <2>7
<1>2. LaneInv /\ GateInv /\ [Next]_vars => [A]_vars
  BY <1>1
<1> QED  BY <1>2, LanesConsistent, GateConsistent, PTL DEF Spec, NoLateStart

(* An exclusive call that passed the gate itself runs alone: who else asked   *)
(* for lanes would have passed the gate too, itself or by its batch.         *)
LEMMA InvAlone == LaneInv /\ GateInv => ExclusiveAlone
<1> SUFFICES ASSUME LaneInv, GateInv, NEW c \in Calls, NEW d \in Calls,
                    c \in Exclusive, Parent[c] = NoCall, Protected(c), Protected(d),
                    Root(d) # c
             PROVE  Need[d] = {}
  BY DEF ExclusiveAlone
<1>1. exclusive = c
  BY DEF Protected, GateInv, PastGate
<1>2. \A e \in Calls : InGate(e) => e = c
  BY <1>1 DEF InGate, GateInv, GateHolders
<1>3. Root(c) = c
  BY DEF Root
<1>4. wanted[d] = {}
  <2> SUFFICES ASSUME wanted[d] # {} PROVE FALSE
    OBVIOUS
  <2>1. PastIt(d)
    BY DEF Protected, GateInv, PastGate
  <2>2. Parent[d] # NoCall => Parent[d] = Root(d) /\ Root(d) \in Calls
    BY RootFacts
  <2> QED  BY <1>2, <1>3, <2>1, <2>2 DEF PastIt, Protected
<1>5. NeedsMet(d, {})
  BY <1>4 DEF LaneInv, NeedsCovered, Protected
<1>6. CASE Root(d) = d
  BY <1>5, <1>6 DEF NeedsMet
<1>7. CASE Root(d) # d
  <2>1. /\ Root(d) \in Calls /\ Parent[Root(d)] = NoCall /\ pc[Root(d)] = "running"
        /\ wanted[Root(d)] = acquired[Root(d)]
    BY <1>7, RootFacts, ScenarioAssumption DEF Protected, LaneInv, NeedsCovered
  <2>2. acquired[Root(d)] = {}
    BY <1>2, <2>1 DEF GateInv, PastGate, PastIt
  <2> QED  BY <1>5, <1>7, <2>1, <2>2 DEF NeedsMet
<1> QED  BY <1>6, <1>7

(* An exclusive call has the browser to itself.                             *)
THEOREM ExclusiveRunsAlone == Spec => []ExclusiveAlone
BY LanesConsistent, GateConsistent, InvAlone, PTL

-----------------------------------------------------------------------------
(* The order of arrival.                                                    *)

\* c is in the sequence; every c is before every d; nobody is there twice.
In(s, c) == \E i \in DOMAIN s : s[i] = c
Before(s, c, d) == \A i, j \in DOMAIN s : s[i] = c /\ s[j] = d => i < j
Once(s) == \A i, j \in DOMAIN s : s[i] = s[j] => i = j

\* The microtask queue holds one job for each settled promise.
JobsOK == Once(micro) /\ \A c \in Calls : wake[c] # "none" <=> In(micro, c)

\* Who waits for a pending promise is in the queue of the gate or of its key.
QueuesFull ==
    /\ \A c \in Calls : pc[c] = "gate" /\ wake[c] = "none" => In(gateQ, c)
    /\ \A c \in Calls : pc[c] = "key" /\ wake[c] = "none" => In(keyQ[at[c]], c)

\* Who has been called is among the arrived, once; Older orders them.
ArrivedOK == Once(arrived) /\ \A c \in Calls : pc[c] # "idle" <=> In(arrived, c)
Older(c, d) == \E i, j \in DOMAIN arrived : i < j /\ arrived[i] = c /\ arrived[j] = d

\* The gate has let c pass, and c has not continued yet.
Granted(c) == pc[c] = "gate" /\ wake[c] = "granted"

\* An older call passes the gate, and continues after it, before a younger one.
GateOrder(c, d) ==
    /\ Before(gateQ, c, d)
    /\ In(gateQ, c) => ~InGate(d)
    /\ Granted(c) /\ Granted(d) => Before(micro, c, d)
    /\ Granted(c) /\ InGate(d) => pc[d] = "gate"

\* A call asks for its smallest key first.
FirstKey(c) ==
    /\ pc[c] \in {"gate", "key", "running"} => wanted[c] = Need[c]
    /\ pc[c] = "key" => \A k \in Keys : First(k, Need[c]) => k \in acquired[c] \/ at[c] = k

\* Nobody younger has, or comes before it for, the first key an older call awaits.
KeyOrder(c, d) ==
    \A k \in Keys : First(k, Need[c]) /\ pc[c] = "key" /\ at[c] = k /\ wake[c] = "none" =>
        holder[k] # d /\ Before(keyQ[k], c, d)

\* What is kept for any two calls, of which one came first.
OrderInv ==
    /\ JobsOK /\ QueuesFull /\ ArrivedOK
    /\ \A c \in Calls : Parent[c] = NoCall => FirstKey(c)
    /\ \A c, d \in Calls : Older(c, d) => GateOrder(c, d)
    /\ \A c, d \in Calls : Older(c, d) /\ Parent[c] = NoCall /\ Parent[d] = NoCall => KeyOrder(c, d)

(* What joining two sequences does to membership, repetition and order.       *)
LEMMA ConcatFacts ==
    ASSUME NEW S, NEW s \in Seq(S), NEW t \in Seq(S)
    PROVE  /\ s \o t \in Seq(S)
           /\ \A c : In(s \o t, c) <=> In(s, c) \/ In(t, c)
           /\ Once(s \o t) <=> Once(s) /\ Once(t) /\ \A c : ~(In(s, c) /\ In(t, c))
           /\ \A c, d : Before(s \o t, c, d) <=>
                /\ Before(s, c, d) /\ Before(t, c, d)
                /\ ~(In(s, d) /\ In(t, c))
<1>1. PICK u : u = s \o t
  OBVIOUS
<1>2. PICK m \in Nat : m = Len(s) /\ DOMAIN s = 1 .. m
  OBVIOUS
<1>3. PICK n \in Nat : n = Len(t) /\ DOMAIN t = 1 .. n
  OBVIOUS
<1>4. /\ u \in Seq(S) /\ DOMAIN u = 1 .. m + n
      /\ \A i \in 1 .. m + n : u[i] = IF i <= m THEN s[i] ELSE t[i - m]
  <2>1. Len(u) = m + n /\ u \in Seq(S)
    BY <1>1, <1>2, <1>3, ConcatProperties
  <2>2. \A i \in 1 .. m + n : u[i] = IF i <= m THEN s[i] ELSE t[i - m]
    BY <1>1, <1>2, <1>3, ConcatProperties
  <2> QED  BY <2>1, <2>2
<1>5. \A i \in 1 .. m : i \in 1 .. m + n /\ u[i] = s[i]
  <2> TAKE i \in 1 .. m
  <2>1. i \in 1 .. m + n /\ i <= m
    OBVIOUS
  <2> QED  BY <1>4, <2>1
<1>6. \A i \in 1 .. n : m + i \in 1 .. m + n /\ u[m + i] = t[i]
  <2> TAKE i \in 1 .. n
  <2>1. m + i \in 1 .. m + n /\ ~(m + i <= m) /\ (m + i) - m = i
    OBVIOUS
  <2> QED  BY <1>4, <2>1
<1>7. \A i \in 1 .. m + n : \/ i \in 1 .. m
                            \/ \E j \in 1 .. n : i = m + j
  <2> TAKE i \in 1 .. m + n
  <2>1. CASE i <= m
    BY <2>1
  <2>2. CASE ~(i <= m)
    <3>1. i - m \in 1 .. n /\ i = m + (i - m)
      BY <2>2
    <3> QED  BY <3>1
  <2> QED  BY <2>1, <2>2
<1>8. \A c : In(u, c) <=> In(s, c) \/ In(t, c)
  <2>1. ASSUME NEW c, In(s, c) PROVE In(u, c)
    BY <1>2, <1>4, <1>5, <2>1 DEF In
  <2>2. ASSUME NEW c, In(t, c) PROVE In(u, c)
    BY <1>3, <1>4, <1>6, <2>2 DEF In
  <2>3. ASSUME NEW c, In(u, c) PROVE In(s, c) \/ In(t, c)
    <3>1. PICK i \in 1 .. m + n : u[i] = c
      BY <1>4, <2>3 DEF In
    <3>2. CASE i \in 1 .. m
      BY <1>2, <1>5, <3>1, <3>2 DEF In
    <3>3. CASE i \notin 1 .. m
      <4>1. PICK j \in 1 .. n : i = m + j
        BY <1>7, <3>3
      <4> QED  BY <1>3, <1>6, <3>1, <4>1 DEF In
    <3> QED  BY <3>2, <3>3
  <2> QED  BY <2>1, <2>2, <2>3
<1>9. Once(u) <=> Once(s) /\ Once(t) /\ \A c : ~(In(s, c) /\ In(t, c))
  <2>1. ASSUME Once(u) PROVE Once(s)
    BY <1>2, <1>4, <1>5, <2>1 DEF Once
  <2>2. ASSUME Once(u) PROVE Once(t)
    <3> SUFFICES ASSUME NEW i \in 1 .. n, NEW j \in 1 .. n, t[i] = t[j] PROVE i = j
      BY <1>3 DEF Once
    <3>1. m + i = m + j
      BY <1>4, <1>6, <2>2 DEF Once
    <3> QED  BY <3>1
  <2>3. ASSUME Once(u), NEW c, In(s, c), In(t, c) PROVE FALSE
    <3>1. PICK i \in 1 .. m : s[i] = c
      BY <1>2, <2>3 DEF In
    <3>2. PICK j \in 1 .. n : t[j] = c
      BY <1>3, <2>3 DEF In
    <3>3. /\ i \in DOMAIN u /\ m + j \in DOMAIN u
          /\ u[i] = u[m + j]
      BY <1>4, <1>5, <1>6, <3>1, <3>2
    <3>4. i = m + j
      BY <2>3, <3>3 DEF Once
    <3> QED  BY <3>4
  <2>4. ASSUME Once(s), Once(t), \A c : ~(In(s, c) /\ In(t, c)) PROVE Once(u)
    <3> SUFFICES ASSUME NEW i \in 1 .. m + n, NEW j \in 1 .. m + n, u[i] = u[j] PROVE i = j
      BY <1>4 DEF Once
    <3>1. CASE i \in 1 .. m /\ j \in 1 .. m
      BY <1>2, <1>5, <2>4, <3>1 DEF Once
    <3>2. CASE i \in 1 .. m /\ j \notin 1 .. m
      <4>1. PICK b \in 1 .. n : j = m + b
        BY <1>7, <3>2
      <4>2. s[i] = t[b]
        BY <1>5, <1>6, <3>2, <4>1
      <4>3. In(s, t[b]) /\ In(t, t[b])
        BY <1>2, <1>3, <3>2, <4>2 DEF In
      <4> QED  BY <2>4, <4>3
    <3>3. CASE i \notin 1 .. m /\ j \in 1 .. m
      <4>1. PICK b \in 1 .. n : i = m + b
        BY <1>7, <3>3
      <4>2. s[j] = t[b]
        BY <1>5, <1>6, <3>3, <4>1
      <4>3. In(s, t[b]) /\ In(t, t[b])
        BY <1>2, <1>3, <3>3, <4>2 DEF In
      <4> QED  BY <2>4, <4>3
    <3>4. CASE i \notin 1 .. m /\ j \notin 1 .. m
      <4>1. PICK a \in 1 .. n : i = m + a
        BY <1>7, <3>4
      <4>2. PICK b \in 1 .. n : j = m + b
        BY <1>7, <3>4
      <4>3. a = b
        BY <1>3, <1>6, <2>4, <4>1, <4>2 DEF Once
      <4> QED  BY <4>1, <4>2, <4>3
    <3> QED  BY <3>1, <3>2, <3>3, <3>4
  <2> QED  BY <2>1, <2>2, <2>3, <2>4
<1>10. ASSUME NEW c, NEW d
       PROVE  Before(u, c, d) <=> /\ Before(s, c, d) /\ Before(t, c, d)
                                  /\ ~(In(s, d) /\ In(t, c))
  <2>1. ASSUME Before(u, c, d) PROVE Before(s, c, d)
    BY <1>2, <1>4, <1>5, <2>1 DEF Before
  <2>2. ASSUME Before(u, c, d) PROVE Before(t, c, d)
    <3> SUFFICES ASSUME NEW i \in 1 .. n, NEW j \in 1 .. n, t[i] = c, t[j] = d PROVE i < j
      BY <1>3 DEF Before
    <3>1. m + i < m + j
      BY <1>4, <1>6, <2>2 DEF Before
    <3> QED  BY <3>1
  <2>3. ASSUME Before(u, c, d), In(s, d), In(t, c) PROVE FALSE
    <3>1. PICK i \in 1 .. m : s[i] = d
      BY <1>2, <2>3 DEF In
    <3>2. PICK j \in 1 .. n : t[j] = c
      BY <1>3, <2>3 DEF In
    <3>3. m + j < i
      BY <1>4, <1>5, <1>6, <2>3, <3>1, <3>2 DEF Before
    <3> QED  BY <3>3
  <2>4. ASSUME Before(s, c, d), Before(t, c, d), ~(In(s, d) /\ In(t, c)) PROVE Before(u, c, d)
    <3> SUFFICES ASSUME NEW i \in 1 .. m + n, NEW j \in 1 .. m + n, u[i] = c, u[j] = d PROVE i < j
      BY <1>4 DEF Before
    <3>1. CASE i \in 1 .. m /\ j \in 1 .. m
      BY <1>2, <1>5, <2>4, <3>1 DEF Before
    <3>2. CASE i \in 1 .. m /\ j \notin 1 .. m
      BY <3>2
    <3>3. CASE i \notin 1 .. m /\ j \in 1 .. m
      <4>1. PICK b \in 1 .. n : i = m + b
        BY <1>7, <3>3
      <4>2. In(s, d) /\ In(t, c)
        BY <1>2, <1>3, <1>5, <1>6, <3>3, <4>1 DEF In
      <4> QED  BY <2>4, <4>2
    <3>4. CASE i \notin 1 .. m /\ j \notin 1 .. m
      <4>1. PICK a \in 1 .. n : i = m + a
        BY <1>7, <3>4
      <4>2. PICK b \in 1 .. n : j = m + b
        BY <1>7, <3>4
      <4>3. a < b
        BY <1>3, <1>6, <2>4, <4>1, <4>2 DEF Before
      <4> QED  BY <4>1, <4>2, <4>3
    <3> QED  BY <3>1, <3>2, <3>3, <3>4
  <2> QED  BY <2>1, <2>2, <2>3, <2>4
<1> QED  BY <1>1, <1>4, <1>8, <1>9, <1>10

(* The same for a sequence of one element.                                  *)
LEMMA OneFacts ==
    ASSUME NEW S, NEW e \in S
    PROVE  /\ <<e>> \in Seq(S) /\ Once(<<e>>)
           /\ \A c : In(<<e>>, c) <=> c = e
           /\ \A c, d : Before(<<e>>, c, d) <=> ~(c = e /\ d = e)
BY DEF In, Once, Before

(* The same for a sequence to which one element is appended.                 *)
LEMMA AppendOrder ==
    ASSUME NEW S, NEW s \in Seq(S), NEW e \in S
    PROVE  /\ Append(s, e) \in Seq(S)
           /\ \A c : In(Append(s, e), c) <=> In(s, c) \/ c = e
           /\ Once(Append(s, e)) <=> Once(s) /\ ~In(s, e)
           /\ \A c, d : Before(Append(s, e), c, d) <=>
                /\ Before(s, c, d) /\ ~(c = e /\ d = e)
                /\ ~(In(s, d) /\ c = e)
<1>1. Append(s, e) = s \o <<e>>
  OBVIOUS
<1>2. <<e>> \in Seq(S)
  BY OneFacts
<1>3. PICK o : o = <<e>>
  OBVIOUS
<1>4. /\ o \in Seq(S) /\ Once(o)
      /\ \A c : In(o, c) <=> c = e
      /\ \A c, d : Before(o, c, d) <=> ~(c = e /\ d = e)
  BY <1>3, OneFacts
<1>5. /\ s \o o \in Seq(S)
      /\ \A c : In(s \o o, c) <=> In(s, c) \/ In(o, c)
      /\ Once(s \o o) <=> Once(s) /\ Once(o) /\ \A c : ~(In(s, c) /\ In(o, c))
      /\ \A c, d : Before(s \o o, c, d) <=>
           /\ Before(s, c, d) /\ Before(o, c, d)
           /\ ~(In(s, d) /\ In(o, c))
  BY <1>4, ConcatFacts
<1>6. PICK u : u = s \o o
  OBVIOUS
<1>7. Append(s, e) = u
  BY <1>1, <1>3, <1>6
<1> QED  BY <1>4, <1>5, <1>6, <1>7

(* The same for a queue that loses its head.                                 *)
LEMMA TailOrder ==
    ASSUME NEW S, NEW s \in Seq(S), s # <<>>
    PROVE  /\ Tail(s) \in Seq(S) /\ Head(s) \in S
           /\ \A c : In(s, c) <=> c = Head(s) \/ In(Tail(s), c)
           /\ Once(s) => Once(Tail(s)) /\ ~In(Tail(s), Head(s))
           /\ \A c, d : Before(s, c, d) => Before(Tail(s), c, d) /\ ~(d = Head(s) /\ In(s, c))
<1>1. Tail(s) \in Seq(S) /\ Head(s) \in S /\ s = <<Head(s)>> \o Tail(s)
  BY HeadTailProperties
<1>2. <<Head(s)>> \in Seq(S)
  BY <1>1, OneFacts
<1>3. PICK h : h = Head(s)
  OBVIOUS
<1>4. PICK t : t = Tail(s)
  OBVIOUS
<1>5. h \in S /\ t \in Seq(S) /\ s = <<h>> \o t
  BY <1>1, <1>3, <1>4
<1>6. PICK o : o = <<h>>
  OBVIOUS
<1>7. /\ o \in Seq(S) /\ Once(o)
      /\ \A c : In(o, c) <=> c = h
      /\ \A c, d : Before(o, c, d) <=> ~(c = h /\ d = h)
  BY <1>5, <1>6, OneFacts
<1>8. s = o \o t
  BY <1>5, <1>6
<1>9. /\ \A c : In(s, c) <=> In(o, c) \/ In(t, c)
      /\ Once(s) <=> Once(o) /\ Once(t) /\ \A c : ~(In(o, c) /\ In(t, c))
      /\ \A c, d : Before(s, c, d) <=>
           /\ Before(o, c, d) /\ Before(t, c, d)
           /\ ~(In(o, d) /\ In(t, c))
  BY <1>5, <1>7, <1>8, ConcatFacts
<1>10. /\ \A c : In(s, c) <=> c = h \/ In(t, c)
       /\ Once(s) => Once(t) /\ ~In(t, h)
       /\ \A c, d : Before(s, c, d) => Before(t, c, d) /\ ~(d = h /\ In(s, c))
  BY <1>7, <1>9
<1> QED  BY <1>1, <1>3, <1>4, <1>10

(* What is not in a sequence is in any order there.                          *)
LEMMA AbsentOrder ==
    ASSUME NEW s, NEW c, NEW d, ~In(s, c) \/ ~In(s, d)
    PROVE  Before(s, c, d)
BY DEF In, Before

(* An empty queue has nobody in it.                                         *)
LEMMA EmptyIn == Once(<<>>) /\ \A c : ~In(<<>>, c)
BY DEF In, Once

(* The same for a queue cut in two.                                         *)
LEMMA CutOrder ==
    ASSUME NEW S, NEW s \in Seq(S), NEW n \in 0 .. Len(s), NEW t \in Seq(S),
           Len(t) = Len(s) - n, \A j \in 1 .. Len(t) : t[j] = s[n + j]
    PROVE  LET h == SubSeq(s, 1, n)
           IN  /\ h \in Seq(S)
               /\ \A c : In(h, c) <=> \E i \in 1 .. n : s[i] = c
               /\ \A c : In(s, c) <=> In(h, c) \/ In(t, c)
               /\ Once(s) => Once(h) /\ Once(t) /\ \A c : ~(In(h, c) /\ In(t, c))
               /\ \A c, d : Before(s, c, d) =>
                    Before(h, c, d) /\ Before(t, c, d) /\ ~(In(h, d) /\ In(t, c))
<1>1. Len(s) \in Nat /\ \A i \in 1 .. Len(s) : s[i] \in S
  OBVIOUS
<1>2. PICK h : h = SubSeq(s, 1, n)
  OBVIOUS
<1>3. h \in Seq(S) /\ Len(h) = n /\ \A i \in 1 .. n : h[i] = s[i]
  BY <1>1, <1>2
<1>4. h \o t \in Seq(S) /\ Len(h \o t) = Len(s)
      /\ \A i \in 1 .. Len(s) : (h \o t)[i] = IF i <= n THEN h[i] ELSE t[i - n]
  BY <1>1, <1>3, ConcatProperties
<1>5. \A i \in 1 .. Len(s) : (h \o t)[i] = s[i]
  <2> TAKE i \in 1 .. Len(s)
  <2>1. CASE i <= n
    <3>1. i \in 1 .. n
      BY <2>1
    <3> QED  BY <1>3, <1>4, <2>1, <3>1
  <2>2. CASE ~(i <= n)
    <3>1. i - n \in 1 .. Len(t) /\ n + (i - n) = i
      BY <1>1, <2>2
    <3>2. t[i - n] = s[i]
      BY <3>1
    <3> QED  BY <1>4, <2>2, <3>2
  <2> QED  BY <2>1, <2>2
<1>6. s = h \o t
  BY <1>4, <1>5, SeqEqual
<1>7. \A c : In(h, c) <=> \E i \in 1 .. n : s[i] = c
  <2>1. DOMAIN h = 1 .. n
    BY <1>3
  <2> QED  BY <1>3, <2>1 DEF In
<1>8. /\ \A c : In(h \o t, c) <=> In(h, c) \/ In(t, c)
      /\ Once(h \o t) <=> Once(h) /\ Once(t) /\ \A c : ~(In(h, c) /\ In(t, c))
      /\ \A c, d : Before(h \o t, c, d) <=>
           /\ Before(h, c, d) /\ Before(t, c, d)
           /\ ~(In(h, d) /\ In(t, c))
  BY <1>3, ConcatFacts
<1>9. /\ \A c : In(s, c) <=> In(h, c) \/ In(t, c)
      /\ Once(s) <=> Once(h) /\ Once(t) /\ \A c : ~(In(h, c) /\ In(t, c))
      /\ \A c, d : Before(s, c, d) <=>
           /\ Before(h, c, d) /\ Before(t, c, d)
           /\ ~(In(h, d) /\ In(t, c))
  BY <1>6, <1>8
<1> QED  BY <1>2, <1>3, <1>7, <1>9

(* The same for a queue that loses one of its waiters.                       *)
LEMMA RemoveOrder ==
    ASSUME NEW S, NEW s \in Seq(S), NEW i \in 1 .. Len(s)
    PROVE  /\ RemoveAt(s, i) \in Seq(S)
           /\ \A c : In(s, c) <=> c = s[i] \/ In(RemoveAt(s, i), c)
           /\ Once(s) => Once(RemoveAt(s, i)) /\ ~In(RemoveAt(s, i), s[i])
           /\ \A c, d : Before(s, c, d) => Before(RemoveAt(s, i), c, d)
<1>1. PICK r : r = RemoveAt(s, i)
  OBVIOUS
<1>2. PICK m \in Nat : m = Len(s) /\ DOMAIN s = 1 .. m
  OBVIOUS
<1> DEFINE old(j) == IF j < i THEN j ELSE j + 1
<1>3. /\ r \in Seq(S) /\ Len(r) = m - 1
      /\ \A j \in 1 .. m - 1 : r[j] = s[old(j)]
  BY <1>1, <1>2, RemoveAtFacts
<1>4. DOMAIN r = 1 .. m - 1
  BY <1>3
<1>5. \A j \in 1 .. m - 1 : old(j) \in 1 .. m /\ old(j) # i
  BY <1>2
<1>6. \A j, k \in 1 .. m - 1 : /\ old(j) = old(k) => j = k
                               /\ old(j) < old(k) => j < k
  BY <1>2
<1>7. \A k \in 1 .. m : k # i => \E j \in 1 .. m - 1 : old(j) = k
  <2> SUFFICES ASSUME NEW k \in 1 .. m, k # i PROVE \E j \in 1 .. m - 1 : old(j) = k
    OBVIOUS
  <2>1. CASE k < i
    <3>1. k \in 1 .. m - 1 /\ old(k) = k
      BY <1>2, <2>1
    <3> QED  BY <3>1
  <2>2. CASE k > i
    <3>1. k - 1 \in 1 .. m - 1 /\ old(k - 1) = k
      BY <1>2, <2>2
    <3> QED  BY <3>1
  <2> QED  BY <1>2, <2>1, <2>2
<1> HIDE DEF old
<1>8. \A c : In(s, c) <=> c = s[i] \/ In(r, c)
  <2>1. ASSUME NEW c, In(s, c), c # s[i] PROVE In(r, c)
    <3>1. PICK k \in 1 .. m : s[k] = c
      BY <1>2, <2>1 DEF In
    <3>2. PICK j \in 1 .. m - 1 : old(j) = k
      BY <1>7, <2>1, <3>1
    <3>3. r[j] = c
      BY <1>3, <3>1, <3>2
    <3> QED  BY <1>4, <3>3 DEF In
  <2>2. ASSUME NEW c, In(r, c) PROVE In(s, c)
    <3>1. PICK j \in 1 .. m - 1 : r[j] = c
      BY <1>4, <2>2 DEF In
    <3>2. old(j) \in DOMAIN s /\ s[old(j)] = c
      BY <1>2, <1>3, <1>5, <3>1
    <3> QED  BY <3>2 DEF In
  <2>3. In(s, s[i])
    BY <1>2 DEF In
  <2> QED  BY <2>1, <2>2, <2>3
<1>9. ASSUME Once(s) PROVE Once(r) /\ ~In(r, s[i])
  <2>1. ASSUME NEW j \in 1 .. m - 1, NEW k \in 1 .. m - 1, r[j] = r[k] PROVE j = k
    <3>1. old(j) \in DOMAIN s /\ old(k) \in DOMAIN s /\ s[old(j)] = s[old(k)]
      BY <1>2, <1>3, <1>5, <2>1
    <3>2. old(j) = old(k)
      BY <1>9, <3>1 DEF Once
    <3> QED  BY <1>6, <3>2
  <2>2. ASSUME NEW j \in 1 .. m - 1, r[j] = s[i] PROVE FALSE
    <3>1. old(j) \in DOMAIN s /\ i \in DOMAIN s /\ s[old(j)] = s[i]
      BY <1>2, <1>3, <1>5, <2>2
    <3>2. old(j) = i
      BY <1>9, <3>1 DEF Once
    <3> QED  BY <1>5, <3>2
  <2> QED  BY <1>4, <2>1, <2>2 DEF Once, In
<1>10. ASSUME NEW c, NEW d, Before(s, c, d) PROVE Before(r, c, d)
  <2> SUFFICES ASSUME NEW j \in 1 .. m - 1, NEW k \in 1 .. m - 1, r[j] = c, r[k] = d PROVE j < k
    BY <1>4 DEF Before
  <2>1. old(j) \in DOMAIN s /\ old(k) \in DOMAIN s /\ s[old(j)] = c /\ s[old(k)] = d
    BY <1>2, <1>3, <1>5
  <2>2. old(j) < old(k)
    BY <1>10, <2>1 DEF Before
  <2> QED  BY <1>6, <2>2
<1> QED  BY <1>1, <1>3, <1>8, <1>9, <1>10

(* Who is in a queue waits for it, and is there once.                        *)
LEMMA QueueFacts ==
    ASSUME LaneInv
    PROVE  /\ gateQ \in Seq(Calls) /\ Once(gateQ)
           /\ \A c : In(gateQ, c) => c \in Calls /\ pc[c] = "gate" /\ wake[c] = "none"
           /\ \A k \in Keys : keyQ[k] \in Seq(Calls) /\ Once(keyQ[k])
           /\ \A k \in Keys : \A c : In(keyQ[k], c) =>
                c \in Calls /\ pc[c] = "key" /\ wake[c] = "none" /\ at[c] = k
<1>1. gateQ \in Seq(Calls) /\ DOMAIN gateQ = 1 .. Len(gateQ)
      /\ \A i \in 1 .. Len(gateQ) : gateQ[i] \in Calls
  BY DEF LaneInv, LockTypeOK
<1>2. \A k \in Keys : /\ keyQ[k] \in Seq(Calls) /\ DOMAIN keyQ[k] = 1 .. Len(keyQ[k])
                      /\ \A i \in 1 .. Len(keyQ[k]) : keyQ[k][i] \in Calls
  BY DEF LaneInv, LockTypeOK
<1>3. Once(gateQ) /\ \A c : In(gateQ, c) => c \in Calls /\ pc[c] = "gate" /\ wake[c] = "none"
  BY <1>1 DEF Once, In, LaneInv, WaitersPending
<1>4. ASSUME NEW k \in Keys
      PROVE  /\ Once(keyQ[k])
             /\ \A c : In(keyQ[k], c) =>
                  c \in Calls /\ pc[c] = "key" /\ wake[c] = "none" /\ at[c] = k
  BY <1>2 DEF Once, In, LaneInv, WaitersPending
<1> QED  BY <1>1, <1>2, <1>3, <1>4

(* Older calls and younger ones are different calls that have arrived.       *)
LEMMA OlderFacts ==
    ASSUME ArrivedOK, NEW c \in Calls, NEW d \in Calls, Older(c, d)
    PROVE  c # d /\ pc[c] # "idle" /\ pc[d] # "idle"
<1>1. PICK i \in DOMAIN arrived, j \in DOMAIN arrived :
        i < j /\ arrived[i] = c /\ arrived[j] = d
  BY DEF Older
<1>2. In(arrived, c) /\ In(arrived, d)
  BY <1>1 DEF In
<1>3. c # d
  <2> SUFFICES ASSUME c = d PROVE FALSE
    OBVIOUS
  <2>1. i = j
    BY <1>1 DEF ArrivedOK, Once
  <2>2. i \in 1 .. Len(arrived) /\ ~(i < i)
    BY <1>1, <2>1
  <2> QED  BY <1>1, <2>1, <2>2
<1> QED  BY <1>2, <1>3 DEF ArrivedOK

(* An arrival is younger than every call that came before it.               *)
LEMMA ArrivedStep ==
    ASSUME ArrivedOK, arrived \in Seq(Calls), NEW c \in Calls, pc'[c] # "idle",
           \A d \in Calls : d # c => pc'[d] = pc[d],
           \/ pc[c] # "idle" /\ arrived' = arrived
           \/ pc[c] = "idle" /\ arrived' = Append(arrived, c)
    PROVE  /\ ArrivedOK'
           /\ \A d, e \in Calls : Older(d, e)' => d # e /\ (Older(d, e) \/ (e = c /\ pc[c] = "idle"))
           /\ \A d, e \in Calls : Older(d, e)' => ~(d = c /\ pc[c] = "idle")
<1>1. CASE pc[c] # "idle" /\ arrived' = arrived
  <2>1. ArrivedOK'
    BY <1>1 DEF ArrivedOK, Once, In
  <2>2. \A d, e \in Calls : Older(d, e)' => Older(d, e)
    BY <1>1 DEF Older
  <2> QED  BY <1>1, <2>1, <2>2, OlderFacts
<1>2. CASE pc[c] = "idle" /\ arrived' = Append(arrived, c)
  <2>1. PICK a : a = Append(arrived, c)
    OBVIOUS
  <2>2. /\ \A d : In(a, d) <=> In(arrived, d) \/ d = c
        /\ Once(a) <=> Once(arrived) /\ ~In(arrived, c)
    BY <2>1, AppendOrder
  <2>3. arrived' = a
    BY <1>2, <2>1
  <2>4. ~In(arrived, c)
    BY <1>2 DEF ArrivedOK
  <2>5. Once(a) /\ \A d \in Calls : pc'[d] # "idle" <=> In(a, d)
    BY <2>2, <2>4 DEF ArrivedOK
  <2>6. ArrivedOK'
    BY <2>3, <2>5 DEF ArrivedOK, Once, In
  <2>7. PICK m \in Nat : m = Len(arrived) /\ DOMAIN arrived = 1 .. m
    OBVIOUS
  <2>8. /\ Len(a) = m + 1 /\ DOMAIN a = 1 .. m + 1 /\ a[m + 1] = c
        /\ \A i \in 1 .. m : a[i] = arrived[i] /\ arrived[i] # c
    <3>1. a \in Seq(Calls) /\ Len(a) = m + 1 /\ a[m + 1] = c
          /\ \A i \in 1 .. m : a[i] = arrived[i]
      BY <2>1, <2>7, AppendProperties
    <3>2. \A i \in 1 .. m : arrived[i] # c
      BY <2>4, <2>7 DEF In
    <3> QED  BY <3>1, <3>2
  <2>9. ASSUME NEW d \in Calls, NEW e \in Calls, Older(d, e)'
        PROVE  d # e /\ (Older(d, e) \/ e = c) /\ d # c
    <3>1. PICK i \in 1 .. m + 1, j \in 1 .. m + 1 : i < j /\ a[i] = d /\ a[j] = e
      BY <2>3, <2>8, <2>9 DEF Older
    <3>2. i \in 1 .. m
      BY <3>1
    <3>3. d = arrived[i] /\ d # c
      BY <2>8, <3>1, <3>2
    <3>4. CASE j \in 1 .. m
      <4>1. e = arrived[j] /\ Older(d, e)
        BY <2>7, <2>8, <3>1, <3>2, <3>3, <3>4 DEF Older
      <4> QED  BY <3>3, <4>1, OlderFacts
    <3>5. CASE j = m + 1
      BY <2>8, <3>1, <3>3, <3>5
    <3> QED  BY <3>4, <3>5
  <2> QED  BY <1>2, <2>6, <2>9
<1> QED  BY <1>1, <1>2

(* The jobs that are left when c has had its turn, or has none.              *)
LEMMA JobsFacts ==
    ASSUME LaneInv, GateInv, OrderInv, NEW c \in Calls, NEW jobs,
           (IsNextJob(c) /\ jobs = Tail(micro)) \/ (wake[c] = "none" /\ jobs = micro)
    PROVE  /\ jobs \in Seq(Calls) /\ Once(jobs)
           /\ \A d : In(jobs, d) <=> In(micro, d) /\ d # c
           /\ \A d, e : Before(micro, d, e) => Before(jobs, d, e)
           /\ IsNextJob(c) => \A d : Before(micro, d, c) => ~In(micro, d)
<1>1. micro \in Seq(Calls) /\ Once(micro) /\ (wake[c] # "none" <=> In(micro, c))
  BY DEF GateInv, JobTypeOK, OrderInv, JobsOK
<1>2. CASE IsNextJob(c) /\ jobs = Tail(micro)
  <2>1. micro # <<>> /\ Head(micro) = c
    BY <1>2 DEF IsNextJob
  <2>2. /\ Tail(micro) \in Seq(Calls)
        /\ \A d : In(micro, d) <=> d = Head(micro) \/ In(Tail(micro), d)
        /\ Once(micro) => Once(Tail(micro)) /\ ~In(Tail(micro), Head(micro))
        /\ \A d, e : Before(micro, d, e) => Before(Tail(micro), d, e) /\ ~(e = Head(micro) /\ In(micro, d))
    BY <1>1, <2>1, TailOrder
  <2> QED  BY <1>1, <1>2, <2>1, <2>2
<1>3. CASE wake[c] = "none" /\ jobs = micro
  BY <1>1, <1>3 DEF IsNextJob
<1> QED  BY <1>2, <1>3

(* Where the gate lets the first part P of its queue through, without a call  *)
(* that has left it, the older of two calls stays ahead.                     *)
LEMMA PassOrder ==
    ASSUME NEW P, NEW d \in Calls, NEW e \in Calls, GateOrder(d, e),
           \A x \in Calls : In(gateQ', x) \/ In(P, x) => In(gateQ, x),
           Before(gateQ, d, e) =>
             Before(P, d, e) /\ Before(gateQ', d, e) /\ ~(In(P, e) /\ In(gateQ', d)),
           \A x \in Calls : InGate(x)' => (InGate(x) /\ pc'[x] = pc[x]) \/ In(P, x),
           \A x \in Calls : Granted(x)' => Granted(x) \/ In(P, x),
           \A x \in Calls : In(P, x) => pc'[x] = "gate",
           \A x \in Calls : Granted(x) => InGate(x),
           Granted(d) /\ Granted(e) /\ Granted(d)' /\ Granted(e)' /\ Before(micro, d, e)
             => Before(micro, d, e)',
           Granted(d) /\ Granted(d)' /\ In(P, e) => Before(micro, d, e)',
           In(P, d) /\ In(P, e) /\ Before(P, d, e) => Before(micro, d, e)'
    PROVE  GateOrder(d, e)'
<1>1. Before(gateQ, d, e)'
  BY DEF GateOrder
<1>2. In(gateQ, d)' => ~InGate(e)'
  BY DEF GateOrder
<1>3. Granted(d)' /\ Granted(e)' => Before(micro, d, e)'
  BY DEF GateOrder
<1>4. Granted(d)' /\ InGate(e)' => pc'[e] = "gate"
  BY DEF GateOrder
<1> QED  BY <1>1, <1>2, <1>3, <1>4 DEF GateOrder

(* A call that goes on, or ends, leaves the order of the others at the gate   *)
(* as it was: the older ones that were granted have gone on before it.       *)
LEMMA LeaveOrder ==
    ASSUME LaneInv, GateInv, OrderInv, NEW c \in Calls, NEW d \in Calls, NEW e \in Calls,
           UNCHANGED <<shared, exclusive, gateQ>>,
           d # e, Older(d, e) \/ (e = c /\ pc[c] = "idle"),
           pc'[c] # "gate", \A x \in Calls : x # c => pc'[x] = pc[x] /\ wake'[x] = wake[x],
           pc[c] = "gate" => IsNextJob(c),
           d # c /\ e # c /\ Before(micro, d, e) => Before(micro, d, e)'
    PROVE  GateOrder(d, e)'
<1>1. \A x \in Calls : InGate(x)' <=> InGate(x)
  BY DEF InGate
<1>2. \A x \in Calls : Granted(x)' <=> x # c /\ Granted(x)
  BY DEF Granted
<1>3. /\ \A x \in Calls : In(gateQ, x) => pc[x] = "gate" /\ wake[x] = "none"
      /\ \A x \in Calls : Granted(x) => InGate(x) /\ In(micro, x)
      /\ \A x \in Calls : InGate(x) => pc[x] # "idle" /\ (pc[x] = "gate" => Granted(x))
  <2>1. \A x \in Calls : In(gateQ, x) => pc[x] = "gate" /\ wake[x] = "none"
    BY QueueFacts
  <2>2. \A x \in Calls : InGate(x) => pc[x] # "idle" /\ (pc[x] = "gate" => Granted(x))
    BY DEF GateInv, GateHolders, Granted
  <2>3. \A x \in Calls : Granted(x) => InGate(x) /\ In(micro, x)
    BY DEF GateInv, GateHolders, Granted, OrderInv, JobsOK
  <2> QED  BY <2>1, <2>2, <2>3
<1>4. CASE e = c /\ pc[c] = "idle"
  <2>1. ~In(gateQ, c) /\ ~InGate(c)
    BY <1>3, <1>4
  <2>2. Before(gateQ, d, e)
    BY <1>4, <2>1, AbsentOrder
  <2> QED  BY <1>1, <1>2, <1>4, <2>1, <2>2 DEF GateOrder
<1>5. CASE Older(d, e)
  <2>1. GateOrder(d, e)
    BY <1>5 DEF OrderInv
  <2>2. Before(gateQ, d, e)' /\ (In(gateQ, d)' => ~InGate(e)')
    BY <1>1, <2>1 DEF GateOrder
  <2>3. Granted(d)' /\ Granted(e)' => Before(micro, d, e)'
    BY <1>2, <2>1 DEF GateOrder
  <2>4. ASSUME Granted(d)', InGate(e)' PROVE pc'[e] = "gate"
    <3>1. d # c /\ Granted(d) /\ InGate(e) /\ pc[e] = "gate"
      BY <1>1, <1>2, <2>1, <2>4 DEF GateOrder
    <3>2. CASE e # c
      BY <3>1, <3>2
    <3>3. CASE e = c
      <4>1. Granted(c) /\ Before(micro, d, c) /\ In(micro, d) /\ IsNextJob(c)
        BY <1>3, <2>1, <3>1, <3>3 DEF GateOrder
      <4>2. \A x : Before(micro, x, c) => ~In(micro, x)
        BY <4>1, JobsFacts
      <4> QED  BY <4>1, <4>2
    <3> QED  BY <3>2, <3>3
  <2> QED  BY <2>2, <2>3, <2>4 DEF GateOrder
<1> QED  BY <1>4, <1>5


(* Ending a ticket keeps the order of arrival.                               *)
LEMMA ReleaseOrder ==
    ASSUME LaneInv, GateInv, OrderInv, NEW c \in Calls, NEW jobs,
           (IsNextJob(c) /\ jobs = Tail(micro)) \/ (wake[c] = "none" /\ jobs = micro),
           NEW p \in {"failed", "orphaned", "done"},
           ReleaseTicket(c, Got(c), jobs), pc' = [pc EXCEPT ![c] = p],
           pc[c] \in {"gate", "key", "running"},
           wake[c] # "none" \/ pc[c] = "running",
           UNCHANGED arrived
    PROVE  OrderInv'
<1>1. PICK got : got = Got(c)
  OBVIOUS
<1>2. got \in SUBSET Keys /\ IsFiniteSet(got) /\ \A k \in got : holder[k] = c
  BY <1>1, GotFacts
<1>3. ReleaseTicket(c, got, jobs)
  BY <1>1
<1>4. PICK n \in 0 .. Len(gateQ) : Released(c, got, jobs, n)
  BY <1>2, <1>3, ReleaseFacts
<1>5. PICK P : P = SubSeq(gateQ, 1, n)
  OBVIOUS
<1>6. PICK H : H = HandedInOrder(got)
  OBVIOUS
<1>7. /\ gateQ \in Seq(Calls) /\ Once(gateQ)
      /\ \A d : In(gateQ, d) => d \in Calls /\ pc[d] = "gate" /\ wake[d] = "none"
      /\ \A k \in Keys : keyQ[k] \in Seq(Calls) /\ Once(keyQ[k])
      /\ \A k \in Keys : \A d : In(keyQ[k], d) =>
           d \in Calls /\ pc[d] = "key" /\ wake[d] = "none" /\ at[d] = k
  BY QueueFacts
<1>8. /\ P \in Seq(Calls) /\ Once(P)
      /\ \A d : In(P, d) <=> \E i \in 1 .. n : gateQ[i] = d
      /\ \A d : In(gateQ, d) <=> In(P, d) \/ In(gateQ', d)
      /\ \A d : ~(In(P, d) /\ In(gateQ', d))
      /\ \A d, e : Before(gateQ, d, e) =>
           Before(P, d, e) /\ Before(gateQ', d, e) /\ ~(In(P, e) /\ In(gateQ', d))
  <2>1. /\ gateQ' \in Seq(Calls) /\ Len(gateQ') = Len(gateQ) - n
        /\ \A j \in 1 .. Len(gateQ') : gateQ'[j] = gateQ[n + j]
    BY <1>4 DEF Released
  <2>2. PICK t : t = gateQ'
    OBVIOUS
  <2>3. /\ t \in Seq(Calls) /\ Len(t) = Len(gateQ) - n
        /\ \A j \in 1 .. Len(t) : t[j] = gateQ[n + j]
    BY <2>1, <2>2
  <2>4. LET h == SubSeq(gateQ, 1, n)
        IN  /\ h \in Seq(Calls)
            /\ \A d : In(h, d) <=> \E i \in 1 .. n : gateQ[i] = d
            /\ \A d : In(gateQ, d) <=> In(h, d) \/ In(t, d)
            /\ Once(gateQ) => Once(h) /\ Once(t) /\ \A d : ~(In(h, d) /\ In(t, d))
            /\ \A d, e : Before(gateQ, d, e) =>
                 Before(h, d, e) /\ Before(t, d, e) /\ ~(In(h, e) /\ In(t, d))
    BY <1>7, <2>3, CutOrder
  <2>5. /\ P \in Seq(Calls)
        /\ \A d : In(P, d) <=> \E i \in 1 .. n : gateQ[i] = d
        /\ \A d : In(gateQ, d) <=> In(P, d) \/ In(t, d)
        /\ Once(gateQ) => Once(P) /\ Once(t) /\ \A d : ~(In(P, d) /\ In(t, d))
        /\ \A d, e : Before(gateQ, d, e) =>
             Before(P, d, e) /\ Before(t, d, e) /\ ~(In(P, e) /\ In(t, d))
    BY <1>5, <2>4
  <2> QED  BY <1>7, <2>2, <2>5
<1>9. /\ H \in Seq(Calls) /\ Once(H)
      /\ \A d : In(H, d) <=> \E k \in got : keyQ[k] # <<>> /\ Head(keyQ[k]) = d
  <2>1. LockTypeOK
    BY DEF LaneInv
  <2>2. \A k \in Keys : keyQ[k] # <<>> => at[Head(keyQ[k])] = k
    <3>1. \A k \in Keys : keyQ[k] # <<>> => In(keyQ[k], Head(keyQ[k]))
      BY <1>7, TailOrder
    <3> QED  BY <1>7, <3>1
  <2>3. \A k, m \in Handed(got) : NextWaiter(k) = NextWaiter(m) => k = m
    BY <1>2, <2>2 DEF Handed, NextWaiter
  <2>4. /\ HandedInOrder(got) \in Seq(Calls)
        /\ \A d : (\E i \in DOMAIN HandedInOrder(got) : HandedInOrder(got)[i] = d) <=>
                     \E k \in got : keyQ[k] # <<>> /\ Head(keyQ[k]) = d
        /\ \A i, j \in DOMAIN HandedInOrder(got) :
                 HandedInOrder(got)[i] = HandedInOrder(got)[j] => i = j
    BY <1>2, <2>1, <2>3, HandedFacts
  <2> QED  BY <1>6, <2>4 DEF In, Once
<1>10. /\ \A d : In(H, d) => d \in Calls /\ d # c /\ pc[d] = "key" /\ wake[d] = "none"
       /\ \A d : In(P, d) => d \in Calls /\ d # c /\ pc[d] = "gate" /\ wake[d] = "none"
  <2>1. \A k \in Keys : keyQ[k] # <<>> => In(keyQ[k], Head(keyQ[k]))
    BY <1>7, TailOrder
  <2>2. \A d : In(H, d) => d \in Calls /\ pc[d] = "key" /\ wake[d] = "none"
    BY <1>2, <1>7, <1>9, <2>1
  <2>3. \A d : In(P, d) => d \in Calls /\ pc[d] = "gate" /\ wake[d] = "none"
    BY <1>7, <1>8
  <2>4. wake[c] # "none" \/ pc[c] = "running"
    OBVIOUS
  <2> QED  BY <2>2, <2>3, <2>4
<1>11. /\ jobs \in Seq(Calls) /\ Once(jobs)
       /\ \A d : In(jobs, d) <=> In(micro, d) /\ d # c
       /\ \A d, e : Before(micro, d, e) => Before(jobs, d, e)
  BY JobsFacts
<1>12. \A d \in Calls : wake[d] # "none" <=> In(micro, d)
  BY DEF OrderInv, JobsOK
<1>13. micro' = (jobs \o H) \o P
  BY <1>4, <1>5, <1>6 DEF Released
<1>14. /\ micro' \in Seq(Calls)
       /\ \A d : In(micro', d) <=> In(jobs, d) \/ In(H, d) \/ In(P, d)
       /\ Once(micro')
       /\ \A d, e : Before(micro', d, e) <=>
            /\ Before(jobs, d, e) /\ Before(H, d, e) /\ Before(P, d, e)
            /\ ~(In(jobs, e) /\ In(H, d))
            /\ ~((In(jobs, e) \/ In(H, e)) /\ In(P, d))
  <2>1. PICK u : u = jobs \o H
    OBVIOUS
  <2>2. /\ u \in Seq(Calls)
        /\ \A d : In(u, d) <=> In(jobs, d) \/ In(H, d)
        /\ Once(u) <=> Once(jobs) /\ Once(H) /\ \A d : ~(In(jobs, d) /\ In(H, d))
        /\ \A d, e : Before(u, d, e) <=>
             Before(jobs, d, e) /\ Before(H, d, e) /\ ~(In(jobs, e) /\ In(H, d))
    BY <1>9, <1>11, <2>1, ConcatFacts
  <2>3. PICK v : v = u \o P
    OBVIOUS
  <2>4. /\ v \in Seq(Calls)
        /\ \A d : In(v, d) <=> In(u, d) \/ In(P, d)
        /\ Once(v) <=> Once(u) /\ Once(P) /\ \A d : ~(In(u, d) /\ In(P, d))
        /\ \A d, e : Before(v, d, e) <=>
             Before(u, d, e) /\ Before(P, d, e) /\ ~(In(u, e) /\ In(P, d))
    BY <1>8, <2>2, <2>3, ConcatFacts
  <2>5. micro' = v
    BY <1>13, <2>1, <2>3
  <2>6. /\ \A d : ~(In(jobs, d) /\ In(H, d))
        /\ \A d : ~((In(jobs, d) \/ In(H, d)) /\ In(P, d))
    BY <1>10, <1>11, <1>12
  <2>7. Once(v)
    BY <1>8, <1>9, <1>11, <2>2, <2>4, <2>6
  <2> QED  BY <2>2, <2>4, <2>5, <2>7
<1>15. /\ wake'[c] = "none"
       /\ \A d \in Calls : d # c =>
            wake'[d] = IF In(P, d) \/ In(H, d) THEN "granted" ELSE wake[d]
       /\ \A d \in Calls : InGate(d)' <=> (d # c /\ InGate(d)) \/ In(P, d)
       /\ \A k \in Keys : holder'[k] = IF k \notin got THEN holder[k]
                    ELSE IF keyQ[k] = <<>> THEN NoCall ELSE Head(keyQ[k])
       /\ \A k \in Keys : keyQ'[k] = IF k \in got /\ keyQ[k] # <<>>
                                     THEN Tail(keyQ[k]) ELSE keyQ[k]
  BY <1>4, <1>8, <1>9 DEF Released
<1>16. /\ pc'[c] = p /\ \A d \in Calls : d # c => pc'[d] = pc[d] /\ acquired'[d] = acquired[d]
       /\ wanted' = wanted /\ at' = at
  BY DEF ReleaseTicket, LaneInv, LockTypeOK
<1>17. JobsOK'
  <2>1. \A d \in Calls : wake'[d] # "none" <=> In(micro', d)
    BY <1>10, <1>11, <1>12, <1>14, <1>15
  <2> QED  BY <1>14, <2>1 DEF JobsOK
<1>18. QueuesFull'
  <2>1. ASSUME NEW d \in Calls, pc'[d] = "gate", wake'[d] = "none" PROVE In(gateQ', d)
    <3>1. d # c /\ pc[d] = "gate" /\ wake[d] = "none" /\ ~In(P, d)
      BY <1>15, <1>16, <2>1
    <3> QED  BY <1>8, <3>1 DEF OrderInv, QueuesFull
  <2>2. ASSUME NEW d \in Calls, pc'[d] = "key", wake'[d] = "none" PROVE In(keyQ'[at'[d]], d)
    <3>1. d # c /\ pc[d] = "key" /\ wake[d] = "none" /\ ~In(H, d) /\ at[d] \in Keys
      BY <1>15, <1>16, <2>2 DEF LaneInv, TicketsHoldKeys
    <3>2. In(keyQ[at[d]], d)
      BY <3>1 DEF OrderInv, QueuesFull
    <3>3. CASE at[d] \in got /\ keyQ[at[d]] # <<>>
      <4>1. Head(keyQ[at[d]]) # d
        BY <1>9, <3>1, <3>3
      <4>2. In(Tail(keyQ[at[d]]), d)
        BY <1>7, <3>1, <3>2, <3>3, <4>1, TailOrder
      <4> QED  BY <1>15, <1>16, <3>1, <3>3, <4>2
    <3>4. CASE ~(at[d] \in got /\ keyQ[at[d]] # <<>>)
      BY <1>15, <1>16, <3>1, <3>2, <3>4
    <3> QED  BY <3>3, <3>4
  <2> QED  BY <2>1, <2>2 DEF QueuesFull
<1>19. ArrivedOK' /\ \A d, e \in Calls : Older(d, e)' => Older(d, e) /\ d # e
  <2>1. ArrivedOK /\ arrived \in Seq(Calls)
    BY DEF OrderInv, GateInv, JobTypeOK
  <2>2. pc[c] # "idle" /\ pc'[c] # "idle"
    BY <1>16
  <2> QED  BY <1>16, <2>1, <2>2, ArrivedStep
<1>20. ASSUME NEW d \in Calls, Parent[d] = NoCall PROVE FirstKey(d)'
  <2>1. CASE d = c
    BY <1>16, <2>1 DEF FirstKey
  <2>2. CASE d # c
    <3>1. FirstKey(d)
      BY <1>20 DEF OrderInv
    <3> QED  BY <1>16, <2>2, <3>1 DEF FirstKey
  <2> QED  BY <2>1, <2>2
<1>21. ASSUME NEW d \in Calls, NEW e \in Calls, Older(d, e)' PROVE GateOrder(d, e)'
  <2>1. GateOrder(d, e) /\ d # e
    BY <1>19, <1>21 DEF OrderInv
  <2>2. /\ \A x \in Calls : Granted(x)' => (Granted(x) /\ x # c) \/ In(P, x)
        /\ \A x \in Calls : Granted(x) => InGate(x) /\ In(micro, x)
        /\ \A x \in Calls : Granted(x) => ~In(P, x) /\ ~In(H, x)
    <3>1. \A x \in Calls : Granted(x)' => (Granted(x) /\ x # c) \/ In(P, x)
      BY <1>10, <1>15, <1>16 DEF Granted
    <3>2. \A x \in Calls : Granted(x) => InGate(x) /\ In(micro, x)
      BY <1>12 DEF Granted, GateInv, GateHolders
    <3>3. \A x \in Calls : Granted(x) => ~In(P, x) /\ ~In(H, x)
      BY <1>10 DEF Granted
    <3> QED  BY <3>1, <3>2, <3>3
  <2>3. ~In(P, c) /\ ~Granted(c)'
    BY <1>10, <1>16 DEF Granted
  <2>4. Granted(d) /\ Granted(e) /\ Granted(d)' /\ Granted(e)' /\ Before(micro, d, e)
             => Before(micro, d, e)'
    <3> SUFFICES ASSUME Granted(d), Granted(e), Before(micro, d, e) PROVE Before(micro', d, e)
      OBVIOUS
    <3>1. Before(H, d, e) /\ Before(P, d, e)
      BY <2>2, AbsentOrder
    <3> QED  BY <1>11, <1>14, <2>2, <3>1
  <2>5. Granted(d) /\ Granted(d)' /\ In(P, e) => Before(micro, d, e)'
    <3> SUFFICES ASSUME Granted(d), In(P, e) PROVE Before(micro', d, e)
      OBVIOUS
    <3>1. ~In(jobs, e) /\ ~In(H, e)
      BY <1>10, <1>11, <1>12
    <3>2. Before(jobs, d, e) /\ Before(H, d, e) /\ Before(P, d, e)
      BY <2>2, <3>1, AbsentOrder
    <3> QED  BY <1>14, <2>2, <3>1, <3>2
  <2>6. In(P, d) /\ In(P, e) /\ Before(P, d, e) => Before(micro, d, e)'
    <3> SUFFICES ASSUME In(P, d), In(P, e), Before(P, d, e) PROVE Before(micro', d, e)
      OBVIOUS
    <3>1. ~In(jobs, e) /\ ~In(H, e)
      BY <1>10, <1>11, <1>12
    <3>2. Before(jobs, d, e) /\ Before(H, d, e)
      BY <3>1, AbsentOrder
    <3> QED  BY <1>14, <3>1, <3>2
  <2>7. \A x \in Calls : InGate(x)' => (InGate(x) /\ pc'[x] = pc[x]) \/ In(P, x)
    BY <1>15, <1>16
  <2>8. \A x \in Calls : In(P, x) => pc'[x] = "gate"
    BY <1>10, <1>16
  <2>9. \A x \in Calls : In(gateQ', x) \/ In(P, x) => In(gateQ, x)
    BY <1>8
  <2>10. Before(gateQ, d, e) =>
            Before(P, d, e) /\ Before(gateQ', d, e) /\ ~(In(P, e) /\ In(gateQ', d))
    BY <1>8
  <2>11. /\ \A x \in Calls : Granted(x)' => Granted(x) \/ In(P, x)
         /\ \A x \in Calls : Granted(x) => InGate(x)
    BY <2>2
  <2> QED  BY <2>1, <2>4, <2>5, <2>6, <2>7, <2>8, <2>9, <2>10, <2>11, PassOrder
<1>22. ASSUME NEW d \in Calls, NEW e \in Calls, Older(d, e)', Parent[d] = NoCall, Parent[e] = NoCall
       PROVE  KeyOrder(d, e)'
  <2> SUFFICES ASSUME NEW k \in Keys, First(k, Need[d]), pc'[d] = "key", at'[d] = k,
                      wake'[d] = "none"
               PROVE  holder'[k] # e /\ Before(keyQ'[k], d, e)
    BY DEF KeyOrder
  <2>1. d # c /\ pc[d] = "key" /\ at[d] = k /\ wake[d] = "none"
    BY <1>15, <1>16
  <2>2. holder[k] # e /\ Before(keyQ[k], d, e) /\ In(keyQ[k], d)
    BY <1>19, <1>22, <2>1 DEF OrderInv, KeyOrder, QueuesFull
  <2>3. CASE k \in got
    <3>1. keyQ[k] # <<>>
      BY <2>2, EmptyIn
    <3>2. Before(Tail(keyQ[k]), d, e) /\ Head(keyQ[k]) # e
      BY <1>7, <2>2, <3>1, TailOrder
    <3> QED  BY <1>15, <2>3, <3>1, <3>2
  <2>4. CASE k \notin got
    BY <1>15, <2>2, <2>4
  <2> QED  BY <2>3, <2>4
<1> QED  BY <1>17, <1>18, <1>19, <1>20, <1>21, <1>22 DEF OrderInv


(* Asking for one more key keeps the order of arrival: who asks for its first  *)
(* key has just come through the gate, so nobody younger is past it.         *)
LEMMA LockKeyOrder ==
    ASSUME LaneInv, GateInv, OrderInv, NEW c \in Calls, NEW k \in Keys, NEW jobs,
           LockKey(c, k, jobs), acquired' = [acquired EXCEPT ![c] = Got(c)],
           UNCHANGED <<shared, exclusive, gateQ>>,
           \A d \in Calls : d # c => wanted'[d] = wanted[d],
           \/ /\ IsNextJob(c) /\ jobs = Tail(micro) /\ pc[c] \in {"gate", "key"}
              /\ wake[c] = "granted" /\ arrived' = arrived
           \/ /\ pc[c] = "idle" /\ wake[c] = "none" /\ jobs = micro
              /\ Parent[c] # NoCall /\ arrived' = Append(arrived, c),
           Parent[c] = NoCall => wanted'[c] = Need[c] /\ First(k, Need[c] \ Got(c))
    PROVE  OrderInv'
<1>1. PICK got : got = Got(c)
  OBVIOUS
<1>2. /\ pc' = [pc EXCEPT ![c] = "key"] /\ at' = [at EXCEPT ![c] = k]
      /\ \/ /\ holder[k] = NoCall /\ holder' = [holder EXCEPT ![k] = c]
            /\ wake' = [wake EXCEPT ![c] = "granted"] /\ keyQ' = keyQ /\ keyQ[k] = <<>>
            /\ micro' = Append(jobs, c)
         \/ /\ keyQ' = [keyQ EXCEPT ![k] = Append(@, c)]
            /\ wake' = [wake EXCEPT ![c] = "none"] /\ holder' = holder
            /\ micro' = jobs
  BY DEF LockKey, KeyFree
<1>3. /\ pc'[c] = "key" /\ at'[c] = k /\ acquired'[c] = got
      /\ \A d \in Calls : d # c => /\ pc'[d] = pc[d] /\ wake'[d] = wake[d] /\ at'[d] = at[d]
                                   /\ acquired'[d] = acquired[d]
  BY <1>1, <1>2 DEF LaneInv, LockTypeOK
<1>4. /\ \A j \in Keys : keyQ[j] \in Seq(Calls)
      /\ \A j \in Keys : \A d : In(keyQ[j], d) =>
           d \in Calls /\ pc[d] = "key" /\ wake[d] = "none" /\ at[d] = j
  BY QueueFacts
<1>5. /\ jobs \in Seq(Calls) /\ Once(jobs)
      /\ \A d : In(jobs, d) <=> In(micro, d) /\ d # c
      /\ \A d, e : Before(micro, d, e) => Before(jobs, d, e)
  BY JobsFacts
<1>6. /\ \A d : In(Append(jobs, c), d) <=> In(jobs, d) \/ d = c
      /\ Once(Append(jobs, c)) <=> Once(jobs) /\ ~In(jobs, c)
      /\ \A d, e : Before(Append(jobs, c), d, e) <=>
           /\ Before(jobs, d, e) /\ ~(d = c /\ e = c)
           /\ ~(In(jobs, e) /\ d = c)
  BY <1>5, AppendOrder
<1>7. /\ \/ wake'[c] = "granted" /\ micro' = Append(jobs, c)
         \/ wake'[c] = "none" /\ micro' = jobs /\ holder' = holder
            /\ keyQ' = [keyQ EXCEPT ![k] = Append(@, c)]
      /\ \A d, e : d # c /\ Before(micro, d, e) => Before(micro', d, e)
  <2>1. \/ wake'[c] = "granted" /\ micro' = Append(jobs, c)
        \/ wake'[c] = "none" /\ micro' = jobs /\ holder' = holder
            /\ keyQ' = [keyQ EXCEPT ![k] = Append(@, c)]
    BY <1>2 DEF LaneInv, LockTypeOK
  <2>2. CASE micro' = Append(jobs, c)
    BY <1>5, <1>6, <2>1, <2>2
  <2>3. CASE micro' = jobs
    BY <1>5, <2>1, <2>3
  <2> QED  BY <2>1, <2>2, <2>3
<1>8. PICK q : q = Append(keyQ[k], c)
  OBVIOUS
<1>9. /\ \A d : In(q, d) <=> In(keyQ[k], d) \/ d = c
      /\ \A d, e : Before(q, d, e) <=>
           /\ Before(keyQ[k], d, e) /\ ~(d = c /\ e = c)
           /\ ~(In(keyQ[k], e) /\ d = c)
  BY <1>4, <1>8, AppendOrder
<1>10. /\ \A j \in Keys : j # k => holder'[j] = holder[j] /\ keyQ'[j] = keyQ[j]
       /\ \/ /\ holder[k] = NoCall /\ holder'[k] = c /\ keyQ'[k] = keyQ[k] /\ keyQ[k] = <<>>
             /\ wake'[c] = "granted"
          \/ holder'[k] = holder[k] /\ keyQ'[k] = q
  BY <1>2, <1>8 DEF LaneInv, LockTypeOK
<1>11. \A d \in Calls : wake[d] # "none" <=> In(micro, d)
  BY DEF OrderInv, JobsOK
<1>12. JobsOK'
  <2>1. CASE wake'[c] = "granted" /\ micro' = Append(jobs, c)
    <3>1. Once(micro')
      BY <1>5, <1>6, <2>1
    <3>2. \A d \in Calls : wake'[d] # "none" <=> In(micro', d)
      BY <1>3, <1>5, <1>6, <1>11, <2>1
    <3> QED  BY <3>1, <3>2 DEF JobsOK
  <2>2. CASE wake'[c] = "none" /\ micro' = jobs
    <3>1. Once(micro')
      BY <1>5, <2>2
    <3>2. \A d \in Calls : wake'[d] # "none" <=> In(micro', d)
      BY <1>3, <1>5, <1>11, <2>2
    <3> QED  BY <3>1, <3>2 DEF JobsOK
  <2> QED  BY <1>7, <2>1, <2>2
<1>13. QueuesFull'
  <2>1. ASSUME NEW d \in Calls, pc'[d] = "gate", wake'[d] = "none" PROVE In(gateQ', d)
    <3>1. d # c /\ pc[d] = "gate" /\ wake[d] = "none" /\ gateQ' = gateQ
      BY <1>3, <2>1
    <3> QED  BY <3>1 DEF OrderInv, QueuesFull
  <2>2. ASSUME NEW d \in Calls, pc'[d] = "key", wake'[d] = "none" PROVE In(keyQ'[at'[d]], d)
    <3>1. CASE d = c
      BY <1>3, <1>9, <1>10, <2>2, <3>1
    <3>2. CASE d # c
      <4>1. pc[d] = "key" /\ wake[d] = "none" /\ at'[d] = at[d] /\ at[d] \in Keys
        BY <1>3, <2>2, <3>2 DEF LaneInv, TicketsHoldKeys
      <4>2. In(keyQ[at[d]], d)
        BY <4>1 DEF OrderInv, QueuesFull
      <4> QED  BY <1>9, <1>10, <4>1, <4>2
    <3> QED  BY <3>1, <3>2
  <2> QED  BY <2>1, <2>2 DEF QueuesFull
<1>14. /\ ArrivedOK'
       /\ \A d, e \in Calls : Older(d, e)' => d # e /\ (Older(d, e) \/ (e = c /\ pc[c] = "idle"))
       /\ \A d, e \in Calls : Older(d, e)' => ~(d = c /\ pc[c] = "idle")
  <2>1. ArrivedOK /\ arrived \in Seq(Calls)
    BY DEF OrderInv, GateInv, JobTypeOK
  <2>2. /\ pc'[c] # "idle" /\ \A d \in Calls : d # c => pc'[d] = pc[d]
        /\ \/ pc[c] # "idle" /\ arrived' = arrived
           \/ pc[c] = "idle" /\ arrived' = Append(arrived, c)
    BY <1>3
  <2> QED  BY <2>1, <2>2, ArrivedStep
<1>15. ASSUME NEW d \in Calls, Parent[d] = NoCall PROVE FirstKey(d)'
  <2>1. CASE d = c
    <3>1. wanted'[c] = Need[c] /\ First(k, Need[c] \ got)
      BY <1>1, <1>15, <2>1
    <3>2. ASSUME NEW j \in Keys, First(j, Need[c]) PROVE j \in got \/ j = k
      <4>1. j \in Nat /\ k \in Nat
        BY KeysAssumption
      <4> QED  BY <3>1, <3>2, <4>1 DEF First
    <3> QED  BY <1>3, <2>1, <3>1, <3>2 DEF FirstKey
  <2>2. CASE d # c
    <3>1. FirstKey(d)
      BY <1>15 DEF OrderInv
    <3> QED  BY <1>3, <2>2, <3>1 DEF FirstKey
  <2> QED  BY <2>1, <2>2
<1>16. ASSUME NEW d \in Calls, NEW e \in Calls, Older(d, e)' PROVE GateOrder(d, e)'
  <2>1. d # e /\ (Older(d, e) \/ (e = c /\ pc[c] = "idle"))
    BY <1>14, <1>16
  <2>2. pc'[c] # "gate" /\ (pc[c] = "gate" => IsNextJob(c))
    BY <1>3
  <2>3. d # c /\ e # c /\ Before(micro, d, e) => Before(micro, d, e)'
    BY <1>7
  <2> QED  BY <1>3, <2>1, <2>2, <2>3, LeaveOrder
<1>17. ASSUME NEW d \in Calls, NEW e \in Calls, Older(d, e)', Parent[d] = NoCall, Parent[e] = NoCall
       PROVE  KeyOrder(d, e)'
  <2> SUFFICES ASSUME NEW j \in Keys, First(j, Need[d]), pc'[d] = "key", at'[d] = j,
                      wake'[d] = "none"
               PROVE  holder'[j] # e /\ Before(keyQ'[j], d, e)
    BY DEF KeyOrder
  <2>1. Older(d, e) /\ d # e
    BY <1>14, <1>17
  <2>2. CASE d # c
    <3>1. pc[d] = "key" /\ at[d] = j /\ wake[d] = "none"
      BY <1>3, <2>2
    <3>2. holder[j] # e /\ Before(keyQ[j], d, e) /\ In(keyQ[j], d)
      BY <1>17, <2>1, <3>1 DEF OrderInv, KeyOrder, QueuesFull
    <3>3. keyQ[j] # <<>>
      BY <3>2, EmptyIn
    <3> QED  BY <1>9, <1>10, <2>2, <3>2, <3>3
  <2>3. CASE d = c
    <3>1. pc[c] # "idle" /\ wake[c] = "granted" /\ j = k
      BY <1>3, <1>14, <1>17, <2>3
    <3>2. pc[c] = "gate"
      <4> SUFFICES ASSUME pc[c] = "key" PROVE FALSE
        BY <3>1
      <4>1. k \in acquired[c] \/ at[c] = k
        BY <1>17, <2>3, <3>1 DEF OrderInv, FirstKey
      <4>2. k \in Got(c)
        BY <3>1, <4>1 DEF Got
      <4>3. k \notin Got(c)
        BY <1>17, <2>3 DEF First
      <4> QED  BY <4>2, <4>3
    <3>3. ~(pc[e] = "key" \/ (pc[e] = "running" /\ wanted[e] # {}))
      <4> SUFFICES ASSUME pc[e] = "key" \/ (pc[e] = "running" /\ wanted[e] # {}) PROVE FALSE
        OBVIOUS
      <4>1. InGate(e)
        BY <1>17 DEF GateInv, PastGate, PastIt
      <4>2. GateOrder(c, e) /\ Granted(c)
        BY <2>1, <2>3, <3>1, <3>2 DEF OrderInv, Granted
      <4> QED  BY <4>1, <4>2 DEF GateOrder
    <3>4. holder[k] # e
      <4> SUFFICES ASSUME holder[k] = e PROVE FALSE
        OBVIOUS
      <4>1. k \in acquired[e] \/ pc[e] = "key"
        BY DEF GateInv, KeyHolders
      <4>2. k \in acquired[e] /\ pc[e] = "running"
        BY <3>3, <4>1 DEF LaneInv, TicketsHoldKeys
      <4> QED  BY <3>3, <4>2 DEF LaneInv, NeedsCovered
    <3>5. ~In(keyQ[k], e) /\ ~In(keyQ[k], c)
      BY <1>4, <3>2, <3>3
    <3>6. Before(keyQ[k], c, e)
      BY <3>5, AbsentOrder
    <3> QED  BY <1>9, <1>10, <2>1, <2>3, <3>1, <3>4, <3>5, <3>6
  <2> QED  BY <2>2, <2>3
<1> QED  BY <1>12, <1>13, <1>14, <1>15, <1>16, <1>17 DEF OrderInv


(* A start keeps the order of arrival.                                      *)
LEMMA StartOrder ==
    ASSUME LaneInv, GateInv, OrderInv, NEW c \in Calls, NEW jobs,
           Start(c, Got(c), jobs),
           UNCHANGED <<wanted, at, lockVars>>,
           \/ /\ IsNextJob(c) /\ jobs = Tail(micro) /\ pc[c] \in {"gate", "key"}
              /\ arrived' = arrived
           \/ /\ pc[c] = "idle" /\ wake[c] = "none" /\ jobs = micro
              /\ arrived' = Append(arrived, c),
           Parent[c] = NoCall => wanted[c] = Need[c]
    PROVE  OrderInv'
<1>1. /\ pc'[c] = "running" /\ wake'[c] = "none" /\ micro' = jobs
      /\ \A d \in Calls : d # c => /\ pc'[d] = pc[d] /\ wake'[d] = wake[d]
                                   /\ acquired'[d] = acquired[d]
  BY DEF Start, LaneInv, LockTypeOK
<1>2. UNCHANGED <<wanted, at, holder, keyQ, shared, exclusive, gateQ>>
  BY DEF lockVars
<1>3. /\ jobs \in Seq(Calls) /\ Once(jobs)
      /\ \A d : In(jobs, d) <=> In(micro, d) /\ d # c
      /\ \A d, e : Before(micro, d, e) => Before(jobs, d, e)
  BY JobsFacts
<1>4. JobsOK'
  <2>1. \A d \in Calls : wake'[d] # "none" <=> In(micro', d)
    BY <1>1, <1>3 DEF OrderInv, JobsOK
  <2>2. Once(micro')
    BY <1>1, <1>3
  <2> QED  BY <2>1, <2>2 DEF JobsOK
<1>5. QueuesFull'
  <2>1. \A d \in Calls : pc'[d] \in {"gate", "key"} /\ wake'[d] = "none" =>
          pc[d] = pc'[d] /\ wake[d] = "none"
    BY <1>1
  <2> QED  BY <1>2, <2>1 DEF OrderInv, QueuesFull
<1>6. /\ ArrivedOK'
      /\ \A d, e \in Calls : Older(d, e)' => d # e /\ (Older(d, e) \/ (e = c /\ pc[c] = "idle"))
  <2>1. ArrivedOK /\ arrived \in Seq(Calls)
    BY DEF OrderInv, GateInv, JobTypeOK
  <2>2. /\ pc'[c] # "idle" /\ \A d \in Calls : d # c => pc'[d] = pc[d]
        /\ \/ pc[c] # "idle" /\ arrived' = arrived
           \/ pc[c] = "idle" /\ arrived' = Append(arrived, c)
    BY <1>1
  <2> QED  BY <2>1, <2>2, ArrivedStep
<1>7. ASSUME NEW d \in Calls, Parent[d] = NoCall PROVE FirstKey(d)'
  <2>1. CASE d = c
    BY <1>1, <1>2, <1>7, <2>1 DEF FirstKey
  <2>2. CASE d # c
    <3>1. FirstKey(d)
      BY <1>7 DEF OrderInv
    <3> QED  BY <1>1, <1>2, <2>2, <3>1 DEF FirstKey
  <2> QED  BY <2>1, <2>2
<1>8. ASSUME NEW d \in Calls, NEW e \in Calls, Older(d, e)' PROVE GateOrder(d, e)'
  <2>1. d # e /\ (Older(d, e) \/ (e = c /\ pc[c] = "idle"))
    BY <1>6, <1>8
  <2>2. pc'[c] # "gate" /\ (pc[c] = "gate" => IsNextJob(c))
    BY <1>1
  <2>3. d # c /\ e # c /\ Before(micro, d, e) => Before(micro, d, e)'
    BY <1>1, <1>3
  <2> QED  BY <1>1, <1>2, <2>1, <2>2, <2>3, LeaveOrder
<1>9. ASSUME NEW d \in Calls, NEW e \in Calls, Older(d, e)', Parent[d] = NoCall, Parent[e] = NoCall
      PROVE  KeyOrder(d, e)'
  <2>1. \A k \in Keys : pc'[d] = "key" /\ at'[d] = k /\ wake'[d] = "none" =>
          pc[d] = "key" /\ at[d] = k /\ wake[d] = "none"
    BY <1>1, <1>2
  <2>2. CASE Older(d, e)
    <3>1. KeyOrder(d, e)
      BY <1>9, <2>2 DEF OrderInv
    <3> QED  BY <1>2, <2>1, <3>1 DEF KeyOrder
  <2>3. CASE e = c /\ pc[c] = "idle"
    <3>1. \A k \in Keys : holder[k] # c
      BY <2>3, GotFacts
    <3>2. \A k \in Keys : ~In(keyQ[k], c)
      BY <2>3, QueueFacts
    <3>3. \A k \in Keys : Before(keyQ[k], d, e)
      BY <2>3, <3>2, AbsentOrder
    <3> QED  BY <1>2, <2>3, <3>1, <3>3 DEF KeyOrder
  <2> QED  BY <1>6, <1>9, <2>2, <2>3
<1> QED  BY <1>4, <1>5, <1>6, <1>7, <1>8, <1>9 DEF OrderInv

(* A call that is refused, or whose orphaned handler returns, is in no queue.  *)
LEMMA EndOrder ==
    ASSUME LaneInv, GateInv, OrderInv, NEW c \in Calls, NEW p \in {"failed", "done"},
           pc' = [pc EXCEPT ![c] = p],
           UNCHANGED <<wake, wanted, acquired, at, lockVars, micro>>,
           \/ pc[c] = "orphaned" /\ arrived' = arrived
           \/ pc[c] = "idle" /\ arrived' = Append(arrived, c)
    PROVE  OrderInv'
<1>1. pc'[c] = p /\ \A d \in Calls : d # c => pc'[d] = pc[d]
  BY DEF LaneInv, LockTypeOK
<1>2. UNCHANGED <<wake, wanted, acquired, at, holder, keyQ, shared, exclusive, gateQ, micro>>
  BY DEF lockVars
<1>3. JobsOK'
  BY <1>2 DEF OrderInv, JobsOK, Once, In
<1>4. QueuesFull'
  <2>1. \A d \in Calls : pc'[d] \in {"gate", "key"} => pc[d] = pc'[d]
    BY <1>1
  <2> QED  BY <1>2, <2>1 DEF OrderInv, QueuesFull
<1>5. /\ ArrivedOK'
      /\ \A d, e \in Calls : Older(d, e)' => d # e /\ (Older(d, e) \/ (e = c /\ pc[c] = "idle"))
  <2>1. ArrivedOK /\ arrived \in Seq(Calls)
    BY DEF OrderInv, GateInv, JobTypeOK
  <2>2. /\ pc'[c] # "idle" /\ \A d \in Calls : d # c => pc'[d] = pc[d]
        /\ \/ pc[c] # "idle" /\ arrived' = arrived
           \/ pc[c] = "idle" /\ arrived' = Append(arrived, c)
    BY <1>1
  <2> QED  BY <2>1, <2>2, ArrivedStep
<1>6. ASSUME NEW d \in Calls, Parent[d] = NoCall PROVE FirstKey(d)'
  <2>1. FirstKey(d)
    BY <1>6 DEF OrderInv
  <2> QED  BY <1>1, <1>2, <2>1 DEF FirstKey
<1>7. ASSUME NEW d \in Calls, NEW e \in Calls, Older(d, e)' PROVE GateOrder(d, e)'
  <2>1. d # e /\ (Older(d, e) \/ (e = c /\ pc[c] = "idle"))
    BY <1>5, <1>7
  <2>2. pc'[c] # "gate" /\ pc[c] # "gate" /\ \A d2 \in Calls : d2 # c => pc'[d2] = pc[d2] /\ wake'[d2] = wake[d2]
    BY <1>1, <1>2
  <2>3. Before(micro, d, e) => Before(micro, d, e)'
    BY <1>2
  <2> QED  BY <1>2, <2>1, <2>2, <2>3, LeaveOrder
<1>8. ASSUME NEW d \in Calls, NEW e \in Calls, Older(d, e)', Parent[d] = NoCall, Parent[e] = NoCall
      PROVE  KeyOrder(d, e)'
  <2>1. \A k \in Keys : pc'[d] = "key" => pc[d] = "key"
    BY <1>1
  <2>2. CASE Older(d, e)
    <3>1. KeyOrder(d, e)
      BY <1>8, <2>2 DEF OrderInv
    <3> QED  BY <1>1, <1>2, <3>1 DEF KeyOrder
  <2>3. CASE e = c /\ pc[c] = "idle"
    <3>1. \A k \in Keys : holder[k] # c
      BY <2>3, GotFacts
    <3>2. \A k \in Keys : ~In(keyQ[k], c)
      BY <2>3, QueueFacts
    <3>3. \A k \in Keys : Before(keyQ[k], d, e)
      BY <2>3, <3>2, AbsentOrder
    <3> QED  BY <1>2, <2>3, <3>1, <3>3 DEF KeyOrder
  <2> QED  BY <1>5, <1>8, <2>2, <2>3
<1> QED  BY <1>3, <1>4, <1>5, <1>6, <1>7, <1>8 DEF OrderInv

(* Nothing that the order of arrival looks at changes.                      *)
LEMMA SameOrder ==
    ASSUME OrderInv,
           UNCHANGED <<pc, wake, wanted, acquired, at, lockVars, micro, arrived>>
    PROVE  OrderInv'
BY DEF OrderInv, JobsOK, QueuesFull, ArrivedOK, FirstKey, GateOrder, KeyOrder, Older, Granted,
       InGate, lockVars


(* A call that comes from nobody's batch has inherited nothing.               *)
LEMMA FreshRoot ==
    ASSUME LaneInv, GateInv, NEW c \in Calls, MayArrive(c), Parent[c] = NoCall
    PROVE  StillWanted(c) = Need[c]
<1>1. Root(c) = c /\ Need[c] \subseteq Keys
  BY ScenarioAssumption DEF Root
<1>2. \A d \in Calls : Root(d) = c => pc[d] # "running"
  <2>1. \A d \in Calls : Parent[d] = c => ~Active(d)
    BY MarkerFacts
  <2>2. pc[c] # "running"
    BY MarkerFacts
  <2> QED  BY <2>1, <2>2 DEF Root, Active
<1>3. \A k \in Keys : k \notin held[c]
  BY <1>1, <1>2 DEF GateInv, HeldExact
<1> QED  BY <1>1, <1>3 DEF StillWanted

(* An arrival at the gate joins behind every older call.                     *)
LEMMA LockGateOrder ==
    ASSUME LaneInv, GateInv, OrderInv, NEW c \in Calls, ArriveAtGate(c)
    PROVE  OrderInv'
<1>1. /\ MayArrive(c) /\ arrived' = Append(arrived, c)
      /\ pc' = [pc EXCEPT ![c] = "gate"]
      /\ wanted' = [wanted EXCEPT ![c] = StillWanted(c)]
      /\ \/ /\ GateFree(c) /\ GrantGate({c}, shared, exclusive)
            /\ wake' = [wake EXCEPT ![c] = "granted"] /\ micro' = Append(micro, c)
            /\ gateQ' = gateQ
         \/ /\ gateQ' = Append(gateQ, c)
            /\ UNCHANGED <<shared, exclusive, wake, micro>>
      /\ UNCHANGED <<acquired, at, holder, keyQ>>
  BY DEF ArriveAtGate, LockGate
<1>2. pc[c] = "idle" /\ ~InGate(c) /\ wake[c] = "none"
  BY <1>1, MarkerFacts, ArrivalFacts
<1>3. /\ pc'[c] = "gate"
      /\ \A d \in Calls : d # c => pc'[d] = pc[d] /\ wake'[d] = wake[d] /\ wanted'[d] = wanted[d]
  BY <1>1 DEF LaneInv, LockTypeOK
<1>4. /\ gateQ \in Seq(Calls) /\ micro \in Seq(Calls) /\ Once(micro)
      /\ \A d \in Calls : wake[d] # "none" <=> In(micro, d)
      /\ \A d : In(gateQ, d) => pc[d] = "gate"
      /\ \A k \in Keys : \A d : In(keyQ[k], d) => pc[d] = "key"
  BY QueueFacts DEF GateInv, JobTypeOK, OrderInv, JobsOK
<1>5. PICK q : q = Append(gateQ, c)
  OBVIOUS
<1>6. /\ \A d : In(q, d) <=> In(gateQ, d) \/ d = c
      /\ \A d, e : Before(q, d, e) <=>
           /\ Before(gateQ, d, e) /\ ~(d = c /\ e = c)
           /\ ~(In(gateQ, e) /\ d = c)
  BY <1>4, <1>5, AppendOrder
<1>7. PICK m : m = Append(micro, c)
  OBVIOUS
<1>8. /\ \A d : In(m, d) <=> In(micro, d) \/ d = c
      /\ Once(m) <=> Once(micro) /\ ~In(micro, c)
      /\ \A d, e : Before(m, d, e) <=>
           /\ Before(micro, d, e) /\ ~(d = c /\ e = c)
           /\ ~(In(micro, e) /\ d = c)
  BY <1>4, <1>7, AppendOrder
<1>9. \/ /\ gateQ = <<>> /\ gateQ' = <<>> /\ wake'[c] = "granted" /\ micro' = m
         /\ \A d \in Calls : InGate(d)' <=> InGate(d) \/ d = c
      \/ /\ gateQ' = q /\ wake'[c] = "none" /\ micro' = micro
         /\ \A d \in Calls : InGate(d)' <=> InGate(d)
  <2>1. CASE /\ GateFree(c) /\ GrantGate({c}, shared, exclusive)
             /\ wake' = [wake EXCEPT ![c] = "granted"] /\ micro' = Append(micro, c)
             /\ gateQ' = gateQ
    <3>1. gateQ = <<>> /\ exclusive = NoCall
      BY <2>1 DEF GateFree, CanGrant
    <3>2. CASE c \in Exclusive
      <4>1. shared' = shared /\ exclusive' = c
        BY <2>1, <3>2 DEF GrantGate
      <4> QED  BY <1>7, <2>1, <3>1, <4>1 DEF InGate, LaneInv, LockTypeOK
    <3>3. CASE c \notin Exclusive
      <4>1. shared' = shared \cup {c} /\ exclusive' = exclusive
        BY <2>1, <3>3 DEF GrantGate
      <4> QED  BY <1>7, <2>1, <3>1, <4>1 DEF InGate, LaneInv, LockTypeOK
    <3> QED  BY <3>2, <3>3
  <2>2. CASE gateQ' = Append(gateQ, c) /\ UNCHANGED <<shared, exclusive, wake, micro>>
    BY <1>2, <1>5, <2>2 DEF InGate
  <2> QED  BY <1>1, <2>1, <2>2
<1> HIDE DEF InGate
<1>10. JobsOK'
  <2>1. CASE wake'[c] = "granted" /\ micro' = m
    <3>1. Once(micro') /\ \A d \in Calls : wake'[d] # "none" <=> In(micro', d)
      BY <1>2, <1>3, <1>4, <1>8, <2>1
    <3> QED  BY <3>1 DEF JobsOK
  <2>2. CASE wake'[c] = "none" /\ micro' = micro
    <3>1. Once(micro') /\ \A d \in Calls : wake'[d] # "none" <=> In(micro', d)
      BY <1>2, <1>3, <1>4, <2>2
    <3> QED  BY <3>1 DEF JobsOK
  <2> QED  BY <1>9, <2>1, <2>2
<1>11. QueuesFull'
  <2>1. ASSUME NEW d \in Calls, pc'[d] = "gate", wake'[d] = "none" PROVE In(gateQ', d)
    <3>1. CASE d = c
      BY <1>6, <1>9, <2>1, <3>1
    <3>2. CASE d # c
      <4>1. In(gateQ, d)
        BY <1>3, <2>1, <3>2 DEF OrderInv, QueuesFull
      <4> QED  BY <1>6, <1>9, <4>1
    <3> QED  BY <3>1, <3>2
  <2>2. ASSUME NEW d \in Calls, pc'[d] = "key", wake'[d] = "none" PROVE In(keyQ'[at'[d]], d)
    <3>1. d # c /\ pc[d] = "key" /\ wake[d] = "none"
      BY <1>3, <2>2
    <3> QED  BY <1>1, <3>1 DEF OrderInv, QueuesFull
  <2> QED  BY <2>1, <2>2 DEF QueuesFull
<1>12. /\ ArrivedOK'
       /\ \A d, e \in Calls : Older(d, e)' => d # e /\ d # c /\ (Older(d, e) \/ e = c)
  <2>1. ArrivedOK /\ arrived \in Seq(Calls)
    BY DEF OrderInv, GateInv, JobTypeOK
  <2>2. /\ pc'[c] # "idle" /\ \A d \in Calls : d # c => pc'[d] = pc[d]
        /\ pc[c] = "idle" /\ arrived' = Append(arrived, c)
    BY <1>1, <1>2, <1>3
  <2> QED  BY <2>1, <2>2, ArrivedStep
<1>13. ASSUME NEW d \in Calls, Parent[d] = NoCall PROVE FirstKey(d)'
  <2>1. CASE d = c
    <3>1. StillWanted(c) = Need[c]
      BY <1>1, <1>13, <2>1, FreshRoot
    <3>2. wanted'[c] = Need[c]
      BY <1>1, <3>1 DEF LaneInv, LockTypeOK
    <3> QED  BY <1>3, <2>1, <3>2 DEF FirstKey
  <2>2. CASE d # c
    <3>1. FirstKey(d)
      BY <1>13 DEF OrderInv
    <3> QED  BY <1>1, <1>3, <2>2, <3>1 DEF FirstKey
  <2> QED  BY <2>1, <2>2
<1>14. ASSUME NEW d \in Calls, NEW e \in Calls, Older(d, e)' PROVE GateOrder(d, e)'
  <2>1. d # e /\ d # c /\ (Older(d, e) \/ e = c)
    BY <1>12, <1>14
  <2>2. Granted(d)' <=> Granted(d)
    BY <1>3, <2>1 DEF Granted
  <2>3. CASE e = c
    <3>1. Before(gateQ, d, c) /\ Before(micro, d, c)
      BY <1>2, <1>4, AbsentOrder
    <3>2. Before(gateQ, d, e)'
      BY <1>6, <1>9, <2>1, <2>3, <3>1
    <3>3. In(gateQ, d)' => ~InGate(e)'
      BY <1>2, <1>9, <2>3, EmptyIn
    <3>4. Granted(d)' /\ Granted(e)' => Before(micro, d, e)'
      BY <1>8, <1>9, <2>1, <2>3, <3>1 DEF Granted
    <3> QED  BY <1>3, <2>3, <3>2, <3>3, <3>4 DEF GateOrder
  <2>4. CASE Older(d, e) /\ e # c
    <3>1. GateOrder(d, e)
      BY <2>4 DEF OrderInv
    <3>2. Before(gateQ, d, e)'
      BY <1>6, <1>9, <2>1, <3>1 DEF GateOrder
    <3>3. In(gateQ, d)' => ~InGate(e)'
      BY <1>6, <1>9, <2>1, <2>4, <3>1 DEF GateOrder
    <3>4. Granted(e)' <=> Granted(e)
      BY <1>3, <2>4 DEF Granted
    <3>5. Granted(d)' /\ Granted(e)' => Before(micro, d, e)'
      BY <1>8, <1>9, <2>1, <2>2, <3>1, <3>4 DEF GateOrder
    <3>6. Granted(d)' /\ InGate(e)' => pc'[e] = "gate"
      BY <1>3, <1>9, <2>2, <2>4, <3>1 DEF GateOrder
    <3> QED  BY <3>2, <3>3, <3>5, <3>6 DEF GateOrder
  <2> QED  BY <2>1, <2>3, <2>4
<1>15. ASSUME NEW d \in Calls, NEW e \in Calls, Older(d, e)', Parent[d] = NoCall, Parent[e] = NoCall
       PROVE  KeyOrder(d, e)'
  <2>1. \A k \in Keys : pc'[d] = "key" /\ wake'[d] = "none" => pc[d] = "key" /\ wake[d] = "none"
    BY <1>3, <1>12, <1>15
  <2>2. CASE Older(d, e)
    <3>1. KeyOrder(d, e)
      BY <1>15, <2>2 DEF OrderInv
    <3> QED  BY <1>1, <2>1, <3>1 DEF KeyOrder
  <2>3. CASE e = c
    <3>1. \A k \in Keys : holder[k] # c
      BY <1>2, GotFacts
    <3>2. \A k \in Keys : ~In(keyQ[k], c)
      BY <1>2, <1>4
    <3>3. \A k \in Keys : Before(keyQ[k], d, e)
      BY <2>3, <3>2, AbsentOrder
    <3> QED  BY <1>1, <2>3, <3>1, <3>3 DEF KeyOrder
  <2> QED  BY <1>12, <1>15, <2>2, <2>3
<1> QED  BY <1>10, <1>11, <1>12, <1>13, <1>14, <1>15 DEF OrderInv


(* A waiter that is dropped leaves the others in order, also those that pass  *)
(* the gate because it has gone.                                            *)
LEMMA DropWaiterOrder ==
    ASSUME LaneInv, GateInv, OrderInv, NEW c \in Calls, Waiting(c), DropWaiter(c),
           UNCHANGED <<pc, wanted, acquired, at, arrived>>
    PROVE  OrderInv'
<1>1. /\ gateQ \in Seq(Calls) /\ Once(gateQ)
      /\ \A d : In(gateQ, d) => d \in Calls /\ pc[d] = "gate" /\ wake[d] = "none"
      /\ \A k \in Keys : keyQ[k] \in Seq(Calls) /\ Once(keyQ[k])
      /\ \A k \in Keys : \A d : In(keyQ[k], d) =>
           d \in Calls /\ pc[d] = "key" /\ wake[d] = "none" /\ at[d] = k
  BY QueueFacts
<1>2. /\ micro \in Seq(Calls) /\ Once(micro)
      /\ \A d \in Calls : wake[d] # "none" <=> In(micro, d)
  BY DEF GateInv, JobTypeOK, OrderInv, JobsOK
<1>3. /\ ArrivedOK' /\ \A d, e \in Calls : Older(d, e)' <=> Older(d, e)
      /\ \A d \in Calls : Parent[d] = NoCall => FirstKey(d)'
  BY DEF OrderInv, ArrivedOK, Once, In, Older, FirstKey
<1>4. CASE wake[c] # "none"
  <2>1. UNCHANGED <<pc, wake, wanted, acquired, at, lockVars, micro, arrived>>
    BY <1>4 DEF DropWaiter
  <2> QED  BY <2>1, SameOrder
<1>5. CASE wake[c] = "none" /\ pc[c] = "key"
  <2>1. PICK i \in 1 .. Len(keyQ[at[c]]) :
          keyQ[at[c]][i] = c /\ keyQ' = [keyQ EXCEPT ![at[c]] = RemoveAt(@, i)]
    BY <1>5 DEF DropWaiter
  <2>2. /\ wake' = [wake EXCEPT ![c] = "rejected"] /\ micro' = Append(micro, c)
        /\ UNCHANGED <<holder, shared, exclusive, gateQ>>
    BY <1>5 DEF DropWaiter
  <2>3. at[c] \in Keys
    BY <1>5 DEF LaneInv, TicketsHoldKeys
  <2>4. PICK q : q = keyQ[at[c]]
    OBVIOUS
  <2>5. PICK r : r = RemoveAt(q, i)
    OBVIOUS
  <2>6. /\ \A d : In(q, d) <=> d = c \/ In(r, d)
        /\ \A d, e : Before(q, d, e) => Before(r, d, e)
    <3>1. q \in Seq(Calls) /\ i \in 1 .. Len(q) /\ q[i] = c
      BY <1>1, <2>1, <2>3, <2>4
    <3> QED  BY <2>5, <3>1, RemoveOrder
  <2>7. /\ keyQ'[at[c]] = r /\ \A k \in Keys : k # at[c] => keyQ'[k] = keyQ[k]
        /\ wake'[c] = "rejected" /\ \A d \in Calls : d # c => wake'[d] = wake[d]
    BY <2>1, <2>2, <2>3, <2>4, <2>5 DEF LaneInv, LockTypeOK
  <2>8. PICK m : m = Append(micro, c)
    OBVIOUS
  <2>9. /\ \A d : In(m, d) <=> In(micro, d) \/ d = c
        /\ Once(m) <=> Once(micro) /\ ~In(micro, c)
        /\ \A d, e : Before(m, d, e) <=>
             /\ Before(micro, d, e) /\ ~(d = c /\ e = c)
             /\ ~(In(micro, e) /\ d = c)
    BY <1>2, <2>8, AppendOrder
  <2>10. JobsOK'
    <3>1. Once(m) /\ \A d \in Calls : wake'[d] # "none" <=> In(m, d)
      BY <1>2, <1>5, <2>7, <2>9
    <3> QED  BY <2>2, <2>8, <3>1 DEF JobsOK
  <2>11. QueuesFull'
    <3>1. \A d \in Calls : pc'[d] = "gate" /\ wake'[d] = "none" => In(gateQ', d)
      BY <2>2, <2>7 DEF OrderInv, QueuesFull
    <3>2. ASSUME NEW d \in Calls, pc'[d] = "key", wake'[d] = "none" PROVE In(keyQ'[at'[d]], d)
      <4>1. d # c /\ pc[d] = "key" /\ wake[d] = "none" /\ at[d] \in Keys /\ at'[d] = at[d]
        BY <2>7, <3>2 DEF LaneInv, TicketsHoldKeys
      <4>2. In(keyQ[at[d]], d)
        BY <4>1 DEF OrderInv, QueuesFull
      <4> QED  BY <2>4, <2>6, <2>7, <4>1, <4>2
    <3> QED  BY <3>1, <3>2 DEF QueuesFull
  <2>12. ASSUME NEW d \in Calls, NEW e \in Calls, Older(d, e) PROVE GateOrder(d, e)'
    <3>1. GateOrder(d, e)
      BY <2>12 DEF OrderInv
    <3>2. /\ \A x \in Calls : Granted(x)' <=> Granted(x)
          /\ \A x \in Calls : InGate(x)' <=> InGate(x)
          /\ ~Granted(c)
      BY <1>5, <2>2, <2>7 DEF Granted, InGate
    <3>3. Granted(d)' /\ Granted(e)' => Before(micro, d, e)'
      BY <2>2, <2>8, <2>9, <3>1, <3>2 DEF GateOrder
    <3> QED  BY <2>2, <3>1, <3>2, <3>3 DEF GateOrder
  <2>13. ASSUME NEW d \in Calls, NEW e \in Calls, KeyOrder(d, e) PROVE KeyOrder(d, e)'
    <3> SUFFICES ASSUME NEW k \in Keys, First(k, Need[d]), pc'[d] = "key", at'[d] = k,
                        wake'[d] = "none"
                 PROVE  holder'[k] # e /\ Before(keyQ'[k], d, e)
      BY DEF KeyOrder
    <3>1. d # c /\ pc[d] = "key" /\ at[d] = k /\ wake[d] = "none"
      BY <2>7
    <3>2. holder[k] # e /\ Before(keyQ[k], d, e)
      BY <2>13, <3>1 DEF KeyOrder
    <3> QED  BY <2>2, <2>4, <2>6, <2>7, <3>2
  <2> QED  BY <1>3, <2>10, <2>11, <2>12, <2>13 DEF OrderInv
<1>6. CASE wake[c] = "none" /\ pc[c] = "gate"
  <2>1. PICK i \in 1 .. Len(gateQ) :
          LET rest == RemoveAt(gateQ, i)
              passed == Passed(rest, shared, exclusive)
          IN  /\ gateQ[i] = c
              /\ PumpGate(rest, shared, exclusive)
              /\ wake' = [d \in Calls |-> IF d = c THEN "rejected"
                                          ELSE IF d \in ToSet(passed) THEN "granted"
                                          ELSE wake[d]]
              /\ micro' = Append(micro \o passed, c)
    BY <1>6 DEF DropWaiter
  <2>2. UNCHANGED <<holder, keyQ>>
    BY <1>6 DEF DropWaiter
  <2>3. PICK rest : rest = RemoveAt(gateQ, i)
    OBVIOUS
  <2>4. /\ rest \in Seq(Calls) /\ Once(rest) /\ ~In(rest, c)
        /\ \A d : In(gateQ, d) <=> d = c \/ In(rest, d)
        /\ \A d, e : Before(gateQ, d, e) => Before(rest, d, e)
    BY <1>1, <2>1, <2>3, RemoveOrder
  <2>5. /\ shared \in SUBSET (Calls \ Exclusive) /\ exclusive \in Exclusive \cup {NoCall}
        /\ exclusive # NoCall => shared = {}
    BY DEF GateInv, GateHolders
  <2>6. PumpGate(rest, shared, exclusive)
    BY <2>1, <2>3
  <2>7. \E n \in 0 .. Len(rest) :
            /\ Passed(rest, shared, exclusive) = SubSeq(rest, 1, n)
            /\ ToSet(Passed(rest, shared, exclusive)) = {rest[j] : j \in 1 .. n}
            /\ gateQ' \in Seq(Calls) /\ Len(gateQ') = Len(rest) - n
            /\ \A j \in 1 .. Len(gateQ') : gateQ'[j] = rest[n + j]
            /\ shared' \subseteq Calls \ Exclusive /\ exclusive' \in Exclusive \cup {NoCall}
            /\ exclusive' # NoCall => shared' = {}
            /\ \A d \in Calls : InGate(d)' <=>
                 d \in shared \/ exclusive = d \/ \E j \in 1 .. n : rest[j] = d
            /\ GateBlocked'
    BY <2>4, <2>5, <2>6, PumpFacts
  <2>8. PICK n \in 0 .. Len(rest) :
            /\ Passed(rest, shared, exclusive) = SubSeq(rest, 1, n)
            /\ ToSet(Passed(rest, shared, exclusive)) = {rest[j] : j \in 1 .. n}
            /\ gateQ' \in Seq(Calls) /\ Len(gateQ') = Len(rest) - n
            /\ \A j \in 1 .. Len(gateQ') : gateQ'[j] = rest[n + j]
            /\ \A d \in Calls : InGate(d)' <=>
                 d \in shared \/ exclusive = d \/ \E j \in 1 .. n : rest[j] = d
    BY <2>7
  <2>9. PICK P : P = SubSeq(rest, 1, n)
    OBVIOUS
  <2>10. PICK t : t = gateQ'
    OBVIOUS
  <2>11. /\ P \in Seq(Calls) /\ Once(P)
         /\ \A d : In(P, d) <=> \E j \in 1 .. n : rest[j] = d
         /\ \A d : In(rest, d) <=> In(P, d) \/ In(t, d)
         /\ \A d, e : Before(rest, d, e) =>
              Before(P, d, e) /\ Before(t, d, e) /\ ~(In(P, e) /\ In(t, d))
    <3>1. t \in Seq(Calls) /\ Len(t) = Len(rest) - n /\ \A j \in 1 .. Len(t) : t[j] = rest[n + j]
      BY <2>8, <2>10
    <3>2. LET h == SubSeq(rest, 1, n)
          IN  /\ h \in Seq(Calls)
              /\ \A d : In(h, d) <=> \E j \in 1 .. n : rest[j] = d
              /\ \A d : In(rest, d) <=> In(h, d) \/ In(t, d)
              /\ Once(rest) => Once(h) /\ Once(t) /\ \A d : ~(In(h, d) /\ In(t, d))
              /\ \A d, e : Before(rest, d, e) =>
                   Before(h, d, e) /\ Before(t, d, e) /\ ~(In(h, e) /\ In(t, d))
      BY <2>4, <3>1, CutOrder
    <3> QED  BY <2>4, <2>9, <3>2
  <2>12. \A d : In(P, d) => d \in Calls /\ d # c /\ pc[d] = "gate" /\ wake[d] = "none"
    BY <1>1, <2>4, <2>11
  <2>13. /\ wake'[c] = "rejected"
         /\ \A d \in Calls : d # c => wake'[d] = IF In(P, d) THEN "granted" ELSE wake[d]
    <3>1. wake' = [d \in Calls |-> IF d = c THEN "rejected"
                                   ELSE IF d \in {rest[j] : j \in 1 .. n} THEN "granted"
                                   ELSE wake[d]]
      BY <2>1, <2>3, <2>8
    <3> QED  BY <2>11, <3>1
  <2>14. PICK u : u = micro \o P
    OBVIOUS
  <2>15. /\ u \in Seq(Calls)
         /\ \A d : In(u, d) <=> In(micro, d) \/ In(P, d)
         /\ Once(u) <=> Once(micro) /\ Once(P) /\ \A d : ~(In(micro, d) /\ In(P, d))
         /\ \A d, e : Before(u, d, e) <=>
              Before(micro, d, e) /\ Before(P, d, e) /\ ~(In(micro, e) /\ In(P, d))
    BY <1>2, <2>11, <2>14, ConcatFacts
  <2>16. PICK m : m = Append(u, c)
    OBVIOUS
  <2>17. /\ \A d : In(m, d) <=> In(u, d) \/ d = c
         /\ Once(m) <=> Once(u) /\ ~In(u, c)
         /\ \A d, e : Before(m, d, e) <=>
              /\ Before(u, d, e) /\ ~(d = c /\ e = c)
              /\ ~(In(u, e) /\ d = c)
    BY <2>15, <2>16, AppendOrder
  <2>18. micro' = m
    BY <2>1, <2>3, <2>8, <2>9, <2>14, <2>16
  <2>19. \A d : ~(In(micro, d) /\ In(P, d))
    BY <1>2, <2>12
  <2>20. JobsOK'
    <3>1. Once(m)
      BY <1>2, <1>6, <2>11, <2>12, <2>15, <2>17, <2>19
    <3>2. \A d \in Calls : wake'[d] # "none" <=> In(m, d)
      BY <1>2, <2>12, <2>13, <2>15, <2>17
    <3> QED  BY <2>18, <3>1, <3>2 DEF JobsOK
  <2>21. QueuesFull'
    <3>1. ASSUME NEW d \in Calls, pc'[d] = "gate", wake'[d] = "none" PROVE In(gateQ', d)
      <4>1. d # c /\ pc[d] = "gate" /\ wake[d] = "none" /\ ~In(P, d)
        BY <2>13, <3>1
      <4>2. In(gateQ, d)
        BY <4>1 DEF OrderInv, QueuesFull
      <4> QED  BY <2>4, <2>10, <2>11, <4>1, <4>2
    <3>2. ASSUME NEW d \in Calls, pc'[d] = "key", wake'[d] = "none" PROVE In(keyQ'[at'[d]], d)
      <4>1. pc[d] = "key" /\ wake[d] = "none" /\ at'[d] = at[d]
        BY <1>6, <2>13, <3>2
      <4> QED  BY <2>2, <4>1 DEF OrderInv, QueuesFull
    <3> QED  BY <3>1, <3>2 DEF QueuesFull
  <2>22. ASSUME NEW d \in Calls, NEW e \in Calls, Older(d, e) PROVE GateOrder(d, e)'
    <3>1. GateOrder(d, e)
      BY <2>22 DEF OrderInv
    <3>2. /\ \A x \in Calls : Granted(x)' => Granted(x) \/ In(P, x)
          /\ \A x \in Calls : Granted(x) => InGate(x) /\ In(micro, x) /\ ~In(P, x) /\ x # c
      <4>1. \A x \in Calls : Granted(x)' => Granted(x) \/ In(P, x)
        BY <2>13 DEF Granted
      <4>2. \A x \in Calls : Granted(x) => InGate(x) /\ In(micro, x) /\ ~In(P, x) /\ x # c
        BY <1>2, <1>6, <2>12 DEF Granted, GateInv, GateHolders
      <4> QED  BY <4>1, <4>2
    <3>3. \A x \in Calls : InGate(x)' => (InGate(x) /\ pc'[x] = pc[x]) \/ In(P, x)
      <4>1. \A x \in Calls : InGate(x)' => InGate(x) \/ In(P, x)
        BY <2>8, <2>11 DEF InGate
      <4> QED  BY <4>1
    <3>4. \A x \in Calls : In(P, x) => pc'[x] = "gate" /\ x # c
      BY <2>12
    <3>5. \A x \in Calls : In(gateQ', x) \/ In(P, x) => In(gateQ, x)
      BY <2>4, <2>10, <2>11
    <3>6. Before(gateQ, d, e) =>
            Before(P, d, e) /\ Before(gateQ', d, e) /\ ~(In(P, e) /\ In(gateQ', d))
      BY <2>4, <2>10, <2>11
    <3>7. Granted(d) /\ Granted(e) /\ Granted(d)' /\ Granted(e)' /\ Before(micro, d, e)
            => Before(micro, d, e)'
      <4> SUFFICES ASSUME Granted(d), Granted(e), Before(micro, d, e) PROVE Before(micro', d, e)
        OBVIOUS
      <4>1. Before(P, d, e)
        BY <3>2, AbsentOrder
      <4> QED  BY <2>15, <2>17, <2>18, <3>2, <4>1
    <3>8. Granted(d) /\ Granted(d)' /\ In(P, e) => Before(micro, d, e)'
      <4> SUFFICES ASSUME Granted(d), In(P, e) PROVE Before(micro', d, e)
        OBVIOUS
      <4>1. Before(micro, d, e) /\ Before(P, d, e)
        BY <2>19, <3>2, AbsentOrder
      <4> QED  BY <2>15, <2>17, <2>18, <2>19, <3>2, <4>1
    <3>9. In(P, d) /\ In(P, e) /\ Before(P, d, e) => Before(micro, d, e)'
      <4> SUFFICES ASSUME In(P, d), In(P, e), Before(P, d, e) PROVE Before(micro', d, e)
        OBVIOUS
      <4>1. Before(micro, d, e)
        BY <2>19, AbsentOrder
      <4> QED  BY <2>15, <2>17, <2>18, <2>19, <3>4, <4>1
    <3>10. /\ \A x \in Calls : Granted(x)' => Granted(x) \/ In(P, x)
           /\ \A x \in Calls : Granted(x) => InGate(x)
           /\ \A x \in Calls : In(P, x) => pc'[x] = "gate"
      BY <3>2, <3>4
    <3> QED  BY <3>1, <3>3, <3>5, <3>6, <3>7, <3>8, <3>9, <3>10, PassOrder
  <2>23. ASSUME NEW d \in Calls, NEW e \in Calls, KeyOrder(d, e) PROVE KeyOrder(d, e)'
    <3>1. pc'[d] = "key" /\ wake'[d] = "none" => pc[d] = "key" /\ wake[d] = "none"
      BY <1>6, <2>13
    <3> QED  BY <2>2, <2>23, <3>1 DEF KeyOrder
  <2> QED  BY <1>3, <2>20, <2>21, <2>22, <2>23 DEF OrderInv
<1> QED  BY <1>4, <1>5, <1>6 DEF Waiting


(* Nobody has arrived at first.                                             *)
LEMMA InitOrder == Init => OrderInv
<1> SUFFICES ASSUME Init PROVE OrderInv
  OBVIOUS
<1>1. /\ micro = <<>> /\ arrived = <<>>
      /\ \A c \in Calls : wake[c] = "none" /\ pc[c] = "idle"
  BY DEF Init
<1>2. JobsOK /\ ArrivedOK
  BY <1>1, EmptyIn DEF JobsOK, ArrivedOK
<1>3. QueuesFull /\ \A c \in Calls : FirstKey(c)
  BY <1>1 DEF QueuesFull, FirstKey
<1>4. \A c, d \in Calls : ~Older(c, d)
  BY <1>1 DEF Older
<1> QED  BY <1>2, <1>3, <1>4 DEF OrderInv

(* Every step keeps the order of arrival.                                   *)
LEMMA StepOrder == LaneInv /\ GateInv /\ OrderInv /\ [Next]_vars => OrderInv'
<1> SUFFICES ASSUME LaneInv, GateInv, OrderInv, [Next]_vars PROVE OrderInv'
  OBVIOUS
<1>1. \A c \in Calls : MayArrive(c) => pc[c] = "idle" /\ wanted[c] = {} /\ acquired[c] = {}
                                       /\ Got(c) = {} /\ wake[c] = "none"
  BY ArrivalFacts, GotFacts
<1>2. ASSUME NEW c \in Calls, ArriveRefused(c) PROVE OrderInv'
  <2>1. /\ pc[c] = "idle" /\ pc' = [pc EXCEPT ![c] = "failed"] /\ arrived' = Append(arrived, c)
        /\ UNCHANGED <<wake, wanted, acquired, at, lockVars, micro>>
    BY <1>1, <1>2 DEF ArriveRefused
  <2> QED  BY <2>1, EndOrder
<1>3. ASSUME NEW c \in Calls, ArriveAtGate(c) PROVE OrderInv'
  BY <1>3, LockGateOrder
<1>4. ASSUME NEW c \in Calls, ArriveAtKeys(c) PROVE OrderInv'
  <2>1. PICK k \in Keys : LockKey(c, k, micro)
    BY <1>4 DEF ArriveAtKeys
  <2>2. /\ MayArrive(c) /\ ~NeedsGate(c) /\ arrived' = Append(arrived, c)
        /\ UNCHANGED <<shared, exclusive, gateQ>>
    BY <1>4 DEF ArriveAtKeys
  <2>3. Parent[c] # NoCall /\ pc[c] = "idle" /\ wake[c] = "none"
    BY <1>1, <2>2, MarkerFacts
  <2>4. acquired' = [acquired EXCEPT ![c] = Got(c)]
    BY <1>1, <1>4, <2>2 DEF ArriveAtKeys, LaneInv, LockTypeOK
  <2>5. \A d \in Calls : d # c => wanted'[d] = wanted[d]
    BY <1>4 DEF ArriveAtKeys, LaneInv, LockTypeOK
  <2> QED  BY <2>1, <2>2, <2>3, <2>4, <2>5, LockKeyOrder
<1>5. ASSUME NEW c \in Calls, ArriveAndRun(c) PROVE OrderInv'
  <2>1. /\ MayArrive(c) /\ arrived' = Append(arrived, c) /\ StillWanted(c) = {}
        /\ UNCHANGED <<wanted, at, lockVars>>
    BY <1>5 DEF ArriveAndRun
  <2>2. pc[c] = "idle" /\ wake[c] = "none" /\ Start(c, Got(c), micro)
    BY <1>1, <1>5, <2>1 DEF ArriveAndRun
  <2>3. Parent[c] = NoCall => wanted[c] = Need[c]
    BY <1>1, <2>1, FreshRoot
  <2> QED  BY <2>1, <2>2, <2>3, StartOrder
<1>6. ASSUME NEW c \in Calls, IsNextJob(c)
      PROVE  /\ pc[c] \in {"gate", "key"} /\ wake[c] # "none"
             /\ Parent[c] = NoCall => wanted[c] = Need[c]
             /\ ~Fails(c) => wake[c] = "granted"
  <2>1. pc[c] \in {"gate", "key"} /\ wake[c] # "none"
    BY <1>6 DEF IsNextJob, LaneInv, WaitersPending, Waiting
  <2>2. Parent[c] = NoCall => wanted[c] = Need[c]
    BY <2>1 DEF OrderInv, FirstKey
  <2>3. ~Fails(c) => wake[c] = "granted"
    BY <2>1 DEF Fails, LaneInv, LockTypeOK
  <2> QED  BY <2>1, <2>2, <2>3
<1>7. ASSUME NEW c \in Calls, ResumeRejected(c) PROVE OrderInv'
  <2>1. /\ IsNextJob(c) /\ ReleaseTicket(c, Got(c), Tail(micro))
        /\ pc' = [pc EXCEPT ![c] = "failed"] /\ UNCHANGED arrived
    BY <1>7 DEF ResumeRejected
  <2> QED  BY <1>6, <2>1, ReleaseOrder
<1>8. ASSUME NEW c \in Calls, ResumeNextKey(c) PROVE OrderInv'
  <2>1. PICK k \in Keys : First(k, wanted[c] \ Got(c)) /\ LockKey(c, k, Tail(micro))
    BY <1>8 DEF ResumeNextKey
  <2>2. /\ IsNextJob(c) /\ ~Fails(c) /\ acquired' = [acquired EXCEPT ![c] = Got(c)]
        /\ UNCHANGED <<shared, exclusive, gateQ>> /\ wanted' = wanted /\ arrived' = arrived
    BY <1>8 DEF ResumeNextKey
  <2>3. PICK jobs : jobs = Tail(micro)
    OBVIOUS
  <2>4. LockKey(c, k, jobs)
    BY <2>1, <2>3
  <2>5. IsNextJob(c) /\ jobs = Tail(micro) /\ pc[c] \in {"gate", "key"} /\ wake[c] = "granted"
    BY <1>6, <2>2, <2>3
  <2>6. Parent[c] = NoCall => wanted'[c] = Need[c] /\ First(k, Need[c] \ Got(c))
    BY <1>6, <2>1, <2>2
  <2> QED  BY <2>2, <2>4, <2>5, <2>6, LockKeyOrder
<1>9. ASSUME NEW c \in Calls, ResumeStart(c) PROVE OrderInv'
  <2>1. /\ IsNextJob(c) /\ ~Fails(c) /\ Start(c, Got(c), Tail(micro))
        /\ UNCHANGED <<wanted, at, lockVars>> /\ arrived' = arrived
    BY <1>9 DEF ResumeStart
  <2> QED  BY <1>6, <2>1, StartOrder
<1>10. \A c \in Calls : pc[c] = "running" => Got(c) = acquired[c] /\ wake[c] = "none"
  BY GotFacts DEF LaneInv, WaitersPending, Waiting
<1>11. ASSUME NEW c \in Calls, Finish(c) PROVE OrderInv'
  <2>1. CASE pc[c] = "running"
    <3>1. /\ ReleaseTicket(c, Got(c), micro) /\ pc' = [pc EXCEPT ![c] = "done"]
          /\ UNCHANGED arrived
      BY <1>10, <1>11, <2>1 DEF Finish
    <3> QED  BY <1>10, <2>1, <3>1, ReleaseOrder
  <2>2. CASE pc[c] = "orphaned"
    <3>1. /\ pc' = [pc EXCEPT ![c] = "done"] /\ arrived' = arrived
          /\ UNCHANGED <<wake, wanted, acquired, at, lockVars, micro>>
      BY <1>11, <2>2 DEF Finish
    <3> QED  BY <2>2, <3>1, EndOrder
  <2> QED  BY <1>11, <2>1, <2>2 DEF Finish, Executing
<1>12. ASSUME NEW c \in Calls, Watchdog(c) PROVE OrderInv'
  <2>1. /\ ReleaseTicket(c, Got(c), micro) /\ pc' = [pc EXCEPT ![c] = "orphaned"]
        /\ pc[c] = "running" /\ UNCHANGED arrived
    BY <1>10, <1>12 DEF Watchdog
  <2> QED  BY <1>10, <2>1, ReleaseOrder
<1>13. ASSUME NEW x \in Calls, Abort(x) PROVE OrderInv'
  <2>1. UNCHANGED <<pc, wanted, acquired, at, arrived>>
    BY <1>13 DEF Abort
  <2>2. CASE \E c \in Calls : Root(c) = x /\ Waiting(c) /\ DropWaiter(c)
    BY <2>1, <2>2, DropWaiterOrder
  <2>3. CASE UNCHANGED <<wake, pendingError, lockVars, micro>>
    BY <2>1, <2>3, SameOrder
  <2> QED  BY <1>13, <2>2, <2>3 DEF Abort
<1>14. ASSUME NEW c \in Calls, AcquireTimeout(c) PROVE OrderInv'
  BY <1>14, DropWaiterOrder DEF AcquireTimeout
<1>15. ASSUME NEW x \in Calls, DeadlinePasses(x) PROVE OrderInv'
  BY <1>15, SameOrder DEF DeadlinePasses
<1>16. CASE UNCHANGED vars
  BY <1>16, SameOrder DEF vars
<1> QED
  BY <1>2, <1>3, <1>4, <1>5, <1>7, <1>8, <1>9, <1>11, <1>12, <1>13, <1>14, <1>15,
     <1>16 DEF Next, AllSettled

(* The queues, the microtasks and the holders keep the order of arrival.      *)
THEOREM OrderKept == Spec => []OrderInv
<1>1. LaneInv /\ GateInv /\ OrderInv /\ [Next]_vars => LaneInv' /\ GateInv' /\ OrderInv'
  BY StepInv, StepGate, StepOrder
<1> QED  BY InitInv, InitGate, InitOrder, <1>1, PTL DEF Spec

(* The younger call is past the gate, so the older one waits for a key: not    *)
(* beside an exclusive call, and not for a first key that the younger one has. *)
LEMMA InvArrival == LaneInv /\ GateInv /\ OrderInv => ArrivalOrder
<1> SUFFICES ASSUME LaneInv, GateInv, OrderInv, NEW i \in DOMAIN arrived, NEW j \in DOMAIN arrived,
                    i < j, Parent[arrived[i]] = NoCall, Parent[arrived[j]] = NoCall,
                    \/ \E k \in Keys : First(k, Need[arrived[i]]) /\ k \in Need[arrived[j]]
                    \/ {arrived[i], arrived[j]} \cap Exclusive # {} /\ Need[arrived[j]] # {},
                    pc[arrived[j]] = "running",
                    Waiting(arrived[i]), wake[arrived[i]] # "rejected"
             PROVE  FALSE
  BY DEF ArrivalOrder
<1>1. arrived[i] \in Calls /\ arrived[j] \in Calls
  BY DEF GateInv, JobTypeOK
<1>2. PICK c \in Calls : c = arrived[i]
  BY <1>1
<1>3. PICK d \in Calls : d = arrived[j]
  BY <1>1
<1>4. Older(c, d)
  BY <1>2, <1>3 DEF Older
<1>5. c # d /\ GateOrder(c, d) /\ KeyOrder(c, d) /\ FirstKey(c) /\ FirstKey(d)
  BY <1>2, <1>3, <1>4, OlderFacts DEF OrderInv
<1>6. pc[c] \in {"gate", "key"} /\ wake[c] \in {"none", "granted"}
  BY <1>2 DEF Waiting, LaneInv, LockTypeOK
<1>7. wanted[d] = Need[d] /\ Need[d] # {} /\ acquired[d] = wanted[d]
  BY <1>3, <1>5 DEF FirstKey, LaneInv, NeedsCovered
<1>8. InGate(d)
  BY <1>3, <1>7 DEF GateInv, PastGate, PastIt
<1>9. pc[c] = "key"
  <2> SUFFICES ASSUME pc[c] = "gate" PROVE FALSE
    BY <1>6
  <2>1. CASE wake[c] = "none"
    BY <1>5, <1>8, <2>1 DEF OrderInv, QueuesFull, GateOrder
  <2>2. CASE wake[c] = "granted"
    BY <1>3, <1>5, <1>8, <2>2 DEF GateOrder, Granted
  <2> QED  BY <1>6, <2>1, <2>2
<1>10. InGate(c)
  BY <1>2, <1>9 DEF GateInv, PastGate, PastIt
<1>11. CASE {c, d} \cap Exclusive # {}
  BY <1>5, <1>8, <1>10, <1>11, GateFacts
<1>12. CASE \E k \in Keys : First(k, Need[c]) /\ k \in Need[d]
  <2>1. PICK k \in Keys : First(k, Need[c]) /\ k \in Need[d]
    BY <1>12
  <2>2. holder[k] = d
    BY <1>7, <2>1 DEF LaneInv, TicketsHoldKeys
  <2>3. at[c] = k /\ wake[c] = "none"
    BY <1>5, <1>6, <1>9, <2>1, <2>2 DEF FirstKey, LaneInv, TicketsHoldKeys
  <2> QED  BY <1>5, <1>9, <2>1, <2>2, <2>3 DEF KeyOrder
<1> QED  BY <1>2, <1>3, <1>11, <1>12

(* Two calls that cannot overlap run in the order in which they were made,     *)
(* however many calls, keys, aborts and timeouts come between them            *)
(* (tool-lanes.js:61-129).                                                  *)
THEOREM CallsRunInOrder == Spec => []ArrivalOrder
BY LanesConsistent, GateConsistent, OrderKept, InvArrival, PTL

=============================================================================
