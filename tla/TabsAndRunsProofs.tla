------------------------- MODULE TabsAndRunsProofs -------------------------
(***************************************************************************)
(* The tabs AutoDOM holds and the runs of workflows: theorems for any       *)
(* values of the constants that meet the assumptions of TabIsolation and of *)
(* WorkflowRuns.  The two components share no variable and nothing proved   *)
(* about one is used for the other.                                        *)
(*                                                                         *)
(* First part: TabsTracked and UserTabSafe.  TabsInv is inductive; it says  *)
(* what each operation in progress knows while it waits for the browser or  *)
(* the storage, and, while nothing that the user does races with AutoDOM,   *)
(* which tabs and groups it can count on.                                  *)
(*                                                                         *)
(* Second part: ReportsTrue and StopsAtStep for any number of runs, entries *)
(* of the batch, steps and any concurrency: RunsInv is inductive and implies *)
(* both.                                                                   *)
(***************************************************************************)
EXTENDS TabIsolation, WorkflowRuns, SequenceTheorems, FiniteSetTheorems,
        WellFoundedInduction, TLAPS

-----------------------------------------------------------------------------
(* TabIsolation: the invariant.                                            *)

\* Where a tab of the user's came from.
UserOrigins == [tab : UserTabs, place : {"home", "group"}]

\* At most one call of a client is counted, and only operations count calls.
Counts == {0} \cup {1 : j \in Jobs}

\* The states of a session: it owns tabs of AutoDOM and adopts tabs of the user's.
SessionRecords ==
    [owned : SUBSET (Tabs \ UserTabs), adopted : SUBSET UserOrigins, inflight : Counts, idle : BOOLEAN]

\* The states of an operation.
Pcs == {"idle", "create", "adopt", "group", "persist", "restore", "query", "fill", "back", "sweep"}
Ops == {"none", "create", "adopt", "claim", "finish", "gone", "sweep", "close", "unpin"}
JobRecords ==
    [pc : Pcs, op : Ops, client : Clients \cup {NoClient}, obj : Objs \cup {NoObj},
     tab : Tabs \cup {NoTab}, back : SUBSET UserOrigins, alive : SUBSET Tabs,
     need : SUBSET Wins, list : SUBSET [client : Clients, obj : Objs]]

\* What an operation knows at each of its awaits: only close_tab closes a tab of the
\* user's, and no other tab than it was given.
JobOK(x) ==
    /\ x \in JobRecords
    /\ x.pc = "idle" => x = Idle
    /\ x.pc \notin {"idle", "sweep"} => x.client \in Clients
    /\ x.pc \in Opening \cup {"restore"} => x.obj \in Objs
    /\ x.pc \in {"create", "sweep"} => x.op = x.pc
    /\ x.pc = "adopt" => x.op = "adopt" /\ x.tab \in UserTabs
    /\ x.pc = "group" => x.tab \in Tabs /\ (x.tab \in UserTabs => x.op = "adopt")
    /\ x.pc \in {"group", "persist", "restore", "back"} => x.op # "close"
    /\ x.pc = "back" => \A r, q \in x.back : r = q
    /\ x.pc \in Closing => IF x.op = "close" THEN x.alive \subseteq {x.tab} ELSE x.alive \cap UserTabs = {}

\* A call that is counted is that of an operation in progress.
Counting(c) ==
    client[c] # NoObj /\ obj[client[c]].inflight = 1 =>
        \E j \in Jobs : job[j].client = c /\ job[j].op \in {"create", "close"}

\* Types.
TypesKept ==
    /\ client \in [Clients -> Objs \cup {NoObj}]
    /\ \A c, d \in Clients : client[c] = client[d] => c = d \/ client[c] = NoObj
    /\ obj \in [Objs -> SessionRecords]
    /\ tab \in [Tabs -> [st : {"absent", "open", "closed"}, win : Wins, place : {"home", "group"}]]
    /\ \A t \in UserTabs : tab[t].st # "absent"
    /\ blank \in [Wins -> {0, 1}]
    /\ store \in [Clients -> [owned : SUBSET (Tabs \ UserTabs), adopted : SUBSET UserOrigins]]
    /\ spared \subseteq Tabs /\ ops \in 0 .. MaxOps /\ calm \in BOOLEAN
    /\ job = [j \in Jobs |-> job[j]]
    /\ \A j \in Jobs : JobOK(job[j]) /\ \A t \in job[j].alive : tab[t].st # "absent"
    /\ \A c \in Clients : Counting(c)

\* An operation that has yet to persist.
Owes(x) == x.pc \in {"group", "persist", "restore", "back"} \/ (x.pc \in Closing /\ x.op # "close")

\* What is stored is what the map holds, unless somebody is still going to store it.
StoreOwed == store = Snapshot(client, obj) \/ \E j \in Jobs : Owes(job[j])

\* While an operation opens or adopts a tab, its session stays.
Current(x) == x.pc \in Opening => client[x.client] = x.obj

\* Every tab that is adopted was at home then: it still is until it is noted, and no
\* two operations adopt it.
FromHome ==
    /\ \A o \in Objs : \A r \in obj[o].adopted : r.place = "home"
    /\ \A j \in Jobs : \A r \in job[j].back : r.place = "home"
    /\ \A j \in Jobs : job[j].pc = "adopt" => tab[job[j].tab].place = "home"
    /\ \A j, k \in Jobs :
         job[j].pc = "adopt" /\ job[k].pc \in {"adopt", "group"} /\ job[j].tab = job[k].tab => j = k
    /\ \A j \in Jobs : job[j].pc = "group" /\ job[j].tab \in UserTabs =>
         [tab |-> job[j].tab, place |-> "home"] \in obj[job[j].obj].adopted

\* A tab of AutoDOM's has a session, or an operation that is about to close it.
Kept(t) ==
    \/ t \in spared
    \/ \E c \in Clients : client[c] # NoObj /\ t \in obj[client[c]].owned
    \/ \E j \in Jobs : \/ job[j].pc = "restore" /\ t \in obj[job[j].obj].owned
                       \/ job[j].pc \in Closing /\ t \in job[j].alive

\* A tab of the user's is at home, or a session or an operation is going to put it back
\* or to close it.
GoesHome(t) ==
    LET r == [tab |-> t, place |-> "home"]
    IN  \/ tab[t].place = "home" \/ t \in spared
        \/ \E c \in Clients : client[c] # NoObj /\ r \in obj[client[c]].adopted
        \/ \E j \in Jobs : \/ job[j].pc = "restore" /\ r \in obj[job[j].obj].adopted \ job[j].back
                           \/ job[j].pc = "back" /\ r \in job[j].back
                           \/ job[j].pc \in Closing /\ t \in job[j].alive

\* One operation at a time closes tabs, and a window it has found to keep a tab has one
\* that it does not close, or a replacement.
OneCloses == \A j, k \in Jobs : job[j].pc \in Closing /\ job[k].pc \in Closing => j = k
KeepsWindow(x) ==
    x.pc = "fill" => \A t \in x.alive :
        \/ tab[t].win \in x.need \/ blank[tab[t].win] = 1
        \/ \E s \in OpenTabs \ x.alive : tab[s].win = tab[t].win

\* What holds undisturbed.
CalmInv ==
    /\ \A j \in Jobs : Current(job[j])
    /\ FromHome /\ OneCloses
    /\ \A t \in OpenTabs \ UserTabs : Kept(t)
    /\ \A t \in OpenTabs \cap UserTabs : GoesHome(t)
    /\ \A j \in Jobs : KeepsWindow(job[j])

\* The inductive invariant.
TabsInv == TypesKept /\ StoreOwed /\ (calm => CalmInv)

-----------------------------------------------------------------------------
(* TabIsolation: lemmas.                                                   *)

\* What is given where a step of the sessions is looked at.
Tidy == TabIsolationAssumption /\ TabsInv

\* No session and no operation sees other tabs than before.
SameContent ==
    /\ \A d \in Clients : client[d] # NoObj =>
         /\ client'[d] = client[d]
         /\ obj'[client[d]].owned = obj[client[d]].owned /\ obj'[client[d]].adopted = obj[client[d]].adopted
    /\ \A k \in Jobs : job[k].obj \in Objs =>
         /\ obj'[job[k].obj].owned = obj[job[k].obj].owned
         /\ obj'[job[k].obj].adopted = obj[job[k].obj].adopted
    /\ \A o \in Objs : obj'[o].adopted \in {obj[o].adopted, {}}
    /\ Snapshot(client', obj') = Snapshot(client, obj)

\* The operation of j goes on as x.
Moves(j, x) == job' = [job EXCEPT ![j] = x]

(* One operation moves, the others do not.                                   *)
LEMMA JobMoves ==
    ASSUME Tidy, NEW j \in Jobs, NEW x, Moves(j, x), JobOK(x),
           \A t \in Tabs : tab[t].st # "absent" => tab'[t].st # "absent",
           \A t \in x.alive : tab'[t].st # "absent"
    PROVE  /\ job' = [k \in Jobs |-> job'[k]]
           /\ \A k \in Jobs : job'[k] = IF k = j THEN x ELSE job[k]
           /\ \A k \in Jobs : JobOK(job'[k]) /\ \A t \in job'[k].alive : tab'[t].st # "absent"
<1>1. job = [k \in Jobs |-> job[k]]
  BY DEF Tidy, TabsInv, TypesKept
<1>2. job' = [k \in Jobs |-> job'[k]] /\ \A k \in Jobs : job'[k] = IF k = j THEN x ELSE job[k]
  BY <1>1 DEF Moves
<1>3. ASSUME NEW k \in Jobs PROVE JobOK(job'[k]) /\ \A t \in job'[k].alive : tab'[t].st # "absent"
  <2>1. k = j => job'[k] = x
    BY <1>2
  <2>2. k # j => job'[k] = job[k]
    BY <1>2
  <2>3. JobOK(job[k]) /\ \A t \in job[k].alive : tab[t].st # "absent"
    BY DEF Tidy, TabsInv, TypesKept
  <2>4. \A t \in job[k].alive : t \in Tabs
    BY <2>3 DEF JobOK, JobRecords
  <2> QED  BY <2>1, <2>2, <2>3, <2>4
<1> QED
  BY <1>2, <1>3

(* What is known of a job.                                                  *)
LEMMA JobIs ==
    ASSUME Tidy, NEW j \in Jobs
    PROVE  /\ JobOK(job[j]) /\ job[j] \in JobRecords
           /\ \A t \in job[j].alive : tab[t].st # "absent"
BY DEF Tidy, TabsInv, TypesKept, JobOK

(* The fields of an operation that does nothing.                            *)
LEMMA IdleIs ==
    /\ Idle \in JobRecords /\ JobOK(Idle)
    /\ Idle.pc = "idle" /\ Idle.op = "none" /\ Idle.client = NoClient /\ Idle.obj = NoObj
    /\ Idle.tab = NoTab /\ Idle.back = {} /\ Idle.alive = {} /\ Idle.need = {} /\ Idle.list = {}
<1>1. Idle \in JobRecords
  BY DEF Idle, JobRecords, Pcs, Ops
<1>2. /\ Idle.pc = "idle" /\ Idle.op = "none" /\ Idle.client = NoClient /\ Idle.obj = NoObj
      /\ Idle.tab = NoTab /\ Idle.back = {} /\ Idle.alive = {} /\ Idle.need = {} /\ Idle.list = {}
  BY DEF Idle
<1> QED
  BY <1>1, <1>2 DEF JobOK, Opening, Closing

(* Who begins an operation did nothing.                                      *)
LEMMA FreeIs == ASSUME Tidy, NEW j \in Jobs, Free(j) PROVE job[j] = Idle /\ job[j].client = NoClient
BY IdleIs DEF Free, Tidy, TabsInv, TypesKept, JobOK

(* A new session.                                                          *)
LEMMA NewIs ==
    /\ NewState \in SessionRecords
    /\ NewState.owned = {} /\ NewState.adopted = {} /\ NewState.inflight = 0 /\ NewState.idle = FALSE
BY DEF NewState, SessionRecords, Counts

(* The session of a client is there, and with its own object.               *)
LEMMA SessionIs ==
    ASSUME Tidy, NEW c \in Clients
    PROVE  /\ client[c] \in Objs \cup {NoObj} /\ NoObj \notin Objs /\ NoClient \notin Clients
           /\ client[c] # NoObj => obj[client[c]] \in SessionRecords
           /\ \A d \in Clients : client[c] = client[d] => c = d \/ client[c] = NoObj
BY DEF Tidy, TabsInv, TypesKept, TabIsolationAssumption

(* A call begins or ends without a change of the tabs of any session.       *)
LEMMA StateForFacts ==
    ASSUME Tidy, NEW c \in Clients, NEW o \in Objs, NEW s \in SessionRecords, StateFor(c, o, s),
           client[c] # NoObj => s.owned = obj[client[c]].owned /\ s.adopted = obj[client[c]].adopted,
           client[c] = NoObj => s = NewState
    PROVE  /\ client' \in [Clients -> Objs \cup {NoObj}] /\ obj' \in [Objs -> SessionRecords]
           /\ \A d, e \in Clients : client'[d] = client'[e] => d = e \/ client'[d] = NoObj
           /\ \A d \in Clients : client'[d] = IF d = c THEN o ELSE client[d]
           /\ \A p \in Objs : obj'[p] = IF p = o THEN s ELSE obj[p]
           /\ client[c] # NoObj => o = client[c]
           /\ SameContent
<1>1. /\ client \in [Clients -> Objs \cup {NoObj}] /\ obj \in [Objs -> SessionRecords] /\ NoObj \notin Objs
      /\ \A d, e \in Clients : client[d] = client[e] => d = e \/ client[d] = NoObj
  BY DEF Tidy, TabsInv, TypesKept, TabIsolationAssumption
<1>2. /\ client[c] # NoObj => o = client[c]
      /\ client[c] = NoObj => o \in Unused
      /\ client' = [client EXCEPT ![c] = o] /\ obj' = [obj EXCEPT ![o] = s]
  BY DEF StateFor
<1>3. client[c] = NoObj => (\A d \in Clients : client[d] # o) /\ (\A k \in Jobs : job[k].obj # o)
  BY <1>1, <1>2 DEF Unused, LiveObjs
<1>4. /\ client' \in [Clients -> Objs \cup {NoObj}] /\ obj' \in [Objs -> SessionRecords]
      /\ \A d \in Clients : client'[d] = IF d = c THEN o ELSE client[d]
      /\ \A p \in Objs : obj'[p] = IF p = o THEN s ELSE obj[p]
  BY <1>1, <1>2
<1>5. \A d, e \in Clients : client'[d] = client'[e] => d = e \/ client'[d] = NoObj
  BY <1>1, <1>2, <1>3, <1>4
<1>6. SameContent
  <2>1. ASSUME NEW d \in Clients, client[d] # NoObj
        PROVE  /\ client'[d] = client[d]
               /\ obj'[client[d]].owned = obj[client[d]].owned /\ obj'[client[d]].adopted = obj[client[d]].adopted
    BY <1>1, <1>2, <1>3, <1>4, <2>1
  <2>2. ASSUME NEW k \in Jobs, job[k].obj \in Objs
        PROVE  /\ obj'[job[k].obj].owned = obj[job[k].obj].owned
               /\ obj'[job[k].obj].adopted = obj[job[k].obj].adopted
    BY <1>1, <1>2, <1>3, <1>4, <2>2
  <2>3. \A p \in Objs : obj'[p].adopted \in {obj[p].adopted, {}}
    BY <1>1, <1>2, <1>4, NewIs
  <2>4. ASSUME NEW d \in Clients
        PROVE  (IF client'[d] = NoObj THEN Nothing ELSE Saved(obj'[client'[d]]))
                 = (IF client[d] = NoObj THEN Nothing ELSE Saved(obj[client[d]]))
    <3>1. CASE client[d] # NoObj
      BY <2>1, <3>1 DEF Saved
    <3>2. CASE client[d] = NoObj /\ d # c
      BY <1>4, <3>2
    <3>3. CASE client[d] = NoObj /\ d = c
      BY <1>1, <1>4, <3>3 DEF Nothing
    <3> QED  BY <3>1, <3>2, <3>3
  <2>5. Snapshot(client', obj') = Snapshot(client, obj)
    BY <2>4 DEF Snapshot
  <2> QED  BY <2>1, <2>2, <2>3, <2>5 DEF SameContent
<1> QED
  BY <1>2, <1>4, <1>5, <1>6

(* A call that is counted stays counted by its operation.                   *)
LEMMA CountsMove ==
    ASSUME Tidy, NEW j \in Jobs, NEW x, \A k \in Jobs : job'[k] = IF k = j THEN x ELSE job[k],
           \A c \in Clients : client'[c] # NoObj /\ obj'[client'[c]].inflight = 1 =>
             \/ x.client = c /\ x.op \in {"create", "close"}
             \/ /\ client[c] # NoObj /\ obj[client[c]].inflight = 1
                /\ job[j].client = c => job[j].op \notin {"create", "close"}
    PROVE  \A c \in Clients : Counting(c)'
<1> SUFFICES ASSUME NEW c \in Clients, client'[c] # NoObj, obj'[client'[c]].inflight = 1
             PROVE  \E k \in Jobs : job'[k].client = c /\ job'[k].op \in {"create", "close"}
  BY DEF Counting
<1>1. CASE x.client = c /\ x.op \in {"create", "close"}
  BY <1>1
<1>2. CASE /\ client[c] # NoObj /\ obj[client[c]].inflight = 1
           /\ job[j].client = c => job[j].op \notin {"create", "close"}
  <2>1. PICK k \in Jobs : job[k].client = c /\ job[k].op \in {"create", "close"}
    BY <1>2 DEF Tidy, TabsInv, TypesKept, Counting
  <2>2. k # j
    BY <1>2, <2>1
  <2> QED  BY <2>1, <2>2
<1> QED
  BY <1>1, <1>2

(* Nothing moves.                                                          *)
LEMMA NothingMoves == ASSUME UNCHANGED <<client, obj>> PROVE SameContent
BY DEF SameContent

(* A call ends.                                                            *)
LEMMA EndedFacts ==
    ASSUME Tidy, NEW c \in Clients, obj' = Ended(c), UNCHANGED client
    PROVE  /\ obj' \in [Objs -> SessionRecords] /\ SameContent
           /\ \A o \in Objs : obj'[o].inflight = 1 => obj[o].inflight = 1
           /\ client[c] # NoObj => obj'[client[c]].inflight = 0
<1>1. /\ client \in [Clients -> Objs \cup {NoObj}] /\ obj \in [Objs -> SessionRecords]
  BY DEF Tidy, TabsInv, TypesKept
<1>2. CASE client[c] = NoObj
  BY <1>1, <1>2, NothingMoves DEF Ended
<1>3. CASE client[c] # NoObj
  <2> DEFINE o == client[c]
             s == [obj[o] EXCEPT !.inflight = IF @ = 0 THEN 0 ELSE @ - 1, !.idle = FALSE]
  <2>1. o \in Objs
    BY <1>1, <1>3
  <2>2. obj[o].inflight \in {0, 1}
    BY <1>1, <2>1 DEF SessionRecords, Counts
  <2> DEFINE n == IF obj[o].inflight = 0 THEN 0 ELSE obj[o].inflight - 1
  <2>a. n = 0 /\ n \in Counts
    BY <2>2 DEF Counts
  <2>b. s = [obj[o] EXCEPT !.inflight = n, !.idle = FALSE]
    OBVIOUS
  <2> HIDE DEF n
  <2>3. s \in SessionRecords /\ s.owned = obj[o].owned /\ s.adopted = obj[o].adopted /\ s.inflight = 0
    <3> DEFINE r == obj[o]
    <3>1. r \in SessionRecords
      BY <1>1, <2>1
    <3> HIDE DEF r
    <3>2. s = [r EXCEPT !.inflight = n, !.idle = FALSE]
      BY <2>b DEF r
    <3> HIDE DEF s
    <3>3. s \in SessionRecords /\ s.owned = r.owned /\ s.adopted = r.adopted /\ s.inflight = 0
      BY <3>1, <3>2, <2>a DEF SessionRecords
    <3> QED  BY <3>3 DEF r
  <2>4. obj' = [obj EXCEPT ![o] = s]
    BY <1>1, <1>3, <2>1 DEF Ended
  <2> HIDE DEF s, o
  <2>5. \A p \in Objs : obj'[p] = IF p = o THEN s ELSE obj[p]
    BY <1>1, <2>4
  <2>6. \A p \in Objs : obj'[p].owned = obj[p].owned /\ obj'[p].adopted = obj[p].adopted
    BY <2>3, <2>5
  <2>7. Snapshot(client', obj') = Snapshot(client, obj)
    BY <1>1, <2>6 DEF Snapshot, Saved
  <2>8. SameContent
    BY <1>1, <2>6, <2>7 DEF SameContent
  <2> QED  BY <1>1, <2>1, <2>3, <2>4, <2>5, <2>8 DEF o
<1> QED
  BY <1>2, <1>3

(* What is stored is what is there, or is still going to be stored.         *)
LEMMA OwesStill ==
    ASSUME Tidy, NEW j \in Jobs, NEW x, \A k \in Jobs : job'[k] = IF k = j THEN x ELSE job[k],
           \/ Owes(x)
           \/ /\ UNCHANGED store /\ Snapshot(client', obj') = Snapshot(client, obj)
              /\ ~Owes(job[j])
           \/ store' = Snapshot(client', obj')
    PROVE  StoreOwed'
<1>1. CASE Owes(x)
  BY <1>1 DEF StoreOwed
<1>2. CASE store' = Snapshot(client', obj')
  BY <1>2 DEF StoreOwed
<1>3. CASE UNCHANGED store /\ Snapshot(client', obj') = Snapshot(client, obj) /\ ~Owes(job[j])
  <2>1. store = Snapshot(client, obj) \/ \E k \in Jobs : k # j /\ Owes(job[k])
    BY <1>3 DEF Tidy, TabsInv, StoreOwed
  <2>2. ASSUME NEW k \in Jobs, k # j, Owes(job[k]) PROVE Owes(job'[k])
    BY <2>2
  <2> QED  BY <1>3, <2>1, <2>2 DEF StoreOwed
<1> QED
  BY <1>1, <1>2, <1>3

(* When no session changes its tabs and no tab moves, the operation that goes on does
   no harm.                                                                *)
LEMMA CalmStays ==
    ASSUME Tidy, CalmInv, NEW j \in Jobs, NEW x, x \in JobRecords,
           \A k \in Jobs : job'[k] = IF k = j THEN x ELSE job[k],
           SameContent, UNCHANGED <<tab, spared>>, \A w \in Wins : blank[w] = 1 => blank'[w] = 1,
           Current(x)', \A r \in x.back : r.place = "home",
           x.pc = "adopt" =>
             /\ tab[x.tab].place = "home"
             /\ \A k \in Jobs : k # j /\ job[k].pc \in {"adopt", "group"} => job[k].tab # x.tab,
           x.pc # "group", job[j].pc \notin {"restore", "back"},
           job[j].pc \in Closing => job[j].alive = {} \/ (x.pc \in Closing /\ x.alive = job[j].alive),
           x.pc \in Closing => \A k \in Jobs : job[k].pc \in Closing => k = j,
           KeepsWindow(x)'
    PROVE  CalmInv'
<1>1. \A k \in Jobs : JobOK(job[k]) /\ job[k] \in JobRecords
  BY JobIs
<1>2. \A d \in Clients : client[d] # NoObj =>
         /\ client'[d] = client[d]
         /\ obj'[client[d]].owned = obj[client[d]].owned /\ obj'[client[d]].adopted = obj[client[d]].adopted
  BY DEF SameContent
<1>3. \A k \in Jobs : job[k].obj \in Objs =>
         /\ obj'[job[k].obj].owned = obj[job[k].obj].owned
         /\ obj'[job[k].obj].adopted = obj[job[k].obj].adopted
  BY DEF SameContent
<1>4. ASSUME NEW k \in Jobs PROVE Current(job[k])'
  <2>1. CASE k = j
    BY <2>1 DEF Current
  <2>2. CASE k # j /\ job[k].pc \in Opening
    <3>1. job[k].obj \in Objs /\ job[k].client \in Clients /\ NoObj \notin Objs
      BY <1>1, <2>2 DEF JobOK, Opening, Tidy, TabIsolationAssumption
    <3>2. client[job[k].client] = job[k].obj
      BY <2>2 DEF CalmInv, Current
    <3>3. client'[job[k].client] = job[k].obj
      BY <1>2, <3>1, <3>2
    <3>4. job'[k] = job[k]
      BY <2>2
    <3> QED  BY <3>3, <3>4 DEF Current
  <2>3. CASE k # j /\ job[k].pc \notin Opening
    BY <2>3 DEF Current
  <2> QED  BY <2>1, <2>2, <2>3
<1>5. FromHome'
  <2>1. \A o \in Objs : \A r \in obj'[o].adopted : r.place = "home"
    BY DEF SameContent, CalmInv, FromHome
  <2>2. \A k \in Jobs : \A r \in job'[k].back : r.place = "home"
    BY DEF CalmInv, FromHome
  <2>3. \A k \in Jobs : job'[k].pc = "adopt" => tab'[job'[k].tab].place = "home"
    BY DEF CalmInv, FromHome
  <2>4. ASSUME NEW k \in Jobs, NEW l \in Jobs,
               job'[k].pc = "adopt", job'[l].pc \in {"adopt", "group"}, job'[k].tab = job'[l].tab
        PROVE  k = l
    <3>1. CASE k = j \/ l = j
      BY <2>4, <3>1
    <3>2. CASE k # j /\ l # j
      BY <2>4, <3>2 DEF CalmInv, FromHome
    <3> QED  BY <3>1, <3>2
  <2>5. ASSUME NEW k \in Jobs, job'[k].pc = "group", job'[k].tab \in UserTabs
        PROVE  [tab |-> job'[k].tab, place |-> "home"] \in obj'[job'[k].obj].adopted
    <3>1. k # j /\ job'[k] = job[k]
      BY <2>5
    <3>2. job[k].obj \in Objs
      BY <1>1, <2>5, <3>1 DEF JobOK, Opening
    <3> QED  BY <1>3, <2>5, <3>1, <3>2 DEF CalmInv, FromHome
  <2> QED  BY <2>1, <2>2, <2>3, <2>4, <2>5 DEF FromHome
<1>6. OneCloses'
  BY DEF CalmInv, OneCloses
<1>7. ASSUME NEW t \in OpenTabs' \ UserTabs PROVE Kept(t)'
  <2>1. t \in OpenTabs \ UserTabs
    BY DEF OpenTabs, Open
  <2>2. Kept(t)
    BY <2>1 DEF CalmInv
  <2>3. CASE t \in spared
    BY <2>3 DEF Kept
  <2>4. CASE \E c \in Clients : client[c] # NoObj /\ t \in obj[client[c]].owned
    <3>1. PICK c \in Clients : client[c] # NoObj /\ t \in obj[client[c]].owned
      BY <2>4
    <3>2. client'[c] # NoObj /\ t \in obj'[client'[c]].owned
      BY <1>2, <3>1
    <3> QED  BY <3>2 DEF Kept
  <2>5. ASSUME NEW k \in Jobs, job[k].pc = "restore", t \in obj[job[k].obj].owned PROVE Kept(t)'
    <3>1. k # j /\ job'[k] = job[k] /\ job[k].obj \in Objs
      BY <1>1, <2>5 DEF JobOK
    <3>2. job'[k].pc = "restore" /\ t \in obj'[job'[k].obj].owned
      BY <1>3, <2>5, <3>1
    <3> QED  BY <3>2 DEF Kept
  <2>6. ASSUME NEW k \in Jobs, job[k].pc \in Closing, t \in job[k].alive PROVE Kept(t)'
    <3>1. job'[k].pc \in Closing /\ t \in job'[k].alive
      BY <2>6
    <3> QED  BY <3>1 DEF Kept
  <2> QED  BY <2>2, <2>3, <2>4, <2>5, <2>6 DEF Kept
<1>8. ASSUME NEW t \in OpenTabs' \cap UserTabs PROVE GoesHome(t)'
  <2> DEFINE r == [tab |-> t, place |-> "home"]
  <2>1. t \in OpenTabs \cap UserTabs
    BY DEF OpenTabs, Open
  <2>2. GoesHome(t)
    BY <2>1 DEF CalmInv
  <2> HIDE DEF r
  <2>3. CASE tab[t].place = "home" \/ t \in spared
    BY <2>3 DEF GoesHome
  <2>4. CASE \E c \in Clients : client[c] # NoObj /\ r \in obj[client[c]].adopted
    <3>1. PICK c \in Clients : client[c] # NoObj /\ r \in obj[client[c]].adopted
      BY <2>4
    <3>2. client'[c] # NoObj /\ r \in obj'[client'[c]].adopted
      BY <1>2, <3>1
    <3> QED  BY <3>2 DEF GoesHome, r
  <2>5. ASSUME NEW k \in Jobs, job[k].pc = "restore", r \in obj[job[k].obj].adopted \ job[k].back
        PROVE  GoesHome(t)'
    <3>1. k # j /\ job'[k] = job[k] /\ job[k].obj \in Objs
      BY <1>1, <2>5 DEF JobOK
    <3>2. job'[k].pc = "restore" /\ r \in obj'[job'[k].obj].adopted \ job'[k].back
      BY <1>3, <2>5, <3>1
    <3> QED  BY <3>2 DEF GoesHome, r
  <2>6. ASSUME NEW k \in Jobs, job[k].pc = "back", r \in job[k].back PROVE GoesHome(t)'
    <3>1. job'[k].pc = "back" /\ r \in job'[k].back
      BY <2>6
    <3> QED  BY <3>1 DEF GoesHome, r
  <2>7. ASSUME NEW k \in Jobs, job[k].pc \in Closing, t \in job[k].alive PROVE GoesHome(t)'
    <3>1. job'[k].pc \in Closing /\ t \in job'[k].alive
      BY <2>7
    <3> QED  BY <3>1 DEF GoesHome
  <2> QED  BY <2>2, <2>3, <2>4, <2>5, <2>6, <2>7 DEF GoesHome, r
<1>9. ASSUME NEW k \in Jobs PROVE KeepsWindow(job[k])'
  <2>1. CASE k = j
    BY <2>1 DEF KeepsWindow
  <2>2. CASE k # j
    <3>1. KeepsWindow(job[k]) /\ job'[k] = job[k]
      BY <2>2 DEF CalmInv
    <3>2. ASSUME job[k].pc = "fill", NEW t \in job[k].alive
          PROVE  \/ tab'[t].win \in job[k].need \/ blank'[tab'[t].win] = 1
                 \/ \E s \in OpenTabs' \ job[k].alive : tab'[s].win = tab'[t].win
      <4>1. t \in Tabs /\ tab[t].win \in Wins
        BY <1>1 DEF JobRecords, Tidy, TabsInv, TypesKept
      <4>2. OpenTabs' = OpenTabs
        BY DEF OpenTabs, Open
      <4>3. \/ tab[t].win \in job[k].need \/ blank[tab[t].win] = 1
            \/ \E s \in OpenTabs \ job[k].alive : tab[s].win = tab[t].win
        BY <3>1, <3>2 DEF KeepsWindow
      <4> QED  BY <4>1, <4>2, <4>3
    <3> QED  BY <3>1, <3>2 DEF KeepsWindow
  <2> QED  BY <2>1, <2>2
<1> QED
  BY <1>4, <1>5, <1>6, <1>7, <1>8, <1>9 DEF CalmInv

\* What the map says of the sessions, as it is stored.
Stores == [Clients -> [owned : SUBSET (Tabs \ UserTabs), adopted : SUBSET UserOrigins]]

(* What persist writes.                                                     *)
LEMMA SnapshotIs ==
    ASSUME NEW cl \in [Clients -> Objs \cup {NoObj}], NEW ob \in [Objs -> SessionRecords]
    PROVE  Snapshot(cl, ob) \in Stores
<1>1. ASSUME NEW c \in Clients
      PROVE  (IF cl[c] = NoObj THEN Nothing ELSE Saved(ob[cl[c]]))
               \in [owned : SUBSET (Tabs \ UserTabs), adopted : SUBSET UserOrigins]
  <2>1. CASE cl[c] = NoObj
    BY <2>1, NewIs DEF Nothing, Saved
  <2>2. CASE cl[c] # NoObj
    <3>1. ob[cl[c]] \in SessionRecords
      BY <2>2
    <3> QED  BY <2>2, <3>1 DEF Saved, SessionRecords
  <2> QED  BY <2>1, <2>2
<1> QED
  BY <1>1 DEF Snapshot, Stores

(* An operation goes on without a change of the tabs or of what sessions have.  *)
LEMMA FillsStep ==
    ASSUME Tidy, UNCHANGED <<tab, spared, calm>>, ops' \in 0 .. MaxOps,
           client' \in [Clients -> Objs \cup {NoObj}], obj' \in [Objs -> SessionRecords],
           \A c, d \in Clients : client'[c] = client'[d] => c = d \/ client'[c] = NoObj,
           blank' \in [Wins -> {0, 1}], \A w \in Wins : blank[w] = 1 => blank'[w] = 1,
           NEW j \in Jobs, NEW x, JobOK(x), Moves(j, x), \A t \in x.alive : tab[t].st # "absent",
           SameContent,
           \A c \in Clients : client'[c] # NoObj /\ obj'[client'[c]].inflight = 1 =>
             \/ x.client = c /\ x.op \in {"create", "close"}
             \/ /\ client[c] # NoObj /\ obj[client[c]].inflight = 1
                /\ job[j].client = c => job[j].op \notin {"create", "close"},
           \/ UNCHANGED store /\ (Owes(job[j]) => Owes(x))
           \/ store' = Snapshot(client, obj),
           calm =>
             /\ Current(x)' /\ \A r \in x.back : r.place = "home"
             /\ x.pc = "adopt" =>
                  /\ tab[x.tab].place = "home"
                  /\ \A k \in Jobs : k # j /\ job[k].pc \in {"adopt", "group"} => job[k].tab # x.tab
             /\ x.pc # "group" /\ job[j].pc \notin {"restore", "back"}
             /\ job[j].pc \in Closing => job[j].alive = {} \/ (x.pc \in Closing /\ x.alive = job[j].alive)
             /\ x.pc \in Closing => \A k \in Jobs : job[k].pc \in Closing => k = j
             /\ KeepsWindow(x)'
    PROVE  TabsInv'
<1>1. /\ job' = [k \in Jobs |-> job'[k]]
      /\ \A k \in Jobs : job'[k] = IF k = j THEN x ELSE job[k]
      /\ \A k \in Jobs : JobOK(job'[k]) /\ \A t \in job'[k].alive : tab'[t].st # "absent"
  BY JobMoves
<1>2. store' \in Stores
  <2>1. client \in [Clients -> Objs \cup {NoObj}] /\ obj \in [Objs -> SessionRecords] /\ store \in Stores
    BY DEF Tidy, TabsInv, TypesKept, Stores
  <2>2. Snapshot(client, obj) \in Stores
    BY <2>1, SnapshotIs
  <2> QED  BY <2>1, <2>2
<1>3. \A c \in Clients : Counting(c)'
  BY <1>1, CountsMove
<1>4. TypesKept'
  BY <1>1, <1>2, <1>3 DEF Tidy, TabsInv, TypesKept, Stores
<1>5. Snapshot(client', obj') = Snapshot(client, obj)
  BY DEF SameContent
<1>6. StoreOwed'
  <2>1. CASE store' = Snapshot(client, obj)
    BY <1>5, <2>1 DEF StoreOwed
  <2>2. CASE UNCHANGED store /\ (Owes(job[j]) => Owes(x))
    BY <1>1, <1>5, <2>2, OwesStill
  <2> QED  BY <2>1, <2>2
<1>7. ASSUME calm PROVE CalmInv'
  <2>1. x \in JobRecords /\ CalmInv
    BY <1>7 DEF JobOK, Tidy, TabsInv
  <2> QED  BY <1>1, <1>7, <2>1, CalmStays
<1> QED
  BY <1>4, <1>6, <1>7 DEF TabsInv

(* The same when no replacement tab opens.                                   *)
LEMMA QuietStep ==
    ASSUME Tidy, UNCHANGED <<tab, spared, calm>>, ops' \in 0 .. MaxOps,
           client' \in [Clients -> Objs \cup {NoObj}], obj' \in [Objs -> SessionRecords],
           \A c, d \in Clients : client'[c] = client'[d] => c = d \/ client'[c] = NoObj,
           UNCHANGED blank,
           NEW j \in Jobs, NEW x, JobOK(x), Moves(j, x), \A t \in x.alive : tab[t].st # "absent",
           SameContent,
           \A c \in Clients : client'[c] # NoObj /\ obj'[client'[c]].inflight = 1 =>
             \/ x.client = c /\ x.op \in {"create", "close"}
             \/ /\ client[c] # NoObj /\ obj[client[c]].inflight = 1
                /\ job[j].client = c => job[j].op \notin {"create", "close"},
           \/ UNCHANGED store /\ (Owes(job[j]) => Owes(x))
           \/ store' = Snapshot(client, obj),
           calm =>
             /\ Current(x)' /\ \A r \in x.back : r.place = "home"
             /\ x.pc = "adopt" =>
                  /\ tab[x.tab].place = "home"
                  /\ \A k \in Jobs : k # j /\ job[k].pc \in {"adopt", "group"} => job[k].tab # x.tab
             /\ x.pc # "group" /\ job[j].pc \notin {"restore", "back"}
             /\ job[j].pc \in Closing => job[j].alive = {} \/ (x.pc \in Closing /\ x.alive = job[j].alive)
             /\ x.pc \in Closing => \A k \in Jobs : job[k].pc \in Closing => k = j
             /\ KeepsWindow(x)'
    PROVE  TabsInv'
<1>1. blank' \in [Wins -> {0, 1}] /\ \A w \in Wins : blank[w] = 1 => blank'[w] = 1
  BY DEF Tidy, TabsInv, TypesKept
<1> QED
  BY <1>1, FillsStep

-----------------------------------------------------------------------------
(* TabIsolation: steps that change no tabs.                                 *)

(* The bound on operations.                                                 *)
LEMMA CountedIs == ASSUME Tidy, Counted PROVE ops' \in 0 .. MaxOps
BY DEF Tidy, TabsInv, TypesKept, Counted, TabIsolationAssumption

(* A tab is going to be created.                                            *)
LEMMA CreateStarts ==
    ASSUME Tidy, UNCHANGED calm, NEW j \in Jobs, NEW c \in Clients, StartCreate(j, c) PROVE TabsInv'
<1>1. PICK o \in Objs :
         /\ StateFor(c, o, Begun(c))
         /\ job' = [job EXCEPT ![j] = [Idle EXCEPT !.pc = "create", !.op = "create",
                                                   !.client = c, !.obj = o]]
  BY DEF StartCreate
<1> DEFINE x == [Idle EXCEPT !.pc = "create", !.op = "create", !.client = c, !.obj = o]
           s == Begun(c)
<1>2. /\ x.pc = "create" /\ x.op = "create" /\ x.client = c /\ x.obj = o /\ x.tab = NoTab
      /\ x.back = {} /\ x.alive = {} /\ x.need = {} /\ x.list = {} /\ x \in JobRecords
  BY DEF Idle, JobRecords, Pcs, Ops
<1>3. JobOK(x) /\ Moves(j, x)
  BY <1>1, <1>2 DEF JobOK, Opening, Closing, Moves
<1>4. s \in SessionRecords
      /\ (client[c] # NoObj => s.owned = obj[client[c]].owned /\ s.adopted = obj[client[c]].adopted)
      /\ (client[c] = NoObj => s = NewState)
  <2>1. CASE client[c] = NoObj
    BY <2>1, NewIs DEF Begun
  <2>2. CASE client[c] # NoObj
    <3>1. /\ obj[client[c]] \in SessionRecords /\ client[c] \in Objs
          /\ obj[client[c]].inflight = 1 =>
               \E k \in Jobs : job[k].client = c /\ job[k].op \in {"create", "close"}
      BY <2>2, SessionIs DEF Tidy, TabsInv, TypesKept, Counting
    <3>2. obj[client[c]].inflight = 0
      BY <3>1 DEF StartCreate, MayAdmit, Admitted, SessionRecords, Counts
    <3>3. s = [obj[client[c]] EXCEPT !.inflight = 1, !.idle = FALSE] /\ 1 \in Counts
      BY <2>2, <3>1, <3>2 DEF Begun, Counts
    <3> HIDE DEF s
    <3> QED  BY <2>2, <3>1, <3>3 DEF SessionRecords
  <2> QED  BY <2>1, <2>2
<1> HIDE DEF x, s
<1>5. /\ client' \in [Clients -> Objs \cup {NoObj}] /\ obj' \in [Objs -> SessionRecords]
      /\ \A d, e \in Clients : client'[d] = client'[e] => d = e \/ client'[d] = NoObj
      /\ \A d \in Clients : client'[d] = IF d = c THEN o ELSE client[d]
      /\ \A p \in Objs : obj'[p] = IF p = o THEN s ELSE obj[p]
      /\ SameContent
  BY <1>1, <1>4, StateForFacts DEF s
<1>6. \A d \in Clients : client'[d] # NoObj /\ obj'[client'[d]].inflight = 1 =>
         \/ x.client = d /\ x.op \in {"create", "close"}
         \/ /\ client[d] # NoObj /\ obj[client[d]].inflight = 1
            /\ job[j].client = d => job[j].op \notin {"create", "close"}
  <2> SUFFICES ASSUME NEW d \in Clients, d # c, client'[d] # NoObj, obj'[client'[d]].inflight = 1
               PROVE  /\ client[d] # NoObj /\ obj[client[d]].inflight = 1
                      /\ job[j].client # d
    BY <1>2
  <2>1. client'[d] = client[d] /\ client[d] \in Objs /\ client[d] # o
    BY <1>1, <1>5, SessionIs
  <2>2. job[j].client # d
    BY FreeIs, SessionIs DEF StartCreate, Begin
  <2> QED  BY <1>5, <2>1, <2>2
<1>7. /\ UNCHANGED <<tab, blank, store, spared>> /\ ops' \in 0 .. MaxOps /\ job[j].pc = "idle"
  BY CountedIs DEF StartCreate, Begin, Free
<1>8. Current(x)' /\ KeepsWindow(x)'
  BY <1>2, <1>5 DEF Current, KeepsWindow
<1>9. UNCHANGED store /\ (Owes(job[j]) => Owes(x))
  BY <1>7 DEF Owes, Closing
<1> QED
  BY <1>2, <1>3, <1>5, <1>6, <1>7, <1>8, <1>9, QuietStep DEF Closing

\* The operation of j is over, or a sweep in between, and the call that it stood for.
EndsCall(j, x) ==
    /\ x.pc \in {"idle", "sweep"} /\ x.alive = {} /\ x.back = {} /\ JobOK(x)
    /\ IF job[j].op \in {"create", "close"} THEN job[j].client \in Clients /\ obj' = Ended(job[j].client)
       ELSE obj' = obj

(* The end of an operation.                                                 *)
LEMMA CallEnds ==
    ASSUME Tidy, UNCHANGED <<client, tab, blank, spared, ops, calm>>,
           NEW j \in Jobs, NEW x, Moves(j, x), EndsCall(j, x),
           job[j].pc \notin {"restore", "back"}, job[j].pc \in Closing => job[j].alive = {},
           (UNCHANGED store /\ ~Owes(job[j])) \/ store' = Snapshot(client, obj)
    PROVE  TabsInv'
<1>1. /\ obj' \in [Objs -> SessionRecords] /\ SameContent
      /\ \A c \in Clients : client[c] # NoObj /\ obj'[client[c]].inflight = 1 =>
           /\ obj[client[c]].inflight = 1
           /\ job[j].client = c => job[j].op \notin {"create", "close"}
  <2>1. CASE job[j].op \in {"create", "close"}
    <3>1. job[j].client \in Clients /\ obj' = Ended(job[j].client)
      BY <2>1 DEF EndsCall
    <3>2. /\ obj' \in [Objs -> SessionRecords] /\ SameContent
          /\ \A o \in Objs : obj'[o].inflight = 1 => obj[o].inflight = 1
          /\ client[job[j].client] # NoObj => obj'[client[job[j].client]].inflight = 0
      BY <3>1, EndedFacts
    <3> QED  BY <3>1, <3>2, SessionIs
  <2>2. CASE job[j].op \notin {"create", "close"}
    BY <2>2, NothingMoves DEF EndsCall, Tidy, TabsInv, TypesKept
  <2> QED  BY <2>1, <2>2
<1>2. /\ client' \in [Clients -> Objs \cup {NoObj}] /\ ops' \in 0 .. MaxOps
      /\ \A c, d \in Clients : client'[c] = client'[d] => c = d \/ client'[c] = NoObj
  BY DEF Tidy, TabsInv, TypesKept
<1>3. /\ x.pc \in {"idle", "sweep"} /\ x.alive = {} /\ x.back = {} /\ JobOK(x)
  BY DEF EndsCall
<1>4. Current(x)' /\ KeepsWindow(x)' /\ ~(x.pc \in Closing)
  BY <1>3 DEF Current, KeepsWindow, Opening, Closing
<1> QED
  BY <1>1, <1>2, <1>3, <1>4, QuietStep

(* There is no window for a tab: the call ends.                               *)
LEMMA CreateIsOver ==
    ASSUME Tidy, UNCHANGED calm, NEW j \in Jobs, CreateFails(j) PROVE TabsInv'
<1>1. /\ job[j].pc = "create" /\ job[j].client \in Clients /\ Moves(j, Idle)
      /\ obj' = Ended(job[j].client) /\ UNCHANGED <<client, tab, blank, store, spared, ops>>
  BY JobIs DEF CreateFails, JobOK, Moves
<1>2. EndsCall(j, Idle)
  BY <1>1, IdleIs, JobIs DEF EndsCall, JobOK
<1> QED
  BY <1>1, <1>2, CallEnds DEF Owes, Closing

(* A tab of the user's is going to be adopted.                               *)
LEMMA AdoptStarts ==
    ASSUME Tidy, UNCHANGED calm, NEW j \in Jobs, NEW c \in Clients, NEW t \in UserTabs, StartAdopt(j, c, t)
    PROVE  TabsInv'
<1>1. PICK o \in Objs :
         /\ StateFor(c, o, Content(c))
         /\ job' = [job EXCEPT ![j] = [Idle EXCEPT !.pc = "adopt", !.op = "adopt",
                                                   !.client = c, !.obj = o, !.tab = t]]
  BY DEF StartAdopt
<1> DEFINE x == [Idle EXCEPT !.pc = "adopt", !.op = "adopt", !.client = c, !.obj = o, !.tab = t]
           s == Content(c)
<1>a. t \in Tabs
  BY DEF Tidy, TabIsolationAssumption
<1>2. /\ x.pc = "adopt" /\ x.op = "adopt" /\ x.client = c /\ x.obj = o /\ x.tab = t
      /\ x.back = {} /\ x.alive = {} /\ x.need = {} /\ x.list = {} /\ x \in JobRecords
  BY <1>a DEF Idle, JobRecords, Pcs, Ops
<1>3. JobOK(x) /\ Moves(j, x)
  BY <1>1, <1>2 DEF JobOK, Opening, Closing, Moves
<1>4. s \in SessionRecords
      /\ (client[c] # NoObj => s = obj[client[c]])
      /\ (client[c] = NoObj => s = NewState)
  BY SessionIs, NewIs DEF Content
<1> HIDE DEF x, s
<1>5. /\ client' \in [Clients -> Objs \cup {NoObj}] /\ obj' \in [Objs -> SessionRecords]
      /\ \A d, e \in Clients : client'[d] = client'[e] => d = e \/ client'[d] = NoObj
      /\ \A d \in Clients : client'[d] = IF d = c THEN o ELSE client[d]
      /\ \A p \in Objs : obj'[p] = IF p = o THEN s ELSE obj[p]
      /\ client[c] # NoObj => o = client[c]
      /\ SameContent
  BY <1>1, <1>4, StateForFacts DEF s
<1>6. \A d \in Clients : client'[d] # NoObj /\ obj'[client'[d]].inflight = 1 =>
         /\ client[d] # NoObj /\ obj[client[d]].inflight = 1
         /\ job[j].client = d => job[j].op \notin {"create", "close"}
  <2> SUFFICES ASSUME NEW d \in Clients, client'[d] # NoObj, obj'[client'[d]].inflight = 1
               PROVE  client[d] # NoObj /\ obj[client[d]].inflight = 1 /\ job[j].client # d
    OBVIOUS
  <2>1. job[j].client # d
    BY FreeIs, SessionIs DEF StartAdopt, Begin
  <2>2. CASE d # c
    <3>1. client'[d] = client[d] /\ client[d] \in Objs /\ client[d] # o
      BY <1>1, <1>5, <2>2, SessionIs
    <3> QED  BY <1>5, <2>1, <3>1
  <2>3. CASE d = c
    <3>1. s.inflight = 1
      BY <1>5, <2>3
    <3> QED  BY <1>4, <1>5, <2>1, <2>3, <3>1, NewIs
  <2> QED  BY <2>2, <2>3
<1>7. /\ UNCHANGED <<tab, blank, store, spared>> /\ ops' \in 0 .. MaxOps /\ job[j].pc = "idle"
  BY CountedIs DEF StartAdopt, Begin, Free
<1>8. Current(x)' /\ KeepsWindow(x)'
  BY <1>2, <1>5 DEF Current, KeepsWindow
<1>9. UNCHANGED store /\ (Owes(job[j]) => Owes(x))
  BY <1>7 DEF Owes, Closing
<1>10. calm =>
         /\ tab[t].place = "home"
         /\ \A k \in Jobs : k # j /\ job[k].pc \in {"adopt", "group"} => job[k].tab # t
  <2> SUFFICES ASSUME calm PROVE /\ tab[t].place = "home"
                                 /\ \A k \in Jobs : job[k].pc \in {"adopt", "group"} => job[k].tab # t
    OBVIOUS
  <2>1. /\ tab[t].place = "home" /\ \A k \in Jobs : job[k].pc = "adopt" => job[k].tab # t
        /\ \A d \in Clients : ~Manages(d, t)
    BY DEF StartAdopt, Settled
  <2>2. ASSUME NEW k \in Jobs, job[k].pc = "group", job[k].tab = t PROVE FALSE
    <3>1. [tab |-> t, place |-> "home"] \in obj[job[k].obj].adopted
      BY <2>2 DEF Tidy, TabsInv, CalmInv, FromHome
    <3>2. job[k].client \in Clients /\ job[k].obj \in Objs
      BY <2>2, JobIs DEF JobOK, Opening
    <3>3. client[job[k].client] = job[k].obj
      BY <2>2 DEF Tidy, TabsInv, CalmInv, Current, Opening
    <3>4. t \in Adopted(client[job[k].client])
      BY <3>1, <3>3 DEF Adopted
    <3> QED  BY <2>1, <3>2, <3>3, <3>4, SessionIs DEF Manages
  <2> QED  BY <2>1, <2>2
<1> QED
  BY <1>2, <1>3, <1>5, <1>6, <1>7, <1>8, <1>9, <1>10, QuietStep DEF Closing

(* The tab that was to be adopted is gone.                                   *)
LEMMA AdoptIsOver ==
    ASSUME Tidy, UNCHANGED calm, NEW j \in Jobs, job[j].pc = "adopt", Moves(j, Idle),
           UNCHANGED <<client, obj, tab, blank, store, spared, ops>>
    PROVE  TabsInv'
<1>1. job[j].op = "adopt"
  BY JobIs DEF JobOK
<1>2. EndsCall(j, Idle)
  BY <1>1, IdleIs DEF EndsCall
<1> QED
  BY <1>2, CallEnds DEF Owes, Closing

(* The sessions are stored; a sweep goes on.                                 *)
LEMMA SessionsStored ==
    ASSUME Tidy, UNCHANGED calm, NEW j \in Jobs, Persist(j) PROVE TabsInv'
<1> DEFINE y == [Idle EXCEPT !.pc = "sweep", !.op = "sweep", !.list = job[j].list]
           x == IF job[j].op = "sweep" THEN y ELSE Idle
<1>1. JobOK(job[j]) /\ job[j].pc = "persist" /\ job[j].client \in Clients /\ job[j] \in JobRecords
  BY JobIs DEF Persist, JobOK
<1>2. /\ y.pc = "sweep" /\ y.op = "sweep" /\ y.client = NoClient /\ y.alive = {} /\ y.back = {}
      /\ y \in JobRecords
  BY <1>1 DEF Idle, JobRecords, Pcs, Ops
<1>3. JobOK(y)
  BY <1>2 DEF JobOK, Opening, Closing
<1>4. /\ x.pc \in {"idle", "sweep"} /\ x.alive = {} /\ x.back = {} /\ JobOK(x)
      /\ x.client \notin Clients
  BY <1>2, <1>3, IdleIs, SessionIs
<1>5. /\ Moves(j, x) /\ store' = Snapshot(client, obj) /\ UNCHANGED <<client, tab, blank, spared, ops>>
      /\ obj' = IF job[j].op = "create" THEN Ended(job[j].client) ELSE obj
  BY DEF Persist, Moves
<1> HIDE DEF x, y
<1>6. EndsCall(j, x)
  <2>1. CASE job[j].op = "create"
    BY <1>1, <1>4, <1>5, <2>1 DEF EndsCall
  <2>2. CASE job[j].op # "create" /\ job[j].op # "close"
    BY <1>4, <1>5, <2>2 DEF EndsCall
  <2>3. job[j].op # "close"
    BY <1>1 DEF JobOK
  <2> QED  BY <2>1, <2>2, <2>3
<1> QED
  BY <1>1, <1>5, <1>6, CallEnds DEF Owes, Closing

(* The sweep has no session left to end.                                    *)
LEMMA SweepIsOver ==
    ASSUME Tidy, UNCHANGED calm, NEW j \in Jobs, SweepDone(j) PROVE TabsInv'
<1>1. /\ job[j].pc = "sweep" /\ Moves(j, Idle) /\ UNCHANGED <<client, obj, tab, blank, store, spared, ops>>
  BY DEF SweepDone, Moves
<1>2. EndsCall(j, Idle)
  BY <1>1, IdleIs, JobIs DEF EndsCall, JobOK
<1> QED
  BY <1>1, <1>2, CallEnds DEF Owes, Closing

(* All tabs of an operation are closed.                                     *)
LEMMA AllRemoved ==
    ASSUME Tidy, UNCHANGED calm, NEW j \in Jobs, Removed(j) PROVE TabsInv'
<1>1. /\ JobOK(job[j]) /\ job[j].pc = "fill" /\ job[j].alive = {} /\ job[j].client \in Clients
      /\ job[j] \in JobRecords /\ UNCHANGED <<client, tab, blank, store, spared, ops>>
  BY JobIs DEF Removed, JobOK
<1>2. CASE job[j].op = "close"
  <2>1. Moves(j, Idle) /\ obj' = Ended(job[j].client)
    BY <1>2 DEF Removed, Moves
  <2>2. EndsCall(j, Idle)
    BY <1>1, <1>2, <2>1, IdleIs DEF EndsCall
  <2> QED  BY <1>1, <1>2, <2>2, <2>1, CallEnds DEF Owes, Closing
<1>3. CASE job[j].op # "close"
  <2> PICK x : x = Saving(j)
    OBVIOUS
  <2>1. Moves(j, x) /\ UNCHANGED obj
    BY <1>3 DEF Removed, Moves
  <2>2. /\ x.pc = "persist" /\ x.op = job[j].op /\ x.client = job[j].client
        /\ x.back = {} /\ x.alive = {} /\ x \in JobRecords
    BY <1>1 DEF Saving, JobRecords, Pcs
  <2>3. JobOK(x)
    BY <1>1, <1>3, <2>2 DEF JobOK, Opening, Closing
  <2>4. /\ client' \in [Clients -> Objs \cup {NoObj}] /\ ops' \in 0 .. MaxOps
        /\ obj' \in [Objs -> SessionRecords] /\ SameContent
        /\ \A c, d \in Clients : client'[c] = client'[d] => c = d \/ client'[c] = NoObj
    BY <1>1, <2>1, NothingMoves DEF Tidy, TabsInv, TypesKept
  <2>5. Current(x)' /\ KeepsWindow(x)' /\ x.pc \notin Closing /\ Owes(x)
    BY <2>2 DEF Current, KeepsWindow, Opening, Closing, Owes
  <2>6. \A c \in Clients : client'[c] # NoObj /\ obj'[client'[c]].inflight = 1 =>
             \/ x.client = c /\ x.op \in {"create", "close"}
             \/ /\ client[c] # NoObj /\ obj[client[c]].inflight = 1
                /\ job[j].client = c => job[j].op \notin {"create", "close"}
    BY <1>1, <2>1, <2>2
  <2> QED  BY <1>1, <2>1, <2>2, <2>3, <2>4, <2>5, <2>6, QuietStep
<1> QED
  BY <1>2, <1>3

(* A window with more tabs than an operation closes has a tab that stays, or
   a replacement.                                                          *)
LEMMA TabStays ==
    ASSUME Tidy, NEW w \in Wins, NEW S \in SUBSET Tabs, ~(Total(w) <= Cardinality(S))
    PROVE  blank[w] = 1 \/ \E s \in OpenTabs \ S : tab[s].win = w
<1> DEFINE T == {t \in OpenTabs : tab[t].win = w}
<1>1. IsFiniteSet(Tabs) /\ blank[w] \in {0, 1} /\ T \subseteq Tabs
  BY DEF Tidy, TabsInv, TypesKept, TabIsolationAssumption, OpenTabs
<1>2. IsFiniteSet(T) /\ IsFiniteSet(S) /\ Cardinality(T) \in Nat /\ Cardinality(S) \in Nat
  BY <1>1, FS_Subset, FS_CardinalityType
<1> SUFFICES ASSUME blank[w] = 0 PROVE \E s \in OpenTabs \ S : tab[s].win = w
  BY <1>1
<1>3. Total(w) = Cardinality(T)
  BY <1>2 DEF Total
<1>4. ~(T \subseteq S)
  <2> SUFFICES ASSUME T \subseteq S PROVE FALSE
    OBVIOUS
  <2>1. Cardinality(T) <= Cardinality(S)
    BY <1>2, FS_Subset
  <2> QED  BY <1>2, <1>3, <2>1
<1> QED
  BY <1>4

(* It is looked up which windows need a replacement.                        *)
LEMMA WindowsFound ==
    ASSUME Tidy, UNCHANGED calm, NEW j \in Jobs, Query(j) PROVE TabsInv'
<1> DEFINE In(w) == {t \in job[j].alive : tab[t].win = w}
           need0 == {w \in Wins : In(w) # {} /\ Empties(w, Cardinality(In(w)))}
<1> PICK need : need = need0
  OBVIOUS
<1> PICK x : x = [job[j] EXCEPT !.pc = "fill", !.need = need]
  OBVIOUS
<1>1. /\ JobOK(job[j]) /\ job[j].pc = "query" /\ job[j] \in JobRecords
      /\ job' = [job EXCEPT ![j].pc = "fill", ![j].need = need]
      /\ UNCHANGED <<client, obj, tab, blank, store, spared, ops>>
      /\ \A t \in job[j].alive : t \in Tabs /\ tab[t].st # "absent"
      /\ \A w \in Wins : In(w) \in SUBSET Tabs
  BY JobIs DEF Query, JobRecords
<1>2. Moves(j, x)
  BY <1>1 DEF Moves, Tidy, TabsInv, TypesKept
<1>3. /\ x.pc = "fill" /\ x.op = job[j].op /\ x.client = job[j].client /\ x.tab = job[j].tab
      /\ x.back = job[j].back /\ x.alive = job[j].alive /\ x.need = need /\ x \in JobRecords
  BY <1>1 DEF JobRecords, Pcs
<1>4. JobOK(x)
  BY <1>1, <1>3 DEF JobOK, Opening, Closing
<1>5. KeepsWindow(x)'
  <2> SUFFICES ASSUME NEW t \in job[j].alive
               PROVE  \/ tab[t].win \in need \/ blank[tab[t].win] = 1
                      \/ \E s \in OpenTabs \ job[j].alive : tab[s].win = tab[t].win
    <3>1. x.alive = job[j].alive /\ x.need = need /\ tab' = tab /\ blank' = blank /\ OpenTabs' = OpenTabs
      BY <1>1, <1>3 DEF OpenTabs, Open
    <3> QED  BY <3>1 DEF KeepsWindow
  <2> DEFINE w == tab[t].win
  <2>1. w \in Wins
    BY <1>1 DEF Tidy, TabsInv, TypesKept
  <2>2. In(w) # {}
    OBVIOUS
  <2>3. CASE Empties(w, Cardinality(In(w)))
    BY <2>1, <2>2, <2>3
  <2>4. CASE ~Empties(w, Cardinality(In(w)))
    <3>1. ~(Total(w) <= Cardinality(In(w)))
      BY <2>4 DEF Empties
    <3>2. blank[w] = 1 \/ \E s \in OpenTabs \ In(w) : tab[s].win = w
      <4> HIDE DEF w, In
      <4> QED  BY <1>1, <2>1, <3>1, TabStays
    <3> QED  BY <3>2
  <2> QED  BY <2>3, <2>4
<1> HIDE DEF In
<1>6. /\ client' \in [Clients -> Objs \cup {NoObj}] /\ ops' \in 0 .. MaxOps
      /\ obj' \in [Objs -> SessionRecords] /\ SameContent
      /\ \A c, d \in Clients : client'[c] = client'[d] => c = d \/ client'[c] = NoObj
  BY <1>1, NothingMoves DEF Tidy, TabsInv, TypesKept
<1>7. Current(x)' /\ (Owes(job[j]) => Owes(x))
  BY <1>1, <1>3 DEF Current, Opening, Closing, Owes
<1>8. \A c \in Clients : client'[c] # NoObj /\ obj'[client'[c]].inflight = 1 =>
           \/ x.client = c /\ x.op \in {"create", "close"}
           \/ /\ client[c] # NoObj /\ obj[client[c]].inflight = 1
              /\ job[j].client = c => job[j].op \notin {"create", "close"}
  BY <1>1, <1>3
<1>9. calm => /\ \A r \in x.back : r.place = "home"
              /\ \A k \in Jobs : job[k].pc \in Closing => k = j
  <2> SUFFICES ASSUME calm PROVE /\ \A r \in x.back : r.place = "home"
                                 /\ \A k \in Jobs : job[k].pc \in Closing => k = j
    OBVIOUS
  <2>1. FromHome /\ OneCloses /\ job[j].pc \in Closing
    BY <1>1 DEF Tidy, TabsInv, CalmInv, Closing
  <2>2. \A r \in x.back : r.place = "home"
    BY <1>3, <2>1 DEF FromHome
  <2>3. \A k \in Jobs : job[k].pc \in Closing => k = j
    BY <2>1 DEF OneCloses
  <2> QED  BY <2>2, <2>3
<1>10. /\ \A t \in x.alive : tab[t].st # "absent"
       /\ job[j].pc \in Closing /\ job[j].pc \notin {"restore", "back"}
       /\ x.pc \in Closing /\ x.alive = job[j].alive /\ x.pc \notin {"adopt", "group"}
  BY <1>1, <1>3 DEF Closing
<1>11. UNCHANGED <<client, obj, tab, blank, store, spared, ops>>
  BY <1>1
<1> QED
  BY <1>2, <1>4, <1>5, <1>6, <1>7, <1>8, <1>9, <1>10, <1>11, QuietStep

(* A session gets idle.                                                    *)
LEMMA SessionIdle ==
    ASSUME Tidy, UNCHANGED calm, NEW c \in Clients, GetsIdle(c) PROVE TabsInv'
<1> DEFINE s == [obj[client[c]] EXCEPT !.idle = TRUE]
<1>1. /\ client[c] \in Objs /\ obj' = [obj EXCEPT ![client[c]] = s]
      /\ UNCHANGED <<client, tab, blank, store, job, spared, ops>>
      /\ obj[client[c]] \in SessionRecords /\ obj \in [Objs -> SessionRecords]
      /\ client \in [Clients -> Objs \cup {NoObj}]
  BY SessionIs DEF GetsIdle, Tidy, TabsInv, TypesKept
<1>2. /\ s \in SessionRecords /\ s.owned = obj[client[c]].owned /\ s.adopted = obj[client[c]].adopted
      /\ s.inflight = obj[client[c]].inflight
  BY <1>1 DEF SessionRecords
<1> HIDE DEF s
<1>3. /\ obj' \in [Objs -> SessionRecords]
      /\ \A o \in Objs : /\ obj'[o].owned = obj[o].owned /\ obj'[o].adopted = obj[o].adopted
                         /\ obj'[o].inflight = obj[o].inflight
  BY <1>1, <1>2
<1>4. Snapshot(client', obj') = Snapshot(client, obj)
  BY <1>1, <1>3 DEF Snapshot, Saved
<1>5. TypesKept'
  <2>1. ASSUME NEW d \in Clients PROVE Counting(d)'
    BY <1>1, <1>3 DEF Counting, Tidy, TabsInv, TypesKept
  <2> QED  BY <1>1, <1>3, <2>1 DEF Tidy, TabsInv, TypesKept
<1>6. StoreOwed'
  BY <1>1, <1>4 DEF StoreOwed, Tidy, TabsInv
<1>7. ASSUME calm PROVE CalmInv'
  <2>1. CalmInv /\ OpenTabs' = OpenTabs
    BY <1>1, <1>7 DEF Tidy, TabsInv, OpenTabs, Open
  <2>2. ASSUME NEW k \in Jobs PROVE Current(job[k])' /\ KeepsWindow(job[k])'
    BY <1>1, <2>1 DEF CalmInv, Current, KeepsWindow
  <2>3. \A k \in Jobs : job[k].pc \in {"group", "restore"} => job[k].obj \in Objs
    BY JobIs DEF JobOK, Opening
  <2>4. FromHome' /\ OneCloses'
    BY <1>1, <1>3, <2>1, <2>3 DEF CalmInv, FromHome, OneCloses
  <2>5. ASSUME NEW t, Kept(t) PROVE Kept(t)'
    BY <1>1, <1>3, <2>3, <2>5 DEF Kept
  <2>6. ASSUME NEW t, GoesHome(t) PROVE GoesHome(t)'
    BY <1>1, <1>3, <2>3, <2>6 DEF GoesHome
  <2> QED  BY <1>1, <2>1, <2>2, <2>4, <2>5, <2>6 DEF CalmInv
<1> QED
  BY <1>5, <1>6, <1>7, <1>1 DEF TabsInv

-----------------------------------------------------------------------------
(* TabIsolation: tabs that sessions get.                                    *)

(* A tab of AutoDOM's opens and is noted.                                    *)
LEMMA TabOpens ==
    ASSUME Tidy, UNCHANGED <<client, blank, store, spared, calm>>, ops' \in 0 .. MaxOps,
           NEW j \in Jobs, NEW x, JobOK(x), Moves(j, x), \A s \in x.alive : tab[s].st # "absent",
           NEW t \in Tabs, NEW w \in Wins, NEW o \in Objs, NEW c \in Clients,
           tab[t].st = "absent", tab' = [tab EXCEPT ![t].st = "open", ![t].win = w],
           obj' = Noted(o, t), x.pc = "group", x.client = c, x.obj = o, x.tab = t,
           job[j].pc = "idle" \/ (job[j].pc = "create" /\ x.client = job[j].client /\ x.op = job[j].op),
           calm => client[c] = o /\ \A r \in x.back : r.place = "home"
    PROVE  TabsInv'
<1>1. /\ t \notin UserTabs
      /\ tab \in [Tabs -> [st : {"absent", "open", "closed"}, win : Wins, place : {"home", "group"}]]
      /\ obj \in [Objs -> SessionRecords] /\ NoObj \notin Objs
  BY DEF Tidy, TabsInv, TypesKept, TabIsolationAssumption
<1>2. /\ tab' \in [Tabs -> [st : {"absent", "open", "closed"}, win : Wins, place : {"home", "group"}]]
      /\ tab'[t].st = "open" /\ \A s \in Tabs : s # t => tab'[s] = tab[s]
  <2> DEFINE y == [tab[t] EXCEPT !.st = "open", !.win = w]
  <2>1. y \in [st : {"absent", "open", "closed"}, win : Wins, place : {"home", "group"}] /\ y.st = "open"
    BY <1>1
  <2>2. tab' = [tab EXCEPT ![t] = y]
    BY <1>1
  <2> HIDE DEF y
  <2>3. tab'[t] = y /\ \A s \in Tabs : s # t => tab'[s] = tab[s]
    BY <1>1, <2>2
  <2>4. tab' \in [Tabs -> [st : {"absent", "open", "closed"}, win : Wins, place : {"home", "group"}]]
    BY <1>1, <2>1, <2>2
  <2> QED  BY <2>1, <2>3, <2>4
<1> DEFINE s0 == [obj[o] EXCEPT !.owned = @ \cup {t}, !.idle = FALSE]
<1>3. /\ s0 \in SessionRecords /\ s0.owned = obj[o].owned \cup {t} /\ s0.adopted = obj[o].adopted
      /\ s0.inflight = obj[o].inflight
  <2> DEFINE S == obj[o].owned \cup {t}
  <2>1. obj[o] \in SessionRecords /\ S \in SUBSET (Tabs \ UserTabs)
    BY <1>1 DEF SessionRecords
  <2>2. s0 = [obj[o] EXCEPT !.owned = S, !.idle = FALSE]
    OBVIOUS
  <2> HIDE DEF S
  <2>3. s0 \in SessionRecords /\ s0.owned = S /\ s0.adopted = obj[o].adopted /\ s0.inflight = obj[o].inflight
    BY <2>1, <2>2 DEF SessionRecords
  <2> QED  BY <2>3 DEF S
<1>4. obj' = [obj EXCEPT ![o] = s0]
  BY <1>1 DEF Noted
<1> HIDE DEF s0
<1>5. /\ obj' \in [Objs -> SessionRecords] /\ t \in obj'[o].owned
      /\ \A p \in Objs : /\ obj[p].owned \subseteq obj'[p].owned /\ obj'[p].adopted = obj[p].adopted
                         /\ obj'[p].inflight = obj[p].inflight
  BY <1>1, <1>3, <1>4
<1>6. /\ job' = [k \in Jobs |-> job'[k]]
      /\ \A k \in Jobs : job'[k] = IF k = j THEN x ELSE job[k]
      /\ \A k \in Jobs : JobOK(job'[k]) /\ \A s \in job'[k].alive : tab'[s].st # "absent"
  <2>1. \A s \in x.alive : s \in Tabs
    BY DEF JobOK, JobRecords
  <2>2. \A s \in Tabs : tab[s].st # "absent" => tab'[s].st # "absent"
    BY <1>2
  <2>3. \A s \in x.alive : tab'[s].st # "absent"
    BY <2>1, <2>2
  <2> QED  BY <2>2, <2>3, JobMoves
<1>7. \A d \in Clients : Counting(d)'
  <2>1. \A d \in Clients : client'[d] # NoObj /\ obj'[client'[d]].inflight = 1 =>
             \/ x.client = d /\ x.op \in {"create", "close"}
             \/ /\ client[d] # NoObj /\ obj[client[d]].inflight = 1
                /\ job[j].client = d => job[j].op \notin {"create", "close"}
    <3>1. job[j].pc = "idle" => job[j].client \notin Clients
      BY FreeIs, SessionIs DEF Free
    <3> QED  BY <1>5, <3>1, SessionIs
  <2> QED  BY <1>6, <2>1, CountsMove
<1>8. TypesKept'
  <2>1. \A s \in UserTabs : s \in Tabs /\ tab[s].st # "absent"
    BY DEF Tidy, TabsInv, TypesKept, TabIsolationAssumption
  <2>2. \A s \in UserTabs : tab'[s].st # "absent"
    BY <1>1, <1>2, <2>1
  <2>3. /\ client' \in [Clients -> Objs \cup {NoObj}] /\ calm' \in BOOLEAN /\ spared' \subseteq Tabs
        /\ \A c1, d1 \in Clients : client'[c1] = client'[d1] => c1 = d1 \/ client'[c1] = NoObj
        /\ blank' \in [Wins -> {0, 1}]
        /\ store' \in [Clients -> [owned : SUBSET (Tabs \ UserTabs), adopted : SUBSET UserOrigins]]
    BY DEF Tidy, TabsInv, TypesKept
  <2> QED  BY <1>2, <1>5, <1>6, <1>7, <2>2, <2>3 DEF TypesKept
<1>9. StoreOwed'
  BY <1>6 DEF StoreOwed, Owes
<1>10. ASSUME calm PROVE CalmInv'
  <2>1. CalmInv /\ client[c] = o /\ OpenTabs' = OpenTabs \cup {t}
    BY <1>1, <1>2, <1>10 DEF Tidy, TabsInv, OpenTabs, Open
  <2>2. \A k \in Jobs : /\ JobOK(job[k]) /\ job[k] \in JobRecords
                        /\ \A s \in job[k].alive : s \in Tabs /\ tab[s].st # "absent"
    BY JobIs DEF JobRecords
  <2>3. ASSUME NEW k \in Jobs PROVE Current(job[k])'
    BY <1>6, <2>1 DEF CalmInv, Current
  <2>4. FromHome'
    <3>1. \A p \in Objs : \A r \in obj'[p].adopted : r.place = "home"
      BY <1>5, <2>1 DEF CalmInv, FromHome
    <3>2. \A k \in Jobs : \A r \in job'[k].back : r.place = "home"
      BY <1>6, <1>10, <2>1 DEF CalmInv, FromHome
    <3>3. \A k \in Jobs : job'[k].pc = "adopt" => job'[k].tab \in UserTabs /\ k # j
      BY <1>6, <2>2 DEF JobOK
    <3>4. \A k \in Jobs : job'[k].pc = "adopt" => tab'[job'[k].tab].place = "home"
      <4> TAKE k \in Jobs
      <4> HAVE job'[k].pc = "adopt"
      <4>1. job'[k] = job[k] /\ job[k].tab \in Tabs /\ job[k].tab # t
        BY <1>1, <1>6, <3>3 DEF Tidy, TabIsolationAssumption
      <4>2. tab[job[k].tab].place = "home"
        BY <2>1, <4>1 DEF CalmInv, FromHome
      <4> QED  BY <1>2, <4>1, <4>2
    <3>5. ASSUME NEW k \in Jobs, NEW l \in Jobs,
                 job'[k].pc = "adopt", job'[l].pc \in {"adopt", "group"}, job'[k].tab = job'[l].tab
          PROVE  k = l
      <4>1. k # j /\ l # j
        BY <1>1, <1>6, <3>3, <3>5
      <4> QED  BY <1>6, <2>1, <3>5, <4>1 DEF CalmInv, FromHome
    <3>6. ASSUME NEW k \in Jobs, job'[k].pc = "group", job'[k].tab \in UserTabs
          PROVE  [tab |-> job'[k].tab, place |-> "home"] \in obj'[job'[k].obj].adopted
      <4>1. k # j /\ job'[k] = job[k]
        BY <1>1, <1>6, <3>6
      <4>2. job[k].obj \in Objs
        BY <2>2, <3>6, <4>1 DEF JobOK, Opening
      <4> QED  BY <1>5, <2>1, <3>6, <4>1, <4>2 DEF CalmInv, FromHome
    <3> QED  BY <3>1, <3>2, <3>4, <3>5, <3>6 DEF FromHome
  <2>5. OneCloses'
    BY <1>6, <2>1 DEF CalmInv, OneCloses, Closing
  <2>6. \A k \in Jobs : job[k].pc \in {"restore", "back"} \cup Closing => job'[k] = job[k]
    BY <1>6 DEF Closing
  <2>7. \A k \in Jobs : job[k].pc = "restore" => job[k].obj \in Objs
    BY <2>2 DEF JobOK
  <2>8. ASSUME NEW s \in OpenTabs' \ UserTabs PROVE Kept(s)'
    <3>1. CASE s = t
      BY <1>1, <1>5, <2>1, <3>1 DEF Kept
    <3>2. CASE s # t
      <4>1. Kept(s)
        BY <2>1, <3>2 DEF CalmInv
      <4> QED  BY <1>5, <2>6, <2>7, <4>1, SessionIs DEF Kept
    <3> QED  BY <3>1, <3>2
  <2>9. ASSUME NEW s \in OpenTabs' \cap UserTabs PROVE GoesHome(s)'
    <3>1. GoesHome(s) /\ tab'[s] = tab[s]
      BY <1>1, <1>2, <2>1 DEF CalmInv, OpenTabs
    <3> QED  BY <1>5, <2>6, <2>7, <3>1, SessionIs DEF GoesHome
  <2>10. ASSUME NEW k \in Jobs PROVE KeepsWindow(job[k])'
    <3>1. CASE k = j
      BY <1>6, <3>1 DEF KeepsWindow
    <3>2. CASE k # j
      <4>1. job'[k] = job[k] /\ KeepsWindow(job[k])
        BY <1>6, <2>1, <3>2 DEF CalmInv
      <4>2. \A s \in job[k].alive : s # t /\ tab'[s] = tab[s]
        BY <1>2, <2>2
      <4>3. \A s \in OpenTabs : s \in OpenTabs' /\ s # t /\ tab'[s] = tab[s]
        BY <1>2, <2>1 DEF OpenTabs, Open
      <4>4. ASSUME job[k].pc = "fill", NEW a \in job[k].alive
            PROVE  \/ tab'[a].win \in job[k].need \/ blank'[tab'[a].win] = 1
                   \/ \E s \in OpenTabs' \ job[k].alive : tab'[s].win = tab'[a].win
        <5>1. \/ tab[a].win \in job[k].need \/ blank[tab[a].win] = 1
              \/ \E s \in OpenTabs \ job[k].alive : tab[s].win = tab[a].win
          BY <4>1, <4>4 DEF KeepsWindow
        <5> QED  BY <4>2, <4>3, <5>1
      <4> QED  BY <4>1, <4>4 DEF KeepsWindow
    <3> QED  BY <3>1, <3>2
  <2> QED  BY <2>3, <2>4, <2>5, <2>8, <2>9, <2>10 DEF CalmInv
<1> QED
  BY <1>8, <1>9, <1>10 DEF TabsInv

(* tabs.create has returned.                                                *)
LEMMA TabCreated ==
    ASSUME Tidy, UNCHANGED calm, NEW j \in Jobs, Create(j) PROVE TabsInv'
<1>1. PICK t \in Tabs, w \in Wins :
         /\ tab[t].st = "absent"
         /\ tab' = [tab EXCEPT ![t].st = "open", ![t].win = w]
         /\ obj' = Noted(job[j].obj, t)
         /\ job' = [job EXCEPT ![j].pc = "group", ![j].tab = t]
  BY DEF Create
<1> PICK x : x = [job[j] EXCEPT !.pc = "group", !.tab = t]
  OBVIOUS
<1>2. /\ job[j].pc = "create" /\ JobOK(job[j]) /\ job[j] \in JobRecords /\ job[j].op = "create"
      /\ job[j].client \in Clients /\ job[j].obj \in Objs /\ \A s \in job[j].alive : tab[s].st # "absent"
      /\ UNCHANGED <<client, blank, store, spared, ops>>
  BY JobIs DEF Create, JobOK, Opening
<1>3. /\ x.pc = "group" /\ x.op = "create" /\ x.client = job[j].client /\ x.obj = job[j].obj /\ x.tab = t
      /\ x.back = job[j].back /\ x.alive = job[j].alive /\ x \in JobRecords
  BY <1>2 DEF JobRecords, Pcs
<1>4. JobOK(x) /\ Moves(j, x)
  BY <1>1, <1>2, <1>3 DEF JobOK, Opening, Closing, Moves, Tidy, TabsInv, TypesKept
<1>5. calm => client[job[j].client] = job[j].obj /\ \A r \in x.back : r.place = "home"
  BY <1>2, <1>3 DEF Tidy, TabsInv, CalmInv, Current, FromHome, Opening
<1>6. ops' \in 0 .. MaxOps
  BY <1>2 DEF Tidy, TabsInv, TypesKept
<1>7. /\ \A s \in x.alive : tab[s].st # "absent"
      /\ job[j].pc = "create" /\ x.client = job[j].client /\ x.op = job[j].op
      /\ UNCHANGED <<client, blank, store, spared>>
  BY <1>2, <1>3
<1> QED
  BY <1>1, <1>2, <1>3, <1>4, <1>5, <1>6, <1>7, TabOpens

(* A page opens a tab.                                                     *)
LEMMA PageOpened ==
    ASSUME Tidy, UNCHANGED calm, NEW j \in Jobs, NEW c \in Clients, NEW opener \in Tabs, NEW t \in Tabs,
           PageOpens(j, c, opener, t)
    PROVE  TabsInv'
<1> PICK x : x = [Idle EXCEPT !.pc = "group", !.op = "claim", !.client = c, !.obj = client[c], !.tab = t]
  OBVIOUS
<1>1. /\ Free(j) /\ client[c] \in Objs /\ tab[t].st = "absent" /\ tab[opener].win \in Wins /\ t \notin UserTabs
  BY SessionIs DEF PageOpens, Begin, Tidy, TabsInv, TypesKept
<1>2. /\ x.pc = "group" /\ x.op = "claim" /\ x.client = c /\ x.obj = client[c] /\ x.tab = t
      /\ x.back = {} /\ x.alive = {} /\ x \in JobRecords
  BY <1>1 DEF Idle, JobRecords, Pcs, Ops
<1>3. JobOK(x) /\ Moves(j, x)
  BY <1>1, <1>2 DEF PageOpens, JobOK, Opening, Closing, Moves
<1>4. ops' \in 0 .. MaxOps /\ job[j].pc = "idle"
  BY CountedIs DEF PageOpens, Begin, Free
<1>5. /\ tab' = [tab EXCEPT ![t].st = "open", ![t].win = tab[opener].win]
      /\ obj' = Noted(client[c], t) /\ UNCHANGED <<client, blank, store, spared>>
  BY DEF PageOpens
<1> QED
  BY <1>1, <1>2, <1>3, <1>4, <1>5, TabOpens

-----------------------------------------------------------------------------
(* TabIsolation: what is kept while tabs and sessions change.               *)

(* An operation goes on, and what the tabs need of it is given.               *)
LEMMA CalmGoesOn ==
    ASSUME Tidy, CalmInv, NEW j \in Jobs, NEW x,
           \A k \in Jobs : job'[k] = IF k = j THEN x ELSE job[k],
           \A s \in Tabs : tab'[s].st = tab[s].st /\ tab'[s].win = tab[s].win,
           \A w \in Wins : blank[w] = 1 => blank'[w] = 1,
           \A k \in Jobs : k # j /\ job[k].pc \in Opening => client'[job[k].client] = job[k].obj,
           Current(x)', KeepsWindow(x)',
           \A o \in Objs : \A r \in obj'[o].adopted : r.place = "home",
           \A r \in x.back : r.place = "home",
           \A k \in Jobs : k # j /\ job[k].pc = "adopt" => tab'[job[k].tab].place = "home",
           x.pc # "adopt", x.pc = "group" => job[j].pc = "adopt" /\ job[j].tab = x.tab,
           \A k \in Jobs : k # j /\ job[k].pc = "group" /\ job[k].tab \in UserTabs =>
             [tab |-> job[k].tab, place |-> "home"] \in obj'[job[k].obj].adopted,
           x.pc = "group" /\ x.tab \in UserTabs => [tab |-> x.tab, place |-> "home"] \in obj'[x.obj].adopted,
           x.pc \in Closing => \A k \in Jobs : job[k].pc \in Closing => k = j,
           \A t \in OpenTabs \ UserTabs : Kept(t) => Kept(t)',
           \A t \in OpenTabs \cap UserTabs : GoesHome(t) => GoesHome(t)'
    PROVE  CalmInv'
<1>1. OpenTabs' = OpenTabs
  BY DEF OpenTabs, Open
<1>2. ASSUME NEW k \in Jobs PROVE Current(job[k])'
  BY DEF Current
<1>3. FromHome'
  <2>1. \A k \in Jobs : \A r \in job'[k].back : r.place = "home"
    BY DEF CalmInv, FromHome
  <2>2. \A k \in Jobs : job'[k].pc = "adopt" => tab'[job'[k].tab].place = "home"
    OBVIOUS
  <2>3. ASSUME NEW k \in Jobs, NEW l \in Jobs,
               job'[k].pc = "adopt", job'[l].pc \in {"adopt", "group"}, job'[k].tab = job'[l].tab
        PROVE  k = l
    <3>1. k # j /\ job[k].pc = "adopt" /\ job'[k].tab = job[k].tab
      BY <2>3
    <3>2. job[l].pc \in {"adopt", "group"} /\ job'[l].tab = job[l].tab
      BY <2>3
    <3> QED  BY <2>3, <3>1, <3>2 DEF CalmInv, FromHome
  <2>4. \A k \in Jobs : job'[k].pc = "group" /\ job'[k].tab \in UserTabs =>
             [tab |-> job'[k].tab, place |-> "home"] \in obj'[job'[k].obj].adopted
    OBVIOUS
  <2> QED  BY <2>1, <2>2, <2>3, <2>4 DEF FromHome
<1>4. OneCloses'
  BY DEF CalmInv, OneCloses
<1>5. ASSUME NEW k \in Jobs PROVE KeepsWindow(job[k])'
  <2>1. CASE k = j
    BY <2>1 DEF KeepsWindow
  <2>2. CASE k # j
    <3>1. KeepsWindow(job[k]) /\ job'[k] = job[k]
      BY <2>2 DEF CalmInv
    <3>2. ASSUME job[k].pc = "fill", NEW t \in job[k].alive
          PROVE  \/ tab'[t].win \in job[k].need \/ blank'[tab'[t].win] = 1
                 \/ \E s \in OpenTabs' \ job[k].alive : tab'[s].win = tab'[t].win
      <4>1. t \in Tabs /\ tab[t].win \in Wins
        BY JobIs DEF JobRecords, Tidy, TabsInv, TypesKept
      <4>2. \/ tab[t].win \in job[k].need \/ blank[tab[t].win] = 1
            \/ \E s \in OpenTabs \ job[k].alive : tab[s].win = tab[t].win
        BY <3>1, <3>2 DEF KeepsWindow
      <4>3. OpenTabs \subseteq Tabs
        BY DEF OpenTabs
      <4> QED  BY <1>1, <4>1, <4>2, <4>3
    <3> QED  BY <3>1, <3>2 DEF KeepsWindow
  <2> QED  BY <2>1, <2>2
<1>6. \A t \in OpenTabs' \ UserTabs : Kept(t)'
  BY <1>1 DEF CalmInv
<1>7. \A t \in OpenTabs' \cap UserTabs : GoesHome(t)'
  BY <1>1 DEF CalmInv
<1> QED
  BY <1>2, <1>3, <1>4, <1>5, <1>6, <1>7 DEF CalmInv

(* The sessions lose nothing but what is given, and what operations hold stays.  *)
LEMMA KeptStill ==
    ASSUME Tidy, NEW j \in Jobs, NEW x, \A k \in Jobs : job'[k] = IF k = j THEN x ELSE job[k],
           NEW t, Kept(t), spared \subseteq spared',
           \A d \in Clients : client[d] # NoObj /\ t \in obj[client[d]].owned =>
             \/ client'[d] = client[d] /\ t \in obj'[client[d]].owned
             \/ x.pc = "restore" /\ t \in obj'[x.obj].owned
             \/ x.pc \in Closing /\ t \in x.alive,
           \A k \in Jobs : k # j /\ job[k].pc = "restore" /\ t \in obj[job[k].obj].owned =>
             t \in obj'[job[k].obj].owned \/ (x.pc \in Closing /\ t \in x.alive),
           job[j].pc = "restore" /\ t \in obj[job[j].obj].owned =>
             \/ x.pc = "restore" /\ t \in obj'[x.obj].owned
             \/ x.pc \in Closing /\ t \in x.alive,
           job[j].pc \in Closing /\ t \in job[j].alive =>
             t \in spared' \/ (x.pc \in Closing /\ t \in x.alive)
    PROVE  Kept(t)'
<1>0. job'[j] = x
  OBVIOUS
<1>1. CASE \/ x.pc = "restore" /\ t \in obj'[x.obj].owned
           \/ x.pc \in Closing /\ t \in x.alive
           \/ t \in spared'
  BY <1>0, <1>1 DEF Kept
<1> SUFFICES ASSUME ~(\/ x.pc = "restore" /\ t \in obj'[x.obj].owned
                      \/ x.pc \in Closing /\ t \in x.alive
                      \/ t \in spared')
             PROVE  Kept(t)'
  BY <1>1
<1>2. ASSUME NEW d \in Clients, client[d] # NoObj, t \in obj[client[d]].owned PROVE Kept(t)'
  <2>1. client'[d] # NoObj /\ t \in obj'[client'[d]].owned
    BY <1>2
  <2> QED  BY <2>1 DEF Kept
<1>3. ASSUME NEW k \in Jobs, job[k].pc = "restore", t \in obj[job[k].obj].owned PROVE Kept(t)'
  <2>1. k # j /\ job'[k] = job[k]
    BY <1>3
  <2>2. job'[k].pc = "restore" /\ t \in obj'[job'[k].obj].owned
    BY <1>3, <2>1
  <2> QED  BY <2>2 DEF Kept
<1>4. ASSUME NEW k \in Jobs, job[k].pc \in Closing, t \in job[k].alive PROVE Kept(t)'
  <2>1. k # j /\ job'[k] = job[k]
    BY <1>4
  <2>2. job'[k].pc \in Closing /\ t \in job'[k].alive
    BY <1>4, <2>1
  <2> QED  BY <2>2 DEF Kept
<1> QED
  BY <1>2, <1>3, <1>4 DEF Kept

\* A tab of the user's that was where the user left it.
Home(t) == [tab |-> t, place |-> "home"]

(* The same for the tabs of the user's.                                     *)
LEMMA GoesHomeStill ==
    ASSUME Tidy, NEW j \in Jobs, NEW x, \A k \in Jobs : job'[k] = IF k = j THEN x ELSE job[k],
           NEW t, GoesHome(t), spared \subseteq spared',
           tab[t].place = "home" => tab'[t].place = "home" \/ GoesHome(t)',
           \A d \in Clients : client[d] # NoObj /\ Home(t) \in obj[client[d]].adopted =>
             \/ client'[d] = client[d] /\ Home(t) \in obj'[client[d]].adopted
             \/ tab'[t].place = "home"
             \/ x.pc = "restore" /\ Home(t) \in obj'[x.obj].adopted \ x.back
             \/ x.pc = "back" /\ Home(t) \in x.back
             \/ x.pc \in Closing /\ t \in x.alive,
           \A k \in Jobs : k # j /\ job[k].pc = "restore" /\ Home(t) \in obj[job[k].obj].adopted =>
             \/ Home(t) \in obj'[job[k].obj].adopted
             \/ x.pc = "back" /\ Home(t) \in x.back
             \/ x.pc \in Closing /\ t \in x.alive,
           job[j].pc = "restore" /\ Home(t) \in obj[job[j].obj].adopted \ job[j].back =>
             \/ tab'[t].place = "home"
             \/ x.pc = "restore" /\ Home(t) \in obj'[x.obj].adopted \ x.back,
           job[j].pc = "back" /\ Home(t) \in job[j].back => tab'[t].place = "home",
           job[j].pc \in Closing /\ t \in job[j].alive =>
             t \in spared' \/ (x.pc \in Closing /\ t \in x.alive)
    PROVE  GoesHome(t)'
<1> PICK r : r = Home(t)
  OBVIOUS
<1>0. job'[j] = x
  OBVIOUS
<1> DEFINE Found == \/ x.pc = "restore" /\ r \in obj'[x.obj].adopted \ x.back
                    \/ x.pc = "back" /\ r \in x.back
                    \/ x.pc \in Closing /\ t \in x.alive
                    \/ t \in spared' \/ tab'[t].place = "home"
<1>1. CASE Found
  BY <1>0, <1>1 DEF GoesHome, Home
<1> SUFFICES ASSUME ~Found PROVE GoesHome(t)'
  BY <1>1
<1>2. ASSUME NEW d \in Clients, client[d] # NoObj, r \in obj[client[d]].adopted PROVE GoesHome(t)'
  <2>1. client'[d] # NoObj /\ r \in obj'[client'[d]].adopted
    BY <1>2
  <2> QED  BY <2>1 DEF GoesHome, Home
<1>3. ASSUME NEW k \in Jobs, job[k].pc = "restore", r \in obj[job[k].obj].adopted \ job[k].back
      PROVE  GoesHome(t)'
  <2>1. k # j /\ job'[k] = job[k]
    BY <1>3
  <2>2. job'[k].pc = "restore" /\ r \in obj'[job'[k].obj].adopted \ job'[k].back
    BY <1>3, <2>1
  <2> QED  BY <2>2 DEF GoesHome, Home
<1>4. ASSUME NEW k \in Jobs, job[k].pc = "back", r \in job[k].back PROVE GoesHome(t)'
  <2>1. k # j /\ job'[k] = job[k]
    BY <1>4
  <2>2. job'[k].pc = "back" /\ r \in job'[k].back
    BY <1>4, <2>1
  <2> QED  BY <2>2 DEF GoesHome, Home
<1>5. ASSUME NEW k \in Jobs, job[k].pc \in Closing, t \in job[k].alive PROVE GoesHome(t)'
  <2>1. k # j /\ job'[k] = job[k]
    BY <1>5
  <2>2. job'[k].pc \in Closing /\ t \in job'[k].alive
    BY <1>5, <2>1
  <2> QED  BY <2>2 DEF GoesHome, Home
<1>6. CASE tab[t].place = "home" \/ t \in spared
  BY <1>6 DEF GoesHome, Home
<1> QED
  BY <1>2, <1>3, <1>4, <1>5, <1>6 DEF GoesHome, Home

(* The types, when one operation goes on.                                   *)
LEMMA TypesGoOn ==
    ASSUME Tidy, UNCHANGED calm, NEW j \in Jobs, NEW x, JobOK(x), Moves(j, x),
           client' \in [Clients -> Objs \cup {NoObj}],
           \A c, d \in Clients : client'[c] = client'[d] => c = d \/ client'[c] = NoObj,
           obj' \in [Objs -> SessionRecords],
           tab' \in [Tabs -> [st : {"absent", "open", "closed"}, win : Wins, place : {"home", "group"}]],
           \A t \in Tabs : tab[t].st # "absent" => tab'[t].st # "absent",
           \A t \in x.alive : tab[t].st # "absent",
           blank' \in [Wins -> {0, 1}], store' \in Stores, spared' \subseteq Tabs, ops' \in 0 .. MaxOps,
           \A c \in Clients : client'[c] # NoObj /\ obj'[client'[c]].inflight = 1 =>
             \/ x.client = c /\ x.op \in {"create", "close"}
             \/ /\ client[c] # NoObj /\ obj[client[c]].inflight = 1
                /\ job[j].client = c => job[j].op \notin {"create", "close"}
    PROVE  TypesKept' /\ \A k \in Jobs : job'[k] = IF k = j THEN x ELSE job[k]
<1>1. \A t \in x.alive : tab'[t].st # "absent"
  BY DEF JobOK, JobRecords
<1>2. /\ job' = [k \in Jobs |-> job'[k]]
      /\ \A k \in Jobs : job'[k] = IF k = j THEN x ELSE job[k]
      /\ \A k \in Jobs : JobOK(job'[k]) /\ \A t \in job'[k].alive : tab'[t].st # "absent"
  BY <1>1, JobMoves
<1>3. \A c \in Clients : Counting(c)'
  BY <1>2, CountsMove
<1>4. \A t \in UserTabs : tab'[t].st # "absent"
  BY DEF Tidy, TabsInv, TypesKept, TabIsolationAssumption
<1>5. calm' \in BOOLEAN
  BY DEF Tidy, TabsInv, TypesKept
<1> QED
  BY <1>2, <1>3, <1>4, <1>5 DEF TypesKept, Stores

-----------------------------------------------------------------------------
(* TabIsolation: adopted tabs, and the end of a session.                    *)

(* A session adopts a tab of the user's.                                      *)
LEMMA SessionAdopts ==
    ASSUME Tidy, NEW o \in Objs, NEW q \in UserOrigins,
           obj' = [obj EXCEPT ![o].adopted = @ \cup {q}, ![o].idle = FALSE]
    PROVE  /\ obj' \in [Objs -> SessionRecords] /\ obj'[o].adopted = obj[o].adopted \cup {q}
           /\ \A p \in Objs : /\ obj'[p].owned = obj[p].owned /\ obj'[p].inflight = obj[p].inflight
                              /\ p # o => obj'[p].adopted = obj[p].adopted
<1> PICK S : S = obj[o].adopted \cup {q}
  OBVIOUS
<1> PICK s0 : s0 = [obj[o] EXCEPT !.adopted = S, !.idle = FALSE]
  OBVIOUS
<1>1. obj \in [Objs -> SessionRecords]
  BY DEF Tidy, TabsInv, TypesKept
<1>2. obj' = [obj EXCEPT ![o] = s0]
  BY <1>1
<1>3. obj[o] \in SessionRecords /\ S \in SUBSET UserOrigins
  BY <1>1 DEF SessionRecords
<1>4. s0 \in SessionRecords /\ s0.owned = obj[o].owned /\ s0.adopted = S /\ s0.inflight = obj[o].inflight
  BY <1>3 DEF SessionRecords
<1>5. obj'[o] = s0 /\ \A p \in Objs : p # o => obj'[p] = obj[p]
  BY <1>1, <1>2
<1>6. obj' \in [Objs -> SessionRecords]
  BY <1>1, <1>2, <1>4
<1> QED
  BY <1>4, <1>5, <1>6

\* Operation j has adopted t, with the origin q, into the session with the object o, and
\* goes on as x.
AdoptsNow(j, x, o, t, q) ==
    /\ UNCHANGED <<client, tab, blank, store, spared, ops, calm>>
    /\ job[j].pc = "adopt" /\ o = job[j].obj /\ t = job[j].tab /\ q = [tab |-> t, place |-> tab[t].place]
    /\ Moves(j, x) /\ JobOK(x) /\ x.pc = "group" /\ x.op = "adopt" /\ x.client = job[j].client
    /\ x.back = job[j].back /\ x.alive = job[j].alive /\ x.obj = o /\ x.tab = t
    /\ obj' \in [Objs -> SessionRecords] /\ obj'[o].adopted = obj[o].adopted \cup {q}
    /\ \A p \in Objs : /\ obj'[p].owned = obj[p].owned /\ obj'[p].inflight = obj[p].inflight
                       /\ p # o => obj'[p].adopted = obj[p].adopted

(* A tab of the user's is noted as adopted.                                  *)
LEMMA TabAdopted ==
    ASSUME Tidy, NEW j \in Jobs, NEW x, NEW o \in Objs, NEW t \in UserTabs, NEW q, AdoptsNow(j, x, o, t, q)
    PROVE  TabsInv'
<1>0. /\ UNCHANGED <<client, tab, blank, store, spared, ops, calm>>
      /\ job[j].pc = "adopt" /\ o = job[j].obj /\ t = job[j].tab /\ q = [tab |-> t, place |-> tab[t].place]
      /\ Moves(j, x) /\ JobOK(x) /\ x.pc = "group" /\ x.op = "adopt" /\ x.client = job[j].client
      /\ x.back = job[j].back /\ x.alive = job[j].alive /\ x.obj = o /\ x.tab = t
      /\ obj' \in [Objs -> SessionRecords] /\ obj'[o].adopted = obj[o].adopted \cup {q}
      /\ \A p \in Objs : /\ obj'[p].owned = obj[p].owned /\ obj'[p].inflight = obj[p].inflight
                         /\ p # o => obj'[p].adopted = obj[p].adopted
  BY DEF AdoptsNow
<1> USE <1>0
<1>1. /\ job[j].op = "adopt" /\ job[j].client \in Clients /\ \A s \in job[j].alive : tab[s].st # "absent"
  BY JobIs DEF JobOK
<1>2. \A p \in Objs : /\ obj[p].adopted \subseteq obj'[p].adopted
                      /\ \A r \in obj'[p].adopted : r \in obj[p].adopted \/ r = q
  <2> TAKE p \in Objs
  <2>1. CASE p = o
    BY <2>1
  <2>2. CASE p # o
    BY <2>2
  <2> QED  BY <2>1, <2>2
<1>7. TypesKept' /\ \A k \in Jobs : job'[k] = IF k = j THEN x ELSE job[k]
  <2>1. \A c \in Clients : client'[c] # NoObj /\ obj'[client'[c]].inflight = 1 =>
             \/ x.client = c /\ x.op \in {"create", "close"}
             \/ /\ client[c] # NoObj /\ obj[client[c]].inflight = 1
                /\ job[j].client = c => job[j].op \notin {"create", "close"}
    BY <1>1, SessionIs
  <2>2. /\ client' \in [Clients -> Objs \cup {NoObj}]
        /\ \A c, d \in Clients : client'[c] = client'[d] => c = d \/ client'[c] = NoObj
        /\ tab' \in [Tabs -> [st : {"absent", "open", "closed"}, win : Wins, place : {"home", "group"}]]
        /\ blank' \in [Wins -> {0, 1}] /\ store' \in Stores /\ spared' \subseteq Tabs /\ ops' \in 0 .. MaxOps
    BY DEF Tidy, TabsInv, TypesKept, Stores
  <2>3. /\ \A s \in x.alive : tab[s].st # "absent"
        /\ \A s \in Tabs : tab[s].st # "absent" => tab'[s].st # "absent"
    BY <1>1
  <2>4. UNCHANGED calm
    OBVIOUS
  <2> QED  BY <2>1, <2>2, <2>3, <2>4, TypesGoOn
<1>8. StoreOwed'
  BY <1>7 DEF StoreOwed, Owes
<1>9. ASSUME calm PROVE CalmInv'
  <2>1. CalmInv
    BY <1>9 DEF Tidy, TabsInv
  <2>2. client[job[j].client] = o /\ q.place = "home" /\ q = [tab |-> t, place |-> "home"]
    BY <1>1, <2>1 DEF CalmInv, Current, FromHome, Opening
  <2>3. Current(x)' /\ KeepsWindow(x)'
    BY <2>2 DEF Current, KeepsWindow
  <2>4. \A k \in Jobs : k # j /\ job[k].pc \in Opening => client'[job[k].client] = job[k].obj
    BY <2>1 DEF CalmInv, Current
  <2>a. \A p \in Objs : \A r \in obj'[p].adopted : r.place = "home"
    BY <1>2, <2>1, <2>2 DEF CalmInv, FromHome
  <2>b. /\ \A r \in x.back : r.place = "home"
        /\ \A k \in Jobs : k # j /\ job[k].pc = "adopt" => tab'[job[k].tab].place = "home"
    BY <2>1 DEF CalmInv, FromHome
  <2>5. \A k \in Jobs : job[k].pc \in {"group", "restore"} => job[k].obj \in Objs
    BY JobIs DEF JobOK, Opening
  <2>6. ASSUME NEW k \in Jobs, job[k].pc = "group", job[k].tab \in UserTabs
        PROVE  [tab |-> job[k].tab, place |-> "home"] \in obj'[job[k].obj].adopted
    <3>1. [tab |-> job[k].tab, place |-> "home"] \in obj[job[k].obj].adopted
      BY <2>1, <2>6 DEF CalmInv, FromHome
    <3> QED  BY <1>2, <2>5, <2>6, <3>1
  <2>7. x.pc = "group" /\ x.tab \in UserTabs => [tab |-> x.tab, place |-> "home"] \in obj'[x.obj].adopted
    BY <2>2
  <2>8. job[j].pc \notin Closing /\ x.pc \notin Closing /\ \A d \in Clients : client[d] # NoObj => client[d] \in Objs
    BY SessionIs DEF Closing
  <2>9. ASSUME NEW s, Kept(s) PROVE Kept(s)'
    <3>1. /\ \A d \in Clients : client[d] # NoObj /\ s \in obj[client[d]].owned =>
               client'[d] = client[d] /\ s \in obj'[client[d]].owned
          /\ \A k \in Jobs : k # j /\ job[k].pc = "restore" /\ s \in obj[job[k].obj].owned =>
               s \in obj'[job[k].obj].owned
          /\ job[j].pc # "restore" /\ job[j].pc \notin Closing /\ spared \subseteq spared'
      BY <2>5, <2>8
    <3> QED  BY <1>7, <2>9, <3>1, KeptStill
  <2>10. ASSUME NEW s, GoesHome(s) PROVE GoesHome(s)'
    <3>1. /\ \A d \in Clients : client[d] # NoObj /\ Home(s) \in obj[client[d]].adopted =>
               client'[d] = client[d] /\ Home(s) \in obj'[client[d]].adopted
          /\ \A k \in Jobs : k # j /\ job[k].pc = "restore" /\ Home(s) \in obj[job[k].obj].adopted =>
               Home(s) \in obj'[job[k].obj].adopted
          /\ job[j].pc \notin {"restore", "back"} /\ job[j].pc \notin Closing /\ spared \subseteq spared'
          /\ tab[s].place = "home" => tab'[s].place = "home"
      BY <1>2, <2>5, <2>8
    <3>2. /\ \A k \in Jobs : job'[k] = IF k = j THEN x ELSE job[k]
          /\ GoesHome(s)
      BY <1>7, <2>10
    <3> QED  BY <3>1, <3>2, GoesHomeStill
  <2>11. x.pc = "group" => job[j].pc = "adopt" /\ job[j].tab = x.tab
    OBVIOUS
  <2>12. /\ \A s \in Tabs : tab'[s].st = tab[s].st /\ tab'[s].win = tab[s].win
         /\ \A w \in Wins : blank[w] = 1 => blank'[w] = 1
         /\ \A k \in Jobs : job'[k] = IF k = j THEN x ELSE job[k]
         /\ x.pc # "adopt"
    BY <1>7
  <2> QED  BY <2>1, <2>3, <2>4, <2>a, <2>b, <2>6, <2>7, <2>8, <2>9, <2>10, <2>11, <2>12, CalmGoesOn
<1> QED
  BY <1>7, <1>8, <1>9 DEF TabsInv

(* tabs.get has returned.                                                   *)
LEMMA AdoptGoesOn ==
    ASSUME Tidy, UNCHANGED calm, NEW j \in Jobs, Adopt(j) PROVE TabsInv'
<1> PICK t : t = job[j].tab
  OBVIOUS
<1>1. job[j].pc = "adopt" /\ UNCHANGED <<client, tab, blank, store, spared, ops>>
  BY DEF Adopt
<1>2. CASE /\ obj' = [obj EXCEPT ![job[j].obj].adopted = @ \cup {[tab |-> t, place |-> tab[t].place]},
                                 ![job[j].obj].idle = FALSE]
           /\ job' = [job EXCEPT ![j].pc = "group"]
  <2> PICK x : x = [job[j] EXCEPT !.pc = "group"]
    OBVIOUS
  <2> PICK o : o = job[j].obj
    OBVIOUS
  <2> PICK q : q = [tab |-> t, place |-> tab[t].place]
    OBVIOUS
  <2>1. /\ JobOK(job[j]) /\ job[j] \in JobRecords /\ o \in Objs
        /\ job[j].client \in Clients /\ job[j].op = "adopt" /\ t \in UserTabs /\ t \in Tabs
    BY <1>1, JobIs DEF JobOK, Opening, Tidy, TabIsolationAssumption
  <2>2. /\ x.pc = "group" /\ x.op = "adopt" /\ x.client = job[j].client /\ x.obj = o /\ x.tab = t
        /\ x.back = job[j].back /\ x.alive = job[j].alive /\ x \in JobRecords
    BY <2>1 DEF JobRecords, Pcs
  <2>3. JobOK(x) /\ Moves(j, x)
    BY <1>2, <2>1, <2>2 DEF JobOK, Opening, Closing, Moves, Tidy, TabsInv, TypesKept
  <2>4. q \in UserOrigins
    BY <2>1 DEF UserOrigins, Tidy, TabsInv, TypesKept
  <2>5. obj' = [obj EXCEPT ![o].adopted = @ \cup {q}, ![o].idle = FALSE]
    BY <1>2
  <2>6. /\ obj' \in [Objs -> SessionRecords] /\ obj'[o].adopted = obj[o].adopted \cup {q}
        /\ \A p \in Objs : /\ obj'[p].owned = obj[p].owned /\ obj'[p].inflight = obj[p].inflight
                           /\ p # o => obj'[p].adopted = obj[p].adopted
    BY <2>1, <2>4, <2>5, SessionAdopts
  <2>7. /\ UNCHANGED <<client, tab, blank, store, spared, ops, calm>> /\ job[j].pc = "adopt"
        /\ o = job[j].obj /\ t = job[j].tab /\ q = [tab |-> t, place |-> tab[t].place]
    BY <1>1
  <2>8. AdoptsNow(j, x, o, t, q)
    BY <2>2, <2>3, <2>6, <2>7 DEF AdoptsNow
  <2> QED  BY <2>1, <2>8, TabAdopted
<1>3. CASE job' = [job EXCEPT ![j] = Idle] /\ UNCHANGED obj
  BY <1>1, <1>3, AdoptIsOver DEF Moves
<1> QED
  BY <1>2, <1>3 DEF Adopt

(* What an operation is that has only its persist left.                       *)
LEMMA SavingIs ==
    ASSUME Tidy, NEW j \in Jobs, job[j].pc \notin {"idle", "sweep"}, job[j].op # "close", NEW x, x = Saving(j)
    PROVE  /\ JobOK(x) /\ x \in JobRecords /\ x.pc = "persist" /\ x.op = job[j].op /\ x.client = job[j].client
           /\ x.back = {} /\ x.alive = job[j].alive /\ x.obj = NoObj /\ x.tab = NoTab
<1>1. JobOK(job[j]) /\ job[j] \in JobRecords
  BY JobIs
<1>2. /\ x \in JobRecords /\ x.pc = "persist" /\ x.op = job[j].op /\ x.client = job[j].client
      /\ x.back = {} /\ x.alive = job[j].alive /\ x.obj = NoObj /\ x.tab = NoTab
  BY <1>1 DEF Saving, JobRecords, Pcs
<1> QED
  BY <1>1, <1>2 DEF JobOK, Opening, Closing

(* An operation that goes on without a change of the sessions: only where tabs stand
   changes.                                                                *)
LEMMA PlacesChange ==
    ASSUME Tidy, UNCHANGED <<client, obj, blank, store, spared, ops, calm>>,
           NEW j \in Jobs, NEW x, JobOK(x), Moves(j, x), x.client = job[j].client, x.op = job[j].op,
           x.alive = job[j].alive, Owes(x), x.pc \notin Opening \cup Closing \cup {"idle"}, job[j].pc \notin Closing,
           tab' \in [Tabs -> [st : {"absent", "open", "closed"}, win : Wins, place : {"home", "group"}]],
           \A s \in Tabs : tab'[s].st = tab[s].st /\ tab'[s].win = tab[s].win,
           calm => /\ \A r \in x.back : r.place = "home"
                   /\ \A k \in Jobs : k # j /\ job[k].pc = "adopt" => tab'[job[k].tab].place = "home"
                   /\ \A t \in OpenTabs \ UserTabs : Kept(t) => Kept(t)'
                   /\ \A t \in OpenTabs \cap UserTabs : GoesHome(t) => GoesHome(t)'
    PROVE  TabsInv'
<1>1. TypesKept' /\ \A k \in Jobs : job'[k] = IF k = j THEN x ELSE job[k]
  <2>1. /\ \A c \in Clients : client'[c] # NoObj /\ obj'[client'[c]].inflight = 1 =>
             \/ x.client = c /\ x.op \in {"create", "close"}
             \/ /\ client[c] # NoObj /\ obj[client[c]].inflight = 1
                /\ job[j].client = c => job[j].op \notin {"create", "close"}
        /\ \A s \in x.alive : tab[s].st # "absent"
        /\ \A s \in Tabs : tab[s].st # "absent" => tab'[s].st # "absent"
    BY JobIs
  <2>2. /\ client' \in [Clients -> Objs \cup {NoObj}] /\ obj' \in [Objs -> SessionRecords]
        /\ \A c, d \in Clients : client'[c] = client'[d] => c = d \/ client'[c] = NoObj
        /\ blank' \in [Wins -> {0, 1}] /\ store' \in Stores /\ spared' \subseteq Tabs /\ ops' \in 0 .. MaxOps
    BY DEF Tidy, TabsInv, TypesKept, Stores
  <2> QED  BY <2>1, <2>2, TypesGoOn
<1>2. StoreOwed'
  BY <1>1 DEF StoreOwed
<1>3. ASSUME calm PROVE CalmInv'
  <2>1. CalmInv
    BY <1>3 DEF Tidy, TabsInv
  <2>2. Current(x)' /\ KeepsWindow(x)' /\ x.pc \notin {"adopt", "group"}
    BY DEF Current, KeepsWindow, Opening, Closing
  <2>3. /\ \A k \in Jobs : k # j /\ job[k].pc \in Opening => client'[job[k].client] = job[k].obj
        /\ \A p \in Objs : \A r \in obj'[p].adopted : r.place = "home"
        /\ \A k \in Jobs : k # j /\ job[k].pc = "group" /\ job[k].tab \in UserTabs =>
             [tab |-> job[k].tab, place |-> "home"] \in obj'[job[k].obj].adopted
        /\ \A w \in Wins : blank[w] = 1 => blank'[w] = 1
    BY <2>1 DEF CalmInv, Current, FromHome
  <2> QED  BY <1>1, <1>3, <2>1, <2>2, <2>3, CalmGoesOn
<1> QED
  BY <1>1, <1>2, <1>3 DEF TabsInv

(* A new or adopted tab is put into the group.                               *)
LEMMA TabGrouped ==
    ASSUME Tidy, UNCHANGED calm, NEW j \in Jobs, Group(j) PROVE TabsInv'
<1> PICK t : t = job[j].tab
  OBVIOUS
<1> PICK x : x = Saving(j)
  OBVIOUS
<1>1. /\ JobOK(job[j]) /\ job[j].pc = "group" /\ job[j].op # "close" /\ t \in Tabs /\ NoObj \notin Objs
      /\ job[j].client \in Clients /\ job[j].obj \in Objs /\ UNCHANGED <<client, obj, blank, store, spared, ops>>
      /\ Moves(j, x)
  BY JobIs DEF Group, JobOK, Opening, Moves, Tidy, TabIsolationAssumption
<1>2. /\ JobOK(x) /\ x.pc = "persist" /\ x.op = job[j].op /\ x.client = job[j].client
      /\ x.back = {} /\ x.alive = job[j].alive
  BY <1>1, SavingIs
<1>3. tab' = IF Open(t) /\ t \in UserTabs THEN [tab EXCEPT ![t].place = "group"] ELSE tab
  BY DEF Group
<1>4. /\ tab' \in [Tabs -> [st : {"absent", "open", "closed"}, win : Wins, place : {"home", "group"}]]
      /\ \A s \in Tabs : tab'[s].st = tab[s].st /\ tab'[s].win = tab[s].win
      /\ \A s \in Tabs : tab'[s].place = tab[s].place \/ (s = t /\ t \in UserTabs)
  <2>1. tab \in [Tabs -> [st : {"absent", "open", "closed"}, win : Wins, place : {"home", "group"}]]
    BY DEF Tidy, TabsInv, TypesKept
  <2>2. CASE Open(t) /\ t \in UserTabs
    <3> PICK y : y = [tab[t] EXCEPT !.place = "group"]
      OBVIOUS
    <3>1. /\ y \in [st : {"absent", "open", "closed"}, win : Wins, place : {"home", "group"}]
          /\ y.st = tab[t].st /\ y.win = tab[t].win
      BY <1>1, <2>1
    <3>2. tab' = [tab EXCEPT ![t] = y]
      BY <1>3, <2>2
    <3>3. tab'[t] = y /\ \A s \in Tabs : s # t => tab'[s] = tab[s]
      BY <1>1, <2>1, <3>2
    <3>4. tab' \in [Tabs -> [st : {"absent", "open", "closed"}, win : Wins, place : {"home", "group"}]]
      BY <2>1, <3>1, <3>2
    <3> QED  BY <2>2, <3>1, <3>3, <3>4
  <2>3. CASE ~(Open(t) /\ t \in UserTabs)
    BY <1>3, <2>1, <2>3
  <2> QED  BY <2>2, <2>3
<1>5. ASSUME calm
      PROVE  /\ \A r \in x.back : r.place = "home"
             /\ \A k \in Jobs : k # j /\ job[k].pc = "adopt" => tab'[job[k].tab].place = "home"
             /\ \A s \in OpenTabs \ UserTabs : Kept(s) => Kept(s)'
             /\ \A s \in OpenTabs \cap UserTabs : GoesHome(s) => GoesHome(s)'
  <2>1. CalmInv
    BY <1>5 DEF Tidy, TabsInv
  <2>2. client[job[j].client] = job[j].obj
    BY <1>1, <2>1 DEF CalmInv, Current, Opening
  <2>3. t \in UserTabs => [tab |-> t, place |-> "home"] \in obj[job[j].obj].adopted
    BY <1>1, <2>1 DEF CalmInv, FromHome
  <2>4. ASSUME NEW k \in Jobs, k # j, job[k].pc = "adopt" PROVE tab'[job[k].tab].place = "home"
    <3>1. job[k].tab \in Tabs /\ tab[job[k].tab].place = "home" /\ job[k].tab # t
      BY <1>1, <2>1, <2>4, JobIs DEF JobOK, CalmInv, FromHome, Tidy, TabIsolationAssumption
    <3> QED  BY <1>4, <3>1
  <2>5. /\ \A k \in Jobs : job'[k] = IF k = j THEN x ELSE job[k]
        /\ job[j].pc \notin {"restore", "back"} \cup Closing /\ x.pc \notin {"restore", "back"} \cup Closing
    BY <1>1, <1>2 DEF Moves, Tidy, TabsInv, TypesKept, Closing
  <2>6. ASSUME NEW s, Kept(s) PROVE Kept(s)'
    BY <1>1, <2>5, <2>6, KeptStill
  <2>7. ASSUME NEW s \in OpenTabs \cap UserTabs, GoesHome(s) PROVE GoesHome(s)'
    <3>1. CASE s = t
      <4>1. client'[job[j].client] # NoObj /\ [tab |-> t, place |-> "home"] \in obj'[client'[job[j].client]].adopted
        BY <1>1, <2>2, <2>3, <3>1
      <4> QED  BY <1>1, <3>1, <4>1 DEF GoesHome
    <3>2. CASE s # t
      <4>1. tab'[s].place = tab[s].place
        BY <1>4, <3>2 DEF OpenTabs
      <4> QED  BY <1>1, <2>5, <2>7, <4>1, GoesHomeStill
    <3> QED  BY <3>1, <3>2
  <2> QED  BY <1>2, <2>4, <2>6, <2>7
<1>6. /\ Owes(x) /\ x.pc \notin Opening \cup Closing \cup {"idle"} /\ job[j].pc \notin Closing
  BY <1>1, <1>2 DEF Owes, Opening, Closing
<1> QED
  BY <1>1, <1>2, <1>4, <1>5, <1>6, PlacesChange

(* The place of a tab that goes home.                                       *)
LEMMA HomeIs == \A t : Home(t).tab = t /\ Home(t).place = "home"
BY DEF Home

\* The session of c ends in operation j, which goes on as x.
Releases(j, x, c) ==
    /\ client[c] # NoObj /\ client' = [client EXCEPT ![c] = NoObj]
    /\ UNCHANGED <<obj, tab, blank, store, spared>> /\ ops' \in 0 .. MaxOps
    /\ Moves(j, x) /\ x.pc = "restore" /\ x.op \in {"finish", "gone", "sweep"} /\ x.client = c
    /\ x.obj = client[c] /\ x.back = {} /\ x.alive = {} /\ JobOK(x)
    /\ job[j].pc \in {"idle", "sweep"} /\ Undisturbed(Opening)

(* The end of a session: its object stays with the operation.                *)
LEMMA SessionEnds ==
    ASSUME Tidy, UNCHANGED calm, NEW j \in Jobs, NEW x, NEW c \in Clients, Releases(j, x, c)
    PROVE  TabsInv'
<1> USE DEF Releases
<1>1. /\ client' \in [Clients -> Objs \cup {NoObj}] /\ NoObj \notin Objs
      /\ \A d \in Clients : client'[d] = IF d = c THEN NoObj ELSE client[d]
  BY DEF Tidy, TabsInv, TypesKept, TabIsolationAssumption
<1>2. \A d, e \in Clients : client'[d] = client'[e] => d = e \/ client'[d] = NoObj
  BY <1>1, SessionIs
<1>3. TypesKept' /\ \A k \in Jobs : job'[k] = IF k = j THEN x ELSE job[k]
  <2>1. job[j].op \notin {"create", "close"}
    BY JobIs, IdleIs DEF JobOK
  <2>2. \A d \in Clients : client'[d] # NoObj /\ obj'[client'[d]].inflight = 1 =>
             \/ x.client = d /\ x.op \in {"create", "close"}
             \/ /\ client[d] # NoObj /\ obj[client[d]].inflight = 1
                /\ job[j].client = d => job[j].op \notin {"create", "close"}
    BY <1>1, <2>1
  <2>3. /\ obj' \in [Objs -> SessionRecords]
        /\ tab' \in [Tabs -> [st : {"absent", "open", "closed"}, win : Wins, place : {"home", "group"}]]
        /\ blank' \in [Wins -> {0, 1}] /\ store' \in Stores /\ spared' \subseteq Tabs
        /\ \A s \in x.alive : tab[s].st # "absent"
        /\ \A s \in Tabs : tab[s].st # "absent" => tab'[s].st # "absent"
    BY DEF Tidy, TabsInv, TypesKept, Stores
  <2>4. ops' \in 0 .. MaxOps /\ JobOK(x) /\ Moves(j, x)
    OBVIOUS
  <2> QED  BY <1>1, <1>2, <2>2, <2>3, <2>4, TypesGoOn
<1>4. StoreOwed'
  BY <1>3 DEF StoreOwed, Owes
<1>5. ASSUME calm PROVE CalmInv'
  <2>1. CalmInv /\ \A k \in Jobs : job[k].pc \notin Opening
    BY <1>5 DEF Tidy, TabsInv, Undisturbed, InPlace
  <2>2. Current(x)' /\ KeepsWindow(x)'
    BY DEF Current, KeepsWindow, Opening
  <2>3. /\ \A k \in Jobs : k # j /\ job[k].pc \in Opening => client'[job[k].client] = job[k].obj
        /\ \A p \in Objs : \A r \in obj'[p].adopted : r.place = "home"
        /\ \A r \in x.back : r.place = "home"
        /\ \A k \in Jobs : k # j /\ job[k].pc = "adopt" => tab'[job[k].tab].place = "home"
        /\ \A k \in Jobs : k # j /\ job[k].pc = "group" /\ job[k].tab \in UserTabs =>
             [tab |-> job[k].tab, place |-> "home"] \in obj'[job[k].obj].adopted
    BY <2>1 DEF CalmInv, FromHome, Opening
  <2>4. job[j].pc \notin {"restore", "back"} \cup Closing /\ x.pc \notin {"adopt", "group"} \cup Closing
    BY DEF Closing
  <2>5. ASSUME NEW s, Kept(s) PROVE Kept(s)'
    <3>1. /\ \A d \in Clients : client[d] # NoObj /\ s \in obj[client[d]].owned =>
               \/ client'[d] = client[d] /\ s \in obj'[client[d]].owned
               \/ x.pc = "restore" /\ s \in obj'[x.obj].owned
          /\ \A k \in Jobs : k # j /\ job[k].pc = "restore" /\ s \in obj[job[k].obj].owned =>
               s \in obj'[job[k].obj].owned
          /\ job[j].pc # "restore" /\ job[j].pc \notin Closing /\ spared \subseteq spared'
      BY <1>1, <2>4
    <3> QED  BY <1>3, <2>5, <3>1, KeptStill
  <2>6. ASSUME NEW s, GoesHome(s) PROVE GoesHome(s)'
    <3>1. /\ \A d \in Clients : client[d] # NoObj /\ Home(s) \in obj[client[d]].adopted =>
               \/ client'[d] = client[d] /\ Home(s) \in obj'[client[d]].adopted
               \/ x.pc = "restore" /\ Home(s) \in obj'[x.obj].adopted \ x.back
          /\ \A k \in Jobs : k # j /\ job[k].pc = "restore" /\ Home(s) \in obj[job[k].obj].adopted =>
               Home(s) \in obj'[job[k].obj].adopted
          /\ job[j].pc \notin {"restore", "back"} /\ job[j].pc \notin Closing /\ spared \subseteq spared'
          /\ tab[s].place = "home" => tab'[s].place = "home"
      BY <1>1, <2>4
    <3> QED  BY <1>3, <2>6, <3>1, GoesHomeStill
  <2>7. /\ \A s \in Tabs : tab'[s].st = tab[s].st /\ tab'[s].win = tab[s].win
        /\ \A w \in Wins : blank[w] = 1 => blank'[w] = 1
    OBVIOUS
  <2> QED  BY <1>3, <2>1, <2>2, <2>3, <2>4, <2>5, <2>6, <2>7, CalmGoesOn
<1> QED
  BY <1>3, <1>4, <1>5 DEF TabsInv

(* The operation that ends a session.                                       *)
LEMMA ReleasingIs ==
    ASSUME Tidy, NEW j \in Jobs, NEW c \in Clients, NEW op \in {"finish", "gone", "sweep"},
           NEW list \in SUBSET [client : Clients, obj : Objs], Releasing(j, c, op, list), client[c] # NoObj,
           UNCHANGED <<obj, tab, blank, store, spared>>, ops' \in 0 .. MaxOps,
           job[j].pc \in {"idle", "sweep"}, Undisturbed(Opening), UNCHANGED calm
    PROVE  TabsInv'
<1> PICK x : x = [Idle EXCEPT !.pc = "restore", !.op = op, !.client = c, !.obj = client[c], !.list = list]
  OBVIOUS
<1>1. client[c] \in Objs
  BY SessionIs
<1>2. /\ x.pc = "restore" /\ x.op = op /\ x.client = c /\ x.obj = client[c] /\ x.tab = NoTab
      /\ x.back = {} /\ x.alive = {} /\ x.need = {} /\ x.list = list /\ x \in JobRecords
  BY <1>1 DEF Idle, JobRecords, Pcs, Ops
<1>3. JobOK(x)
  BY <1>1, <1>2 DEF JobOK, Opening, Closing
<1>4. client' = [client EXCEPT ![c] = NoObj] /\ Moves(j, x)
  BY DEF Releasing, Moves
<1>5. Releases(j, x, c)
  BY <1>2, <1>3, <1>4 DEF Releases
<1> QED
  BY <1>5, SessionEnds

(* finish_session, or the client is gone.                                    *)
LEMMA ReleaseStarts ==
    ASSUME Tidy, UNCHANGED calm, NEW j \in Jobs, NEW c \in Clients, NEW op \in {"finish", "gone"},
           StartRelease(j, c, op)
    PROVE  TabsInv'
<1>1. /\ client[c] # NoObj /\ Undisturbed(Opening) /\ Releasing(j, c, op, {})
      /\ UNCHANGED <<obj, tab, blank, store, spared>> /\ job[j].pc = "idle" /\ ops' \in 0 .. MaxOps
  BY CountedIs DEF StartRelease, Begin, Free
<1> QED
  BY <1>1, ReleasingIs

(* The sweep ends the session of the next client that is idle.               *)
LEMMA Sweeps ==
    ASSUME Tidy, UNCHANGED calm, ops' \in 0 .. MaxOps, NEW j \in Jobs, job[j].pc \in {"idle", "sweep"},
           NEW list \in SUBSET [client : Clients, obj : Objs], NEW e, NEW rest, SweepTo(j, list, e, rest)
    PROVE  TabsInv'
<1>1. /\ Undisturbed(Opening) /\ e \in list /\ rest \subseteq list /\ client[e.client] # NoObj
      /\ Releasing(j, e.client, "sweep", rest) /\ UNCHANGED <<obj, tab, blank, store, spared>>
  BY DEF SweepTo, Due
<1>2. e.client \in Clients /\ rest \in SUBSET [client : Clients, obj : Objs]
  BY <1>1
<1> QED
  BY <1>1, <1>2, ReleasingIs

(* A sweep begins.                                                         *)
LEMMA SweepStarts ==
    ASSUME Tidy, UNCHANGED calm, NEW j \in Jobs, StartSweep(j) PROVE TabsInv'
<1>1. PICK e \in Entries, rest \in SUBSET Entries : SweepTo(j, Entries, e, rest)
  BY DEF StartSweep
<1>2. job[j].pc = "idle" /\ ops' \in 0 .. MaxOps
  BY CountedIs DEF StartSweep, Begin, Free
<1>3. Entries \in SUBSET [client : Clients, obj : Objs]
  <2>1. \A c \in Clients : client[c] # NoObj => client[c] \in Objs
    BY SessionIs
  <2> QED  BY <2>1 DEF Entries
<1> QED
  BY <1>1, <1>2, <1>3, Sweeps

(* A sweep goes on.                                                        *)
LEMMA SweepGoesOn ==
    ASSUME Tidy, UNCHANGED calm, NEW j \in Jobs, SweepNext(j) PROVE TabsInv'
<1>1. PICK e \in job[j].list, rest \in SUBSET job[j].list : SweepTo(j, job[j].list, e, rest)
  BY DEF SweepNext
<1>2. job[j].pc = "sweep" /\ ops' \in 0 .. MaxOps
  BY DEF SweepNext, Tidy, TabsInv, TypesKept
<1>3. job[j].list \in SUBSET [client : Clients, obj : Objs]
  BY JobIs DEF JobRecords
<1> QED
  BY <1>1, <1>2, <1>3, Sweeps

(* A tab goes back where it was.                                            *)
LEMMA PutAwayFacts ==
    ASSUME Tidy, NEW r \in UserOrigins, tab' = PutAway(r)
    PROVE  /\ tab' \in [Tabs -> [st : {"absent", "open", "closed"}, win : Wins, place : {"home", "group"}]]
           /\ \A s \in Tabs : /\ tab'[s].st = tab[s].st /\ tab'[s].win = tab[s].win
                              /\ tab'[s].place = IF s = r.tab /\ Open(s) THEN r.place ELSE tab[s].place
<1>1. /\ tab \in [Tabs -> [st : {"absent", "open", "closed"}, win : Wins, place : {"home", "group"}]]
      /\ r.tab \in Tabs /\ r.place \in {"home", "group"}
  BY DEF Tidy, TabsInv, TypesKept, UserOrigins, TabIsolationAssumption
<1>2. CASE ~Open(r.tab)
  BY <1>1, <1>2 DEF PutAway
<1>3. CASE Open(r.tab)
  <2> PICK t : t = r.tab
    OBVIOUS
  <2> PICK y : y = [tab[t] EXCEPT !.place = r.place]
    OBVIOUS
  <2>1. /\ y \in [st : {"absent", "open", "closed"}, win : Wins, place : {"home", "group"}]
        /\ y.st = tab[t].st /\ y.win = tab[t].win /\ y.place = r.place
    BY <1>1
  <2>2. tab' = [tab EXCEPT ![t] = y]
    BY <1>1, <1>3 DEF PutAway
  <2>3. tab'[t] = y /\ \A s \in Tabs : s # t => tab'[s] = tab[s]
    BY <1>1, <2>2
  <2>4. tab' \in [Tabs -> [st : {"absent", "open", "closed"}, win : Wins, place : {"home", "group"}]]
    BY <1>1, <2>1, <2>2
  <2> QED  BY <1>3, <2>1, <2>3, <2>4
<1> QED
  BY <1>2, <1>3

(* A session that ends puts an adopted tab back.                              *)
LEMMA TabRestored ==
    ASSUME Tidy, UNCHANGED calm, NEW j \in Jobs, Restore(j) PROVE TabsInv'
<1> PICK o : o = job[j].obj
  OBVIOUS
<1>1. PICK r \in obj[o].adopted \ job[j].back :
         tab' = PutAway(r) /\ job' = [job EXCEPT ![j].back = @ \cup {r}]
  BY DEF Restore
<1> PICK B : B = job[j].back \cup {r}
  OBVIOUS
<1>a. PICK x : x = [job[j] EXCEPT !.back = B]
  OBVIOUS
<1>2. /\ JobOK(job[j]) /\ job[j] \in JobRecords /\ job[j].pc = "restore" /\ o \in Objs
      /\ UNCHANGED <<client, obj, blank, store, spared, ops>>
  BY JobIs DEF Restore, JobOK
<1>3. r \in UserOrigins
  BY <1>1, <1>2 DEF Tidy, TabsInv, TypesKept, SessionRecords
<1>4. /\ x.pc = "restore" /\ x.op = job[j].op /\ x.client = job[j].client /\ x.obj = o
      /\ x.back = B /\ x.alive = job[j].alive /\ x.tab = job[j].tab /\ x \in JobRecords
  BY <1>a, <1>2, <1>3 DEF JobRecords
<1>5. JobOK(x) /\ Moves(j, x)
  BY <1>a, <1>1, <1>2, <1>4 DEF JobOK, Opening, Closing, Moves, Tidy, TabsInv, TypesKept
<1>6. /\ tab' \in [Tabs -> [st : {"absent", "open", "closed"}, win : Wins, place : {"home", "group"}]]
      /\ \A s \in Tabs : /\ tab'[s].st = tab[s].st /\ tab'[s].win = tab[s].win
                         /\ tab'[s].place = IF s = r.tab /\ Open(s) THEN r.place ELSE tab[s].place
  BY <1>1, <1>3, PutAwayFacts
<1>7. ASSUME calm
      PROVE  /\ \A q \in x.back : q.place = "home"
             /\ \A k \in Jobs : k # j /\ job[k].pc = "adopt" => tab'[job[k].tab].place = "home"
             /\ \A s \in OpenTabs \ UserTabs : Kept(s) => Kept(s)'
             /\ \A s \in OpenTabs \cap UserTabs : GoesHome(s) => GoesHome(s)'
  <2>1. CalmInv
    BY <1>7 DEF Tidy, TabsInv
  <2>2. r.place = "home" /\ \A q \in job[j].back : q.place = "home"
    BY <1>1, <1>2, <2>1 DEF CalmInv, FromHome
  <2>3. ASSUME NEW k \in Jobs, job[k].pc = "adopt" PROVE tab'[job[k].tab].place = "home"
    <3>1. job[k].tab \in Tabs /\ tab[job[k].tab].place = "home"
      BY <2>1, <2>3, JobIs DEF JobOK, CalmInv, FromHome, Tidy, TabIsolationAssumption
    <3> QED  BY <1>6, <2>2, <3>1
  <2>4. /\ \A k \in Jobs : job'[k] = IF k = j THEN x ELSE job[k]
        /\ job[j].pc \notin Closing /\ x.pc \notin Closing
    BY <1>2, <1>4, <1>5 DEF Moves, Tidy, TabsInv, TypesKept, Closing
  <2>5. ASSUME NEW s, Kept(s) PROVE Kept(s)'
    <3>1. /\ client' = client /\ obj' = obj /\ spared' = spared
          /\ job[j].pc = "restore" /\ s \in obj[job[j].obj].owned =>
               x.pc = "restore" /\ s \in obj'[x.obj].owned
      BY <1>2, <1>4
    <3> QED  BY <2>4, <2>5, <3>1, KeptStill
  <2>6. ASSUME NEW s \in OpenTabs \cap UserTabs, GoesHome(s) PROVE GoesHome(s)'
    <3>1. s \in Tabs /\ Open(s) /\ (tab[s].place = "home" => tab'[s].place = "home")
      BY <1>6, <2>2 DEF OpenTabs
    <3>2. CASE s = r.tab
      <4>1. tab'[s].place = "home"
        BY <1>6, <2>2, <3>1, <3>2
      <4> QED  BY <4>1 DEF GoesHome
    <3>3. CASE s # r.tab
      <4>1. Home(s) # r
        BY <3>3, HomeIs
      <4>2. /\ \A d \in Clients : client[d] # NoObj /\ Home(s) \in obj[client[d]].adopted =>
                 client'[d] = client[d] /\ Home(s) \in obj'[client[d]].adopted
            /\ \A k \in Jobs : k # j /\ job[k].pc = "restore" /\ Home(s) \in obj[job[k].obj].adopted =>
                 Home(s) \in obj'[job[k].obj].adopted
            /\ job[j].pc = "restore" /\ Home(s) \in obj[job[j].obj].adopted \ job[j].back =>
                 x.pc = "restore" /\ Home(s) \in obj'[x.obj].adopted \ x.back
            /\ job[j].pc # "back" /\ job[j].pc \notin Closing /\ spared \subseteq spared'
        BY <1>2, <1>4, <2>4, <4>1
      <4> QED  BY <2>4, <2>6, <3>1, <4>2, GoesHomeStill
    <3> QED  BY <3>2, <3>3
  <2> QED  BY <1>4, <2>2, <2>3, <2>5, <2>6
<1>8. /\ Owes(x) /\ x.pc \notin Opening \cup Closing \cup {"idle"} /\ job[j].pc \notin Closing
  BY <1>2, <1>4 DEF Owes, Opening, Closing
<1> QED
  BY <1>2, <1>4, <1>5, <1>6, <1>7, <1>8, PlacesChange

(* unpin_tab puts a tab back.                                               *)
LEMMA TabPutBack ==
    ASSUME Tidy, UNCHANGED calm, NEW j \in Jobs, PutBack(j) PROVE TabsInv'
<1>a. PICK x : x = Saving(j)
  OBVIOUS
<1>1. PICK r \in job[j].back : tab' = PutAway(r)
  BY DEF PutBack
<1>2. /\ JobOK(job[j]) /\ job[j].pc = "back" /\ job[j].op # "close" /\ r \in UserOrigins
      /\ \A q \in job[j].back : q = r
      /\ UNCHANGED <<client, obj, blank, store, spared, ops>> /\ Moves(j, x)
  BY <1>a, JobIs DEF PutBack, JobOK, JobRecords, Moves
<1>4. /\ JobOK(x) /\ x.pc = "persist" /\ x.op = job[j].op /\ x.client = job[j].client
      /\ x.back = {} /\ x.alive = job[j].alive
  BY <1>a, <1>2, SavingIs
<1>6. /\ tab' \in [Tabs -> [st : {"absent", "open", "closed"}, win : Wins, place : {"home", "group"}]]
      /\ \A s \in Tabs : /\ tab'[s].st = tab[s].st /\ tab'[s].win = tab[s].win
                         /\ tab'[s].place = IF s = r.tab /\ Open(s) THEN r.place ELSE tab[s].place
  BY <1>1, <1>2, PutAwayFacts
<1>7. ASSUME calm
      PROVE  /\ \A q \in x.back : q.place = "home"
             /\ \A k \in Jobs : k # j /\ job[k].pc = "adopt" => tab'[job[k].tab].place = "home"
             /\ \A s \in OpenTabs \ UserTabs : Kept(s) => Kept(s)'
             /\ \A s \in OpenTabs \cap UserTabs : GoesHome(s) => GoesHome(s)'
  <2>1. CalmInv
    BY <1>7 DEF Tidy, TabsInv
  <2>2. r.place = "home"
    BY <1>1, <2>1 DEF CalmInv, FromHome
  <2>3. ASSUME NEW k \in Jobs, job[k].pc = "adopt" PROVE tab'[job[k].tab].place = "home"
    <3>1. job[k].tab \in Tabs /\ tab[job[k].tab].place = "home"
      BY <2>1, <2>3, JobIs DEF JobOK, CalmInv, FromHome, Tidy, TabIsolationAssumption
    <3> QED  BY <1>6, <2>2, <3>1
  <2>4. /\ \A k \in Jobs : job'[k] = IF k = j THEN x ELSE job[k]
        /\ job[j].pc \notin Closing \cup {"restore"} /\ x.pc \notin Closing \cup {"restore"}
    BY <1>2, <1>4 DEF Moves, Tidy, TabsInv, TypesKept, Closing
  <2>5. ASSUME NEW s, Kept(s) PROVE Kept(s)'
    <3>1. /\ client' = client /\ obj' = obj /\ spared' = spared
      BY <1>2
    <3> QED  BY <2>4, <2>5, <3>1, KeptStill
  <2>6. ASSUME NEW s \in OpenTabs \cap UserTabs, GoesHome(s) PROVE GoesHome(s)'
    <3>1. s \in Tabs /\ Open(s) /\ (tab[s].place = "home" => tab'[s].place = "home")
      BY <1>6, <2>2 DEF OpenTabs
    <3>2. CASE s = r.tab
      <4>1. tab'[s].place = "home"
        BY <1>6, <2>2, <3>1, <3>2
      <4> QED  BY <4>1 DEF GoesHome
    <3>3. CASE s # r.tab
      <4>1. Home(s) \notin job[j].back
        BY <1>2, <3>3, HomeIs
      <4>2. client' = client /\ obj' = obj /\ spared' = spared
        BY <1>2
      <4> QED  BY <2>4, <2>6, <3>1, <4>1, <4>2, GoesHomeStill
    <3> QED  BY <3>2, <3>3
  <2> QED  BY <1>4, <2>2, <2>3, <2>5, <2>6
<1>8. /\ Owes(x) /\ x.pc \notin Opening \cup Closing \cup {"idle"} /\ job[j].pc \notin Closing
  BY <1>2, <1>4 DEF Owes, Opening, Closing
<1> QED
  BY <1>2, <1>4, <1>6, <1>7, <1>8, PlacesChange

(* All adopted tabs are back: the tabs of AutoDOM are going to be closed.      *)
LEMMA AllRestored ==
    ASSUME Tidy, UNCHANGED calm, NEW j \in Jobs, Restored(j) PROVE TabsInv'
<1>a. PICK o : o = job[j].obj
  OBVIOUS
<1>b. PICK S : S = ToClose(o)
  OBVIOUS
<1>c. PICK x : x = [job[j] EXCEPT !.pc = "query", !.alive = S, !.obj = NoObj, !.back = {}]
  OBVIOUS
<1>1. /\ JobOK(job[j]) /\ job[j] \in JobRecords /\ job[j].pc = "restore" /\ job[j].op # "close" /\ o \in Objs
      /\ obj[o].adopted \subseteq job[j].back /\ Undisturbed(Closing)
      /\ UNCHANGED <<client, obj, tab, blank, store, spared, ops>>
  BY <1>a, JobIs DEF Restored, JobOK
<1>2. /\ S = obj[o].owned \cap OpenTabs /\ S \subseteq Tabs /\ S \cap UserTabs = {}
      /\ \A s \in S : tab[s].st # "absent"
  <2>1. obj[o].owned \in SUBSET (Tabs \ UserTabs)
    BY <1>1 DEF Tidy, TabsInv, TypesKept, SessionRecords
  <2> QED  BY <1>b, <2>1 DEF ToClose, OpenTabs, Open
<1>3. /\ x.pc = "query" /\ x.op = job[j].op /\ x.client = job[j].client /\ x.obj = NoObj
      /\ x.back = {} /\ x.alive = S /\ x.tab = job[j].tab /\ x \in JobRecords
  BY <1>c, <1>1, <1>2 DEF JobRecords, Pcs
<1>4. JobOK(x) /\ Moves(j, x)
  <2>1. Moves(j, x)
    BY <1>a, <1>b, <1>c DEF Restored, Moves
  <2> QED  BY <1>1, <1>2, <1>3, <2>1 DEF JobOK, Opening, Closing
<1>5. TypesKept' /\ \A k \in Jobs : job'[k] = IF k = j THEN x ELSE job[k]
  <2>1. \A c \in Clients : client'[c] # NoObj /\ obj'[client'[c]].inflight = 1 =>
             \/ x.client = c /\ x.op \in {"create", "close"}
             \/ /\ client[c] # NoObj /\ obj[client[c]].inflight = 1
                /\ job[j].client = c => job[j].op \notin {"create", "close"}
    BY <1>1, <1>3
  <2>2. /\ client' \in [Clients -> Objs \cup {NoObj}] /\ obj' \in [Objs -> SessionRecords]
        /\ \A c, d \in Clients : client'[c] = client'[d] => c = d \/ client'[c] = NoObj
        /\ tab' \in [Tabs -> [st : {"absent", "open", "closed"}, win : Wins, place : {"home", "group"}]]
        /\ blank' \in [Wins -> {0, 1}] /\ store' \in Stores /\ spared' \subseteq Tabs /\ ops' \in 0 .. MaxOps
        /\ \A s \in Tabs : tab[s].st # "absent" => tab'[s].st # "absent"
    BY <1>1 DEF Tidy, TabsInv, TypesKept, Stores
  <2> QED  BY <1>2, <1>3, <1>4, <2>1, <2>2, TypesGoOn
<1>6. StoreOwed'
  BY <1>1, <1>3, <1>5 DEF StoreOwed, Owes, Closing
<1>7. ASSUME calm PROVE CalmInv'
  <2>1. CalmInv /\ \A k \in Jobs : job[k].pc \notin Closing
    BY <1>1, <1>7 DEF Tidy, TabsInv, Undisturbed, InPlace
  <2>2. Current(x)' /\ KeepsWindow(x)'
    BY <1>3 DEF Current, KeepsWindow, Opening
  <2>3. /\ \A k \in Jobs : k # j /\ job[k].pc \in Opening => client'[job[k].client] = job[k].obj
        /\ \A p \in Objs : \A r \in obj'[p].adopted : r.place = "home"
        /\ \A r \in x.back : r.place = "home"
        /\ \A k \in Jobs : k # j /\ job[k].pc = "adopt" => tab'[job[k].tab].place = "home"
        /\ \A k \in Jobs : k # j /\ job[k].pc = "group" /\ job[k].tab \in UserTabs =>
             [tab |-> job[k].tab, place |-> "home"] \in obj'[job[k].obj].adopted
    BY <1>1, <1>3, <2>1 DEF CalmInv, FromHome, Current
  <2>4. job[j].pc \notin {"back"} \cup Closing /\ x.pc \notin {"adopt", "group"} /\ x.pc \in Closing
    BY <1>1, <1>3 DEF Closing
  <2>5. ASSUME NEW s \in OpenTabs, Kept(s) PROVE Kept(s)'
    <3>1. /\ client' = client /\ obj' = obj /\ spared' = spared
          /\ job[j].pc = "restore" /\ s \in obj[job[j].obj].owned => x.pc \in Closing /\ s \in x.alive
      BY <1>a, <1>1, <1>2, <1>3, <2>4
    <3> QED  BY <1>5, <2>4, <2>5, <3>1, KeptStill
  <2>6. ASSUME NEW s, GoesHome(s) PROVE GoesHome(s)'
    <3>1. /\ client' = client /\ obj' = obj /\ spared' = spared /\ tab' = tab
          /\ ~(Home(s) \in obj[job[j].obj].adopted \ job[j].back)
      BY <1>a, <1>1
    <3> QED  BY <1>5, <2>4, <2>6, <3>1, GoesHomeStill
  <2>7. /\ \A s \in Tabs : tab'[s].st = tab[s].st /\ tab'[s].win = tab[s].win
        /\ \A w \in Wins : blank[w] = 1 => blank'[w] = 1
    BY <1>1
  <2> QED  BY <1>5, <2>1, <2>2, <2>3, <2>4, <2>5, <2>6, <2>7, CalmGoesOn
<1> QED
  BY <1>5, <1>6, <1>7 DEF TabsInv

(* Only operations that hold the admission of their client put an adopted tab into the
   group: none does while another of the client's begins.                    *)
LEMMA OthersGroup ==
    ASSUME Tidy, CalmInv, NEW c \in Clients, MayAdmit(c), client[c] # NoObj,
           NEW k \in Jobs, job[k].pc = "group", job[k].tab \in UserTabs
    PROVE  job[k].obj # client[c]
<1>1. /\ job[k].op = "adopt" /\ job[k].client \in Clients /\ job[k].obj \in Objs
  BY JobIs DEF JobOK, Opening
<1>2. job[k].client # c
  BY <1>1 DEF MayAdmit, Admitted
<1>3. client[job[k].client] = job[k].obj
  BY DEF CalmInv, Current, Opening
<1> QED
  BY <1>1, <1>2, <1>3, SessionIs

\* Operation j begins as x and takes tabs out of the session of c, with the object o.
Engages(j, x, c, o) ==
    /\ UNCHANGED <<client, tab, blank, spared>> /\ ops' \in 0 .. MaxOps
    /\ o = client[c] /\ MayAdmit(c) /\ Moves(j, x) /\ JobOK(x)
    /\ job[j].pc = "idle" /\ x.pc \in {"query", "back"} /\ (x.pc = "query" => Undisturbed(Closing))
    /\ obj' \in [Objs -> SessionRecords] /\ \A p \in Objs : p # o => obj'[p] = obj[p]
    /\ \A s \in obj[o].owned : s \in obj'[o].owned \/ (x.pc = "query" /\ s \in x.alive)
    /\ obj'[o].adopted \subseteq obj[o].adopted
    /\ \A r \in obj[o].adopted : \/ r \in obj'[o].adopted
                                 \/ x.pc = "query" /\ r.tab \in x.alive
                                 \/ x.pc = "back" /\ r \in x.back
    /\ \A r \in x.back : r \in obj[o].adopted
    /\ \A s \in x.alive : tab[s].st # "absent"
    /\ obj'[o].inflight = 1 => obj[o].inflight = 1 \/ (x.client = c /\ x.op = "close")
    /\ (UNCHANGED store /\ Owes(x)) \/ store' = Snapshot(client', obj')

(* A tab leaves its session, to be closed or put back.                        *)
LEMMA TabTaken ==
    ASSUME Tidy, UNCHANGED calm, NEW j \in Jobs, NEW x, NEW c \in Clients, NEW o \in Objs, Engages(j, x, c, o)
    PROVE  TabsInv'
<1>1. /\ client \in [Clients -> Objs \cup {NoObj}] /\ NoObj \notin Objs /\ o # NoObj
      /\ \A d \in Clients : client[d] # NoObj => client[d] \in Objs /\ (client[d] = o => d = c)
  BY SessionIs DEF Engages, Tidy, TabsInv, TypesKept
<1>2. store' \in Stores
  BY <1>1, SnapshotIs DEF Engages, Tidy, TabsInv, TypesKept, Stores
<1>3. TypesKept' /\ \A k \in Jobs : job'[k] = IF k = j THEN x ELSE job[k]
  <2>1. job[j].client \notin Clients
    BY FreeIs, SessionIs DEF Engages, Free
  <2>2. \A d \in Clients : client'[d] # NoObj /\ obj'[client'[d]].inflight = 1 =>
             \/ x.client = d /\ x.op \in {"create", "close"}
             \/ /\ client[d] # NoObj /\ obj[client[d]].inflight = 1
                /\ job[j].client = d => job[j].op \notin {"create", "close"}
    BY <1>1, <2>1 DEF Engages
  <2>3. /\ client' \in [Clients -> Objs \cup {NoObj}]
        /\ \A d, e \in Clients : client'[d] = client'[e] => d = e \/ client'[d] = NoObj
        /\ tab' \in [Tabs -> [st : {"absent", "open", "closed"}, win : Wins, place : {"home", "group"}]]
        /\ blank' \in [Wins -> {0, 1}] /\ spared' \subseteq Tabs
        /\ \A s \in x.alive : tab[s].st # "absent"
        /\ \A s \in Tabs : tab[s].st # "absent" => tab'[s].st # "absent"
    BY DEF Engages, Tidy, TabsInv, TypesKept
  <2>4. ops' \in 0 .. MaxOps /\ JobOK(x) /\ Moves(j, x) /\ obj' \in [Objs -> SessionRecords]
    BY DEF Engages
  <2> QED  BY <1>2, <2>2, <2>3, <2>4, TypesGoOn
<1>4. StoreOwed'
  BY <1>3 DEF Engages, StoreOwed
<1>5. ASSUME calm PROVE CalmInv'
  <2>1. CalmInv /\ UNCHANGED <<client, tab, blank, spared>>
    BY <1>5 DEF Tidy, TabsInv, Engages
  <2>2. /\ Current(x)' /\ KeepsWindow(x)' /\ x.pc \notin {"adopt", "group", "restore"}
        /\ job[j].pc \notin {"restore", "back"} \cup Closing
    BY DEF Engages, Current, KeepsWindow, Opening, Closing
  <2>3. \A k \in Jobs : k # j /\ job[k].pc \in Opening => client'[job[k].client] = job[k].obj
    BY <2>1 DEF CalmInv, Current
  <2>4. /\ \A p \in Objs : obj'[p].adopted \subseteq obj[p].adopted
        /\ \A p \in Objs : p # o => obj'[p] = obj[p]
    BY DEF Engages
  <2>5. \A p \in Objs : \A r \in obj'[p].adopted : r.place = "home"
    BY <2>1, <2>4 DEF CalmInv, FromHome
  <2>6. \A r \in x.back : r.place = "home"
    BY <2>1 DEF Engages, CalmInv, FromHome
  <2>7. \A k \in Jobs : k # j /\ job[k].pc = "adopt" => tab'[job[k].tab].place = "home"
    BY <2>1 DEF CalmInv, FromHome
  <2>8. ASSUME NEW k \in Jobs, job[k].pc = "group", job[k].tab \in UserTabs
        PROVE  [tab |-> job[k].tab, place |-> "home"] \in obj'[job[k].obj].adopted
    <3>1. [tab |-> job[k].tab, place |-> "home"] \in obj[job[k].obj].adopted
      BY <2>1, <2>8 DEF CalmInv, FromHome
    <3>2. job[k].obj \in Objs
      BY <2>8, JobIs DEF JobOK, Opening
    <3>3. job[k].obj # o
      BY <1>1, <2>1, <2>8, OthersGroup DEF Engages
    <3> QED  BY <2>4, <3>1, <3>2, <3>3
  <2>9. x.pc \in Closing => \A k \in Jobs : job[k].pc \in Closing => k = j
    BY <1>5 DEF Engages, Undisturbed, InPlace, Closing
  <2>10. \A k \in Jobs : job[k].pc = "restore" => job[k].obj \in Objs
    BY JobIs DEF JobOK
  <2>11. ASSUME NEW s, NEW p \in Objs, s \in obj[p].owned
         PROVE  s \in obj'[p].owned \/ (x.pc \in Closing /\ s \in x.alive)
    BY <2>4, <2>11 DEF Engages, Closing
  <2>12. ASSUME NEW s, NEW p \in Objs, Home(s) \in obj[p].adopted
         PROVE  \/ Home(s) \in obj'[p].adopted \/ (x.pc = "back" /\ Home(s) \in x.back)
                \/ (x.pc \in Closing /\ s \in x.alive)
    BY <2>4, <2>12, HomeIs DEF Engages, Closing
  <2>13. ASSUME NEW s, Kept(s) PROVE Kept(s)'
    <3>1. /\ \A d \in Clients : client[d] # NoObj /\ s \in obj[client[d]].owned =>
               \/ client'[d] = client[d] /\ s \in obj'[client[d]].owned
               \/ x.pc \in Closing /\ s \in x.alive
          /\ \A k \in Jobs : k # j /\ job[k].pc = "restore" /\ s \in obj[job[k].obj].owned =>
               s \in obj'[job[k].obj].owned \/ (x.pc \in Closing /\ s \in x.alive)
      BY <1>1, <2>1, <2>10, <2>11
    <3>2. spared' = spared
      BY <2>1
    <3> QED  BY <1>3, <2>2, <2>13, <3>1, <3>2, KeptStill
  <2>14. ASSUME NEW s, GoesHome(s) PROVE GoesHome(s)'
    <3>1. /\ \A d \in Clients : client[d] # NoObj /\ Home(s) \in obj[client[d]].adopted =>
               \/ client'[d] = client[d] /\ Home(s) \in obj'[client[d]].adopted
               \/ x.pc = "back" /\ Home(s) \in x.back
               \/ x.pc \in Closing /\ s \in x.alive
          /\ \A k \in Jobs : k # j /\ job[k].pc = "restore" /\ Home(s) \in obj[job[k].obj].adopted =>
               \/ Home(s) \in obj'[job[k].obj].adopted
               \/ x.pc = "back" /\ Home(s) \in x.back
               \/ x.pc \in Closing /\ s \in x.alive
      BY <1>1, <2>1, <2>10, <2>12
    <3>2. spared' = spared /\ tab' = tab
      BY <2>1
    <3> QED  BY <1>3, <2>2, <2>14, <3>1, <3>2, GoesHomeStill
  <2>15. /\ \A s \in Tabs : tab'[s].st = tab[s].st /\ tab'[s].win = tab[s].win
         /\ \A w \in Wins : blank[w] = 1 => blank'[w] = 1
    BY <2>1
  <2> QED  BY <1>3, <2>1, <2>2, <2>3, <2>5, <2>6, <2>7, <2>8, <2>9, <2>13, <2>14, <2>15, CalmGoesOn
<1> QED
  BY <1>3, <1>4, <1>5 DEF TabsInv

(* close_tab begins.                                                        *)
LEMMA CloseStarts ==
    ASSUME Tidy, UNCHANGED calm, NEW j \in Jobs, NEW c \in Clients, NEW t \in Tabs, StartClose(j, c, t)
    PROVE  TabsInv'
<1>a. PICK o : o = client[c]
  OBVIOUS
<1>b. PICK x : x = [Idle EXCEPT !.pc = "query", !.op = "close", !.client = c, !.tab = t, !.alive = {t}]
  OBVIOUS
<1>c. PICK A : A = {r \in obj[o].adopted : r.tab # t}
  OBVIOUS
<1>d. PICK s0 : s0 = [Begun(c) EXCEPT !.owned = @ \ {t}, !.adopted = {r \in @ : r.tab # t}]
  OBVIOUS
<1>1. /\ o \in Objs /\ client[c] # NoObj /\ NoObj \notin Objs /\ obj[o] \in SessionRecords
      /\ obj \in [Objs -> SessionRecords]
  BY <1>a, SessionIs DEF StartClose, Manages, Tidy, TabsInv, TypesKept
<1>2. /\ x.pc = "query" /\ x.op = "close" /\ x.client = c /\ x.obj = NoObj /\ x.tab = t
      /\ x.back = {} /\ x.alive = {t} /\ x \in JobRecords
  BY <1>b DEF Idle, JobRecords, Pcs, Ops
<1>3. JobOK(x) /\ Moves(j, x)
  BY <1>b, <1>2 DEF StartClose, Moves, JobOK, Opening, Closing
<1>4. obj[o].inflight = 0
  <2>1. obj[o].inflight = 1 => \E k \in Jobs : job[k].client = c /\ job[k].op \in {"create", "close"}
    BY <1>a, <1>1 DEF Tidy, TabsInv, TypesKept, Counting
  <2> QED  BY <1>1, <2>1 DEF StartClose, MayAdmit, Admitted, SessionRecords, Counts
<1>5. /\ s0 \in SessionRecords /\ s0.owned = obj[o].owned \ {t} /\ s0.adopted = A /\ s0.inflight = 1
  <2>1. Begun(c) = [obj[o] EXCEPT !.inflight = 1, !.idle = FALSE]
    BY <1>a, <1>1, <1>4 DEF Begun
  <2>2. /\ Begun(c) \in SessionRecords /\ Begun(c).owned = obj[o].owned /\ Begun(c).adopted = obj[o].adopted
        /\ Begun(c).inflight = 1
    BY <1>1, <2>1 DEF SessionRecords, Counts
  <2>3. PICK b : b = Begun(c)
    OBVIOUS
  <2>4. s0 = [b EXCEPT !.owned = b.owned \ {t}, !.adopted = A]
    BY <1>c, <1>d, <2>2, <2>3
  <2>5. b \in SessionRecords /\ A \subseteq b.adopted /\ b.owned = obj[o].owned /\ b.inflight = 1
    BY <1>c, <2>2, <2>3
  <2> QED  BY <2>4, <2>5 DEF SessionRecords
<1>6. obj' = [obj EXCEPT ![o] = s0] /\ store' = Snapshot(client, obj')
  BY <1>a, <1>d DEF StartClose
<1>7. /\ obj' \in [Objs -> SessionRecords] /\ obj'[o] = s0 /\ \A p \in Objs : p # o => obj'[p] = obj[p]
  BY <1>1, <1>5, <1>6
<1>8. Engages(j, x, c, o)
  <2>1. /\ UNCHANGED <<client, tab, blank, spared>> /\ ops' \in 0 .. MaxOps /\ job[j].pc = "idle"
        /\ MayAdmit(c) /\ Undisturbed(Closing) /\ tab[t].st # "absent"
    BY CountedIs DEF StartClose, Begin, Free, Open
  <2>2. /\ \A s \in obj[o].owned : s \in obj'[o].owned \/ s \in x.alive
        /\ obj'[o].adopted \subseteq obj[o].adopted
        /\ \A r \in obj[o].adopted : r \in obj'[o].adopted \/ r.tab \in x.alive
    BY <1>c, <1>2, <1>5, <1>7
  <2>3. store' = Snapshot(client', obj')
    BY <1>6, <2>1
  <2> QED  BY <1>a, <1>2, <1>3, <1>7, <2>1, <2>2, <2>3 DEF Engages
<1> QED
  BY <1>1, <1>8, TabTaken

(* unpin_tab begins.                                                        *)
LEMMA UnpinStarts ==
    ASSUME Tidy, UNCHANGED calm, NEW j \in Jobs, NEW c \in Clients, NEW r \in UserOrigins, StartUnpin(j, c, r)
    PROVE  TabsInv'
<1>a. PICK o : o = client[c]
  OBVIOUS
<1>b. PICK x : x = [Idle EXCEPT !.pc = "back", !.op = "unpin", !.client = c, !.back = {r}]
  OBVIOUS
<1>d. PICK s0 : s0 = [obj[o] EXCEPT !.adopted = @ \ {r}]
  OBVIOUS
<1>1. /\ o \in Objs /\ r \in obj[o].adopted /\ obj[o] \in SessionRecords /\ obj \in [Objs -> SessionRecords]
  BY <1>a, SessionIs DEF StartUnpin, Tidy, TabsInv, TypesKept
<1>2. /\ x.pc = "back" /\ x.op = "unpin" /\ x.client = c /\ x.obj = NoObj /\ x.tab = NoTab
      /\ x.back = {r} /\ x.alive = {} /\ x \in JobRecords
  BY <1>b DEF Idle, JobRecords, Pcs, Ops
<1>3. JobOK(x) /\ Moves(j, x)
  BY <1>b, <1>2 DEF StartUnpin, Moves, JobOK, Opening, Closing
<1>5. /\ s0 \in SessionRecords /\ s0.owned = obj[o].owned /\ s0.adopted = obj[o].adopted \ {r}
      /\ s0.inflight = obj[o].inflight
  <2>1. PICK A : A = obj[o].adopted \ {r}
    OBVIOUS
  <2>2. s0 = [obj[o] EXCEPT !.adopted = A] /\ A \subseteq obj[o].adopted
    BY <1>d, <2>1
  <2> QED  BY <1>1, <2>1, <2>2 DEF SessionRecords
<1>6. obj' = [obj EXCEPT ![o] = s0]
  BY <1>a, <1>d, <1>1 DEF StartUnpin
<1>7. /\ obj' \in [Objs -> SessionRecords] /\ obj'[o] = s0 /\ \A p \in Objs : p # o => obj'[p] = obj[p]
  BY <1>1, <1>5, <1>6
<1>8. Engages(j, x, c, o)
  <2>1. /\ UNCHANGED <<client, tab, blank, store, spared>> /\ ops' \in 0 .. MaxOps /\ job[j].pc = "idle"
        /\ MayAdmit(c)
    BY CountedIs DEF StartUnpin, Begin, Free
  <2>2. /\ \A s \in obj[o].owned : s \in obj'[o].owned
        /\ obj'[o].adopted \subseteq obj[o].adopted
        /\ \A q \in obj[o].adopted : q \in obj'[o].adopted \/ q \in x.back
        /\ \A q \in x.back : q \in obj[o].adopted
        /\ obj'[o].inflight = 1 => obj[o].inflight = 1
    BY <1>1, <1>2, <1>5, <1>7
  <2>3. Owes(x) /\ \A s \in x.alive : tab[s].st # "absent"
    BY <1>2 DEF Owes
  <2> QED  BY <1>a, <1>2, <1>3, <1>7, <2>1, <2>2, <2>3 DEF Engages
<1> QED
  BY <1>1, <1>8, TabTaken

-----------------------------------------------------------------------------
(* TabIsolation: replacement tabs, and tabs that go away.                     *)

(* A replacement tab opens.                                                 *)
LEMMA WindowFilled ==
    ASSUME Tidy, UNCHANGED <<client, obj, tab, store, spared, ops, calm>>, NEW j \in Jobs, job[j].pc = "fill",
           NEW w \in Wins, blank' = [blank EXCEPT ![w] = 1],
           NEW x, x = [job[j] EXCEPT !.need = job[j].need \ {w}], Moves(j, x)
    PROVE  TabsInv'
<1>1. /\ JobOK(job[j]) /\ job[j] \in JobRecords /\ \A s \in job[j].alive : s \in Tabs /\ tab[s].st # "absent"
  BY JobIs DEF JobRecords
<1>2. /\ x.pc = "fill" /\ x.op = job[j].op /\ x.client = job[j].client /\ x.obj = job[j].obj
      /\ x.tab = job[j].tab /\ x.back = job[j].back /\ x.alive = job[j].alive
      /\ x.need = job[j].need \ {w} /\ x \in JobRecords
  <2> PICK N : N = job[j].need \ {w}
    OBVIOUS
  <2>1. N \in SUBSET Wins
    BY <1>1 DEF JobRecords
  <2> QED  BY <1>1, <2>1 DEF JobRecords
<1>3. JobOK(x)
  BY <1>1, <1>2 DEF JobOK, Opening, Closing
<1>4. /\ blank' \in [Wins -> {0, 1}] /\ blank'[w] = 1 /\ \A v \in Wins : blank[v] = 1 => blank'[v] = 1
  BY DEF Tidy, TabsInv, TypesKept
<1>5. Current(x)' /\ (Owes(job[j]) => Owes(x)) /\ SameContent
  BY <1>2, NothingMoves DEF Current, Opening, Closing, Owes
<1>6. calm => /\ \A r \in x.back : r.place = "home"
              /\ \A k \in Jobs : job[k].pc \in Closing => k = j
              /\ KeepsWindow(x)'
  <2> SUFFICES ASSUME calm PROVE /\ \A r \in x.back : r.place = "home"
                                 /\ \A k \in Jobs : job[k].pc \in Closing => k = j
                                 /\ KeepsWindow(x)'
    OBVIOUS
  <2>1. FromHome /\ OneCloses /\ job[j].pc \in Closing /\ KeepsWindow(job[j])
    BY DEF Tidy, TabsInv, CalmInv, Closing
  <2>2. \A r \in x.back : r.place = "home"
    BY <1>2, <2>1 DEF FromHome
  <2>3. \A k \in Jobs : job[k].pc \in Closing => k = j
    BY <2>1 DEF OneCloses
  <2>4. ASSUME NEW t \in job[j].alive
        PROVE  \/ tab[t].win \in job[j].need \ {w} \/ blank'[tab[t].win] = 1
               \/ \E s \in OpenTabs \ job[j].alive : tab[s].win = tab[t].win
    <3>1. tab[t].win \in Wins
      BY <1>1 DEF Tidy, TabsInv, TypesKept
    <3>2. \/ tab[t].win \in job[j].need \/ blank[tab[t].win] = 1
          \/ \E s \in OpenTabs \ job[j].alive : tab[s].win = tab[t].win
      BY <2>1 DEF KeepsWindow
    <3> QED  BY <1>4, <3>1, <3>2
  <2>5. OpenTabs' = OpenTabs
    BY DEF OpenTabs, Open
  <2>6. KeepsWindow(x)'
    BY <1>2, <2>4, <2>5 DEF KeepsWindow
  <2> QED  BY <2>2, <2>3, <2>6
<1>7. /\ client' \in [Clients -> Objs \cup {NoObj}] /\ ops' \in 0 .. MaxOps /\ obj' \in [Objs -> SessionRecords]
      /\ \A c, d \in Clients : client'[c] = client'[d] => c = d \/ client'[c] = NoObj
  BY DEF Tidy, TabsInv, TypesKept
<1>8. \A c \in Clients : client'[c] # NoObj /\ obj'[client'[c]].inflight = 1 =>
           \/ x.client = c /\ x.op \in {"create", "close"}
           \/ /\ client[c] # NoObj /\ obj[client[c]].inflight = 1
              /\ job[j].client = c => job[j].op \notin {"create", "close"}
  BY <1>2
<1>9. /\ \A t \in x.alive : tab[t].st # "absent"
      /\ job[j].pc \in Closing /\ job[j].pc \notin {"restore", "back"}
      /\ x.pc \in Closing /\ x.alive = job[j].alive /\ x.pc \notin {"adopt", "group"}
      /\ UNCHANGED <<tab, spared, calm, store>>
  BY <1>1, <1>2 DEF Closing
<1> QED
  BY <1>3, <1>4, <1>5, <1>6, <1>7, <1>8, <1>9, FillsStep

\* The tabs of j in the window w stay open.
Spares(j, x, w, stay) ==
    /\ UNCHANGED <<client, obj, tab, blank, store, ops>> /\ job[j].pc = "fill" /\ spared' = spared \cup stay
    /\ stay = {t \in job[j].alive : tab[t].win = w} /\ Moves(j, x) /\ JobOK(x)
    /\ x.pc = "fill" /\ x.op = job[j].op /\ x.client = job[j].client /\ x.back = job[j].back
    /\ x.alive = job[j].alive \ stay /\ x.need = job[j].need \ {w}

(* The replacement tab could not be created.                                  *)
LEMMA TabsSpared ==
    ASSUME Tidy, UNCHANGED calm, NEW j \in Jobs, NEW x, NEW w \in Wins, NEW stay, Spares(j, x, w, stay)
    PROVE  TabsInv'
<1>1. /\ JobOK(job[j]) /\ \A s \in job[j].alive : s \in Tabs /\ tab[s].st # "absent"
  BY JobIs DEF JobRecords
<1>2. stay \subseteq Tabs /\ \A s \in x.alive : tab[s].st # "absent"
  BY <1>1 DEF Spares
<1>3. TypesKept' /\ \A k \in Jobs : job'[k] = IF k = j THEN x ELSE job[k]
  <2>1. \A c \in Clients : client'[c] # NoObj /\ obj'[client'[c]].inflight = 1 =>
             \/ x.client = c /\ x.op \in {"create", "close"}
             \/ /\ client[c] # NoObj /\ obj[client[c]].inflight = 1
                /\ job[j].client = c => job[j].op \notin {"create", "close"}
    BY DEF Spares
  <2>2. /\ client' \in [Clients -> Objs \cup {NoObj}] /\ obj' \in [Objs -> SessionRecords]
        /\ \A c, d \in Clients : client'[c] = client'[d] => c = d \/ client'[c] = NoObj
        /\ tab' \in [Tabs -> [st : {"absent", "open", "closed"}, win : Wins, place : {"home", "group"}]]
        /\ blank' \in [Wins -> {0, 1}] /\ store' \in Stores /\ spared' \subseteq Tabs /\ ops' \in 0 .. MaxOps
        /\ \A s \in Tabs : tab[s].st # "absent" => tab'[s].st # "absent"
    BY <1>2 DEF Spares, Tidy, TabsInv, TypesKept, Stores
  <2>3. JobOK(x) /\ Moves(j, x)
    BY DEF Spares
  <2> QED  BY <1>2, <2>1, <2>2, <2>3, TypesGoOn
<1>4. StoreOwed'
  <2>1. /\ Owes(job[j]) => Owes(x)
        /\ UNCHANGED store /\ Snapshot(client', obj') = Snapshot(client, obj)
    BY DEF Spares, Owes, Closing
  <2> QED  BY <1>3, <2>1, OwesStill
<1>5. ASSUME calm PROVE CalmInv'
  <2>1. CalmInv /\ UNCHANGED <<client, obj, tab, blank>>
    BY <1>5 DEF Tidy, TabsInv, Spares
  <2>2. /\ Current(x)' /\ x.pc \notin {"adopt", "group", "restore"} /\ x.pc \in Closing
        /\ job[j].pc \notin {"restore", "back"} /\ job[j].pc \in Closing
    BY DEF Spares, Current, Opening, Closing
  <2>3. KeepsWindow(x)'
    <3>1. ASSUME NEW t \in job[j].alive \ stay
          PROVE  \/ tab[t].win \in job[j].need \ {w} \/ blank[tab[t].win] = 1
                 \/ \E s \in OpenTabs \ (job[j].alive \ stay) : tab[s].win = tab[t].win
      <4>1. \/ tab[t].win \in job[j].need \/ blank[tab[t].win] = 1
            \/ \E s \in OpenTabs \ job[j].alive : tab[s].win = tab[t].win
        BY <2>1 DEF Spares, CalmInv, KeepsWindow
      <4>2. tab[t].win # w
        BY DEF Spares
      <4> QED  BY <4>1, <4>2
    <3>2. OpenTabs' = OpenTabs
      BY <2>1 DEF OpenTabs, Open
    <3>3. x.alive = job[j].alive \ stay /\ x.need = job[j].need \ {w}
      BY DEF Spares
    <3> QED  BY <2>1, <3>1, <3>2, <3>3 DEF KeepsWindow
  <2>4. /\ \A k \in Jobs : k # j /\ job[k].pc \in Opening => client'[job[k].client] = job[k].obj
        /\ \A p \in Objs : \A r \in obj'[p].adopted : r.place = "home"
        /\ \A k \in Jobs : k # j /\ job[k].pc = "adopt" => tab'[job[k].tab].place = "home"
        /\ \A k \in Jobs : k # j /\ job[k].pc = "group" /\ job[k].tab \in UserTabs =>
             [tab |-> job[k].tab, place |-> "home"] \in obj'[job[k].obj].adopted
    BY <2>1 DEF CalmInv, FromHome, Current
  <2>5. \A r \in x.back : r.place = "home"
    BY <2>1 DEF Spares, CalmInv, FromHome
  <2>6. \A k \in Jobs : job[k].pc \in Closing => k = j
    BY <2>1, <2>2 DEF CalmInv, OneCloses
  <2>7. spared \subseteq spared' /\ \A t \in job[j].alive : t \in spared' \/ t \in x.alive
    BY DEF Spares
  <2>8. ASSUME NEW s, Kept(s) PROVE Kept(s)'
    BY <1>3, <2>1, <2>2, <2>7, <2>8, KeptStill
  <2>9. ASSUME NEW s, GoesHome(s) PROVE GoesHome(s)'
    BY <1>3, <2>1, <2>2, <2>7, <2>9, GoesHomeStill
  <2>10. /\ \A s \in Tabs : tab'[s].st = tab[s].st /\ tab'[s].win = tab[s].win
         /\ \A v \in Wins : blank[v] = 1 => blank'[v] = 1
    BY <2>1
  <2> QED  BY <1>3, <2>1, <2>2, <2>3, <2>4, <2>5, <2>6, <2>8, <2>9, <2>10, CalmGoesOn
<1> QED
  BY <1>3, <1>4, <1>5 DEF TabsInv

(* A replacement tab, or tabs that stay.                                     *)
LEMMA FillGoesOn ==
    ASSUME Tidy, UNCHANGED calm, NEW j \in Jobs, Fill(j) PROVE TabsInv'
<1>1. /\ job[j].pc = "fill" /\ JobOK(job[j]) /\ job[j] \in JobRecords /\ job[j].need \subseteq Wins
      /\ UNCHANGED <<client, obj, tab, store, ops>>
  BY JobIs DEF Fill, JobRecords
<1>2. PICK w \in job[j].need :
         LET stay == {t \in job[j].alive : tab[t].win = w}
         IN  \/ /\ Total(w) > 0
                /\ blank' = [blank EXCEPT ![w] = 1]
                /\ job' = [job EXCEPT ![j].need = @ \ {w}]
                /\ UNCHANGED spared
             \/ /\ job' = [job EXCEPT ![j].need = @ \ {w}, ![j].alive = @ \ stay]
                /\ spared' = spared \cup stay
                /\ UNCHANGED blank
  BY DEF Fill
<1>3. PICK stay : stay = {t \in job[j].alive : tab[t].win = w}
  OBVIOUS
<1>4. w \in Wins
  BY <1>1
<1>5. CASE blank' = [blank EXCEPT ![w] = 1] /\ job' = [job EXCEPT ![j].need = @ \ {w}] /\ UNCHANGED spared
  <2>1. PICK x : x = [job[j] EXCEPT !.need = job[j].need \ {w}]
    OBVIOUS
  <2>2. Moves(j, x)
    BY <1>5, <2>1 DEF Moves, Tidy, TabsInv, TypesKept
  <2> QED  BY <1>1, <1>4, <1>5, <2>1, <2>2, WindowFilled
<1>6. CASE /\ job' = [job EXCEPT ![j].need = @ \ {w}, ![j].alive = @ \ stay]
           /\ spared' = spared \cup stay /\ UNCHANGED blank
  <2>1. PICK N : N = job[j].need \ {w}
    OBVIOUS
  <2>2. PICK A : A = job[j].alive \ stay
    OBVIOUS
  <2>3. PICK x : x = [job[j] EXCEPT !.need = N, !.alive = A]
    OBVIOUS
  <2>4. Moves(j, x)
    BY <1>6, <2>1, <2>2, <2>3 DEF Moves, Tidy, TabsInv, TypesKept
  <2>5. N \in SUBSET Wins /\ A \in SUBSET Tabs /\ A \subseteq job[j].alive
    BY <1>1, <2>1, <2>2 DEF JobRecords
  <2>6. /\ x.pc = "fill" /\ x.op = job[j].op /\ x.client = job[j].client /\ x.obj = job[j].obj
        /\ x.tab = job[j].tab /\ x.back = job[j].back /\ x.alive = A /\ x.need = N /\ x \in JobRecords
    BY <1>1, <2>3, <2>5 DEF JobRecords
  <2>7. JobOK(x)
    BY <1>1, <2>5, <2>6 DEF JobOK, Opening, Closing
  <2>8. Spares(j, x, w, stay)
    BY <1>1, <1>3, <1>6, <2>1, <2>2, <2>4, <2>6, <2>7 DEF Spares
  <2> QED  BY <1>4, <2>8, TabsSpared
<1> QED
  BY <1>2, <1>3, <1>5, <1>6

\* Tab t is not there any more: no session that still has a tab has been forgotten.
Gone(t) ==
    /\ tab' \in [Tabs -> [st : {"absent", "open", "closed"}, win : Wins, place : {"home", "group"}]]
    /\ tab'[t].st # "absent" /\ \A s \in Tabs : s # t => tab'[s] = tab[s]
    /\ OpenTabs' = OpenTabs \ {t}
    /\ client' \in [Clients -> Objs \cup {NoObj}] /\ obj' \in [Objs -> SessionRecords]
    /\ \A c \in Clients : client'[c] = client[c] \/ (client'[c] = NoObj /\ Emptied(client[c], t))
    /\ \A o \in Objs : /\ obj'[o].inflight = obj[o].inflight
                       /\ \A s \in obj[o].owned : s = t \/ s \in obj'[o].owned
                       /\ obj'[o].adopted \subseteq obj[o].adopted
                       /\ \A r \in obj[o].adopted : r.tab = t \/ r \in obj'[o].adopted
    /\ store' \in Stores
    /\ \/ store' = Snapshot(client', obj')
       \/ UNCHANGED store /\ Snapshot(client', obj') = Snapshot(client, obj)

(* onTabRemoved.                                                           *)
LEMMA TabGoneIs ==
    ASSUME Tidy, NEW t \in Tabs, Open(t), TabGone(t)
    PROVE  Gone(t)
<1>1. /\ tab \in [Tabs -> [st : {"absent", "open", "closed"}, win : Wins, place : {"home", "group"}]]
      /\ client \in [Clients -> Objs \cup {NoObj}] /\ obj \in [Objs -> SessionRecords]
      /\ store \in Stores
  BY DEF Tidy, TabsInv, TypesKept, Stores
<1>2. /\ tab' \in [Tabs -> [st : {"absent", "open", "closed"}, win : Wins, place : {"home", "group"}]]
      /\ tab'[t].st = "closed" /\ \A s \in Tabs : s # t => tab'[s] = tab[s]
  <2>1. PICK y : y = [tab[t] EXCEPT !.st = "closed", !.place = "home"]
    OBVIOUS
  <2>2. y \in [st : {"absent", "open", "closed"}, win : Wins, place : {"home", "group"}] /\ y.st = "closed"
    BY <1>1, <2>1
  <2>3. tab' = [tab EXCEPT ![t] = y]
    BY <1>1, <2>1 DEF TabGone
  <2>4. tab'[t] = y /\ \A s \in Tabs : s # t => tab'[s] = tab[s]
    BY <1>1, <2>3
  <2>5. tab' \in [Tabs -> [st : {"absent", "open", "closed"}, win : Wins, place : {"home", "group"}]]
    BY <1>1, <2>2, <2>3
  <2> QED  BY <2>2, <2>4, <2>5
<1>3. OpenTabs' = OpenTabs \ {t}
  BY <1>2 DEF OpenTabs, Open
<1>a. PICK known : known = \E c \in Clients : Manages(c, t)
  OBVIOUS
<1>b. PICK drop : drop = {c \in Clients : client[c] # NoObj /\ Emptied(client[c], t)}
  OBVIOUS
<1>4. /\ obj' = [o \in Objs |->
             IF o \in LiveObjs
             THEN [obj[o] EXCEPT !.owned = @ \ {t}, !.adopted = {r \in @ : r.tab # t}]
             ELSE obj[o]]
      /\ client' = [c \in Clients |-> IF c \in drop THEN NoObj ELSE client[c]]
      /\ store' = IF known \/ drop # {} THEN Snapshot(client', obj') ELSE store
  BY <1>a, <1>b DEF TabGone
<1>5. /\ client' \in [Clients -> Objs \cup {NoObj}]
      /\ \A c \in Clients : client'[c] = client[c] \/ (client'[c] = NoObj /\ Emptied(client[c], t))
      /\ drop = {} => client' = client
  BY <1>1, <1>b, <1>4
<1>6. ASSUME NEW o \in Objs
      PROVE  /\ obj'[o] \in SessionRecords /\ obj'[o].inflight = obj[o].inflight
             /\ o \in LiveObjs => /\ obj'[o].owned = obj[o].owned \ {t}
                              /\ obj'[o].adopted = {r \in obj[o].adopted : r.tab # t}
             /\ o \notin LiveObjs => obj'[o] = obj[o]
  <2>1. obj[o] \in SessionRecords
    BY <1>1
  <2>2. CASE o \in LiveObjs
    <3>1. PICK S : S = obj[o].owned \ {t}
      OBVIOUS
    <3>2. PICK A : A = {r \in obj[o].adopted : r.tab # t}
      OBVIOUS
    <3>3. obj'[o] = [obj[o] EXCEPT !.owned = S, !.adopted = A]
      BY <1>4, <2>2, <3>1, <3>2
    <3>4. S \subseteq obj[o].owned /\ A \subseteq obj[o].adopted
      BY <3>1, <3>2
    <3> QED  BY <2>1, <2>2, <3>1, <3>2, <3>3, <3>4 DEF SessionRecords
  <2>3. CASE o \notin LiveObjs
    BY <1>4, <2>1, <2>3
  <2> QED  BY <2>2, <2>3
<1>7. obj' \in [Objs -> SessionRecords]
  <2>1. obj' = [o \in Objs |-> obj'[o]]
    BY <1>4
  <2> QED  BY <1>6, <2>1
<1>8. \A o \in Objs : /\ obj'[o].inflight = obj[o].inflight
                      /\ \A s \in obj[o].owned : s = t \/ s \in obj'[o].owned
                      /\ obj'[o].adopted \subseteq obj[o].adopted
                      /\ \A r \in obj[o].adopted : r.tab = t \/ r \in obj'[o].adopted
  BY <1>6
<1>9. CASE known \/ drop # {}
  <2>1. store' = Snapshot(client', obj')
    BY <1>4, <1>9
  <2>2. store' \in Stores
    BY <1>5, <1>7, <2>1, SnapshotIs
  <2> QED  BY <1>2, <1>3, <1>5, <1>7, <1>8, <2>1, <2>2 DEF Gone
<1>10. CASE ~(known \/ drop # {})
  <2>1. store' = store /\ client' = client
    BY <1>4, <1>5, <1>10
  <2>2. ASSUME NEW c \in Clients, client[c] # NoObj
        PROVE  obj'[client[c]].owned = obj[client[c]].owned /\ obj'[client[c]].adopted = obj[client[c]].adopted
    <3>1. client[c] \in LiveObjs /\ client[c] \in Objs
      BY <1>1, <2>2 DEF LiveObjs
    <3>2. t \notin obj[client[c]].owned /\ t \notin Adopted(client[c])
      BY <1>a, <1>10, <2>2 DEF Manages
    <3>3. \A r \in obj[client[c]].adopted : r.tab # t
      BY <3>2 DEF Adopted
    <3>4. PICK p : p = client[c]
      OBVIOUS
    <3>5. obj'[p].owned = obj[p].owned \ {t} /\ obj'[p].adopted = {r \in obj[p].adopted : r.tab # t}
      BY <1>6, <3>1, <3>4
    <3>6. obj[p].owned \ {t} = obj[p].owned
      BY <3>2, <3>4
    <3>7. {r \in obj[p].adopted : r.tab # t} = obj[p].adopted
      BY <3>3, <3>4
    <3> QED  BY <3>4, <3>5, <3>6, <3>7
  <2>3. Snapshot(client', obj') = Snapshot(client, obj)
    BY <2>1, <2>2 DEF Snapshot, Saved
  <2> QED  BY <1>1, <1>2, <1>3, <1>5, <1>7, <1>8, <2>1, <2>3 DEF Gone
<1> QED
  BY <1>9, <1>10

\* The operations go on, and at most t is not among the tabs that are to be closed any more.
JobsKeep(t) ==
    /\ job' = [k \in Jobs |-> job'[k]]
    /\ \A k \in Jobs :
         /\ JobOK(job'[k]) /\ job'[k].pc = job[k].pc /\ job'[k].op = job[k].op
         /\ job'[k].client = job[k].client /\ job'[k].obj = job[k].obj /\ job'[k].back = job[k].back
         /\ job'[k].alive \subseteq job[k].alive /\ \A s \in job[k].alive : s = t \/ s \in job'[k].alive

(* A tab goes away while none is opened.                                     *)
LEMMA TabGoes ==
    ASSUME Tidy, UNCHANGED <<blank, spared, ops, calm>>, NEW t \in Tabs, Gone(t), JobsKeep(t), Undisturbed(Opening),
           calm => \A k \in Jobs : KeepsWindow(job[k])'
    PROVE  TabsInv'
<1>1. \A c, d \in Clients : client'[c] = client'[d] => c = d \/ client'[c] = NoObj
  BY SessionIs DEF Gone
<1>2. ASSUME NEW c \in Clients PROVE Counting(c)'
  <2> SUFFICES ASSUME client'[c] # NoObj, obj'[client'[c]].inflight = 1
               PROVE  \E k \in Jobs : job'[k].client = c /\ job'[k].op \in {"create", "close"}
    BY DEF Counting
  <2>1. client[c] # NoObj /\ obj[client[c]].inflight = 1
    BY SessionIs DEF Gone
  <2>2. PICK k \in Jobs : job[k].client = c /\ job[k].op \in {"create", "close"}
    BY <2>1 DEF Counting, Tidy, TabsInv, TypesKept
  <2>3. job'[k].client = c /\ job'[k].op \in {"create", "close"}
    BY <2>2 DEF JobsKeep
  <2> QED  BY <2>3
<1>3. \A s \in Tabs : tab[s].st # "absent" => tab'[s].st # "absent"
  BY DEF Gone
<1>4. \A k \in Jobs : JobOK(job'[k]) /\ \A s \in job'[k].alive : tab'[s].st # "absent"
  BY <1>3, JobIs DEF JobsKeep, JobRecords
<1>5. TypesKept'
  <2>1. \A s \in UserTabs : tab'[s].st # "absent"
    BY <1>3 DEF Tidy, TabsInv, TypesKept, TabIsolationAssumption
  <2>2. /\ blank' \in [Wins -> {0, 1}] /\ spared' \subseteq Tabs /\ ops' \in 0 .. MaxOps /\ calm' \in BOOLEAN
    BY DEF Tidy, TabsInv, TypesKept
  <2>3. /\ client' \in [Clients -> Objs \cup {NoObj}] /\ obj' \in [Objs -> SessionRecords]
        /\ tab' \in [Tabs -> [st : {"absent", "open", "closed"}, win : Wins, place : {"home", "group"}]]
        /\ store' \in Stores /\ job' = [k \in Jobs |-> job'[k]]
    BY DEF Gone, JobsKeep
  <2> QED  BY <1>1, <1>2, <1>4, <2>1, <2>2, <2>3 DEF TypesKept, Stores
<1>6. StoreOwed'
  <2>1. \A k \in Jobs : Owes(job[k]) => Owes(job'[k])
    BY DEF JobsKeep, Owes
  <2> QED  BY <2>1 DEF Gone, StoreOwed, Tidy, TabsInv
<1>7. ASSUME calm PROVE CalmInv'
  <2>1. CalmInv /\ \A k \in Jobs : job[k].pc \notin Opening
    BY <1>7 DEF Tidy, TabsInv, Undisturbed, InPlace
  <2>2. \A k \in Jobs : job'[k].pc \notin Opening /\ job'[k].pc = job[k].pc
    BY <2>1 DEF JobsKeep
  <2>3. \A k \in Jobs : Current(job[k])'
    BY <2>2 DEF Current
  <2>4. FromHome'
    <3>1. \A o \in Objs : \A r \in obj'[o].adopted : r.place = "home"
      BY <2>1 DEF Gone, CalmInv, FromHome
    <3>2. \A k \in Jobs : \A r \in job'[k].back : r.place = "home"
      BY <2>1 DEF JobsKeep, CalmInv, FromHome
    <3> QED  BY <2>2, <3>1, <3>2 DEF FromHome, Opening
  <2>5. OneCloses'
    BY <2>1, <2>2 DEF CalmInv, OneCloses
  <2>6. \A c \in Clients : client[c] # NoObj => client[c] \in Objs
    BY SessionIs
  <2>7. \A k \in Jobs : job[k].pc = "restore" => job[k].obj \in Objs
    BY JobIs DEF JobOK
  <2>8. ASSUME NEW s \in OpenTabs' \ UserTabs PROVE Kept(s)'
    <3>1. s # t /\ Kept(s)
      BY <2>1 DEF Gone, CalmInv
    <3>2. ASSUME NEW c \in Clients, client[c] # NoObj, s \in obj[client[c]].owned PROVE Kept(s)'
      <4>1. ~Emptied(client[c], t)
        BY <3>1, <3>2 DEF Emptied
      <4>2. client'[c] # NoObj /\ s \in obj'[client'[c]].owned
        BY <2>6, <3>1, <3>2, <4>1 DEF Gone
      <4> QED  BY <4>2 DEF Kept
    <3>3. ASSUME NEW k \in Jobs, job[k].pc = "restore", s \in obj[job[k].obj].owned PROVE Kept(s)'
      <4>1. job'[k].pc = "restore" /\ s \in obj'[job'[k].obj].owned
        BY <2>7, <3>1, <3>3 DEF Gone, JobsKeep
      <4> QED  BY <4>1 DEF Kept
    <3>4. ASSUME NEW k \in Jobs, job[k].pc \in Closing, s \in job[k].alive PROVE Kept(s)'
      <4>1. job'[k].pc \in Closing /\ s \in job'[k].alive
        BY <3>1, <3>4 DEF JobsKeep
      <4> QED  BY <4>1 DEF Kept
    <3>5. CASE s \in spared
      BY <3>5 DEF Kept
    <3> QED  BY <3>1, <3>2, <3>3, <3>4, <3>5 DEF Kept
  <2>9. ASSUME NEW s \in OpenTabs' \cap UserTabs PROVE GoesHome(s)'
    <3>a. PICK r : r = Home(s)
      OBVIOUS
    <3>0. s # t /\ s \in OpenTabs /\ s \in Tabs
      BY DEF Gone, OpenTabs
    <3>1. GoesHome(s) /\ tab'[s] = tab[s] /\ r.tab # t
      BY <2>1, <3>a, <3>0, HomeIs DEF Gone, CalmInv
    <3>2. ASSUME NEW c \in Clients, client[c] # NoObj, r \in obj[client[c]].adopted PROVE GoesHome(s)'
      <4>1. ~Emptied(client[c], t)
        BY <3>1, <3>2 DEF Emptied, Adopted
      <4>2. client'[c] # NoObj /\ r \in obj'[client'[c]].adopted
        BY <2>6, <3>1, <3>2, <4>1 DEF Gone
      <4> QED  BY <3>a, <4>2 DEF GoesHome, Home
    <3>3. ASSUME NEW k \in Jobs, job[k].pc = "restore", r \in obj[job[k].obj].adopted \ job[k].back
          PROVE  GoesHome(s)'
      <4>1. job'[k].pc = "restore" /\ r \in obj'[job'[k].obj].adopted \ job'[k].back
        BY <2>7, <3>1, <3>3 DEF Gone, JobsKeep
      <4> QED  BY <3>a, <4>1 DEF GoesHome, Home
    <3>4. ASSUME NEW k \in Jobs, job[k].pc = "back", r \in job[k].back PROVE GoesHome(s)'
      <4>1. job'[k].pc = "back" /\ r \in job'[k].back
        BY <3>4 DEF JobsKeep
      <4> QED  BY <3>a, <4>1 DEF GoesHome, Home
    <3>5. ASSUME NEW k \in Jobs, job[k].pc \in Closing, s \in job[k].alive PROVE GoesHome(s)'
      <4>1. job'[k].pc \in Closing /\ s \in job'[k].alive
        BY <3>0, <3>5 DEF JobsKeep
      <4> QED  BY <4>1 DEF GoesHome
    <3>6. CASE tab[s].place = "home" \/ s \in spared
      BY <3>1, <3>6 DEF GoesHome
    <3> QED  BY <3>a, <3>1, <3>2, <3>3, <3>4, <3>5, <3>6 DEF GoesHome, Home
  <2> QED  BY <1>7, <2>3, <2>4, <2>5, <2>8, <2>9 DEF CalmInv
<1> QED
  BY <1>5, <1>6, <1>7 DEF TabsInv

(* tabs.remove.                                                            *)
LEMMA TabRemoved ==
    ASSUME Tidy, UNCHANGED calm, NEW j \in Jobs, RemoveTabs(j) PROVE TabsInv'
<1>1. /\ job[j].pc = "fill" /\ job[j].need = {} /\ Undisturbed(Opening) /\ UNCHANGED <<blank, spared, ops>>
      /\ JobOK(job[j]) /\ job[j] \in JobRecords
  BY JobIs DEF RemoveTabs
<1>2. PICK t \in job[j].alive :
         /\ job' = [job EXCEPT ![j].alive = @ \ {t}]
         /\ IF Open(t) THEN TabGone(t) ELSE UNCHANGED <<client, obj, tab, store>>
  BY DEF RemoveTabs
<1>3. t \in Tabs /\ tab[t].st # "absent"
  BY <1>2, JobIs DEF JobRecords
<1>a. PICK A : A = job[j].alive \ {t}
  OBVIOUS
<1>b. PICK x : x = [job[j] EXCEPT !.alive = A]
  OBVIOUS
<1>4. /\ x.pc = "fill" /\ x.op = job[j].op /\ x.client = job[j].client /\ x.obj = job[j].obj
      /\ x.tab = job[j].tab /\ x.back = job[j].back /\ x.alive = A /\ x.need = {} /\ x \in JobRecords
  BY <1>a, <1>b, <1>1 DEF JobRecords
<1>5. JobOK(x) /\ A \subseteq job[j].alive
  BY <1>a, <1>1, <1>4 DEF JobOK, Opening, Closing
<1>6. job' = [job EXCEPT ![j] = x]
  BY <1>a, <1>b, <1>2 DEF Tidy, TabsInv, TypesKept
<1>7. job' = [k \in Jobs |-> job'[k]] /\ \A k \in Jobs : job'[k] = IF k = j THEN x ELSE job[k]
  BY <1>6 DEF Tidy, TabsInv, TypesKept
<1>8. JobsKeep(t)
  <2>1. ASSUME NEW k \in Jobs
        PROVE  /\ JobOK(job'[k]) /\ job'[k].pc = job[k].pc /\ job'[k].op = job[k].op
               /\ job'[k].client = job[k].client /\ job'[k].obj = job[k].obj /\ job'[k].back = job[k].back
               /\ job'[k].alive \subseteq job[k].alive /\ \A s \in job[k].alive : s = t \/ s \in job'[k].alive
    <3>1. CASE k = j
      BY <1>a, <1>1, <1>4, <1>5, <1>7, <3>1
    <3>2. CASE k # j
      BY <1>7, <3>2, JobIs
    <3> QED  BY <3>1, <3>2
  <2> QED  BY <1>7, <2>1 DEF JobsKeep
<1>9. Gone(t)
  <2>1. CASE Open(t)
    BY <1>2, <1>3, <2>1, TabGoneIs
  <2>2. CASE ~Open(t)
    <3>1. UNCHANGED <<client, obj, tab, store>>
      BY <1>2, <2>2
    <3>2. OpenTabs' = OpenTabs \ {t}
      BY <2>2, <3>1 DEF OpenTabs, Open
    <3> QED  BY <1>3, <3>1, <3>2 DEF Gone, Tidy, TabsInv, TypesKept, Stores
  <2> QED  BY <2>1, <2>2
<1>10. ASSUME calm, NEW k \in Jobs PROVE KeepsWindow(job[k])'
  <2>1. OneCloses /\ KeepsWindow(job[j])
    BY <1>10 DEF Tidy, TabsInv, CalmInv
  <2>2. CASE k # j
    <3>1. job[k].pc # "fill"
      BY <1>1, <2>1, <2>2 DEF OneCloses, Closing
    <3> QED  BY <1>7, <2>2, <3>1 DEF KeepsWindow
  <2>3. CASE k = j
    <3>1. ASSUME NEW a \in A
          PROVE  blank[tab'[a].win] = 1 \/ \E s \in OpenTabs' \ A : tab'[s].win = tab'[a].win
      <4>1. a \in job[j].alive /\ a # t /\ a \in Tabs
        BY <1>a, <1>1 DEF JobRecords
      <4>2. tab'[a] = tab[a]
        BY <1>9, <4>1 DEF Gone
      <4>3. blank[tab[a].win] = 1 \/ \E s \in OpenTabs \ job[j].alive : tab[s].win = tab[a].win
        BY <1>1, <2>1, <4>1 DEF KeepsWindow
      <4>4. ASSUME NEW s \in OpenTabs \ job[j].alive PROVE s \in OpenTabs' \ A /\ tab'[s] = tab[s]
        BY <1>2, <1>5, <1>9 DEF Gone, OpenTabs
      <4> QED  BY <4>2, <4>3, <4>4
    <3>2. job'[k].alive = A /\ UNCHANGED blank
      BY <1>1, <1>4, <1>7, <2>3
    <3> QED  BY <3>1, <3>2 DEF KeepsWindow
  <2> QED  BY <2>2, <2>3
<1> QED
  BY <1>1, <1>3, <1>8, <1>9, <1>10, TabGoes

(* The user closes a tab.                                                   *)
LEMMA UserClosed ==
    ASSUME Tidy, UNCHANGED calm, NEW t \in Tabs, UserCloses(t) PROVE TabsInv'
<1>1. Open(t) /\ Undisturbed(Opening \cup Closing) /\ TabGone(t) /\ UNCHANGED <<blank, job, spared, ops>>
  BY DEF UserCloses
<1>2. Gone(t)
  BY <1>1, TabGoneIs
<1>3. JobsKeep(t)
  BY <1>1, JobIs DEF JobsKeep, Tidy, TabsInv, TypesKept
<1>4. Undisturbed(Opening) /\ (calm => \A k \in Jobs : job[k].pc \notin Closing)
  BY <1>1 DEF Undisturbed, InPlace
<1>5. calm => \A k \in Jobs : KeepsWindow(job[k])'
  BY <1>1, <1>4 DEF KeepsWindow, Closing
<1> QED
  BY <1>1, <1>2, <1>3, <1>4, <1>5, TabGoes

(* What comes back for a client after the worker was killed.                 *)
LEMMA HydratedIs ==
    ASSUME Tidy, NEW c \in Clients
    PROVE  /\ Hydrated(c) \in SessionRecords /\ Hydrated(c).inflight = 0
           /\ Hydrated(c).owned = store[c].owned \cap OpenTabs
           /\ Hydrated(c).adopted = {r \in store[c].adopted : Open(r.tab)}
<1>1. PICK S : S = store[c].owned \cap OpenTabs
  OBVIOUS
<1>2. PICK A : A = {r \in store[c].adopted : Open(r.tab)}
  OBVIOUS
<1>3. S \in SUBSET (Tabs \ UserTabs) /\ A \in SUBSET UserOrigins
  BY <1>1, <1>2 DEF Tidy, TabsInv, TypesKept
<1>4. Hydrated(c) = [NewState EXCEPT !.owned = S, !.adopted = A]
  BY <1>1, <1>2 DEF Hydrated
<1>5. Hydrated(c) \in SessionRecords /\ Hydrated(c).inflight = 0 /\ Hydrated(c).owned = S /\ Hydrated(c).adopted = A
  BY <1>3, <1>4, NewIs DEF SessionRecords
<1> QED
  BY <1>1, <1>2, <1>5

(* The worker is killed and starts again with what is stored.                 *)
LEMMA Killed ==
    ASSUME Tidy, UNCHANGED calm, Kill PROVE TabsInv'
<1> DEFINE back == {c \in Clients : Hydrated(c) # NewState}
<1>a. back = {c \in Clients : Hydrated(c) # NewState}
  OBVIOUS
<1>1. PICK at \in [back -> Objs] :
         /\ \A c, d \in back : at[c] = at[d] => c = d
         /\ client' = [c \in Clients |-> IF c \in back THEN at[c] ELSE NoObj]
         /\ obj' = [o \in Objs |-> IF \E c \in back : at[c] = o
                                   THEN Hydrated(CHOOSE c \in back : at[c] = o)
                                   ELSE NewState]
  BY DEF Kill
<1> HIDE DEF back
<1>2. /\ job' = [j \in Jobs |-> Idle] /\ store' = Snapshot(client', obj') /\ UNCHANGED <<tab, blank, spared>>
      /\ (calm => AtRest) /\ ops' \in 0 .. MaxOps /\ back \subseteq Clients
  BY <1>a, CountedIs DEF Kill
<1>3. ASSUME NEW o \in Objs
      PROVE  /\ obj'[o] \in SessionRecords /\ obj'[o].inflight = 0
             /\ \A c \in back : at[c] = o => obj'[o] = Hydrated(c)
             /\ obj'[o] = NewState \/ \E c \in back : obj'[o] = Hydrated(c)
  <2>1. CASE \E c \in back : at[c] = o
    <3>1. PICK c \in back : at[c] = o
      BY <2>1
    <3>2. (CHOOSE d \in back : at[d] = o) = c
      BY <1>1, <3>1
    <3>3. obj'[o] = Hydrated(c)
      BY <1>1, <3>1, <3>2
    <3> QED  BY <1>1, <1>2, <3>1, <3>3, HydratedIs
  <2>2. CASE ~\E c \in back : at[c] = o
    <3>1. obj'[o] = NewState
      BY <1>1, <2>2
    <3> QED  BY <2>2, <3>1, NewIs
  <2> QED  BY <2>1, <2>2
<1>4. /\ client' \in [Clients -> Objs \cup {NoObj}] /\ NoObj \notin Objs
      /\ \A c \in Clients : client'[c] = IF c \in back THEN at[c] ELSE NoObj
      /\ \A c \in back : client'[c] \in Objs
  BY <1>1, <1>2 DEF Tidy, TabIsolationAssumption
<1>5. \A c, d \in Clients : client'[c] = client'[d] => c = d \/ client'[c] = NoObj
  BY <1>1, <1>4
<1>6. obj' \in [Objs -> SessionRecords]
  <2>1. obj' = [o \in Objs |-> obj'[o]]
    BY <1>1
  <2> QED  BY <1>3, <2>1
<1>7. \A j \in Jobs : job'[j] = Idle
  BY <1>2
<1>8. TypesKept'
  <2>1. \A c \in Clients : Counting(c)'
    BY <1>3, <1>4 DEF Counting
  <2>2. store' \in Stores
    BY <1>2, <1>4, <1>6, SnapshotIs
  <2>3. \A j \in Jobs : JobOK(job'[j]) /\ job'[j].alive = {}
    BY <1>7, IdleIs
  <2>4. job' = [j \in Jobs |-> job'[j]]
    BY <1>2
  <2>5. /\ tab' \in [Tabs -> [st : {"absent", "open", "closed"}, win : Wins, place : {"home", "group"}]]
        /\ \A t \in UserTabs : tab'[t].st # "absent"
        /\ blank' \in [Wins -> {0, 1}] /\ spared' \subseteq Tabs /\ calm' \in BOOLEAN
    BY <1>2 DEF Tidy, TabsInv, TypesKept
  <2> QED  BY <1>2, <1>4, <1>5, <1>6, <2>1, <2>2, <2>3, <2>4, <2>5 DEF TypesKept, Stores
<1>9. StoreOwed'
  BY <1>2 DEF StoreOwed
<1>10. ASSUME calm PROVE CalmInv'
  <2>1. CalmInv /\ \A j \in Jobs : job[j].pc = "idle"
    BY <1>2, <1>10 DEF Tidy, TabsInv, AtRest, Free
  <2>2. store = Snapshot(client, obj)
    BY <2>1 DEF Tidy, TabsInv, StoreOwed, Owes, Closing
  <2>3. ASSUME NEW c \in Clients, client[c] # NoObj
        PROVE  /\ store[c].owned = obj[client[c]].owned /\ store[c].adopted = obj[client[c]].adopted
    BY <2>2, <2>3 DEF Snapshot, Saved
  <2>4. \A c \in Clients : \A r \in store[c].adopted : r.place = "home"
    <3> TAKE c \in Clients
    <3>1. CASE client[c] = NoObj
      BY <2>2, <3>1, NewIs DEF Snapshot, Nothing, Saved
    <3>2. CASE client[c] # NoObj
      BY <2>1, <2>3, <3>2, SessionIs DEF CalmInv, FromHome
    <3> QED  BY <3>1, <3>2
  <2>5. /\ \A j \in Jobs : Current(job[j])' /\ KeepsWindow(job[j])'
        /\ OneCloses'
    BY <1>7, IdleIs DEF Current, KeepsWindow, OneCloses, Opening, Closing
  <2>6. FromHome'
    <3>1. ASSUME NEW o \in Objs, NEW r \in obj'[o].adopted PROVE r.place = "home"
      <4>1. CASE obj'[o] = NewState
        BY <3>1, <4>1, NewIs
      <4>2. ASSUME NEW c \in back, obj'[o] = Hydrated(c) PROVE r.place = "home"
        <5>1. c \in Clients /\ r \in store[c].adopted
          BY <1>2, <3>1, <4>2, HydratedIs
        <5> QED  BY <2>4, <5>1
      <4> QED  BY <1>3, <4>1, <4>2
    <3> QED  BY <1>7, <3>1, IdleIs DEF FromHome
  <2>7. OpenTabs' = OpenTabs
    BY <1>2 DEF OpenTabs, Open
  <2>8. ASSUME NEW c \in Clients, NEW v, v \in Hydrated(c).owned \/ v \in Hydrated(c).adopted
        PROVE  client'[c] # NoObj /\ obj'[client'[c]] = Hydrated(c)
    <3>1. c \in back
      BY <1>a, <2>8, NewIs
    <3> QED  BY <1>3, <1>4, <3>1
  <2>9. ASSUME NEW t \in OpenTabs' \ UserTabs PROVE Kept(t)'
    <3>1. Kept(t) /\ t \in OpenTabs
      BY <2>1, <2>7 DEF CalmInv
    <3>2. t \in spared \/ \E c \in Clients : client[c] # NoObj /\ t \in obj[client[c]].owned
      BY <2>1, <3>1 DEF Kept, Closing
    <3>3. CASE t \in spared
      BY <1>2, <3>3 DEF Kept
    <3>4. ASSUME NEW c \in Clients, client[c] # NoObj, t \in obj[client[c]].owned PROVE Kept(t)'
      <4>1. t \in Hydrated(c).owned
        BY <2>3, <3>1, <3>4, HydratedIs
      <4>2. client'[c] # NoObj /\ t \in obj'[client'[c]].owned
        BY <2>8, <4>1
      <4> QED  BY <4>2 DEF Kept
    <3> QED  BY <3>2, <3>3, <3>4
  <2>10. ASSUME NEW t \in OpenTabs' \cap UserTabs PROVE GoesHome(t)'
    <3>a. PICK r : r = Home(t)
      OBVIOUS
    <3>1. GoesHome(t) /\ t \in OpenTabs /\ r.tab = t
      BY <2>1, <2>7, <3>a, HomeIs DEF CalmInv
    <3>2. \/ tab[t].place = "home" \/ t \in spared
          \/ \E c \in Clients : client[c] # NoObj /\ r \in obj[client[c]].adopted
      BY <2>1, <3>a, <3>1 DEF GoesHome, Home, Closing
    <3>3. CASE tab[t].place = "home" \/ t \in spared
      BY <1>2, <3>3 DEF GoesHome
    <3>4. ASSUME NEW c \in Clients, client[c] # NoObj, r \in obj[client[c]].adopted PROVE GoesHome(t)'
      <4>1. r \in Hydrated(c).adopted
        BY <2>3, <3>1, <3>4, HydratedIs DEF OpenTabs
      <4>2. client'[c] # NoObj /\ r \in obj'[client'[c]].adopted
        BY <2>8, <4>1
      <4> QED  BY <3>a, <4>2 DEF GoesHome, Home
    <3> QED  BY <3>2, <3>3, <3>4
  <2> QED  BY <1>10, <2>5, <2>6, <2>9, <2>10 DEF CalmInv
<1> QED
  BY <1>8, <1>9, <1>10 DEF TabsInv

-----------------------------------------------------------------------------
(* TabIsolation: the theorems.                                              *)

(* The invariant holds at the start.                                        *)
LEMMA TabsStart == ASSUME TabIsolationAssumption, TabsInit PROVE TabsInv
<1>1. /\ calm \in BOOLEAN /\ client = [c \in Clients |-> NoObj] /\ obj = [o \in Objs |-> NewState]
      /\ blank = [w \in Wins |-> 0] /\ store = [c \in Clients |-> Nothing]
      /\ job = [j \in Jobs |-> Idle] /\ spared = {} /\ ops = 0
  BY DEF TabsInit
<1>2. /\ tab \in [Tabs -> [st : {"absent", "open", "closed"}, win : Wins, place : {"home", "group"}]]
      /\ \A t \in Tabs : tab[t].place = "home"
      /\ \A t \in UserTabs : tab[t].st # "absent"
      /\ \A t \in Tabs \ UserTabs : tab[t].st # "open"
  BY DEF TabsInit, TabIsolationAssumption
<1>3. \A j \in Jobs : job[j] = Idle
  BY <1>1
<1>4. Nothing.owned = {} /\ Nothing.adopted = {}
      /\ Nothing \in [owned : SUBSET (Tabs \ UserTabs), adopted : SUBSET UserOrigins]
  BY NewIs DEF Nothing, Saved
<1>5. TypesKept
  <2>1. \A j \in Jobs : JobOK(job[j]) /\ job[j].alive = {}
    BY <1>3, IdleIs
  <2>2. \A c \in Clients : Counting(c)
    BY <1>1 DEF Counting
  <2>3. ops \in 0 .. MaxOps
    BY <1>1 DEF TabIsolationAssumption
  <2>4. obj \in [Objs -> SessionRecords]
    BY <1>1, NewIs
  <2>5. job = [j \in Jobs |-> job[j]]
    BY <1>1
  <2>6. /\ client \in [Clients -> Objs \cup {NoObj}] /\ blank \in [Wins -> {0, 1}] /\ spared \subseteq Tabs
        /\ store \in [Clients -> [owned : SUBSET (Tabs \ UserTabs), adopted : SUBSET UserOrigins]]
        /\ \A c, d \in Clients : client[c] = client[d] => c = d \/ client[c] = NoObj
    BY <1>1, <1>4
  <2> QED  BY <1>1, <1>2, <2>1, <2>2, <2>3, <2>4, <2>5, <2>6 DEF TypesKept
<1>6. StoreOwed
  <2>1. Snapshot(client, obj) = [c \in Clients |-> Nothing]
    BY <1>1 DEF Snapshot
  <2> QED  BY <1>1, <2>1 DEF StoreOwed
<1>7. CalmInv
  <2>1. /\ \A j \in Jobs : Current(job[j]) /\ KeepsWindow(job[j])
        /\ OneCloses
    BY <1>3, IdleIs DEF Current, KeepsWindow, OneCloses, Opening, Closing
  <2>2. FromHome
    BY <1>1, <1>3, IdleIs, NewIs DEF FromHome
  <2>3. OpenTabs \ UserTabs = {}
    BY <1>2 DEF OpenTabs, Open
  <2>4. \A t \in OpenTabs \cap UserTabs : GoesHome(t)
    BY <1>2 DEF GoesHome, OpenTabs
  <2> QED  BY <2>1, <2>2, <2>3, <2>4 DEF CalmInv
<1> QED
  BY <1>5, <1>6, <1>7 DEF TabsInv

(* Every step of an operation keeps the invariant.                            *)
LEMMA JobStepKeeps ==
    ASSUME Tidy, UNCHANGED calm, NEW j \in Jobs, JobStep(j) PROVE TabsInv'
<1>1. CASE Create(j)
  BY <1>1, TabCreated
<1>2. CASE CreateFails(j)
  BY <1>2, CreateIsOver
<1>3. CASE Adopt(j)
  BY <1>3, AdoptGoesOn
<1>4. CASE Group(j)
  BY <1>4, TabGrouped
<1>5. CASE Persist(j)
  BY <1>5, SessionsStored
<1>6. CASE Restore(j)
  BY <1>6, TabRestored
<1>7. CASE Restored(j)
  BY <1>7, AllRestored
<1>8. CASE Query(j)
  BY <1>8, WindowsFound
<1>9. CASE Fill(j)
  BY <1>9, FillGoesOn
<1>10. CASE RemoveTabs(j)
  BY <1>10, TabRemoved
<1>11. CASE Removed(j)
  BY <1>11, AllRemoved
<1>12. CASE PutBack(j)
  BY <1>12, TabPutBack
<1>13. CASE SweepNext(j)
  BY <1>13, SweepGoesOn
<1>14. CASE SweepDone(j)
  BY <1>14, SweepIsOver
<1> QED
  BY <1>1, <1>2, <1>3, <1>4, <1>5, <1>6, <1>7, <1>8, <1>9, <1>10, <1>11, <1>12, <1>13, <1>14 DEF JobStep

(* Every step keeps the invariant.                                          *)
LEMMA StepKeeps ==
    ASSUME TabIsolationAssumption, TabsInv, [TabsNext]_tabVars PROVE TabsInv'
<1>0. Tidy
  BY DEF Tidy
<1>1. CASE UNCHANGED tabVars
  <2>1. UNCHANGED <<client, obj, tab, blank, store, job, spared, ops, calm>>
    BY <1>1 DEF tabVars
  <2>2. TypesKept'
    BY <2>1 DEF TabsInv, TypesKept, Counting
  <2>3. StoreOwed'
    BY <2>1 DEF TabsInv, StoreOwed
  <2>4. calm => CalmInv'
    BY <2>1 DEF TabsInv, CalmInv, Current, FromHome, OneCloses, Kept, GoesHome, KeepsWindow, OpenTabs, Open
  <2> QED  BY <2>1, <2>2, <2>3, <2>4 DEF TabsInv
<1>2. CASE TabsStep /\ UNCHANGED calm
  <2>1. ASSUME NEW j \in Jobs, JobStep(j) \/ StartSweep(j) PROVE TabsInv'
    BY <1>0, <1>2, <2>1, JobStepKeeps, SweepStarts
  <2>2. ASSUME NEW j \in Jobs, NEW c \in Clients,
               StartCreate(j, c) \/ StartRelease(j, c, "finish") \/ StartRelease(j, c, "gone")
        PROVE  TabsInv'
    BY <1>0, <1>2, <2>2, CreateStarts, ReleaseStarts
  <2>3. ASSUME NEW j \in Jobs, NEW c \in Clients, NEW t \in UserTabs, StartAdopt(j, c, t) PROVE TabsInv'
    BY <1>0, <1>2, <2>3, AdoptStarts
  <2>4. ASSUME NEW j \in Jobs, NEW c \in Clients, NEW t \in Tabs, StartClose(j, c, t) PROVE TabsInv'
    BY <1>0, <1>2, <2>4, CloseStarts
  <2>5. ASSUME NEW j \in Jobs, NEW c \in Clients, NEW s \in Tabs, NEW t \in Tabs, PageOpens(j, c, s, t)
        PROVE  TabsInv'
    BY <1>0, <1>2, <2>5, PageOpened
  <2>6. ASSUME NEW j \in Jobs, NEW c \in Clients, NEW t \in UserTabs, NEW p \in {"home", "group"},
               StartUnpin(j, c, [tab |-> t, place |-> p])
        PROVE  TabsInv'
    <3>1. [tab |-> t, place |-> p] \in UserOrigins
      BY DEF UserOrigins
    <3> QED  BY <1>0, <1>2, <2>6, <3>1, UnpinStarts
  <2>7. ASSUME NEW c \in Clients, GetsIdle(c) PROVE TabsInv'
    BY <1>0, <1>2, <2>7, SessionIdle
  <2>8. ASSUME NEW t \in Tabs, UserCloses(t) PROVE TabsInv'
    BY <1>0, <1>2, <2>8, UserClosed
  <2>9. CASE Kill
    BY <1>0, <1>2, <2>9, Killed
  <2> QED  BY <1>2, <2>1, <2>2, <2>3, <2>4, <2>5, <2>6, <2>7, <2>8, <2>9 DEF TabsStep
<1> QED
  BY <1>1, <1>2 DEF TabsNext, Rest

(* The invariant holds throughout.                                          *)
LEMMA TabsAlways == TabsSpec => []TabsInv
<1>1. TabsInit => TabsInv
  BY TabsStart, TabIsolationAssumption
<1>2. TabsInv /\ [TabsNext]_tabVars => TabsInv'
  BY StepKeeps, TabIsolationAssumption
<1> QED
  BY <1>1, <1>2, PTL DEF TabsSpec

(* The types are those of the model.                                        *)
LEMMA TypesAre == ASSUME TabIsolationAssumption, TypesKept PROVE TabsTypeOK
<1>1. Counts \subseteq 0 .. Cardinality(Jobs)
  <2>1. IsFiniteSet(Jobs) /\ Cardinality(Jobs) \in Nat
    BY FS_CardinalityType DEF TabIsolationAssumption
  <2>2. Jobs # {} => Cardinality(Jobs) # 0
    BY <2>1, FS_EmptySet
  <2> QED  BY <2>1, <2>2 DEF Counts
<1>2. UserOrigins \subseteq Origins
  BY DEF UserOrigins, Origins, TabIsolationAssumption
<1>3. SessionRecords \subseteq
        [owned : SUBSET Tabs, adopted : SUBSET Origins, inflight : 0 .. Cardinality(Jobs), idle : BOOLEAN]
  <2> SUFFICES ASSUME NEW s \in SessionRecords
               PROVE  s \in [owned : SUBSET Tabs, adopted : SUBSET Origins,
                             inflight : 0 .. Cardinality(Jobs), idle : BOOLEAN]
    OBVIOUS
  <2>1. /\ s = [owned |-> s.owned, adopted |-> s.adopted, inflight |-> s.inflight, idle |-> s.idle]
        /\ s.owned \subseteq Tabs /\ s.adopted \subseteq UserOrigins /\ s.inflight \in Counts /\ s.idle \in BOOLEAN
    BY DEF SessionRecords
  <2> QED  BY <1>1, <1>2, <2>1
<1>4. obj \in [Objs -> [owned : SUBSET Tabs, adopted : SUBSET Origins,
                        inflight : 0 .. Cardinality(Jobs), idle : BOOLEAN]]
  BY <1>3 DEF TypesKept
<1>5. \A o \in Objs : obj[o].owned \cap Adopted(o) = {}
  <2> TAKE o \in Objs
  <2>1. obj[o].owned \cap UserTabs = {} /\ \A r \in obj[o].adopted : r.tab \in UserTabs
    BY DEF TypesKept, SessionRecords, UserOrigins
  <2> QED  BY <2>1 DEF Adopted
<1>6. store \in [Clients -> [owned : SUBSET Tabs, adopted : SUBSET Origins]]
  <2>1. ASSUME NEW c \in Clients PROVE store[c] \in [owned : SUBSET Tabs, adopted : SUBSET Origins]
    <3>1. store[c] \in [owned : SUBSET (Tabs \ UserTabs), adopted : SUBSET UserOrigins]
      BY DEF TypesKept
    <3>2. /\ store[c] = [owned |-> store[c].owned, adopted |-> store[c].adopted]
          /\ store[c].owned \subseteq Tabs /\ store[c].adopted \subseteq UserOrigins
      BY <3>1
    <3> QED  BY <1>2, <3>2
  <2> QED  BY <2>1 DEF TypesKept
<1>7. blank \in [Wins -> 0 .. 1]
  BY DEF TypesKept
<1> QED
  BY <1>4, <1>5, <1>6, <1>7 DEF TypesKept, TabsTypeOK

\* What the safety properties say of a state.
LEMMA TabsInvTracked == ASSUME TabIsolationAssumption, TabsInv PROVE TabsTracked
<1>1. TabsTypeOK
  BY TypesAre DEF TabsInv
<1>2. ASSUME calm, AtRest PROVE CalmInv /\ \A j \in Jobs : job[j].pc = "idle"
  BY <1>2 DEF TabsInv, AtRest, Free
<1>3. OwnedTracked
  BY <1>2 DEF OwnedTracked, CalmInv, Kept, Closing
<1>4. UserTabsHome
  BY <1>2 DEF UserTabsHome, CalmInv, GoesHome, Closing
<1> QED
  BY <1>1, <1>3, <1>4 DEF TabsTracked

(* Undisturbed, at rest every open tab of AutoDOM's belongs to a session that will close it,
   and every tab of the user's that is not where it was to one that will put it back,
   for any number of clients, tabs, windows and overlapping operations.           *)
THEOREM TabsAreTracked == TabsSpec => []TabsTracked
<1>1. TabsInv => TabsTracked
  BY TabsInvTracked, TabIsolationAssumption
<1> QED
  BY <1>1, TabsAlways, PTL

(* A window with a tab that stays, or a replacement, is not empty.              *)
LEMMA WindowStays ==
    ASSUME TabIsolationAssumption, TypesKept', NEW w \in Wins,
           blank'[w] = 1 \/ \E s \in OpenTabs' : tab'[s].win = w
    PROVE  Cardinality({s \in OpenTabs' : tab'[s].win = w}) + blank'[w] > 0
<1> DEFINE T == {s \in OpenTabs' : tab'[s].win = w}
<1>1. IsFiniteSet(Tabs) /\ blank'[w] \in {0, 1} /\ T \subseteq Tabs
  BY DEF TypesKept, TabIsolationAssumption, OpenTabs
<1>2. IsFiniteSet(T) /\ Cardinality(T) \in Nat
  BY <1>1, FS_Subset, FS_CardinalityType
<1>3. T # {} => Cardinality(T) # 0
  BY <1>2, FS_EmptySet
<1> QED
  BY <1>1, <1>2, <1>3

(* Only tabs.remove and the user close a tab.                                  *)
LEMMA StaysOpen ==
    ASSUME Tidy, NEW t \in Tabs, Open(t), [TabsNext]_tabVars,
           \A j \in Jobs : ~RemoveTabs(j), \A s \in Tabs : ~UserCloses(s)
    PROVE  Open(t)'
<1>1. tab \in [Tabs -> [st : {"absent", "open", "closed"}, win : Wins, place : {"home", "group"}]]
  BY DEF Tidy, TabsInv, TypesKept
<1>2. CASE UNCHANGED tab
  BY <1>2 DEF Open
<1>3. ASSUME NEW r, tab' = PutAway(r) PROVE Open(t)'
  <2>1. CASE Open(r.tab)
    BY <1>1, <1>3, <2>1 DEF PutAway, Open
  <2>2. CASE ~Open(r.tab)
    BY <1>3, <2>2 DEF PutAway, Open
  <2> QED  BY <2>1, <2>2
<1>4. ASSUME NEW s \in Tabs, NEW w, tab' = [tab EXCEPT ![s].st = "open", ![s].win = w] PROVE Open(t)'
  BY <1>1, <1>4 DEF Open
<1>5. ASSUME NEW s, tab' = [tab EXCEPT ![s].place = "group"] PROVE Open(t)'
  BY <1>1, <1>5 DEF Open
<1>6. ASSUME NEW j \in Jobs, JobStep(j) PROVE Open(t)'
  <2>1. CASE Create(j)
    BY <1>4, <2>1 DEF Create
  <2>2. CASE Group(j)
    BY <1>2, <1>5, <2>2 DEF Group
  <2>3. CASE Restore(j)
    BY <1>3, <2>3 DEF Restore
  <2>4. CASE PutBack(j)
    BY <1>3, <2>4 DEF PutBack
  <2>5. CASE CreateFails(j) \/ Adopt(j) \/ Persist(j) \/ Restored(j)
    BY <1>2, <2>5 DEF CreateFails, Adopt, Persist, Restored
  <2>6. CASE Query(j) \/ Fill(j) \/ Removed(j) \/ SweepDone(j)
    BY <1>2, <2>6 DEF Query, Fill, Removed, SweepDone
  <2>7. CASE SweepNext(j)
    BY <1>2, <2>7 DEF SweepNext, SweepTo
  <2> QED  BY <1>6, <2>1, <2>2, <2>3, <2>4, <2>5, <2>6, <2>7 DEF JobStep
<1>7. ASSUME NEW j \in Jobs, StartSweep(j) PROVE Open(t)'
  BY <1>2, <1>7 DEF StartSweep, SweepTo
<1>8. ASSUME NEW j \in Jobs, NEW c \in Clients,
             \/ StartCreate(j, c) \/ StartRelease(j, c, "finish") \/ StartRelease(j, c, "gone")
             \/ \E s \in UserTabs : StartAdopt(j, c, s)
             \/ \E s \in Tabs : StartClose(j, c, s)
             \/ \E s \in UserTabs, p \in {"home", "group"} : StartUnpin(j, c, [tab |-> s, place |-> p])
      PROVE  Open(t)'
  BY <1>2, <1>8 DEF StartCreate, StartRelease, StartAdopt, StartClose, StartUnpin
<1>9. ASSUME NEW j \in Jobs, NEW c \in Clients, NEW o \in Tabs, NEW s \in Tabs, PageOpens(j, c, o, s)
      PROVE  Open(t)'
  BY <1>4, <1>9 DEF PageOpens
<1>10. CASE Kill \/ \E c \in Clients : GetsIdle(c)
  BY <1>2, <1>10 DEF Kill, GetsIdle
<1>11. CASE UNCHANGED tabVars
  BY <1>2, <1>11 DEF tabVars
<1> QED
  BY <1>6, <1>7, <1>8, <1>9, <1>10, <1>11 DEF TabsNext, Rest, TabsStep

(* What closes a tab of the user's, and what is left in its window.               *)
LEMMA SafeStep ==
    ASSUME TabIsolationAssumption, TabsInv, TabsInv', [TabsNext]_tabVars,
           NEW t \in Tabs, Open(t), ~Open(t)', ~UserCloses(t)
    PROVE  /\ t \in UserTabs => \E j \in Jobs : job[j].op = "close" /\ job[j].tab = t
           /\ calm => Total(tab[t].win)' > 0
<1>0. Tidy
  BY DEF Tidy
<1>1. ASSUME NEW s \in Tabs, UserCloses(s) PROVE FALSE
  <2>1. s # t
    BY <1>1
  <2>2. Gone(s)
    BY <1>0, <1>1, TabGoneIs DEF UserCloses
  <2>3. tab'[t] = tab[t]
    BY <2>1, <2>2 DEF Gone
  <2> QED  BY <2>3 DEF Open
<1>2. PICK j \in Jobs : RemoveTabs(j)
  BY <1>0, <1>1, StaysOpen
<1>3. PICK s \in job[j].alive : IF Open(s) THEN TabGone(s) ELSE UNCHANGED <<client, obj, tab, store>>
  BY <1>2 DEF RemoveTabs
<1>4. /\ job[j].pc = "fill" /\ job[j].need = {} /\ UNCHANGED blank /\ JobOK(job[j]) /\ s \in Tabs
  BY <1>0, <1>2, JobIs DEF RemoveTabs, JobRecords
<1>5. TabGone(s) /\ Open(s)
  BY <1>3 DEF Open
<1>6. Gone(s)
  BY <1>0, <1>4, <1>5, TabGoneIs
<1>7. s = t
  BY <1>6 DEF Gone, Open
<1>8. t \in UserTabs => job[j].op = "close" /\ job[j].tab = t
  BY <1>4, <1>7 DEF JobOK, Closing
<1>9. ASSUME calm PROVE Total(tab[t].win)' > 0
  <2>1. PICK w : w = tab[t].win
    OBVIOUS
  <2>2. w \in Wins /\ tab'[t].win = w
    <3>1. tab \in [Tabs -> [st : {"absent", "open", "closed"}, win : Wins, place : {"home", "group"}]]
      BY DEF TabsInv, TypesKept
    <3>2. tab' = [tab EXCEPT ![t].st = "closed", ![t].place = "home"]
      BY <1>5, <1>7 DEF TabGone
    <3>3. tab'[t].win = tab[t].win
      BY <3>1, <3>2
    <3> QED  BY <2>1, <3>1, <3>3
  <2>3. blank[w] = 1 \/ \E a \in OpenTabs \ job[j].alive : tab[a].win = w
    BY <1>4, <1>7, <1>9, <2>1 DEF TabsInv, CalmInv, KeepsWindow
  <2>4. ASSUME NEW a \in OpenTabs \ job[j].alive PROVE a \in OpenTabs' /\ tab'[a] = tab[a]
    BY <1>3, <1>6 DEF Gone, OpenTabs
  <2>5. blank'[w] = 1 \/ \E a \in OpenTabs' : tab'[a].win = w
    BY <1>4, <2>3, <2>4
  <2>6. Cardinality({a \in OpenTabs' : tab'[a].win = w}) + blank'[w] > 0
    BY <2>2, <2>5, WindowStays DEF TabsInv
  <2> QED  BY <2>2, <2>6 DEF Total
<1> QED
  BY <1>8, <1>9

(* A tab of the user's is closed by the user or by an explicit close_tab only, whatever the
   end of sessions overlaps, and undisturbed AutoDOM never empties a window.       *)
THEOREM UserTabsAreSafe == TabsSpec => UserTabSafe
<1>1. TabsInv /\ TabsInv' /\ [TabsNext]_tabVars =>
        [\A t \in Tabs :
           Open(t) /\ ~Open(t)' /\ ~UserCloses(t) =>
             /\ t \in UserTabs => \E j \in Jobs : job[j].op = "close" /\ job[j].tab = t
             /\ calm => Total(tab[t].win)' > 0]_tabVars
  BY SafeStep, TabIsolationAssumption
<1> QED
  BY <1>1, TabsAlways, PTL DEF TabsSpec, UserTabSafe

-----------------------------------------------------------------------------
(* The invariant.                                                          *)

InLoop == {"digest", "act", "paused", "shot"}

RunRecords ==
    [at : Stages, status : {"none", "running"} \cup Outcomes, step : 0 .. Steps,
     cancel : BOOLEAN, paused : BOOLEAN, tab : {"none", "open", "closed"}, late : 0 .. Steps]

\* A run that was told to stop has started one step since at most, and none when
\* the look at its flags is just behind it.
RecordOK(x) ==
    /\ x \in RunRecords
    /\ x.status = "running" <=> x.at \in InLoop
    /\ x.at \in {"idle", "find"} => x.status = "none" /\ x.step = 0 /\ x.late = 0
    /\ x.at \in {"persist", "closing"} => x.status \in Outcomes
    /\ x.at \in InLoop => x.step < Steps
    /\ x.late <= 1 /\ (x.late = 1 => x.cancel \/ x.paused)
    /\ x.at = "digest" => x.late = 0

\* The map has every run in its loop, and none that has not got there.
Tracked(r) ==
    /\ Running(r) => r \in Live
    /\ r \in Live => run[r].at \notin {"idle", "find"}

\* What the batch says of an entry is what its run is at.
ItemOK(i) ==
    /\ run[i].at = "find" => item[i] = "queued"
    /\ run[i].at \in InLoop \cup {"persist", "closing"} => item[i] = "running"
    /\ run[i].at = "over" => item[i] \in Outcomes

\* The entries are taken in order.
TakenInOrder ==
    /\ batch.st = "none" => batch.next = 1
    /\ \A i \in Items : run[i].at = "idle" <=> i >= batch.next
    /\ batch.st # "finished" => \A i \in Items : run[i].at = "idle" => item[i] = "queued"

RunsInv ==
    /\ TypeOK
    /\ \A r \in Runs : RecordOK(run[r]) /\ Tracked(r)
    /\ (\A i \in Items : ItemOK(i)) /\ TakenInOrder
    /\ BatchBound /\ CurrentShown

-----------------------------------------------------------------------------
(* Lemmas about numbers, sequences and counts.                             *)

(* A set of numbers that is not empty has a smallest one.                   *)
LEMMA SmallestOf ==
    ASSUME NEW T, T \subseteq Nat, T # {}
    PROVE  \E x \in T : \A y \in T : x <= y
<1> DEFINE R == {p \in Nat \X Nat : p[1] < p[2]}
<1>1. IsWellFoundedOn(R, Nat)
  BY NatLessThanWellFounded DEF OpToRel
<1>2. \A x, y \in Nat : <<y, x>> \notin R => x <= y
  OBVIOUS
<1> HIDE DEF R
<1>3. PICK x \in T : \A y \in T : ~(<<y, x>> \in R)
  BY <1>1, WFMin
<1> QED  BY <1>2, <1>3

(* What Max returns.                                                       *)
LEMMA MaxOf ==
    ASSUME NEW n \in Nat, NEW S, S \subseteq 1 .. n, S # {}
    PROVE  Max(S) \in S /\ \A j \in S : Max(S) >= j
<1> DEFINE T == {n - i : i \in S}
<1>1. \A i \in S : i \in 1 .. n /\ n - i \in Nat
  OBVIOUS
<1>2. T \subseteq Nat /\ T # {}
  BY <1>1
<1>3. PICK x \in T : \A y \in T : x <= y
  BY <1>2, SmallestOf
<1>4. PICK i \in S : x = n - i
  BY <1>3
<1>5. \A j \in S : i >= j
  <2> TAKE j \in S
  <2>1. x <= n - j
    BY <1>3
  <2> QED  BY <1>1, <1>4, <2>1
<1> QED  BY <1>5 DEF Max

(* What removing one element of a sequence without repetitions leaves.       *)
LEMMA RemoveAtSet ==
    ASSUME NEW S, NEW s \in Seq(S), IsInjective(s), NEW i \in DOMAIN s
    PROVE  /\ RemoveAt(s, i) \in Seq(S) /\ IsInjective(RemoveAt(s, i))
           /\ ToSet(RemoveAt(s, i)) = ToSet(s) \ {s[i]}
<1> DEFINE n == Len(s)
           t == RemoveAt(s, i)
           old(j) == IF j < i THEN j ELSE j + 1
<1>1. n \in Nat /\ DOMAIN s = 1 .. n /\ i \in 1 .. n
  OBVIOUS
<1>2. t \in Seq(S) /\ Len(t) = n - 1 /\ \A j \in 1 .. n - 1 : t[j] = s[old(j)]
  <2> DEFINE l == SubSeq(s, 1, i - 1)
             r == SubSeq(s, i + 1, n)
  <2>1. /\ l \in Seq(S) /\ Len(l) = i - 1
        /\ \A j \in 1 .. i - 1 : l[j] = s[j]
    BY <1>1
  <2>2. /\ r \in Seq(S) /\ Len(r) = n - i
        /\ \A j \in 1 .. n - i : r[j] = s[i + j]
    BY <1>1
  <2>3. t = l \o r
    BY DEF RemoveAt
  <2> HIDE DEF l, r, n
  <2>4. /\ l \o r \in Seq(S) /\ Len(l \o r) = Len(l) + Len(r)
        /\ \A j \in 1 .. Len(l) + Len(r) :
             (l \o r)[j] = IF j <= Len(l) THEN l[j] ELSE r[j - Len(l)]
    BY <2>1, <2>2, ConcatProperties
  <2>5. ASSUME NEW j \in 1 .. n - 1
        PROVE  (l \o r)[j] = s[old(j)]
    <3>1. CASE j < i
      <4>1. j \in 1 .. Len(l) + Len(r) /\ j <= Len(l) /\ j \in 1 .. i - 1
        BY <1>1, <2>1, <2>2, <3>1
      <4> QED  BY <2>1, <2>4, <3>1, <4>1
    <3>2. CASE ~(j < i)
      <4>1. /\ j \in 1 .. Len(l) + Len(r) /\ ~(j <= Len(l))
            /\ j - Len(l) \in 1 .. n - i /\ i + (j - Len(l)) = j + 1
        BY <1>1, <2>1, <2>2, <3>2
      <4>2. (l \o r)[j] = r[j - Len(l)]
        BY <2>4, <4>1
      <4> QED  BY <2>2, <3>2, <4>1, <4>2
    <3> QED  BY <3>1, <3>2
  <2> QED  BY <1>1, <2>1, <2>2, <2>3, <2>4, <2>5
<1> HIDE DEF n, t
<1>3. DOMAIN t = 1 .. n - 1
  BY <1>2
<1>4. \A j \in 1 .. n - 1 : old(j) \in 1 .. n /\ old(j) # i
  BY <1>1
<1>5. \A j, k \in 1 .. n - 1 : old(j) = old(k) => j = k
  BY <1>1
<1>6. \A k \in 1 .. n : k # i => \E j \in 1 .. n - 1 : old(j) = k
  <2> TAKE k \in 1 .. n
  <2> HAVE k # i
  <2> DEFINE j == IF k < i THEN k ELSE k - 1
  <2>1. j \in 1 .. n - 1 /\ old(j) = k
    BY <1>1
  <2> QED  BY <2>1
<1> HIDE DEF old
<1>7. IsInjective(t)
  BY <1>1, <1>2, <1>3, <1>4, <1>5 DEF IsInjective
<1>8. ToSet(t) = ToSet(s) \ {s[i]}
  <2>1. \A j \in 1 .. n - 1 : t[j] \in ToSet(s) \ {s[i]}
    BY <1>1, <1>2, <1>4 DEF IsInjective, ToSet
  <2>2. ASSUME NEW x \in ToSet(s), x # s[i]
        PROVE  x \in ToSet(t)
    <3>1. PICK k \in 1 .. n : x = s[k]
      BY <1>1 DEF ToSet
    <3>2. PICK j \in 1 .. n - 1 : old(j) = k
      BY <1>6, <2>2, <3>1
    <3> QED  BY <1>2, <1>3, <3>1, <3>2 DEF ToSet
  <2> QED  BY <1>3, <2>1, <2>2 DEF ToSet
<1> QED  BY <1>2, <1>7, <1>8 DEF t

(* What a new element adds.                                                *)
LEMMA AppendSet ==
    ASSUME NEW S, NEW s \in Seq(S), IsInjective(s), NEW e \in S, e \notin ToSet(s)
    PROVE  /\ Append(s, e) \in Seq(S) /\ IsInjective(Append(s, e))
           /\ ToSet(Append(s, e)) = ToSet(s) \cup {e}
<1> DEFINE n == Len(s)
           t == Append(s, e)
<1>1. n \in Nat /\ DOMAIN s = 1 .. n
  OBVIOUS
<1>2. /\ t \in Seq(S) /\ DOMAIN t = 1 .. n + 1 /\ t[n + 1] = e
      /\ \A j \in 1 .. n : t[j] = s[j]
  BY AppendProperties
<1> HIDE DEF n, t
<1>3. \A j \in 1 .. n + 1 : j \in 1 .. n \/ j = n + 1
  BY <1>1
<1>4. 1 .. n \subseteq 1 .. n + 1 /\ n + 1 \in 1 .. n + 1
  BY <1>1
<1>5. IsInjective(t)
  BY <1>1, <1>2, <1>3 DEF IsInjective, ToSet
<1>6. ToSet(t) = ToSet(s) \cup {e}
  <2>1. ToSet(t) \subseteq ToSet(s) \cup {e}
    BY <1>1, <1>2, <1>3 DEF ToSet
  <2>2. ToSet(s) \cup {e} \subseteq ToSet(t)
    BY <1>1, <1>2, <1>4 DEF ToSet
  <2> QED  BY <2>1, <2>2
<1> QED  BY <1>2, <1>5, <1>6 DEF t

-----------------------------------------------------------------------------
(* Most steps: runs go on in their loop or leave it.                       *)

\* Run r is as it was, or it was in its loop and is there still or has left it.
GoesOn(r) ==
    \/ run'[r] = run[r]
    \/ Running(r) /\ RecordOK(run'[r]) /\ run'[r].at \in InLoop \cup {"persist"}

SameBatch ==
    /\ runs' = runs /\ current' = current /\ item' = item
    /\ batch' \in [st : {"none", "running", "finished"}, next : 1 .. NItems + 1, cancel : BOOLEAN]
    /\ batch'.st = batch.st /\ batch'.next = batch.next

(* Such a step keeps the invariant.                                         *)
LEMMA GoingOn ==
    ASSUME RunsInv, run' \in [Runs -> RunRecords], \A r \in Runs : GoesOn(r), SameBatch
    PROVE  RunsInv'
<1>1. /\ TypeOK /\ BatchBound /\ CurrentShown /\ TakenInOrder
      /\ \A r \in Runs : RecordOK(run[r]) /\ Tracked(r)
      /\ \A i \in Items : ItemOK(i)
      /\ Items \subseteq Runs
  BY DEF RunsInv, Runs
<1>2. \A r \in Runs :
        /\ RecordOK(run'[r]) /\ run[r] \in RunRecords /\ run'[r] \in RunRecords
        /\ Running(r)' => Running(r)
        /\ Running(r)' <=> run'[r].at \in InLoop
        /\ run'[r] = run[r] \/ (run[r].at \in InLoop /\ run'[r].at \in InLoop \cup {"persist"})
  <2> TAKE r \in Runs
  <2>1. RecordOK(run[r]) /\ GoesOn(r) /\ run'[r] \in RunRecords
    BY <1>1
  <2> QED  BY <2>1 DEF GoesOn, RecordOK, Running, InLoop
<1>3. \A r \in Runs : /\ Busy(r)' <=> Busy(r)
                      /\ run'[r].at = "idle" <=> run[r].at = "idle"
                      /\ run'[r].at = "find" <=> run[r].at = "find"
                      /\ run'[r].at = "over" <=> run[r].at = "over"
  BY <1>2 DEF Busy, InLoop
<1>4. TypeOK'
  <2>1. \A r \in Runs : Running(r)' <=> run'[r].at \in {"digest", "act", "paused", "shot"}
    BY <1>2 DEF InLoop
  <2> QED  BY <1>1, <2>1 DEF TypeOK, SameBatch, RunRecords
<1>5. \A r \in Runs : Tracked(r)'
  BY <1>1, <1>2, <1>3 DEF Tracked, Live, SameBatch
<1>6. \A i \in Items : ItemOK(i)'
  <2> TAKE i \in Items
  <2>1. ItemOK(i) /\ i \in Runs
    BY <1>1
  <2>2. run'[i].at = run[i].at \/ (run[i].at \in InLoop /\ run'[i].at \in InLoop \cup {"persist"})
    BY <1>2, <2>1
  <2> QED  BY <2>1, <2>2 DEF ItemOK, SameBatch, InLoop
<1>7. TakenInOrder'
  BY <1>1, <1>3 DEF TakenInOrder, SameBatch
<1>8. BatchBound'
  <2>1. {i \in Items : Busy(i)}' = {i \in Items : Busy(i)}
    BY <1>1, <1>3
  <2> QED  BY <1>1, <1>3, <2>1 DEF BatchBound, SameBatch
<1>9. CurrentShown'
  <2> SUFFICES ASSUME NEW r \in Runs, Running(r)'
               PROVE  current' # NoRun /\ (Running(current)' \/ run'[current].at = "persist")
    BY DEF CurrentShown, SameBatch
  <2>1. Running(r) /\ current \in Runs \cup {NoRun}
    BY <1>1, <1>2 DEF TypeOK
  <2>2. current \in Runs /\ (Running(current) \/ run[current].at = "persist")
    BY <1>1, <2>1 DEF CurrentShown
  <2>3. Running(current) => run[current].at \in InLoop
    BY <1>1, <2>2 DEF RecordOK, Running
  <2>4. run'[current] = run[current] \/ run'[current].at \in InLoop \cup {"persist"}
    BY <1>2, <2>2
  <2> QED  BY <1>2, <2>2, <2>3, <2>4, WorkflowRunsAssumption DEF SameBatch
<1> QED  BY <1>2, <1>4, <1>5, <1>6, <1>7, <1>8, <1>9 DEF RunsInv


(* A run in its loop goes on as y, and nothing else changes.                *)
LEMMA ContinueKeeps ==
    ASSUME RunsInv, NEW r \in Runs, Running(r), NEW y, RecordOK(y),
           y.at \in InLoop \cup {"persist"},
           run' = [run EXCEPT ![r] = y], UNCHANGED <<runs, current, item, batch>>
    PROVE  RunsInv'
<1>1. run \in [Runs -> RunRecords] /\ y \in RunRecords
  BY DEF RunsInv, TypeOK, RunRecords, RecordOK
<1>2. run' \in [Runs -> RunRecords] /\ \A q \in Runs : GoesOn(q)
  BY <1>1 DEF GoesOn
<1>3. SameBatch
  BY DEF SameBatch, RunsInv, TypeOK
<1> QED  BY <1>2, <1>3, GoingOn

(* How a run leaves its loop, and how it starts a step.                     *)
LEMMA StepDoes ==
    ASSUME NEW x, RecordOK(x), x.at \in InLoop
    PROVE  /\ \A s \in Outcomes : RecordOK(Finish(x, s)) /\ Finish(x, s).at = "persist"
           /\ x.late = 0 => RecordOK(Act(x)) /\ Act(x).at = "act"
           /\ ~x.paused \/ x.cancel \/ x.tab = "closed" =>
                \A carried \in BOOLEAN :
                  /\ RecordOK(Step(x, carried))
                  /\ Step(x, carried).at \in InLoop \cup {"persist"}
<1> DEFINE Record == [at : Stages, status : {"none", "running"} \cup Outcomes, step : 0 .. Steps,
                      cancel : BOOLEAN, paused : BOOLEAN, tab : {"none", "open", "closed"},
                      late : 0 .. Steps]
<1>1. x \in Record /\ 0 \in 0 .. Steps /\ 1 \in 0 .. Steps /\ Steps \in Nat
  BY WorkflowRunsAssumption DEF RecordOK, RunRecords
<1>2. ASSUME NEW s \in Outcomes
      PROVE  RecordOK(Finish(x, s)) /\ Finish(x, s).at = "persist"
  <2>1. Finish(x, s) \in RunRecords
    BY <1>1 DEF RunRecords, Finish, Stages
  <2>2. /\ Finish(x, s).at = "persist" /\ Finish(x, s).status = s /\ Finish(x, s).late = 0
    BY <1>1 DEF Finish
  <2> QED  BY <2>1, <2>2 DEF RecordOK, InLoop, Outcomes
<1>3. ASSUME x.late = 0
      PROVE  RecordOK(Act(x)) /\ Act(x).at = "act"
  <2>1. Act(x) \in RunRecords
    <3>1. CASE x.cancel \/ x.paused
      <4>1. Act(x) = [x EXCEPT !.at = "act", !.late = 1]
        <5>1. x.late + 1 = 1
          BY <1>3
        <5> QED  BY <3>1, <5>1 DEF Act
      <4> QED  BY <1>1, <4>1 DEF RunRecords, Stages
    <3>2. CASE ~(x.cancel \/ x.paused)
      <4>1. Act(x) = [x EXCEPT !.at = "act", !.late = x.late]
        BY <3>2 DEF Act
      <4> QED  BY <1>1, <4>1 DEF RunRecords, Stages
    <3> QED  BY <3>1, <3>2
  <2>2. /\ Act(x).at = "act" /\ Act(x).status = x.status /\ Act(x).step = x.step
        /\ Act(x).cancel = x.cancel /\ Act(x).paused = x.paused
        /\ Act(x).late = IF x.cancel \/ x.paused THEN 1 ELSE 0
    BY <1>1, <1>3 DEF Act
  <2> QED  BY <2>1, <2>2 DEF RecordOK, InLoop
<1>4. ASSUME ~x.paused \/ x.cancel \/ x.tab = "closed", NEW carried \in BOOLEAN
      PROVE  RecordOK(Step(x, carried)) /\ Step(x, carried).at \in InLoop \cup {"persist"}
  <2>1. CASE x.cancel \/ x.tab = "closed"
    BY <1>2, <2>1 DEF Step, Outcomes
  <2>2. CASE ~x.cancel /\ x.tab # "closed"
    <3>1. x.late = 0
      BY <1>1, <1>4, <2>2 DEF RecordOK
    <3>2. CASE carried
      BY <1>3, <2>2, <3>1, <3>2 DEF Step, InLoop
    <3>3. CASE ~carried
      <4>1. Step(x, carried) = [x EXCEPT !.at = "digest"]
        BY <2>2, <3>3 DEF Step
      <4> QED  BY <1>1, <3>1, <4>1 DEF RecordOK, RunRecords, InLoop, Stages, Outcomes
    <3> QED  BY <3>2, <3>3
  <2> QED  BY <2>1, <2>2
<1> QED  BY <1>2, <1>3, <1>4

(* The loop goes on after a step, or ends.                                 *)
LEMMA TopDoes ==
    ASSUME NEW x, RecordOK(x), x.at = "act", NEW carried \in BOOLEAN,
           NEW z, z = [x EXCEPT !.step = @ + 1]
    PROVE  RecordOK(Top(z, carried)) /\ Top(z, carried).at \in InLoop \cup {"persist"}
<1> DEFINE y == Top(z, carried)
<1>1. x \in RunRecords /\ x.step < Steps /\ Steps \in Nat
  BY WorkflowRunsAssumption DEF RecordOK, InLoop
<1>2. /\ z \in RunRecords /\ z.at = "act" /\ z.status = "running" /\ z.late <= 1
      /\ z.late = 1 => z.cancel \/ z.paused
  BY <1>1 DEF RecordOK, RunRecords, InLoop
<1>3. CASE z.step = Steps
  <2>1. y = Finish(z, "passed")
    BY <1>3 DEF Top
  <2>2. y \in RunRecords
    <3>1. 0 \in 0 .. Steps
      BY <1>1
    <3> QED  BY <1>2, <2>1, <3>1 DEF RunRecords, Finish, Stages, Outcomes
  <2>3. y.at = "persist" /\ y.status = "passed" /\ y.late = 0
    BY <1>2, <2>1 DEF RunRecords, Finish
  <2> QED  BY <2>2, <2>3 DEF RecordOK, InLoop, Outcomes
<1>4. CASE z.step # Steps
  <2>1. z.step < Steps
    BY <1>2, <1>4, WorkflowRunsAssumption DEF RunRecords
  <2>2. RecordOK(z) /\ z.at \in InLoop
    BY <1>2, <2>1 DEF RecordOK, InLoop
  <2>3. CASE z.paused /\ ~z.cancel
    <3>1. y = [z EXCEPT !.at = "paused"]
      BY <1>4, <2>3 DEF Top
    <3> QED  BY <1>2, <2>1, <2>2, <3>1 DEF RecordOK, RunRecords, InLoop, Stages
  <2>4. CASE ~(z.paused /\ ~z.cancel)
    <3>1. y = Step(z, carried)
      BY <1>4, <2>4 DEF Top
    <3>2. ~z.paused \/ z.cancel
      BY <1>2, <2>4 DEF RunRecords
    <3> QED  BY <2>2, <3>1, <3>2, StepDoes
  <2> QED  BY <2>3, <2>4
<1> QED  BY <1>3, <1>4

(* The steps of the loop.                                                  *)
LEMMA LoopKeeps ==
    ASSUME RunsInv, NEW r \in Runs,
           Digested(r) \/ StepDone(r) \/ StepFails(r) \/ Shot(r) \/ Wake(r)
    PROVE  RunsInv'
<1>1. RecordOK(run[r]) /\ run[r] \in RunRecords
  BY DEF RunsInv, RecordOK
<1>2. run[r].at \in InLoop => Running(r)
  BY <1>1 DEF RecordOK, Running
<1>3. CASE Digested(r)
  <2>1. run[r].at = "digest" /\ run[r].late = 0 /\ "digest" \in InLoop /\ "act" \in InLoop
    BY <1>1, <1>3 DEF Digested, RecordOK, InLoop
  <2>2. RecordOK(Act(run[r])) /\ Act(run[r]).at = "act"
    BY <1>1, <2>1, StepDoes
  <2> QED  BY <1>2, <1>3, <2>1, <2>2, ContinueKeeps DEF Digested, Continue
<1>4. CASE StepDone(r)
  <2>1. PICK carried \in BOOLEAN : Continue(r, Top([run[r] EXCEPT !.step = @ + 1], carried))
    BY <1>4 DEF StepDone
  <2>2. run[r].at = "act" /\ "act" \in InLoop
    BY <1>4 DEF StepDone, InLoop
  <2> QED  BY <1>1, <1>2, <2>1, <2>2, TopDoes, ContinueKeeps DEF Continue
<1>5. CASE StepFails(r)
  <2>1. run[r].at = "act" /\ "act" \in InLoop
    BY <1>5 DEF StepFails, InLoop
  <2>2. RecordOK([run[r] EXCEPT !.at = "shot"]) /\ [run[r] EXCEPT !.at = "shot"].at \in InLoop
    BY <1>1, <2>1 DEF RecordOK, RunRecords, InLoop, Stages
  <2> QED  BY <1>2, <1>5, <2>1, <2>2, ContinueKeeps DEF StepFails, Continue
<1>6. CASE Shot(r)
  <2>1. run[r].at \in InLoop /\ "failed" \in Outcomes
    BY <1>6 DEF Shot, InLoop, Outcomes
  <2>2. RecordOK(Finish(run[r], "failed")) /\ Finish(run[r], "failed").at = "persist"
    BY <1>1, <2>1, StepDoes
  <2> QED  BY <1>2, <1>6, <2>1, <2>2, ContinueKeeps DEF Shot, Continue
<1>7. CASE Wake(r)
  <2>1. run[r].at \in InLoop /\ (~run[r].paused \/ run[r].cancel \/ run[r].tab = "closed")
    BY <1>7 DEF Wake, Wakes, InLoop
  <2>2. RecordOK(Step(run[r], FALSE)) /\ Step(run[r], FALSE).at \in InLoop \cup {"persist"}
    BY <1>1, <2>1, StepDoes
  <2> QED  BY <1>2, <1>7, <2>1, <2>2, ContinueKeeps DEF Wake, Continue
<1> QED  BY <1>3, <1>4, <1>5, <1>6, <1>7


-----------------------------------------------------------------------------
(* The user, the agent and the browser.                                    *)

(* What a run in its loop is told.                                         *)
LEMMA ToldOK ==
    ASSUME NEW x, RecordOK(x), x.at \in InLoop
    PROVE  \A y \in {Cancelled(x), Paused(x), Resumed(x), [x EXCEPT !.tab = "closed"]} :
             RecordOK(y) /\ y.at \in InLoop
<1>1. x \in RunRecords /\ 0 \in 0 .. Steps /\ x.late \in 0 .. Steps
  BY WorkflowRunsAssumption DEF RecordOK, RunRecords
<1>2. RecordOK(Cancelled(x)) /\ Cancelled(x).at = x.at
  BY <1>1 DEF RecordOK, RunRecords, Cancelled
<1>3. RecordOK(Paused(x)) /\ Paused(x).at = x.at
  BY <1>1 DEF RecordOK, RunRecords, Paused
<1>4. RecordOK(Resumed(x)) /\ Resumed(x).at = x.at
  <2>1. CASE x.cancel
    <3>1. Resumed(x) = [x EXCEPT !.paused = FALSE, !.late = x.late]
      BY <2>1 DEF Resumed
    <3> QED  BY <1>1, <2>1, <3>1 DEF RecordOK, RunRecords
  <2>2. CASE ~x.cancel
    <3>1. Resumed(x) = [x EXCEPT !.paused = FALSE, !.late = 0]
      BY <2>2 DEF Resumed
    <3>2. Resumed(x) \in RunRecords
      BY <1>1, <3>1 DEF RunRecords
    <3>3. /\ Resumed(x).at = x.at /\ Resumed(x).status = x.status
          /\ Resumed(x).step = x.step /\ Resumed(x).late = 0
      BY <1>1, <3>1 DEF RunRecords
    <3> QED  BY <3>2, <3>3 DEF RecordOK
  <2> QED  BY <2>1, <2>2
<1>5. RecordOK([x EXCEPT !.tab = "closed"]) /\ [x EXCEPT !.tab = "closed"].at = x.at
  BY <1>1 DEF RecordOK, RunRecords
<1> QED  BY <1>2, <1>3, <1>4, <1>5

(* setRunState.                                                            *)
LEMMA SetKeeps ==
    ASSUME RunsInv, NEW S,
           SetRunState(S, Cancelled) \/ SetRunState(S, Paused) \/ SetRunState(S, Resumed),
           batch' = batch \/ batch' = [batch EXCEPT !.cancel = TRUE]
    PROVE  RunsInv'
<1>1. /\ run \in [Runs -> RunRecords]
      /\ \A r \in Runs : RecordOK(run[r]) /\ (Running(r) => run[r].at \in InLoop)
  BY DEF RunsInv, TypeOK, RunRecords, RecordOK, Running
<1>2. /\ DOMAIN run' = Runs /\ run' = [r \in Runs |-> run'[r]]
      /\ \A r \in Runs :
           \/ run'[r] = run[r]
           \/ Running(r) /\ run'[r] \in {Cancelled(run[r]), Paused(run[r]), Resumed(run[r])}
  BY DEF SetRunState
<1>3. \A r \in Runs : GoesOn(r) /\ run'[r] \in RunRecords
  <2> TAKE r \in Runs
  <2>1. Running(r) => \A y \in {Cancelled(run[r]), Paused(run[r]), Resumed(run[r])} :
                        RecordOK(y) /\ y.at \in InLoop
    BY <1>1, ToldOK
  <2> QED  BY <1>1, <1>2, <2>1 DEF GoesOn, RecordOK
<1>4. run' \in [Runs -> RunRecords]
  BY <1>2, <1>3
<1>5. runs' = runs /\ current' = current /\ item' = item
  BY DEF SetRunState
<1>6. SameBatch
  BY <1>5 DEF SameBatch, RunsInv, TypeOK
<1> QED  BY <1>3, <1>4, <1>6, GoingOn

(* run_cancel, run_pause, run_resume and the tab of a run that closes.        *)
LEMMA ToldKeeps ==
    ASSUME RunsInv,
           \/ \E S \in Targets : Cancel(S) \/ Pause(S) \/ Resume(S)
           \/ CancelBatch \/ PauseBatch \/ ResumeBatch
           \/ \E r \in Runs : TabCloses(r)
    PROVE  RunsInv'
<1>1. CASE \E S \in Targets : Cancel(S) \/ Pause(S) \/ Resume(S)
  BY <1>1, SetKeeps DEF Cancel, Pause, Resume
<1>2. CASE CancelBatch \/ PauseBatch \/ ResumeBatch
  BY <1>2, SetKeeps DEF CancelBatch, PauseBatch, ResumeBatch, Pause, Resume
<1>3. ASSUME NEW r \in Runs, TabCloses(r)
      PROVE  RunsInv'
  <2>1. RecordOK(run[r]) /\ run[r].at \in InLoop /\ run \in [Runs -> RunRecords] /\ Running(r)
    BY <1>3 DEF RunsInv, TypeOK, RunRecords, RecordOK, TabCloses, Running
  <2> DEFINE y == [run[r] EXCEPT !.tab = "closed"]
  <2>2. RecordOK(y) /\ y.at \in InLoop
    BY <2>1, ToldOK
  <2>3. run' = [run EXCEPT ![r] = y] /\ UNCHANGED <<runs, current, item, batch>>
    BY <1>3 DEF TabCloses
  <2> HIDE DEF y
  <2> QED  BY <2>1, <2>2, <2>3, ContinueKeeps
<1> QED  BY <1>1, <1>2, <1>3


-----------------------------------------------------------------------------
(* The ends and the beginnings of a run.                                   *)

(* Another run that goes on, if there is one.                               *)
LEMMA NextIs ==
    ASSUME TypeOK
    PROVE  /\ NextCurrent(runs) \in Runs \cup {NoRun}
           /\ (\E q \in Live : Running(q)) => NextCurrent(runs) \in Runs /\ Running(NextCurrent(runs))
<1> DEFINE still == {i \in DOMAIN runs : Running(runs[i])}
<1>1. runs \in Seq(Runs) /\ DOMAIN runs = 1 .. Len(runs) /\ Len(runs) \in Nat
  BY DEF TypeOK
<1>2. still \subseteq 1 .. Len(runs) /\ \A i \in still : runs[i] \in Runs /\ Running(runs[i])
  BY <1>1
<1>3. NextCurrent(runs) = IF still = {} THEN NoRun ELSE runs[Max(still)]
  BY DEF NextCurrent
<1>4. (\E q \in Live : Running(q)) => still # {}
  BY DEF Live, ToSet
<1> HIDE DEF still
<1>5. still # {} => Max(still) \in still
  BY <1>1, <1>2, MaxOf
<1> QED  BY <1>2, <1>3, <1>4, <1>5

(* One run changes.                                                        *)
LEMMA OneRun ==
    ASSUME RunsInv, NEW r \in Runs, NEW y, RecordOK(y), run' = [run EXCEPT ![r] = y]
    PROVE  /\ run' \in [Runs -> RunRecords]
           /\ run'[r] = y /\ \A q \in Runs \ {r} : run'[q] = run[q]
           /\ \A q \in Runs : RecordOK(run'[q]) /\ RecordOK(run[q])
           /\ \A q \in Runs : Running(q) <=> run[q].at \in InLoop
           /\ \A q \in Runs : Running(q)' <=> run'[q].at \in InLoop
<1>1. /\ run \in [Runs -> RunRecords] /\ y \in RunRecords
      /\ \A q \in Runs : RecordOK(run[q])
  BY DEF RunsInv, TypeOK, RunRecords, RecordOK
<1>2. /\ run' \in [Runs -> RunRecords]
      /\ run'[r] = y /\ \A q \in Runs \ {r} : run'[q] = run[q]
  BY <1>1
<1>3. \A q \in Runs : RecordOK(run'[q])
  BY <1>1, <1>2
<1> QED  BY <1>1, <1>2, <1>3 DEF RecordOK, Running

(* The report is stored: retireRun.                                        *)
LEMMA PersistedKeeps ==
    ASSUME RunsInv, NEW r \in Runs, Persisted(r)
    PROVE  RunsInv'
<1> DEFINE y == [run[r] EXCEPT !.at = "closing"]
<1>1. /\ run[r].at = "persist" /\ run' = [run EXCEPT ![r] = y]
      /\ runs' = runs /\ item' = item /\ batch' = batch
      /\ current' = IF current = r THEN NextCurrent(runs) ELSE current
  BY DEF Persisted
<1>2. /\ TypeOK /\ BatchBound /\ CurrentShown /\ TakenInOrder
      /\ \A q \in Runs : RecordOK(run[q]) /\ Tracked(q)
      /\ \A i \in Items : ItemOK(i)
      /\ Items \subseteq Runs
  BY DEF RunsInv, Runs
<1>3. RecordOK(y) /\ y.at = "closing"
  <2>1. RecordOK(run[r]) /\ run[r] \in RunRecords /\ "persist" \notin InLoop
    BY <1>2 DEF RecordOK, InLoop
  <2> QED  BY <1>1, <2>1 DEF RecordOK, RunRecords, Stages, InLoop
<1> HIDE DEF y
<1>4. /\ run' \in [Runs -> RunRecords]
      /\ run'[r] = y /\ \A q \in Runs \ {r} : run'[q] = run[q]
      /\ \A q \in Runs : RecordOK(run'[q]) /\ RecordOK(run[q])
      /\ \A q \in Runs : Running(q) <=> run[q].at \in InLoop
      /\ \A q \in Runs : Running(q)' <=> run'[q].at \in InLoop
  BY <1>1, <1>3, OneRun
<1>5. \A q \in Runs : /\ Running(q)' <=> Running(q)
                      /\ Busy(q)' <=> Busy(q)
                      /\ \A at \in {"idle", "find", "over"} : run'[q].at = at <=> run[q].at = at
  BY <1>1, <1>3, <1>4 DEF InLoop, Busy
<1>6. current' \in Runs \cup {NoRun}
  BY <1>1, <1>2, NextIs DEF TypeOK
<1>7. TypeOK'
  <2>1. \A q \in Runs : Running(q)' <=> run'[q].at \in {"digest", "act", "paused", "shot"}
    BY <1>4 DEF InLoop
  <2> QED  BY <1>1, <1>2, <1>4, <1>6, <2>1 DEF TypeOK, RunRecords
<1>8. \A q \in Runs : Tracked(q)'
  BY <1>1, <1>2, <1>5 DEF Tracked, Live
<1>9. \A i \in Items : ItemOK(i)'
  BY <1>1, <1>2, <1>3, <1>4, <1>5 DEF ItemOK, InLoop
<1>10. TakenInOrder' /\ BatchBound'
  <2>1. {i \in Items : Busy(i)}' = {i \in Items : Busy(i)}
    BY <1>2, <1>5
  <2> QED  BY <1>1, <1>2, <1>5, <2>1 DEF TakenInOrder, BatchBound
<1>11. CurrentShown'
  <2> SUFFICES ASSUME NEW q \in Runs, Running(q)'
               PROVE  current' \in Runs /\ (Running(current)' \/ (run[current].at = "persist")')
    BY WorkflowRunsAssumption DEF CurrentShown
  <2>1. Running(q) /\ q \in Live
    BY <1>2, <1>5 DEF Tracked
  <2>2. CASE current = r
    <3>1. NextCurrent(runs) \in Runs /\ Running(NextCurrent(runs))
      BY <1>2, <2>1, NextIs
    <3>2. current' = NextCurrent(runs)
      BY <1>1, <2>2
    <3> QED  BY <1>4, <1>5, <3>1, <3>2 DEF Running
  <2>3. CASE current # r
    <3>1. current' = current /\ current \in Runs /\ (Running(current) \/ run[current].at = "persist")
      BY <1>1, <1>2, <2>1, <2>3 DEF CurrentShown, TypeOK
    <3> QED  BY <1>4, <2>3, <3>1 DEF Running
  <2> QED  BY <2>2, <2>3
<1> QED  BY <1>4, <1>7, <1>8, <1>9, <1>10, <1>11 DEF RunsInv


(* A run ends, at its end or before it has begun: y, with what is common to a *)
(* run by itself and to an entry of the batch.                              *)
Ends(r, y) ==
    /\ run[r].at \in {"find", "closing"} /\ RecordOK(y) /\ y.at = "over"
    /\ UNCHANGED <<runs, current>>

(* The steps in which one run ends and another may begin: what is true of      *)
(* every run then.                                                         *)
LEMMA EndsTracked ==
    ASSUME RunsInv, NEW r \in Runs, NEW y, Ends(r, y),
           run' \in [Runs -> RunRecords], \A q \in Runs : RecordOK(run'[q]),
           run'[r].at = "over",
           \A q \in Runs \ {r} :
             run'[q] = run[q] \/ (run[q].at = "idle" /\ run'[q].at = "find")
    PROVE  /\ \A q \in Runs : Tracked(q)'
           /\ \A q \in Runs : Running(q)' <=> run'[q].at \in InLoop
           /\ \A q \in Runs : (Running(q) \/ run[q].at = "persist") => run'[q] = run[q]
           /\ CurrentShown'
<1>1. /\ CurrentShown /\ current \in Runs \cup {NoRun}
      /\ \A q \in Runs : RecordOK(run[q]) /\ Tracked(q)
      /\ runs' = runs /\ current' = current /\ run[r].at \in {"find", "closing"}
  BY DEF RunsInv, TypeOK, Ends
<1>2. \A q \in Runs : /\ Running(q)' <=> run'[q].at \in InLoop
                      /\ Running(q) <=> run[q].at \in InLoop
  BY <1>1 DEF Running, RecordOK
<1>3. \A q \in Runs : (Running(q) \/ run[q].at = "persist") => run'[q] = run[q]
  BY <1>1, <1>2 DEF InLoop
<1>4. \A q \in Runs : Running(q)' => Running(q)
  BY <1>2 DEF InLoop
<1>5. \A q \in Runs : Tracked(q)'
  <2> TAKE q \in Runs
  <2>1. run[q].at \notin {"idle", "find"} => run'[q].at \notin {"idle", "find"}
    <3>1. CASE q = r
      BY <3>1
    <3>2. CASE q # r
      BY <3>2
    <3> QED  BY <3>1, <3>2
  <2> QED  BY <1>1, <1>4, <2>1 DEF Tracked, Live
<1>6. CurrentShown'
  <2> SUFFICES ASSUME NEW q \in Runs, Running(q)'
               PROVE  current' \in Runs /\ (Running(current)' \/ (run[current].at = "persist")')
    BY WorkflowRunsAssumption DEF CurrentShown
  <2>1. current \in Runs /\ (Running(current) \/ run[current].at = "persist")
    BY <1>1, <1>4 DEF CurrentShown
  <2> QED  BY <1>1, <1>3, <2>1 DEF Running
<1> QED  BY <1>2, <1>3, <1>5, <1>6

(* A run by itself ends.                                                   *)
LEMMA SoloEnds ==
    ASSUME RunsInv, NEW r \in Runs, r \notin Items, NEW y, Ends(r, y),
           run' = [run EXCEPT ![r] = y], UNCHANGED <<item, batch>>
    PROVE  RunsInv'
<1>1. /\ TypeOK /\ BatchBound /\ TakenInOrder /\ RecordOK(y) /\ y.at = "over"
      /\ \A i \in Items : ItemOK(i)
      /\ runs' = runs /\ current' = current
  BY DEF RunsInv, Ends
<1>2. /\ run' \in [Runs -> RunRecords]
      /\ run'[r] = y /\ \A q \in Runs \ {r} : run'[q] = run[q]
      /\ \A q \in Runs : RecordOK(run'[q])
  BY <1>1, OneRun
<1>3. /\ \A q \in Runs : Tracked(q)'
      /\ \A q \in Runs : Running(q)' <=> run'[q].at \in InLoop
      /\ CurrentShown'
  BY <1>1, <1>2, EndsTracked
<1>4. \A i \in Items : run'[i] = run[i]
  BY <1>2 DEF Runs
<1>5. TypeOK'
  <2>1. \A q \in Runs : Running(q)' <=> run'[q].at \in {"digest", "act", "paused", "shot"}
    BY <1>3 DEF InLoop
  <2> QED  BY <1>1, <1>2, <2>1 DEF TypeOK, RunRecords
<1>6. (\A i \in Items : ItemOK(i)') /\ TakenInOrder'
  BY <1>1, <1>4 DEF ItemOK, TakenInOrder
<1>7. BatchBound'
  <2>1. {i \in Items : Busy(i)}' = {i \in Items : Busy(i)}
    BY <1>4 DEF Busy
  <2> QED  BY <1>1, <1>4, <2>1 DEF BatchBound, Busy
<1> QED  BY <1>2, <1>3, <1>5, <1>6, <1>7 DEF RunsInv

(* An entry of the batch ends, and its worker takes the next one or not.      *)
LEMMA ItemEnds ==
    ASSUME RunsInv, NEW r \in Items, NEW y, Ends(r, y), NEW o \in Outcomes,
           WorkerGoesOn([run EXCEPT ![r] = y], [item EXCEPT ![r] = o])
    PROVE  RunsInv'
<1> DEFINE f == [run EXCEPT ![r] = y]
           g == [item EXCEPT ![r] = o]
           n == batch.next
           busy == {i \in Items : Busy(i)}
<1>1. /\ TypeOK /\ BatchBound /\ TakenInOrder /\ RecordOK(y) /\ y.at = "over"
      /\ (\A i \in Items : ItemOK(i)) /\ (\A q \in Runs : RecordOK(run[q]))
      /\ Items \subseteq Runs /\ r \in Runs
      /\ runs' = runs /\ current' = current /\ run[r].at \in {"find", "closing"}
  BY DEF RunsInv, Ends, Runs
<1>2. /\ run \in [Runs -> RunRecords] /\ y \in RunRecords /\ n \in Nat /\ NItems \in Nat
      /\ item \in [Items -> {"queued", "running"} \cup Outcomes]
  BY <1>1, WorkflowRunsAssumption DEF TypeOK, RunRecords, RecordOK
<1>3. /\ f \in [Runs -> RunRecords] /\ f[r] = y /\ \A q \in Runs \ {r} : f[q] = run[q]
      /\ \A q \in Runs : RecordOK(f[q])
  BY <1>1, <1>2
<1>4. /\ g \in [Items -> {"queued", "running"} \cup Outcomes] /\ g[r] = o
      /\ \A i \in Items \ {r} : g[i] = item[i]
  BY <1>2
<1>5. busy \subseteq Items /\ IsFiniteSet(busy) /\ Cardinality(busy) \in Nat /\ r \in busy
  <2>1. IsFiniteSet(Items)
    BY FS_Interval, WorkflowRunsAssumption DEF Items
  <2> QED  BY <1>1, <2>1, FS_Subset, FS_CardinalityType DEF Busy
<1>6. batch.st = "running" /\ r < n
  <2>1. batch.st # "finished"
    BY <1>1 DEF BatchBound, Busy
  <2>2. ~(r >= n)
    BY <1>1 DEF TakenInOrder
  <2>3. r \in Nat \ {0}
    BY DEF Items
  <2>4. batch.st # "none"
    BY <1>1, <2>2, <2>3 DEF TakenInOrder
  <2> QED  BY <1>1, <1>2, <2>1, <2>2, <2>3, <2>4 DEF TypeOK
<1>7. CASE Takes(batch)
  <2>1. /\ run' = [f EXCEPT ![n].at = "find"]
        /\ batch' = [batch EXCEPT !.next = n + 1] /\ item' = g
        /\ n <= NItems
    BY <1>7 DEF WorkerGoesOn, Takes
  <2>2. n \in Items /\ n # r /\ run[n].at = "idle" /\ item[n] = "queued" /\ n \in Runs
    <3>1. n \in Items
      BY <1>2, <1>6, <2>1 DEF Items
    <3> QED  BY <1>1, <1>2, <1>6, <3>1 DEF TakenInOrder
  <2> DEFINE z == [run[n] EXCEPT !.at = "find"]
  <2>3. RecordOK(z) /\ z.at = "find"
    <3>1. RecordOK(run[n]) /\ run[n] \in RunRecords
      BY <1>1, <1>2, <2>2
    <3> QED  BY <2>2, <3>1 DEF RecordOK, RunRecords, Stages, InLoop
  <2>4. f[n] = run[n] /\ run' = [f EXCEPT ![n] = z]
    BY <1>3, <2>1, <2>2
  <2> HIDE DEF f, g, n, z, busy
  <2>5. /\ run' \in [Runs -> RunRecords] /\ run'[r] = y /\ run'[n] = z
        /\ \A q \in Runs \ {r, n} : run'[q] = run[q]
        /\ \A q \in Runs : RecordOK(run'[q])
    <3>1. z \in RunRecords
      BY <2>3 DEF RecordOK
    <3> QED  BY <1>1, <1>3, <2>2, <2>3, <2>4, <3>1
  <2>6. \A q \in Runs \ {r} : run'[q] = run[q] \/ (run[q].at = "idle" /\ run'[q].at = "find")
    BY <2>2, <2>3, <2>5
  <2>7. /\ \A q \in Runs : Tracked(q)'
        /\ \A q \in Runs : Running(q)' <=> run'[q].at \in InLoop
        /\ CurrentShown'
    BY <1>1, <2>5, <2>6, EndsTracked
  <2>8. /\ batch' \in [st : {"none", "running", "finished"}, next : 1 .. NItems + 1, cancel : BOOLEAN]
        /\ batch'.st = "running" /\ batch'.next = n + 1
    <3>1. n + 1 \in 1 .. NItems + 1
      BY <1>2, <2>1
    <3>2. batch \in [st : {"none", "running", "finished"}, next : 1 .. NItems + 1, cancel : BOOLEAN]
      BY <1>1 DEF TypeOK
    <3> QED  BY <1>6, <2>1, <3>1, <3>2
  <2>9. TypeOK'
    <3>1. \A q \in Runs : Running(q)' <=> run'[q].at \in {"digest", "act", "paused", "shot"}
      BY <2>7 DEF InLoop
    <3> QED  BY <1>1, <1>4, <2>1, <2>5, <2>8, <3>1 DEF TypeOK, RunRecords
  <2>10. \A i \in Items : ItemOK(i)'
    <3> TAKE i \in Items
    <3>1. CASE i = r
      BY <1>1, <1>4, <2>1, <2>5, <3>1 DEF ItemOK, InLoop
    <3>2. CASE i = n
      BY <1>4, <2>1, <2>2, <2>3, <2>5, <3>2 DEF ItemOK, InLoop
    <3>3. CASE i # r /\ i # n
      BY <1>1, <1>4, <2>1, <2>5, <3>3 DEF ItemOK
    <3> QED  BY <3>1, <3>2, <3>3
  <2>11. TakenInOrder'
    <3>1. ASSUME NEW i \in Items
          PROVE  (run'[i].at = "idle" <=> i >= n + 1) /\ (run'[i].at = "idle" => item'[i] = "queued")
      <4>1. i \in Nat
        BY DEF Items
      <4>2. CASE i = r
        BY <1>1, <1>2, <1>6, <2>5, <4>1, <4>2
      <4>3. CASE i = n
        BY <1>2, <2>3, <2>5, <4>3
      <4>4. CASE i # r /\ i # n
        <5>1. run'[i] = run[i] /\ item'[i] = item[i] /\ (i >= n <=> i >= n + 1)
          BY <1>1, <1>2, <1>4, <2>1, <2>5, <4>1, <4>4
        <5> QED  BY <1>1, <1>6, <5>1 DEF TakenInOrder, n
      <4> QED  BY <4>2, <4>3, <4>4
    <3> QED  BY <2>8, <3>1 DEF TakenInOrder
  <2>12. BatchBound'
    <3>1. busy' = (busy \ {r}) \cup {n}
      BY <1>1, <2>2, <2>3, <2>5 DEF busy, Busy
    <3>2. n \notin busy
      BY <2>2 DEF busy, Busy
    <3>3. Cardinality(busy') = Cardinality(busy)
      <4>1. Cardinality(busy \ {r}) = Cardinality(busy) - 1 /\ IsFiniteSet(busy \ {r})
        BY <1>5, FS_RemoveElement
      <4>2. Cardinality((busy \ {r}) \cup {n}) = Cardinality(busy \ {r}) + 1
        BY <3>2, <4>1, FS_AddElement
      <4> QED  BY <1>5, <3>1, <4>1, <4>2
    <3> QED  BY <1>1, <2>8, <3>3 DEF BatchBound, busy
  <2> QED  BY <2>5, <2>7, <2>9, <2>10, <2>11, <2>12 DEF RunsInv
<1>8. CASE ~Takes(batch)
  <2> DEFINE rest == {i \in Items : f[i].at \notin {"idle", "over"}}
             over == [i \in Items |-> IF g[i] = "queued" THEN "cancelled"
                                      ELSE IF g[i] = "running" THEN "failed" ELSE g[i]]
  <2>1. /\ run' = f
        /\ batch' = IF rest = {} THEN [batch EXCEPT !.st = "finished"] ELSE batch
        /\ item' = IF rest # {} THEN g ELSE over
    BY <1>8 DEF WorkerGoesOn
  <2>2. over \in [Items -> Outcomes] /\ \A i \in Items : g[i] \in Outcomes => over[i] = g[i]
    BY <1>4 DEF Outcomes
  <2> HIDE DEF f, g, n, over, busy
  <2>3. /\ run' \in [Runs -> RunRecords] /\ run'[r] = y
        /\ \A q \in Runs \ {r} : run'[q] = run[q]
        /\ \A q \in Runs : RecordOK(run'[q])
    BY <1>3, <2>1
  <2>4. /\ \A q \in Runs : Tracked(q)'
        /\ \A q \in Runs : Running(q)' <=> run'[q].at \in InLoop
        /\ CurrentShown'
    BY <1>1, <2>3, EndsTracked
  <2>5. /\ batch' \in [st : {"none", "running", "finished"}, next : 1 .. NItems + 1, cancel : BOOLEAN]
        /\ batch'.st = (IF rest = {} THEN "finished" ELSE "running") /\ batch'.next = n
    BY <1>1, <1>6, <2>1 DEF TypeOK, n
  <2>6. item' \in [Items -> {"queued", "running"} \cup Outcomes]
    BY <1>4, <2>1, <2>2
  <2>7. TypeOK'
    <3>1. \A q \in Runs : Running(q)' <=> run'[q].at \in {"digest", "act", "paused", "shot"}
      BY <2>4 DEF InLoop
    <3> QED  BY <1>1, <2>3, <2>5, <2>6, <3>1 DEF TypeOK, RunRecords
  <2>8. busy' = busy \ {r} /\ busy' = rest
    BY <1>1, <2>1, <2>3 DEF busy, Busy
  <2>9. \A i \in Items : ItemOK(i)'
    <3> TAKE i \in Items
    <3>1. i = r => g[i] \in Outcomes /\ run'[i].at = "over"
      BY <1>1, <1>4, <2>3
    <3>2. i # r => run'[i] = run[i] /\ g[i] = item[i] /\ ItemOK(i)
      BY <1>1, <1>4, <2>3
    <3>3. CASE rest # {}
      BY <2>1, <3>1, <3>2, <3>3 DEF ItemOK, InLoop
    <3>4. CASE rest = {}
      <4>1. run'[i].at \in {"idle", "over"}
        BY <2>1, <3>4
      <4> QED  BY <2>1, <2>2, <3>1, <3>2, <3>4, <4>1 DEF ItemOK, InLoop
    <3> QED  BY <3>3, <3>4
  <2>10. TakenInOrder'
    <3>1. ASSUME NEW i \in Items
          PROVE  /\ run'[i].at = "idle" <=> i >= n
                 /\ rest # {} /\ run'[i].at = "idle" => item'[i] = "queued"
      <4>1. i \in Nat
        BY DEF Items
      <4>2. CASE i = r
        BY <1>1, <1>2, <1>6, <2>3, <4>1, <4>2
      <4>3. CASE i # r
        <5>1. run'[i] = run[i] /\ (rest # {} => item'[i] = item[i])
          BY <1>1, <1>4, <2>1, <2>3, <4>3
        <5> QED  BY <1>1, <1>6, <5>1 DEF TakenInOrder, n
      <4> QED  BY <4>2, <4>3
    <3> QED  BY <2>5, <3>1 DEF TakenInOrder
  <2>11. BatchBound'
    <3>1. Cardinality(busy') <= Concurrency
      <4>1. Cardinality(busy \ {r}) = Cardinality(busy) - 1
        BY <1>5, FS_RemoveElement
      <4>2. Cardinality(busy) <= Concurrency
        BY <1>1 DEF BatchBound, busy
      <4> QED  BY <1>5, <2>8, <4>1, <4>2, WorkflowRunsAssumption
    <3>2. batch'.st = "finished" => \A i \in Items : ~Busy(i)' /\ item'[i] \in Outcomes
      BY <2>1, <2>2, <2>5, <2>8 DEF busy
    <3> QED  BY <3>1, <3>2 DEF BatchBound, busy
  <2> QED  BY <2>3, <2>4, <2>7, <2>9, <2>10, <2>11 DEF RunsInv
<1> QED  BY <1>7, <1>8


(* No workflow, no tab; the promise of the run resolves.                    *)
LEMMA EndKeeps ==
    ASSUME RunsInv, NEW r \in Runs, FindFails(r) \/ Closed(r)
    PROVE  RunsInv'
<1>1. /\ RecordOK(run[r]) /\ run[r] \in RunRecords /\ run \in [Runs -> RunRecords]
  BY DEF RunsInv, RecordOK, TypeOK, RunRecords
<1>2. CASE FindFails(r)
  <2> DEFINE y == [run[r] EXCEPT !.at = "over"]
  <2>1. run[r].at = "find" /\ UNCHANGED <<runs, current>>
    BY <1>2 DEF FindFails
  <2>2. RecordOK(y) /\ y.at = "over"
    BY <1>1, <2>1 DEF RecordOK, RunRecords, Stages, InLoop
  <2>3. Ends(r, y)
    BY <2>1, <2>2 DEF Ends
  <2>4. [run EXCEPT ![r].at = "over"] = [run EXCEPT ![r] = y]
    OBVIOUS
  <2> HIDE DEF y
  <2>5. CASE r \in Items
    <3>1. "failed" \in Outcomes
      BY DEF Outcomes
    <3>2. WorkerGoesOn([run EXCEPT ![r] = y], [item EXCEPT ![r] = "failed"])
      BY <1>2, <2>4, <2>5 DEF FindFails
    <3> QED  BY <2>3, <2>5, <3>1, <3>2, ItemEnds
  <2>6. CASE r \notin Items
    <3>1. run' = [run EXCEPT ![r] = y] /\ UNCHANGED <<item, batch>>
      BY <1>2, <2>4, <2>6 DEF FindFails
    <3> QED  BY <2>3, <2>6, <3>1, SoloEnds
  <2> QED  BY <2>5, <2>6
<1>3. CASE Closed(r)
  <2> DEFINE y == [run[r] EXCEPT !.at = "over", !.tab = "closed"]
  <2>1. run[r].at = "closing" /\ UNCHANGED <<runs, current>> /\ run[r].status \in Outcomes
    BY <1>1, <1>3 DEF Closed, RecordOK
  <2>2. RecordOK(y) /\ y.at = "over"
    BY <1>1, <2>1 DEF RecordOK, RunRecords, Stages, InLoop
  <2>3. Ends(r, y)
    BY <2>1, <2>2 DEF Ends
  <2>4. [run EXCEPT ![r].at = "over", ![r].tab = "closed"] = [run EXCEPT ![r] = y]
    BY <1>1
  <2> HIDE DEF y
  <2>5. CASE r \in Items
    <3>1. WorkerGoesOn([run EXCEPT ![r] = y], [item EXCEPT ![r] = run[r].status])
      BY <1>3, <2>4, <2>5 DEF Closed
    <3> QED  BY <2>1, <2>3, <2>5, <3>1, ItemEnds
  <2>6. CASE r \notin Items
    <3>1. run' = [run EXCEPT ![r] = y] /\ UNCHANGED <<item, batch>>
      BY <1>3, <2>4, <2>6 DEF Closed
    <3> QED  BY <2>3, <2>6, <3>1, SoloEnds
  <2> QED  BY <2>5, <2>6
<1> QED  BY <1>2, <1>3

(* trackRun.                                                               *)
LEMMA TrackKeeps ==
    ASSUME RunsInv, NEW r \in Runs, Track(r)
    PROVE  RunsInv'
<1> DEFINE y == [run[r] EXCEPT !.at = "digest", !.status = "running", !.tab = "open"]
<1>1. /\ run[r].at = "find" /\ run' = [run EXCEPT ![r] = y]
      /\ runs' = Append(runs, r) /\ current' = r /\ batch' = batch
      /\ item' = IF r \in Items THEN [item EXCEPT ![r] = "running"] ELSE item
  BY DEF Track
<1>2. /\ TypeOK /\ BatchBound /\ TakenInOrder
      /\ \A q \in Runs : RecordOK(run[q]) /\ Tracked(q)
      /\ \A i \in Items : ItemOK(i)
      /\ Items \subseteq Runs
  BY DEF RunsInv, Runs
<1>3. RecordOK(y) /\ y.at = "digest"
  <2>1. RecordOK(run[r]) /\ run[r] \in RunRecords
    BY <1>2 DEF RecordOK
  <2>2. y \in RunRecords
    BY <2>1 DEF RunRecords, Stages
  <2>3. /\ y.at = "digest" /\ y.status = "running" /\ y.step = run[r].step
        /\ y.late = run[r].late /\ y.cancel = run[r].cancel /\ y.paused = run[r].paused
    BY <2>1 DEF RunRecords
  <2>4. run[r].step = 0 /\ run[r].late = 0
    BY <1>1, <2>1 DEF RecordOK
  <2> QED  BY <2>2, <2>3, <2>4, WorkflowRunsAssumption DEF RecordOK, InLoop
<1> HIDE DEF y
<1>4. /\ run' \in [Runs -> RunRecords]
      /\ run'[r] = y /\ \A q \in Runs \ {r} : run'[q] = run[q]
      /\ \A q \in Runs : RecordOK(run'[q]) /\ RecordOK(run[q])
      /\ \A q \in Runs : Running(q) <=> run[q].at \in InLoop
      /\ \A q \in Runs : Running(q)' <=> run'[q].at \in InLoop
  BY <1>1, <1>3, OneRun
<1>5. /\ runs' \in Seq(Runs) /\ IsInjective(runs') /\ Live' = Live \cup {r}
  <2>1. r \notin Live /\ runs \in Seq(Runs) /\ IsInjective(runs)
    BY <1>1, <1>2 DEF Tracked, TypeOK
  <2> QED  BY <1>1, <2>1, AppendSet DEF Live
<1>6. TypeOK'
  <2>1. \A q \in Runs : Running(q)' <=> run'[q].at \in {"digest", "act", "paused", "shot"}
    BY <1>4 DEF InLoop
  <2>2. item' \in [Items -> {"queued", "running"} \cup Outcomes]
    BY <1>1, <1>2 DEF TypeOK
  <2> QED  BY <1>1, <1>2, <1>4, <1>5, <2>1, <2>2 DEF TypeOK, RunRecords
<1>7. \A q \in Runs : Tracked(q)'
  <2> TAKE q \in Runs
  <2>1. CASE q = r
    BY <1>3, <1>4, <1>5, <2>1 DEF Tracked
  <2>2. CASE q # r
    <3>1. Running(q)' <=> Running(q)
      BY <1>4, <2>2
    <3> QED  BY <1>2, <1>4, <1>5, <2>2, <3>1 DEF Tracked
  <2> QED  BY <2>1, <2>2
<1>8. \A i \in Items : ItemOK(i)'
  <2> TAKE i \in Items
  <2>1. CASE i = r
    <3>1. item'[i] = "running"
      BY <1>1, <1>2, <2>1 DEF TypeOK
    <3> QED  BY <1>3, <1>4, <2>1, <3>1 DEF ItemOK, InLoop
  <2>2. CASE i # r
    <3>1. item'[i] = item[i] /\ run'[i] = run[i]
      BY <1>1, <1>2, <1>4, <2>2 DEF TypeOK
    <3> QED  BY <1>2, <3>1 DEF ItemOK
  <2> QED  BY <2>1, <2>2
<1>9. \A q \in Runs : /\ Busy(q)' <=> Busy(q)
                      /\ run'[q].at = "idle" <=> run[q].at = "idle"
                      /\ q # r => run'[q] = run[q]
  BY <1>1, <1>3, <1>4 DEF Busy
<1>10. TakenInOrder'
  <2>1. \A i \in Items : run'[i].at = "idle" => item'[i] = item[i]
    BY <1>1, <1>2, <1>3, <1>4 DEF TypeOK
  <2> QED  BY <1>1, <1>2, <1>9, <2>1 DEF TakenInOrder
<1>11. BatchBound'
  <2>1. {i \in Items : Busy(i)}' = {i \in Items : Busy(i)}
    BY <1>2, <1>9
  <2>2. batch'.st = "finished" => item' = item
    BY <1>1, <1>2 DEF BatchBound, Busy
  <2> QED  BY <1>1, <1>2, <1>9, <2>1, <2>2 DEF BatchBound
<1>12. CurrentShown'
  <2>1. Running(r)' /\ r # NoRun
    BY <1>3, <1>4, WorkflowRunsAssumption DEF InLoop
  <2> QED  BY <1>1, <2>1 DEF CurrentShown, Running
<1> QED  BY <1>4, <1>6, <1>7, <1>8, <1>10, <1>11, <1>12 DEF RunsInv

(* A report that is final leaves the map.                                   *)
LEMMA ForgetKeeps ==
    ASSUME RunsInv, NEW r \in Runs, Forget(r)
    PROVE  RunsInv'
<1>1. PICK i \in DOMAIN runs : runs[i] = r /\ runs' = RemoveAt(runs, i)
  BY DEF Forget
<1>2. ~Running(r) /\ UNCHANGED <<run, current, item, batch>>
  BY DEF Forget
<1>3. runs' \in Seq(Runs) /\ IsInjective(runs') /\ Live' = Live \ {r}
  <2>1. runs \in Seq(Runs) /\ IsInjective(runs)
    BY DEF RunsInv, TypeOK
  <2> QED  BY <1>1, <2>1, RemoveAtSet DEF Live
<1>4. TypeOK'
  BY <1>2, <1>3 DEF RunsInv, TypeOK, Running
<1>5. \A q \in Runs : RecordOK(run'[q]) /\ Tracked(q)'
  BY <1>2, <1>3 DEF RunsInv, Tracked, Running
<1>6. (\A j \in Items : ItemOK(j)') /\ TakenInOrder' /\ BatchBound' /\ CurrentShown'
  BY <1>2 DEF RunsInv, ItemOK, TakenInOrder, BatchBound, Busy, CurrentShown, Running
<1> QED  BY <1>4, <1>5, <1>6 DEF RunsInv


(* The runs of T begin.                                                    *)
LEMMA BeginTracked ==
    ASSUME RunsInv, NEW T, T \subseteq Runs, \A r \in T : run[r].at = "idle",
           run' = [r \in Runs |-> IF r \in T THEN [run[r] EXCEPT !.at = "find"] ELSE run[r]],
           UNCHANGED <<runs, current>>
    PROVE  /\ run' \in [Runs -> RunRecords]
           /\ \A r \in Runs : run'[r] = IF r \in T THEN [run[r] EXCEPT !.at = "find"] ELSE run[r]
           /\ \A r \in T : run'[r].at = "find"
           /\ \A r \in Runs : RecordOK(run'[r]) /\ Tracked(r)'
           /\ \A r \in Runs : Running(r)' <=> run'[r].at \in InLoop
           /\ CurrentShown'
<1>1. /\ \A r \in Runs : RecordOK(run[r]) /\ Tracked(r) /\ run[r] \in RunRecords
      /\ CurrentShown /\ current \in Runs \cup {NoRun}
  BY DEF RunsInv, RecordOK, TypeOK
<1>2. ASSUME NEW r \in Runs
      PROVE  /\ run'[r] = IF r \in T THEN [run[r] EXCEPT !.at = "find"] ELSE run[r]
             /\ r \in T => run'[r].at = "find"
             /\ run'[r].status = run[r].status
             /\ RecordOK(run'[r]) /\ run'[r] \in RunRecords
  <2>1. run'[r] = IF r \in T THEN [run[r] EXCEPT !.at = "find"] ELSE run[r]
    OBVIOUS
  <2>2. CASE r \in T
    <3>1. run[r].at = "idle" /\ RecordOK(run[r]) /\ run[r] \in RunRecords
      BY <1>1, <2>2
    <3> QED  BY <2>1, <2>2, <3>1 DEF RecordOK, RunRecords, Stages, InLoop
  <2>3. CASE r \notin T
    BY <1>1, <2>1, <2>3
  <2> QED  BY <2>1, <2>2, <2>3
<1>3. \A r \in Runs : /\ Running(r)' <=> run'[r].at \in InLoop
                      /\ Running(r)' <=> Running(r)
  BY <1>2 DEF Running, RecordOK
<1>4. \A r \in Runs : Tracked(r)'
  <2> TAKE r \in Runs
  <2>1. r \in T => r \notin Live
    BY <1>1 DEF Tracked
  <2> QED  BY <1>1, <1>2, <1>3, <2>1 DEF Tracked, Live
<1>5. CurrentShown'
  <2> SUFFICES ASSUME NEW q \in Runs, Running(q)'
               PROVE  current' \in Runs /\ (Running(current)' \/ (run[current].at = "persist")')
    BY WorkflowRunsAssumption DEF CurrentShown
  <2>1. current \in Runs /\ (Running(current) \/ run[current].at = "persist")
    BY <1>1, <1>3 DEF CurrentShown
  <2>2. Running(current) => Running(current)'
    BY <1>3, <2>1 DEF Running
  <2>3. run[current].at = "persist" => run'[current] = run[current]
    BY <1>2, <2>1
  <2> QED  BY <2>1, <2>2, <2>3
<1>6. run' \in [Runs -> RunRecords]
  BY <1>2
<1> QED  BY <1>2, <1>3, <1>4, <1>5, <1>6

(* runMany.                                                                *)
LEMMA StartBatchKeeps ==
    ASSUME RunsInv, StartBatch
    PROVE  RunsInv'
<1> DEFINE m == IF Concurrency <= NItems THEN Concurrency ELSE NItems
<1>1. /\ TypeOK /\ TakenInOrder /\ (\A i \in Items : ItemOK(i)) /\ Items \subseteq Runs
      /\ batch.st = "none" /\ batch.next = 1
  BY DEF RunsInv, StartBatch, TakenInOrder, Runs
<1>2. /\ Starting = 1 .. m /\ m \in Nat \ {0} /\ m <= NItems /\ m <= Concurrency
      /\ Starting \subseteq Items
  BY WorkflowRunsAssumption DEF Starting, Items
<1> HIDE DEF m
<1>3. Cardinality(Starting) = m
  BY <1>2, FS_Interval
<1>4. \A i \in Items : run[i].at = "idle" /\ item[i] = "queued"
  <2>1. \A i \in Items : i >= 1
    BY DEF Items
  <2> QED  BY <1>1, <2>1 DEF TakenInOrder
<1>5. /\ run' = [r \in Runs |-> IF r \in Starting THEN [run[r] EXCEPT !.at = "find"] ELSE run[r]]
      /\ UNCHANGED <<runs, current, item>>
  BY DEF StartBatch
<1>6. /\ batch' = [batch EXCEPT !.st = "running", !.next = m + 1]
      /\ batch \in [st : {"none", "running", "finished"}, next : 1 .. NItems + 1, cancel : BOOLEAN]
  BY <1>1, <1>3 DEF StartBatch, TypeOK
<1>7. /\ batch' \in [st : {"none", "running", "finished"}, next : 1 .. NItems + 1, cancel : BOOLEAN]
      /\ batch'.st = "running" /\ batch'.next = m + 1
  <2>1. m + 1 \in 1 .. NItems + 1
    BY <1>2, WorkflowRunsAssumption
  <2> QED  BY <1>6, <2>1
<1>8. /\ run' \in [Runs -> RunRecords]
      /\ \A r \in Runs : run'[r] = IF r \in Starting THEN [run[r] EXCEPT !.at = "find"] ELSE run[r]
      /\ \A r \in Starting : run'[r].at = "find"
      /\ \A r \in Runs : RecordOK(run'[r]) /\ Tracked(r)'
      /\ \A r \in Runs : Running(r)' <=> run'[r].at \in InLoop
      /\ CurrentShown'
  <2>1. Starting \subseteq Runs /\ \A r \in Starting : run[r].at = "idle"
    BY <1>1, <1>2, <1>4
  <2> QED  BY <1>5, <2>1, BeginTracked
<1>9. \A i \in Items : run'[i].at = IF i \in Starting THEN "find" ELSE "idle"
  BY <1>1, <1>4, <1>8
<1>10. TypeOK'
  <2>1. \A q \in Runs : Running(q)' <=> run'[q].at \in {"digest", "act", "paused", "shot"}
    BY <1>8 DEF InLoop
  <2> QED  BY <1>1, <1>5, <1>7, <1>8, <2>1 DEF TypeOK, RunRecords
<1>11. \A i \in Items : ItemOK(i)'
  BY <1>4, <1>5, <1>9 DEF ItemOK, InLoop
<1>12. TakenInOrder'
  <2>1. \A i \in Items : i \in Nat \ {0} /\ (i \notin Starting <=> i >= m + 1)
    BY <1>2, WorkflowRunsAssumption DEF Items
  <2> QED  BY <1>4, <1>5, <1>7, <1>9, <2>1 DEF TakenInOrder
<1>13. BatchBound'
  <2>1. {i \in Items : Busy(i)}' = Starting
    BY <1>2, <1>9 DEF Busy
  <2> QED  BY <1>2, <1>3, <1>7, <2>1 DEF BatchBound
<1> QED  BY <1>8, <1>10, <1>11, <1>12, <1>13 DEF RunsInv

(* wfRun.                                                                  *)
LEMMA StartSoloKeeps ==
    ASSUME RunsInv, NEW s \in Runs, StartSolo(s)
    PROVE  RunsInv'
<1> DEFINE T == {s}
<1>1. /\ TypeOK /\ BatchBound /\ TakenInOrder /\ (\A i \in Items : ItemOK(i))
      /\ \A i \in Items : i \in Runs \ {s}
      /\ run[s].at = "idle" /\ run \in [Runs -> RunRecords]
  BY WorkflowRunsAssumption DEF RunsInv, StartSolo, Runs, TypeOK, RunRecords
<1>2. /\ run' = [r \in Runs |-> IF r \in T THEN [run[r] EXCEPT !.at = "find"] ELSE run[r]]
      /\ UNCHANGED <<runs, current, item, batch>>
  BY <1>1 DEF StartSolo
<1>3. /\ run' \in [Runs -> RunRecords]
      /\ \A r \in Runs : run'[r] = IF r \in T THEN [run[r] EXCEPT !.at = "find"] ELSE run[r]
      /\ \A r \in T : run'[r].at = "find"
      /\ \A r \in Runs : RecordOK(run'[r]) /\ Tracked(r)'
      /\ \A r \in Runs : Running(r)' <=> run'[r].at \in InLoop
      /\ CurrentShown'
  <2>1. T \subseteq Runs /\ \A r \in T : run[r].at = "idle"
    BY <1>1
  <2>2. UNCHANGED <<runs, current>>
    BY <1>2
  <2> HIDE DEF T
  <2> QED  BY <1>2, <2>1, <2>2, BeginTracked
<1>4. \A i \in Items : run'[i] = run[i]
  BY <1>1, <1>3
<1>5. TypeOK'
  <2>1. \A q \in Runs : Running(q)' <=> run'[q].at \in {"digest", "act", "paused", "shot"}
    BY <1>3 DEF InLoop
  <2> QED  BY <1>1, <1>2, <1>3, <2>1 DEF TypeOK, RunRecords
<1>6. (\A i \in Items : ItemOK(i)') /\ TakenInOrder'
  BY <1>1, <1>2, <1>4 DEF ItemOK, TakenInOrder
<1>7. BatchBound'
  <2>1. {i \in Items : Busy(i)}' = {i \in Items : Busy(i)}
    BY <1>4 DEF Busy
  <2> QED  BY <1>1, <1>2, <1>4, <2>1 DEF BatchBound, Busy
<1> QED  BY <1>3, <1>5, <1>6, <1>7 DEF RunsInv

-----------------------------------------------------------------------------
(* The theorems.                                                           *)

(* Nothing runs at the start.                                              *)
LEMMA InitRuns == Init => RunsInv
<1> SUFFICES ASSUME Init PROVE RunsInv
  OBVIOUS
<1> DEFINE new == [at |-> "idle", status |-> "none", step |-> 0, cancel |-> FALSE,
                   paused |-> FALSE, tab |-> "none", late |-> 0]
<1>1. /\ run = [r \in Runs |-> new] /\ \A r \in Runs : run[r] = new
      /\ runs = <<>> /\ current = NoRun /\ item = [i \in Items |-> "queued"]
      /\ batch = [st |-> "none", next |-> 1, cancel |-> FALSE]
  BY DEF Init
<1>2. new \in RunRecords /\ RecordOK(new) /\ new.at = "idle" /\ new.status = "none"
  BY WorkflowRunsAssumption DEF RunRecords, RecordOK, Stages, InLoop
<1> HIDE DEF new
<1>3. runs \in Seq(Runs) /\ IsInjective(runs) /\ Live = {}
  BY <1>1 DEF IsInjective, Live, ToSet
<1>4. \A r \in Runs : ~Running(r) /\ ~Busy(r) /\ run[r].at = "idle" /\ RecordOK(run[r])
  BY <1>1, <1>2 DEF Running, Busy
<1>5. Items \subseteq Runs
  BY DEF Runs
<1>6. TypeOK
  <2>1. \A r \in Runs : Running(r) <=> run[r].at \in {"digest", "act", "paused", "shot"}
    BY <1>4
  <2>2. 1 \in 1 .. NItems + 1
    BY WorkflowRunsAssumption
  <2> QED  BY <1>1, <1>2, <1>3, <2>1, <2>2 DEF TypeOK, RunRecords
<1>7. \A r \in Runs : Tracked(r)
  BY <1>3, <1>4 DEF Tracked
<1>8. (\A i \in Items : ItemOK(i)) /\ TakenInOrder
  <2>1. \A i \in Items : i >= 1
    BY DEF Items
  <2> QED  BY <1>1, <1>4, <1>5, <2>1 DEF ItemOK, TakenInOrder, InLoop
<1>9. BatchBound
  <2>1. {i \in Items : Busy(i)} = {}
    BY <1>4, <1>5
  <2>2. 0 <= Concurrency
    BY WorkflowRunsAssumption
  <2> QED  BY <1>1, <2>1, <2>2, FS_EmptySet DEF BatchBound
<1>10. CurrentShown
  BY <1>4 DEF CurrentShown
<1> QED  BY <1>4, <1>6, <1>7, <1>8, <1>9, <1>10 DEF RunsInv

(* Every step keeps the invariant.                                         *)
LEMMA StepRuns == RunsInv /\ [Next]_vars => RunsInv'
<1> SUFFICES ASSUME RunsInv, [Next]_vars PROVE RunsInv'
  OBVIOUS
<1>1. CASE StartBatch
  BY <1>1, StartBatchKeeps
<1>2. ASSUME NEW r \in Runs, RunStep(r)
      PROVE  RunsInv'
  BY <1>2, TrackKeeps, EndKeeps, LoopKeeps, PersistedKeeps DEF RunStep
<1>3. ASSUME NEW r \in Runs, StartSolo(r) \/ Forget(r)
      PROVE  RunsInv'
  BY <1>3, StartSoloKeeps, ForgetKeeps
<1>4. CASE \/ \E S \in Targets : Cancel(S) \/ Pause(S) \/ Resume(S)
           \/ CancelBatch \/ PauseBatch \/ ResumeBatch
           \/ \E r \in Runs : TabCloses(r)
  BY <1>4, ToldKeeps
<1>5. CASE UNCHANGED vars
  <2>1. /\ run' = run /\ runs' = runs /\ current' = current /\ item' = item /\ batch' = batch
    BY <1>5 DEF vars
  <2>2. run' \in [Runs -> RunRecords] /\ \A r \in Runs : GoesOn(r)
    BY <2>1 DEF GoesOn, RunsInv, TypeOK, RunRecords
  <2>3. SameBatch
    BY <2>1 DEF SameBatch, RunsInv, TypeOK
  <2> QED  BY <2>2, <2>3, GoingOn
<1> QED  BY <1>1, <1>2, <1>3, <1>4, <1>5 DEF Next

(* A batch is not reported as over while a run of it is not.                  *)
LEMMA BatchReported == RunsInv => SettledMeansStopped
<1> SUFFICES ASSUME RunsInv, NEW i \in Items,
                    run[i].at \in {"find", "digest", "act", "paused", "shot"}
             PROVE  ViewStatus = "running"
  BY DEF SettledMeansStopped
<1>1. RecordOK(run[i]) /\ ItemOK(i)
  BY DEF RunsInv, Runs
<1>2. CASE run[i].at = "find"
  BY <1>1, <1>2 DEF RecordOK, ItemOK, ItemView, ViewStatus
<1>3. CASE run[i].at # "find"
  <2>1. run[i].status = "running" /\ item[i] = "running"
    BY <1>1, <1>3 DEF RecordOK, ItemOK, InLoop
  <2> QED  BY <2>1 DEF ItemView, ViewStatus
<1> QED  BY <1>2, <1>3

(* What is reported is true (runWorkflow, runMany, batchView, retireRun): for   *)
(* any runs, entries, steps and concurrency the batch keeps to its bound, is   *)
(* not reported as over while a run of it acts, what is over stays as it is,   *)
(* and the run that is shown goes on while any run does.                     *)
THEOREM ReportsAreTrue == Spec => []ReportsTrue
<1>1. RunsInv => ReportsTrue
  BY BatchReported DEF RunsInv, ReportsTrue
<1> QED  BY InitRuns, StepRuns, <1>1, PTL DEF Spec

(* A run that is told to stop or to pause begins at most one more step          *)
(* (run_cancel, run_pause and the loop of runWorkflow), whatever it is told    *)
(* meanwhile and wherever in its loop it is.                                 *)
THEOREM RunsStopAtStep == Spec => []StopsAtStep
<1>1. RunsInv => StopsAtStep
  BY DEF RunsInv, RecordOK, StopsAtStep
<1> QED  BY InitRuns, StepRuns, <1>1, PTL DEF Spec

=============================================================================
