---------------------------- MODULE TabIsolation ----------------------------
(***************************************************************************)
(* Tab-group isolation (extension/background/tab-isolation.js): the tabs    *)
(* that each client owns or has adopted, from the first tool call to the    *)
(* release of its session.                                                 *)
(*                                                                         *)
(* Every browser call is an await at which operations of other clients, the *)
(* idle sweep, the end of a session and the user interleave.  The state of  *)
(* a client is an object; an operation keeps the object it looked up, also  *)
(* when the client's entry in the map is deleted or replaced meanwhile.     *)
(* Operations of one client that move its tabs run one at a time (client    *)
(* admission, service-worker.js:4159-4171, 4328-4339).                      *)
(***************************************************************************)
EXTENDS Naturals, FiniteSets

CONSTANTS
    Clients, NoClient,
    Tabs,       \* all tabs that are ever open
    UserTabs,   \* those the user has open at the start
    NoTab,
    Wins,       \* windows
    UserWin,    \* the window of the user's tabs
    Objs, NoObj, \* state objects
    Jobs,       \* operations in progress together
    CalmTabs, WildTabs, \* those AutoDOM may open, with and without the
                        \* assumption Undisturbed below
    MaxOps      \* bound on operations and restarts

ASSUME TabIsolationAssumption ==
    /\ UserTabs \subseteq Tabs /\ NoTab \notin Tabs /\ UserWin \in Wins
    /\ NoClient \notin Clients /\ NoObj \notin Objs
    /\ CalmTabs \cup WildTabs \subseteq Tabs \ UserTabs /\ MaxOps \in Nat
    /\ IsFiniteSet(Tabs) /\ IsFiniteSet(Jobs)

VARIABLES
    client,  \* clients: the state object of each client
    obj,     \* the state objects
    tab,     \* the tabs in the browser
    blank,   \* replacement tabs in each window: none or some
    store,   \* storage.session
    job,     \* operations in progress
    spared,  \* tabs left open because their window could not be kept otherwise
    ops,     \* operations and restarts so far
    calm     \* the assumption Undisturbed is made; it never changes

tabVars == <<client, obj, tab, blank, store, job, spared, ops, calm>>

Open(t) == tab[t].st = "open"
OpenTabs == {t \in Tabs : Open(t)}

\* owned, adopted with the place each tab came from, calls in flight, idle for
\* the idle time.
NewState == [owned |-> {}, adopted |-> {}, inflight |-> 0, idle |-> FALSE]
Saved(s) == [owned |-> s.owned, adopted |-> s.adopted]
Nothing == Saved(NewState)

Idle == [pc |-> "idle", op |-> "none", client |-> NoClient, obj |-> NoObj, tab |-> NoTab,
         back |-> {}, alive |-> {}, need |-> {}, list |-> {}]

TabsInit ==
    /\ calm \in BOOLEAN
    /\ client = [c \in Clients |-> NoObj]
    /\ obj = [o \in Objs |-> NewState]
    /\ tab = [t \in Tabs |->
         IF t \in UserTabs THEN [st |-> "open", win |-> UserWin, place |-> "home"]
         ELSE [st |-> IF t \in (IF calm THEN CalmTabs ELSE WildTabs) THEN "absent" ELSE "closed",
               win |-> UserWin, place |-> "home"]]
    /\ blank = [w \in Wins |-> 0]
    /\ store = [c \in Clients |-> Nothing]
    /\ job = [j \in Jobs |-> Idle]
    /\ spared = {} /\ ops = 0

LiveObjs == {client[c] : c \in Clients} \ {NoObj}
Adopted(o) == {r.tab : r \in obj[o].adopted}
Manages(c, t) == client[c] # NoObj /\ (t \in obj[client[c]].owned \/ t \in Adopted(client[c]))

\* The bound on tabs leaves a tab for every creation that is in progress.
TabLeft == Cardinality({t \in Tabs : tab[t].st = "absent"}) >
           Cardinality({j \in Jobs : job[j].pc = "create"})

Total(w) == Cardinality({t \in OpenTabs : tab[t].win = w}) + blank[w]

Free(j) == job[j].pc = "idle"
\* One more operation or restart within the bound.
Counted == ops < MaxOps /\ ops' = ops + 1
Begin(j) == Free(j) /\ Counted

AtRest == \A j \in Jobs : Free(j)
InPlace(S) == \E j \in Jobs : job[j].pc \in S
Opening == {"create", "adopt", "group"}
Closing == {"query", "fill"}

\* The operations of c that hold its admission.
Admitted == {"create", "adopt", "unpin", "close", "finish"}
MayAdmit(c) == \A j \in Jobs : job[j].client = c => job[j].op \notin Admitted

\* The assumption under which the sessions are kept: while a tab is being
\* opened or adopted no tab goes away and no session ends, tabs are closed by
\* one party at a time, and the worker is only killed at rest.
Undisturbed(S) == calm => ~InPlace(S)

\* Part of it: a tab is adopted where the user left it.
Settled(t) == calm => /\ tab[t].place = "home"
                      /\ \A j \in Jobs : job[j].pc = "adopt" => job[j].tab # t

-----------------------------------------------------------------------------
(* State objects, persistence and the tab events.                          *)

Unused == Objs \ (LiveObjs \cup {job[j].obj : j \in Jobs}
                       \cup UNION {{e.obj : e \in job[j].list} : j \in Jobs})

Snapshot(cl, ob) == [c \in Clients |-> IF cl[c] = NoObj THEN Nothing ELSE Saved(ob[cl[c]])]

\* After t is gone: does nothing keep the entry of this object?
Emptied(o, t) == obj[o].owned \subseteq {t} /\ Adopted(o) \subseteq {t}

\* onTabRemoved(t) with the tab: the entries of all clients are looked through.
\* Objects that are no longer in the map keep the tab.
TabGone(t) ==
    LET known == \E c \in Clients : Manages(c, t)
        drop  == {c \in Clients : client[c] # NoObj /\ Emptied(client[c], t)}
    IN  /\ tab' = [tab EXCEPT ![t].st = "closed", ![t].place = "home"]
        /\ obj' = [o \in Objs |->
             IF o \in LiveObjs
             THEN [obj[o] EXCEPT !.owned = @ \ {t},
                                 !.adopted = {r \in @ : r.tab # t}]
             ELSE obj[o]]
        /\ client' = [c \in Clients |-> IF c \in drop THEN NoObj ELSE client[c]]
        /\ store' = IF known \/ drop # {} THEN Snapshot(client', obj') ELSE store

\* stateFor(c), with s as the object's content afterwards.
StateFor(c, o, s) ==
    /\ IF client[c] # NoObj THEN o = client[c]
       ELSE o \in Unused /\ \A p \in Unused : o <= p
    /\ client' = [client EXCEPT ![c] = o]
    /\ obj' = [obj EXCEPT ![o] = s]

Content(c) == IF client[c] = NoObj THEN NewState ELSE obj[client[c]]

\* beginCall counts only a call of a client that has an entry already.
Begun(c) == IF client[c] = NoObj THEN NewState
            ELSE [obj[client[c]] EXCEPT !.inflight = @ + 1, !.idle = FALSE]

\* endCall would not stop at zero.
EndedMutant(c) ==
    IF client[c] = NoObj THEN obj
    ELSE [obj EXCEPT ![client[c]].inflight = @ - 1, ![client[c]].idle = FALSE]

\* endCall, on the entry that the client has now.
Ended(c) ==
    IF client[c] = NoObj THEN obj
    ELSE [obj EXCEPT ![client[c]].inflight = IF @ = 0 THEN 0 ELSE @ - 1,
                     ![client[c]].idle = FALSE]

-----------------------------------------------------------------------------
(* createOwnedTab, adoptTab, claimTab.                                     *)

StartCreate(j, c) ==
    /\ Begin(j) /\ MayAdmit(c) /\ TabLeft
    /\ \E o \in Objs :
         /\ StateFor(c, o, Begun(c))
         /\ job' = [job EXCEPT ![j] = [Idle EXCEPT !.pc = "create", !.op = "create",
                                                   !.client = c, !.obj = o]]
    /\ UNCHANGED <<tab, blank, store, spared>>

\* The new tab would be noted after it has been grouped.
NotedMutant(o, t) == obj

Noted(o, t) == [obj EXCEPT ![o].owned = @ \cup {t}, ![o].idle = FALSE]

\* tabs.create has returned.
Create(j) ==
    /\ job[j].pc = "create"
    /\ \E t \in Tabs, w \in Wins :
         /\ tab[t].st = "absent" /\ Total(w) > 0
         /\ tab' = [tab EXCEPT ![t].st = "open", ![t].win = w]
         /\ obj' = Noted(job[j].obj, t)
         /\ job' = [job EXCEPT ![j].pc = "group", ![j].tab = t]
    /\ UNCHANGED <<client, blank, store, spared, ops>>

\* pin_tab or switch_tab to a tab of the user's that no other client has.
StartAdopt(j, c, t) ==
    /\ Begin(j) /\ MayAdmit(c) /\ Open(t)
    /\ \A d \in Clients : ~Manages(d, t)
    /\ Settled(t)
    /\ \E o \in Objs :
         /\ StateFor(c, o, Content(c))
         /\ job' = [job EXCEPT ![j] = [Idle EXCEPT !.pc = "adopt", !.op = "adopt",
                                                   !.client = c, !.obj = o, !.tab = t]]
    /\ UNCHANGED <<tab, blank, store, spared>>

\* tabs.get has returned where the tab is; or it is gone.
Adopt(j) ==
    LET t == job[j].tab
    IN  /\ job[j].pc = "adopt"
        /\ \/ /\ Open(t)
              /\ obj' = [obj EXCEPT ![job[j].obj].adopted =
                           @ \cup {[tab |-> t, place |-> tab[t].place]},
                         ![job[j].obj].idle = FALSE]
              /\ job' = [job EXCEPT ![j].pc = "group"]
           \/ /\ ~Open(t)
              /\ job' = [job EXCEPT ![j] = Idle] /\ UNCHANGED obj
        /\ UNCHANGED <<client, tab, blank, store, spared, ops>>

\* There is no window to create the tab in.
CreateFails(j) ==
    /\ job[j].pc = "create" /\ \A w \in Wins : Total(w) = 0
    /\ job' = [job EXCEPT ![j] = Idle]
    /\ obj' = Ended(job[j].client)
    /\ UNCHANGED <<client, tab, blank, store, spared, ops>>

\* A page in an owned tab opens a tab: claimed at once.
PageOpens(j, c, opener, t) ==
    /\ Begin(j) /\ client[c] # NoObj /\ Open(opener)
    /\ opener \in obj[client[c]].owned /\ tab[t].st = "absent" /\ TabLeft
    /\ tab' = [tab EXCEPT ![t].st = "open", ![t].win = tab[opener].win]
    /\ obj' = Noted(client[c], t)
    /\ job' = [job EXCEPT ![j] = [Idle EXCEPT !.pc = "group", !.op = "claim",
                                  !.client = c, !.obj = client[c], !.tab = t]]
    /\ UNCHANGED <<client, blank, store, spared>>

\* The operation has only its persist left; a sweep keeps its list.
Saving(j) == [job[j] EXCEPT !.pc = "persist", !.obj = NoObj, !.tab = NoTab, !.back = {}]

\* Where a tab stands is kept for the user's tabs only.
Group(j) ==
    LET t == job[j].tab
    IN  /\ job[j].pc = "group"
        /\ tab' = IF Open(t) /\ t \in UserTabs THEN [tab EXCEPT ![t].place = "group"] ELSE tab
        /\ job' = [job EXCEPT ![j] = Saving(j)]
        /\ UNCHANGED <<client, obj, blank, store, spared, ops>>

\* persist writes what the map holds now; a sweep goes on with the next client.
Persist(j) ==
    /\ job[j].pc = "persist"
    /\ store' = Snapshot(client, obj)
    /\ job' = [job EXCEPT ![j] = IF job[j].op = "sweep"
                                 THEN [Idle EXCEPT !.pc = "sweep", !.op = "sweep", !.list = job[j].list]
                                 ELSE Idle]
    /\ obj' = IF job[j].op = "create" THEN Ended(job[j].client) ELSE obj
    /\ UNCHANGED <<client, tab, blank, spared, ops>>

-----------------------------------------------------------------------------
(* release, releaseAdopted, closeManagedTab.                               *)

Releasing(j, c, op, list) ==
    /\ client' = [client EXCEPT ![c] = NoObj]
    /\ job' = [job EXCEPT ![j] = [Idle EXCEPT !.pc = "restore", !.op = op, !.client = c,
                                              !.obj = client[c], !.list = list]]

\* finish_session waits for the client's admission; the end of the bridge
\* process or of its socket does not.
StartRelease(j, c, op) ==
    /\ Begin(j) /\ client[c] # NoObj
    /\ op = "finish" => MayAdmit(c)
    /\ Undisturbed(Opening)
    /\ Releasing(j, c, op, {})
    /\ UNCHANGED <<obj, tab, blank, store, spared>>

\* An adopted tab would be left in the group.
PutAwayMutant(r) == tab

\* restoreAdopted: the tab goes back where it was.
PutAway(r) == IF Open(r.tab) THEN [tab EXCEPT ![r.tab].place = r.place] ELSE tab

\* The loop meets tabs that are adopted into the object meanwhile.
Restore(j) ==
    /\ job[j].pc = "restore"
    /\ \E r \in obj[job[j].obj].adopted \ job[j].back :
         /\ tab' = PutAway(r)
         /\ job' = [job EXCEPT ![j].back = @ \cup {r}]
    /\ UNCHANGED <<client, obj, blank, store, spared, ops>>

\* All managed tabs would be closed.
ToCloseMutant(o) == (obj[o].owned \cup Adopted(o)) \cap OpenTabs

\* closeTabs gets the tabs that are owned by then and still open.
ToClose(o) == obj[o].owned \cap OpenTabs

Restored(j) ==
    /\ job[j].pc = "restore" /\ obj[job[j].obj].adopted \subseteq job[j].back
    /\ Undisturbed(Closing)
    /\ job' = [job EXCEPT ![j] = [@ EXCEPT !.pc = "query", !.alive = ToClose(job[j].obj),
                                           !.obj = NoObj, !.back = {}]]
    /\ UNCHANGED <<client, obj, tab, blank, store, spared, ops>>

\* close_tab of an owned tab, or of an adopted one with force.
StartClose(j, c, t) ==
    /\ Begin(j) /\ MayAdmit(c) /\ Manages(c, t) /\ Open(t)
    /\ Undisturbed(Closing)
    /\ obj' = [obj EXCEPT ![client[c]] =
                [Begun(c) EXCEPT !.owned = @ \ {t}, !.adopted = {r \in @ : r.tab # t}]]
    /\ store' = Snapshot(client, obj')
    /\ job' = [job EXCEPT ![j] = [Idle EXCEPT !.pc = "query", !.op = "close", !.client = c,
                                              !.tab = t, !.alive = {t}]]
    /\ UNCHANGED <<client, tab, blank, spared>>

Empties(w, n) == Total(w) <= n

\* tabs.query: which windows would be left without a tab.
Query(j) ==
    LET In(w) == {t \in job[j].alive : tab[t].win = w}
    IN  /\ job[j].pc = "query"
        /\ job' = [job EXCEPT ![j].pc = "fill",
             ![j].need = {w \in Wins : In(w) # {} /\ Empties(w, Cardinality(In(w)))}]
        /\ UNCHANGED <<client, obj, tab, blank, store, spared, ops>>

\* A replacement tab; when it cannot be created the window's tabs stay.
Fill(j) ==
    /\ job[j].pc = "fill" /\ job[j].need # {}
    /\ \E w \in job[j].need :
         LET stay == {t \in job[j].alive : tab[t].win = w}
         IN  \/ /\ Total(w) > 0
                /\ blank' = [blank EXCEPT ![w] = 1]
                /\ job' = [job EXCEPT ![j].need = @ \ {w}]
                /\ UNCHANGED spared
             \/ /\ job' = [job EXCEPT ![j].need = @ \ {w}, ![j].alive = @ \ stay]
                /\ spared' = spared \cup stay
                /\ UNCHANGED blank
    /\ UNCHANGED <<client, obj, tab, store, ops>>

RemoveTabs(j) ==
    /\ job[j].pc = "fill" /\ job[j].need = {} /\ Undisturbed(Opening)
    /\ \E t \in job[j].alive :
         /\ job' = [job EXCEPT ![j].alive = @ \ {t}]
         /\ IF Open(t) THEN TabGone(t) ELSE UNCHANGED <<client, obj, tab, store>>
    /\ UNCHANGED <<blank, spared, ops>>

Removed(j) ==
    /\ job[j].pc = "fill" /\ job[j].need = {} /\ job[j].alive = {}
    /\ IF job[j].op = "close"
       THEN job' = [job EXCEPT ![j] = Idle] /\ obj' = Ended(job[j].client)
       ELSE job' = [job EXCEPT ![j] = Saving(j)] /\ UNCHANGED obj
    /\ UNCHANGED <<client, tab, blank, store, spared, ops>>

\* unpin_tab, or close_tab without force: an adopted tab goes back.
StartUnpin(j, c, r) ==
    /\ Begin(j) /\ MayAdmit(c) /\ client[c] # NoObj /\ r \in obj[client[c]].adopted
    /\ obj' = [obj EXCEPT ![client[c]].adopted = @ \ {r}]
    /\ job' = [job EXCEPT ![j] = [Idle EXCEPT !.pc = "back", !.op = "unpin", !.client = c,
                                              !.back = {r}]]
    /\ UNCHANGED <<client, tab, blank, store, spared>>

PutBack(j) ==
    /\ job[j].pc = "back"
    /\ \E r \in job[j].back :
         tab' = PutAway(r)
    /\ job' = [job EXCEPT ![j] = Saving(j)]
    /\ UNCHANGED <<client, obj, blank, store, spared, ops>>

-----------------------------------------------------------------------------
(* Idle sweep, restart, user.                                              *)

\* The idle time passes without a call; calls are much shorter.
GetsIdle(c) ==
    /\ client[c] # NoObj /\ ~obj[client[c]].idle
    /\ \A j \in Jobs : job[j].client # c
    /\ obj' = [obj EXCEPT ![client[c]].idle = TRUE]
    /\ UNCHANGED <<client, tab, blank, store, job, spared, ops>>

\* The clock is read once: whoever gets idle later is spared by this sweep.
Entries == {[client |-> c, obj |-> client[c]] :
              c \in {c \in Clients : client[c] # NoObj /\ obj[client[c]].idle}}
Due(e) == obj[e.obj].inflight = 0 /\ obj[e.obj].idle /\ client[e.client] # NoObj

\* sweepIdle goes through the entries it has left, up to one to release: the
\* object in the list decides, the entry that the client has now is released.
SweepTo(j, list, e, rest) ==
    /\ Undisturbed(Opening)
    /\ e \in list \ rest /\ rest \subseteq list
    /\ Due(e) /\ \A f \in list \ (rest \cup {e}) : ~Due(f)
    /\ Releasing(j, e.client, "sweep", rest)
    /\ UNCHANGED <<obj, tab, blank, store, spared>>

StartSweep(j) ==
    /\ Begin(j) /\ \A k \in Jobs : job[k].op # "sweep"
    /\ \E e \in Entries, rest \in SUBSET Entries : SweepTo(j, Entries, e, rest)

SweepNext(j) ==
    /\ job[j].pc = "sweep"
    /\ \E e \in job[j].list, rest \in SUBSET job[j].list : SweepTo(j, job[j].list, e, rest)
    /\ UNCHANGED ops

SweepDone(j) ==
    /\ job[j].pc = "sweep" /\ \A e \in job[j].list : ~Due(e)
    /\ job' = [job EXCEPT ![j] = Idle]
    /\ UNCHANGED <<client, obj, tab, blank, store, spared, ops>>

\* hydrate: what is saved and still open; a restart is not idleness.
Hydrated(c) == [NewState EXCEPT !.owned = store[c].owned \cap OpenTabs,
                                !.adopted = {r \in store[c].adopted : Open(r.tab)}]

Kill ==
    /\ Counted
    /\ calm => AtRest
    /\ job' = [j \in Jobs |-> Idle]
    /\ LET back == {c \in Clients : Hydrated(c) # NewState}
       IN  \E at \in [back -> Objs] :
             /\ \A c, d \in back : at[c] = at[d] => c = d
             /\ \A c \in back : at[c] <= Cardinality(back)
             /\ client' = [c \in Clients |-> IF c \in back THEN at[c] ELSE NoObj]
             /\ obj' = [o \in Objs |-> IF \E c \in back : at[c] = o
                                       THEN Hydrated(CHOOSE c \in back : at[c] = o)
                                       ELSE NewState]
    /\ store' = Snapshot(client', obj')
    /\ UNCHANGED <<tab, blank, spared>>

UserCloses(t) ==
    /\ Open(t) /\ Undisturbed(Opening \cup Closing)
    /\ TabGone(t)
    /\ UNCHANGED <<blank, job, spared, ops>>

-----------------------------------------------------------------------------
JobStep(j) ==
    \/ Create(j) \/ CreateFails(j) \/ Adopt(j) \/ Group(j) \/ Persist(j)
    \/ Restore(j) \/ Restored(j) \/ Query(j) \/ Fill(j)
    \/ RemoveTabs(j) \/ Removed(j) \/ PutBack(j) \/ SweepNext(j) \/ SweepDone(j)

TabsStep ==
    \/ \E j \in Jobs :
         \/ JobStep(j) \/ StartSweep(j)
         \/ \E c \in Clients :
              \/ StartCreate(j, c) \/ StartRelease(j, c, "finish") \/ StartRelease(j, c, "gone")
              \/ \E t \in UserTabs : StartAdopt(j, c, t)
              \/ \E t \in Tabs : StartClose(j, c, t)
              \/ \E s, t \in Tabs : PageOpens(j, c, s, t)
              \/ \E t \in UserTabs, p \in {"home", "group"} :
                   StartUnpin(j, c, [tab |-> t, place |-> p])
    \/ \E c \in Clients : GetsIdle(c)
    \/ \E t \in Tabs : UserCloses(t)
    \/ Kill

\* The bound on operations or that on tabs is reached.
Rest == AtRest /\ (ops = MaxOps \/ ~TabLeft) /\ UNCHANGED tabVars

TabsNext == (TabsStep /\ UNCHANGED calm) \/ Rest

TabsSpec == TabsInit /\ [][TabsNext]_tabVars

-----------------------------------------------------------------------------
(* Properties.                                                             *)

Origins == [tab : Tabs, place : {"home", "group"}]

\* Types; no two clients share a state object, and no tab is both owned and
\* adopted by one client.
TabsTypeOK ==
    /\ client \in [Clients -> Objs \cup {NoObj}]
    /\ \A c, d \in Clients : client[c] = client[d] => c = d \/ client[c] = NoObj
    /\ obj \in [Objs -> [owned : SUBSET Tabs, adopted : SUBSET Origins,
                         inflight : 0 .. Cardinality(Jobs), idle : BOOLEAN]]
    /\ \A o \in Objs : obj[o].owned \cap Adopted(o) = {}
    /\ tab \in [Tabs -> [st : {"absent", "open", "closed"}, win : Wins, place : {"home", "group"}]]
    /\ blank \in [Wins -> 0 .. 1]
    /\ store \in [Clients -> [owned : SUBSET Tabs, adopted : SUBSET Origins]]
    /\ spared \subseteq Tabs /\ ops \in 0 .. MaxOps

\* Undisturbed, at rest every open tab that AutoDOM opened belongs to a session that will
\* close it: the end of the session, the IDE's disconnect or the idle timeout
\* "closes the tabs AutoDOM opened" (README.md:317-318).
OwnedTracked ==
    calm /\ AtRest => \A t \in OpenTabs \ UserTabs :
        t \in spared \/ \E c \in Clients : client[c] # NoObj /\ t \in obj[client[c]].owned

\* Undisturbed, at rest a tab of the user's that is not where it was has been adopted by a
\* session that will put it back: "it is restored to where it was when the
\* session ends" (README.md:316).
UserTabsHome ==
    calm /\ AtRest => \A t \in OpenTabs \cap UserTabs :
        tab[t].place = "home" \/ t \in spared \/
            \E c \in Clients : client[c] # NoObj /\ [tab |-> t, place |-> "home"] \in obj[client[c]].adopted

\* What becomes of the tabs when sessions end: those of AutoDOM are closed, those
\* of the user put back.
TabsTracked == TabsTypeOK /\ OwnedTracked /\ UserTabsHome

\* The user's tabs are closed by the user, or by an explicit close_tab, never by
\* the end of a session, whatever it overlaps; and AutoDOM, undisturbed, never
\* closes the last tab of a window ("but never leave a window empty",
\* tab-isolation.js:385).
UserTabSafe ==
    [][\A t \in Tabs :
         Open(t) /\ ~Open(t)' /\ ~UserCloses(t) =>
             /\ t \in UserTabs => \E j \in Jobs : job[j].op = "close" /\ job[j].tab = t
             /\ calm => Total(tab[t].win)' > 0]_tabVars

=============================================================================
