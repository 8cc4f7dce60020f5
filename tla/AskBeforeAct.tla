---------------------------- MODULE AskBeforeAct ----------------------------
(***************************************************************************)
(* What decides whether a call of the agent may act on a page               *)
(* (extension/background/action-gate.js, executeAgentTool and the take-over *)
(* in service-worker.js): the user may have taken the tab over, the user's   *)
(* rule for the site may allow the call, or else a card in the chat panel   *)
(* asks the user, who answers, late or never, may make the answer a rule of  *)
(* the site, and may revoke the rules at any time.  The worker may be killed. *)
(*                                                                         *)
(* Each site is open in one tab and stays there.  The gate is on, no        *)
(* administrator blocks a site, and the calls are not reads, do not leave   *)
(* the site and are not steps of a batch.                                   *)
(***************************************************************************)
EXTENDS Naturals, FiniteSets

CONSTANTS
    Sites,
    Acts,         \* calls of the agent
    SiteOf,       \* the site each one acts on
    Destructive,  \* those of the destructive tier, the others are mutating
    Shown,        \* the sites whose tab shows the button "Take over"
    Single,       \* no two changes of the stored rules overlap
    MaxRestarts   \* bound on kills of the worker

\* What the constants are.
AskBeforeActAssumption ==
    /\ SiteOf \in [Acts -> Sites] /\ Destructive \subseteq Acts /\ Shown \subseteq Sites
    /\ Single \in BOOLEAN /\ MaxRestarts \in Nat

VARIABLES
    ask,      \* the calls
    rules,    \* stored: the sites that allow mutating calls
    change,   \* a change of the rules by the user
    granted,  \* the sites that the user has allowed and not revoked since
    taken,    \* _takeoverTabs
    session,  \* storage.session["autodom.takeoverTabs"]
    reading,  \* what a new worker has read of it and not yet taken over
    mine,     \* the sites that the user has taken over, as the panels show it
    restarts

ruleVars == <<rules, change>>
takeoverVars == <<taken, session, reading, mine>>
vars == <<ask, ruleVars, granted, takeoverVars, restarts>>

NoChange == [st |-> "none", of |-> {}, map |-> {}]

\* card: none, shown, or what the user has clicked on it.
NotMade == [st |-> "idle", card |-> "none", known |-> FALSE, map |-> {}]

Init ==
    /\ ask = [c \in Acts |-> NotMade]
    /\ rules = {} /\ change = NoChange /\ granted = {}
    /\ taken = {} /\ session = {} /\ reading = {} /\ mine = {} /\ restarts = 0

Site(c) == SiteOf[c]
Goes(c, x) == ask' = [ask EXCEPT ![c] = x]
Persisting == {c \in Acts : ask[c].st \in {"persist", "saving"}}

\* The sites whose rule is on its way out.
Leaving == IF change.st = "saving" THEN change.of ELSE {}

-----------------------------------------------------------------------------
(* executeAgentTool and requestDecision.                                   *)

Call(c) ==
    /\ ask[c].st = "idle"
    /\ Goes(c, [ask[c] EXCEPT !.st = IF Site(c) \in taken THEN "over" ELSE "check"])
    /\ UNCHANGED <<ruleVars, granted, takeoverVars, restarts>>

\* A rule would hold for every call.
AllowedMutant(c) == Site(c) \in rules

\* resolveDecision.
Allowed(c) == c \notin Destructive /\ Site(c) \in rules

Check(c) ==
    /\ ask[c].st = "check"
    /\ Goes(c, IF Allowed(c)
               THEN [ask[c] EXCEPT !.st = "allowed", !.known = Site(c) \in granted \cup Leaving]
               ELSE [ask[c] EXCEPT !.st = "prompt", !.card = "shown"])
    /\ UNCHANGED <<ruleVars, granted, takeoverVars, restarts>>

\* The user answers a card, which stays in the panel: the answer counts while it
\* is waited for.  A rule cannot be made of a destructive call.
Click(c, answer) ==
    /\ ask[c].card = "shown" /\ (answer = "site" => c \notin Destructive)
    /\ IF ask[c].st # "prompt"
       THEN Goes(c, [ask[c] EXCEPT !.card = answer]) /\ UNCHANGED granted
       ELSE /\ Goes(c, [ask[c] EXCEPT !.card = answer,
                            !.st = CASE answer = "once" -> "allowed"
                                     [] answer = "site" -> "persist"
                                     [] answer = "deny" -> "over"])
            /\ granted' = IF answer = "site" THEN granted \cup {Site(c)} ELSE granted
    /\ UNCHANGED <<ruleVars, takeoverVars, restarts>>

\* Two minutes, or the panel cannot be reached.
Expires(c) ==
    /\ ask[c].st = "prompt"
    /\ Goes(c, [ask[c] EXCEPT !.st = "over"])
    /\ UNCHANGED <<ruleVars, granted, takeoverVars, restarts>>

\* setPermission: the whole map is read, and written.
PersistLoads(c) ==
    /\ ask[c].st = "persist"
    /\ Single => change.st = "none" /\ Persisting = {c}
    /\ Goes(c, [ask[c] EXCEPT !.st = "saving", !.map = rules])
    /\ UNCHANGED <<ruleVars, granted, takeoverVars, restarts>>

PersistSaves(c) ==
    /\ ask[c].st = "saving"
    /\ rules' = ask[c].map \cup {Site(c)}
    /\ Goes(c, [ask[c] EXCEPT !.st = "allowed"])
    /\ UNCHANGED <<change, granted, takeoverVars, restarts>>

\* The lanes of the call are free, or the agent was stopped or the lanes refused.
Begin(c) ==
    /\ ask[c].st = "allowed"
    /\ \E st \in {"running", "over"} : Goes(c, [ask[c] EXCEPT !.st = st])
    /\ UNCHANGED <<ruleVars, granted, takeoverVars, restarts>>

-----------------------------------------------------------------------------
(* revokePermission, for one site, and clearAllPermissions, which does not  *)
(* read the map.                                                           *)

Revoke(of) ==
    /\ change.st = "none" /\ (Single => Persisting = {})
    /\ change' = [st |-> "saving", of |-> of, map |-> rules \ of]
    /\ granted' = granted \ of
    /\ UNCHANGED <<ask, rules, takeoverVars, restarts>>

RevokeSaves ==
    /\ change.st = "saving"
    /\ rules' = change.map /\ change' = NoChange
    /\ UNCHANGED <<ask, granted, takeoverVars, restarts>>

-----------------------------------------------------------------------------
(* _setTakeover, and the start of a worker.                                 *)

TakeOver(s, on) ==
    /\ s \in Shown /\ (on <=> s \notin mine)
    /\ mine' = IF on THEN mine \cup {s} ELSE mine \ {s}
    /\ taken' = IF on THEN taken \cup {s} ELSE taken \ {s}
    /\ session' = taken'
    /\ UNCHANGED <<ask, ruleVars, granted, reading, restarts>>

Restored ==
    /\ reading # {}
    /\ taken' = taken \cup reading /\ reading' = {}
    /\ UNCHANGED <<ask, ruleVars, granted, session, mine, restarts>>

\* The agent's calls are gone, and writes on their way land or not.  A revocation
\* that was not saved is not answered.
Kill ==
    /\ restarts < MaxRestarts /\ restarts' = restarts + 1
    /\ ask' = [c \in Acts |-> IF ask[c].st \in {"idle", "running", "over"} THEN ask[c]
                              ELSE [ask[c] EXCEPT !.st = "over"]]
    /\ rules' \in {rules} \cup {ask[c].map \cup {Site(c)} : c \in {d \in Acts : ask[d].st = "saving"}}
                  \cup (IF change.st = "saving" THEN {change.map} ELSE {})
    /\ change' = NoChange
    /\ granted' = granted \cup (Leaving \cap rules')
    /\ taken' = {} /\ reading' = session
    /\ UNCHANGED <<session, mine>>

-----------------------------------------------------------------------------
Answers == {"once", "site", "deny"}

Next ==
    \/ \E c \in Acts :
         \/ Call(c) \/ Check(c) \/ Expires(c) \/ PersistLoads(c) \/ PersistSaves(c)
         \/ Begin(c) \/ \E answer \in Answers : Click(c, answer)
    \/ RevokeSaves \/ Restored \/ Kill
    \/ \E s \in Sites : Revoke({s}) \/ \E on \in BOOLEAN : TakeOver(s, on)
    \/ Revoke(Sites)

Spec == Init /\ [][Next]_vars

-----------------------------------------------------------------------------
(* Properties.                                                             *)

TypeOK ==
    /\ ask \in [Acts -> [st : {"idle", "check", "prompt", "persist", "saving", "allowed",
                               "running", "over"},
                         card : {"none", "shown"} \cup Answers, known : BOOLEAN,
                         map : SUBSET Sites]]
    /\ rules \subseteq Sites /\ granted \subseteq Sites
    /\ change \in [st : {"none", "saving"}, of : SUBSET Sites, map : SUBSET Sites]
    /\ taken \subseteq Sites /\ session \subseteq Sites /\ reading \subseteq Sites
    /\ mine \subseteq Sites /\ restarts \in 0 .. MaxRestarts

\* The user decides: no rule is in force that the user has not made or has
\* revoked since, and what has run was allowed for this very call, or was not
\* destructive and its site had the user's permission when it was checked
\* ("Destructive actions always require per-call approval",
\* chat-panel.js:4040); late answers, kills and other calls in between change
\* nothing of that.
UserDecides ==
    /\ TypeOK
    /\ rules \subseteq granted \cup Leaving
    /\ \A c \in Acts : ask[c].st \in {"allowed", "running"} =>
         ask[c].card \in {"once", "site"} \/ (c \notin Destructive /\ ask[c].known)

\* "Agent calls that would change the tab return USER_TAKEOVER"
\* (docs/WORKFLOWS.md:273-274): none begins while the user has the tab.
NotTakenOver == \A c \in Acts : ask[c].st # "running" /\ ask'[c].st = "running" => Site(c) \notin mine
TakeoverHeld == [][NotTakenOver]_vars

=============================================================================
