---------------------------- MODULE StdioSession ----------------------------
(***************************************************************************)
(* What a client of the bridge sees of its stdio session: its messages are  *)
(* served once each, in the order in which it sent them, and each request   *)
(* is answered once, whichever process does it (server/self-restart.js:     *)
(* "The IDE sees the same PID and the same open pipes the whole time").     *)
(***************************************************************************)
EXTENDS Naturals

CONSTANT
    Messages  \* how many messages the client sends

VARIABLES
    notes,    \* the messages that are not answered, which does not change
    sent,     \* messages sent
    served,   \* messages served
    answered  \* per message: how many answers the client has got

vars == <<notes, sent, served, answered>>

Init ==
    /\ notes \subseteq 1 .. Messages
    /\ sent = 0 /\ served = 0 /\ answered = [k \in 1 .. Messages |-> 0]

Send == sent < Messages /\ sent' = sent + 1 /\ UNCHANGED <<notes, served, answered>>

Serve == served < sent /\ served' = served + 1 /\ UNCHANGED <<notes, sent, answered>>

Answer(k) ==
    /\ k <= served /\ k \notin notes /\ answered[k] = 0
    /\ answered' = [answered EXCEPT ![k] = 1]
    /\ UNCHANGED <<notes, sent, served>>

Next == Send \/ Serve \/ \E k \in 1 .. Messages : Answer(k)

Spec == Init /\ [][Next]_vars

\* Every message is served and every request answered.
FairSpec == Spec /\ WF_vars(Serve) /\ \A k \in 1 .. Messages : WF_vars(Answer(k))

=============================================================================
