---------------------------- MODULE MCToolLanes ----------------------------
(* A scenario for ToolLanes: keys 2 and 3 are tabs.                         *)
EXTENDS ToolLanes

CONSTANTS a, b, b1, b2, x

\* A plain call a on two tabs, a batch b on one of them with a step b1 on the
\* other one and a step b2 on its own, and a legacy call x that moves the
\* active tab.  While a has tab 2 and b has tab 3, a and b1 want the tab of the
\* other.
BatchCalls == {a, b, b1, b2, x}
BatchNeed == a :> {2, 3} @@ b :> {3} @@ b1 :> {2} @@ b2 :> {3} @@ x :> {2}
BatchParent == a :> NoCall @@ b :> NoCall @@ b1 :> b @@ b2 :> b @@ x :> NoCall

=============================================================================
