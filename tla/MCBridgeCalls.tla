--------------------------- MODULE MCBridgeCalls ---------------------------
(* Small instances of BridgeCalls: two processes and a call of each, or both *)
(* calls of the secondary.                                                  *)
EXTENDS BridgeCalls

CONSTANTS p1, p2, c1, c2

TwoHomes == c1 :> p1 @@ c2 :> p2

AtSecondary == c1 :> p2 @@ c2 :> p2

=============================================================================
