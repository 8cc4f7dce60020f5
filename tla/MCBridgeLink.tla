---------------------------- MODULE MCBridgeLink ----------------------------
(* A small instance of BridgeLink: two ports, one of them the default.      *)
EXTENDS BridgeLink
=============================================================================
