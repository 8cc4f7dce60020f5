----------------------------- MODULE MCCodeMode -----------------------------
(* A small instance of CodeMode: scripts with several calls in progress.    *)
EXTENDS CodeMode
=============================================================================
