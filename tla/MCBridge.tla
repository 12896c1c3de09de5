------------------------------ MODULE MCBridge ------------------------------
(* Bridge with one phone at a time and one or two networks.                *)
EXTENDS Bridge
=============================================================================
