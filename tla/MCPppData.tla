----------------------------- MODULE MCPppData -----------------------------
(* PppData over three sessions, with a stream that two frames overflow.    *)
EXTENDS PppData
=============================================================================
