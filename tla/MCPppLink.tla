----------------------------- MODULE MCPppLink -----------------------------
(* PppLink on two phones, one of them of a known model, two RFCOMM channel *)
(* identifiers and two pcb addresses.                                      *)
EXTENDS PppLink
=============================================================================
