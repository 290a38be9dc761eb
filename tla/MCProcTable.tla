---------------------------- MODULE MCProcTable ----------------------------
(* Instances of ProcTable for TLC: init and two or three more processes. *)
EXTENDS ProcTable
=============================================================================
