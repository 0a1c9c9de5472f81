---------------------------- MODULE MCProcTable -----------------------------
(* Three processes besides entry 0; short child lists and waits.           *)
EXTENDS ProcTable
=============================================================================
