----------------------------- MODULE MCSession -----------------------------
(* This machine and one node of a cluster. *)
EXTENDS PerfSession

CONSTANTS local, remote

OneNode == {{local}, {remote}}   \* a script measures one of them
=============================================================================
