----------------------------- MODULE MCDaemonClient -----------------------------
(* Two callers in two workspaces, or in one.                               *)
EXTENDS DaemonClient
=============================================================================
