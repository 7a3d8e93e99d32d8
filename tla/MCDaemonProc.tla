---------------------------- MODULE MCDaemonProc ----------------------------
(* Small instances of DaemonProc for TLC: three pids.                      *)
EXTENDS DaemonProc, TLC
MCPids == 1..3
MCNoPid == 0
=============================================================================
