---------------------------- MODULE MCIpcServer ----------------------------
(* Two viewers, two slots, one subscription; a write buffer of a line and   *)
(* a half and a kernel buffer of half a line.                              *)
EXTENDS IpcServer

TwoViewers == {"v1", "v2"}
=============================================================================
