---------------------------- MODULE MCAuditRing ----------------------------
(* A ring of two slots, the main thread and a TX thread with two events    *)
(* each: five events, so the ring wraps around and overflows.              *)
EXTENDS AuditRing

TxThreads == {"tx"}
=============================================================================
