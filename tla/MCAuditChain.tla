---------------------------- MODULE MCAuditChain ----------------------------
(* Instances of AuditChain for TLC: all its constants are plain values.    *)
EXTENDS AuditChain

(* No property speaks of a log that was both tampered with and interrupted. *)
OneTrouble == tampers = 0 \/ interrupted = 0
=============================================================================
