---------------------------- MODULE MCStreaming ----------------------------
(* Small instances of StreamingCall: the configurations give the bounds.   *)
EXTENDS StreamingCall
=============================================================================
