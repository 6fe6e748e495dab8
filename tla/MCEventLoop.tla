---------------------------- MODULE MCEventLoop ----------------------------
(* Small instances of EventLoop. *)
EXTENDS EventLoop

=============================================================================
