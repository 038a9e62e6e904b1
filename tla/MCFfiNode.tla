----------------------------- MODULE MCFfiNode ------------------------------
(* Model checking of FfiNode: concurrent calls of a C application. *)
EXTENDS FfiNode
=============================================================================
