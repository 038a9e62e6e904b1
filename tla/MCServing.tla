----------------------------- MODULE MCServing ------------------------------
(***************************************************************************)
(* Model checking of a ServingSession inside the two programs that embed   *)
(* it: wconnect's daemon, and an application that uses the C interface.    *)
(* A behaviour is of one of the two from its initial state on.             *)
(***************************************************************************)
EXTENDS Daemon, FfiServing

vars == <<sessionVars, daemonVars, ffiVars>>

Init == (DaemonInit /\ FfiIdle) \/ (FfiInit /\ DaemonIdle)

Next ==
    \/ main # "off" /\ DaemonNext /\ UNCHANGED ffiVars
    \/ main = "off" /\ FfiNext /\ UNCHANGED daemonVars

Spec == Init /\ [][Next]_vars /\ SessionFairness /\ DaemonFairness /\ FfiFairness

\* All variables have their types.
TypeOK == DaemonTypeOK /\ FfiTypeOK
=============================================================================
