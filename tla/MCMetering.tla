----------------------------- MODULE MCMetering -----------------------------
(***************************************************************************)
(* Metering with numbers small enough for every rounding case to occur.    *)
(***************************************************************************)
EXTENDS Metering
=============================================================================
