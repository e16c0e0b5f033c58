----------------------------- MODULE MCDrivers -----------------------------
(***************************************************************************)
(* Drivers for TLC.                                                        *)
(***************************************************************************)
EXTENDS Drivers
=============================================================================
