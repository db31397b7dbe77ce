-------------------------- MODULE MasterSilenceMC ---------------------------
(* Small instances of MasterSilence, with the values of PowerControlMC.     *)
EXTENDS MasterSilence, PowerControlMC
=============================================================================
