----------------------------- MODULE MCCronDaemon -----------------------------
(* Instances of CronDaemon for TLC.                                         *)
EXTENDS CronDaemon, TLC
=============================================================================
