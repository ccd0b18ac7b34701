--------------------------- MODULE MCCloudEnricher ---------------------------
(* Instances of CloudEnricher for TLC.                                      *)
EXTENDS CloudEnricher, TLC
=============================================================================
