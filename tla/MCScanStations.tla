--------------------------- MODULE MCScanStations ---------------------------
(* Instances of ScanStations for TLC.                                       *)
EXTENDS ScanStations

CONSTANTS s1, s2
=============================================================================
