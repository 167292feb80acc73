--------------------------- MODULE MCAesMigration ---------------------------
(* Instances of AesMigration for TLC.                                       *)
EXTENDS AesMigration
=============================================================================
