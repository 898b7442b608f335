--------------------------- MODULE MCIntegrateRun --------------------------
(* Two further commits, made here or by a colleague.                       *)
EXTENDS IntegrateRun

MCMore == {"mine", "theirs"}
=============================================================================
