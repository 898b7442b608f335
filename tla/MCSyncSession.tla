---------------------------- MODULE MCSyncSession ----------------------------
(* Two repositories, two workers and sequences of invocations; the sets of  *)
(* invocations single out what a run is about.                              *)
EXTENDS SyncSession

CONSTANTS r1, r2

MCTargets == {r1, r2}

RealCalls  == [ui : {"tui", "plain"}, resume : BOOLEAN, dryRun : {FALSE}]
TUIResumes == {c \in RealCalls : c.ui = "tui"}
==============================================================================
