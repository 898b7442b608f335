----------------------------- MODULE MCBulkPull -----------------------------
(* A main working tree and a linked worktree, every combination of flags.  *)
EXTENDS BulkPull

CONSTANTS main, linked, older

MCTrees  == {main, linked}
MCLinked == {linked}

Flags(strategies, dryRuns) == [strategy : strategies, stash : BOOLEAN, dryRun : dryRuns]

MCRequests == Flags({"merge", "rebase", "ff-only"}, {FALSE}) \cup Flags({"merge"}, {TRUE})
=============================================================================
