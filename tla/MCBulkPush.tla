----------------------------- MODULE MCBulkPush -----------------------------
(* Two remotes, two pushes, and the flags and policies that take different *)
(* paths.                                                                  *)
EXTENDS BulkPush

CONSTANTS origin, backup, root, mine1, mine2, foreign1, hand1

MCRemotes  == {origin, backup}
MCMine     == {mine1, mine2}
MCForeign  == {foreign1}
MCUnsigned == {hand1}

Plain ==
  [force |-> FALSE, refspec |-> "none", targets |-> <<origin>>, setUpstream |-> FALSE,
   dryRun |-> FALSE, protected |-> FALSE, mode |-> "lease-only", foreign |-> "block"]

Both == [Plain EXCEPT !.targets = <<origin, backup>>]

MCRequests ==
  {Plain, [Both EXCEPT !.setUpstream = TRUE],
   [Plain EXCEPT !.force = TRUE], [Both EXCEPT !.force = TRUE],
   [Plain EXCEPT !.refspec = "plain", !.force = TRUE],
   [Both EXCEPT !.refspec = "plus"],
   [Plain EXCEPT !.refspec = "plus", !.mode = "allow"],
   [Plain EXCEPT !.force = TRUE, !.mode = "deny", !.foreign = "allow"],
   [Plain EXCEPT !.protected = TRUE], [Plain EXCEPT !.dryRun = TRUE]}
=============================================================================
