--------------------------- MODULE MCCloneUpdate ---------------------------
(* Every action type and strategy a plan can hold.                         *)
EXTENDS CloneUpdate

Updates(strategies) == [type : {"update"}, strategy : strategies]

MCRequests == Updates({"reset", "pull", "rebase", "fetch", "clone"}) \cup [type : {"clone"}, strategy : {"reset"}]
=============================================================================
