--------------------------- MODULE MCWorkspaceSync ---------------------------
EXTENDS WorkspaceSync

CONSTANTS top, inner, lost, ring, pair, away, none, unset, pull, reset

(* The configuration of the workspace, with a workspace below it that      *)
(* names it as its parent; one whose parent is missing; two that are each  *)
(* other's parent.                                                         *)
File(state, parent, workspaces, setting) ==
  [state |-> state, parent |-> parent, workspaces |-> workspaces, setting |-> setting]
MCFiles ==
  [d \in {top, inner, lost, ring, pair, away} |->
     CASE d = top   -> File("there", none, {inner, lost}, pull)
       [] d = inner -> File("there", top, {}, reset)
       [] d = lost  -> File("there", away, {}, unset)
       [] d = ring  -> File("there", pair, {}, unset)
       [] d = pair  -> File("there", ring, {}, pull)
       [] d = away  -> File("missing", none, {}, unset)]

W == <<"w">>
A == <<"a">>
B == <<"b">>
O == <<"o">>
S == <<"s">>
C == <<"c">>
G == <<"g">>
MCPaths == {<<>>, <<W>>, <<W, A>>, <<W, B>>, <<W, S \o A>>, <<W, O>>, <<C>>, <<G>>,
            <<O>>, <<O, S>>, <<O, S, A>>, <<S>>, <<B>>, <<A>>, <<S \o A>>}

MCWorkspaces ==
  [forge |-> [kind |-> "forge", dir |-> <<W>>, layout |-> "flat", cleanup |-> TRUE, child |-> "write", recursive |-> FALSE],
   conf  |-> [kind |-> "config", dir |-> <<C>>, layout |-> "name", cleanup |-> FALSE, child |-> "write", recursive |-> TRUE],
   site  |-> [kind |-> "config", dir |-> <<S>>, layout |-> "name", cleanup |-> FALSE, child |-> "link", recursive |-> FALSE],
   bare  |-> [kind |-> "config", dir |-> <<B>>, layout |-> "name", cleanup |-> FALSE, child |-> "none", recursive |-> TRUE],
   other |-> [kind |-> "forge", dir |-> <<O>>, layout |-> "nested", cleanup |-> TRUE, child |-> "link", recursive |-> FALSE],
   twin  |-> [kind |-> "git", dir |-> <<W, A>>, layout |-> "name", cleanup |-> FALSE, child |-> "none", recursive |-> FALSE],
   link  |-> [kind |-> "git", dir |-> <<G>>, layout |-> "name", cleanup |-> FALSE, child |-> "link", recursive |-> FALSE]]
MCForge ==
  [forge |-> {[path |-> <<A>>, wanted |-> TRUE], [path |-> <<B>>, wanted |-> FALSE], [path |-> <<S, A>>, wanted |-> FALSE]},
   other |-> {[path |-> <<S, A>>, wanted |-> TRUE]}]
MCListed == {<<>>, <<G>>}
MCInside == [p \in Paths |-> IF p = <<W, A>> THEN [by |-> "user", lists |-> {<<G>>, <<W, A>>}] ELSE NoFile]
MCLinkLists == {<<W, A>>}

MCDisk(dirs, repos, own) ==
  [dirs |-> dirs, repos |-> repos, file |-> [p \in Paths |-> IF p \in own THEN [by |-> "user", lists |-> {<<W, A>>}] ELSE NoFile]]
MCDisks ==
  {MCDisk({<<>>, <<C>>, <<W>>, <<W, B>>, <<W, O>>, <<O>>, <<O, S>>, <<O, S, A>>}, {<<>>, <<W, B>>, <<O, S, A>>}, {<<C>>}),
   MCDisk({<<>>, <<W>>, <<W, A>>, <<W, O>>, <<G>>}, {<<W, A>>, <<G>>}, {<<W>>})}

Ask_(dry, machine, ask, recursive, push) ==
  [dry |-> dry, machine |-> machine, ask |-> ask, recursive |-> recursive, push |-> push]
MCRequests ==
  {Ask_(FALSE, FALSE, TRUE, TRUE, TRUE), Ask_(TRUE, TRUE, FALSE, TRUE, TRUE), Ask_(TRUE, FALSE, TRUE, TRUE, TRUE),
   Ask_(FALSE, TRUE, FALSE, TRUE, FALSE)}
=============================================================================
