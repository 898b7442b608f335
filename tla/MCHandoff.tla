----------------------------- MODULE MCHandoff -----------------------------
EXTENDS Handoff

CONSTANTS r1, r2, base, edit, key, marker

MCFound(on, upstream, files, stash, local) ==
  [url |-> TRUE, on |-> on, local |-> [b \in Branches |-> IF b = "work" THEN local ELSE IF b = "main" THEN {base} ELSE {}],
   tracking |-> [b \in Branches |-> IF b = "main" \/ (b = "work" /\ upstream) THEN {base} ELSE {}],
   remote |-> [b \in Branches |-> IF b = "main" \/ (b = "work" /\ upstream) THEN {base} ELSE {}],
   upstream |-> upstream, files |-> files, stash |-> stash, merging |-> "no"]

Idle == MCFound("work", TRUE, {}, {}, {base})
MCPair(first, second) == [r \in Repos |-> IF r = r1 THEN first ELSE second]
MCStarts == {MCPair(Idle, Idle), MCPair(MCFound("work", FALSE, {edit}, {}, {base}), Idle),
             MCPair(MCFound("work", TRUE, {key}, {}, {base, edit}), [Idle EXCEPT !.files = {edit}]),
             MCPair(MCFound("work", FALSE, {}, {}, {base}), MCFound("work", TRUE, {}, {key}, {base})),
             MCPair([Idle EXCEPT !.url = FALSE], Idle)}

Ask(cmd, dry, force, push, yes, ed, allow) ==
  [cmd |-> cmd, dry |-> dry, force |-> force, push |-> push, yes |-> yes, edit |-> ed, allow |-> allow]
T == TRUE
F == FALSE
MCRequests ==
  {Ask("check", F, F, F, F, F, F), Ask("start", F, F, F, F, F, F), Ask("start", T, F, F, F, F, F),
   Ask("end", F, F, T, F, F, F), Ask("end", F, F, F, F, F, F), Ask("end", T, F, T, F, F, F), Ask("end", F, T, T, F, F, F),
   Ask("end", T, T, T, F, F, F),
   Ask("commit", F, F, F, T, F, F), Ask("commit", F, F, F, F, F, F), Ask("commit", F, F, F, T, F, T),
   Ask("commit", F, F, F, F, T, F), Ask("commit", T, F, F, F, T, F)}
=============================================================================
