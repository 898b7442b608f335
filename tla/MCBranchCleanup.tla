-------------------------- MODULE MCBranchCleanup --------------------------
EXTENDS BranchCleanup

CONSTANTS main, topic, bot, c0, c1, c2, c3

MCTarget(major) == [b \in Names |-> [kind |-> IF b = bot THEN "github_actions" ELSE "none",
                                     version |-> [major |-> 4, minor |-> 0, bare |-> TRUE],
                                     pins |-> {[major |-> major, minor |-> 0, bare |-> TRUE]}]]
Start(t, b, linkedTo, stale, major) ==
  [head |-> [n \in Names |-> CASE n = main -> {c0, c1} [] n = topic -> t [] OTHER -> {}],
   tracking |-> [n \in Names |-> CASE n = main -> {c0} [] n = topic -> t \ {c3} [] OTHER -> b],
   remote |-> [n \in Names |-> CASE n = main -> {c0} [] n = topic -> t \ {c3} [] OTHER -> b],
   old |-> stale, linked |-> linkedTo, target |-> MCTarget(major)]

MCStarts == {Start({c0, c1}, {c0, c2}, None, {}, 4), Start({c0, c1}, {c0}, None, {}, 4),
             Start({c0, c3}, {c0}, None, {topic}, 3), Start({c0, c3}, {}, topic, {topic}, 4)}

Ask(mode, types, remoteToo, dry, force, confirm) ==
  [mode |-> mode, types |-> types, remote |-> remoteToo, bots |-> FALSE, dry |-> dry, force |-> force,
   confirm |-> confirm]
MCRequests == {Ask("bulk", Types, TRUE, FALSE, FALSE, "ask"), Ask("bulk", {"stale"}, FALSE, FALSE, FALSE, "refuse"),
               Ask("bulk", {"merged"}, TRUE, FALSE, FALSE, "yes"), Ask("bulk", {"gone"}, FALSE, TRUE, FALSE, "yes"),
               Ask("single", Types, TRUE, FALSE, FALSE, "yes"),
               [Ask("single", Types, TRUE, FALSE, FALSE, "yes") EXCEPT !.bots = TRUE],
               Ask("wizard", {"merged", "stale"}, TRUE, FALSE, FALSE, "yes"),
               Ask("wizard", {"merged"}, FALSE, FALSE, TRUE, "yes")}
=============================================================================
