----------------------------- MODULE MCWatcher -----------------------------
(* Two repositories, the path of the first a prefix of the second's.  The  *)
(* work tree of the second changes: clean, a file staged and modified,     *)
(* or nothing but a conflict.                                              *)
EXTENDS Watcher

MCMatching == [r \in Repos |-> IF r = "repo2" THEN {"repo", "repo2"} ELSE {r}]

Tree(staged, modified, conflict) ==
  [k \in Kinds |-> IF k = "staged" THEN staged ELSE IF k = "modified" THEN modified
                   ELSE IF k = "conflict" THEN conflict ELSE {}]

MCStatuses == [r \in Repos |-> IF r = "repo" THEN {Tree({}, {}, {})} ELSE
  {Tree({}, {}, {}), Tree({"f"}, {"f"}, {}), Tree({}, {}, {"f"})}]

MCBranches == [r \in Repos |-> IF r = "repo" THEN {"main"} ELSE {"main", NoBranch}]
=============================================================================
