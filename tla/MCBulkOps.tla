------------------------------ MODULE MCBulkOps ------------------------------
EXTENDS BulkOps, TLC
CONSTANTS t1, t2, main1, topic, feat

MCHome == t1 :> main1 @@ t2 :> topic

Call(operation, dry, force, create, new) == [op |-> operation, dryRun |-> dry, force |-> force, create |-> create, untracked |-> new]
Plain(operation) == Call(operation, FALSE, FALSE, FALSE, FALSE)

MCCommands ==
  {Plain(o) : o \in Operations \ {"clean"}} \cup {Call(o, TRUE, FALSE, FALSE, FALSE) : o \in {"clean", "pop", "switch"}}
    \cup {Call("switch", FALSE, f, TRUE, FALSE) : f \in BOOLEAN} \cup {Call("switch", FALSE, TRUE, FALSE, FALSE)}
    \cup {Call("tag", FALSE, TRUE, FALSE, FALSE), Call("save", FALSE, FALSE, FALSE, TRUE), Plain("clean")}
=============================================================================
