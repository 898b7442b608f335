--------------------------- MODULE MCSyncExecutor ---------------------------
(* A small instance of SyncExecutor: two workers, every plan of at most two *)
(* actions, and a plan of three, where an action waits for a busy pool.     *)
EXTENDS SyncExecutor

CONSTANTS w1, w2

(* "update" takes the same path through the executor as "clone".            *)
MCTypes == {"clone", "skip", "delete"}
MCPlans == UNION {[1..n -> MCTypes] : n \in 0..2} \cup {<<"clone", "skip", "clone">>}
MCWorkers == {w1, w2}
=============================================================================
