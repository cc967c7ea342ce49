--------------------------- MODULE MCMemoryStore ---------------------------
(* Instances of MemoryStore for TLC: menus of calls for the clients. *)
EXTENDS MemoryStore, TLC

CONSTANTS proj, note, plan, r1, r2, r3, r4

SaveNote == [op |-> "save", project |-> proj, category |-> note, match |-> TRUE, vector |-> TRUE]

\* Three clients on one memory: save with a vector, update, delete, search.
Lifecycle == {SaveNote, [op |-> "update", match |-> FALSE], [op |-> "delete"],
              [op |-> "search", project |-> proj, category |-> Nobody, vector |-> TRUE]}

\* Sessions: started, observed, ended with and without a summary.
AgentSessions == {[op |-> "start", project |-> proj], [op |-> "observe"],
                  [op |-> "end", summary |-> TRUE], [op |-> "end", summary |-> FALSE]}

Both == Lifecycle \cup AgentSessions

Symmetry == Permutations(Reqs)
=============================================================================
