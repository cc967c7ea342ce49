--------------------------- MODULE MCSearchIndex ---------------------------
(* Instances of SearchIndex for TLC: menus of calls for the clients. *)
EXTENDS SearchIndex, TLC

CONSTANTS f1, w1, w2, r1, r2, r3

\* Three clients on one path: any two of them can overlap at any step while
\* the third commits or clears in between.
OnePath == {[op |-> "index_file", path |-> f1], [op |-> "delete", path |-> f1],
            [op |-> "clear"]}

\* Tools with several phases: a scan that clears first, and a workspace import
\* of up to two records, beside a plain upsert.
LongCalls == {[op |-> "index_file", path |-> f1], [op |-> "directory", clearFirst |-> TRUE],
              [op |-> "workspace", clearFirst |-> TRUE]}

Symmetry == Permutations(Reqs)
=============================================================================
