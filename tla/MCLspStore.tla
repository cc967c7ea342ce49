----------------------------- MODULE MCLspStore -----------------------------
(* An instance of LspStore for TLC. *)
EXTENDS LspStore

CONSTANTS p1, p2, r1, r2, r3

\* Everything on one path, and a second open document for build_index.
Races == {[op |-> o, path |-> p1] : o \in {"open", "update", "close"}}
           \cup {[op |-> "open", path |-> p2], [op |-> "build"]}

TwoSymbols == [p \in Paths |-> [r \in Reqs |-> 2]]
=============================================================================
