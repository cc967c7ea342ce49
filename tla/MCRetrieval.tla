----------------------------- MODULE MCRetrieval -----------------------------
(* An instance of Retrieval for TLC. *)
EXTENDS Retrieval

CONSTANTS m1, m2, m3, c1, c2, s1, f1, f2, f3, q1

\* One that matches until it is changed, one that matches always and is
\* shortened, one that matches only after a change.
SomeVersions ==
    [m \in Ids |->
        CASE m = m1 -> <<[match |-> TRUE, tokens |-> 2], [match |-> FALSE, tokens |-> 1]>>
          [] m = m2 -> <<[match |-> TRUE, tokens |-> 3], [match |-> TRUE, tokens |-> 1]>>
          [] m = m3 -> <<[match |-> FALSE, tokens |-> 1], [match |-> TRUE, tokens |-> 4]>>]

SomeCategories   == [m \in Ids |-> IF m = m3 THEN c2 ELSE c1]
SomeSimilarities == [m \in Ids |-> CASE m = m1 -> -1 [] m = m2 -> 1 [] m = m3 -> 2]

SomeRankings == {<<f1, f2, f3>>, <<f3, f1>>}
Types        == [f \in {f1, f2, f3} |-> IF f = f2 THEN "md" ELSE "rs"]

SomeDefaults ==
    [op \in {"search", "symbols", "list", "context", "memory"} |->
        IF op = "context" THEN 5 ELSE 2]

\* Each tool with a number it takes, with one at its boundary, and over the
\* wire with one below and one above its default.
Requests ==
    {[op |-> "search", limit |-> 0, types |-> {}, wire |-> FALSE],
     [op |-> "search", limit |-> 1, types |-> {}, wire |-> FALSE],
     [op |-> "search", limit |-> 1, types |-> {"rs"}, wire |-> FALSE],
     [op |-> "search", limit |-> 1, types |-> {"rs"}, wire |-> TRUE],
     [op |-> "search", limit |-> 3, types |-> {}, wire |-> TRUE],
     [op |-> "symbols", limit |-> 0, wire |-> FALSE],
     [op |-> "symbols", limit |-> 0, wire |-> TRUE],
     [op |-> "list", limit |-> 1, category |-> All, wire |-> FALSE],
     [op |-> "list", limit |-> 2, category |-> c1, wire |-> FALSE],
     [op |-> "list", limit |-> 1, category |-> c1, wire |-> TRUE],
     [op |-> "list", limit |-> 3, category |-> All, wire |-> TRUE],
     [op |-> "get", id |-> m1],
     [op |-> "context", budget |-> 4, category |-> All, vector |-> TRUE, wire |-> FALSE],
     [op |-> "context", budget |-> 0, category |-> All, vector |-> FALSE, wire |-> FALSE],
     [op |-> "context", budget |-> 1, category |-> All, vector |-> FALSE, wire |-> TRUE],
     [op |-> "memory", limit |-> 2, category |-> c1, vector |-> TRUE, wire |-> FALSE],
     [op |-> "memory", limit |-> 1, category |-> All, vector |-> FALSE, wire |-> TRUE],
     [op |-> "summary"]}
=============================================================================
