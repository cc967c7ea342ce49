----------------------------- MODULE MCProtocol -----------------------------
(* Instances of Protocol for TLC: menus of requests for the callers. *)
EXTENDS Protocol, TLC

CONSTANTS s1, s2

Plain(kind)     == [kind |-> kind, frame |-> "whole"]
Tool(tool, arg) == [kind |-> "tool", frame |-> "whole", tool |-> tool, arg |-> arg]

\* Boot, shutdown and health that overlap, tools that succeed, fail and refuse.
Everything == {Plain("boot"), Plain("shutdown"), Plain("health"), Plain("empty"),
               Plain("unsupported"), [kind |-> "health", frame |-> "bad"],
               Tool("paged", "integer"), Tool("named", "null"), Tool("unknown", "text")}

Positions == {Tool("position", "integer")}
=============================================================================
