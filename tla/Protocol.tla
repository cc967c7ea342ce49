------------------------------ MODULE Protocol ------------------------------
(***************************************************************************)
(* The plugin's QUIC server: one bidirectional stream and one task for     *)
(* each request (protocol/server.rs), framing, dispatch and the conversion *)
(* of arguments (protocol/handler.rs), the boot flag, and the end of the   *)
(* process on a signal.  QUIC and the tokio runtime are external: a stream *)
(* delivers its bytes in order or breaks; a process that leaves main drops *)
(* the tasks where they await and waits for the work its threads have      *)
(* begun, which is never cut off.                                          *)
(*                                                                         *)
(* A request is abstracted to its kind, to whether its frame can be read,  *)
(* and, for a tool call, to its tool and the JSON kind of the one argument *)
(* the tool reads.                                                         *)
(***************************************************************************)
EXTENDS Integers, FiniteSets

CONSTANTS Streams,
          Menu,        \* the requests a caller may send
          MaxFaults    \* bound on panics, oversized answers and broken streams

\* JSON kinds an argument has in the caller's hands.
ArgKinds  == {"absent", "null", "boolean", "integer", "fraction", "text"}
Lifecycle == {"register", "boot", "shutdown", "health", "list"}
Requests  == [kind : Lifecycle \cup {"unsupported", "empty"}, frame : {"whole", "bad"}]
               \cup [kind : {"tool"}, frame : {"whole", "bad"},
                     tool : {"position", "paged", "named", "unknown"}, arg : ArgKinds]

ASSUME MenuAssumption  == Menu \subseteq Requests
ASSUME LimitAssumption == MaxFaults \in Nat

NoRequest == [kind |-> "none"]
NoReply   == [kind |-> "none"]

VARIABLES
    booted,     \* RequestHandler.booted
    cancelled,  \* the cancellation token, set by SIGINT or SIGTERM
    endpoint,   \* "open", "closed" by the accept loop, "leaving" main, "exited"
    stage,      \* where the task of a stream is
    request, reply,
    faults,
    ran,        \* history: streams whose request took effect
    begun,      \* history: those whose tool a thread has begun and neither finished
                \* nor seen fail
    flags       \* history: values the boot flag had while the stream was open

vars == <<booted, cancelled, endpoint, stage, request, reply, faults, ran, begun, flags>>

Settled == {"answered", "lost"}
Stages  == {"unsent", "sent", "reading", "dispatch", "running", "working", "writing", "sending"}
              \cup Settled
Replies == [kind : Lifecycle, healthy : BOOLEAN] \cup [kind : {"ok"}]
             \cup [kind : {"err"}, why : {"invalid", "unsupported", "unknown", "missing", "failed"}]

TypeOK ==
    /\ booted \in BOOLEAN /\ cancelled \in BOOLEAN
    /\ endpoint \in {"open", "closed", "leaving", "exited"}
    /\ stage \in [Streams -> Stages]
    /\ request \in [Streams -> Requests \cup {NoRequest}]
    /\ reply \in [Streams -> Replies \cup {NoReply}]
    /\ faults \in 0 .. MaxFaults
    /\ ran \in SUBSET Streams /\ begun \in SUBSET Streams
    /\ flags \in [Streams -> SUBSET BOOLEAN]

Init ==
    /\ booted = FALSE /\ cancelled = FALSE /\ endpoint = "open"
    /\ stage = [s \in Streams |-> "unsent"]
    /\ request = [s \in Streams |-> NoRequest]
    /\ reply = [s \in Streams |-> NoReply]
    /\ faults = 0 /\ ran = {} /\ begun = {}
    /\ flags = [s \in Streams |-> {}]

-----------------------------------------------------------------------------
(* Conversions of an argument *)

\* protobuf's Struct has one kind of number, a double (the caller's side).
ToWire(json) == IF json \in {"integer", "fraction"} THEN "number" ELSE json

\* value_to_json: a number becomes a float, whatever it was.
FromWire(wire) == IF wire = "number" THEN "float" ELSE wire

\* The argument the tool is given.
Received(s) == FromWire(ToWire(request[s].arg))

\* What as_u64 and as_str make of it: as_u64 has no value for a float.
ReadAs(type, json) ==
    IF type = "integer" THEN json = "integer" ELSE json = "text"

\* lsp_goto_definition and its like need a line, index_file a path; search has
\* a default for its limit.
Missing(s) == \/ request[s].tool = "position" /\ ~ReadAs("integer", Received(s))
              \/ request[s].tool = "named" /\ ~ReadAs("text", Received(s))

-----------------------------------------------------------------------------
(* One stream *)

Goto(s, next) == stage' = [stage EXCEPT ![s] = next]
Fault         == faults < MaxFaults /\ faults' = faults + 1

\* The caller opens a stream and sends a request.
Send(s) ==
    /\ stage[s] = "unsent" /\ endpoint = "open"
    /\ \E q \in Menu : request' = [request EXCEPT ![s] = q]
    /\ flags' = [flags EXCEPT ![s] = {booted}]
    /\ Goto(s, "sent")
    /\ UNCHANGED <<booted, cancelled, endpoint, reply, faults, ran, begun>>

\* accept_bi and the token race in a select: also after the signal a stream
\* may win, until the endpoint is closed.
Accept(s) ==
    /\ stage[s] = "sent" /\ endpoint = "open"
    /\ Goto(s, "reading")
    /\ UNCHANGED <<booted, cancelled, endpoint, request, reply, faults, ran, begun, flags>>

\* The connection's loop has seen the token, or the endpoint has closed.
NotAccepted(s) ==
    /\ stage[s] = "sent" /\ (cancelled \/ endpoint # "open")
    /\ Goto(s, "lost")
    /\ UNCHANGED <<booted, cancelled, endpoint, request, reply, faults, ran, begun, flags>>

Read(s) ==
    /\ stage[s] = "reading" /\ request[s].frame = "whole"
    /\ Goto(s, "dispatch")
    /\ UNCHANGED <<booted, cancelled, endpoint, request, reply, faults, ran, begun, flags>>

\* Mutation: a frame that cannot be read is waited for until the endpoint closes.
ReadWaits(s) ==
    /\ stage[s] = "reading" /\ endpoint # "open"
    /\ Goto(s, "lost")
    /\ UNCHANGED <<booted, cancelled, endpoint, request, reply, faults, ran, begun, flags>>

\* Longer than 16 MB, cut short or not decodable: dropped without an answer.
ReadFails(s) ==
    /\ stage[s] = "reading" /\ (request[s].frame = "bad" \/ endpoint # "open")
    /\ Goto(s, "lost")
    /\ UNCHANGED <<booted, cancelled, endpoint, request, reply, faults, ran, begun, flags>>

Respond(s, r) == reply' = [reply EXCEPT ![s] = r] /\ Goto(s, "writing")
Error(why)    == [kind |-> "err", why |-> why]

\* Mutation: health reports that the services run, booted or not.
HealthAlwaysGood(s) ==
    /\ stage[s] = "dispatch" /\ request[s].kind \in Lifecycle
    /\ booted' = CASE request[s].kind = "boot"     -> TRUE
                   [] request[s].kind = "shutdown" -> FALSE
                   [] OTHER                        -> booted
    /\ flags' = [t \in Streams |-> IF stage[t] \in {"unsent"} \cup Settled
                                   THEN flags[t] ELSE flags[t] \cup {booted'}]
    /\ Respond(s, [kind |-> request[s].kind, healthy |-> TRUE])
    /\ ran' = ran \cup {s}
    /\ UNCHANGED <<cancelled, endpoint, request, faults, begun>>

\* Boot sets the flag, shutdown clears it and stops nothing, health reads it.
HandleLifecycle(s) ==
    /\ stage[s] = "dispatch" /\ request[s].kind \in Lifecycle
    /\ booted' = CASE request[s].kind = "boot"     -> TRUE
                   [] request[s].kind = "shutdown" -> FALSE
                   [] OTHER                        -> booted
    /\ flags' = [t \in Streams |-> IF stage[t] \in {"unsent"} \cup Settled
                                   THEN flags[t] ELSE flags[t] \cup {booted'}]
    /\ Respond(s, [kind |-> request[s].kind, healthy |-> booted])
    /\ ran' = ran \cup {s}
    /\ UNCHANGED <<cancelled, endpoint, request, faults, begun>>

\* Mutation: a request without a payload is refused without a code.
RefuseBlank(s) ==
    /\ stage[s] = "dispatch" /\ request[s].kind = "empty"
    /\ Respond(s, [kind |-> "err"])
    /\ UNCHANGED <<booted, cancelled, endpoint, request, faults, ran, begun, flags>>

Refuse(s) ==
    /\ stage[s] = "dispatch"
    /\ \/ request[s].kind = "unsupported" /\ Respond(s, Error("unsupported"))
       \/ request[s].kind = "empty" /\ Respond(s, Error("invalid"))
       \/ request[s].kind = "tool" /\ request[s].tool = "unknown" /\ Respond(s, Error("unknown"))
    /\ UNCHANGED <<booted, cancelled, endpoint, request, faults, ran, begun, flags>>

\* The tool checks its arguments first.  It runs before a boot, too.
CallTool(s) ==
    /\ stage[s] = "dispatch" /\ request[s].kind = "tool" /\ request[s].tool # "unknown"
    /\ IF Missing(s) THEN Respond(s, Error("missing")) ELSE Goto(s, "running") /\ UNCHANGED reply
    /\ UNCHANGED <<booted, cancelled, endpoint, request, faults, ran, begun, flags>>

\* A thread takes the tool's work: one of the blocking pool the closure that the
\* task spawns and awaits, or the task's own, for the tools that block inside it.
ToolBegins(s) ==
    /\ stage[s] = "running" /\ s \notin ran
    /\ Goto(s, "working")
    /\ begun' = begun \cup {s}
    /\ UNCHANGED <<booted, cancelled, endpoint, request, reply, faults, ran, flags>>

\* What the tool changes, before it answers, fails or panics.
ToolWorks(s) ==
    /\ stage[s] = "working" /\ s \notin ran
    /\ ran' = ran \cup {s}
    /\ UNCHANGED <<booted, cancelled, endpoint, stage, request, reply, faults, begun, flags>>

\* Where the stream goes when its work is over: nobody waits for it any more once
\* main has been left.
After(next) == IF endpoint = "leaving" THEN "lost" ELSE next


ToolEnds(s) ==
    /\ stage[s] = "working" /\ s \in ran
    /\ Goto(s, After("running"))
    /\ begun' = begun \ {s}
    /\ UNCHANGED <<booted, cancelled, endpoint, request, reply, faults, ran, flags>>

\* Mutation: the answer goes out before the work is done.
AnswerEarly(s) ==
    /\ stage[s] = "running"
    /\ Respond(s, [kind |-> "ok"])
    /\ UNCHANGED <<booted, cancelled, endpoint, request, faults, ran, begun, flags>>

ToolSucceeds(s) ==
    /\ stage[s] = "running" /\ s \in ran
    /\ Respond(s, [kind |-> "ok"])
    /\ UNCHANGED <<booted, cancelled, endpoint, request, faults, ran, begun, flags>>

\* The work fails, or panics in a blocking closure, after some of its effects or
\* none: an error.
ToolFails(s) ==
    /\ stage[s] = "working"
    /\ Fault
    /\ reply' = IF endpoint = "leaving" THEN reply ELSE [reply EXCEPT ![s] = Error("failed")]
    /\ Goto(s, After("writing"))
    /\ begun' = begun \ {s}
    /\ UNCHANGED <<booted, cancelled, endpoint, request, ran, flags>>

\* A panic inside the task ends the task of this stream and no other.
ToolPanics(s) ==
    /\ stage[s] = "working"
    /\ Fault
    /\ Goto(s, "lost")
    /\ begun' = begun \ {s}
    /\ UNCHANGED <<booted, cancelled, endpoint, request, reply, ran, flags>>

\* The answer is in QUIC's buffer and the task of the stream is done.
Write(s) ==
    /\ stage[s] = "writing" /\ endpoint = "open"
    /\ Goto(s, "sending")
    /\ UNCHANGED <<booted, cancelled, endpoint, request, reply, faults, ran, begun, flags>>

\* The answer is longer than 16 MB, the caller is gone, or the endpoint closed.
WriteFails(s) ==
    /\ stage[s] = "writing"
    /\ \/ endpoint # "open" /\ UNCHANGED faults
       \/ endpoint = "open" /\ Fault
    /\ Goto(s, "lost")
    /\ UNCHANGED <<booted, cancelled, endpoint, request, reply, ran, begun, flags>>

\* Nobody waits for the buffer to be sent: a close abandons it.
Deliver(s) ==
    /\ stage[s] = "sending"
    /\ \/ endpoint = "open" /\ Goto(s, "answered")
       \/ endpoint # "open" /\ Goto(s, "lost")
    /\ UNCHANGED <<booted, cancelled, endpoint, request, reply, faults, ran, begun, flags>>

-----------------------------------------------------------------------------
(* The process *)

Signal ==
    /\ ~cancelled
    /\ cancelled' = TRUE
    /\ UNCHANGED <<booted, endpoint, stage, request, reply, faults, ran, begun, flags>>

\* The accept loop sees the token and closes the endpoint, open streams too.
CloseEndpoint ==
    /\ cancelled /\ endpoint = "open"
    /\ endpoint' = "closed"
    /\ UNCHANGED <<booted, cancelled, stage, request, reply, faults, ran, begun, flags>>

\* Mutation: the process ends at once, whatever its threads are doing.
LeaveAbruptly ==
    /\ endpoint = "closed"
    /\ endpoint' = "exited"
    /\ stage' = [s \in Streams |-> IF stage[s] \in {"unsent"} \cup Settled THEN stage[s] ELSE "lost"]
    /\ UNCHANGED <<booted, cancelled, request, reply, faults, ran, begun, flags>>

\* main returns and the runtime is dropped: tasks end where they await, work that
\* no thread has begun never does, and work that one has begun goes on.
Leave ==
    /\ endpoint = "closed"
    /\ endpoint' = "leaving"
    /\ stage' = [s \in Streams |-> IF stage[s] \in {"unsent", "working"} \cup Settled
                                   THEN stage[s] ELSE "lost"]
    /\ UNCHANGED <<booted, cancelled, request, reply, faults, ran, begun, flags>>

\* The runtime has waited for the last of its threads.
Exit ==
    /\ endpoint = "leaving"
    /\ \A s \in Streams : stage[s] # "working"
    /\ endpoint' = "exited"
    /\ UNCHANGED <<booted, cancelled, stage, request, reply, faults, ran, begun, flags>>

-----------------------------------------------------------------------------
Step(s) ==
    \/ Accept(s) \/ NotAccepted(s) \/ Read(s) \/ ReadFails(s)
    \/ HandleLifecycle(s) \/ Refuse(s) \/ CallTool(s)
    \/ ToolBegins(s) \/ ToolWorks(s) \/ ToolEnds(s)
    \/ ToolSucceeds(s) \/ ToolFails(s) \/ ToolPanics(s)
    \/ Write(s) \/ WriteFails(s) \/ Deliver(s)

Next ==
    \/ \E s \in Streams : Send(s) \/ Step(s)
    \/ Signal \/ CloseEndpoint \/ Leave \/ Exit

Spec == Init /\ [][Next]_vars

\* Tasks that can run do; nobody has to send, or to signal.
FairSpec ==
    /\ Spec
    /\ \A s \in Streams : WF_vars(Step(s))
    /\ WF_vars(CloseEndpoint) /\ WF_vars(Leave) /\ WF_vars(Exit)

-----------------------------------------------------------------------------
(* Properties *)

\* The caller's view.
Fate(s) == CASE stage[s] = "unsent"   -> "unsent"
             [] stage[s] = "lost"     -> "lost"
             [] stage[s] = "answered" -> IF reply[s].kind = "err" THEN "err" ELSE "ok"
             [] OTHER                 -> "pending"

Abstract == INSTANCE RequestReply WITH
                Requests <- Streams, fate <- [s \in Streams |-> Fate(s)], done <- ran

\* The server keeps the promise of RequestReply: at most one effect, before
\* the answer, a success only after it, and answers that are final.
KeepsPromise == Abstract!Spec

\* A health answer reports a value the boot flag had while the request was
\* open, however boots and shutdowns on other streams overlap it.
HealthIsFresh ==
    \A s \in Streams : reply[s].kind = "health" => reply[s].healthy \in flags[s]

\* Every request that is sent is answered or lost.
EveryStreamSettles == \A s \in Streams : stage[s] = "sent" ~> stage[s] \in Settled


\* tools/lsp.rs:192 declares the line an integer: a caller that sends one is
\* not told that it is missing.
IntegerArguments ==
    \A s \in Streams :
        reply[s] = Error("missing") /\ request[s].tool = "position" =>
            request[s].arg # "integer"
=============================================================================
