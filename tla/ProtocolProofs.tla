--------------------------- MODULE ProtocolProofs ---------------------------
(***************************************************************************)
(* What holds of the server for any number of streams, any menu of         *)
(* requests and any number of faults, and that it implements the contract  *)
(* of RequestReply.                                                        *)
(***************************************************************************)
EXTENDS Protocol, TLAPS

Waiting == {"unsent", "sent", "reading", "dispatch", "running", "working"}

\* A reply is there from the moment it is being written, and none before.
ReplyInv ==
    \A s \in Streams :
        /\ stage[s] \in Waiting => reply[s] = NoReply
        /\ stage[s] \in {"writing", "sending", "answered"} => reply[s] # NoReply
        /\ reply[s] # NoReply /\ reply[s].kind # "err" => s \in ran

\* While a stream is open its flags hold the present value of the boot flag.
FreshInv ==
    \A s \in Streams : stage[s] \notin {"unsent"} \cup Settled => booted \in flags[s]

\* An error is a reply, and none of success or of health.
LEMMA ErrorReplies == \A why : Error(why) # NoReply /\ Error(why).kind = "err"
  BY DEF Error, NoReply

-----------------------------------------------------------------------------
(* Types *)

\* The reply of a lifecycle request, of success and of an error are replies.
LEMMA ReplyTypes ==
    /\ \A k \in Lifecycle, h \in BOOLEAN : [kind |-> k, healthy |-> h] \in Replies
    /\ [kind |-> "ok"] \in Replies
    /\ \A why \in {"invalid", "unsupported", "unknown", "missing", "failed"} :
         Error(why) \in Replies
  BY DEF Replies, Error

\* The state main builds before it serves.
LEMMA InitTyped == Init => TypeOK
<1> SUFFICES ASSUME Init PROVE TypeOK
  OBVIOUS
<1>1. stage \in [Streams -> Stages]
  BY DEF Init, Stages
<1>2. request \in [Streams -> Requests \cup {NoRequest}] /\ reply \in [Streams -> Replies \cup {NoReply}]
  BY DEF Init
<1>3. flags \in [Streams -> SUBSET BOOLEAN] /\ ran \in SUBSET Streams /\ begun \in SUBSET Streams
  BY DEF Init
<1>4. faults \in 0 .. MaxFaults
  BY LimitAssumption DEF Init
<1> QED
  BY <1>1, <1>2, <1>3, <1>4 DEF Init, TypeOK

\* Every step keeps the types.
LEMMA TypeStep == TypeOK /\ [Next]_vars => TypeOK'
<1> SUFFICES ASSUME TypeOK, [Next]_vars PROVE TypeOK'
  OBVIOUS
<1> USE LimitAssumption DEF TypeOK, Goto, Stages, Settled, After
<1>1. ASSUME NEW s \in Streams, Send(s) PROVE TypeOK'
  BY <1>1, MenuAssumption DEF Send
<1>2. ASSUME NEW s \in Streams, Accept(s) \/ NotAccepted(s) \/ Read(s) \/ ReadFails(s)
      PROVE TypeOK'
  BY <1>2 DEF Accept, NotAccepted, Read, ReadFails
<1>3. ASSUME NEW s \in Streams, HandleLifecycle(s) PROVE TypeOK'
  <2>1. booted' \in BOOLEAN
    BY <1>3 DEF HandleLifecycle
  <2>2. flags' \in [Streams -> SUBSET BOOLEAN]
    BY <1>3, <2>1 DEF HandleLifecycle
  <2>3. reply' \in [Streams -> Replies \cup {NoReply}]
    BY <1>3, ReplyTypes DEF HandleLifecycle, Respond
  <2> QED
    BY <1>3, <2>1, <2>2, <2>3 DEF HandleLifecycle, Respond
<1>4. ASSUME NEW s \in Streams, Refuse(s) PROVE TypeOK'
  BY <1>4, ReplyTypes DEF Refuse, Respond
<1>5. ASSUME NEW s \in Streams, CallTool(s) PROVE TypeOK'
  BY <1>5, ReplyTypes DEF CallTool, Respond
<1>6. ASSUME NEW s \in Streams, ToolBegins(s) \/ ToolWorks(s) \/ ToolEnds(s) \/ ToolSucceeds(s)
      PROVE TypeOK'
  BY <1>6, ReplyTypes DEF ToolBegins, ToolWorks, ToolEnds, ToolSucceeds, Respond
<1>7. ASSUME NEW s \in Streams, ToolFails(s) PROVE TypeOK'
  <2>1. reply' \in [Streams -> Replies \cup {NoReply}]
    BY <1>7, ReplyTypes DEF ToolFails
  <2>2. stage' \in [Streams -> Stages]
    BY <1>7 DEF ToolFails
  <2>3. faults' \in 0 .. MaxFaults
    BY <1>7 DEF ToolFails, Fault
  <2> QED
    BY <1>7, <2>1, <2>2, <2>3 DEF ToolFails
<1>8. ASSUME NEW s \in Streams, ToolPanics(s) \/ Write(s) \/ WriteFails(s) \/ Deliver(s)
      PROVE TypeOK'
  BY <1>8 DEF ToolPanics, Write, WriteFails, Deliver, Fault
<1>9. ASSUME Signal \/ CloseEndpoint \/ Leave \/ Exit PROVE TypeOK'
  BY <1>9 DEF Signal, CloseEndpoint, Leave, Exit
<1>10. CASE UNCHANGED vars
  BY <1>10 DEF vars
<1> QED
  BY <1>1, <1>2, <1>3, <1>4, <1>5, <1>6, <1>7, <1>8, <1>9, <1>10 DEF Next, Step

\* The server keeps the types of its state (PluginServer, RequestHandler).
THEOREM TypeCorrect == Spec => []TypeOK
<1>1. Init => TypeOK
  BY InitTyped
<1> QED
  BY <1>1, TypeStep, PTL DEF Spec

-----------------------------------------------------------------------------
(* Health *)

\* Replies appear when they are written, and a success after the effect.
LEMMA ReplyStep == TypeOK /\ ReplyInv /\ [Next]_vars => ReplyInv'
<1> SUFFICES ASSUME TypeOK, ReplyInv, [Next]_vars PROVE ReplyInv'
  OBVIOUS
<1> USE DEF TypeOK, ReplyInv, Waiting, Goto
<1>1. ASSUME NEW s \in Streams,
             Send(s) \/ Accept(s) \/ NotAccepted(s) \/ Read(s) \/ ReadFails(s)
      PROVE ReplyInv'
  BY <1>1 DEF Send, Accept, NotAccepted, Read, ReadFails
<1>2. ASSUME NEW s \in Streams, HandleLifecycle(s) PROVE ReplyInv'
  <2>1. [kind |-> request[s].kind, healthy |-> booted] # NoReply
    BY <1>2 DEF HandleLifecycle, Lifecycle, NoReply
  <2> QED
    BY <1>2, <2>1 DEF HandleLifecycle, Respond
<1>3. ASSUME NEW s \in Streams, Refuse(s) PROVE ReplyInv'
  BY <1>3, ErrorReplies DEF Refuse, Respond
<1>4. ASSUME NEW s \in Streams, CallTool(s) PROVE ReplyInv'
  BY <1>4, ErrorReplies DEF CallTool, Respond
<1>5. ASSUME NEW s \in Streams, ToolBegins(s) \/ ToolWorks(s) \/ ToolEnds(s) PROVE ReplyInv'
  BY <1>5 DEF ToolBegins, ToolWorks, ToolEnds, After
<1>6. ASSUME NEW s \in Streams, ToolSucceeds(s) PROVE ReplyInv'
  BY <1>6 DEF ToolSucceeds, Respond, NoReply
<1>7. ASSUME NEW s \in Streams, ToolFails(s) PROVE ReplyInv'
  BY <1>7, ErrorReplies DEF ToolFails, After
<1>8. ASSUME NEW s \in Streams, ToolPanics(s) \/ Write(s) \/ WriteFails(s) \/ Deliver(s)
      PROVE ReplyInv'
  BY <1>8 DEF ToolPanics, Write, WriteFails, Deliver
<1>9. ASSUME Signal \/ CloseEndpoint \/ Leave \/ Exit PROVE ReplyInv'
  BY <1>9 DEF Signal, CloseEndpoint, Leave, Exit, Settled
<1>10. CASE UNCHANGED vars
  BY <1>10 DEF vars
<1> QED
  BY <1>1, <1>2, <1>3, <1>4, <1>5, <1>6, <1>7, <1>8, <1>9, <1>10 DEF Next, Step

\* The flags of an open stream follow the boot flag.
LEMMA FreshStep == TypeOK /\ FreshInv /\ [Next]_vars => FreshInv'
<1> SUFFICES ASSUME TypeOK, FreshInv, [Next]_vars, NEW t \in Streams,
                    (stage[t] \notin {"unsent"} \cup Settled)'
             PROVE  (booted \in flags[t])'
  BY DEF FreshInv
<1> USE DEF TypeOK, FreshInv, Settled, Goto
<1>1. ASSUME NEW s \in Streams, Send(s) PROVE (booted \in flags[t])'
  BY <1>1 DEF Send
<1>2. ASSUME NEW s \in Streams, HandleLifecycle(s) PROVE (booted \in flags[t])'
  BY <1>2 DEF HandleLifecycle, Respond
<1>3. ASSUME NEW s \in Streams,
             \/ Accept(s) \/ NotAccepted(s) \/ Read(s) \/ ReadFails(s) \/ ToolPanics(s)
             \/ Write(s) \/ WriteFails(s) \/ Deliver(s)
             \/ ToolBegins(s) \/ ToolWorks(s) \/ ToolEnds(s)
      PROVE (booted \in flags[t])'
  BY <1>3 DEF Accept, NotAccepted, Read, ReadFails, ToolPanics, Write, WriteFails, Deliver,
              ToolBegins, ToolWorks, ToolEnds, After
<1>4. ASSUME NEW s \in Streams, Refuse(s) \/ CallTool(s) \/ ToolSucceeds(s) \/ ToolFails(s)
      PROVE (booted \in flags[t])'
  BY <1>4 DEF Refuse, CallTool, ToolSucceeds, ToolFails, Respond, After
<1>5. ASSUME Signal \/ CloseEndpoint \/ Leave \/ Exit PROVE (booted \in flags[t])'
  BY <1>5 DEF Signal, CloseEndpoint, Leave, Exit
<1>6. CASE UNCHANGED vars
  BY <1>6 DEF vars
<1> QED
  BY <1>1, <1>2, <1>3, <1>4, <1>5, <1>6 DEF Next, Step

\* A written health reply stays among the flags its stream has seen.
LEMMA HealthStep ==
    TypeOK /\ ReplyInv /\ FreshInv /\ HealthIsFresh /\ [Next]_vars => HealthIsFresh'
<1> SUFFICES ASSUME TypeOK, ReplyInv, FreshInv, HealthIsFresh, [Next]_vars,
                    NEW t \in Streams, (reply[t].kind = "health")'
             PROVE  (reply[t].healthy \in flags[t])'
  BY DEF HealthIsFresh
<1> USE DEF TypeOK, HealthIsFresh
<1>1. ASSUME NEW s \in Streams, Send(s) PROVE (reply[t].healthy \in flags[t])'
  BY <1>1 DEF Send, ReplyInv, Waiting, NoReply
<1>2. ASSUME NEW s \in Streams, HandleLifecycle(s) PROVE (reply[t].healthy \in flags[t])'
  <2>1. booted \in flags[s] /\ flags[s] \subseteq flags'[s]
    BY <1>2 DEF HandleLifecycle, FreshInv, Settled
  <2>2. flags[t] \subseteq flags'[t]
    BY <1>2 DEF HandleLifecycle
  <2>3. CASE t = s
    BY <1>2, <2>1, <2>3 DEF HandleLifecycle, Respond
  <2>4. CASE t # s
    BY <1>2, <2>2, <2>4 DEF HandleLifecycle, Respond
  <2> QED
    BY <2>3, <2>4
<1>3. ASSUME NEW s \in Streams, Refuse(s) \/ CallTool(s) \/ ToolSucceeds(s) \/ ToolFails(s)
      PROVE (reply[t].healthy \in flags[t])'
  BY <1>3, ErrorReplies DEF Refuse, CallTool, ToolSucceeds, ToolFails, Respond
<1>4. ASSUME UNCHANGED <<reply, flags>> PROVE (reply[t].healthy \in flags[t])'
  BY <1>4
<1> QED
  BY <1>1, <1>2, <1>3, <1>4 DEF Next, Step, vars, Accept, NotAccepted, Read, ReadFails, ToolPanics,
     Write, WriteFails, Deliver, ToolBegins, ToolWorks, ToolEnds, Signal, CloseEndpoint, Leave, Exit

\* A health answer tells a value the boot flag had while the request was open
\* (handle_boot, handle_shutdown and handle_health share one atomic).
THEOREM HealthTellsTheTruth == Spec => []HealthIsFresh
<1>1. Init => TypeOK /\ ReplyInv /\ FreshInv /\ HealthIsFresh
  BY InitTyped DEF Init, ReplyInv, FreshInv, HealthIsFresh, Waiting, NoReply
<1> QED
  BY <1>1, TypeStep, ReplyStep, FreshStep, HealthStep, PTL DEF Spec

-----------------------------------------------------------------------------
(* The contract of RequestReply *)

FateOf == [s \in Streams |-> Fate(s)]

\* A step that changes neither what a caller sees nor the effects.
LEMMA Stutters ==
    ASSUME FateOf' = FateOf, ran' = ran
    PROVE  UNCHANGED Abstract!promise
  BY DEF Abstract!promise, FateOf

\* The streams in pending that are lost, all at once.
LEMMA Loses ==
    ASSUME NEW gone \in SUBSET {s \in Streams : FateOf[s] = "pending"},
           FateOf' = [s \in Streams |-> IF s \in gone THEN "lost" ELSE FateOf[s]],
           ran' = ran
    PROVE  Abstract!Next
  BY DEF Abstract!Next, Abstract!Lose, FateOf

\* Every step of the server is a step of the contract, or none.
LEMMA PromiseStep ==
    TypeOK /\ ReplyInv /\ [Next]_vars => [Abstract!Next]_(Abstract!promise)
<1> SUFFICES ASSUME TypeOK, ReplyInv, [Next]_vars
             PROVE  Abstract!Next \/ UNCHANGED Abstract!promise
  OBVIOUS
<1> USE DEF TypeOK, Goto
<1>1. ASSUME NEW s \in Streams, Send(s) PROVE Abstract!Next
  <2>1. FateOf[s] = "unsent" /\ FateOf' = [FateOf EXCEPT ![s] = "pending"] /\ ran' = ran
    BY <1>1 DEF Send, FateOf, Fate
  <2> QED
    BY <2>1 DEF Abstract!Next, Abstract!Send, FateOf
<1>2. ASSUME NEW s \in Streams,
             \/ Accept(s) \/ Read(s) \/ Refuse(s) \/ CallTool(s) \/ ToolBegins(s)
             \/ ToolSucceeds(s) \/ Write(s)
      PROVE UNCHANGED Abstract!promise
  <2>1. FateOf' = FateOf /\ ran' = ran
    BY <1>2 DEF Accept, Read, Refuse, CallTool, ToolBegins, ToolSucceeds, Write, Respond, FateOf, Fate
  <2> QED
    BY <2>1, Stutters
<1>3. ASSUME NEW s \in Streams, HandleLifecycle(s) \/ ToolWorks(s)
      PROVE Abstract!Next \/ UNCHANGED Abstract!promise
  <2>1. FateOf' = FateOf /\ FateOf[s] = "pending" /\ ran' = ran \cup {s}
    BY <1>3 DEF HandleLifecycle, ToolWorks, Respond, FateOf, Fate
  <2>2. CASE s \in ran
    BY <2>1, <2>2, Stutters
  <2>3. CASE s \notin ran
    BY <2>1, <2>3 DEF Abstract!Next, Abstract!Effect, FateOf
  <2> QED
    BY <2>2, <2>3
<1>4. ASSUME NEW s \in Streams, stage[s] \notin {"unsent"} \cup Settled,
             Goto(s, "lost"), UNCHANGED <<reply, ran>>
      PROVE Abstract!Next
  <2>1. FateOf[s] = "pending"
    BY <1>4 DEF FateOf, Fate, Settled
  <2>2. FateOf' = [t \in Streams |-> IF t \in {s} THEN "lost" ELSE FateOf[t]]
    BY <1>4 DEF FateOf, Fate
  <2> QED
    BY <1>4, <2>1, <2>2, Loses
<1>5. ASSUME NEW s \in Streams, Deliver(s) PROVE Abstract!Next
  <2>1. CASE endpoint # "open"
    BY <1>4, <1>5, <2>1 DEF Deliver, Settled
  <2>2. CASE endpoint = "open"
    <3> DEFINE success == reply[s].kind # "err"
    <3>1. success => s \in ran
      BY <1>5 DEF Deliver, ReplyInv
    <3>2. /\ FateOf[s] = "pending" /\ ran' = ran
          /\ FateOf' = [FateOf EXCEPT ![s] = IF success THEN "ok" ELSE "err"]
      BY <1>5, <2>2 DEF Deliver, FateOf, Fate
    <3>3. success \in BOOLEAN
      OBVIOUS
    <3> HIDE DEF success
    <3>4. Abstract!Answer(s, success)
      BY <3>1, <3>2 DEF Abstract!Answer, FateOf
    <3> QED
      BY <3>3, <3>4 DEF Abstract!Next
  <2> QED
    BY <2>1, <2>2
<1>6. ASSUME NEW s \in Streams, NotAccepted(s) \/ ReadFails(s) \/ ToolPanics(s) \/ WriteFails(s)
      PROVE Abstract!Next
  BY <1>4, <1>6 DEF NotAccepted, ReadFails, ToolPanics, WriteFails, Settled
<1>7. ASSUME Leave PROVE Abstract!Next
  <2> DEFINE gone == {t \in Streams : FateOf[t] = "pending" /\ stage[t] # "working"}
  <2>1. FateOf' = [t \in Streams |-> IF t \in gone THEN "lost" ELSE FateOf[t]]
    BY <1>7 DEF Leave, FateOf, Fate, Settled
  <2>2. ran' = ran
    BY <1>7 DEF Leave
  <2> QED
    BY <2>1, <2>2, Loses
<1>8. ASSUME Signal \/ CloseEndpoint \/ Exit \/ UNCHANGED vars PROVE UNCHANGED Abstract!promise
  <2>1. FateOf' = FateOf /\ ran' = ran
    BY <1>8 DEF Signal, CloseEndpoint, Exit, vars, FateOf, Fate
  <2> QED
    BY <2>1, Stutters
<1>9. ASSUME NEW s \in Streams, ToolEnds(s) \/ ToolFails(s)
      PROVE Abstract!Next \/ UNCHANGED Abstract!promise
  <2>1. CASE endpoint = "leaving"
    <3>1. Goto(s, "lost") /\ UNCHANGED <<reply, ran>> /\ stage[s] = "working"
      BY <1>9, <2>1 DEF ToolEnds, ToolFails, After
    <3> QED
      BY <1>4, <3>1 DEF Settled
  <2>2. CASE endpoint # "leaving"
    <3>1. FateOf' = FateOf /\ ran' = ran
      BY <1>9, <2>2 DEF ToolEnds, ToolFails, After, FateOf, Fate
    <3> QED
      BY <3>1, Stutters
  <2> QED
    BY <2>1, <2>2
<1> QED
  BY <1>1, <1>2, <1>3, <1>5, <1>6, <1>7, <1>8, <1>9 DEF Next, Step

\* The server implements the contract: at most one effect a request, before
\* its answer, a success only after it (handle_stream, handle_tool_call).
THEOREM ServerKeepsPromise == Spec => KeepsPromise
<1>1. Init => TypeOK /\ ReplyInv
  BY InitTyped DEF Init, ReplyInv, Waiting, NoReply
<1>2. Init => Abstract!Init
  BY DEF Init, Abstract!Init, Fate
<1> QED
  BY <1>1, <1>2, TypeStep, ReplyStep, PromiseStep, PTL DEF Spec, KeepsPromise, Abstract!Spec
=============================================================================
