---------------------------- MODULE RequestReply ----------------------------
(***************************************************************************)
(* What a caller may rely on: a request takes effect at most once, before  *)
(* its answer; a success means it did; an answer is final.  A request may  *)
(* be lost on the way in or on the way back, so a caller that gets no      *)
(* answer cannot tell whether it took effect.                              *)
(***************************************************************************)
CONSTANT Requests

VARIABLES fate,  \* what the caller knows of a request
          done   \* the requests that took effect

promise == <<fate, done>>

Init ==
    /\ fate = [r \in Requests |-> "unsent"]
    /\ done = {}

Send(r) ==
    /\ fate[r] = "unsent"
    /\ fate' = [fate EXCEPT ![r] = "pending"]
    /\ UNCHANGED done

Effect(r) ==
    /\ fate[r] = "pending" /\ r \notin done
    /\ done' = done \cup {r}
    /\ UNCHANGED fate

Answer(r, success) ==
    /\ fate[r] = "pending"
    /\ success => r \in done
    /\ fate' = [fate EXCEPT ![r] = IF success THEN "ok" ELSE "err"]
    /\ UNCHANGED done

\* All at once: the process or a connection takes its requests with it.
Lose ==
    /\ \E lost \in SUBSET {r \in Requests : fate[r] = "pending"} :
         fate' = [r \in Requests |-> IF r \in lost THEN "lost" ELSE fate[r]]
    /\ UNCHANGED done

Next ==
    \/ \E r \in Requests : Send(r) \/ Effect(r) \/ \E success \in BOOLEAN : Answer(r, success)
    \/ Lose

Spec == Init /\ [][Next]_promise
=============================================================================
