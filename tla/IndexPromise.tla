---------------------------- MODULE IndexPromise ----------------------------
(***************************************************************************)
(* What the users of the index may rely on.                                *)
(*                                                                         *)
(* A document is added once, by one request, and may be in the last commit *)
(* and in searches until it is out for good.  A request adds and removes   *)
(* documents at its own paths only.  When it is answered with success,     *)
(* what it added is committed unless some request removed it, and nothing  *)
(* that was at its paths when it arrived is left.  Until then any part of  *)
(* its work may have been committed, by whichever request, and a crash     *)
(* loses what was not.                                                     *)
(***************************************************************************)
CONSTANTS Requests, Paths, Documents

VARIABLES
    fate,       \* what the client knows of a request
    scope,      \* the paths a request is about
    prior,      \* the documents alive when it arrived
    wrote,      \* the documents it added
    alive,      \* documents that are committed or wait for a commit
    committed,  \* documents a restart finds
    searched,   \* documents that searches find
    removed     \* documents that requests removed

requests == <<fate, scope, prior, wrote>>
promise  == <<requests, alive, committed, searched, removed>>

Init ==
    /\ fate = [r \in Requests |-> "unsent"]
    /\ scope = [r \in Requests |-> {}]
    /\ prior = [r \in Requests |-> {}]
    /\ wrote = [r \in Requests |-> {}]
    /\ alive = {} /\ committed = {} /\ searched = {} /\ removed = {}

Arrive(r) ==
    /\ fate[r] = "unsent"
    /\ fate' = [fate EXCEPT ![r] = "pending"]
    /\ prior' = [prior EXCEPT ![r] = alive]
    /\ \E S \in SUBSET Paths : scope' = [scope EXCEPT ![r] = S]
    /\ UNCHANGED <<wrote, alive, committed, searched, removed>>

\* A request that says nothing does nothing.
Refuse(r) ==
    /\ fate[r] = "unsent"
    /\ fate' = [fate EXCEPT ![r] = "err"]
    /\ UNCHANGED <<scope, prior, wrote, alive, committed, searched, removed>>

\* A request finds out what it is about before it adds anything.
Learn(r) ==
    /\ fate[r] = "pending" /\ wrote[r] = {}
    /\ \E S \in SUBSET Paths : scope[r] \subseteq S /\ scope' = [scope EXCEPT ![r] = S]
    /\ UNCHANGED <<fate, prior, wrote, alive, committed, searched, removed>>

Add(r) ==
    /\ fate[r] = "pending"
    /\ \E d \in Documents \ wrote[r] :
         /\ d.by = r /\ d.path \in scope[r]
         /\ wrote' = [wrote EXCEPT ![r] = @ \cup {d}]
         /\ alive' = alive \cup {d}
    /\ UNCHANGED <<fate, scope, prior, committed, searched, removed>>

\* Documents at the paths of r are removed; what is alive is committed or
\* not; what was removed, by anybody, may go.
Change(r) ==
    /\ \E R \in SUBSET {d \in alive : d.path \in scope[r]} : removed' = removed \cup R
    /\ alive' \in SUBSET alive /\ alive \ alive' \subseteq removed'
    /\ committed' \in SUBSET alive' /\ committed \ committed' \subseteq removed'

Work(r) ==
    /\ fate[r] = "pending"
    /\ Change(r)
    /\ UNCHANGED <<requests, searched>>

\* An error may come with a part of the work, or after all of it.
Fail(r) ==
    /\ fate[r] = "pending"
    /\ fate' = [fate EXCEPT ![r] = "err"]
    /\ Change(r)
    /\ UNCHANGED <<scope, prior, wrote, searched>>

Targets(r) == {d \in prior[r] : d.path \in scope[r]}

Succeed(r) ==
    /\ fate[r] = "pending"
    /\ wrote[r] \subseteq committed \cup removed
    /\ Targets(r) \cap alive = {}
    /\ fate' = [fate EXCEPT ![r] = "ok"]
    /\ searched' = committed
    /\ UNCHANGED <<scope, prior, wrote, alive, committed, removed>>

Refresh ==
    /\ searched' = committed
    /\ UNCHANGED <<requests, alive, committed, removed>>

\* The task of a request ends without an answer.
Lose(r) ==
    /\ fate[r] = "pending"
    /\ fate' = [fate EXCEPT ![r] = "lost"]
    /\ UNCHANGED <<scope, prior, wrote, alive, committed, searched, removed>>

\* All tasks end, and what was not committed is gone.
Crash ==
    /\ fate' = [r \in Requests |-> IF fate[r] = "pending" THEN "lost" ELSE fate[r]]
    /\ alive' = committed /\ searched' = committed
    /\ UNCHANGED <<scope, prior, wrote, committed, removed>>

Next ==
    \/ \E r \in Requests : \/ Arrive(r) \/ Refuse(r) \/ Learn(r) \/ Add(r) \/ Work(r)
                           \/ Fail(r) \/ Succeed(r) \/ Lose(r)
    \/ Refresh \/ Crash

Spec == Init /\ [][Next]_promise

-----------------------------------------------------------------------------
(* What a success means for ever after *)

\* What an answered request added stays committed until a request removes
\* it, and what it had to replace or remove never comes back.
Kept ==
    \A r \in Requests : fate[r] = "ok" =>
        /\ wrote[r] \subseteq committed \cup removed
        /\ Targets(r) \cap (alive \cup searched) = {}
=============================================================================
