---------------------------- MODULE SearchIndex ----------------------------
(***************************************************************************)
(* The full-text index and the tools that write it: index_file,            *)
(* delete_from_index, clear_index, index_directory, index_workspace_data.  *)
(*                                                                         *)
(* Each request runs in a task of its own.  A handler holds only a READ    *)
(* lock on the index manager, and IndexWriter takes its mutex once per     *)
(* call, so a handler is a sequence of separate steps (delete, add,        *)
(* commit, reload) and other handlers run between any two of them.         *)
(*                                                                         *)
(* Tantivy itself is external and taken at its documented contract:        *)
(* operations are staged in RAM and ordered, commit publishes all of them  *)
(* (whoever staged them), a failed commit keeps them staged, a reload      *)
(* moves the searcher to the last commit, a crash loses what is staged.    *)
(***************************************************************************)
EXTENDS Integers, FiniteSets

CONSTANTS Reqs,        \* request identities, each used for one request
          Files,       \* file paths
          Records,     \* virtual paths orchestra://<entity>/<id>
          Jobs,        \* the tool calls a client may make
          BatchSize,   \* documents per batch commit (100 and 200 in the code)
          MaxFaults,   \* bound on injected failures
          MaxCrashes   \* bound on crashes

Paths   == Files \cup Records
Entries == [path : Paths, skipped : BOOLEAN]
Docs    == [by : Reqs, path : Paths, skipped : BOOLEAN]
Calls   == [op : {"index_file", "delete"}, path : Paths]
             \cup [op : {"clear"}]
             \cup [op : {"directory", "workspace"}, clearFirst : BOOLEAN]

ASSUME BatchAssumption == BatchSize \in Nat \ {0}
ASSUME JobsAssumption  == Jobs \subseteq Calls
ASSUME BoundAssumption == MaxFaults \in Nat /\ MaxCrashes \in Nat

VARIABLES
    staged,    \* documents alive if the writer committed now
    disk,      \* documents of the last commit (meta.json)
    view,      \* documents of the searcher that search tools read
    pending,   \* IndexWriter.pending_docs
    dead,      \* the writer mutex is poisoned
    job,       \* the call a request makes
    pc,        \* the next step of its handler
    todo,      \* collected entries not processed yet
    cur,       \* the entry between its delete and its add
    indexed,   \* the handler's counters
    errors,
    faults, crashes,
    \* history, read by no guard:
    found,     \* entries the handler set out to process
    written,   \* documents the request added
    before,    \* documents staged or committed when the request arrived
    gone,      \* documents some delete or clear removed
    raced      \* paths with two upserts at once between delete and add

index   == <<staged, disk, view, pending, dead>>
handler == <<job, pc, todo, cur, indexed, errors>>
env     == <<faults, crashes>>
history == <<found, written, before, gone, raced>>
vars    == <<index, handler, env, history>>

None == [path |-> "none", skipped |-> FALSE]

Finished == {"ok", "err", "lost"}
Working  == {"delete", "add", "batch", "commit", "reload",
             "clear", "clearReload", "walk"}

TypeOK ==
    /\ staged \in SUBSET Docs /\ disk \in SUBSET Docs /\ view \in SUBSET Docs
    /\ pending \in Nat
    /\ dead \in BOOLEAN
    /\ job \in [Reqs -> Calls \cup {None}]
    /\ pc \in [Reqs -> {"idle"} \cup Working \cup Finished]
    /\ todo \in [Reqs -> SUBSET Entries]
    /\ cur \in [Reqs -> Entries \cup {None}]
    /\ indexed \in [Reqs -> Nat] /\ errors \in [Reqs -> Nat]
    /\ faults \in 0 .. MaxFaults /\ crashes \in 0 .. MaxCrashes
    /\ found \in [Reqs -> SUBSET Entries]
    /\ written \in [Reqs -> SUBSET Docs]
    /\ before \in [Reqs -> SUBSET Docs]
    /\ gone \in SUBSET Docs
    /\ raced \in SUBSET Paths

Init ==
    /\ staged = {} /\ disk = {} /\ view = {} /\ pending = 0 /\ dead = FALSE
    /\ job = [r \in Reqs |-> None]
    /\ pc = [r \in Reqs |-> "idle"]
    /\ todo = [r \in Reqs |-> {}]
    /\ cur = [r \in Reqs |-> None]
    /\ indexed = [r \in Reqs |-> 0] /\ errors = [r \in Reqs |-> 0]
    /\ faults = 0 /\ crashes = 0
    /\ found = [r \in Reqs |-> {}]
    /\ written = [r \in Reqs |-> {}]
    /\ before = [r \in Reqs |-> {}]
    /\ gone = {} /\ raced = {}

-----------------------------------------------------------------------------
(* Helpers *)

At(docs, p)   == {d \in docs : d.path = p}
DocOf(r, e)   == [by |-> r, path |-> e.path, skipped |-> e.skipped]
Bulk(r)       == job[r].op \in {"directory", "workspace"}
Goto(r, step) == pc' = [pc EXCEPT ![r] = step]

\* A failure of the environment, drawn from the budget of injected faults.
Fault == faults < MaxFaults /\ faults' = faults + 1 /\ UNCHANGED crashes

\* A writer call fails because its mutex is poisoned, or on an I/O error.
WriterFails == (dead /\ UNCHANGED env) \/ (~dead /\ Fault)

\* Request r has deleted path p and not yet added its replacement.
InGap(r, p) == pc[r] = "add" /\ cur[r].path = p /\ ~dead

\* Where the loop over the entries goes once the current one is done.
NextEntry(r) == IF todo[r] = {} THEN "commit" ELSE "delete"

FirstStep(call) ==
    CASE call.op \in {"index_file", "delete"} -> "delete"
      [] call.op = "clear"                    -> "clear"
      [] call.op = "directory" /\ call.clearFirst -> "clear"
      [] OTHER                                -> "walk"

\* index_file and delete_from_index know their one entry from the arguments.
Given(call) == IF call.op \in {"index_file", "delete"}
               THEN {[path |-> call.path, skipped |-> FALSE]} ELSE {}

-----------------------------------------------------------------------------
(* A request arrives *)

Submit(r) ==
    /\ pc[r] = "idle"
    /\ \E call \in Jobs :
         /\ job' = [job EXCEPT ![r] = call]
         /\ Goto(r, FirstStep(call))
         /\ todo' = [todo EXCEPT ![r] = Given(call)]
         /\ found' = [found EXCEPT ![r] = Given(call)]
    /\ before' = [before EXCEPT ![r] = staged \cup disk]
    /\ UNCHANGED <<index, cur, indexed, errors, env, written, gone, raced>>

\* A required argument is missing: refused before anything is touched.
Reject(r) ==
    /\ pc[r] = "idle"
    /\ Goto(r, "err")
    /\ UNCHANGED <<index, job, todo, cur, indexed, errors, env, history>>

\* What the walk over the files may collect, those it could not read or that
\* are too large or binary marked skipped, and what the workspace database
\* may hold.
Collectable == [path : Files, skipped : BOOLEAN]
Readable    == [path : Records, skipped : {FALSE}]

\* The blocking task returns what is there at that moment, each path once.
Walk(r) ==
    /\ pc[r] = "walk"
    /\ \E es \in SUBSET (IF job[r].op = "directory" THEN Collectable ELSE Readable) :
         /\ \A e1, e2 \in es : e1.path = e2.path => e1 = e2
         /\ todo' = [todo EXCEPT ![r] = es]
         /\ found' = [found EXCEPT ![r] = es]
         /\ Goto(r, IF es = {} THEN "commit" ELSE "delete")
    /\ UNCHANGED <<index, job, cur, indexed, errors, env, written, before, gone, raced>>

\* The blocking task panics, or the workspace database is missing or unreadable.
WalkFails(r) ==
    /\ pc[r] = "walk"
    /\ Fault
    /\ Goto(r, "err")
    /\ UNCHANGED <<index, job, todo, cur, indexed, errors, history>>

-----------------------------------------------------------------------------
(* The upsert of one entry: two writer calls, two critical sections *)

\* Mutation: the upsert forgets to delete the old document.
DeleteForgotten(r) ==
    /\ pc[r] = "delete"
    /\ ~dead
    /\ \E e \in todo[r] :
         /\ todo' = [todo EXCEPT ![r] = @ \ {e}]
         /\ cur' = [cur EXCEPT ![r] = e]
    /\ Goto(r, IF job[r].op = "delete" THEN "commit" ELSE "add")
    /\ UNCHANGED <<index, job, indexed, errors, env, history>>

\* Mutation: the term that is deleted is the entity's or the directory's, not
\* the document's path.
DeleteAround(r) ==
    /\ pc[r] = "delete"
    /\ ~dead
    /\ \E e \in todo[r] :
         LET around == {d \in staged : d.path \in Records <=> e.path \in Records}
         IN  /\ staged' = staged \ around
             /\ gone' = gone \cup around
             /\ todo' = [todo EXCEPT ![r] = @ \ {e}]
             /\ cur' = [cur EXCEPT ![r] = e]
             /\ raced' = IF job[r].op # "delete" /\ \E q \in Reqs \ {r} : InGap(q, e.path)
                         THEN raced \cup {e.path} ELSE raced
    /\ Goto(r, IF job[r].op = "delete" THEN "commit" ELSE "add")
    /\ UNCHANGED <<disk, view, pending, dead, job, indexed, errors, env,
                   found, written, before>>

Delete(r) ==
    /\ pc[r] = "delete"
    /\ ~dead
    /\ \E e \in todo[r] :
         /\ staged' = staged \ At(staged, e.path)
         /\ gone' = gone \cup At(staged, e.path)
         /\ todo' = [todo EXCEPT ![r] = @ \ {e}]
         /\ cur' = [cur EXCEPT ![r] = e]
         /\ raced' = IF job[r].op # "delete" /\ \E q \in Reqs \ {r} : InGap(q, e.path)
                     THEN raced \cup {e.path} ELSE raced
    /\ Goto(r, IF job[r].op = "delete" THEN "commit" ELSE "add")
    /\ UNCHANGED <<disk, view, pending, dead, job, indexed, errors, env,
                   found, written, before>>

\* Only a poisoned mutex fails a delete; the bulk tools ignore the failure.
DeleteFails(r) ==
    /\ pc[r] = "delete"
    /\ dead
    /\ \E e \in todo[r] :
         /\ todo' = [todo EXCEPT ![r] = @ \ {e}]
         /\ cur' = [cur EXCEPT ![r] = e]
    /\ Goto(r, IF Bulk(r) THEN "add" ELSE "err")
    /\ UNCHANGED <<index, job, indexed, errors, env, history>>

\* Mutation: the old document is deleted after the new one is added, which
\* takes both.
AddThenDelete(r) ==
    /\ pc[r] = "add"
    /\ ~dead
    /\ staged' = staged \ At(staged, cur[r].path)
    /\ pending' = pending + 1
    /\ written' = [written EXCEPT ![r] = @ \cup {DocOf(r, cur[r])}]
    /\ indexed' = [indexed EXCEPT ![r] = @ + 1]
    /\ Goto(r, IF Bulk(r) /\ (indexed[r] + 1) % BatchSize = 0
               THEN "batch" ELSE NextEntry(r))
    /\ UNCHANGED <<disk, view, dead, job, todo, cur, errors, env,
                   found, before, gone, raced>>

Add(r) ==
    /\ pc[r] = "add"
    /\ ~dead
    /\ staged' = staged \cup {DocOf(r, cur[r])}
    /\ pending' = pending + 1
    /\ written' = [written EXCEPT ![r] = @ \cup {DocOf(r, cur[r])}]
    /\ indexed' = [indexed EXCEPT ![r] = @ + 1]
    /\ Goto(r, IF Bulk(r) /\ (indexed[r] + 1) % BatchSize = 0
               THEN "batch" ELSE NextEntry(r))
    /\ UNCHANGED <<disk, view, dead, job, todo, cur, errors, env,
                   found, before, gone, raced>>

\* Mutation: a failed add is logged and not counted.
AddFailsSilently(r) ==
    /\ pc[r] = "add"
    /\ WriterFails
    /\ Goto(r, IF Bulk(r) THEN NextEntry(r) ELSE "err")
    /\ UNCHANGED <<index, job, todo, cur, indexed, errors, history>>

\* The bulk tools count the failure and go on; index_file gives up, its
\* delete staged.
AddFails(r) ==
    /\ pc[r] = "add"
    /\ WriterFails
    /\ IF Bulk(r)
       THEN /\ errors' = [errors EXCEPT ![r] = @ + 1]
            /\ Goto(r, NextEntry(r))
       ELSE /\ Goto(r, "err")
            /\ UNCHANGED errors
    /\ UNCHANGED <<index, job, todo, cur, indexed, history>>

-----------------------------------------------------------------------------
(* Publishing *)

\* Mutations: the commit is left out; a commit with no added document is taken
\* for empty; the counter is decremented where it should be reset.
CommitLeftOut ==
    ~dead /\ pending' = 0 /\ UNCHANGED <<staged, disk, view, dead>>
CommitOnlyAdds ==
    /\ ~dead
    /\ disk' = IF pending = 0 THEN disk ELSE staged
    /\ pending' = 0
    /\ UNCHANGED <<staged, view, dead>>
CommitDecrements ==
    /\ ~dead
    /\ disk' = staged
    /\ pending' = pending - 1
    /\ UNCHANGED <<staged, view, dead>>

\* Everything staged becomes durable, by whichever request it was staged.
WriterCommit ==
    /\ ~dead
    /\ disk' = staged
    /\ pending' = 0
    /\ UNCHANGED <<staged, view, dead>>

BatchCommit(r) ==
    /\ pc[r] = "batch"
    /\ WriterCommit
    /\ Goto(r, NextEntry(r))
    /\ UNCHANGED <<job, todo, cur, indexed, errors, env, history>>

\* Mutation: a failed batch commit is retried until it succeeds.
BatchCommitRetries(r) ==
    /\ pc[r] = "batch"
    /\ WriterFails
    /\ UNCHANGED <<index, handler, history>>

BatchCommitFails(r) ==
    /\ pc[r] = "batch"
    /\ WriterFails
    /\ errors' = [errors EXCEPT ![r] = @ + 1]
    /\ Goto(r, NextEntry(r))
    /\ UNCHANGED <<index, job, todo, cur, indexed, history>>

Commit(r) ==
    /\ pc[r] = "commit"
    /\ WriterCommit
    /\ Goto(r, "reload")
    /\ UNCHANGED <<job, todo, cur, indexed, errors, env, history>>

\* Mutation: pending_docs is reset before the commit that then fails.
CommitFailsAfterReset(r) ==
    /\ pc[r] = "commit"
    /\ WriterFails
    /\ pending' = 0
    /\ Goto(r, "err")
    /\ UNCHANGED <<staged, disk, view, dead, job, todo, cur, indexed, errors, history>>

\* The request is answered with an error and its operations stay staged.
CommitFails(r) ==
    /\ pc[r] = "commit"
    /\ WriterFails
    /\ Goto(r, "err")
    /\ UNCHANGED <<index, job, todo, cur, indexed, errors, history>>

\* Mutation: the answer is sent without the reload.
ReloadLeftOut(r) ==
    /\ pc[r] = "reload"
    /\ Goto(r, "ok")
    /\ UNCHANGED <<index, job, todo, cur, indexed, errors, env, history>>

Reload(r) ==
    /\ pc[r] = "reload"
    /\ view' = disk
    /\ Goto(r, "ok")
    /\ UNCHANGED <<staged, disk, pending, dead, job, todo, cur, indexed, errors,
                   env, history>>

ReloadFails(r) ==
    /\ pc[r] \in {"reload", "clearReload"}
    /\ Fault
    /\ Goto(r, "err")
    /\ UNCHANGED <<index, job, todo, cur, indexed, errors, history>>

\* IndexWriter.clear deletes and commits in one critical section.
Clear(r) ==
    /\ pc[r] = "clear"
    /\ ~dead
    /\ staged' = {} /\ disk' = {} /\ pending' = 0
    /\ gone' = gone \cup staged
    /\ Goto(r, "clearReload")
    /\ UNCHANGED <<view, dead, job, todo, cur, indexed, errors, env,
                   found, written, before, raced>>

\* The lock or delete_all_documents fails, or the commit after it does, which
\* leaves the index empty in RAM and pending_docs as it was.
ClearFails(r) ==
    /\ pc[r] = "clear"
    /\ WriterFails
    /\ \/ UNCHANGED <<staged, gone>>
       \/ ~dead /\ staged' = {} /\ gone' = gone \cup staged
    /\ Goto(r, "err")
    /\ UNCHANGED <<disk, view, pending, dead, job, todo, cur, indexed, errors,
                   found, written, before, raced>>

ClearReload(r) ==
    /\ pc[r] = "clearReload"
    /\ view' = disk
    /\ Goto(r, IF job[r].op = "clear" THEN "ok" ELSE "walk")
    /\ UNCHANGED <<staged, disk, pending, dead, job, todo, cur, indexed, errors,
                   env, history>>

-----------------------------------------------------------------------------
(* The environment *)

\* The task dies while it holds the writer mutex, which stays poisoned.
Poison(r) ==
    /\ pc[r] \in {"delete", "add", "batch", "commit", "clear"}
    /\ ~dead
    /\ Fault
    /\ dead' = TRUE
    /\ Goto(r, "lost")
    /\ UNCHANGED <<staged, disk, view, pending, job, todo, cur, indexed, errors, history>>

\* Mutation: the reader is built with ReloadPolicy::Manual.
NoWatcher == FALSE /\ UNCHANGED vars

\* ReloadPolicy::OnCommitWithDelay: a watcher follows meta.json.
WatcherReload ==
    /\ view # disk
    /\ view' = disk
    /\ UNCHANGED <<staged, disk, pending, dead, handler, env, history>>

\* The process ends at any point and starts again from the directory.
CrashRestart ==
    /\ crashes < MaxCrashes
    /\ crashes' = crashes + 1
    /\ pc' = [r \in Reqs |-> IF pc[r] \in Working THEN "lost" ELSE pc[r]]
    /\ staged' = disk /\ view' = disk /\ pending' = 0 /\ dead' = FALSE
    /\ UNCHANGED <<disk, job, todo, cur, indexed, errors, faults, history>>

-----------------------------------------------------------------------------
Step(r) ==
    \/ Walk(r) \/ WalkFails(r)
    \/ Delete(r) \/ DeleteFails(r) \/ Add(r) \/ AddFails(r)
    \/ BatchCommit(r) \/ BatchCommitFails(r) \/ Commit(r) \/ CommitFails(r)
    \/ Reload(r) \/ ReloadFails(r) \/ Clear(r) \/ ClearFails(r) \/ ClearReload(r)

Next ==
    \/ \E r \in Reqs : Submit(r) \/ Reject(r) \/ Step(r) \/ Poison(r)
    \/ WatcherReload
    \/ CrashRestart

Spec == Init /\ [][Next]_vars

\* A runnable task is polled again, and the watcher thread keeps polling.
Fairness == (\A r \in Reqs : WF_vars(Step(r))) /\ WF_vars(WatcherReload)

FairSpec == Spec /\ Fairness

-----------------------------------------------------------------------------
(* Properties *)

Ok(r) == pc[r] = "ok"

\* A document a successful request added is in the last commit and in searches
\* ("Documents indexed here are immediately searchable"), unless some later
\* call removed it; a crash at any point does not change that.
AckedIsKept == \A r \in Reqs : Ok(r) => written[r] \subseteq (disk \cap view) \cup gone

\* The documents a request was called to replace or remove.
Clears(r)  == job[r].op = "clear" \/ (job[r].op = "directory" /\ job[r].clearFirst)
Targets(r) == IF Clears(r) THEN before[r]
              ELSE {d \in before[r] : \E e \in found[r] : e.path = d.path}

\* After a successful upsert, delete or clear, no document it had to remove is
\* searchable, committed, or able to come back at the next commit or restart.
NoResurrection ==
    \A r \in Reqs : Ok(r) => Targets(r) \cap (staged \cup disk \cup view) = {}

\* Request q has come to path p and has not done, or not reported, what an upsert
\* of it has to do; a delete, a clear and a failed upsert never will have.
Unsettled(q, p) ==
    \/ job[q] # None /\ Clears(q)
    \/ \E e \in found[q] \ todo[q] : e.path = p /\ (DocOf(q, e) \notin written[q] \/ ~Ok(q))

\* A path that a successful request indexed stays in the last commit and in
\* searches, in one version or another, however many requests replace it,
\* commit between the delete and the add of others, or crash; unless one of those
\* that came to it was a delete, was a clear, failed or is still at work.
PathStaysIndexed ==
    \A r \in Reqs : Ok(r) => \A d \in written[r] :
        \/ At(disk, d.path) # {} /\ At(view, d.path) # {}
        \/ \E q \in Reqs : Unsettled(q, d.path)

\* Two upserts of one path that never overlap between delete and add leave one
\* document at that path in RAM, on disk and in searches, whatever else fails
\* or crashes.
UniqueUnlessRaced ==
    \A docs \in {staged, disk, view} : \A d, e \in docs :
        d.path = e.path /\ d.path \notin raced => d = e

\* pending_count() = 0 promises that nothing added is waiting for a commit.
NothingPendingIsPublished == pending = 0 => staged \subseteq disk

\* Every entry a successful bulk request found was indexed or is an error.
HonestReport ==
    \A r \in Reqs : Ok(r) /\ Bulk(r) =>
        Cardinality({e \in found[r] : DocOf(r, e) \notin written[r]}) <= errors[r]

\* What the clients know of a request, and the paths it is about.
Fate(r)  == CASE pc[r] = "idle"      -> "unsent"
              [] pc[r] \in Finished -> pc[r]
              [] OTHER               -> "pending"
Scope(r) == IF job[r] # None /\ Clears(r) THEN Paths ELSE {e.path : e \in found[r]}

Promise == INSTANCE IndexPromise WITH
               Requests <- Reqs, Documents <- Docs,
               fate <- [r \in Reqs |-> Fate(r)], scope <- [r \in Reqs |-> Scope(r)],
               prior <- before, wrote <- written, alive <- staged \cup disk,
               committed <- disk, searched <- view, removed <- gone

\* The tools keep the promise of IndexPromise: a request touches its own paths
\* only, whoever commits publishes nothing that was not added and drops nothing
\* that was not removed, success means committed and replaced, and a document
\* that is out stays out.
KeepsIndexPromise == Promise!Spec

\* Every request that starts is answered, or died with its task or process.
EveryRequestEnds == \A r \in Reqs : pc[r] \in Working ~> pc[r] \in Finished

\* Searches end up reading the last commit, also after a failed reload.
ViewConverges == <>[](view = disk)

\* search.rs:114 calls the pair of writer calls an upsert: one document a path.
UpsertUnique == \A d, e \in disk : d.path = e.path => d = e
=============================================================================
