----------------------------- MODULE MemoryStore -----------------------------
(***************************************************************************)
(* Memories, their embeddings and agent sessions, in SQLite.               *)
(*                                                                         *)
(* Every storage call locks the connection, runs its statements, each its  *)
(* own transaction, and unlocks.  A tool that needs two calls (save a      *)
(* memory and its vector, delete both, keyword and vector search) lets     *)
(* other requests in between them; end_session runs its statements under   *)
(* one lock, where only a failure or a crash can come between them.        *)
(*                                                                         *)
(* A row is named by the request that inserted it (a fresh UUID).  A       *)
(* content is abstracted to whether the search's keywords match it; limits *)
(* and budgets are taken as large enough for every result.                 *)
(***************************************************************************)
EXTENDS Integers, FiniteSets

CONSTANTS Reqs, Projects, Categories,
          Menu,        \* the tool calls a client may make
          Nobody,      \* no request, no category: an unknown id, no filter
          MaxFaults, MaxCrashes

Calls ==
    [op : {"save"}, project : Projects, category : Categories, match : BOOLEAN, vector : BOOLEAN]
      \cup [op : {"search"}, project : Projects, category : Categories \cup {Nobody}, vector : BOOLEAN]
      \cup [op : {"update"}, match : BOOLEAN]
      \cup [op : {"delete", "observe"}]
      \cup [op : {"start"}, project : Projects]
      \cup [op : {"end"}, summary : BOOLEAN]

ASSUME MenuAssumption   == Menu \subseteq Calls
ASSUME NobodyAssumption == Nobody \notin Reqs /\ Nobody \notin Categories
ASSUME LimitAssumption  == MaxFaults \in Nat /\ MaxCrashes \in Nat

Memories == [project : Projects, category : Categories, match : BOOLEAN]
Sessions == [project : Projects, ended : BOOLEAN]
Never    == [row |-> "never"]     \* no row was ever inserted under this id
Deleted  == [row |-> "deleted"]
NoCall   == [op |-> "none"]

VARIABLES
    memories, embeddings,               \* tables, by the id of the row
    sessions, summaries, observations,
    conn,                               \* who holds the connection across statements
    call, target,                       \* what a request does, and to which row
    pc,
    found,                              \* a search's result_map
    todo,                               \* vector hits it has still to look up
    faults, crashes,
    suspect,   \* history: ids whose vector may outlive the memory
    gone       \* history: memories deleted before the request arrived

tables  == <<memories, embeddings, sessions, summaries, observations>>
handler == <<call, target, found, todo>>
env     == <<faults, crashes>>
vars    == <<tables, conn, handler, pc, env, suspect, gone>>

Finished == {"ok", "err", "lost"}
Working  == {"insert", "embed", "update", "delete", "unembed", "keyword", "similar",
             "lookup", "start", "observe", "end", "summarise"}

TypeOK ==
    /\ memories \in [Reqs -> Memories \cup {Never, Deleted}]
    /\ embeddings \in SUBSET [of : Reqs, project : Projects]
    /\ sessions \in [Reqs -> Sessions \cup {Never}]
    /\ summaries \in SUBSET [by : Reqs, session : Reqs, project : Projects]
    /\ observations \in SUBSET [by : Reqs, session : Reqs, project : Projects]
    /\ conn \in Reqs \cup {Nobody}
    /\ call \in [Reqs -> Calls \cup {NoCall}]
    /\ target \in [Reqs -> Reqs \cup {Nobody}]
    /\ pc \in [Reqs -> {"idle"} \cup Working \cup Finished]
    /\ found \in [Reqs -> SUBSET [of : Reqs, category : Categories]]
    /\ todo \in [Reqs -> SUBSET Reqs]
    /\ faults \in 0 .. MaxFaults /\ crashes \in 0 .. MaxCrashes
    /\ suspect \in SUBSET Reqs
    /\ gone \in [Reqs -> SUBSET Reqs]

\* MemorySchema::init creates the tables.
Init ==
    /\ memories = [r \in Reqs |-> Never] /\ embeddings = {}
    /\ sessions = [r \in Reqs |-> Never] /\ summaries = {} /\ observations = {}
    /\ conn = Nobody
    /\ call = [r \in Reqs |-> NoCall] /\ target = [r \in Reqs |-> Nobody]
    /\ pc = [r \in Reqs |-> "idle"]
    /\ found = [r \in Reqs |-> {}] /\ todo = [r \in Reqs |-> {}]
    /\ faults = 0 /\ crashes = 0
    /\ suspect = {} /\ gone = [r \in Reqs |-> {}]

-----------------------------------------------------------------------------
(* Helpers *)

Alive(m)      == memories[m] \notin {Never, Deleted}
Goto(r, step) == pc' = [pc EXCEPT ![r] = step]
At(r, step)   == pc[r] = step /\ conn = Nobody
EmbeddingOf(m) == {e \in embeddings : e.of = m}

\* A statement fails: the LSP pool writes the same file, and SQLite gives up
\* waiting for it after five seconds, or the disk does.
Fault == faults < MaxFaults /\ faults' = faults + 1 /\ UNCHANGED crashes

\* The ids a client can name: of rows it could list, also before the request
\* that inserted them was answered, and one that never existed.
Known(c) == {Nobody} \cup
    CASE c.op \in {"update", "delete"} -> {m \in Reqs : memories[m] # Never}
      [] c.op \in {"observe", "end"}   -> {s \in Reqs : sessions[s] # Never}
      [] OTHER                         -> {}

FirstStep == [save |-> "insert", search |-> "keyword", update |-> "update",
              delete |-> "delete", start |-> "start", observe |-> "observe", end |-> "end"]

-----------------------------------------------------------------------------
(* A request arrives *)

Submit(r) ==
    /\ pc[r] = "idle"
    /\ \E c \in Menu : \E id \in Known(c) :
         /\ call' = [call EXCEPT ![r] = c]
         /\ target' = [target EXCEPT ![r] = id]
         /\ Goto(r, FirstStep[c.op])
    /\ gone' = [gone EXCEPT ![r] = {m \in Reqs : memories[m] = Deleted}]
    /\ UNCHANGED <<tables, conn, found, todo, env, suspect>>

\* A required argument is missing.
Reject(r) ==
    /\ pc[r] = "idle"
    /\ Goto(r, "err")
    /\ UNCHANGED <<tables, conn, handler, env, suspect, gone>>

-----------------------------------------------------------------------------
(* save_memory: the row, then the vector *)

InsertMemory(r) ==
    /\ At(r, "insert")
    /\ memories' = [memories EXCEPT ![r] = [project  |-> call[r].project,
                                            category |-> call[r].category,
                                            match    |-> call[r].match]]
    /\ Goto(r, IF call[r].vector THEN "embed" ELSE "ok")
    /\ UNCHANGED <<embeddings, sessions, summaries, observations, conn, handler, env,
                   suspect, gone>>

\* Mutation: the model's name is bound to the column of the project.
ColumnsSwapped(r) ==
    /\ At(r, "embed")
    /\ embeddings' = (embeddings \ EmbeddingOf(r)) \cup {[of |-> r, project |-> "default"]}
    /\ Goto(r, "ok")
    /\ UNCHANGED <<memories, sessions, summaries, observations, conn, handler, env,
                   suspect, gone>>

\* INSERT OR REPLACE: one embedding a memory.
StoreEmbedding(r) ==
    /\ At(r, "embed")
    /\ embeddings' = (embeddings \ EmbeddingOf(r)) \cup {[of |-> r, project |-> call[r].project]}
    /\ Goto(r, "ok")
    /\ UNCHANGED <<memories, sessions, summaries, observations, conn, handler, env,
                   suspect, gone>>

-----------------------------------------------------------------------------
(* update_memory, delete_memory *)

\* Mutation: the update is written as INSERT OR REPLACE.
UpdateInserts(r) ==
    /\ At(r, "update")
    /\ memories' = [m \in Reqs |->
         IF m # target[r] THEN memories[m]
         ELSE [project  |-> call[m].project, category |-> call[m].category,
               match |-> call[r].match]]
    /\ Goto(r, "ok")
    /\ UNCHANGED <<embeddings, sessions, summaries, observations, conn, handler, env,
                   suspect, gone>>

\* The answer is a success whether or not there is such a row; the vector
\* stays that of the content before.
UpdateMemory(r) ==
    /\ At(r, "update")
    /\ memories' = [m \in Reqs |-> IF m = target[r] /\ Alive(m)
                                   THEN [memories[m] EXCEPT !.match = call[r].match]
                                   ELSE memories[m]]
    /\ Goto(r, "ok")
    /\ UNCHANGED <<embeddings, sessions, summaries, observations, conn, handler, env,
                   suspect, gone>>

\* Mutation: the vector is deleted first and the row after it.
DeleteVectorFirst(r) ==
    /\ At(r, "delete")
    /\ \/ EmbeddingOf(target[r]) # {} /\ embeddings' = embeddings \ EmbeddingOf(target[r])
          /\ UNCHANGED <<memories, pc>>
       \/ EmbeddingOf(target[r]) = {}
          /\ memories' = [m \in Reqs |-> IF m = target[r] THEN Deleted ELSE memories[m]]
          /\ Goto(r, "ok") /\ UNCHANGED embeddings
    /\ UNCHANGED <<sessions, summaries, observations, conn, handler, env, suspect, gone>>

\* The row goes first.  A save that has not stored its vector yet will still
\* do so.
DeleteMemory(r) ==
    /\ At(r, "delete")
    /\ memories' = [m \in Reqs |-> IF m = target[r] THEN Deleted ELSE memories[m]]
    /\ suspect' = suspect \cup {m \in Reqs : m = target[r] /\ pc[m] = "embed"}
    /\ Goto(r, "unembed")
    /\ UNCHANGED <<embeddings, sessions, summaries, observations, conn, handler, env, gone>>

\* Mutation: the vector is left to a cleanup that never comes.
VectorKept(r) ==
    /\ At(r, "unembed")
    /\ Goto(r, "ok")
    /\ UNCHANGED <<tables, conn, handler, env, suspect, gone>>

DeleteEmbedding(r) ==
    /\ At(r, "unembed")
    /\ embeddings' = embeddings \ EmbeddingOf(target[r])
    /\ Goto(r, "ok")
    /\ UNCHANGED <<memories, sessions, summaries, observations, conn, handler, env,
                   suspect, gone>>

-----------------------------------------------------------------------------
(* search_memory and get_context: keywords, vectors, then a look-up a hit *)

InCategory(r, m) == call[r].category \in {Nobody, memories[m].category}

KeywordSearch(r) ==
    /\ At(r, "keyword")
    /\ found' = [found EXCEPT ![r] =
         {[of |-> m, category |-> memories[m].category] : m \in
            {m \in Reqs : /\ Alive(m) /\ memories[m].project = call[r].project
                          /\ memories[m].match /\ InCategory(r, m)}}]
    /\ Goto(r, IF call[r].vector THEN "similar" ELSE "ok")
    /\ UNCHANGED <<tables, conn, call, target, todo, env, suspect, gone>>

\* Vector hits that are keyword hits too are combined, the others looked up.
SimilarSearch(r) ==
    /\ At(r, "similar")
    /\ LET hits == {e.of : e \in {e \in embeddings : e.project = call[r].project}}
           new  == hits \ {x.of : x \in found[r]}
       IN  /\ todo' = [todo EXCEPT ![r] = new]
           /\ Goto(r, IF new = {} THEN "ok" ELSE "lookup")
    /\ UNCHANGED <<tables, conn, call, target, found, env, suspect, gone>>

\* Mutation: the hit is taken from the embedding without looking at the row.
LookUpSkipped(r) ==
    /\ At(r, "lookup")
    /\ \E m \in todo[r] :
         /\ found' = [found EXCEPT ![r] = @ \cup {[of |-> m, category |-> call[m].category]}]
         /\ todo' = [todo EXCEPT ![r] = @ \ {m}]
         /\ Goto(r, IF todo[r] = {m} THEN "ok" ELSE "lookup")
    /\ UNCHANGED <<tables, conn, call, target, env, suspect, gone>>

\* The category is not looked at.
LookUp(r) ==
    /\ At(r, "lookup")
    /\ \E m \in todo[r] :
         /\ found' = [found EXCEPT ![r] = IF Alive(m)
              THEN @ \cup {[of |-> m, category |-> memories[m].category]} ELSE @]
         /\ todo' = [todo EXCEPT ![r] = @ \ {m}]
         /\ Goto(r, IF todo[r] = {m} THEN "ok" ELSE "lookup")
    /\ UNCHANGED <<tables, conn, call, target, env, suspect, gone>>

\* An error of a look-up is swallowed with the hit.
LookUpFails(r) ==
    /\ At(r, "lookup")
    /\ Fault
    /\ \E m \in todo[r] :
         /\ todo' = [todo EXCEPT ![r] = @ \ {m}]
         /\ Goto(r, IF todo[r] = {m} THEN "ok" ELSE "lookup")
    /\ UNCHANGED <<tables, conn, call, target, found, suspect, gone>>

-----------------------------------------------------------------------------
(* Sessions *)

StartSession(r) ==
    /\ At(r, "start")
    /\ sessions' = [sessions EXCEPT ![r] = [project |-> call[r].project, ended |-> FALSE]]
    /\ Goto(r, "ok")
    /\ UNCHANGED <<memories, embeddings, summaries, observations, conn, handler, env,
                   suspect, gone>>

\* The project is the session's; an unknown session is an error, an ended one
\* is not.
SaveObservation(r) ==
    /\ At(r, "observe")
    /\ target[r] # Nobody
    /\ observations' = observations \cup
         {[by |-> r, session |-> target[r], project |-> sessions[target[r]].project]}
    /\ Goto(r, "ok")
    /\ UNCHANGED <<memories, embeddings, sessions, summaries, conn, handler, env,
                   suspect, gone>>

UnknownSession(r) ==
    /\ \/ At(r, "observe") /\ target[r] = Nobody /\ UNCHANGED conn
       \/ pc[r] = "summarise" /\ conn = r /\ target[r] = Nobody /\ conn' = Nobody
    /\ Goto(r, "err")
    /\ UNCHANGED <<tables, handler, env, suspect, gone>>

\* Mutation: the summary is stored and the session is not closed.
SummaryFirst(r) ==
    /\ At(r, "end")
    /\ IF call[r].summary
       THEN /\ summaries' = summaries \cup
                 {[by |-> r, session |-> s, project |-> sessions[s].project] : s \in {target[r]} \ {Nobody}}
            /\ conn' = r /\ Goto(r, "summarise")
       ELSE Goto(r, "ok") /\ UNCHANGED <<conn, summaries>>
    /\ UNCHANGED <<memories, embeddings, sessions, observations, handler, env, suspect, gone>>

\* The UPDATE touches no row if there is no such session.
EndSession(r) ==
    /\ At(r, "end")
    /\ sessions' = [s \in Reqs |-> IF s = target[r] THEN [sessions[s] EXCEPT !.ended = TRUE]
                                   ELSE sessions[s]]
    /\ IF call[r].summary THEN conn' = r /\ Goto(r, "summarise")
                          ELSE Goto(r, "ok") /\ UNCHANGED conn
    /\ UNCHANGED <<memories, embeddings, summaries, observations, handler, env, suspect, gone>>

InsertSummary(r) ==
    /\ pc[r] = "summarise" /\ conn = r
    /\ target[r] # Nobody
    /\ summaries' = summaries \cup
         {[by |-> r, session |-> target[r], project |-> sessions[target[r]].project]}
    /\ conn' = Nobody
    /\ Goto(r, "ok")
    /\ UNCHANGED <<memories, embeddings, sessions, observations, handler, env, suspect, gone>>

-----------------------------------------------------------------------------
(* The environment *)

\* Mutation: a statement that fails is retried for ever, under the lock.
StatementRetries(r) ==
    /\ At(r, "insert")
    /\ conn' = r
    /\ UNCHANGED <<tables, handler, pc, env, suspect, gone>>

\* What the statements before it did stays done.
StatementFails(r) ==
    /\ \/ pc[r] \in Working \ {"lookup", "summarise"} /\ conn = Nobody
       \/ pc[r] = "summarise" /\ conn = r
    /\ Fault
    /\ suspect' = suspect \cup {m \in Reqs : m = target[r] /\ pc[r] = "unembed"}
    /\ conn' = Nobody
    /\ Goto(r, "err")
    /\ UNCHANGED <<tables, handler, gone>>

\* The process ends between two statements and starts again.
CrashRestart ==
    /\ crashes < MaxCrashes
    /\ crashes' = crashes + 1
    /\ pc' = [r \in Reqs |-> IF pc[r] \in Working THEN "lost" ELSE pc[r]]
    /\ suspect' = suspect \cup {m \in Reqs : \E r \in Reqs : pc[r] = "unembed" /\ target[r] = m}
    /\ conn' = Nobody
    /\ UNCHANGED <<tables, handler, faults, gone>>

-----------------------------------------------------------------------------
Step(r) ==
    \/ InsertMemory(r) \/ StoreEmbedding(r) \/ UpdateMemory(r)
    \/ DeleteMemory(r) \/ DeleteEmbedding(r)
    \/ KeywordSearch(r) \/ SimilarSearch(r) \/ LookUp(r) \/ LookUpFails(r)
    \/ StartSession(r) \/ SaveObservation(r) \/ UnknownSession(r)
    \/ EndSession(r) \/ InsertSummary(r) \/ StatementFails(r)

Next ==
    \/ \E r \in Reqs : Submit(r) \/ Reject(r) \/ Step(r)
    \/ CrashRestart

Spec == Init /\ [][Next]_vars

\* A blocking thread that waits for the connection gets it.
FairSpec == Spec /\ \A r \in Reqs : WF_vars(Step(r))

-----------------------------------------------------------------------------
(* Properties *)

Ok(r) == pc[r] = "ok"

\* An embedding outlives its memory only if the memory was deleted before its
\* save had stored the vector, or the delete failed or died half way.
NoOrphanEmbedding ==
    \A e \in embeddings :
        \/ Alive(e.of) \/ e.of \in suspect
        \/ \E r \in Reqs : pc[r] = "unembed" /\ target[r] = e.of

\* A memory whose save was answered with success, vector included, can be
\* found by its vector for as long as it exists.
AckedIsEmbedded ==
    \A r \in Reqs : Ok(r) /\ call[r].op = "save" /\ call[r].vector /\ Alive(r) =>
        EmbeddingOf(r) # {}

\* A search that starts after a memory was deleted never returns it, even if
\* its embedding was left behind.
DeletedIsNotFound == \A r \in Reqs : \A x \in found[r] : x.of \notin gone[r]

\* A deleted memory does not come back, whatever update or save runs late.
DeletedStaysDeleted ==
    \A r \in Reqs : Ok(r) /\ call[r].op = "delete" /\ target[r] # Nobody => ~Alive(target[r])

\* A stored summary is of a session that has ended, also when end_session
\* fails or dies between its statements.
SummaryOfEnded ==
    \A s \in summaries : /\ sessions[s.session] # Never
                          /\ sessions[s.session].project = s.project
                          /\ sessions[s.session].ended

\* Every request that starts is answered or lost with the process.
EveryRequestEnds == \A r \in Reqs : pc[r] \in Working ~> pc[r] \in Finished
=============================================================================
