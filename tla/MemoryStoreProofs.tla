-------------------------- MODULE MemoryStoreProofs --------------------------
(* Proofs about MemoryStore, for every set of requests and projects. *)
EXTENDS MemoryStore, TLAPS

-----------------------------------------------------------------------------
(* Types *)

\* The tool that takes a step.
OpOf == [insert |-> "save", embed |-> "save", update |-> "update",
         delete |-> "delete", unembed |-> "delete",
         keyword |-> "search", similar |-> "search", lookup |-> "search",
         start |-> "start", observe |-> "observe", end |-> "end", summarise |-> "end"]

\* A handler runs the steps of its own tool, on a row it has seen, and has
\* inserted nothing before its insert.
RowInv ==
    \A r \in Reqs :
        /\ pc[r] \in Working => call[r] \in Calls /\ call[r].op = OpOf[pc[r]]
        /\ pc[r] \in {"update", "delete", "unembed"} /\ target[r] # Nobody =>
               memories[target[r]] # Never
        /\ pc[r] \in {"observe", "end", "summarise"} /\ target[r] # Nobody =>
               sessions[target[r]] # Never
        /\ pc[r] \in {"idle", "insert"} => memories[r] = Never
        /\ pc[r] \in {"idle", "start"} => sessions[r] = Never
        /\ memories[r] \in Memories => call[r].op = "save"
        /\ pc[r] = "idle" => found[r] = {}

TypeInv == TypeOK /\ RowInv

\* Steps are the keys of OpOf.
LEMMA OpOfSteps ==
    /\ OpOf["insert"] = "save" /\ OpOf["embed"] = "save"
    /\ OpOf["update"] = "update" /\ OpOf["delete"] = "delete" /\ OpOf["unembed"] = "delete"
    /\ OpOf["keyword"] = "search" /\ OpOf["similar"] = "search" /\ OpOf["lookup"] = "search"
    /\ OpOf["start"] = "start" /\ OpOf["observe"] = "observe"
    /\ OpOf["end"] = "end" /\ OpOf["summarise"] = "end"
  BY DEF OpOf

\* A tool's first step is one of its own.
LEMMA FirstStepOf ==
    ASSUME NEW c \in Calls
    PROVE  /\ FirstStep[c.op] \in {"insert", "keyword", "update", "delete", "start", "observe", "end"}
           /\ OpOf[FirstStep[c.op]] = c.op
  BY DEF Calls, FirstStep, OpOf

\* The initial state is well typed.
LEMMA InitTyped == Init => TypeInv
<1> SUFFICES ASSUME Init PROVE TypeInv
  OBVIOUS
<1>1. faults \in 0 .. MaxFaults /\ crashes \in 0 .. MaxCrashes
  BY LimitAssumption DEF Init
<1>2. Never \notin Memories
  BY DEF Never, Memories
<1> QED
  BY <1>1, <1>2 DEF Init, TypeInv, TypeOK, RowInv, Working

\* A missing and a deleted row are no memories.
LEMMA RowKinds ==
    /\ Never \notin Memories /\ Deleted \notin Memories /\ Never # Deleted
    /\ Never \notin Sessions
  BY DEF Never, Deleted, Memories, Sessions

\* Faults are counted up to the bound.
LEMMA FaultType == TypeOK /\ Fault => faults' \in 0 .. MaxFaults /\ crashes' \in 0 .. MaxCrashes
  BY LimitAssumption DEF TypeOK, Fault

\* A step of r that leaves the tables of memories and sessions and the call
\* of r alone, and goes on to a step of the same tool or to an end, keeps RowInv.
LEMMA RowFrame ==
    ASSUME TypeInv, NEW r \in Reqs, NEW s \in Working \cup Finished,
           pc[r] # "idle",
           pc' = [pc EXCEPT ![r] = s],
           s \in Finished \/ (s \in {"lookup", "similar"} /\ OpOf[pc[r]] = "search" /\ pc[r] \in Working),
           UNCHANGED <<memories, sessions, call, target>>,
           \A q \in Reqs \ {r} : found'[q] = found[q]
    PROVE  RowInv'
<1> USE DEF TypeInv, TypeOK
<1>1. ASSUME NEW q \in Reqs, q # r
      PROVE  pc'[q] = pc[q] /\ found'[q] = found[q]
  BY <1>1
<1>2. pc'[r] = s
  OBVIOUS
<1>3. s \in Finished => s \notin Working /\ s \notin {"idle", "insert", "start"}
  BY DEF Working, Finished
<1>4. s \in {"lookup", "similar"} => OpOf[s] = "search"
  BY OpOfSteps
<1> QED
  BY <1>1, <1>2, <1>3, <1>4 DEF RowInv, Working, Finished

\* Every step keeps the types.
LEMMA TypeStep == TypeInv /\ [Next]_vars => TypeInv'
<1> SUFFICES ASSUME TypeInv, [Next]_vars PROVE TypeInv'
  OBVIOUS
<1> USE DEF TypeInv, TypeOK
<1>1. ASSUME NEW r \in Reqs, Submit(r) PROVE TypeInv'
  <2>0. PICK c \in Menu : \E id \in Known(c) :
          /\ call' = [call EXCEPT ![r] = c] /\ target' = [target EXCEPT ![r] = id]
          /\ pc' = [pc EXCEPT ![r] = FirstStep[c.op]]
    BY <1>1 DEF Submit, Goto
  <2>1. PICK id \in Known(c) :
          /\ call' = [call EXCEPT ![r] = c] /\ target' = [target EXCEPT ![r] = id]
          /\ pc' = [pc EXCEPT ![r] = FirstStep[c.op]]
    BY <2>0
  <2>2. c \in Calls
    BY MenuAssumption
  <2>3. /\ FirstStep[c.op] \in {"insert", "keyword", "update", "delete", "start", "observe", "end"}
        /\ OpOf[FirstStep[c.op]] = c.op
    BY <2>2, FirstStepOf
  <2>4. /\ id \in Reqs \cup {Nobody}
        /\ c.op \in {"update", "delete"} /\ id # Nobody => memories[id] # Never
        /\ c.op \in {"observe", "end"} /\ id # Nobody => sessions[id] # Never
    BY DEF Known
  <2>5. TypeOK'
    BY <1>1, <2>1, <2>2, <2>3, <2>4 DEF Submit, tables, env, Working
  <2>6. ASSUME NEW q \in Reqs, q # r
        PROVE  pc'[q] = pc[q] /\ call'[q] = call[q] /\ target'[q] = target[q]
    BY <2>1, <2>6
  <2>7. /\ pc'[r] = FirstStep[c.op] /\ call'[r] = c /\ target'[r] = id
        /\ memories[r] = Never /\ sessions[r] = Never /\ UNCHANGED <<memories, sessions, found>>
    BY <1>1, <2>1 DEF Submit, RowInv, tables
  <2>8. FirstStep[c.op] \in {"update", "delete", "unembed"} => c.op \in {"update", "delete"}
    BY <2>3, OpOfSteps
  <2>9. FirstStep[c.op] \in {"observe", "end", "summarise"} => c.op \in {"observe", "end"}
    BY <2>3, OpOfSteps
  <2>10. RowInv'
    BY <2>2, <2>3, <2>4, <2>6, <2>7, <2>8, <2>9, RowKinds DEF RowInv, Working
  <2> QED
    BY <2>5, <2>10
<1>2. ASSUME NEW r \in Reqs, Reject(r) PROVE TypeInv'
  <2>1. UNCHANGED <<tables, conn, handler, env, suspect, gone>> /\ pc[r] = "idle"
        /\ pc' = [pc EXCEPT ![r] = "err"]
    BY <1>2 DEF Reject, Goto
  <2>2. TypeOK'
    BY <2>1 DEF tables, handler, env, Working, Finished
  <2>3. RowInv'
    BY <2>1 DEF RowInv, tables, handler, Working
  <2> QED
    BY <2>2, <2>3
<1>3. ASSUME NEW r \in Reqs, InsertMemory(r) PROVE TypeInv'
  <2> DEFINE row == [project |-> call[r].project, category |-> call[r].category,
                     match |-> call[r].match]
  <2>1. call[r] \in Calls /\ call[r].op = "save"
    BY <1>3, OpOfSteps DEF InsertMemory, At, RowInv, Working
  <2>2. row \in Memories
    BY <2>1 DEF Calls, Memories
  <2>3. memories' = [memories EXCEPT ![r] = row] /\ pc[r] = "insert"
    BY <1>3 DEF InsertMemory, At
  <2>4. pc' = [pc EXCEPT ![r] = IF call[r].vector THEN "embed" ELSE "ok"]
    BY <1>3 DEF InsertMemory, Goto
  <2>5. UNCHANGED <<embeddings, sessions, summaries, observations, conn, handler, env, suspect, gone>>
    BY <1>3 DEF InsertMemory
  <2>6. TypeOK'
    BY <2>2, <2>3, <2>4, <2>5 DEF handler, env, Working, Finished
  <2>7. RowInv'
    BY <2>1, <2>2, <2>3, <2>4, <2>5, RowKinds, OpOfSteps DEF RowInv, handler, Working
  <2> QED
    BY <2>6, <2>7
<1>4. ASSUME NEW r \in Reqs, StoreEmbedding(r) PROVE TypeInv'
  <2>1. call[r] \in Calls /\ call[r].op = "save"
    BY <1>4, OpOfSteps DEF StoreEmbedding, At, RowInv, Working
  <2>2. embeddings' \in SUBSET [of : Reqs, project : Projects]
    BY <1>4, <2>1 DEF StoreEmbedding, Calls
  <2>3. /\ pc' = [pc EXCEPT ![r] = "ok"] /\ pc[r] = "embed"
        /\ UNCHANGED <<memories, sessions, summaries, observations, conn, handler, env, suspect, gone>>
    BY <1>4 DEF StoreEmbedding, Goto, At
  <2>4. RowInv'
    BY <2>3, RowFrame DEF handler, Working, Finished
  <2> QED
    BY <2>2, <2>3, <2>4 DEF handler, env, Finished
<1>5. ASSUME NEW r \in Reqs, UpdateMemory(r) PROVE TypeInv'
  <2>1. call[r] \in Calls /\ call[r].op = "update"
    BY <1>5, OpOfSteps DEF UpdateMemory, At, RowInv, Working
  <2>2. call[r].match \in BOOLEAN
    BY <2>1 DEF Calls
  <2>3. ASSUME NEW m \in Reqs
        PROVE  /\ memories'[m] \in Memories \cup {Never, Deleted}
               /\ memories'[m] = Never <=> memories[m] = Never
               /\ memories'[m] \in Memories <=> memories[m] \in Memories
    <3>1. memories'[m] = IF m = target[r] /\ Alive(m)
                         THEN [memories[m] EXCEPT !.match = call[r].match] ELSE memories[m]
      BY <1>5 DEF UpdateMemory
    <3>2. Alive(m) => memories[m] \in Memories
      BY DEF Alive
    <3>3. memories[m] \in Memories => [memories[m] EXCEPT !.match = call[r].match] \in Memories
      BY <2>2 DEF Memories
    <3> QED
      BY <3>1, <3>2, <3>3, RowKinds
  <2>4. /\ pc' = [pc EXCEPT ![r] = "ok"] /\ pc[r] = "update"
        /\ UNCHANGED <<embeddings, sessions, summaries, observations, conn, handler, env, suspect, gone>>
    BY <1>5 DEF UpdateMemory, Goto, At
  <2>5. memories' \in [Reqs -> Memories \cup {Never, Deleted}]
    BY <1>5, <2>3 DEF UpdateMemory
  <2>6. RowInv'
    BY <2>3, <2>4 DEF RowInv, handler, Working, Finished
  <2> QED
    BY <2>4, <2>5, <2>6 DEF handler, env, Finished
<1>6. ASSUME NEW r \in Reqs, DeleteMemory(r) PROVE TypeInv'
  <2>1. /\ pc[r] = "delete" /\ pc' = [pc EXCEPT ![r] = "unembed"]
        /\ memories' = [m \in Reqs |-> IF m = target[r] THEN Deleted ELSE memories[m]]
        /\ UNCHANGED <<embeddings, sessions, summaries, observations, conn, handler, env, gone>>
        /\ suspect' \in SUBSET Reqs
    BY <1>6 DEF DeleteMemory, Goto, At
  <2>2. call[r] \in Calls /\ call[r].op = "delete"
    BY <2>1, OpOfSteps DEF RowInv, Working
  <2>3. \A m \in Reqs : /\ memories'[m] = Never => memories[m] = Never
                        /\ memories'[m] \in Memories => memories[m] \in Memories
    BY <2>1, RowKinds
  <2>4. target[r] # Nobody => memories[target[r]] # Never
    BY <2>1 DEF RowInv
  <2>5. \A m \in Reqs : memories[m] = Never => memories'[m] = Never
    BY <2>1, <2>4, NobodyAssumption
  <2>6. RowInv'
    BY <2>1, <2>2, <2>3, <2>5, OpOfSteps DEF RowInv, handler, Working
  <2> QED
    BY <2>1, <2>6 DEF handler, env, Working
<1>7. ASSUME NEW r \in Reqs, DeleteEmbedding(r) PROVE TypeInv'
  <2>1. /\ pc[r] = "unembed" /\ pc' = [pc EXCEPT ![r] = "ok"]
        /\ embeddings' \subseteq embeddings
        /\ UNCHANGED <<memories, sessions, summaries, observations, conn, handler, env, suspect, gone>>
    BY <1>7 DEF DeleteEmbedding, Goto, At
  <2>2. RowInv'
    BY <2>1, RowFrame DEF handler, Working, Finished
  <2> QED
    BY <2>1, <2>2 DEF handler, env, Finished
<1>8. ASSUME NEW r \in Reqs, KeywordSearch(r) PROVE TypeInv'
  <2>1. /\ pc[r] = "keyword" /\ UNCHANGED <<tables, conn, call, target, todo, env, suspect, gone>>
        /\ pc' = [pc EXCEPT ![r] = IF call[r].vector THEN "similar" ELSE "ok"]
        /\ \A q \in Reqs \ {r} : found'[q] = found[q]
    BY <1>8 DEF KeywordSearch, Goto, At
  <2>2. \A m \in Reqs : Alive(m) => memories[m].category \in Categories
    BY DEF Alive, Memories
  <2>3. found' \in [Reqs -> SUBSET [of : Reqs, category : Categories]]
    BY <1>8, <2>2 DEF KeywordSearch
  <2>4. RowInv'
    <3>1. PICK s \in {"similar", "ok"} : pc' = [pc EXCEPT ![r] = s]
      BY <2>1
    <3>2. /\ s \in Finished \/ (s \in {"lookup", "similar"} /\ OpOf[pc[r]] = "search" /\ pc[r] \in Working)
          /\ s \in Working \cup Finished /\ pc[r] # "idle"
      BY <2>1, OpOfSteps DEF Working, Finished
    <3>3. UNCHANGED <<memories, sessions, call, target>>
      BY <2>1 DEF tables
    <3> QED
      BY <2>1, <3>1, <3>2, <3>3, RowFrame
  <2> QED
    BY <2>1, <2>3, <2>4 DEF tables, env, Working, Finished
<1>9. ASSUME NEW r \in Reqs, SimilarSearch(r) PROVE TypeInv'
  <2>1. /\ pc[r] = "similar" /\ UNCHANGED <<tables, conn, call, target, found, env, suspect, gone>>
        /\ \/ pc' = [pc EXCEPT ![r] = "lookup"]
           \/ pc' = [pc EXCEPT ![r] = "ok"]
    BY <1>9 DEF SimilarSearch, Goto, At
  <2>2. todo' \in [Reqs -> SUBSET Reqs]
    BY <1>9 DEF SimilarSearch
  <2>3. RowInv'
    BY <2>1, OpOfSteps, RowFrame DEF tables, Working, Finished
  <2> QED
    BY <2>1, <2>2, <2>3 DEF tables, env, Working, Finished
<1>10. ASSUME NEW r \in Reqs, LookUp(r) PROVE TypeInv'
  <2>1. PICK w \in todo[r] :
          /\ found' = [found EXCEPT ![r] = IF Alive(w)
               THEN @ \cup {[of |-> w, category |-> memories[w].category]} ELSE @]
          /\ todo' = [todo EXCEPT ![r] = @ \ {w}]
          /\ pc' = [pc EXCEPT ![r] = IF todo[r] = {w} THEN "ok" ELSE "lookup"]
    BY <1>10 DEF LookUp, Goto
  <2>2. pc[r] = "lookup" /\ UNCHANGED <<tables, conn, call, target, env, suspect, gone>>
    BY <1>10 DEF LookUp, At
  <2>3. Alive(w) => memories[w].category \in Categories
    BY <2>1 DEF Alive, Memories
  <2>4. found' \in [Reqs -> SUBSET [of : Reqs, category : Categories]] /\ todo' \in [Reqs -> SUBSET Reqs]
    BY <2>1, <2>3
  <2>5. \A q \in Reqs \ {r} : found'[q] = found[q]
    BY <2>1
  <2>6. pc' = [pc EXCEPT ![r] = "lookup"] \/ pc' = [pc EXCEPT ![r] = "ok"]
    BY <2>1
  <2>7. RowInv'
    BY <2>2, <2>5, <2>6, OpOfSteps, RowFrame DEF tables, Working, Finished
  <2> QED
    BY <2>2, <2>4, <2>6, <2>7 DEF tables, env, Working, Finished
<1>11. ASSUME NEW r \in Reqs, LookUpFails(r) PROVE TypeInv'
  <2>1. /\ pc[r] = "lookup" /\ UNCHANGED <<tables, conn, call, target, found, suspect, gone>> /\ Fault
        /\ \/ pc' = [pc EXCEPT ![r] = "lookup"]
           \/ pc' = [pc EXCEPT ![r] = "ok"]
    BY <1>11 DEF LookUpFails, Goto, At
  <2>2. todo' \in [Reqs -> SUBSET Reqs]
    BY <1>11 DEF LookUpFails
  <2>3. RowInv'
    BY <2>1, OpOfSteps, RowFrame DEF tables, Working, Finished
  <2> QED
    BY <2>1, <2>2, <2>3, FaultType DEF tables, Working, Finished
<1>12. ASSUME NEW r \in Reqs, StartSession(r) PROVE TypeInv'
  <2>1. /\ pc[r] = "start" /\ pc' = [pc EXCEPT ![r] = "ok"]
        /\ sessions' = [sessions EXCEPT ![r] = [project |-> call[r].project, ended |-> FALSE]]
        /\ UNCHANGED <<memories, embeddings, summaries, observations, conn, handler, env, suspect, gone>>
    BY <1>12 DEF StartSession, Goto, At
  <2>2. call[r] \in Calls /\ call[r].op = "start"
    BY <2>1, OpOfSteps DEF RowInv, Working
  <2>3. [project |-> call[r].project, ended |-> FALSE] \in Sessions
    BY <2>2 DEF Calls, Sessions
  <2>4. RowInv'
    BY <2>1, <2>3, RowKinds DEF RowInv, handler, Working, Finished
  <2> QED
    BY <2>1, <2>3, <2>4 DEF handler, env, Finished
<1>13. ASSUME NEW r \in Reqs, SaveObservation(r) \/ InsertSummary(r) PROVE TypeInv'
  <2>1. /\ pc[r] \in {"observe", "summarise"} /\ pc' = [pc EXCEPT ![r] = "ok"]
        /\ target[r] # Nobody
        /\ UNCHANGED <<memories, embeddings, sessions, handler, env, suspect, gone>>
        /\ conn' \in {conn, Nobody}
    BY <1>13 DEF SaveObservation, InsertSummary, Goto, At
  <2>2. target[r] \in Reqs /\ sessions[target[r]] \in Sessions
    BY <2>1 DEF RowInv
  <2>3. sessions[target[r]].project \in Projects
    BY <2>2 DEF Sessions
  <2>4. /\ summaries' \in SUBSET [by : Reqs, session : Reqs, project : Projects]
        /\ observations' \in SUBSET [by : Reqs, session : Reqs, project : Projects]
    BY <1>13, <2>2, <2>3 DEF SaveObservation, InsertSummary
  <2>5. RowInv'
    BY <2>1, RowFrame DEF handler, Working, Finished
  <2> QED
    BY <2>1, <2>4, <2>5 DEF handler, env, Finished
<1>14. ASSUME NEW r \in Reqs, UnknownSession(r) PROVE TypeInv'
  <2>1. /\ pc[r] \in {"observe", "summarise"} /\ pc' = [pc EXCEPT ![r] = "err"]
        /\ UNCHANGED <<tables, handler, env, suspect, gone>>
        /\ conn' \in {conn, Nobody}
    BY <1>14 DEF UnknownSession, Goto, At
  <2>2. RowInv'
    BY <2>1, RowFrame DEF tables, handler, Working, Finished
  <2> QED
    BY <2>1, <2>2 DEF tables, handler, env, Finished
<1>15. ASSUME NEW r \in Reqs, EndSession(r) PROVE TypeInv'
  <2>1. /\ pc[r] = "end"
        /\ pc' = [pc EXCEPT ![r] = IF call[r].summary THEN "summarise" ELSE "ok"]
        /\ sessions' = [s \in Reqs |-> IF s = target[r] THEN [sessions[s] EXCEPT !.ended = TRUE]
                                       ELSE sessions[s]]
        /\ UNCHANGED <<memories, embeddings, summaries, observations, handler, env, suspect, gone>>
        /\ conn' \in {conn, r}
    BY <1>15 DEF EndSession, Goto, At
  <2>2. call[r] \in Calls /\ call[r].op = "end"
    BY <2>1, OpOfSteps DEF RowInv, Working
  <2>3. ASSUME NEW s \in Reqs
        PROVE  /\ sessions'[s] \in Sessions \cup {Never}
               /\ sessions'[s] = Never <=> sessions[s] = Never
    <3>1. s = target[r] => sessions[s] \in Sessions
      BY <2>1, NobodyAssumption DEF RowInv
    <3>2. sessions[s] \in Sessions => [sessions[s] EXCEPT !.ended = TRUE] \in Sessions
      BY DEF Sessions
    <3> QED
      BY <2>1, <3>1, <3>2, RowKinds
  <2>4. sessions' \in [Reqs -> Sessions \cup {Never}]
    BY <2>1, <2>3
  <2>5. RowInv'
    BY <2>1, <2>2, <2>3, OpOfSteps DEF RowInv, handler, Working, Finished
  <2> QED
    BY <2>1, <2>4, <2>5 DEF handler, env, Working, Finished
<1>16. ASSUME NEW r \in Reqs, StatementFails(r) PROVE TypeInv'
  <2>1. /\ pc[r] \in Working /\ pc' = [pc EXCEPT ![r] = "err"]
        /\ UNCHANGED <<tables, handler, gone>> /\ Fault
        /\ conn' = Nobody /\ suspect' \in SUBSET Reqs
    BY <1>16 DEF StatementFails, Goto, Working
  <2>2. RowInv'
    BY <2>1, RowFrame DEF tables, handler, Working, Finished
  <2> QED
    BY <2>1, <2>2, FaultType DEF tables, handler, Finished
<1>17. ASSUME CrashRestart PROVE TypeInv'
  <2>1. /\ UNCHANGED <<tables, handler, faults, gone>>
        /\ conn' = Nobody /\ suspect' \in SUBSET Reqs
        /\ crashes' \in 0 .. MaxCrashes
    BY <1>17, LimitAssumption DEF CrashRestart
  <2>2. /\ pc' \in [Reqs -> {"idle"} \cup Finished]
        /\ \A r \in Reqs : pc'[r] = "idle" => pc[r] = "idle"
    BY <1>17 DEF CrashRestart, Finished
  <2>3. RowInv'
    BY <2>1, <2>2 DEF RowInv, tables, handler, Working, Finished
  <2> QED
    BY <2>1, <2>2, <2>3 DEF tables, handler
<1>18. ASSUME UNCHANGED vars PROVE TypeInv'
  BY <1>18 DEF vars, tables, handler, env, RowInv
<1> QED
  BY <1>1, <1>2, <1>3, <1>4, <1>5, <1>6, <1>7, <1>8, <1>9, <1>10, <1>11, <1>12, <1>13, <1>14,
     <1>15, <1>16, <1>17, <1>18 DEF Next, Step

\* Every reachable state is well typed.
THEOREM TypeCorrect == Spec => []TypeOK
<1>1. TypeInv => TypeOK
  BY DEF TypeInv
<1> QED
  BY <1>1, InitTyped, TypeStep, PTL DEF Spec

-----------------------------------------------------------------------------
(* Memories and their embeddings *)

\* A save that has yet to store its vector has a live memory or a suspect one.
EmbInv == NoOrphanEmbedding /\ \A r \in Reqs : pc[r] = "embed" => Alive(r) \/ r \in suspect

\* A deleted memory stays deleted, and so does what it was deleted for.
DelInv ==
    \A r \in Reqs :
        /\ \A m \in gone[r] : memories[m] = Deleted
        /\ (pc[r] = "unembed" \/ (Ok(r) /\ call[r].op = "delete")) /\ target[r] # Nobody =>
               memories[target[r]] = Deleted

\* What each kind of step does to the tables of memories and embeddings.
TablesRest == UNCHANGED <<memories, embeddings, suspect>>

\* The steps that write neither memories nor embeddings.
LEMMA QuietSteps ==
    ASSUME TypeInv, NEW r \in Reqs,
           \/ Submit(r) \/ Reject(r) \/ KeywordSearch(r) \/ SimilarSearch(r) \/ LookUp(r)
           \/ LookUpFails(r) \/ StartSession(r) \/ SaveObservation(r) \/ UnknownSession(r)
           \/ EndSession(r) \/ InsertSummary(r)
    PROVE  /\ TablesRest
           /\ pc[r] \notin {"embed", "unembed", "delete"} /\ pc'[r] \notin {"embed", "unembed"}
           /\ \A q \in Reqs \ {r} : pc'[q] = pc[q] /\ target'[q] = target[q] /\ call'[q] = call[q]
<1> USE DEF TypeInv, TypeOK
<1>1. TablesRest
  BY DEF TablesRest, Submit, Reject, KeywordSearch, SimilarSearch, LookUp, LookUpFails,
         StartSession, SaveObservation, UnknownSession, EndSession, InsertSummary, tables
<1>2. pc[r] \notin {"embed", "unembed", "delete"}
  BY DEF Submit, Reject, KeywordSearch, SimilarSearch, LookUp, LookUpFails,
         StartSession, SaveObservation, UnknownSession, EndSession, InsertSummary, At
<1>3. CASE Submit(r)
  <2>1. PICK c \in Menu : pc' = [pc EXCEPT ![r] = FirstStep[c.op]]
    BY <1>3 DEF Submit, Goto
  <2>2. pc'[r] \notin {"embed", "unembed"}
    BY <2>1, FirstStepOf, MenuAssumption
  <2>3. \A q \in Reqs \ {r} : pc'[q] = pc[q] /\ target'[q] = target[q] /\ call'[q] = call[q]
    BY <1>3, <2>1 DEF Submit
  <2> QED
    BY <1>1, <1>2, <2>2, <2>3
<1>4. CASE ~Submit(r)
  <2>1. UNCHANGED <<call, target>>
    BY <1>4 DEF Reject, KeywordSearch, SimilarSearch, LookUp, LookUpFails, StartSession,
                SaveObservation, UnknownSession, EndSession, InsertSummary, handler
  <2>2. pc'[r] \in {"err", "ok", "similar", "lookup", "summarise"}
    BY <1>4 DEF Reject, KeywordSearch, SimilarSearch, LookUp, LookUpFails, StartSession,
                SaveObservation, UnknownSession, EndSession, InsertSummary, Goto
  <2>3. \A q \in Reqs \ {r} : pc'[q] = pc[q]
    BY <1>4 DEF Reject, KeywordSearch, SimilarSearch, LookUp, LookUpFails, StartSession,
                SaveObservation, UnknownSession, EndSession, InsertSummary, Goto
  <2> QED
    BY <1>1, <1>2, <2>1, <2>2, <2>3
<1> QED
  BY <1>3, <1>4

\* Every step keeps track of the embeddings that may be orphans.
LEMMA EmbStep == TypeInv /\ EmbInv /\ [Next]_vars => EmbInv'
<1> SUFFICES ASSUME TypeInv, EmbInv, [Next]_vars PROVE EmbInv'
  OBVIOUS
<1> USE DEF TypeInv, TypeOK
<1>1. ASSUME NEW r \in Reqs,
             \/ Submit(r) \/ Reject(r) \/ KeywordSearch(r) \/ SimilarSearch(r) \/ LookUp(r)
             \/ LookUpFails(r) \/ StartSession(r) \/ SaveObservation(r) \/ UnknownSession(r)
             \/ EndSession(r) \/ InsertSummary(r)
      PROVE EmbInv'
  BY <1>1, QuietSteps DEF TablesRest, EmbInv, NoOrphanEmbedding, Alive
<1>2. ASSUME NEW r \in Reqs, InsertMemory(r) PROVE EmbInv'
  <2>1. /\ UNCHANGED <<embeddings, suspect, target>> /\ pc[r] = "insert"
        /\ \A q \in Reqs : q # r => pc'[q] = pc[q] /\ memories'[q] = memories[q]
        /\ pc'[r] \in {"embed", "ok"}
    BY <1>2 DEF InsertMemory, Goto, At, handler
  <2>2. Alive(r)'
    <3>1. memories'[r] = [project |-> call[r].project, category |-> call[r].category,
                          match |-> call[r].match]
      BY <1>2 DEF InsertMemory
    <3> QED
      BY <3>1 DEF Alive, Never, Deleted
  <2> QED
    BY <2>1, <2>2 DEF EmbInv, NoOrphanEmbedding, Alive
<1>3. ASSUME NEW r \in Reqs, StoreEmbedding(r) PROVE EmbInv'
  <2>1. /\ UNCHANGED <<memories, suspect, target>> /\ pc[r] = "embed" /\ pc'[r] = "ok"
        /\ \A q \in Reqs : q # r => pc'[q] = pc[q]
        /\ embeddings' \subseteq embeddings \cup {[of |-> r, project |-> call[r].project]}
    BY <1>3 DEF StoreEmbedding, Goto, At, handler
  <2> QED
    BY <2>1 DEF EmbInv, NoOrphanEmbedding, Alive
<1>4. ASSUME NEW r \in Reqs, UpdateMemory(r) PROVE EmbInv'
  <2>1. /\ UNCHANGED <<embeddings, suspect, target>> /\ pc[r] = "update" /\ pc'[r] = "ok"
        /\ \A q \in Reqs : q # r => pc'[q] = pc[q]
    BY <1>4 DEF UpdateMemory, Goto, At, handler
  <2>2. ASSUME NEW m \in Reqs, Alive(m) PROVE Alive(m)'
    <3>1. memories[m] \in Memories
      BY <2>2 DEF Alive
    <3>2. memories'[m] \in {memories[m], [memories[m] EXCEPT !.match = call[r].match]}
      BY <1>4 DEF UpdateMemory
    <3> QED
      BY <2>2, <3>1, <3>2 DEF Alive, Memories, Never, Deleted
  <2> QED
    BY <2>1, <2>2 DEF EmbInv, NoOrphanEmbedding
<1>5. ASSUME NEW r \in Reqs, DeleteMemory(r) PROVE EmbInv'
  <2>1. /\ UNCHANGED <<embeddings, target>> /\ pc[r] = "delete" /\ pc'[r] = "unembed"
        /\ \A q \in Reqs : q # r => pc'[q] = pc[q]
        /\ memories' = [m \in Reqs |-> IF m = target[r] THEN Deleted ELSE memories[m]]
        /\ suspect' = suspect \cup {m \in Reqs : m = target[r] /\ pc[m] = "embed"}
    BY <1>5 DEF DeleteMemory, Goto, At, handler
  <2> QED
    BY <2>1 DEF EmbInv, NoOrphanEmbedding, Alive
<1>6. ASSUME NEW r \in Reqs, DeleteEmbedding(r) PROVE EmbInv'
  <2>1. /\ UNCHANGED <<memories, target, suspect>> /\ pc[r] = "unembed" /\ pc'[r] = "ok"
        /\ \A q \in Reqs : q # r => pc'[q] = pc[q]
        /\ embeddings' = {e \in embeddings : e.of # target[r]}
    BY <1>6 DEF DeleteEmbedding, EmbeddingOf, Goto, At, handler
  <2> QED
    BY <2>1 DEF EmbInv, NoOrphanEmbedding, Alive
<1>7. ASSUME NEW r \in Reqs, StatementFails(r) PROVE EmbInv'
  <2>1. /\ UNCHANGED <<memories, embeddings, target>> /\ pc'[r] = "err"
        /\ \A q \in Reqs : q # r => pc'[q] = pc[q]
        /\ suspect' = suspect \cup {m \in Reqs : m = target[r] /\ pc[r] = "unembed"}
    BY <1>7 DEF StatementFails, Goto, handler, tables
  <2> QED
    BY <2>1 DEF EmbInv, NoOrphanEmbedding, Alive
<1>8. ASSUME CrashRestart PROVE EmbInv'
  <2>1. /\ UNCHANGED <<memories, embeddings, target>>
        /\ \A q \in Reqs : pc'[q] # "embed"
        /\ suspect' = suspect \cup {m \in Reqs : \E q \in Reqs : pc[q] = "unembed" /\ target[q] = m}
    BY <1>8 DEF CrashRestart, Working, handler, tables
  <2> QED
    BY <2>1 DEF EmbInv, NoOrphanEmbedding, Alive
<1>9. ASSUME UNCHANGED vars PROVE EmbInv'
  BY <1>9 DEF vars, tables, handler, EmbInv, NoOrphanEmbedding, Alive
<1> QED
  BY <1>1, <1>2, <1>3, <1>4, <1>5, <1>6, <1>7, <1>8, <1>9 DEF Next, Step

\* Every embedding belongs to a memory, is about to be deleted, or was orphaned
\* by a delete that overlapped its save, failed or died half way
\* (save_memory and delete_memory of tools/memory.rs).
THEOREM OrphansAreSuspect == Spec => []NoOrphanEmbedding
<1>1. Init => EmbInv
  BY DEF Init, EmbInv, NoOrphanEmbedding
<1>2. EmbInv => NoOrphanEmbedding
  BY DEF EmbInv
<1> QED
  BY <1>1, <1>2, InitTyped, TypeStep, EmbStep, PTL DEF Spec

\* No step brings a deleted row back.
LEMMA DeletedKept ==
    ASSUME TypeInv, [Next]_vars, NEW m \in Reqs, memories[m] = Deleted
    PROVE  memories'[m] = Deleted
<1> USE DEF TypeInv, TypeOK
<1>1. ASSUME NEW r \in Reqs, InsertMemory(r) PROVE memories'[m] = Deleted
  <2>1. memories[r] = Never
    BY <1>1 DEF InsertMemory, At, RowInv
  <2> QED
    BY <1>1, <2>1, RowKinds DEF InsertMemory
<1>2. ASSUME NEW r \in Reqs, UpdateMemory(r) \/ DeleteMemory(r) PROVE memories'[m] = Deleted
  BY <1>2 DEF UpdateMemory, DeleteMemory, Alive
<1>3. ASSUME NEW r \in Reqs,
             \/ Submit(r) \/ Reject(r) \/ KeywordSearch(r) \/ SimilarSearch(r) \/ LookUp(r)
             \/ LookUpFails(r) \/ StartSession(r) \/ SaveObservation(r) \/ UnknownSession(r)
             \/ EndSession(r) \/ InsertSummary(r)
      PROVE memories'[m] = Deleted
  BY <1>3, QuietSteps DEF TablesRest
<1>4. ASSUME NEW r \in Reqs, StoreEmbedding(r) \/ DeleteEmbedding(r) \/ StatementFails(r)
      PROVE memories'[m] = Deleted
  BY <1>4 DEF StoreEmbedding, DeleteEmbedding, StatementFails, tables
<1>5. CASE CrashRestart \/ UNCHANGED vars
  BY <1>5 DEF CrashRestart, vars, tables
<1> QED
  BY <1>1, <1>2, <1>3, <1>4, <1>5 DEF Next, Step

\* Every step keeps what a delete has done, for its caller and later requests.
LEMMA DelStep == TypeInv /\ DelInv /\ [Next]_vars => DelInv'
<1> SUFFICES ASSUME TypeInv, DelInv, [Next]_vars, NEW q \in Reqs
             PROVE  /\ \A m \in gone'[q] : memories'[m] = Deleted
                    /\ /\ pc'[q] = "unembed" \/ (pc'[q] = "ok" /\ call'[q].op = "delete")
                       /\ target'[q] # Nobody
                       => memories'[target'[q]] = Deleted
  BY DEF DelInv, Ok
<1> USE DEF TypeInv, TypeOK
<1>1. \A m \in Reqs : memories[m] = Deleted => memories'[m] = Deleted
  BY DeletedKept
<1>2. CASE gone'[q] = gone[q] /\ pc'[q] = pc[q] /\ call'[q] = call[q] /\ target'[q] = target[q]
  BY <1>1, <1>2 DEF DelInv, Ok
<1>3. CASE Submit(q)
  <2>1. gone'[q] = {m \in Reqs : memories[m] = Deleted}
    BY <1>3 DEF Submit
  <2>2. PICK c \in Menu : pc' = [pc EXCEPT ![q] = FirstStep[c.op]]
    BY <1>3 DEF Submit, Goto
  <2>3. pc'[q] \notin {"unembed", "ok"}
    BY <2>2, FirstStepOf, MenuAssumption
  <2> QED
    BY <1>1, <2>1, <2>3
<1>4. CASE DeleteMemory(q)
  <2>1. gone' = gone /\ target' = target
    BY <1>4 DEF DeleteMemory, handler
  <2>2. target[q] # Nobody => memories'[target[q]] = Deleted
    BY <1>4 DEF DeleteMemory
  <2> QED
    BY <1>1, <2>1, <2>2 DEF DelInv
<1>5. CASE DeleteEmbedding(q)
  <2>1. gone' = gone /\ target' = target /\ pc[q] = "unembed"
    BY <1>5 DEF DeleteEmbedding, handler, At
  <2> QED
    BY <1>1, <2>1 DEF DelInv
<1>6. CASE \/ InsertMemory(q) \/ StoreEmbedding(q) \/ UpdateMemory(q)
           \/ KeywordSearch(q) \/ SimilarSearch(q) \/ LookUp(q) \/ LookUpFails(q)
           \/ StartSession(q) \/ SaveObservation(q) \/ UnknownSession(q)
           \/ EndSession(q) \/ InsertSummary(q)
  <2>1. gone' = gone /\ call' = call
    BY <1>6 DEF InsertMemory, StoreEmbedding, UpdateMemory, KeywordSearch, SimilarSearch, LookUp,
         LookUpFails, StartSession, SaveObservation, UnknownSession, EndSession, InsertSummary, handler
  <2>2. pc[q] \in Working \ {"delete", "unembed"}
    BY <1>6 DEF InsertMemory, StoreEmbedding, UpdateMemory, KeywordSearch, SimilarSearch, LookUp,
         LookUpFails, StartSession, SaveObservation, UnknownSession, EndSession, InsertSummary, At, Working
  <2>3. call[q].op # "delete"
    BY <2>2, OpOfSteps DEF RowInv, Working
  <2>4. pc'[q] # "unembed"
    BY <1>6 DEF InsertMemory, StoreEmbedding, UpdateMemory, KeywordSearch, SimilarSearch, LookUp,
         LookUpFails, StartSession, SaveObservation, UnknownSession, EndSession, InsertSummary, Goto
  <2> QED
    BY <1>1, <2>1, <2>3, <2>4 DEF DelInv
<1>7. CASE Reject(q) \/ StatementFails(q) \/ CrashRestart
  <2>1. gone' = gone /\ call' = call /\ target' = target
    BY <1>7 DEF Reject, StatementFails, CrashRestart, handler
  <2>2. pc'[q] = pc[q] \/ pc'[q] \in {"err", "lost"}
    BY <1>7 DEF Reject, StatementFails, CrashRestart, Goto
  <2> QED
    BY <1>1, <2>1, <2>2 DEF DelInv, Ok
<1>8. ASSUME NEW r \in Reqs, r # q, Submit(r) \/ Reject(r) \/ Step(r)
      PROVE gone'[q] = gone[q] /\ pc'[q] = pc[q] /\ call'[q] = call[q] /\ target'[q] = target[q]
  <2>1. CASE Submit(r) \/ Reject(r)
    BY <1>8, <2>1 DEF Submit, Reject, Goto, handler
  <2>2. CASE Step(r)
    <3>1. gone' = gone /\ call' = call /\ target' = target
      BY <2>2 DEF Step, InsertMemory, StoreEmbedding, UpdateMemory, DeleteMemory, DeleteEmbedding,
         KeywordSearch, SimilarSearch, LookUp, LookUpFails, StartSession, SaveObservation,
         UnknownSession, EndSession, InsertSummary, StatementFails, handler
    <3>2. pc'[q] = pc[q]
      BY <1>8, <2>2 DEF Step, InsertMemory, StoreEmbedding, UpdateMemory, DeleteMemory, DeleteEmbedding,
         KeywordSearch, SimilarSearch, LookUp, LookUpFails, StartSession, SaveObservation,
         UnknownSession, EndSession, InsertSummary, StatementFails, Goto
    <3> QED
      BY <3>1, <3>2
  <2> QED
    BY <1>8, <2>1, <2>2
<1>9. CASE UNCHANGED vars
  BY <1>2, <1>9 DEF vars, handler
<1> QED
  BY <1>2, <1>3, <1>4, <1>5, <1>6, <1>7, <1>8, <1>9 DEF Next, Step

\* A memory whose delete was answered with success stays deleted, whatever
\* updates and saves are still under way (update_memory never inserts).
THEOREM DeletesLast == Spec => []DeletedStaysDeleted
<1>1. Init => DelInv
  BY DEF Init, DelInv, Ok
<1>2. DelInv => DeletedStaysDeleted
  BY DEF DelInv, DeletedStaysDeleted, Alive
<1> QED
  BY <1>1, <1>2, InitTyped, TypeStep, DelStep, PTL DEF Spec

\* Only its own insert makes a row appear.
LEMMA AliveBefore ==
    ASSUME TypeInv, [Next]_vars, NEW m \in Reqs, Alive(m)', ~InsertMemory(m)
    PROVE  Alive(m)
<1> USE DEF TypeInv, TypeOK
<1>1. ASSUME NEW r \in Reqs, InsertMemory(r) PROVE Alive(m)
  BY <1>1 DEF InsertMemory, Alive
<1>2. ASSUME NEW r \in Reqs, UpdateMemory(r) \/ DeleteMemory(r) PROVE Alive(m)
  BY <1>2 DEF UpdateMemory, DeleteMemory, Alive
<1>3. ASSUME NEW r \in Reqs,
             \/ Submit(r) \/ Reject(r) \/ KeywordSearch(r) \/ SimilarSearch(r) \/ LookUp(r)
             \/ LookUpFails(r) \/ StartSession(r) \/ SaveObservation(r) \/ UnknownSession(r)
             \/ EndSession(r) \/ InsertSummary(r)
      PROVE Alive(m)
  BY <1>3, QuietSteps DEF TablesRest, Alive
<1>4. ASSUME NEW r \in Reqs, StoreEmbedding(r) \/ DeleteEmbedding(r) \/ StatementFails(r)
      PROVE Alive(m)
  BY <1>4 DEF StoreEmbedding, DeleteEmbedding, StatementFails, tables, Alive
<1>5. CASE CrashRestart \/ UNCHANGED vars
  BY <1>5 DEF CrashRestart, vars, tables, Alive
<1> QED
  BY <1>1, <1>2, <1>3, <1>4, <1>5 DEF Next, Step

\* Only the delete of a memory removes its vector.
LEMMA VectorKeptOtherwise ==
    ASSUME TypeInv, DelInv, [Next]_vars, NEW m \in Reqs, Alive(m)', EmbeddingOf(m) # {}
    PROVE  EmbeddingOf(m)' # {}
<1> USE DEF TypeInv, TypeOK
<1>1. PICK e \in embeddings : e.of = m
  BY DEF EmbeddingOf
<1>2. ASSUME NEW r \in Reqs, StoreEmbedding(r) PROVE EmbeddingOf(m)' # {}
  <2>1. embeddings' = {x \in embeddings : x.of # r} \cup {[of |-> r, project |-> call[r].project]}
    BY <1>2 DEF StoreEmbedding, EmbeddingOf
  <2>2. \E x \in embeddings' : x.of = m
    <3>1. CASE m = r
      <4>1. [of |-> r, project |-> call[r].project] \in embeddings'
        BY <2>1
      <4> QED
        BY <3>1, <4>1
    <3>2. CASE m # r
      BY <1>1, <2>1, <3>2
    <3> QED
      BY <3>1, <3>2
  <2> QED
    BY <2>2 DEF EmbeddingOf
<1>3. ASSUME NEW r \in Reqs, DeleteEmbedding(r) PROVE EmbeddingOf(m)' # {}
  <2>1. /\ embeddings' = {x \in embeddings : x.of # target[r]} /\ pc[r] = "unembed"
        /\ memories' = memories
    BY <1>3 DEF DeleteEmbedding, EmbeddingOf, At
  <2>2. target[r] # m
    BY <2>1, NobodyAssumption DEF DelInv, Alive
  <2> QED
    BY <1>1, <2>1, <2>2 DEF EmbeddingOf
<1>4. ASSUME NEW r \in Reqs,
             \/ Submit(r) \/ Reject(r) \/ KeywordSearch(r) \/ SimilarSearch(r) \/ LookUp(r)
             \/ LookUpFails(r) \/ StartSession(r) \/ SaveObservation(r) \/ UnknownSession(r)
             \/ EndSession(r) \/ InsertSummary(r)
      PROVE EmbeddingOf(m)' # {}
  BY <1>1, <1>4, QuietSteps DEF TablesRest, EmbeddingOf
<1>5. ASSUME NEW r \in Reqs,
             InsertMemory(r) \/ UpdateMemory(r) \/ DeleteMemory(r) \/ StatementFails(r)
      PROVE EmbeddingOf(m)' # {}
  BY <1>1, <1>5 DEF InsertMemory, UpdateMemory, DeleteMemory, StatementFails, tables, EmbeddingOf
<1>6. CASE CrashRestart \/ UNCHANGED vars
  BY <1>1, <1>6 DEF CrashRestart, vars, tables, EmbeddingOf
<1> QED
  BY <1>2, <1>3, <1>4, <1>5, <1>6 DEF Next, Step

\* A save that is answered has stored its vector or has none to store.
LEMMA SavedStep == TypeInv /\ DelInv /\ AckedIsEmbedded /\ [Next]_vars => AckedIsEmbedded'
<1> SUFFICES ASSUME TypeInv, DelInv, AckedIsEmbedded, [Next]_vars, NEW s \in Reqs,
                    pc'[s] = "ok", call'[s].op = "save", call'[s].vector, Alive(s)'
             PROVE  EmbeddingOf(s)' # {}
  BY DEF AckedIsEmbedded, Ok
<1> USE DEF TypeInv, TypeOK
<1>1. CASE pc[s] = "ok" /\ call'[s] = call[s]
  <2>1. ~InsertMemory(s)
    BY <1>1 DEF InsertMemory, At
  <2>2. Alive(s)
    BY <2>1, AliveBefore
  <2>3. EmbeddingOf(s) # {}
    BY <1>1, <2>2 DEF AckedIsEmbedded, Ok
  <2> QED
    BY <2>3, VectorKeptOtherwise
<1>2. CASE StoreEmbedding(s)
  <2>1. [of |-> s, project |-> call[s].project] \in embeddings'
    BY <1>2 DEF StoreEmbedding
  <2> QED
    BY <2>1 DEF EmbeddingOf
<1>3. CASE InsertMemory(s)
  BY <1>3 DEF InsertMemory, Goto, handler
<1>4. CASE Submit(s)
  <2>1. PICK c \in Menu : pc' = [pc EXCEPT ![s] = FirstStep[c.op]]
    BY <1>4 DEF Submit, Goto
  <2> QED
    BY <2>1, FirstStepOf, MenuAssumption
<1>5. CASE \/ UpdateMemory(s) \/ DeleteMemory(s) \/ DeleteEmbedding(s)
           \/ KeywordSearch(s) \/ SimilarSearch(s) \/ LookUp(s) \/ LookUpFails(s)
           \/ StartSession(s) \/ SaveObservation(s) \/ UnknownSession(s)
           \/ EndSession(s) \/ InsertSummary(s)
  <2>1. call' = call
    BY <1>5 DEF UpdateMemory, DeleteMemory, DeleteEmbedding, KeywordSearch, SimilarSearch, LookUp,
         LookUpFails, StartSession, SaveObservation, UnknownSession, EndSession, InsertSummary, handler
  <2>2. pc[s] \in Working \ {"insert", "embed"}
    BY <1>5 DEF UpdateMemory, DeleteMemory, DeleteEmbedding, KeywordSearch, SimilarSearch, LookUp,
         LookUpFails, StartSession, SaveObservation, UnknownSession, EndSession, InsertSummary, At, Working
  <2>3. call[s].op # "save"
    BY <2>2, OpOfSteps DEF RowInv, Working
  <2> QED
    BY <2>1, <2>3
<1>6. CASE Reject(s) \/ StatementFails(s)
  BY <1>6 DEF Reject, StatementFails, Goto
<1>7. ASSUME NEW r \in Reqs, r # s, Submit(r) \/ Reject(r) \/ Step(r)
      PROVE pc[s] = "ok" /\ call'[s] = call[s]
  <2>1. CASE Submit(r) \/ Reject(r)
    BY <1>7, <2>1 DEF Submit, Reject, Goto, handler
  <2>2. CASE Step(r)
    BY <1>7, <2>2 DEF Step, InsertMemory, StoreEmbedding, UpdateMemory, DeleteMemory, DeleteEmbedding,
         KeywordSearch, SimilarSearch, LookUp, LookUpFails, StartSession, SaveObservation,
         UnknownSession, EndSession, InsertSummary, StatementFails, handler, Goto
  <2> QED
    BY <1>7, <2>1, <2>2
<1>8. CASE CrashRestart \/ UNCHANGED vars
  BY <1>1, <1>8 DEF CrashRestart, vars, handler
<1> QED
  BY <1>1, <1>2, <1>3, <1>4, <1>5, <1>6, <1>7, <1>8 DEF Next, Step

\* A memory whose save was answered with success has its vector for as long as
\* it exists: no update and no other memory's save or delete removes it
\* (store_embedding and delete_embedding of memory/embeddings.rs).
THEOREM SavesKeepTheirVector == Spec => []AckedIsEmbedded
<1>1. Init => DelInv /\ AckedIsEmbedded
  BY DEF Init, DelInv, AckedIsEmbedded, Ok
<1> QED
  BY <1>1, InitTyped, TypeStep, DelStep, SavedStep, PTL DEF Spec

\* No step puts a memory that was deleted before the search into its results.
LEMMA FoundStep ==
    TypeInv /\ DelInv /\ DeletedIsNotFound /\ [Next]_vars => DeletedIsNotFound'
<1> SUFFICES ASSUME TypeInv, DelInv, DeletedIsNotFound, [Next]_vars PROVE DeletedIsNotFound'
  OBVIOUS
<1> USE DEF TypeInv, TypeOK
<1>1. ASSUME NEW r \in Reqs, Submit(r) PROVE DeletedIsNotFound'
  <2>1. found[r] = {} /\ found' = found /\ \A q \in Reqs : q # r => gone'[q] = gone[q]
    BY <1>1 DEF Submit, RowInv
  <2> QED
    BY <2>1 DEF DeletedIsNotFound
<1>2. ASSUME NEW r \in Reqs, KeywordSearch(r) PROVE DeletedIsNotFound'
  <2>1. gone' = gone /\ \A q \in Reqs : q # r => found'[q] = found[q]
    BY <1>2 DEF KeywordSearch
  <2>2. \A x \in found'[r] : Alive(x.of)
    BY <1>2 DEF KeywordSearch
  <2> QED
    BY <2>1, <2>2 DEF DeletedIsNotFound, DelInv, Alive
<1>3. ASSUME NEW r \in Reqs, LookUp(r) PROVE DeletedIsNotFound'
  <2>1. gone' = gone /\ \A q \in Reqs : q # r => found'[q] = found[q]
    BY <1>3 DEF LookUp
  <2>2. \A x \in found'[r] : x \in found[r] \/ Alive(x.of)
    BY <1>3 DEF LookUp
  <2> QED
    BY <2>1, <2>2 DEF DeletedIsNotFound, DelInv, Alive
<1>4. CASE UNCHANGED <<found, gone>>
  BY <1>4 DEF DeletedIsNotFound
<1>5. Next => \/ UNCHANGED <<found, gone>>
              \/ \E r \in Reqs : Submit(r) \/ KeywordSearch(r) \/ LookUp(r)
  BY DEF Next, Step, Reject, InsertMemory, StoreEmbedding, UpdateMemory, DeleteMemory,
         DeleteEmbedding, SimilarSearch, LookUpFails, StartSession, SaveObservation,
         UnknownSession, EndSession, InsertSummary, StatementFails, CrashRestart, handler
<1> QED
  BY <1>1, <1>2, <1>3, <1>4, <1>5 DEF vars, handler

\* A search never returns a memory that was deleted before the search began,
\* also by an embedding that was left behind (get_context of memory/search.rs
\* looks every vector hit up in the table of memories).
THEOREM SearchesSkipDeleted == Spec => []DeletedIsNotFound
<1>1. Init => DelInv /\ DeletedIsNotFound
  BY DEF Init, DelInv, DeletedIsNotFound, Ok
<1> QED
  BY <1>1, InitTyped, TypeStep, DelStep, FoundStep, PTL DEF Spec

-----------------------------------------------------------------------------
(* Sessions *)

\* A request about to insert a summary has ended the session.
SumInv ==
    /\ SummaryOfEnded
    /\ \A r \in Reqs : pc[r] = "summarise" /\ target[r] # Nobody => sessions[target[r]].ended = TRUE

\* Summaries are only inserted for sessions that the same call has ended.
LEMMA SumStep == TypeInv /\ SumInv /\ [Next]_vars => SumInv'
<1> SUFFICES ASSUME TypeInv, SumInv, [Next]_vars PROVE SumInv'
  OBVIOUS
<1> USE DEF TypeInv, TypeOK
<1>1. ASSUME NEW r \in Reqs, StartSession(r) PROVE SumInv'
  <2>1. /\ sessions[r] = Never
        /\ UNCHANGED <<summaries, target>> /\ pc'[r] = "ok"
        /\ \A q \in Reqs : q # r => pc'[q] = pc[q] /\ sessions'[q] = sessions[q]
    BY <1>1 DEF StartSession, At, RowInv, Goto, handler
  <2>2. \A s \in summaries : s.session # r
    BY <2>1 DEF SumInv, SummaryOfEnded
  <2>3. \A q \in Reqs : pc[q] = "summarise" => target[q] # r
    BY <2>1, NobodyAssumption DEF RowInv
  <2> QED
    BY <2>1, <2>2, <2>3 DEF SumInv, SummaryOfEnded
<1>2. ASSUME NEW r \in Reqs, EndSession(r) PROVE SumInv'
  <2>1. /\ UNCHANGED <<summaries, target>> /\ pc[r] = "end"
        /\ \A q \in Reqs : q # r => pc'[q] = pc[q]
        /\ sessions' = [s \in Reqs |-> IF s = target[r] THEN [sessions[s] EXCEPT !.ended = TRUE]
                                       ELSE sessions[s]]
    BY <1>2 DEF EndSession, At, Goto, handler
  <2>2. target[r] # Nobody => sessions[target[r]] \in Sessions
    BY <2>1 DEF RowInv
  <2>3. target[r] # Nobody => /\ sessions'[target[r]] # Never
                              /\ sessions'[target[r]].project = sessions[target[r]].project
                              /\ sessions'[target[r]].ended = TRUE
    <3> SUFFICES ASSUME target[r] # Nobody
                 PROVE  /\ sessions'[target[r]] # Never
                        /\ sessions'[target[r]].project = sessions[target[r]].project
                        /\ sessions'[target[r]].ended = TRUE
      OBVIOUS
    <3>1. sessions'[target[r]] = [sessions[target[r]] EXCEPT !.ended = TRUE]
      BY <2>1
    <3>2. [sessions[target[r]] EXCEPT !.ended = TRUE] \in Sessions
      BY <2>2 DEF Sessions
    <3> QED
      BY <2>2, <3>1, <3>2, RowKinds DEF Sessions
  <2>4. \A s \in Reqs : s # target[r] => sessions'[s] = sessions[s]
    BY <2>1
  <2>5. \A s \in summaries : /\ sessions'[s.session] # Never
                              /\ sessions'[s.session].project = s.project
                              /\ sessions'[s.session].ended = TRUE
    <3> SUFFICES ASSUME NEW s \in summaries
                 PROVE  /\ sessions'[s.session] # Never
                        /\ sessions'[s.session].project = s.project
                        /\ sessions'[s.session].ended = TRUE
      OBVIOUS
    <3>1. /\ s.session \in Reqs /\ sessions[s.session] # Never
          /\ sessions[s.session].project = s.project /\ sessions[s.session].ended = TRUE
      BY DEF SumInv, SummaryOfEnded
    <3>2. CASE s.session = target[r]
      BY <2>3, <3>1, <3>2, NobodyAssumption
    <3>3. CASE s.session # target[r]
      BY <2>4, <3>1, <3>3
    <3> QED
      BY <3>2, <3>3
  <2>6. \A q \in Reqs : pc'[q] = "summarise" /\ target[q] # Nobody => sessions'[target[q]].ended = TRUE
    BY <2>1, <2>3, <2>4 DEF SumInv
  <2> QED
    BY <2>1, <2>5, <2>6 DEF SumInv, SummaryOfEnded
<1>3. ASSUME NEW r \in Reqs, InsertSummary(r) PROVE SumInv'
  <2>1. /\ UNCHANGED <<sessions, target>> /\ pc[r] = "summarise" /\ target[r] # Nobody
        /\ \A q \in Reqs : pc'[q] = "summarise" => pc[q] = "summarise"
        /\ summaries' = summaries \cup
             {[by |-> r, session |-> target[r], project |-> sessions[target[r]].project]}
    BY <1>3 DEF InsertSummary, Goto, handler
  <2>2. sessions[target[r]] # Never
    BY <2>1 DEF RowInv
  <2>3. sessions[target[r]].ended = TRUE
    BY <2>1 DEF SumInv
  <2> QED
    BY <2>1, <2>2, <2>3 DEF SumInv, SummaryOfEnded
<1>4. ASSUME NEW r \in Reqs, Submit(r) PROVE SumInv'
  <2>1. PICK c \in Menu : pc' = [pc EXCEPT ![r] = FirstStep[c.op]]
    BY <1>4 DEF Submit, Goto
  <2>2. pc'[r] # "summarise"
    BY <2>1, FirstStepOf, MenuAssumption
  <2>3. UNCHANGED <<sessions, summaries>> /\ \A q \in Reqs : q # r => pc'[q] = pc[q] /\ target'[q] = target[q]
    BY <1>4, <2>1 DEF Submit, tables
  <2> QED
    BY <2>2, <2>3 DEF SumInv, SummaryOfEnded
<1>5. ASSUME UNCHANGED <<sessions, summaries, target>>,
             \A q \in Reqs : pc'[q] = "summarise" => pc[q] = "summarise"
      PROVE SumInv'
  BY <1>5 DEF SumInv, SummaryOfEnded
<1>6. ASSUME NEW r \in Reqs,
             \/ Reject(r) \/ InsertMemory(r) \/ StoreEmbedding(r) \/ UpdateMemory(r)
             \/ DeleteMemory(r) \/ DeleteEmbedding(r) \/ KeywordSearch(r) \/ SimilarSearch(r)
             \/ LookUp(r) \/ LookUpFails(r) \/ SaveObservation(r) \/ UnknownSession(r)
             \/ StatementFails(r)
      PROVE SumInv'
  <2>1. UNCHANGED <<sessions, summaries, target>>
    BY <1>6 DEF Reject, InsertMemory, StoreEmbedding, UpdateMemory, DeleteMemory, DeleteEmbedding,
         KeywordSearch, SimilarSearch, LookUp, LookUpFails, SaveObservation, UnknownSession,
         StatementFails, handler, tables
  <2>2. PICK s \in {"err", "ok", "embed", "unembed", "similar", "lookup"} : pc' = [pc EXCEPT ![r] = s]
    BY <1>6 DEF Reject, InsertMemory, StoreEmbedding, UpdateMemory, DeleteMemory, DeleteEmbedding,
         KeywordSearch, SimilarSearch, LookUp, LookUpFails, SaveObservation, UnknownSession,
         StatementFails, Goto
  <2> QED
    BY <1>5, <2>1, <2>2
<1>7. CASE CrashRestart \/ UNCHANGED vars
  <2>1. UNCHANGED <<sessions, summaries, target>>
    BY <1>7 DEF CrashRestart, vars, handler, tables
  <2>2. \A q \in Reqs : pc'[q] = "summarise" => pc[q] = "summarise"
    BY <1>7 DEF CrashRestart, vars
  <2> QED
    BY <1>5, <2>1, <2>2
<1> QED
  BY <1>1, <1>2, <1>3, <1>4, <1>6, <1>7 DEF Next, Step

\* A stored summary belongs to a session that has ended, of the same project,
\* whichever statement of end_session fails or is lost (memory/sessions.rs).
THEOREM SummariesFollowTheEnd == Spec => []SummaryOfEnded
<1>1. Init => SumInv
  BY DEF Init, SumInv, SummaryOfEnded
<1>2. SumInv => SummaryOfEnded
  BY DEF SumInv
<1> QED
  BY <1>1, <1>2, InitTyped, TypeStep, SumStep, PTL DEF Spec
=============================================================================
