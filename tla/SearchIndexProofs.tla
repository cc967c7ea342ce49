------------------------- MODULE SearchIndexProofs -------------------------
(* Proofs about SearchIndex, for every set of requests, paths and calls. *)
EXTENDS SearchIndex, FiniteSetTheorems, TLAPS

-----------------------------------------------------------------------------
(* Types *)

\* TypeOK, and between its delete and its add a handler holds an entry.
TypeInv == TypeOK /\ \A r \in Reqs : pc[r] = "add" => cur[r] \in Entries

\* What a call knows from its arguments is an entry.
LEMMA GivenEntries == ASSUME NEW call \in Calls PROVE Given(call) \subseteq Entries
<1>1. CASE call.op \in {"index_file", "delete"}
  <2>1. call.path \in Paths
    BY <1>1 DEF Calls
  <2> QED
    BY <1>1, <2>1 DEF Given, Entries
<1>2. CASE call.op \notin {"index_file", "delete"}
  BY <1>2 DEF Given
<1> QED
  BY <1>1, <1>2

\* The handler of any call starts at one of its steps.
LEMMA FirstStepWorks == ASSUME NEW call \in Calls PROVE FirstStep(call) \in Working \ {"add"}
  BY DEF FirstStep, Calls, Working

\* What a walk returns are entries.
LEMMA WalkEntries ==
    ASSUME NEW r \in Reqs,
           NEW es \in SUBSET (IF job[r].op = "directory" THEN Collectable ELSE Readable)
    PROVE  es \subseteq Entries
  BY DEF Collectable, Readable, Entries, Paths

\* The document a request makes of an entry is a document.
LEMMA DocOfEntry == ASSUME NEW r \in Reqs, NEW e \in Entries PROVE DocOf(r, e) \in Docs
  BY DEF DocOf, Entries, Docs

\* Every step keeps the types.
LEMMA TypeStep == TypeInv /\ [Next]_vars => TypeInv'
<1> SUFFICES ASSUME TypeInv, [Next]_vars PROVE TypeInv'
  OBVIOUS
<1> USE BoundAssumption DEF TypeInv, TypeOK, index, handler, env, history
<1>1. ASSUME NEW r \in Reqs, Submit(r) PROVE TypeInv'
  <2>1. PICK call \in Jobs :
          /\ job' = [job EXCEPT ![r] = call]
          /\ Goto(r, FirstStep(call))
          /\ todo' = [todo EXCEPT ![r] = Given(call)]
          /\ found' = [found EXCEPT ![r] = Given(call)]
    BY <1>1 DEF Submit
  <2>2. call \in Calls
    BY JobsAssumption
  <2>3. Given(call) \subseteq Entries /\ FirstStep(call) \in Working \ {"add"}
    BY <2>2, GivenEntries, FirstStepWorks
  <2>4. /\ found' \in [Reqs -> SUBSET Entries] /\ todo' \in [Reqs -> SUBSET Entries]
        /\ job' \in [Reqs -> Calls \cup {None}]
        /\ before' \in [Reqs -> SUBSET Docs]
    BY <1>1, <2>1, <2>2, <2>3 DEF Submit
  <2>5. /\ pc' \in [Reqs -> {"idle"} \cup Working \cup Finished]
        /\ \A q \in Reqs : pc'[q] = "add" => cur'[q] \in Entries
    BY <1>1, <2>1, <2>3 DEF Submit, Goto
  <2> QED
    BY <1>1, <2>4, <2>5 DEF Submit
<1>2. ASSUME NEW r \in Reqs, Reject(r) PROVE TypeInv'
  BY <1>2 DEF Reject, Goto, Finished
<1>3. ASSUME NEW r \in Reqs, Walk(r) PROVE TypeInv'
  <2>1. PICK es \in SUBSET (IF job[r].op = "directory" THEN Collectable ELSE Readable) :
          /\ todo' = [todo EXCEPT ![r] = es]
          /\ found' = [found EXCEPT ![r] = es]
          /\ Goto(r, IF es = {} THEN "commit" ELSE "delete")
    BY <1>3 DEF Walk
  <2>2. es \subseteq Entries
    BY WalkEntries
  <2> QED
    BY <1>3, <2>1, <2>2 DEF Walk, Goto, Working
<1>4. ASSUME NEW r \in Reqs, WalkFails(r) PROVE TypeInv'
  BY <1>4 DEF WalkFails, Goto, Finished, Fault
<1>5. ASSUME NEW r \in Reqs, Delete(r) PROVE TypeInv'
  <2>1. PICK e \in todo[r] :
          /\ staged' = staged \ At(staged, e.path)
          /\ gone' = gone \cup At(staged, e.path)
          /\ todo' = [todo EXCEPT ![r] = @ \ {e}]
          /\ cur' = [cur EXCEPT ![r] = e]
          /\ raced' = IF job[r].op # "delete" /\ \E q \in Reqs \ {r} : InGap(q, e.path)
                      THEN raced \cup {e.path} ELSE raced
    BY <1>5 DEF Delete
  <2>2. e \in Entries /\ e.path \in Paths
    BY <2>1 DEF Entries
  <2> QED
    BY <1>5, <2>1, <2>2 DEF Delete, Goto, Working, At
<1>6. ASSUME NEW r \in Reqs, DeleteFails(r) PROVE TypeInv'
  BY <1>6 DEF DeleteFails, Goto, Working, Finished
<1>7. ASSUME NEW r \in Reqs, Add(r) PROVE TypeInv'
  <2>1. DocOf(r, cur[r]) \in Docs
    BY <1>7, DocOfEntry DEF Add
  <2> QED
    BY <1>7, <2>1 DEF Add, Goto, Working, NextEntry
<1>8. ASSUME NEW r \in Reqs, AddFails(r) PROVE TypeInv'
  BY <1>8 DEF AddFails, Goto, Working, Finished, NextEntry, WriterFails, Fault
<1>9. ASSUME NEW r \in Reqs, BatchCommit(r) \/ Commit(r) PROVE TypeInv'
  BY <1>9 DEF BatchCommit, Commit, WriterCommit, Goto, Working, NextEntry
<1>10. ASSUME NEW r \in Reqs, BatchCommitFails(r) \/ CommitFails(r) PROVE TypeInv'
  BY <1>10 DEF BatchCommitFails, CommitFails, WriterFails, Fault, Goto, Working,
               Finished, NextEntry
<1>11. ASSUME NEW r \in Reqs, Reload(r) \/ ClearReload(r) \/ ReloadFails(r) PROVE TypeInv'
  BY <1>11 DEF Reload, ClearReload, ReloadFails, Fault, Goto, Working, Finished
<1>12. ASSUME NEW r \in Reqs, Clear(r) \/ ClearFails(r) PROVE TypeInv'
  <2>1. CASE Clear(r)
    BY <2>1 DEF Clear, Goto, Working
  <2>2. CASE ClearFails(r)
    <3>1. faults' \in 0 .. MaxFaults /\ crashes' \in 0 .. MaxCrashes
      BY <2>2 DEF ClearFails, WriterFails, Fault
    <3>2. staged' \in SUBSET Docs /\ gone' \in SUBSET Docs
      BY <2>2 DEF ClearFails
    <3> QED
      BY <2>2, <3>1, <3>2 DEF ClearFails, Goto, Finished
  <2> QED
    BY <1>12, <2>1, <2>2
<1>13. ASSUME NEW r \in Reqs, Poison(r) PROVE TypeInv'
  BY <1>13 DEF Poison, Fault, Goto, Finished
<1>14. ASSUME WatcherReload PROVE TypeInv'
  BY <1>14 DEF WatcherReload
<1>15. ASSUME CrashRestart PROVE TypeInv'
  <2>1. /\ pc' \in [Reqs -> {"idle"} \cup Working \cup Finished]
        /\ \A r \in Reqs : pc'[r] # "add"
    BY <1>15 DEF CrashRestart, Finished, Working
  <2>2. crashes' \in 0 .. MaxCrashes
    BY <1>15 DEF CrashRestart
  <2> QED
    BY <1>15, <2>1, <2>2 DEF CrashRestart
<1>16. ASSUME UNCHANGED vars PROVE TypeInv'
  BY <1>16 DEF vars
<1> QED
  BY <1>1, <1>2, <1>3, <1>4, <1>5, <1>6, <1>7, <1>8, <1>9, <1>10, <1>11, <1>12,
     <1>13, <1>14, <1>15, <1>16 DEF Next, Step

\* The initial state is well typed.
LEMMA InitTyped == Init => TypeInv
<1> SUFFICES ASSUME Init PROVE TypeInv
  OBVIOUS
<1>1. /\ pc \in [Reqs -> {"idle"} \cup Working \cup Finished]
      /\ \A r \in Reqs : pc[r] # "add"
  BY DEF Init
<1>2. faults \in 0 .. MaxFaults /\ crashes \in 0 .. MaxCrashes
  BY BoundAssumption DEF Init
<1>3. job \in [Reqs -> Calls \cup {None}] /\ cur \in [Reqs -> Entries \cup {None}]
  BY DEF Init
<1> QED
  BY <1>1, <1>2, <1>3 DEF Init, TypeInv, TypeOK

\* Every reachable state is well typed: documents come from requests and
\* paths, and every request is at a step of its handler or finished.
THEOREM TypeCorrect == Spec => []TypeOK
<1>1. TypeInv => TypeOK
  BY DEF TypeInv
<1> QED
  BY <1>1, InitTyped, TypeStep, PTL DEF Spec

-----------------------------------------------------------------------------
(* Acknowledged documents are durable and visible *)

\* The steps before a handler can have added anything.
Early == {"idle", "clear", "clearReload", "walk"}

\* What a request added is staged until its commit makes it durable; what is
\* durable stays staged: only a delete or a clear takes either away.
DurInv ==
    /\ disk \subseteq staged \cup gone
    /\ \A r \in Reqs :
         /\ pc[r] \in Early => written[r] = {}
         /\ pc[r] \in Working => written[r] \subseteq staged \cup gone
         /\ pc[r] \in {"reload", "ok"} => written[r] \subseteq disk \cup gone
         /\ pc[r] = "ok" => written[r] \subseteq view \cup gone

\* Every step keeps the durability invariant.
LEMMA DurStep == TypeInv /\ DurInv /\ [Next]_vars => DurInv'
<1> SUFFICES ASSUME TypeInv, DurInv, [Next]_vars PROVE DurInv'
  OBVIOUS
<1> USE DEF TypeInv, TypeOK, DurInv, index, handler, env, history
<1>1. ASSUME NEW r \in Reqs, Submit(r) PROVE DurInv'
  <2>1. PICK step \in Working : pc' = [pc EXCEPT ![r] = step] /\ step \notin {"reload"}
    BY <1>1, JobsAssumption, FirstStepWorks DEF Submit, Goto, FirstStep, Working
  <2> QED
    BY <1>1, <2>1 DEF Submit, Early, Working
<1>2. ASSUME NEW r \in Reqs, Reject(r) PROVE DurInv'
  BY <1>2 DEF Reject, Goto, Early, Working
<1>3. ASSUME NEW r \in Reqs, Walk(r) \/ WalkFails(r) PROVE DurInv'
  BY <1>3 DEF Walk, WalkFails, Goto, Early, Working
<1>4. ASSUME NEW r \in Reqs, Delete(r) PROVE DurInv'
  BY <1>4 DEF Delete, Goto, Early, Working
<1>5. ASSUME NEW r \in Reqs, DeleteFails(r) PROVE DurInv'
  BY <1>5 DEF DeleteFails, Goto, Early, Working
<1>6. ASSUME NEW r \in Reqs, Add(r) PROVE DurInv'
  BY <1>6 DEF Add, Goto, Early, Working, NextEntry
<1>7. ASSUME NEW r \in Reqs, AddFails(r) \/ BatchCommitFails(r) \/ CommitFails(r) PROVE DurInv'
  BY <1>7 DEF AddFails, BatchCommitFails, CommitFails, Goto, Early, Working, NextEntry
<1>8. ASSUME NEW r \in Reqs, BatchCommit(r) \/ Commit(r) PROVE DurInv'
  BY <1>8 DEF BatchCommit, Commit, WriterCommit, Goto, Early, Working, NextEntry
<1>9. ASSUME NEW r \in Reqs, Reload(r) \/ ClearReload(r) \/ ReloadFails(r) PROVE DurInv'
  BY <1>9 DEF Reload, ClearReload, ReloadFails, Goto, Early, Working
<1>10. ASSUME NEW r \in Reqs, Clear(r) PROVE DurInv'
  BY <1>10 DEF Clear, Goto, Early, Working
<1>11. ASSUME NEW r \in Reqs, ClearFails(r) PROVE DurInv'
  BY <1>11 DEF ClearFails, Goto, Early, Working
<1>12. ASSUME NEW r \in Reqs, Poison(r) PROVE DurInv'
  BY <1>12 DEF Poison, Goto, Early, Working
<1>13. ASSUME WatcherReload PROVE DurInv'
  BY <1>13 DEF WatcherReload
<1>14. ASSUME CrashRestart PROVE DurInv'
  BY <1>14 DEF CrashRestart, Early, Working
<1>15. ASSUME UNCHANGED vars PROVE DurInv'
  BY <1>15 DEF vars
<1> QED
  BY <1>1, <1>2, <1>3, <1>4, <1>5, <1>6, <1>7, <1>8, <1>9, <1>10, <1>11, <1>12,
     <1>13, <1>14, <1>15 DEF Next, Step

-----------------------------------------------------------------------------
(* One document a path, unless two upserts raced *)

\* While nobody else is between delete and add of a path, its staged document
\* is the only one, and a request that is there has taken it away.
UniqInv ==
    /\ UniqueUnlessRaced
    /\ \A p \in Paths \ raced, r \in Reqs : InGap(r, p) =>
         /\ \A d \in staged : d.path # p
         /\ \A q \in Reqs : InGap(q, p) => q = r

\* Every step keeps it.
LEMMA UniqStep == TypeInv /\ UniqInv /\ [Next]_vars => UniqInv'
<1> SUFFICES ASSUME TypeInv, UniqInv, [Next]_vars PROVE UniqInv'
  OBVIOUS
<1> USE DEF TypeInv, TypeOK, UniqInv, UniqueUnlessRaced, InGap, index, handler, env, history
<1>1. ASSUME NEW r \in Reqs, Submit(r) PROVE UniqInv'
  <2>1. PICK step \in Working \ {"add"} : pc' = [pc EXCEPT ![r] = step]
    BY <1>1, JobsAssumption, FirstStepWorks DEF Submit, Goto
  <2> QED
    BY <1>1, <2>1 DEF Submit
<1>2. ASSUME NEW r \in Reqs, Reject(r) \/ Walk(r) \/ WalkFails(r) PROVE UniqInv'
  <2>1. PICK step \in {"err", "commit", "delete"} : pc' = [pc EXCEPT ![r] = step]
    BY <1>2 DEF Reject, Walk, WalkFails, Goto
  <2>2. UNCHANGED <<staged, disk, view, dead, cur, raced>>
    BY <1>2 DEF Reject, Walk, WalkFails
  <2> QED
    BY <2>1, <2>2
<1>3. ASSUME NEW r \in Reqs, Delete(r) PROVE UniqInv'
  BY <1>3 DEF Delete, Goto, At, Entries
<1>4. ASSUME NEW r \in Reqs, DeleteFails(r) PROVE UniqInv'
  BY <1>4 DEF DeleteFails, Goto
<1>5. ASSUME NEW r \in Reqs, Add(r) PROVE UniqInv'
  BY <1>5 DEF Add, Goto, NextEntry, DocOf, Entries
<1>6. ASSUME NEW r \in Reqs, AddFails(r) \/ BatchCommitFails(r) \/ CommitFails(r) PROVE UniqInv'
  BY <1>6 DEF AddFails, BatchCommitFails, CommitFails, Goto, NextEntry
<1>7. ASSUME NEW r \in Reqs, BatchCommit(r) \/ Commit(r) PROVE UniqInv'
  BY <1>7 DEF BatchCommit, Commit, WriterCommit, Goto, NextEntry
<1>8. ASSUME NEW r \in Reqs, Reload(r) \/ ClearReload(r) \/ ReloadFails(r) PROVE UniqInv'
  BY <1>8 DEF Reload, ClearReload, ReloadFails, Goto
<1>9. ASSUME NEW r \in Reqs, Clear(r) \/ ClearFails(r) PROVE UniqInv'
  BY <1>9 DEF Clear, ClearFails, Goto
<1>10. ASSUME NEW r \in Reqs, Poison(r) PROVE UniqInv'
  BY <1>10 DEF Poison, Goto
<1>11. ASSUME WatcherReload PROVE UniqInv'
  BY <1>11 DEF WatcherReload
<1>12. ASSUME CrashRestart PROVE UniqInv'
  BY <1>12 DEF CrashRestart, Working
<1>13. ASSUME UNCHANGED vars PROVE UniqInv'
  BY <1>13 DEF vars
<1> QED
  BY <1>1, <1>2, <1>3, <1>4, <1>5, <1>6, <1>7, <1>8, <1>9, <1>10, <1>11, <1>12,
     <1>13 DEF Next, Step

-----------------------------------------------------------------------------
(* What was replaced or removed does not come back *)

\* A request adds a document for an entry once: what it has written is not
\* ahead of it, and every document anywhere was written by its request.
FreshInv ==
    /\ \A r \in Reqs :
         /\ \A d \in written[r] : d.by = r
         /\ pc[r] \in Early => written[r] = {}
         /\ \A e \in todo[r], d \in written[r] : d.path # e.path
         /\ \A e, f \in todo[r] : e.path = f.path => e = f
         /\ pc[r] = "add" =>
              /\ \A d \in written[r] : d.path # cur[r].path
              /\ \A e \in todo[r] : e.path # cur[r].path
    /\ \A d \in staged \cup disk \cup view : d \in written[d.by]
    /\ \A r \in Reqs : \A d \in before[r] : d \in written[d.by]

\* Every step keeps it.
LEMMA FreshStep == TypeInv /\ FreshInv /\ [Next]_vars => FreshInv'
<1> SUFFICES ASSUME TypeInv, FreshInv, [Next]_vars PROVE FreshInv'
  OBVIOUS
<1> USE DEF TypeInv, TypeOK, FreshInv, index, handler, env, history
<1>1. ASSUME NEW r \in Reqs, Submit(r) PROVE FreshInv'
  <2>1. PICK call \in Jobs :
          /\ pc' = [pc EXCEPT ![r] = FirstStep(call)]
          /\ todo' = [todo EXCEPT ![r] = Given(call)]
    BY <1>1 DEF Submit, Goto
  <2>2. \A e, f \in Given(call) : e.path = f.path => e = f
    BY DEF Given
  <2>3. FirstStep(call) # "add"
    BY JobsAssumption, FirstStepWorks
  <2>4. written[r] = {}
    BY <1>1 DEF Submit, Early
  <2> QED
    BY <1>1, <2>1, <2>2, <2>3, <2>4 DEF Submit
<1>2. ASSUME NEW r \in Reqs, Reject(r) \/ WalkFails(r) PROVE FreshInv'
  BY <1>2 DEF Reject, WalkFails, Goto, Early
<1>3. ASSUME NEW r \in Reqs, Walk(r) PROVE FreshInv'
  BY <1>3 DEF Walk, Goto, Early
<1>4. ASSUME NEW r \in Reqs, Delete(r) PROVE FreshInv'
  BY <1>4 DEF Delete, Goto, Early
<1>5. ASSUME NEW r \in Reqs, DeleteFails(r) PROVE FreshInv'
  BY <1>5 DEF DeleteFails, Goto, Early
<1>6. ASSUME NEW r \in Reqs, Add(r) PROVE FreshInv'
  BY <1>6 DEF Add, Goto, Early, NextEntry, DocOf, Docs
<1>7. ASSUME NEW r \in Reqs, AddFails(r) \/ BatchCommitFails(r) \/ CommitFails(r) PROVE FreshInv'
  BY <1>7 DEF AddFails, BatchCommitFails, CommitFails, Goto, Early, NextEntry
<1>8. ASSUME NEW r \in Reqs, BatchCommit(r) \/ Commit(r) PROVE FreshInv'
  BY <1>8 DEF BatchCommit, Commit, WriterCommit, Goto, Early, NextEntry
<1>9. ASSUME NEW r \in Reqs, Reload(r) \/ ClearReload(r) \/ ReloadFails(r) PROVE FreshInv'
  BY <1>9 DEF Reload, ClearReload, ReloadFails, Goto, Early
<1>10. ASSUME NEW r \in Reqs, Clear(r) PROVE FreshInv'
  BY <1>10 DEF Clear, Goto, Early
<1>11. ASSUME NEW r \in Reqs, ClearFails(r) PROVE FreshInv'
  BY <1>11 DEF ClearFails, Goto, Early
<1>12. ASSUME NEW r \in Reqs, Poison(r) PROVE FreshInv'
  BY <1>12 DEF Poison, Goto, Early
<1>13. ASSUME WatcherReload PROVE FreshInv'
  BY <1>13 DEF WatcherReload
<1>14. ASSUME CrashRestart PROVE FreshInv'
  BY <1>14 DEF CrashRestart, Early
<1>15. ASSUME UNCHANGED vars PROVE FreshInv'
  BY <1>15 DEF vars
<1> QED
  BY <1>1, <1>2, <1>3, <1>4, <1>5, <1>6, <1>7, <1>8, <1>9, <1>10, <1>11, <1>12,
     <1>13, <1>14, <1>15 DEF Next, Step

\* The targets a handler has already taken out of the staged documents.
Handled(r) ==
    IF Clears(r)
    THEN IF pc[r] = "clear" THEN {} ELSE before[r]
    ELSE {d \in before[r] : \E e \in found[r] \ todo[r] : e.path = d.path}

\* What holds of one request: the targets it has handled are out of the staged
\* documents unless the writer is dead, out of the last commit once the request
\* committed, and out of the searches once it is answered.
ResLocal(r) ==
    /\ pc[r] \in {"clear", "clearReload"} => Clears(r)
    /\ pc[r] \in {"walk", "add", "batch"} => job[r].op # "delete"
    /\ pc[r] \in {"clear", "clearReload", "walk"} => todo[r] = {} /\ found[r] = {}
    /\ pc[r] = "delete" /\ job[r].op = "delete" => \A e, f \in todo[r] : e = f
    /\ pc[r] \in {"commit", "reload", "ok"} => todo[r] = {}
    /\ pc[r] \in Working /\ ~dead => Handled(r) \cap staged = {}
    /\ pc[r] \in {"reload", "ok"} => Targets(r) \cap (staged \cup disk) = {}
    /\ pc[r] = "clearReload" => before[r] \cap (staged \cup disk) = {}
    /\ pc[r] = "ok" => Targets(r) \cap view = {}

ResInv == \A r \in Reqs : ResLocal(r)

\* A step of another request, of the watcher, or a failure, keeps ResLocal: it
\* stages no old document again and publishes what is staged or committed.
LEMMA ResFrame ==
    ASSUME ResInv, NEW q \in Reqs,
           pc'[q] = pc[q], todo'[q] = todo[q], found'[q] = found[q],
           job'[q] = job[q], before'[q] = before[q],
           dead => dead',
           staged' \cap before[q] \subseteq staged,
           disk' \subseteq staged \cup disk,
           view' \subseteq view \cup disk
    PROVE  ResLocal(q)'
<1>1. ResLocal(q)
  BY DEF ResInv
<1>2. Handled(q)' = Handled(q) /\ Targets(q)' = Targets(q) /\ (Clears(q)' <=> Clears(q))
  BY DEF Handled, Targets, Clears
<1>3. Handled(q) \subseteq before[q] /\ Targets(q) \subseteq before[q]
  BY DEF Handled, Targets
<1> QED
  BY <1>1, <1>2, <1>3 DEF ResLocal

\* The steps of a handler leave the other requests' data alone.
OthersKept(r) ==
    \A q \in Reqs \ {r} :
        /\ pc'[q] = pc[q] /\ todo'[q] = todo[q] /\ found'[q] = found[q]
        /\ job'[q] = job[q] /\ before'[q] = before[q]

\* ResInv after a step of request r: the others by ResFrame, r by its own step.
LEMMA ResOne ==
    ASSUME ResInv, NEW r \in Reqs, OthersKept(r), ResLocal(r)',
           dead => dead',
           \A q \in Reqs \ {r} : staged' \cap before[q] \subseteq staged,
           disk' \subseteq staged \cup disk,
           view' \subseteq view \cup disk
    PROVE  ResInv'
<1>1. ASSUME NEW q \in Reqs \ {r} PROVE ResLocal(q)'
  BY ResFrame DEF OthersKept
<1> QED
  BY <1>1 DEF ResInv

\* Every step keeps ResInv.
LEMMA ResStep == TypeInv /\ FreshInv /\ ResInv /\ [Next]_vars => ResInv'
<1> SUFFICES ASSUME TypeInv, FreshInv, ResInv, [Next]_vars PROVE ResInv'
  OBVIOUS
<1> USE DEF index, handler, env, history
<1>1. ASSUME NEW r \in Reqs, Submit(r) PROVE ResInv'
  <2>1. PICK call \in Jobs :
          /\ job' = [job EXCEPT ![r] = call]
          /\ pc' = [pc EXCEPT ![r] = FirstStep(call)]
          /\ todo' = [todo EXCEPT ![r] = Given(call)]
          /\ found' = [found EXCEPT ![r] = Given(call)]
    BY <1>1 DEF Submit, Goto
  <2>2. /\ FirstStep(call) \in {"clear", "walk", "delete"}
        /\ FirstStep(call) = "clear" <=>
             call.op = "clear" \/ (call.op = "directory" /\ call.clearFirst)
        /\ FirstStep(call) = "walk" => call.op # "delete"
    BY JobsAssumption DEF FirstStep, Calls
  <2>3. pc'[r] = FirstStep(call) /\ job'[r] = call /\ todo'[r] = Given(call) /\ todo'[r] = found'[r]
    BY <2>1 DEF TypeInv, TypeOK
  <2>4. Handled(r)' = {}
    BY <2>2, <2>3 DEF Handled, Clears
  <2>5. /\ \A e, f \in Given(call) : e = f
        /\ FirstStep(call) \in {"clear", "walk"} => Given(call) = {}
    BY JobsAssumption DEF Given, FirstStep, Calls
  <2>6. ResLocal(r)'
    BY <2>2, <2>3, <2>4, <2>5 DEF ResLocal, Clears
  <2>7. OthersKept(r)
    BY <1>1, <2>1 DEF Submit, OthersKept, TypeInv, TypeOK
  <2> QED
    BY <1>1, <2>6, <2>7, ResOne DEF Submit
<1>2. ASSUME NEW r \in Reqs, Reject(r) \/ WalkFails(r) PROVE ResInv'
  <2>1. OthersKept(r) /\ pc'[r] = "err"
    BY <1>2 DEF Reject, WalkFails, Goto, OthersKept, TypeInv, TypeOK
  <2>2. ResLocal(r)
    BY DEF ResInv
  <2>3. ResLocal(r)'
    BY <1>2, <2>1, <2>2 DEF Reject, WalkFails, ResLocal, Handled, Targets, Clears, Working
  <2> QED
    BY <1>2, <2>1, <2>3, ResOne DEF Reject, WalkFails
<1>3. ASSUME NEW r \in Reqs, Walk(r) PROVE ResInv'
  <2>1. OthersKept(r) /\ pc'[r] \in {"commit", "delete"} /\ todo'[r] = found'[r]
               /\ (pc'[r] = "commit" => todo'[r] = {})
    BY <1>3 DEF Walk, Goto, OthersKept, TypeInv, TypeOK
  <2>2. ResLocal(r)
    BY DEF ResInv
  <2>3. ResLocal(r)'
    BY <1>3, <2>1, <2>2 DEF Walk, ResLocal, Handled, Targets, Clears, Working
  <2> QED
    BY <1>3, <2>1, <2>3, ResOne DEF Walk
<1>4. ASSUME NEW r \in Reqs, Delete(r) PROVE ResInv'
  <2>1. PICK e \in todo[r] :
          /\ staged' = staged \ At(staged, e.path)
          /\ todo' = [todo EXCEPT ![r] = @ \ {e}]
    BY <1>4 DEF Delete
  <2>2. /\ UNCHANGED <<disk, view, dead, job, found, before>>
        /\ pc[r] = "delete" /\ ~dead
        /\ pc'[r] = IF job[r].op = "delete" THEN "commit" ELSE "add"
        /\ todo'[r] = todo[r] \ {e}
    BY <1>4, <2>1 DEF Delete, Goto, TypeInv, TypeOK
  <2>3. OthersKept(r)
    BY <1>4, <2>1, <2>2 DEF Delete, Goto, OthersKept, TypeInv, TypeOK
  <2>4. staged' \subseteq staged /\ \A d \in staged' : d.path # e.path
    BY <2>1 DEF At
  <2>5. ResLocal(r) /\ Handled(r) \cap staged = {}
    BY <2>2 DEF ResInv, ResLocal, Working
  <2>6. Handled(r)' \cap staged' = {}
    <3>1. \A f \in found[r] \ todo'[r] : f \in found[r] \ todo[r] \/ f = e
      BY <2>2
    <3>2. CASE Clears(r)
      BY <2>2, <2>4, <2>5, <3>2 DEF Handled, Clears
    <3>3. CASE ~Clears(r)
      BY <2>2, <2>4, <2>5, <3>1, <3>3 DEF Handled, Clears
    <3> QED
      BY <3>2, <3>3
  <2>7. ResLocal(r)'
    BY <2>2, <2>5, <2>6 DEF ResLocal, Working
  <2> QED
    BY <2>2, <2>3, <2>4, <2>7, ResOne
<1>5. ASSUME NEW r \in Reqs, DeleteFails(r) PROVE ResInv'
  <2>1. OthersKept(r) /\ pc'[r] \in {"add", "err"} /\ (pc'[r] = "add" => Bulk(r))
    BY <1>5 DEF DeleteFails, Goto, OthersKept, TypeInv, TypeOK
  <2>2. ResLocal(r)
    BY DEF ResInv
  <2>3. ResLocal(r)'
    BY <1>5, <2>1, <2>2 DEF DeleteFails, ResLocal, Bulk
  <2> QED
    BY <1>5, <2>1, <2>3, ResOne DEF DeleteFails
<1>6. ASSUME NEW r \in Reqs, Add(r) PROVE ResInv'
  <2>1. /\ UNCHANGED <<disk, view, dead, job, todo, found, before>>
        /\ pc[r] = "add" /\ staged' = staged \cup {DocOf(r, cur[r])}
    BY <1>6 DEF Add
  <2>2. /\ pc'[r] \in {"batch", "commit", "delete"}
        /\ pc'[r] = "commit" => todo[r] = {}
    BY <1>6 DEF Add, Goto, NextEntry, TypeInv, TypeOK
  <2>3. OthersKept(r)
    BY <1>6 DEF Add, Goto, OthersKept, TypeInv, TypeOK
  <2>4. \A q \in Reqs : DocOf(r, cur[r]) \notin before[q]
    BY <2>1 DEF DocOf, FreshInv
  <2>5. ResLocal(r)
    BY DEF ResInv
  <2>6. Handled(r)' = Handled(r) /\ Handled(r) \subseteq before[r]
    BY <2>1, <2>2 DEF Handled, Clears
  <2>7. ResLocal(r)'
    BY <2>1, <2>2, <2>4, <2>5, <2>6 DEF ResLocal, Working
  <2> QED
    BY <2>1, <2>3, <2>4, <2>7, ResOne
<1>7. ASSUME NEW r \in Reqs, AddFails(r) \/ BatchCommitFails(r) \/ CommitFails(r) PROVE ResInv'
  <2>1. OthersKept(r) /\ pc'[r] \in {"commit", "delete", "err"}
        /\ (pc'[r] = "commit" => todo[r] = {})
    BY <1>7 DEF AddFails, BatchCommitFails, CommitFails, Goto, OthersKept, TypeInv, TypeOK, NextEntry
  <2>2. ResLocal(r)
    BY DEF ResInv
  <2>3. ResLocal(r)'
    BY <1>7, <2>1, <2>2 DEF AddFails, BatchCommitFails, CommitFails, ResLocal, Handled, Targets, Clears, Working
  <2> QED
    BY <1>7, <2>1, <2>3, ResOne DEF AddFails, BatchCommitFails, CommitFails
<1>8. ASSUME NEW r \in Reqs, BatchCommit(r) \/ Commit(r) PROVE ResInv'
  <2>1. OthersKept(r) /\ pc'[r] \in {"commit", "delete", "reload"}
        /\ (pc'[r] = "commit" => todo[r] = {})
    BY <1>8 DEF BatchCommit, Commit, WriterCommit, Goto, OthersKept, TypeInv, TypeOK, NextEntry
  <2>2. ResLocal(r)
    BY DEF ResInv
  <2>3. /\ UNCHANGED <<staged, view, dead, job, todo, found, before>> /\ ~dead
        /\ disk' = staged /\ pc[r] \in {"batch", "commit"}
        /\ pc'[r] = "reload" => pc[r] = "commit"
    BY <1>8, <2>1 DEF BatchCommit, Commit, WriterCommit, Goto, NextEntry, TypeInv, TypeOK
  <2>4. Handled(r)' = Handled(r) /\ Targets(r)' = Targets(r)
    BY <2>1, <2>3 DEF Handled, Targets, Clears
  <2>5. todo[r] = {} /\ pc[r] = "commit" => Targets(r) = Handled(r)
    BY DEF Handled, Targets
  <2>6. ResLocal(r)'
    BY <2>1, <2>2, <2>3, <2>4, <2>5 DEF ResLocal, Working
  <2> QED
    BY <2>1, <2>3, <2>6, ResOne
<1>9. ASSUME NEW r \in Reqs, Reload(r) \/ ReloadFails(r) PROVE ResInv'
  <2>1. OthersKept(r) /\ pc'[r] \in {"ok", "err"}
    BY <1>9 DEF Reload, ReloadFails, Goto, OthersKept, TypeInv, TypeOK
  <2>2. ResLocal(r)
    BY DEF ResInv
  <2>3. CASE Reload(r)
    <3>1. /\ UNCHANGED <<staged, disk, dead, job, todo, found, before>>
          /\ view' = disk /\ pc[r] = "reload"
      BY <2>3 DEF Reload
    <3>2. pc'[r] = "ok"
      BY <2>3 DEF Reload, Goto, TypeInv, TypeOK
    <3>3. Targets(r)' = Targets(r)
      BY <3>1 DEF Targets, Clears
    <3>4. ResLocal(r)'
      BY <2>2, <3>1, <3>2, <3>3 DEF ResLocal, Working
    <3> QED
      BY <2>1, <3>1, <3>4, ResOne
  <2>4. CASE ReloadFails(r)
    <3>1. pc'[r] = "err"
      BY <2>4 DEF ReloadFails, Goto, TypeInv, TypeOK
    <3>2. ResLocal(r)'
      BY <3>1 DEF ResLocal, Working
    <3> QED
      BY <2>1, <2>4, <3>2, ResOne DEF ReloadFails
  <2> QED
    BY <1>9, <2>3, <2>4
<1>10. ASSUME NEW r \in Reqs, ClearReload(r) PROVE ResInv'
  <2>1. OthersKept(r) /\ pc'[r] \in {"ok", "walk"}
    BY <1>10 DEF ClearReload, Goto, OthersKept, TypeInv, TypeOK
  <2>2. ResLocal(r)
    BY DEF ResInv
  <2>3. ResLocal(r)'
    BY <1>10, <2>1, <2>2 DEF ClearReload, ResLocal, Handled, Targets, Clears, Working
  <2> QED
    BY <1>10, <2>1, <2>3, ResOne DEF ClearReload
<1>11. ASSUME NEW r \in Reqs, Clear(r) PROVE ResInv'
  <2>1. OthersKept(r) /\ pc'[r] = "clearReload"
    BY <1>11 DEF Clear, Goto, OthersKept, TypeInv, TypeOK
  <2>2. ResLocal(r)
    BY DEF ResInv
  <2>3. ResLocal(r)'
    BY <1>11, <2>1, <2>2 DEF Clear, ResLocal, Handled, Targets, Clears, Working
  <2> QED
    BY <1>11, <2>1, <2>3, ResOne DEF Clear
<1>12. ASSUME NEW r \in Reqs, ClearFails(r) \/ Poison(r) PROVE ResInv'
  <2>1. OthersKept(r) /\ pc'[r] \in {"err", "lost"}
    BY <1>12 DEF ClearFails, Poison, Goto, OthersKept, TypeInv, TypeOK
  <2>2. ResLocal(r)
    BY DEF ResInv
  <2>3. ResLocal(r)'
    BY <1>12, <2>1, <2>2 DEF ClearFails, Poison, ResLocal, Handled, Targets, Clears, Working
  <2> QED
    BY <1>12, <2>1, <2>3, ResOne DEF ClearFails, Poison
<1>13. ASSUME WatcherReload PROVE ResInv'
  <2>1. ASSUME NEW q \in Reqs PROVE ResLocal(q)'
    BY <1>13, ResFrame DEF WatcherReload
  <2> QED
    BY <2>1 DEF ResInv
<1>14. ASSUME CrashRestart PROVE ResInv'
  <2>1. ASSUME NEW q \in Reqs PROVE ResLocal(q)'
    <3>1. CASE pc[q] \in Working
      BY <1>14, <3>1 DEF CrashRestart, ResLocal, Working
    <3>2. CASE pc[q] \notin Working
      BY <1>14, <3>2 DEF CrashRestart, ResInv, ResLocal, Working, Targets, Clears
    <3> QED
      BY <3>1, <3>2
  <2> QED
    BY <2>1 DEF ResInv
<1>15. ASSUME UNCHANGED vars PROVE ResInv'
  BY <1>15 DEF vars, ResInv, ResLocal, Handled, Targets, Clears
<1> QED
  BY <1>1, <1>2, <1>3, <1>4, <1>5, <1>6, <1>7, <1>8, <1>9, <1>10, <1>11, <1>12,
     <1>13, <1>14, <1>15 DEF Next, Step

-----------------------------------------------------------------------------
(* What the pending counter promises *)

\* Every step keeps the promise of an empty counter.
LEMMA PendingStep ==
    TypeInv /\ NothingPendingIsPublished /\ [Next]_vars => NothingPendingIsPublished'
<1> SUFFICES ASSUME TypeInv, NothingPendingIsPublished, [Next]_vars
             PROVE  NothingPendingIsPublished'
  OBVIOUS
<1> USE DEF TypeInv, TypeOK, NothingPendingIsPublished, index, handler, env, history
<1>1. ASSUME NEW r \in Reqs,
             \/ Submit(r) \/ Reject(r) \/ Walk(r) \/ WalkFails(r) \/ DeleteFails(r) \/ AddFails(r)
             \/ BatchCommitFails(r) \/ CommitFails(r) \/ Reload(r) \/ ReloadFails(r)
             \/ ClearReload(r) \/ Poison(r)
      PROVE NothingPendingIsPublished'
  BY <1>1 DEF Submit, Reject, Walk, WalkFails, DeleteFails, AddFails, BatchCommitFails,
              CommitFails, Reload, ReloadFails, ClearReload, Poison
<1>2. ASSUME NEW r \in Reqs, Delete(r) PROVE NothingPendingIsPublished'
  BY <1>2 DEF Delete
<1>3. ASSUME NEW r \in Reqs, Add(r) PROVE NothingPendingIsPublished'
  BY <1>3 DEF Add
<1>4. ASSUME NEW r \in Reqs, BatchCommit(r) \/ Commit(r) PROVE NothingPendingIsPublished'
  BY <1>4 DEF BatchCommit, Commit, WriterCommit
<1>5. ASSUME NEW r \in Reqs, Clear(r) \/ ClearFails(r) PROVE NothingPendingIsPublished'
  BY <1>5 DEF Clear, ClearFails
<1>6. CASE WatcherReload \/ CrashRestart \/ UNCHANGED vars
  BY <1>6 DEF WatcherReload, CrashRestart, vars
<1> QED
  BY <1>1, <1>2, <1>3, <1>4, <1>5, <1>6 DEF Next, Step

-----------------------------------------------------------------------------
(* The report of a bulk tool *)

\* The entries a handler is done with and has not indexed.
Missed(r) == {e \in found[r] : /\ DocOf(r, e) \notin written[r]
                               /\ e \notin todo[r]
                               /\ ~(pc[r] = "add" /\ e = cur[r])}

\* A bulk handler that is at work or has succeeded has counted each of them.
Counted(r) ==
    pc[r] \in Working \cup {"ok"} /\ Bulk(r) =>
        IsFiniteSet(Missed(r)) /\ Cardinality(Missed(r)) <= errors[r]

CountInv == \A r \in Reqs : Counted(r)

\* A step after which no more entries are missed keeps the count right.
LEMMA CountFrame ==
    ASSUME TypeInv, NEW r \in Reqs, Counted(r),
           pc'[r] \in Working \cup {"ok"} => pc[r] \in Working \cup {"ok"},
           job'[r] = job[r], errors'[r] = errors[r], Missed(r)' \subseteq Missed(r)
    PROVE  Counted(r)'
<1> SUFFICES ASSUME pc'[r] \in Working \cup {"ok"}, Bulk(r)'
             PROVE  IsFiniteSet(Missed(r)') /\ Cardinality(Missed(r)') <= errors'[r]
  BY DEF Counted
<1>1. IsFiniteSet(Missed(r)) /\ Cardinality(Missed(r)) <= errors[r]
  BY DEF Counted, Bulk
<1>2. IsFiniteSet(Missed(r)') /\ Cardinality(Missed(r)') <= Cardinality(Missed(r))
  BY <1>1, FS_Subset
<1>3. Cardinality(Missed(r)') \in Nat /\ Cardinality(Missed(r)) \in Nat /\ errors[r] \in Nat
  BY <1>1, <1>2, FS_CardinalityType DEF TypeInv, TypeOK
<1> QED
  BY <1>1, <1>2, <1>3

\* A step that misses one entry and counts an error keeps the count right.
LEMMA CountError ==
    ASSUME TypeInv, NEW r \in Reqs, Counted(r), NEW x,
           pc[r] \in Working \cup {"ok"},
           job'[r] = job[r], errors'[r] = errors[r] + 1,
           Missed(r)' \subseteq Missed(r) \cup {x}
    PROVE  Counted(r)'
<1> SUFFICES ASSUME Bulk(r)'
             PROVE  IsFiniteSet(Missed(r)') /\ Cardinality(Missed(r)') <= errors'[r]
  BY DEF Counted
<1>1. IsFiniteSet(Missed(r)) /\ Cardinality(Missed(r)) <= errors[r]
  BY DEF Counted, Bulk
<1>2. /\ IsFiniteSet(Missed(r) \cup {x})
      /\ Cardinality(Missed(r) \cup {x}) =
           IF x \in Missed(r) THEN Cardinality(Missed(r)) ELSE Cardinality(Missed(r)) + 1
  BY <1>1, FS_AddElement
<1>3. IsFiniteSet(Missed(r)') /\ Cardinality(Missed(r)') <= Cardinality(Missed(r) \cup {x})
  BY <1>2, FS_Subset
<1>4. /\ Cardinality(Missed(r)') \in Nat /\ Cardinality(Missed(r)) \in Nat
      /\ Cardinality(Missed(r) \cup {x}) \in Nat /\ errors[r] \in Nat
  BY <1>1, <1>2, <1>3, FS_CardinalityType DEF TypeInv, TypeOK
<1> QED
  BY <1>1, <1>2, <1>3, <1>4

\* The handlers that do not move keep their count.
LEMMA CountRest ==
    ASSUME TypeInv, CountInv, NEW q \in Reqs,
           pc'[q] = pc[q], job'[q] = job[q], errors'[q] = errors[q], found'[q] = found[q],
           written'[q] = written[q], todo'[q] = todo[q], cur'[q] = cur[q]
    PROVE  Counted(q)'
<1>1. Missed(q)' = Missed(q)
  BY DEF Missed
<1> QED
  BY <1>1, CountFrame DEF CountInv

\* A step of r is a matter of r alone.
LEMMA CountOne ==
    ASSUME TypeInv, CountInv, NEW r \in Reqs, Submit(r) \/ Reject(r) \/ Step(r) \/ Poison(r),
           Counted(r)'
    PROVE  CountInv'
<1> SUFFICES ASSUME NEW q \in Reqs \ {r} PROVE Counted(q)'
  BY DEF CountInv
<1> USE DEF TypeInv, TypeOK, index, handler, env, history
<1>1. /\ pc'[q] = pc[q] /\ job'[q] = job[q] /\ errors'[q] = errors[q] /\ found'[q] = found[q]
      /\ written'[q] = written[q] /\ todo'[q] = todo[q] /\ cur'[q] = cur[q]
  BY DEF Submit, Reject, Poison, Step, Walk, WalkFails, Delete, DeleteFails, Add, AddFails,
         BatchCommit, BatchCommitFails, Commit, CommitFails, Reload, ReloadFails,
         Clear, ClearFails, ClearReload, Goto
<1> QED
  BY <1>1, CountRest

\* Every step keeps the errors of every bulk tool complete.
LEMMA CountStep == TypeInv /\ CountInv /\ [Next]_vars => CountInv'
<1> SUFFICES ASSUME TypeInv, CountInv, [Next]_vars PROVE CountInv'
  OBVIOUS
<1> USE DEF TypeInv, TypeOK, index, handler, env, history
<1>0. \A r \in Reqs : Counted(r)
  BY DEF CountInv
<1>1. ASSUME NEW r \in Reqs, Submit(r) PROVE Counted(r)'
  <2>1. PICK call \in Jobs : todo' = [todo EXCEPT ![r] = Given(call)]
                             /\ found' = [found EXCEPT ![r] = Given(call)]
    BY <1>1 DEF Submit
  <2>2. Missed(r)' = {}
    BY <2>1 DEF Missed
  <2>3. errors'[r] \in Nat
    BY <1>1 DEF Submit
  <2> QED
    BY <2>2, <2>3, FS_EmptySet DEF Counted
<1>2. ASSUME NEW r \in Reqs,
             \/ Reject(r) \/ WalkFails(r) \/ CommitFails(r) \/ ReloadFails(r)
             \/ ClearFails(r) \/ Poison(r)
      PROVE Counted(r)'
  <2>1. pc'[r] \in {"err", "lost"}
    BY <1>2 DEF Reject, WalkFails, CommitFails, ReloadFails, ClearFails, Poison, Goto
  <2> QED
    BY <2>1 DEF Counted, Working
<1>3. ASSUME NEW r \in Reqs, Walk(r) PROVE Counted(r)'
  <2>1. found'[r] = todo'[r]
    BY <1>3 DEF Walk
  <2>2. Missed(r)' = {}
    BY <2>1 DEF Missed
  <2>3. errors'[r] \in Nat
    BY <1>3 DEF Walk
  <2> QED
    BY <2>2, <2>3, FS_EmptySet DEF Counted
<1>4. ASSUME NEW r \in Reqs, Delete(r) \/ DeleteFails(r) PROVE Counted(r)'
  <2>1. PICK e \in todo[r] : todo' = [todo EXCEPT ![r] = @ \ {e}] /\ cur' = [cur EXCEPT ![r] = e]
    BY <1>4 DEF Delete, DeleteFails
  <2>2. /\ job' = job /\ errors' = errors /\ found' = found /\ written' = written
        /\ pc[r] = "delete"
        /\ Bulk(r) => pc'[r] = "add"
    BY <1>4 DEF Delete, DeleteFails, Goto, Bulk
  <2>3. CASE Bulk(r)
    <3>1. Missed(r)' \subseteq Missed(r)
      BY <2>1, <2>2, <2>3 DEF Missed, DocOf
    <3> QED
      BY <1>0, <2>2, <3>1, CountFrame DEF Working
  <2>4. CASE ~Bulk(r)
    BY <2>2, <2>4 DEF Counted, Bulk
  <2> QED
    BY <2>3, <2>4
<1>5. ASSUME NEW r \in Reqs, Add(r) PROVE Counted(r)'
  <2>1. /\ job' = job /\ errors' = errors /\ found' = found /\ todo' = todo /\ cur' = cur
        /\ written'[r] = written[r] \cup {DocOf(r, cur[r])} /\ pc[r] = "add"
    BY <1>5 DEF Add
  <2>2. Missed(r)' \subseteq Missed(r)
    BY <2>1 DEF Missed, DocOf
  <2> QED
    BY <1>0, <2>1, <2>2, CountFrame DEF Working
<1>6. ASSUME NEW r \in Reqs, AddFails(r) PROVE Counted(r)'
  <2>1. CASE Bulk(r)
    <3>1. /\ job' = job /\ errors'[r] = errors[r] + 1 /\ found' = found /\ todo' = todo
          /\ cur' = cur /\ written' = written /\ pc[r] = "add"
      BY <1>6, <2>1 DEF AddFails
    <3>2. Missed(r)' \subseteq Missed(r) \cup {cur[r]}
      BY <3>1 DEF Missed, DocOf
    <3> QED
      BY <1>0, <3>1, <3>2, CountError DEF Working
  <2>2. CASE ~Bulk(r)
    BY <1>6, <2>2 DEF AddFails, Counted, Bulk
  <2> QED
    BY <2>1, <2>2
<1>7. ASSUME NEW r \in Reqs, BatchCommitFails(r) PROVE Counted(r)'
  <2>1. /\ job' = job /\ errors'[r] = errors[r] + 1 /\ found' = found /\ todo' = todo
        /\ cur' = cur /\ written' = written /\ pc[r] = "batch"
    BY <1>7 DEF BatchCommitFails
  <2>2. Missed(r)' \subseteq Missed(r) \cup {cur[r]}
    BY <2>1 DEF Missed, DocOf
  <2> QED
    BY <1>0, <2>1, <2>2, CountError DEF Working
<1>8. ASSUME NEW r \in Reqs, BatchCommit(r) \/ Commit(r) \/ Reload(r) \/ Clear(r) \/ ClearReload(r)
      PROVE Counted(r)'
  <2>1. /\ job' = job /\ errors' = errors /\ found' = found /\ todo' = todo
        /\ cur' = cur /\ written' = written
        /\ pc[r] \in {"batch", "commit", "reload", "clear", "clearReload"}
    BY <1>8 DEF BatchCommit, Commit, Reload, Clear, ClearReload
  <2>2. Missed(r)' \subseteq Missed(r)
    BY <2>1 DEF Missed, DocOf
  <2> QED
    BY <1>0, <2>1, <2>2, CountFrame DEF Working
<1>9. CASE WatcherReload \/ UNCHANGED vars
  BY <1>9, CountRest DEF WatcherReload, vars, CountInv
<1>10. CASE CrashRestart
  <2> SUFFICES ASSUME NEW q \in Reqs PROVE Counted(q)'
    BY DEF CountInv
  <2>1. /\ job' = job /\ errors' = errors /\ found' = found /\ todo' = todo
        /\ cur' = cur /\ written' = written
        /\ pc'[q] = pc[q] \/ pc'[q] = "lost"
    BY <1>10 DEF CrashRestart
  <2>2. CASE pc'[q] = pc[q]
    BY <2>1, <2>2, CountRest
  <2>3. CASE pc'[q] = "lost"
    BY <2>3 DEF Counted, Working
  <2> QED
    BY <2>1, <2>2, <2>3
<1>11. ASSUME NEW r \in Reqs, Submit(r) \/ Reject(r) \/ Step(r) \/ Poison(r) PROVE CountInv'
  <2>1. Counted(r)'
    BY <1>1, <1>2, <1>3, <1>4, <1>5, <1>6, <1>7, <1>8, <1>11 DEF Step
  <2> QED
    BY <1>11, <2>1, CountOne
<1> QED
  BY <1>9, <1>10, <1>11 DEF Next

-----------------------------------------------------------------------------
(* An indexed path stays indexed *)

\* Request q has come to path p; it has come there and added nothing.
Visited(q, p) == \E e \in found[q] \ todo[q] : e.path = p
Unadded(q, p) == \E e \in found[q] \ todo[q] : e.path = p /\ DocOf(q, e) \notin written[q]

\* Some request was called to clear.
Wiped == \E q \in Reqs : job[q] # None /\ Clears(q)

\* The entries of a handler are found, then visited, then written.
VisitInv ==
    \A r \in Reqs :
        /\ pc[r] = "idle" => found[r] = {} /\ job[r] = None
        /\ pc[r] \in Working => job[r] # None
        /\ todo[r] \subseteq found[r]
        /\ pc[r] = "add" => cur[r] \in found[r] \ todo[r]
        /\ \A d \in written[r] : Visited(r, d.path)

\* All that came to p have added, and are at most at these steps.
AllAt(p, steps) == \A q \in Reqs : Visited(q, p) => ~Unadded(q, p) /\ pc[q] \in steps

\* A path that somebody came to is staged once all have added, durable once all
\* have committed and searchable once all are answered.
StaysAt(p) ==
    ~Wiped /\ (\E q \in Reqs : Visited(q, p)) =>
        /\ AllAt(p, {"idle", "ok"} \cup Working) => At(staged, p) # {}
        /\ AllAt(p, {"reload", "ok"}) => At(disk, p) # {}
        /\ AllAt(p, {"ok"}) => At(view, p) # {}

StayInv == \A p \in Paths : StaysAt(p)

\* A call is not the mark of a missing call.
LEMMA CallsAreSome == None \notin Calls
  BY DEF None, Calls

\* Every step keeps the order of a handler's entries.
LEMMA VisitStep == TypeInv /\ FreshInv /\ VisitInv /\ [Next]_vars => VisitInv'
<1> SUFFICES ASSUME TypeInv, FreshInv, VisitInv, [Next]_vars PROVE VisitInv'
  OBVIOUS
<1> USE DEF TypeInv, TypeOK, index, handler, env, history
<1>1. ASSUME NEW r \in Reqs, Submit(r) PROVE VisitInv'
  <2>1. PICK call \in Jobs :
          /\ job' = [job EXCEPT ![r] = call] /\ pc' = [pc EXCEPT ![r] = FirstStep(call)]
          /\ todo' = [todo EXCEPT ![r] = Given(call)] /\ found' = [found EXCEPT ![r] = Given(call)]
    BY <1>1 DEF Submit, Goto
  <2>2. call # None /\ pc'[r] \in Working \ {"add"} /\ pc[r] = "idle"
    BY <1>1, <2>1, JobsAssumption, CallsAreSome, FirstStepWorks DEF Submit
  <2>3. written' = written /\ written[r] = {} /\ cur' = cur
    BY <1>1, <2>2 DEF Submit, FreshInv, Early
  <2> QED
    BY <2>1, <2>2, <2>3 DEF VisitInv, Visited, Working
<1>2. ASSUME NEW r \in Reqs, Walk(r) PROVE VisitInv'
  <2>1. PICK es : /\ todo' = [todo EXCEPT ![r] = es] /\ found' = [found EXCEPT ![r] = es]
                  /\ pc' = [pc EXCEPT ![r] = IF es = {} THEN "commit" ELSE "delete"]
    BY <1>2 DEF Walk, Goto
  <2>2. written' = written /\ written[r] = {} /\ cur' = cur /\ job' = job /\ pc[r] = "walk"
    BY <1>2 DEF Walk, FreshInv, Early
  <2> QED
    BY <2>1, <2>2 DEF VisitInv, Visited, Working
<1>3. ASSUME NEW r \in Reqs, Delete(r) \/ DeleteFails(r) PROVE VisitInv'
  <2>1. PICK e \in todo[r] : todo' = [todo EXCEPT ![r] = @ \ {e}] /\ cur' = [cur EXCEPT ![r] = e]
    BY <1>3 DEF Delete, DeleteFails
  <2>2. /\ job' = job /\ found' = found /\ written' = written /\ pc[r] = "delete"
        /\ \A q \in Reqs \ {r} : pc'[q] = pc[q]
        /\ pc'[r] \in {"add", "commit", "err"}
    BY <1>3 DEF Delete, DeleteFails, Goto
  <2> QED
    BY <2>1, <2>2 DEF VisitInv, Visited, Working
<1>4. ASSUME NEW r \in Reqs, Add(r) PROVE VisitInv'
  <2>1. /\ job' = job /\ found' = found /\ todo' = todo /\ cur' = cur /\ pc[r] = "add"
        /\ written' = [written EXCEPT ![r] = @ \cup {DocOf(r, cur[r])}]
        /\ \A q \in Reqs \ {r} : pc'[q] = pc[q]
        /\ pc'[r] \in {"batch", "commit", "delete"}
    BY <1>4 DEF Add, Goto, NextEntry
  <2>2. cur[r] \in found[r] \ todo[r] /\ DocOf(r, cur[r]).path = cur[r].path
    BY <2>1 DEF VisitInv, DocOf
  <2> QED
    BY <2>1, <2>2 DEF VisitInv, Visited, Working
<1>5. ASSUME NEW r \in Reqs,
             \/ Reject(r) \/ WalkFails(r) \/ AddFails(r) \/ BatchCommit(r) \/ BatchCommitFails(r)
             \/ Commit(r) \/ CommitFails(r) \/ Reload(r) \/ ReloadFails(r) \/ Clear(r)
             \/ ClearFails(r) \/ ClearReload(r) \/ Poison(r)
      PROVE VisitInv'
  <2>1. UNCHANGED <<job, found, todo, written, cur>> /\ \A q \in Reqs \ {r} : pc'[q] = pc[q]
    BY <1>5 DEF Reject, WalkFails, AddFails, BatchCommit, BatchCommitFails, Commit, CommitFails,
                Reload, ReloadFails, Clear, ClearFails, ClearReload, Poison, Goto
  <2>2. pc'[r] \in {"err", "lost", "ok"} \/ (pc[r] \in Working /\ pc'[r] \notin {"idle", "add"})
    BY <1>5 DEF Reject, WalkFails, AddFails, BatchCommit, BatchCommitFails, Commit, CommitFails,
                Reload, ReloadFails, Clear, ClearFails, ClearReload, Poison, Goto, NextEntry, Working
  <2> QED
    BY <2>1, <2>2 DEF VisitInv, Visited, Working
<1>6. CASE WatcherReload \/ CrashRestart \/ UNCHANGED vars
  <2>1. UNCHANGED <<job, found, todo, written, cur>>
    BY <1>6 DEF WatcherReload, CrashRestart, vars
  <2>2. \A q \in Reqs : pc'[q] = pc[q] \/ pc'[q] = "lost"
    BY <1>6 DEF WatcherReload, CrashRestart, vars
  <2> QED
    BY <2>1, <2>2 DEF VisitInv, Visited, Working
<1> QED
  BY <1>1, <1>2, <1>3, <1>4, <1>5, <1>6 DEF Next, Step

\* A step that moves no document and takes nobody to a later stage of p keeps
\* what is known of p.
LEMMA StayFrame ==
    ASSUME NEW p \in Paths, StaysAt(p),
           UNCHANGED <<job, found, todo, written>>,
           \A q \in Reqs : Visited(q, p) =>
               /\ pc'[q] \in {"idle", "ok"} \cup Working => pc[q] \in {"idle", "ok"} \cup Working
               /\ pc'[q] \in {"reload", "ok"} => pc[q] \in {"reload", "ok"}
               /\ pc'[q] = "ok" => pc[q] = "ok",
           At(staged, p)' = At(staged, p), At(disk, p)' = At(disk, p), At(view, p)' = At(view, p)
    PROVE  StaysAt(p)'
<1>1. \A q \in Reqs : (Visited(q, p)' <=> Visited(q, p)) /\ (Unadded(q, p)' <=> Unadded(q, p))
  BY DEF Visited, Unadded
<1>2. Wiped' <=> Wiped
  BY DEF Wiped, Clears
<1>3. /\ AllAt(p, {"idle", "ok"} \cup Working)' => AllAt(p, {"idle", "ok"} \cup Working)
      /\ AllAt(p, {"reload", "ok"})' => AllAt(p, {"reload", "ok"})
      /\ AllAt(p, {"ok"})' => AllAt(p, {"ok"})
  BY <1>1 DEF AllAt, Working
<1> QED
  BY <1>1, <1>2, <1>3 DEF StaysAt

\* Every step keeps it, at every path.
LEMMA StayStep ==
    TypeInv /\ FreshInv /\ ResInv /\ VisitInv /\ StayInv /\ [Next]_vars => StayInv'
<1> SUFFICES ASSUME TypeInv, FreshInv, ResInv, VisitInv, StayInv, [Next]_vars, NEW p \in Paths
             PROVE  StaysAt(p)'
  BY DEF StayInv
<1> USE DEF TypeInv, TypeOK, index, handler, env, history
<1>0. StaysAt(p)
  BY DEF StayInv
<1>1. ASSUME NEW r \in Reqs, Submit(r) PROVE StaysAt(p)'
  <2>1. PICK call \in Jobs :
          /\ job' = [job EXCEPT ![r] = call] /\ pc' = [pc EXCEPT ![r] = FirstStep(call)]
          /\ todo' = [todo EXCEPT ![r] = Given(call)] /\ found' = [found EXCEPT ![r] = Given(call)]
    BY <1>1 DEF Submit, Goto
  <2>2. UNCHANGED <<staged, disk, view, written>> /\ found[r] = {} /\ job[r] = None
    BY <1>1 DEF Submit, VisitInv
  <2>3. ~Visited(r, p) /\ ~Visited(r, p)'
    BY <2>1, <2>2 DEF Visited
  <2>4. \A q \in Reqs \ {r} : /\ Visited(q, p)' <=> Visited(q, p)
                              /\ Unadded(q, p)' <=> Unadded(q, p)
                              /\ pc'[q] = pc[q]
    BY <2>1, <2>2 DEF Visited, Unadded
  <2>5. Wiped => Wiped'
    BY <2>1, <2>2 DEF Wiped, Clears
  <2> QED
    BY <1>0, <2>2, <2>3, <2>4, <2>5 DEF StaysAt, AllAt, At
<1>2. ASSUME NEW r \in Reqs, Walk(r) PROVE StaysAt(p)'
  <2>1. found'[r] = todo'[r] /\ \A q \in Reqs \ {r} : found'[q] = found[q] /\ todo'[q] = todo[q] /\ pc'[q] = pc[q]
    BY <1>2 DEF Walk, Goto
  <2>2. UNCHANGED <<staged, disk, view, written, job>> /\ found[r] = {}
    BY <1>2 DEF Walk, ResInv, ResLocal
  <2>3. ~Visited(r, p) /\ ~Visited(r, p)'
    BY <2>1, <2>2 DEF Visited
  <2>4. \A q \in Reqs \ {r} : /\ Visited(q, p)' <=> Visited(q, p)
                              /\ Unadded(q, p)' <=> Unadded(q, p)
    BY <2>1, <2>2 DEF Visited, Unadded
  <2>5. Wiped' <=> Wiped
    BY <2>2 DEF Wiped, Clears
  <2> QED
    BY <1>0, <2>1, <2>2, <2>3, <2>4, <2>5 DEF StaysAt, AllAt, At
<1>3. ASSUME NEW r \in Reqs, Delete(r) \/ DeleteFails(r) PROVE StaysAt(p)'
  <2>1. PICK e \in todo[r] :
          /\ todo' = [todo EXCEPT ![r] = @ \ {e}]
          /\ staged' = staged \/ staged' = staged \ At(staged, e.path)
    BY <1>3 DEF Delete, DeleteFails
  <2>2. /\ UNCHANGED <<disk, view, written, job, found>> /\ pc[r] = "delete"
        /\ \A q \in Reqs \ {r} : pc'[q] = pc[q]
        /\ pc'[r] \in {"add", "commit", "err"}
    BY <1>3 DEF Delete, DeleteFails, Goto
  <2>3. CASE e.path = p
    <3>1. e \in found[r] /\ DocOf(r, e) \notin written[r]
      BY <2>1 DEF VisitInv, FreshInv, DocOf
    <3>2. Unadded(r, p)' /\ Visited(r, p)'
      BY <2>1, <2>2, <2>3, <3>1 DEF Unadded, Visited, DocOf
    <3> QED
      BY <3>2 DEF StaysAt, AllAt
  <2>4. CASE e.path # p
    <3>1. At(staged, p)' = At(staged, p) /\ At(disk, p)' = At(disk, p) /\ At(view, p)' = At(view, p)
      BY <2>1, <2>2, <2>4 DEF At
    <3>2. \A q \in Reqs : (Visited(q, p)' <=> Visited(q, p)) /\ (Unadded(q, p)' <=> Unadded(q, p))
      BY <2>1, <2>2, <2>4 DEF Visited, Unadded, DocOf
    <3>3. Wiped' <=> Wiped
      BY <2>2 DEF Wiped, Clears
    <3>4. /\ AllAt(p, {"idle", "ok"} \cup Working)' => AllAt(p, {"idle", "ok"} \cup Working)
          /\ AllAt(p, {"reload", "ok"})' => AllAt(p, {"reload", "ok"})
          /\ AllAt(p, {"ok"})' => AllAt(p, {"ok"})
      BY <2>2, <3>2 DEF AllAt, Working
    <3> QED
      BY <1>0, <3>1, <3>2, <3>3, <3>4 DEF StaysAt
  <2> QED
    BY <2>3, <2>4
<1>4. ASSUME NEW r \in Reqs, Add(r) PROVE StaysAt(p)'
  <2>1. /\ UNCHANGED <<disk, view, job, found, todo>> /\ pc[r] = "add"
        /\ staged' = staged \cup {DocOf(r, cur[r])}
        /\ written' = [written EXCEPT ![r] = @ \cup {DocOf(r, cur[r])}]
        /\ \A q \in Reqs \ {r} : pc'[q] = pc[q]
        /\ pc'[r] \in {"batch", "commit", "delete"}
    BY <1>4 DEF Add, Goto, NextEntry
  <2>2. cur[r] \in found[r] \ todo[r] /\ DocOf(r, cur[r]).path = cur[r].path
    BY <2>1 DEF VisitInv, DocOf
  <2>3. CASE cur[r].path = p
    <3>1. At(staged, p)' # {}
      BY <2>1, <2>2, <2>3 DEF At
    <3>2. Visited(r, p)'
      BY <2>1, <2>2, <2>3 DEF Visited
    <3> QED
      BY <2>1, <3>1, <3>2 DEF StaysAt, AllAt
  <2>4. CASE cur[r].path # p
    <3>1. At(staged, p)' = At(staged, p) /\ At(disk, p)' = At(disk, p) /\ At(view, p)' = At(view, p)
      BY <2>1, <2>2, <2>4 DEF At
    <3>2. \A q \in Reqs : (Visited(q, p)' <=> Visited(q, p)) /\ (Unadded(q, p)' <=> Unadded(q, p))
      BY <2>1, <2>2, <2>4 DEF Visited, Unadded, DocOf
    <3>3. Wiped' <=> Wiped
      BY <2>1 DEF Wiped, Clears
    <3>4. /\ AllAt(p, {"idle", "ok"} \cup Working)' => AllAt(p, {"idle", "ok"} \cup Working)
          /\ AllAt(p, {"reload", "ok"})' => AllAt(p, {"reload", "ok"})
          /\ AllAt(p, {"ok"})' => AllAt(p, {"ok"})
      BY <2>1, <3>2 DEF AllAt, Working
    <3> QED
      BY <1>0, <3>1, <3>2, <3>3, <3>4 DEF StaysAt
  <2> QED
    BY <2>3, <2>4
<1>5. ASSUME NEW r \in Reqs,
             \/ Reject(r) \/ WalkFails(r) \/ AddFails(r) \/ BatchCommitFails(r)
             \/ CommitFails(r) \/ ReloadFails(r) \/ Poison(r)
      PROVE StaysAt(p)'
  <2>1. /\ UNCHANGED <<staged, disk, view, job, found, todo, written>>
        /\ \A q \in Reqs \ {r} : pc'[q] = pc[q]
    BY <1>5 DEF Reject, WalkFails, AddFails, BatchCommitFails, CommitFails, ReloadFails, Poison, Goto
  <2>2. pc[r] \in {"idle"} \cup Working /\ pc'[r] \in {"err", "lost", "delete", "commit"}
    BY <1>5 DEF Reject, WalkFails, AddFails, BatchCommitFails, CommitFails, ReloadFails, Poison,
                Goto, NextEntry, Working
  <2> QED
    BY <1>0, <2>1, <2>2, StayFrame DEF At, Working
<1>6. ASSUME NEW r \in Reqs, BatchCommit(r) \/ Commit(r) PROVE StaysAt(p)'
  <2>1. /\ UNCHANGED <<staged, view, job, found, todo, written>> /\ disk' = staged
        /\ \A q \in Reqs \ {r} : pc'[q] = pc[q]
        /\ pc[r] \in {"batch", "commit"} /\ pc'[r] \in {"delete", "commit", "reload"}
    BY <1>6 DEF BatchCommit, Commit, WriterCommit, Goto, NextEntry
  <2>2. \A q \in Reqs : (Visited(q, p)' <=> Visited(q, p)) /\ (Unadded(q, p)' <=> Unadded(q, p))
    BY <2>1 DEF Visited, Unadded
  <2>3. Wiped' <=> Wiped
    BY <2>1 DEF Wiped, Clears
  <2>4. /\ AllAt(p, {"idle", "ok"} \cup Working)' => AllAt(p, {"idle", "ok"} \cup Working)
        /\ AllAt(p, {"reload", "ok"})' => AllAt(p, {"idle", "ok"} \cup Working)
        /\ AllAt(p, {"ok"})' => AllAt(p, {"ok"})
    BY <2>1, <2>2 DEF AllAt, Working
  <2>5. At(disk, p)' = At(staged, p) /\ At(staged, p)' = At(staged, p) /\ At(view, p)' = At(view, p)
    BY <2>1 DEF At
  <2> QED
    BY <1>0, <2>2, <2>3, <2>4, <2>5 DEF StaysAt
<1>7. CASE (\E r \in Reqs : Reload(r)) \/ WatcherReload
  <2>1. UNCHANGED <<staged, disk, job, found, todo, written>> /\ view' = disk
    BY <1>7 DEF Reload, WatcherReload
  <2>2. \A q \in Reqs : pc'[q] = pc[q] \/ (pc[q] = "reload" /\ pc'[q] = "ok")
    BY <1>7 DEF Reload, WatcherReload, Goto
  <2>3. \A q \in Reqs : (Visited(q, p)' <=> Visited(q, p)) /\ (Unadded(q, p)' <=> Unadded(q, p))
    BY <2>1 DEF Visited, Unadded
  <2>4. Wiped' <=> Wiped
    BY <2>1 DEF Wiped, Clears
  <2>5. /\ AllAt(p, {"idle", "ok"} \cup Working)' => AllAt(p, {"idle", "ok"} \cup Working)
        /\ AllAt(p, {"reload", "ok"})' => AllAt(p, {"reload", "ok"})
        /\ AllAt(p, {"ok"})' => AllAt(p, {"reload", "ok"})
    BY <2>2, <2>3 DEF AllAt, Working
  <2>6. At(view, p)' = At(disk, p) /\ At(staged, p)' = At(staged, p) /\ At(disk, p)' = At(disk, p)
    BY <2>1 DEF At
  <2> QED
    BY <1>0, <2>3, <2>4, <2>5, <2>6 DEF StaysAt
<1>8. ASSUME NEW r \in Reqs, Clear(r) \/ ClearFails(r) \/ ClearReload(r) PROVE StaysAt(p)'
  <2>1. job' = job /\ pc[r] \in {"clear", "clearReload"}
    BY <1>8 DEF Clear, ClearFails, ClearReload
  <2>2. Clears(r) /\ job[r] # None
    BY <2>1 DEF ResInv, ResLocal, VisitInv, Working
  <2>3. Wiped'
    BY <2>1, <2>2 DEF Wiped, Clears
  <2> QED
    BY <2>3 DEF StaysAt
<1>9. CASE CrashRestart
  <2>1. /\ UNCHANGED <<disk, job, found, todo, written>> /\ staged' = disk /\ view' = disk
        /\ \A q \in Reqs : pc'[q] = IF pc[q] \in Working THEN "lost" ELSE pc[q]
    BY <1>9 DEF CrashRestart
  <2>2. \A q \in Reqs : (Visited(q, p)' <=> Visited(q, p)) /\ (Unadded(q, p)' <=> Unadded(q, p))
    BY <2>1 DEF Visited, Unadded
  <2>3. Wiped' <=> Wiped
    BY <2>1 DEF Wiped, Clears
  <2>4. \A q \in Reqs : Visited(q, p) => pc[q] # "idle"
    BY DEF VisitInv, Visited
  <2>5. \A q \in Reqs : Visited(q, p) /\ pc'[q] \in {"idle", "ok"} \cup Working => pc[q] = "ok"
    BY <2>1, <2>4 DEF Working
  <2>6. /\ AllAt(p, {"idle", "ok"} \cup Working)' => AllAt(p, {"reload", "ok"})
        /\ AllAt(p, {"reload", "ok"})' => AllAt(p, {"reload", "ok"})
        /\ AllAt(p, {"ok"})' => AllAt(p, {"reload", "ok"})
    BY <2>2, <2>5 DEF AllAt, Working
  <2>7. At(staged, p)' = At(disk, p) /\ At(view, p)' = At(disk, p) /\ At(disk, p)' = At(disk, p)
    BY <2>1 DEF At
  <2> QED
    BY <1>0, <2>2, <2>3, <2>6, <2>7 DEF StaysAt
<1>10. CASE UNCHANGED vars
  BY <1>0, <1>10, StayFrame DEF vars, At
<1> QED
  BY <1>1, <1>2, <1>3, <1>4, <1>5, <1>6, <1>7, <1>8, <1>9, <1>10 DEF Next, Step

-----------------------------------------------------------------------------
(* The index keeps the promise of IndexPromise *)

PromiseInv == TypeInv /\ DurInv /\ FreshInv /\ ResInv /\ VisitInv

\* The data the client's view of requests is made of.
ViewKept == UNCHANGED <<job, pc, found, before, written>>

\* Where these stand still, so does the view, but for the documents.
LEMMA ViewFrame ==
    ASSUME ViewKept
    PROVE  /\ UNCHANGED <<[r \in Reqs |-> Fate(r)], [r \in Reqs |-> Scope(r)], before, written>>
  BY DEF ViewKept, Fate, Scope, Clears

\* A handler that goes from a working step to another stays pending for its
\* client.
LEMMA StaysPending ==
    ASSUME TypeInv, NEW r \in Reqs, pc[r] \in Working,
           NEW step \in Working, pc' = [pc EXCEPT ![r] = step]
    PROVE  /\ Fate(r) = "pending"
           /\ UNCHANGED [q \in Reqs |-> Fate(q)]
<1>1. \A q \in Reqs : Fate(q)' = Fate(q)
  BY DEF TypeInv, TypeOK, Fate, Working, Finished
<1> QED
  BY <1>1 DEF Fate, Working, Finished

\* One that finishes is answered or lost.
LEMMA Finishes ==
    ASSUME TypeInv, NEW r \in Reqs, pc[r] \in Working,
           NEW end \in Finished, pc' = [pc EXCEPT ![r] = end]
    PROVE  /\ Fate(r) = "pending"
           /\ [q \in Reqs |-> Fate(q)]' = [[q \in Reqs |-> Fate(q)] EXCEPT ![r] = end]
<1>1. \A q \in Reqs : Fate(q)' = IF q = r THEN end ELSE Fate(q)
  BY DEF TypeInv, TypeOK, Fate, Working, Finished
<1> QED
  BY <1>1 DEF Fate, Working, Finished

\* The scope of every request stays as long as calls and entries do.
LEMMA ScopeFrame ==
    ASSUME UNCHANGED <<job, found>>
    PROVE  UNCHANGED [q \in Reqs |-> Scope(q)]
  BY DEF Scope, Clears

\* A step that removes nothing and commits everything or nothing.
LEMMA NothingRemoved ==
    ASSUME PromiseInv, NEW r \in Reqs,
           UNCHANGED <<staged, gone>>, disk' \in {disk, staged}
    PROVE  Promise!Change(r)
<1>1. {} \in SUBSET {d \in staged \cup disk : d.path \in [q \in Reqs |-> Scope(q)][r]}
  OBVIOUS
<1>2. gone' = gone \cup {}
  OBVIOUS
<1>3. disk \subseteq staged \cup gone
  BY DEF PromiseInv, DurInv
<1>4. /\ (staged \cup disk)' \subseteq staged \cup disk
      /\ (staged \cup disk) \ (staged \cup disk)' \subseteq gone'
      /\ disk' \subseteq (staged \cup disk)' /\ disk \ disk' \subseteq gone'
  BY <1>3
<1> QED
  BY <1>1, <1>2, <1>4 DEF Promise!Change

\* Every step of the tools is a step of the promise or none.
LEMMA PromiseStep == PromiseInv /\ [Next]_vars => [Promise!Next]_(Promise!promise)
<1> SUFFICES ASSUME PromiseInv, [Next]_vars
             PROVE  Promise!Next \/ UNCHANGED Promise!promise
  OBVIOUS
<1> USE DEF index, handler, env, history
<1>0. disk \subseteq staged \cup gone
  BY DEF PromiseInv, DurInv
<1>1. ASSUME NEW r \in Reqs, Submit(r) PROVE Promise!Arrive(r)
  <2>1. PICK call \in Jobs :
          /\ job' = [job EXCEPT ![r] = call] /\ pc' = [pc EXCEPT ![r] = FirstStep(call)]
          /\ found' = [found EXCEPT ![r] = Given(call)]
    BY <1>1 DEF Submit, Goto
  <2>2. FirstStep(call) \in Working /\ Given(call) \subseteq Entries /\ call \in Calls
    BY JobsAssumption, FirstStepWorks, GivenEntries
  <2>3. /\ Fate(r) = "unsent"
        /\ \A q \in Reqs : Fate(q)' = IF q = r THEN "pending" ELSE Fate(q)
    BY <1>1, <2>1, <2>2 DEF Submit, Fate, Working, Finished, PromiseInv, TypeInv, TypeOK
  <2>4. \A q \in Reqs \ {r} : Scope(q)' = Scope(q)
    BY <2>1 DEF Scope, Clears, PromiseInv, TypeInv, TypeOK
  <2>5. Scope(r)' \subseteq Paths
    BY <2>1, <2>2 DEF Scope, Entries, PromiseInv, TypeInv, TypeOK
  <2>6. /\ [q \in Reqs |-> Fate(q)]' = [[q \in Reqs |-> Fate(q)] EXCEPT ![r] = "pending"]
        /\ [q \in Reqs |-> Scope(q)]' = [[q \in Reqs |-> Scope(q)] EXCEPT ![r] = Scope(r)']
    BY <2>3, <2>4
  <2>7. /\ before' = [before EXCEPT ![r] = staged \cup disk]
        /\ UNCHANGED <<written, staged, disk, view, gone>>
    BY <1>1 DEF Submit
  <2> QED
    BY <2>3, <2>5, <2>6, <2>7 DEF Promise!Arrive
<1>2. ASSUME NEW r \in Reqs, Reject(r) PROVE Promise!Refuse(r)
  <2>1. /\ Fate(r) = "unsent"
        /\ \A q \in Reqs : Fate(q)' = IF q = r THEN "err" ELSE Fate(q)
    BY <1>2 DEF Reject, Goto, Fate, Finished, PromiseInv, TypeInv, TypeOK
  <2>2. UNCHANGED [q \in Reqs |-> Scope(q)]
    BY <1>2, ScopeFrame DEF Reject
  <2> QED
    BY <1>2, <2>1, <2>2 DEF Reject, Promise!Refuse
<1>3. ASSUME NEW r \in Reqs, Walk(r) PROVE Promise!Learn(r)
  <2>1. PICK es \in SUBSET (IF job[r].op = "directory" THEN Collectable ELSE Readable) :
          /\ found' = [found EXCEPT ![r] = es]
          /\ pc' = [pc EXCEPT ![r] = IF es = {} THEN "commit" ELSE "delete"]
    BY <1>3 DEF Walk, Goto
  <2>2. es \subseteq Entries /\ pc[r] = "walk" /\ job' = job
    BY <1>3, WalkEntries DEF Walk
  <2>3. Fate(r) = "pending" /\ UNCHANGED [q \in Reqs |-> Fate(q)]
    BY <2>1, <2>2, StaysPending DEF PromiseInv, Working
  <2>4. written[r] = {} /\ found[r] = {}
    BY <2>2 DEF PromiseInv, FreshInv, Early, ResInv, ResLocal
  <2>5. \A q \in Reqs \ {r} : Scope(q)' = Scope(q)
    BY <2>1, <2>2 DEF Scope, Clears, PromiseInv, TypeInv, TypeOK
  <2>6. Scope(r) \subseteq Scope(r)' /\ Scope(r)' \subseteq Paths
    BY <2>1, <2>2, <2>4 DEF Scope, Clears, Entries, PromiseInv, TypeInv, TypeOK
  <2> QED
    <3>1. UNCHANGED <<[q \in Reqs |-> Fate(q)], before, written, staged \cup disk, disk, view, gone>>
      BY <1>3, <2>3 DEF Walk, index
    <3>2. [q \in Reqs |-> Scope(q)]' = [[q \in Reqs |-> Scope(q)] EXCEPT ![r] = Scope(r)']
      BY <2>5
    <3> QED
      BY <2>3, <2>4, <2>6, <3>1, <3>2 DEF Promise!Learn
<1>4. ASSUME NEW r \in Reqs, Delete(r) PROVE Promise!Work(r)
  <2>1. PICK e \in todo[r] : /\ staged' = staged \ At(staged, e.path)
                             /\ gone' = gone \cup At(staged, e.path)
    BY <1>4 DEF Delete
  <2>2. Fate(r) = "pending" /\ UNCHANGED [q \in Reqs |-> Fate(q)]
    BY <1>4, StaysPending DEF Delete, Goto, PromiseInv, Working
  <2>3. e.path \in Scope(r)
    BY <2>1 DEF Scope, PromiseInv, VisitInv, TypeInv, TypeOK, Entries
  <2>4. At(staged, e.path) \subseteq {d \in staged \cup disk : d.path \in Scope(r)}
    BY <2>3 DEF At
  <2>5. UNCHANGED [q \in Reqs |-> Scope(q)] /\ UNCHANGED <<disk, view, before, written>>
    BY <1>4, ScopeFrame DEF Delete
  <2> QED
    BY <2>1, <2>2, <2>4, <2>5 DEF Promise!Work, Promise!Change, Promise!requests
<1>5. ASSUME NEW r \in Reqs, Add(r) PROVE Promise!Add(r)
  <2>1. Fate(r) = "pending" /\ UNCHANGED [q \in Reqs |-> Fate(q)]
    BY <1>5, StaysPending DEF Add, Goto, NextEntry, PromiseInv, Working
  <2>2. cur[r] \in found[r] /\ cur[r] \in Entries /\ \A d \in written[r] : d.path # cur[r].path
    BY <1>5 DEF Add, PromiseInv, VisitInv, FreshInv, TypeInv
  <2>3. DocOf(r, cur[r]) \in Docs \ written[r]
    BY <2>2, DocOfEntry DEF DocOf
  <2>4. DocOf(r, cur[r]).by = r /\ DocOf(r, cur[r]).path \in Scope(r)
    BY <2>2 DEF DocOf, Scope, Entries
  <2>5. UNCHANGED [q \in Reqs |-> Scope(q)]
    BY <1>5, ScopeFrame DEF Add
  <2> QED
    BY <1>5, <2>1, <2>3, <2>4, <2>5 DEF Add, Promise!Add
<1>6. ASSUME NEW r \in Reqs, BatchCommit(r) \/ Commit(r) PROVE Promise!Work(r)
  <2>1. Fate(r) = "pending" /\ UNCHANGED [q \in Reqs |-> Fate(q)]
    BY <1>6, StaysPending DEF BatchCommit, Commit, Goto, NextEntry, PromiseInv, Working
  <2>2. /\ disk' = staged /\ UNCHANGED <<staged, view, job, found, before, written, gone>>
    BY <1>6 DEF BatchCommit, Commit, WriterCommit
  <2>3. UNCHANGED [q \in Reqs |-> Scope(q)]
    BY <2>2, ScopeFrame
  <2> QED
    BY <2>1, <2>2, <2>3, NothingRemoved DEF Promise!Work, Promise!requests
<1>7. ASSUME NEW r \in Reqs, Clear(r) PROVE Promise!Work(r)
  <2>1. Fate(r) = "pending" /\ UNCHANGED [q \in Reqs |-> Fate(q)]
    BY <1>7, StaysPending DEF Clear, Goto, PromiseInv, Working
  <2>2. Scope(r) = Paths /\ staged \subseteq Docs
    BY <1>7 DEF Clear, Scope, PromiseInv, ResInv, ResLocal, VisitInv, Working, TypeInv, TypeOK
  <2>3. staged \subseteq {d \in staged \cup disk : d.path \in Scope(r)}
    BY <2>2 DEF Docs
  <2>4. UNCHANGED [q \in Reqs |-> Scope(q)]
    BY <1>7, ScopeFrame DEF Clear
  <2>5. /\ staged' = {} /\ disk' = {} /\ gone' = gone \cup staged
        /\ UNCHANGED <<view, before, written>>
    BY <1>7 DEF Clear
  <2> QED
    BY <1>0, <2>1, <2>3, <2>4, <2>5 DEF Promise!Work, Promise!Change, Promise!requests
<1>8. ASSUME NEW r \in Reqs, ClearFails(r) PROVE Promise!Fail(r)
  <2>1. /\ Fate(r) = "pending"
        /\ [q \in Reqs |-> Fate(q)]' = [[q \in Reqs |-> Fate(q)] EXCEPT ![r] = "err"]
    BY <1>8, Finishes DEF ClearFails, Goto, PromiseInv, Working, Finished
  <2>2. Scope(r) = Paths /\ staged \subseteq Docs
    BY <1>8 DEF ClearFails, Scope, PromiseInv, ResInv, ResLocal, VisitInv, Working, TypeInv, TypeOK
  <2>3. staged \subseteq {d \in staged \cup disk : d.path \in Scope(r)}
    BY <2>2 DEF Docs
  <2>4. UNCHANGED [q \in Reqs |-> Scope(q)]
    BY <1>8, ScopeFrame DEF ClearFails
  <2>5. /\ UNCHANGED <<disk, view, before, written>>
        /\ \E R \in {{}, staged} : staged' = staged \ R /\ gone' = gone \cup R
    BY <1>8 DEF ClearFails
  <2> QED
    BY <2>1, <2>3, <2>4, <2>5 DEF Promise!Fail, Promise!Change
<1>9. ASSUME NEW r \in Reqs, Reload(r) PROVE Promise!Succeed(r)
  <2>1. /\ Fate(r) = "pending"
        /\ [q \in Reqs |-> Fate(q)]' = [[q \in Reqs |-> Fate(q)] EXCEPT ![r] = "ok"]
    BY <1>9, Finishes DEF Reload, Goto, PromiseInv, Working, Finished
  <2>2. written[r] \subseteq disk \cup gone /\ Targets(r) \cap (staged \cup disk) = {}
    BY <1>9 DEF Reload, PromiseInv, DurInv, ResInv, ResLocal
  <2>3. {d \in before[r] : d.path \in Scope(r)} \subseteq Targets(r)
    BY DEF Scope, Targets
  <2>4. UNCHANGED [q \in Reqs |-> Scope(q)]
    BY <1>9, ScopeFrame DEF Reload
  <2> QED
    BY <1>9, <2>1, <2>2, <2>3, <2>4 DEF Reload, Promise!Succeed, Promise!Targets
<1>10. ASSUME NEW r \in Reqs, ClearReload(r) PROVE Promise!Succeed(r) \/ Promise!Refresh
  <2>1. UNCHANGED [q \in Reqs |-> Scope(q)]
    BY <1>10, ScopeFrame DEF ClearReload
  <2>2. CASE job[r].op = "clear"
    <3>1. /\ Fate(r) = "pending"
          /\ [q \in Reqs |-> Fate(q)]' = [[q \in Reqs |-> Fate(q)] EXCEPT ![r] = "ok"]
      BY <1>10, <2>2, Finishes DEF ClearReload, Goto, PromiseInv, Working, Finished
    <3>2. written[r] = {} /\ before[r] \cap (staged \cup disk) = {}
      BY <1>10 DEF ClearReload, PromiseInv, FreshInv, Early, ResInv, ResLocal
    <3> QED
      BY <1>10, <2>1, <3>1, <3>2 DEF ClearReload, Promise!Succeed, Promise!Targets
  <2>3. CASE job[r].op # "clear"
    <3>1. UNCHANGED [q \in Reqs |-> Fate(q)]
      BY <1>10, <2>3, StaysPending DEF ClearReload, Goto, PromiseInv, Working
    <3> QED
      BY <1>10, <2>1, <3>1 DEF ClearReload, Promise!Refresh, Promise!requests
  <2> QED
    BY <2>2, <2>3
<1>11. ASSUME NEW r \in Reqs, WalkFails(r) \/ CommitFails(r) \/ ReloadFails(r)
       PROVE  Promise!Fail(r)
  <2>1. /\ Fate(r) = "pending"
        /\ [q \in Reqs |-> Fate(q)]' = [[q \in Reqs |-> Fate(q)] EXCEPT ![r] = "err"]
    BY <1>11, Finishes DEF WalkFails, CommitFails, ReloadFails, Goto, PromiseInv, Working, Finished
  <2>2. UNCHANGED <<staged, disk, view, job, found, before, written, gone>>
    BY <1>11 DEF WalkFails, CommitFails, ReloadFails
  <2>3. UNCHANGED [q \in Reqs |-> Scope(q)]
    BY <2>2, ScopeFrame
  <2> QED
    BY <2>1, <2>2, <2>3, NothingRemoved DEF Promise!Fail
<1>12. ASSUME NEW r \in Reqs, DeleteFails(r) \/ AddFails(r) \/ BatchCommitFails(r)
       PROVE  Promise!Fail(r) \/ UNCHANGED Promise!promise
  <2>1. /\ UNCHANGED <<staged, disk, view, job, found, before, written, gone>>
        /\ pc[r] \in Working
        /\ \E step \in Working \cup {"err"} : pc' = [pc EXCEPT ![r] = step]
    BY <1>12 DEF DeleteFails, AddFails, BatchCommitFails, Goto, NextEntry, Working
  <2>2. UNCHANGED [q \in Reqs |-> Scope(q)]
    BY <2>1, ScopeFrame
  <2>3. CASE pc' = [pc EXCEPT ![r] = "err"]
    <3>1. /\ Fate(r) = "pending"
          /\ [q \in Reqs |-> Fate(q)]' = [[q \in Reqs |-> Fate(q)] EXCEPT ![r] = "err"]
      BY <2>1, <2>3, Finishes DEF PromiseInv, Finished
    <3> QED
      BY <2>1, <2>2, <3>1, NothingRemoved DEF Promise!Fail
  <2>4. ASSUME NEW step \in Working, pc' = [pc EXCEPT ![r] = step]
        PROVE  UNCHANGED Promise!promise
    <3>1. UNCHANGED [q \in Reqs |-> Fate(q)]
      BY <2>1, <2>4, StaysPending DEF PromiseInv
    <3> QED
      BY <2>1, <2>2, <3>1 DEF Promise!promise, Promise!requests
  <2> QED
    BY <2>1, <2>3, <2>4
<1>13. ASSUME NEW r \in Reqs, Poison(r) PROVE Promise!Lose(r)
  <2>1. /\ Fate(r) = "pending"
        /\ [q \in Reqs |-> Fate(q)]' = [[q \in Reqs |-> Fate(q)] EXCEPT ![r] = "lost"]
    BY <1>13, Finishes DEF Poison, Goto, PromiseInv, Working, Finished
  <2>2. UNCHANGED [q \in Reqs |-> Scope(q)]
    BY <1>13, ScopeFrame DEF Poison
  <2> QED
    BY <1>13, <2>1, <2>2 DEF Poison, Promise!Lose
<1>14. ASSUME WatcherReload PROVE Promise!Refresh
  BY <1>14, ViewFrame DEF WatcherReload, ViewKept, Promise!Refresh, Promise!requests
<1>15. ASSUME CrashRestart PROVE Promise!Crash
  <2>1. \A r \in Reqs : Fate(r)' = IF Fate(r) = "pending" THEN "lost" ELSE Fate(r)
    BY <1>15 DEF CrashRestart, Fate, PromiseInv, TypeInv, TypeOK, Working, Finished
  <2>2. UNCHANGED [q \in Reqs |-> Scope(q)]
    BY <1>15, ScopeFrame DEF CrashRestart
  <2> QED
    BY <1>15, <2>1, <2>2 DEF CrashRestart, Promise!Crash
<1>16. CASE UNCHANGED vars
  BY <1>16, ViewFrame DEF vars, ViewKept, Promise!promise, Promise!requests
<1> QED
  BY <1>1, <1>2, <1>3, <1>4, <1>5, <1>6, <1>7, <1>8, <1>9, <1>10, <1>11, <1>12, <1>13,
     <1>14, <1>15, <1>16 DEF Next, Step, Promise!Next

-----------------------------------------------------------------------------
(* The theorems *)

\* An acknowledged document is in the last commit and what searches read, whatever
\* else runs, fails or crashes, until a later call removes it.
THEOREM AckedStays == Spec => []AckedIsKept
<1>1. Init => TypeInv /\ DurInv
  BY InitTyped DEF Init, DurInv, Working
<1>2. DurInv => AckedIsKept
  BY DEF DurInv, AckedIsKept, Ok
<1> QED
  BY <1>1, <1>2, TypeStep, DurStep, PTL DEF Spec

\* Only two upserts of one path that overlap between delete and add leave two
\* documents at that path.
THEOREM OnlyRacesDuplicate == Spec => []UniqueUnlessRaced
<1>1. Init => TypeInv /\ UniqInv
  BY InitTyped DEF Init, UniqInv, UniqueUnlessRaced, InGap
<1>2. UniqInv => UniqueUnlessRaced
  BY DEF UniqInv
<1> QED
  BY <1>1, <1>2, TypeStep, UniqStep, PTL DEF Spec

\* What a successful upsert, delete or clear had to remove is gone from RAM, disk
\* and searches, and no later commit, reload or restart brings it back.
THEOREM RemovedStaysRemoved == Spec => []NoResurrection
<1>1. Init => TypeInv /\ FreshInv /\ ResInv
  <2>1. Init => FreshInv
    BY DEF Init, FreshInv
  <2>2. Init => ResInv
    BY DEF Init, ResInv, ResLocal, Handled, Targets, Working
  <2> QED
    BY <2>1, <2>2, InitTyped
<1>2. ResInv => NoResurrection
  BY DEF ResInv, ResLocal, NoResurrection, Ok
<1> QED
  BY <1>1, <1>2, TypeStep, FreshStep, ResStep, PTL DEF Spec

\* pending_count() = 0 means that nothing added is waiting for a commit: no
\* failed commit, clear or crash leaves the counter at zero too early
\* (index/writer.rs, commit and clear).
THEOREM NothingWaitsUnseen == Spec => []NothingPendingIsPublished
<1>1. Init => NothingPendingIsPublished
  BY DEF Init, NothingPendingIsPublished
<1> QED
  BY <1>1, InitTyped, TypeStep, PendingStep, PTL DEF Spec

\* A bulk tool that answers with success has indexed every entry it found or
\* counted an error for it, however many batches and failures there were
\* (tools/directory.rs and workspace_data.rs).
THEOREM ReportsAreHonest == Spec => []HonestReport
<1>1. Init => TypeInv /\ FreshInv /\ ResInv /\ CountInv
  <2>1. Init => FreshInv
    BY DEF Init, FreshInv
  <2>2. Init => ResInv
    BY DEF Init, ResInv, ResLocal, Handled, Targets, Working
  <2>3. Init => CountInv
    BY DEF Init, CountInv, Counted, Working
  <2> QED
    BY <2>1, <2>2, <2>3, InitTyped
<1>2. ResInv /\ CountInv => HonestReport
  <2> SUFFICES ASSUME ResInv, CountInv, NEW r \in Reqs, pc[r] = "ok", Bulk(r)
               PROVE  Cardinality({e \in found[r] : DocOf(r, e) \notin written[r]}) <= errors[r]
    BY DEF HonestReport, Ok
  <2>1. todo[r] = {}
    BY DEF ResInv, ResLocal
  <2>2. Missed(r) = {e \in found[r] : DocOf(r, e) \notin written[r]}
    BY <2>1 DEF Missed
  <2>3. Cardinality(Missed(r)) <= errors[r]
    BY DEF CountInv, Counted
  <2> QED
    BY <2>2, <2>3
<1> QED
  BY <1>1, <1>2, TypeStep, FreshStep, ResStep, CountStep, PTL DEF Spec

\* A path that a successful request indexed stays durable and searchable, in one
\* version or another, until a request that came to it deletes, clears, fails or
\* is at work there: a commit that others make between its delete and its
\* add loses nothing once it is answered (index/writer.rs, tools/search.rs,
\* directory.rs, workspace_data.rs).
THEOREM IndexedPathsStay == Spec => []PathStaysIndexed
<1>1. Init => TypeInv /\ FreshInv /\ ResInv /\ VisitInv /\ StayInv
  <2>1. Init => FreshInv
    BY DEF Init, FreshInv
  <2>2. Init => ResInv
    BY DEF Init, ResInv, ResLocal, Handled, Targets, Working
  <2>3. Init => VisitInv /\ StayInv
    BY DEF Init, VisitInv, StayInv, StaysAt, Visited, Working
  <2> QED
    BY <2>1, <2>2, <2>3, InitTyped
<1>2. TypeInv /\ VisitInv /\ StayInv => PathStaysIndexed
  <2> SUFFICES ASSUME TypeInv, VisitInv, StayInv, NEW r \in Reqs, NEW d \in written[r],
                      \A q \in Reqs : ~Unsettled(q, d.path)
               PROVE  At(disk, d.path) # {} /\ At(view, d.path) # {}
    BY DEF PathStaysIndexed
  <2>1. d.path \in Paths
    BY DEF TypeInv, TypeOK, Docs
  <2>2. Visited(r, d.path) /\ ~Wiped
    BY DEF VisitInv, Unsettled, Wiped
  <2>3. AllAt(d.path, {"ok"}) /\ AllAt(d.path, {"reload", "ok"})
    BY DEF AllAt, Unsettled, Visited, Unadded, Ok
  <2> QED
    BY <2>1, <2>2, <2>3 DEF StayInv, StaysAt
<1> QED
  BY <1>1, <1>2, TypeStep, FreshStep, ResStep, VisitStep, StayStep, PTL DEF Spec

\* The tools and the writer implement IndexPromise: every step of a handler, of
\* the watcher, a failure or a crash is one its clients were promised, or
\* nothing to them (tools/search.rs, directory.rs, workspace_data.rs, index/).
THEOREM IndexKeepsPromise == Spec => KeepsIndexPromise
<1>1. Init => PromiseInv
  <2>1. Init => DurInv /\ FreshInv
    BY DEF Init, DurInv, FreshInv, Working
  <2>2. Init => ResInv
    BY DEF Init, ResInv, ResLocal, Handled, Targets, Working
  <2>3. Init => VisitInv
    BY DEF Init, VisitInv, Visited, Working
  <2> QED
    BY <2>1, <2>2, <2>3, InitTyped DEF PromiseInv
<1>2. Init => Promise!Init
  <2> SUFFICES ASSUME Init PROVE Promise!Init
    OBVIOUS
  <2>1. \A r \in Reqs : Fate(r) = "unsent" /\ Scope(r) = {}
    BY DEF Init, Fate, Finished, Scope
  <2> QED
    BY <2>1 DEF Init, Promise!Init
<1>3. PromiseInv /\ [Next]_vars => PromiseInv'
  BY TypeStep, DurStep, FreshStep, ResStep, VisitStep DEF PromiseInv
<1> QED
  BY <1>1, <1>2, <1>3, PromiseStep, PTL DEF Spec, KeepsIndexPromise, Promise!Spec

-----------------------------------------------------------------------------
(* What the promise amounts to *)

\* Documents that are committed or wait for a commit.
Living == staged \cup disk

\* Documents belong to the request that wrote them, and what is alive or was alive
\* when a request arrived has been written.
DocsInv ==
    /\ written \in [Reqs -> SUBSET Docs]
    /\ before \in [Reqs -> SUBSET Docs]
    /\ \A d \in Living : \E r \in Reqs : d \in written[r]
    /\ \A q \in Reqs : \A d \in before[q] : \E r \in Reqs : d \in written[r]
    /\ \A r \in Reqs : \A d \in written[r] : d.by = r

PromisedInv == DocsInv /\ Promise!Kept

\* The initial state satisfies it.
LEMMA InitOwn == Promise!Init => PromisedInv
  BY DEF Living, Promise!Init, PromisedInv, DocsInv, Promise!Kept

\* A step of anybody's that brings no document back to life, takes out only what is
\* removed, and moves searches to the last commit or not at all, keeps what an
\* answered request was promised.
LEMMA KeptFrame ==
    ASSUME PromisedInv, NEW r \in Reqs, Fate(r) = "ok",
           written'[r] = written[r], before'[r] = before[r], Scope(r)' = Scope(r),
           gone \subseteq gone', disk \ disk' \subseteq gone',
           Living' \cap before[r] \subseteq Living,
           view' \in {view, disk, disk'}, disk' \subseteq Living'
    PROVE  /\ written'[r] \subseteq disk' \cup gone'
           /\ Promise!Targets(r)' \cap (Living' \cup view') = {}
<1> USE DEF Living
<1>1. Promise!Targets(r)' = Promise!Targets(r) /\ Promise!Targets(r) \subseteq before[r]
  BY DEF Promise!Targets
<1>2. written[r] \subseteq disk \cup gone /\ Promise!Targets(r) \cap (Living \cup view) = {}
  BY DEF PromisedInv, Promise!Kept
<1> QED
  BY <1>1, <1>2

\* Every step keeps it.
LEMMA KeptStep == PromisedInv /\ [Promise!Next]_(Promise!promise) => PromisedInv'
<1> SUFFICES ASSUME PromisedInv, [Promise!Next]_(Promise!promise) PROVE PromisedInv'
  OBVIOUS
<1> USE DEF Promise!requests, Living
<1>1. ASSUME NEW r \in Reqs, Promise!Arrive(r) PROVE PromisedInv'
  <2>1. Living \subseteq Docs
    BY DEF PromisedInv, DocsInv
  <2>2. /\ [q \in Reqs |-> Fate(q)]' = [[q \in Reqs |-> Fate(q)] EXCEPT ![r] = "pending"]
        /\ before' = [before EXCEPT ![r] = Living]
        /\ UNCHANGED <<written, Living, disk, view, gone>>
    BY <1>1 DEF Promise!Arrive
  <2>3. DocsInv'
    BY <2>1, <2>2 DEF PromisedInv, DocsInv
  <2>4. ASSUME NEW q \in Reqs, Fate(q)' = "ok" PROVE q # r /\ Fate(q) = "ok"
    BY <2>2, <2>4
  <2>5. \A q \in Reqs \ {r} : before'[q] = before[q] /\ Scope(q)' = Scope(q)
    BY <1>1, <2>2 DEF Promise!Arrive, PromisedInv, DocsInv
  <2> QED
    BY <2>2, <2>3, <2>4, <2>5, KeptFrame DEF PromisedInv, Promise!Kept
<1>2. ASSUME NEW r \in Reqs, Promise!Learn(r) PROVE PromisedInv'
  <2>1. DocsInv'
    BY <1>2 DEF Promise!Learn, PromisedInv, DocsInv
  <2>2. ASSUME NEW q \in Reqs, Fate(q)' = "ok" PROVE q # r /\ Fate(q) = "ok"
    BY <1>2, <2>2 DEF Promise!Learn
  <2> QED
    BY <1>2, <2>1, <2>2, KeptFrame DEF Promise!Learn, PromisedInv, DocsInv, Promise!Kept
<1>3. ASSUME NEW r \in Reqs, Promise!Add(r) PROVE PromisedInv'
  <2>1. PICK d \in Docs \ written[r] :
          /\ d.by = r /\ written' = [written EXCEPT ![r] = @ \cup {d}] /\ Living' = Living \cup {d}
    BY <1>3 DEF Promise!Add
  <2>2. \A q \in Reqs : d \notin before[q]
    BY <2>1 DEF PromisedInv, DocsInv
  <2>3. DocsInv'
    BY <1>3, <2>1 DEF Promise!Add, PromisedInv, DocsInv
  <2>4. ASSUME NEW q \in Reqs, Fate(q)' = "ok" PROVE q # r /\ Fate(q) = "ok"
    BY <1>3, <2>4 DEF Promise!Add
  <2> QED
    BY <1>3, <2>1, <2>2, <2>3, <2>4, KeptFrame DEF Promise!Add, PromisedInv, DocsInv, Promise!Kept
<1>4. ASSUME NEW r \in Reqs, Promise!Work(r) \/ Promise!Fail(r) PROVE PromisedInv'
  <2>1. /\ gone \subseteq gone' /\ Living' \subseteq Living /\ disk' \subseteq Living'
        /\ disk \ disk' \subseteq gone'
    BY <1>4 DEF Promise!Work, Promise!Fail, Promise!Change
  <2>2. UNCHANGED <<[q \in Reqs |-> Scope(q)], before, written, view>>
    BY <1>4 DEF Promise!Work, Promise!Fail
  <2>3. DocsInv'
    BY <1>4, <2>1, <2>2 DEF Promise!Work, Promise!Fail, PromisedInv, DocsInv
  <2>4. ASSUME NEW q \in Reqs, Fate(q)' = "ok" PROVE Fate(q) = "ok"
    <3>1. \/ UNCHANGED [p \in Reqs |-> Fate(p)]
          \/ [p \in Reqs |-> Fate(p)]' = [[p \in Reqs |-> Fate(p)] EXCEPT ![r] = "err"]
      BY <1>4 DEF Promise!Work, Promise!Fail
    <3>2. Fate(q)' = Fate(q) \/ (q = r /\ Fate(q)' = "err")
      BY <3>1
    <3> QED
      BY <2>4, <3>2
  <2> QED
    BY <2>1, <2>2, <2>3, <2>4, KeptFrame DEF PromisedInv, Promise!Kept
<1>5. ASSUME NEW r \in Reqs, Promise!Succeed(r) PROVE PromisedInv'
  <2>0. /\ [q \in Reqs |-> Fate(q)]' = [[q \in Reqs |-> Fate(q)] EXCEPT ![r] = "ok"]
        /\ UNCHANGED <<[q \in Reqs |-> Scope(q)], before, written, Living, disk>>
    BY <1>5 DEF Promise!Succeed
  <2>1. DocsInv'
    BY <2>0 DEF PromisedInv, DocsInv
  <2>2. /\ written'[r] \subseteq disk' \cup gone'
        /\ Promise!Targets(r)' \cap (Living' \cup view') = {}
    BY <1>5 DEF Promise!Succeed, Promise!Targets, PromisedInv, DocsInv
  <2>3. ASSUME NEW q \in Reqs, Fate(q)' = "ok", q # r PROVE Fate(q) = "ok"
    BY <1>5, <2>3 DEF Promise!Succeed, PromisedInv, DocsInv
  <2> QED
    BY <1>5, <2>1, <2>2, <2>3, KeptFrame DEF Promise!Succeed, PromisedInv, DocsInv, Promise!Kept
<1>6. CASE Promise!Crash
  <2>1. DocsInv'
    BY <1>6 DEF Promise!Crash, PromisedInv, DocsInv
  <2>2. ASSUME NEW q \in Reqs, Fate(q)' = "ok" PROVE Fate(q) = "ok"
    BY <1>6, <2>2 DEF Promise!Crash
  <2> QED
    BY <1>6, <2>1, <2>2, KeptFrame DEF Promise!Crash, PromisedInv, DocsInv, Promise!Kept
<1>7. ASSUME NEW r \in Reqs, Promise!Refuse(r) \/ Promise!Lose(r) PROVE PromisedInv'
  <2>1. DocsInv'
    BY <1>7 DEF Promise!Refuse, Promise!Lose, PromisedInv, DocsInv
  <2>2. ASSUME NEW q \in Reqs, Fate(q)' = "ok" PROVE Fate(q) = "ok"
    BY <1>7, <2>2 DEF Promise!Refuse, Promise!Lose, PromisedInv, DocsInv
  <2> QED
    BY <1>7, <2>1, <2>2, KeptFrame DEF Promise!Refuse, Promise!Lose, PromisedInv, DocsInv, Promise!Kept
<1>8. CASE Promise!Refresh \/ UNCHANGED Promise!promise
  <2>1. UNCHANGED <<[r \in Reqs |-> Fate(r)], [r \in Reqs |-> Scope(r)], before, written, Living, disk, gone>>
        /\ view' \in {view, disk}
    BY <1>8 DEF Promise!Refresh, Promise!promise
  <2> QED
    BY <2>1, KeptFrame DEF PromisedInv, DocsInv, Promise!Kept
<1> QED
  BY <1>1, <1>2, <1>3, <1>4, <1>5, <1>6, <1>7, <1>8 DEF Promise!Next

\* From the promise alone, whatever other requests do, fail or crash: what an
\* answered request added stays committed until somebody removes it, and what
\* it had to replace or remove is found no more and never comes back.
THEOREM PromiseKeeps == Promise!Spec => []Promise!Kept
<1>1. PromisedInv => Promise!Kept
  BY DEF PromisedInv
<1> QED
  BY <1>1, InitOwn, KeptStep, PTL DEF Promise!Spec

\* So an index request that is answered with success has what it added on disk until some
\* request removes it, and what it replaced or removed is gone from the writer, the disk
\* and the searches for good (tools/search.rs, index/writer.rs).
THEOREM SuccessIsForGood == Spec => []Promise!Kept
  BY IndexKeepsPromise, PromiseKeeps, PTL DEF KeepsIndexPromise
=============================================================================
