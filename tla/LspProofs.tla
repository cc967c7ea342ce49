------------------------------ MODULE LspProofs ------------------------------
(* Proofs about LspStore, for every set of requests and paths, and then     *)
(* about Navigation, for every set of queries beside them.                  *)
EXTENDS Navigation, SymbolTreeProofs

-----------------------------------------------------------------------------
(* Types *)

\* A request that works has a call, one past the store step of a document tool
\* names a path, and only build_index has no path.
TypeInv ==
    /\ TypeOK
    /\ \A r \in Reqs :
         /\ pc[r] \in Working => call[r] \in Calls
         /\ pc[r] \in {"store", "remove"} => call[r].path \in Paths
         /\ pc[r] = "clear" => call[r].op = "build"
         /\ pc[r] = "snapshot" => Scope(r) \subseteq Paths

\* The symbols of a content are rows of the table.
LEMMA SymbolRowsType ==
    ASSUME NEW p \in Paths, NEW c \in Contents PROVE SymbolRows(p, c) \subseteq Rows
  BY DEF SymbolRows, Rows, Contents

\* What stops half way changes the rows of one path, to some of its new ones.
LEMMA StopsAt ==
    ASSUME NEW r \in Reqs, StopsHalfWay(r)
    PROVE  \E w \in todo[r] :
             /\ cut' = cut \cup {w}
             /\ \A q : q # w => RowsOf(q)' = RowsOf(q)
             /\ \E X \in SUBSET SymbolRows(w, snap[r][w]) : rows' = (rows \ RowsOf(w)) \cup X
<1>1. PICK w \in todo[r] : \E k \in 0 .. NSyms[w][snap[r][w]] - 1 :
        /\ rows' = (rows \ RowsOf(w)) \cup {x \in SymbolRows(w, snap[r][w]) : x.sym <= k}
        /\ cut' = cut \cup {w}
  BY DEF StopsHalfWay
<1>2. PICK X \in SUBSET SymbolRows(w, snap[r][w]) : rows' = (rows \ RowsOf(w)) \cup X
  BY <1>1
<1>3. \A x \in X : x.path = w
  BY <1>2 DEF SymbolRows
<1>4. \A q : q # w => RowsOf(q)' = RowsOf(q)
  BY <1>2, <1>3 DEF RowsOf
<1> QED
  BY <1>1, <1>2, <1>4

\* Every step keeps the types.
LEMMA TypeStep == TypeInv /\ [Next]_vars => TypeInv'
<1> SUFFICES ASSUME TypeInv, [Next]_vars PROVE TypeInv'
  OBVIOUS
<1> USE LimitAssumption, MenuAssumption DEF TypeInv, TypeOK
<1>0. ASSUME NEW r \in Reqs, StopsHalfWay(r) PROVE rows' \in SUBSET Rows /\ cut' \in SUBSET Paths
  <2>1. PICK w \in todo[r] :
          /\ cut' = cut \cup {w}
          /\ \E X \in SUBSET SymbolRows(w, snap[r][w]) : rows' = (rows \ RowsOf(w)) \cup X
    BY <1>0, StopsAt
  <2>2. w \in Paths /\ SymbolRows(w, snap[r][w]) \subseteq Rows
    BY <2>1, SymbolRowsType
  <2> QED
    BY <2>1, <2>2
<1>1. ASSUME NEW r \in Reqs, Submit(r) PROVE TypeInv'
  <2>1. PICK c \in Menu : /\ call' = [call EXCEPT ![r] = c]
                          /\ pc' = [pc EXCEPT ![r] = IF c.op = "build" THEN "clear" ELSE "store"]
    BY <1>1 DEF Submit, Goto
  <2>2. c \in Calls /\ (c.op # "build" => c.path \in Paths)
    BY DEF Calls
  <2> QED
    BY <1>1, <2>1, <2>2 DEF Submit, Working, Scope
<1>2. ASSUME NEW r \in Reqs, Reject(r) \/ UpdateNotOpen(r) \/ CloseNotOpen(r) PROVE TypeInv'
  <2>1. /\ UNCHANGED <<docs, poisoned, rows, call, snap, todo, faults, crashes, tainted, cut>>
        /\ \E s \in {"ok", "err"} : pc' = [pc EXCEPT ![r] = s]
    <3>1. CASE Reject(r)
      BY <3>1 DEF Reject, Goto
    <3>2. CASE UpdateNotOpen(r)
      BY <3>2 DEF UpdateNotOpen, Goto
    <3>3. CASE CloseNotOpen(r)
      BY <3>3 DEF CloseNotOpen, Goto
    <3> QED
      BY <1>2, <3>1, <3>2, <3>3
  <2> QED
    BY <2>1 DEF Working, Finished, Scope
<1>3. ASSUME NEW r \in Reqs, Write(r) \/ Close(r) PROVE TypeInv'
  <2>1. call[r].path \in Paths /\ call[r].op # "build"
    BY <1>3 DEF Write, Close
  <2>2. docs' \in [Paths -> Contents]
    <3>1. \E c \in Contents : docs' = [docs EXCEPT ![call[r].path] = c]
      BY <1>3 DEF Write, Close, Contents
    <3> QED
      BY <2>1, <3>1
  <2>3. tainted' \in SUBSET Paths
    BY <1>3, <2>1 DEF Write, Close, TaintIfHeld
  <2>4. /\ pc' \in [Reqs -> {"idle"} \cup Working \cup Finished]
        /\ pc'[r] \in {"snapshot", "remove"} /\ \A q \in Reqs \ {r} : pc'[q] = pc[q]
    BY <1>3 DEF Write, Close, Goto, Working
  <2>5. UNCHANGED <<poisoned, rows, call, snap, todo, faults, crashes, cut>>
    BY <1>3 DEF Write, Close
  <2>6. call[r] \in Calls
    BY <1>3 DEF Write, Close, Working
  <2> QED
    BY <2>1, <2>2, <2>3, <2>4, <2>5, <2>6 DEF Scope, Working
<1>4. ASSUME NEW r \in Reqs, ParserPanics(r) \/ ClearFails(r) PROVE TypeInv'
  <2>0. poisoned' \in BOOLEAN /\ Fault
    BY <1>4 DEF ParserPanics, ClearFails
  <2>1. faults' \in 0 .. MaxFaults /\ crashes' \in 0 .. MaxCrashes
    BY <2>0 DEF Fault
  <2>2. UNCHANGED <<docs, rows, call, snap, todo, tainted, cut>> /\ Goto(r, "err")
    BY <1>4 DEF ParserPanics, ClearFails
  <2> QED
    BY <2>0, <2>1, <2>2 DEF Goto, Working, Finished, Scope
<1>5. ASSUME NEW r \in Reqs, StoreFails(r) PROVE TypeInv'
  BY <1>5 DEF StoreFails, Goto, Working, Finished, Scope
<1>6. ASSUME NEW r \in Reqs, Snapshot(r) PROVE TypeInv'
  BY <1>6 DEF Snapshot, Goto, Working, Finished, Scope
<1>7. ASSUME NEW r \in Reqs, Replace(r) PROVE TypeInv'
  BY <1>7, SymbolRowsType DEF Replace, Goto, Working, Finished, Scope
<1>8. ASSUME NEW r \in Reqs, ReplaceFails(r) PROVE TypeInv'
  <2>1. rows' \in SUBSET Rows /\ cut' \in SUBSET Paths
    BY <1>0, <1>8 DEF ReplaceFails
  <2>2. tainted' \in SUBSET Paths
    BY <1>8 DEF ReplaceFails
  <2>3. faults' \in 0 .. MaxFaults /\ crashes' \in 0 .. MaxCrashes
    BY <1>8 DEF ReplaceFails, Fault
  <2>4. UNCHANGED <<docs, poisoned, call, snap, todo>> /\ Goto(r, "err")
    BY <1>8 DEF ReplaceFails
  <2> QED
    BY <2>1, <2>2, <2>3, <2>4 DEF Goto, Working, Finished, Scope
<1>9. ASSUME NEW r \in Reqs, Remove(r) \/ RemoveFails(r) PROVE TypeInv'
  <2>1. call[r].path \in Paths
    BY <1>9 DEF Remove, RemoveFails
  <2>2. rows' \in SUBSET Rows /\ tainted' \in SUBSET Paths /\ cut' \in SUBSET Paths
    BY <1>9, <2>1 DEF Remove, RemoveFails
  <2>3. faults' \in 0 .. MaxFaults /\ crashes' \in 0 .. MaxCrashes
    BY <1>9 DEF Remove, RemoveFails, Fault
  <2>4. /\ UNCHANGED <<docs, poisoned, call, snap, todo>>
        /\ Goto(r, "ok") \/ Goto(r, "err")
    BY <1>9 DEF Remove, RemoveFails
  <2> QED
    BY <2>2, <2>3, <2>4 DEF Goto, Working, Finished, Scope
<1>10. ASSUME NEW r \in Reqs, Clear(r) PROVE TypeInv'
  <2>1. call[r] \in Calls
    BY <1>10 DEF Clear, Working
  <2>2. Scope(r) \subseteq Paths
    BY <2>1 DEF Scope, Calls
  <2> QED
    BY <1>10, <2>1, <2>2 DEF Clear, Goto, Working, Scope
<1>11. ASSUME CrashRestart PROVE TypeInv'
  <2>1. /\ pc' \in [Reqs -> {"idle"} \cup Working \cup Finished]
        /\ \A r \in Reqs : pc'[r] \notin Working
    BY <1>11 DEF CrashRestart, Working, Finished
  <2>2. docs' \in [Paths -> Contents]
    BY <1>11 DEF CrashRestart, NoDocs, Contents
  <2>3. rows' \in SUBSET Rows /\ cut' \in SUBSET Paths
    BY <1>0, <1>11 DEF CrashRestart
  <2>4. crashes' \in 0 .. MaxCrashes /\ tainted' \in SUBSET Paths
    BY <1>11, <2>3 DEF CrashRestart, Rows
  <2> QED
    BY <1>11, <2>1, <2>2, <2>3, <2>4 DEF CrashRestart, Working
<1>12. ASSUME UNCHANGED vars PROVE TypeInv'
  BY <1>12 DEF vars, Scope
<1> QED
  BY <1>1, <1>2, <1>3, <1>4, <1>5, <1>6, <1>7, <1>8, <1>9, <1>10, <1>11, <1>12
     DEF Next, Step

\* The initial state is well typed.
LEMMA InitTyped == Init => TypeInv
<1> SUFFICES ASSUME Init PROVE TypeInv
  OBVIOUS
<1>1. NoDocs \in [Paths -> Contents]
  BY DEF NoDocs, Contents
<1>2. pc \in [Reqs -> {"idle"} \cup Working \cup Finished] /\ \A r \in Reqs : pc[r] = "idle"
  BY DEF Init
<1>3. faults \in 0 .. MaxFaults /\ crashes \in 0 .. MaxCrashes
  BY LimitAssumption DEF Init
<1> QED
  BY <1>1, <1>2, <1>3 DEF Init, TypeInv, TypeOK, Working

\* Every reachable state is well typed.
THEOREM TypeCorrect == Spec => []TypeOK
<1>1. TypeInv => TypeOK
  BY DEF TypeInv
<1> QED
  BY <1>1, InitTyped, TypeStep, PTL DEF Spec

-----------------------------------------------------------------------------
(* The table follows the store *)

\* For a path that is not suspect: a request that holds what it read holds what
\* the store has, and rows that differ are about to be written by someone.
SyncOf(p) ==
    /\ \A r \in Reqs : pc[r] = "replace" /\ p \in todo[r] =>
                           snap[r][p] = docs[p] /\ docs[p] # Closed
    /\ \A r \in Reqs : pc[r] = "remove" /\ call[r].path = p => docs[p] = Closed
    /\ docs[p] = Closed => RowsOf(p) = {} \/ \E r \in Reqs : Holds(r, p)
    /\ docs[p] # Closed => RowsOf(p) = SymbolRows(p, docs[p]) \/ \E r \in Reqs : Owes(r, p)

SyncInv == \A p \in Paths \ tainted : SyncOf(p)

\* Nothing but the step of request r moves.
OthersRest(r) == \A q \in Reqs \ {r} : /\ pc'[q] = pc[q] /\ snap'[q] = snap[q]
                                       /\ todo'[q] = todo[q] /\ call'[q] = call[q]

\* A step of r that changes neither the document nor the rows of p keeps p in
\* step if r neither takes nor drops a hold on p.
LEMMA SyncFrame ==
    ASSUME NEW r \in Reqs, NEW p \in Paths, SyncOf(p), OthersRest(r),
           docs'[p] = docs[p], RowsOf(p)' = RowsOf(p),
           Holds(r, p)' => Holds(r, p) /\ pc'[r] = pc[r] /\ snap'[r] = snap[r] /\ call'[r] = call[r],
           Holds(r, p) => Holds(r, p)',
           Owes(r, p) => Owes(r, p)'
    PROVE  SyncOf(p)'
<1>1. \A q \in Reqs \ {r} : (Holds(q, p) <=> Holds(q, p)') /\ (Owes(q, p) <=> Owes(q, p)')
  BY DEF Holds, Owes, OthersRest, Scope
<1>2. SymbolRows(p, docs[p])' = SymbolRows(p, docs[p])
  BY DEF SymbolRows
<1>3. \A q \in Reqs : Holds(q, p)' => Holds(q, p) /\ pc'[q] = pc[q] /\ snap'[q] = snap[q] /\ call'[q] = call[q]
  BY <1>1 DEF OthersRest
<1>4. \A q \in Reqs : (Holds(q, p) => Holds(q, p)') /\ (Owes(q, p) => Owes(q, p)')
  BY <1>1
<1>5. \A q \in Reqs : pc'[q] = "replace" /\ p \in todo'[q] => snap'[q][p] = docs'[p] /\ docs'[p] # Closed
  BY <1>3 DEF SyncOf, Holds
<1>6. \A q \in Reqs : pc'[q] = "remove" /\ call'[q].path = p => docs'[p] = Closed
  BY <1>3 DEF SyncOf, Holds
<1>7. docs'[p] = Closed => RowsOf(p)' = {} \/ \E q \in Reqs : Holds(q, p)'
  BY <1>4 DEF SyncOf
<1>8. docs'[p] # Closed => RowsOf(p)' = SymbolRows(p, docs[p])' \/ \E q \in Reqs : Owes(q, p)'
  BY <1>2, <1>4 DEF SyncOf
<1> QED
  BY <1>5, <1>6, <1>7, <1>8 DEF SyncOf

\* A path nobody holds, whose rows are what the store says, is in step.
LEMMA SyncClean ==
    ASSUME NEW p \in Paths,
           \A r \in Reqs : ~Holds(r, p),
           RowsOf(p) = SymbolRows(p, docs[p])
    PROVE  SyncOf(p)
  BY DEF SyncOf, Holds, SymbolRows

\* Writing the rows of one path leaves those of the others alone.
LEMMA RowsReplaced ==
    ASSUME NEW p, NEW X, \A x \in X : x.path = p,
           rows' = (rows \ RowsOf(p)) \cup X
    PROVE  RowsOf(p)' = X /\ \A q : q # p => RowsOf(q)' = RowsOf(q)
  BY DEF RowsOf

\* The symbols of a content at p are rows at p.
LEMMA SymbolRowsPath == ASSUME NEW p, NEW c PROVE \A x \in SymbolRows(p, c) : x.path = p
  BY DEF SymbolRows

\* Every step keeps every unsuspected path in step with the store.
LEMMA SyncStep == TypeInv /\ SyncInv /\ [Next]_vars => SyncInv'
<1> SUFFICES ASSUME TypeInv, SyncInv, [Next]_vars,
                    NEW p \in Paths, p \notin tainted'
             PROVE  SyncOf(p)'
  BY DEF SyncInv
<1> USE DEF TypeInv, TypeOK
<1>0. p \notin tainted => SyncOf(p)
  BY DEF SyncInv
<1>1. ASSUME NEW r \in Reqs, Submit(r) \/ Reject(r) \/ UpdateNotOpen(r) \/ CloseNotOpen(r)
                              \/ ParserPanics(r) \/ ClearFails(r)
      PROVE SyncOf(p)'
  <2>1. UNCHANGED <<docs, rows, snap, todo, tainted>> /\ OthersRest(r)
    BY <1>1 DEF Submit, Reject, UpdateNotOpen, CloseNotOpen, ParserPanics, ClearFails,
                OthersRest, Goto
  <2>2. /\ pc[r] \in {"idle", "store", "clear"}
        /\ pc'[r] \in {"clear", "store", "err", "ok"}
    BY <1>1 DEF Submit, Reject, UpdateNotOpen, CloseNotOpen, ParserPanics, ClearFails, Goto
  <2> QED
    BY <1>0, <2>1, <2>2, SyncFrame DEF Holds, Owes, RowsOf
<1>2. ASSUME NEW r \in Reqs, StoreFails(r) PROVE SyncOf(p)'
  <2>1. UNCHANGED <<docs, rows, call, snap, todo>> /\ OthersRest(r) /\ pc'[r] = "err"
    BY <1>2 DEF StoreFails, OthersRest, Goto
  <2>2. p \notin tainted /\ ~Owes(r, p)
    BY <1>2 DEF StoreFails, Owes, Holds
  <2> QED
    BY <1>0, <2>1, <2>2, SyncFrame DEF Holds, Owes, RowsOf
<1>3. ASSUME NEW r \in Reqs, Write(r) PROVE SyncOf(p)'
  <2>1. /\ UNCHANGED <<rows, call, snap, todo>> /\ OthersRest(r)
        /\ pc[r] = "store" /\ pc'[r] = "snapshot"
        /\ call[r].path \in Paths /\ call[r].op # "build"
        /\ docs' = [docs EXCEPT ![call[r].path] = r]
        /\ tainted \subseteq tainted'
    BY <1>3 DEF Write, OthersRest, Goto, TaintIfHeld
  <2>2. CASE call[r].path = p
    <3>1. ~OtherHolds(r, p)
      BY <1>3, <2>2 DEF Write, TaintIfHeld
    <3>2. \A q \in Reqs : ~Holds(q, p)'
      BY <2>1, <3>1 DEF OtherHolds, Holds, OthersRest
    <3>3. docs'[p] = r /\ docs'[p] # Closed
      BY <2>1, <2>2, ClosedAssumption
    <3>4. Owes(r, p)'
      BY <2>1, <2>2 DEF Owes, Scope
    <3> QED
      BY <3>2, <3>3, <3>4 DEF SyncOf, Holds
  <2>3. CASE call[r].path # p
    <3>1. docs'[p] = docs[p] /\ RowsOf(p)' = RowsOf(p) /\ ~Owes(r, p) /\ ~Holds(r, p)'
      BY <2>1, <2>3 DEF RowsOf, Owes, Holds
    <3> QED
      BY <1>0, <2>1, <3>1, SyncFrame DEF Owes
  <2> QED
    BY <2>2, <2>3
<1>4. ASSUME NEW r \in Reqs, Close(r) PROVE SyncOf(p)'
  <2>1. /\ UNCHANGED <<rows, call, snap, todo>> /\ OthersRest(r)
        /\ pc[r] = "store" /\ pc'[r] = "remove"
        /\ call[r].path \in Paths
        /\ docs' = [docs EXCEPT ![call[r].path] = Closed]
        /\ tainted \subseteq tainted'
    BY <1>4 DEF Close, OthersRest, Goto, TaintIfHeld
  <2>2. CASE call[r].path = p
    <3>1. ~OtherHolds(r, p)
      BY <1>4, <2>2 DEF Close, TaintIfHeld
    <3>2. \A q \in Reqs : pc'[q] = "replace" => p \notin todo'[q]
      BY <2>1, <3>1 DEF OtherHolds, Holds, OthersRest
    <3>3. docs'[p] = Closed
      BY <2>1, <2>2
    <3>4. Holds(r, p)'
      BY <2>1, <2>2 DEF Holds
    <3> QED
      BY <3>2, <3>3, <3>4 DEF SyncOf
  <2>3. CASE call[r].path # p
    <3>1. docs'[p] = docs[p] /\ RowsOf(p)' = RowsOf(p) /\ ~Owes(r, p) /\ ~Holds(r, p)'
      BY <2>1, <2>3 DEF RowsOf, Owes, Holds
    <3> QED
      BY <1>0, <2>1, <3>1, SyncFrame DEF Owes
  <2> QED
    BY <2>2, <2>3
<1>5. ASSUME NEW r \in Reqs, Snapshot(r) PROVE SyncOf(p)'
  <2>1. /\ UNCHANGED <<docs, rows, call, tainted>> /\ OthersRest(r)
        /\ pc[r] = "snapshot" /\ pc'[r] \in {"ok", "replace"}
        /\ snap'[r] = docs
        /\ todo'[r] = {q \in Scope(r) : docs[q] # Closed}
        /\ todo'[r] # {} => pc'[r] = "replace"
    BY <1>5 DEF Snapshot, OthersRest, Goto
  <2>2. SyncOf(p) /\ SymbolRows(p, docs[p])' = SymbolRows(p, docs[p]) /\ RowsOf(p)' = RowsOf(p)
    BY <1>0, <2>1 DEF SymbolRows, RowsOf
  <2>3. \A q \in Reqs \ {r} : (Holds(q, p) <=> Holds(q, p)') /\ (Owes(q, p) <=> Owes(q, p)')
    BY <2>1 DEF Holds, Owes, OthersRest, Scope
  <2>4. docs[p] # Closed /\ Owes(r, p) => Owes(r, p)'
    BY <2>1 DEF Owes, Holds
  <2>5. \A q \in Reqs : pc'[q] = "replace" /\ p \in todo'[q] => snap'[q][p] = docs'[p] /\ docs'[p] # Closed
    BY <2>1, <2>2 DEF SyncOf, OthersRest
  <2>6. \A q \in Reqs : pc'[q] = "remove" /\ call'[q].path = p => docs'[p] = Closed
    BY <2>1, <2>2 DEF SyncOf, OthersRest
  <2>7. docs'[p] = Closed => RowsOf(p)' = {} \/ \E q \in Reqs : Holds(q, p)'
    BY <2>1, <2>2, <2>3 DEF SyncOf, Holds
  <2>8. docs'[p] # Closed => RowsOf(p)' = SymbolRows(p, docs[p])' \/ \E q \in Reqs : Owes(q, p)'
    BY <2>1, <2>2, <2>3, <2>4 DEF SyncOf
  <2> QED
    BY <2>5, <2>6, <2>7, <2>8 DEF SyncOf
<1>6. ASSUME NEW r \in Reqs, Replace(r) PROVE SyncOf(p)'
  <2>1. PICK w \in todo[r] :
          /\ rows' = (rows \ RowsOf(w)) \cup SymbolRows(w, snap[r][w])
          /\ todo' = [todo EXCEPT ![r] = @ \ {w}]
          /\ pc' = [pc EXCEPT ![r] = IF todo[r] = {w} THEN "ok" ELSE "replace"]
          /\ tainted' = IF docs[w] = snap[r][w] /\ ~OtherHolds(r, w)
                        THEN tainted \ {w} ELSE tainted
    BY <1>6 DEF Replace, Goto
  <2>2. UNCHANGED <<docs, call, snap>> /\ OthersRest(r) /\ pc[r] = "replace"
    BY <1>6, <2>1 DEF Replace, OthersRest
  <2>3. /\ RowsOf(w)' = SymbolRows(w, snap[r][w])
        /\ \A q : q # w => RowsOf(q)' = RowsOf(q)
    BY <2>1, SymbolRowsPath, RowsReplaced
  <2>4. CASE p # w
    BY <1>0, <2>1, <2>2, <2>3, <2>4, SyncFrame DEF Holds, Owes
  <2>5. CASE p = w /\ p \notin tainted
    <3>1. SyncOf(p) /\ snap[r][p] = docs[p] /\ docs[p] # Closed
      BY <1>0, <2>2, <2>5 DEF SyncOf
    <3>2. RowsOf(p)' = SymbolRows(p, docs[p])' /\ docs'[p] # Closed
      BY <2>2, <2>3, <2>5, <3>1 DEF SymbolRows
    <3>3. \A q \in Reqs : pc'[q] = "replace" /\ p \in todo'[q] => snap'[q][p] = docs'[p]
      BY <2>1, <2>2, <2>5, <3>1 DEF SyncOf, OthersRest
    <3>4. \A q \in Reqs : ~(pc'[q] = "remove" /\ call'[q].path = p)
      BY <2>1, <2>2, <3>1 DEF SyncOf, OthersRest
    <3> QED
      BY <3>2, <3>3, <3>4 DEF SyncOf
  <2>6. CASE p = w /\ p \in tainted
    <3>1. docs[p] = snap[r][p] /\ ~OtherHolds(r, p)
      BY <2>1, <2>6
    <3>2. \A q \in Reqs : ~Holds(q, p)'
      BY <2>1, <2>2, <2>6, <3>1 DEF OtherHolds, Holds, OthersRest
    <3>3. RowsOf(p)' = SymbolRows(p, docs[p])'
      BY <2>2, <2>3, <2>6, <3>1 DEF SymbolRows
    <3> QED
      BY <3>2, <3>3 DEF SyncOf, Holds, SymbolRows
  <2> QED
    BY <2>4, <2>5, <2>6
<1>7. ASSUME NEW r \in Reqs, ReplaceFails(r) PROVE SyncOf(p)'
  <2>1. /\ UNCHANGED <<docs, call, snap, todo>> /\ OthersRest(r)
        /\ pc[r] = "replace" /\ pc'[r] = "err"
        /\ p \notin tainted /\ p \notin todo[r]
    BY <1>7 DEF ReplaceFails, OthersRest, Goto
  <2>2. RowsOf(p)' = RowsOf(p)
    <3>1. CASE rows' = rows
      BY <3>1 DEF RowsOf
    <3>2. CASE StopsHalfWay(r)
      BY <2>1, <3>2, StopsAt
    <3> QED
      BY <1>7, <3>1, <3>2 DEF ReplaceFails
  <2> QED
    BY <1>0, <2>1, <2>2, SyncFrame DEF Holds, Owes
<1>8. ASSUME NEW r \in Reqs, Remove(r) PROVE SyncOf(p)'
  <2>1. /\ UNCHANGED <<docs, call, snap, todo>> /\ OthersRest(r)
        /\ pc[r] = "remove" /\ pc'[r] = "ok"
        /\ rows' = rows \ RowsOf(call[r].path)
        /\ tainted' = IF docs[call[r].path] = Closed /\ ~OtherHolds(r, call[r].path)
                      THEN tainted \ {call[r].path} ELSE tainted
    BY <1>8 DEF Remove, OthersRest, Goto
  <2>2. CASE call[r].path # p
    BY <1>0, <2>1, <2>2, SyncFrame DEF Holds, Owes, RowsOf
  <2>3. CASE call[r].path = p
    <3>1. docs[p] = Closed
      BY <1>0, <2>1, <2>3 DEF SyncOf
    <3>2. RowsOf(p)' = {} /\ docs'[p] = Closed
      BY <2>1, <2>3, <3>1 DEF RowsOf
    <3>3. \A q \in Reqs : ~(pc'[q] = "replace" /\ p \in todo'[q])
      BY <1>0, <2>1, <2>3, <3>1 DEF SyncOf, OtherHolds, Holds, OthersRest
    <3> QED
      BY <3>2, <3>3 DEF SyncOf
  <2> QED
    BY <2>2, <2>3
<1>9. ASSUME NEW r \in Reqs, RemoveFails(r) PROVE SyncOf(p)'
  <2>1. /\ UNCHANGED <<docs, rows, call, snap, todo>> /\ OthersRest(r)
        /\ pc[r] = "remove" /\ pc'[r] = "err"
        /\ p \notin tainted /\ p # call[r].path
    BY <1>9 DEF RemoveFails, OthersRest, Goto
  <2> QED
    BY <1>0, <2>1, SyncFrame DEF Holds, Owes, RowsOf
<1>10. ASSUME NEW r \in Reqs, Clear(r) PROVE SyncOf(p)'
  <2>1. /\ UNCHANGED <<docs, call, snap, todo>> /\ OthersRest(r)
        /\ pc[r] = "clear" /\ pc'[r] = "snapshot" /\ rows' = {}
        /\ tainted' = {q \in tainted : docs[q] # Closed \/ OtherHolds(r, q)}
    BY <1>10 DEF Clear, OthersRest, Goto
  <2>2. RowsOf(p)' = {} /\ call[r] \in Calls
    BY <2>1 DEF RowsOf, Working
  <2>3. \A q \in Reqs : pc'[q] = "replace" /\ p \in todo'[q] => snap'[q][p] = docs'[p] /\ docs'[p] # Closed
    BY <1>0, <2>1 DEF SyncOf, OtherHolds, Holds, OthersRest
  <2>4. \A q \in Reqs : pc'[q] = "remove" /\ call'[q].path = p => docs'[p] = Closed
    BY <1>0, <2>1 DEF SyncOf, OtherHolds, Holds, OthersRest
  <2>5. Owes(r, p)'
    BY <2>1 DEF Owes, Scope
  <2> QED
    BY <2>2, <2>3, <2>4, <2>5 DEF SyncOf
<1>11. ASSUME CrashRestart PROVE SyncOf(p)'
  <2>1. RowsOf(p)' = {}
    BY <1>11 DEF CrashRestart, RowsOf
  <2>2. docs'[p] = Closed
    BY <1>11 DEF CrashRestart, NoDocs
  <2>3. \A r \in Reqs : pc'[r] # "replace" /\ pc'[r] # "remove"
    BY <1>11 DEF CrashRestart, Working
  <2> QED
    BY <2>1, <2>2, <2>3 DEF SyncOf
<1>12. ASSUME UNCHANGED vars PROVE SyncOf(p)'
  BY <1>0, <1>12 DEF vars, SyncOf, Holds, Owes, Scope, RowsOf, SymbolRows
<1> QED
  BY <1>1, <1>2, <1>3, <1>4, <1>5, <1>6, <1>7, <1>8, <1>9, <1>10, <1>11, <1>12
     DEF Next, Step

\* The symbol table follows the document store at every path that no store
\* write, failure or restart has made suspect, whatever requests overlap
\* (tools/lsp.rs open, update, close and build_index over lsp/mod.rs).
THEOREM TableFollowsStore == Spec => []IndexFollowsStore
<1>1. Init => SyncInv
  BY DEF Init, SyncInv, SyncOf, NoDocs, RowsOf, SymbolRows
<1>2. TypeInv /\ SyncInv => IndexFollowsStore
  <2> SUFFICES ASSUME TypeInv, SyncInv, NEW p \in Paths \ tainted, \A r \in Reqs : ~Owes(r, p)
               PROVE  RowsOf(p) = SymbolRows(p, docs[p])
    BY DEF IndexFollowsStore
  <2>1. SyncOf(p)
    BY DEF SyncInv
  <2>2. \A r \in Reqs : ~Holds(r, p)
    BY DEF Owes
  <2> QED
    BY <2>1, <2>2 DEF SyncOf, SymbolRows
<1> QED
  BY <1>1, <1>2, InitTyped, TypeStep, SyncStep, PTL DEF Spec

-----------------------------------------------------------------------------
(* What a replacement leaves *)

\* Where the rows of a path do not change, it stays whole.
LEMMA WholeFrame ==
    ASSUME NEW p \in Paths, RowsOf(p)' = RowsOf(p),
           \E c \in Contents : RowsOf(p) = SymbolRows(p, c)
    PROVE  (\E c \in Contents : RowsOf(p) = SymbolRows(p, c))'
  BY DEF SymbolRows

\* Every statement on the table keeps the paths that were not cut whole.
LEMMA WholeStep == TypeInv /\ NothingMissing /\ [Next]_vars => NothingMissing'
<1> SUFFICES ASSUME TypeInv, NothingMissing, [Next]_vars, NEW p \in Paths \ cut'
             PROVE  (\E c \in Contents : RowsOf(p) = SymbolRows(p, c))'
  BY DEF NothingMissing
<1> USE DEF TypeInv, TypeOK
<1>1. CASE UNCHANGED <<rows, cut>>
  BY <1>1, WholeFrame DEF NothingMissing, RowsOf
<1>2. ASSUME NEW r \in Reqs, Replace(r)
      PROVE  (\E c \in Contents : RowsOf(p) = SymbolRows(p, c))'
  <2>1. PICK w \in todo[r] : /\ rows' = (rows \ RowsOf(w)) \cup SymbolRows(w, snap[r][w])
                             /\ cut' = cut \ {w}
    BY <1>2 DEF Replace
  <2>2. /\ RowsOf(w)' = SymbolRows(w, snap[r][w])
        /\ \A q : q # w => RowsOf(q)' = RowsOf(q)
    BY <2>1, SymbolRowsPath, RowsReplaced
  <2>3. w \in Paths /\ snap[r][w] \in Contents
    BY <2>1
  <2> QED
    BY <2>1, <2>2, <2>3, WholeFrame DEF NothingMissing, SymbolRows
<1>3. ASSUME NEW r \in Reqs, StopsHalfWay(r)
      PROVE  (\E c \in Contents : RowsOf(p) = SymbolRows(p, c))'
  BY <1>3, StopsAt, WholeFrame DEF NothingMissing
<1>4. ASSUME NEW r \in Reqs, Remove(r) \/ Clear(r)
      PROVE  (\E c \in Contents : RowsOf(p) = SymbolRows(p, c))'
  <2>1. RowsOf(p)' = {} \/ (RowsOf(p)' = RowsOf(p) /\ p \notin cut)
    BY <1>4 DEF Remove, Clear, RowsOf
  <2>2. SymbolRows(p, Closed)' = {} /\ Closed \in Contents
    BY DEF SymbolRows, Contents
  <2> QED
    BY <2>1, <2>2, WholeFrame DEF NothingMissing, Contents
<1>5. Next => \/ UNCHANGED <<rows, cut>>
              \/ \E r \in Reqs : Replace(r) \/ Remove(r) \/ Clear(r) \/ StopsHalfWay(r)
  BY DEF Next, Step, Submit, Reject, Write, UpdateNotOpen, Close, CloseNotOpen, ParserPanics,
         StoreFails, Snapshot, ReplaceFails, RemoveFails, ClearFails, CrashRestart
<1> QED
  BY <1>1, <1>2, <1>3, <1>4, <1>5 DEF vars

\* No statement mixes two contents at a path.
LEMMA OneContentStep == TypeInv /\ OneContentPerPath /\ [Next]_vars => OneContentPerPath'
<1> SUFFICES ASSUME TypeInv, OneContentPerPath, [Next]_vars PROVE OneContentPerPath'
  OBVIOUS
<1> USE DEF TypeInv, TypeOK
<1>1. CASE rows' \subseteq rows
  BY <1>1 DEF OneContentPerPath
<1>2. ASSUME NEW r \in Reqs, NEW w \in todo[r], NEW X \in SUBSET SymbolRows(w, snap[r][w]),
             rows' = (rows \ RowsOf(w)) \cup X
      PROVE  OneContentPerPath'
  BY <1>2 DEF OneContentPerPath, RowsOf, SymbolRows
<1>3. Next => \/ rows' \subseteq rows
              \/ \E r \in Reqs : Replace(r) \/ StopsHalfWay(r)
  BY DEF Next, Step, Submit, Reject, Write, UpdateNotOpen, Close, CloseNotOpen, ParserPanics,
         StoreFails, Snapshot, ReplaceFails, Remove, RemoveFails, Clear, ClearFails, CrashRestart
<1>4. ASSUME NEW r \in Reqs, Replace(r) PROVE OneContentPerPath'
  BY <1>2, <1>4 DEF Replace
<1>5. ASSUME NEW r \in Reqs, StopsHalfWay(r) PROVE OneContentPerPath'
  BY <1>2, <1>5, StopsAt
<1> QED
  BY <1>1, <1>3, <1>4, <1>5 DEF vars

\* Whatever passes whatever, the rows of a path are symbols of one content, and
\* all of them unless its last replacement stopped half way:
\* replace_document_symbols holds the connection from its DELETE to its last
\* INSERT, and neither a failed statement nor the end of the process between two
\* of them leaves two contents at a path.
THEOREM RowsAreWhole == Spec => []WholeReplacement
<1>1. Init => OneContentPerPath /\ NothingMissing
  BY DEF Init, OneContentPerPath, NothingMissing, RowsOf, SymbolRows, Contents
<1>2. OneContentPerPath /\ NothingMissing => WholeReplacement
  BY DEF WholeReplacement
<1> QED
  BY <1>1, <1>2, InitTyped, TypeStep, OneContentStep, WholeStep, PTL DEF Spec

-----------------------------------------------------------------------------
(* Queries beside the writers *)

\* A step of the whole system is a step of the store and the table, leaves
\* them alone, or is a statement that fails.
LEMMA StoreSteps ==
    [NavNext]_allVars =>
        \/ [Next]_vars
        \/ Fault /\ UNCHANGED <<docs, poisoned, rows, call, pc, snap, todo, tainted, cut>>
<1> SUFFICES ASSUME [NavNext]_allVars
             PROVE  \/ [Next]_vars
                    \/ Fault /\ UNCHANGED <<docs, poisoned, rows, call, pc, snap, todo, tainted, cut>>
  OBVIOUS
<1>1. ASSUME NEW r \in Reqs, Writer(r) PROVE Next
  BY <1>1 DEF Writer, Next
<1>2. ASSUME CrashWithQueries PROVE Next
  BY <1>2 DEF CrashWithQueries, Next
<1>3. ASSUME NEW q \in Asks, Query(q), ~TableFails(q) PROVE vars' = vars
  BY <1>3 DEF Query, Ask, RejectAsk, GotoDefinition, FindReferences, WorkspaceSymbols,
              AskHover, AskDiagnostics, ReadWord, Complete, ReadFails
<1>4. ASSUME NEW q \in Asks, TableFails(q)
      PROVE  Fault /\ UNCHANGED <<docs, poisoned, rows, call, pc, snap, todo, tainted, cut>>
  BY <1>4 DEF TableFails
<1>5. UNCHANGED allVars => UNCHANGED vars
  BY DEF allVars
<1> QED
  BY <1>1, <1>2, <1>3, <1>4, <1>5 DEF NavNext

\* The types and the agreement of store and table survive queries.
LEMMA QueriesDisturbNothing ==
    TypeInv /\ SyncInv /\ [NavNext]_allVars => TypeInv' /\ SyncInv'
<1> SUFFICES ASSUME TypeInv, SyncInv, [NavNext]_allVars PROVE TypeInv' /\ SyncInv'
  OBVIOUS
<1>1. CASE [Next]_vars
  BY <1>1, TypeStep, SyncStep
<1>2. CASE Fault /\ UNCHANGED <<docs, poisoned, rows, call, pc, snap, todo, tainted, cut>>
  <2>1. faults' \in 0 .. MaxFaults /\ crashes' \in 0 .. MaxCrashes
    BY <1>2, LimitAssumption DEF Fault, TypeInv, TypeOK
  <2>2. TypeInv'
    BY <1>2, <2>1 DEF TypeInv, TypeOK, Scope
  <2>3. SyncInv'
    BY <1>2 DEF SyncInv, SyncOf, Holds, Owes, Scope, RowsOf, SymbolRows
  <2> QED
    BY <2>2, <2>3
<1> QED
  BY <1>1, <1>2, StoreSteps

\* Each query has its own call, step and answer.
Shape == DOMAIN ask = Asks /\ DOMAIN step = Asks /\ DOMAIN reply = Asks

\* No step of the system touches the answers of other queries.
LEMMA ShapeStep == Shape /\ [NavNext]_allVars => Shape'
<1> SUFFICES ASSUME Shape, [NavNext]_allVars PROVE Shape'
  OBVIOUS
<1>1. ASSUME NEW q \in Asks, Query(q) PROVE Shape'
  BY <1>1 DEF Query, Ask, RejectAsk, GotoDefinition, FindReferences, WorkspaceSymbols,
              AskHover, AskDiagnostics, ReadWord, Complete, TableFails, ReadFails, Answer, Shape
<1> QED
  BY <1>1 DEF NavNext, Writer, CrashWithQueries, Shape, allVars, navVars

\* The shape is there from the start.
LEMMA InitShaped == NavInit => Shape
  BY DEF NavInit, Shape

-----------------------------------------------------------------------------
(* A location is of the open content *)

\* At a settled path the rows are of the content that is open.
LEMMA SettledRows ==
    ASSUME TypeInv, SyncInv, NEW x \in rows, Settled(x.path)
    PROVE  x.of = docs[x.path]
<1> DEFINE p == x.path
<1>1. x \in Rows
  BY DEF TypeInv, TypeOK
<1>2. p \in Paths \ tainted
  BY <1>1 DEF Rows, Settled
<1>3. SyncOf(p) /\ \A r \in Reqs : ~Owes(r, p) /\ ~Holds(r, p)
  BY <1>2 DEF SyncInv, Settled, Owes
<1>4. x \in RowsOf(p)
  BY DEF RowsOf
<1>5. x \in SymbolRows(p, docs[p])
  BY <1>3, <1>4 DEF SyncOf
<1> QED
  BY <1>5 DEF SymbolRows

\* What a query on the table answers are rows of the table.
LEMMA AnswersAreRows ==
    ASSUME Shape, [NavNext]_allVars, NEW d \in Asks, step[d] = "read", step'[d] = "done",
           ask[d].op \in {"definition", "references", "workspace"}
    PROVE  IF ask[d].op = "definition" THEN \A i \in DOMAIN reply'[d] : reply'[d][i] \in rows
           ELSE \A i \in DOMAIN reply'[d] : reply'[d][i] \subseteq rows
<1> USE DEF Shape
<1>1. CASE GotoDefinition(d)
  <2>1. reply'[d] = <<>> \/ \E y \in rows : reply'[d] = <<y>>
    BY <1>1 DEF GotoDefinition, Answer, FirstMatch, Named
  <2> QED
    BY <1>1, <2>1 DEF GotoDefinition
<1>2. CASE FindReferences(d)
  <2>1. reply'[d] = <<>> \/ \E S \in SUBSET rows : reply'[d] = <<S>>
    BY <1>2 DEF FindReferences, Answer, Named
  <2> QED
    BY <1>2, <2>1 DEF FindReferences
<1>3. CASE WorkspaceSymbols(d)
  <2>1. \E S \in SUBSET rows : reply'[d] = <<S>>
    BY <1>3 DEF WorkspaceSymbols, Answer
  <2> QED
    BY <1>3, <2>1 DEF WorkspaceSymbols
<1>4. ASSUME NEW q \in Asks, Query(q)
      PROVE  q = d /\ (GotoDefinition(d) \/ FindReferences(d) \/ WorkspaceSymbols(d))
  BY <1>4 DEF Query, Ask, RejectAsk, GotoDefinition, FindReferences, WorkspaceSymbols,
              AskHover, AskDiagnostics, ReadWord, Complete, TableFails, ReadFails, Answer
<1>5. ~((\E r \in Reqs : Writer(r)) \/ CrashWithQueries \/ UNCHANGED allVars)
  BY DEF Writer, CrashWithQueries, allVars, navVars
<1> QED
  BY <1>1, <1>2, <1>3, <1>4, <1>5 DEF NavNext

\* A location that a query answers is of the open content wherever no writer
\* was passed, failed or is at work (lsp/mod.rs, resolution.rs).
THEOREM LocationsAreCurrent == NavSpec => NavigationIsCurrent
<1>1. NavInit => TypeInv /\ SyncInv
  <2>1. NavInit => Init
    BY DEF NavInit
  <2>2. Init => SyncInv
    BY DEF Init, SyncInv, SyncOf, NoDocs, RowsOf, SymbolRows
  <2> QED
    BY <2>1, <2>2, InitTyped
<1>2. NavSpec => [](TypeInv /\ SyncInv /\ Shape)
  BY <1>1, InitShaped, ShapeStep, QueriesDisturbNothing, PTL DEF NavSpec
<1>3. ASSUME TypeInv, SyncInv, Shape, [NavNext]_allVars
      PROVE  \A q \in Asks :
               step[q] = "read" /\ step'[q] = "done"
                 /\ ask[q].op \in {"definition", "references", "workspace"} =>
                   \A x \in IF ask[q].op = "definition" THEN {reply'[q][i] : i \in DOMAIN reply'[q]}
                            ELSE UNION {reply'[q][i] : i \in DOMAIN reply'[q]} :
                       Settled(x.path) => x.of = docs[x.path]
  <2> SUFFICES ASSUME NEW q \in Asks, step[q] = "read", step'[q] = "done",
                      ask[q].op \in {"definition", "references", "workspace"},
                      NEW x \in IF ask[q].op = "definition" THEN {reply'[q][i] : i \in DOMAIN reply'[q]}
                                ELSE UNION {reply'[q][i] : i \in DOMAIN reply'[q]},
                      Settled(x.path)
               PROVE  x.of = docs[x.path]
    OBVIOUS
  <2>1. x \in rows
    BY <1>3, AnswersAreRows
  <2> QED
    BY <1>3, <2>1, SettledRows
<1> QED
  BY <1>2, <1>3, PTL DEF NavSpec, NavigationIsCurrent

-----------------------------------------------------------------------------
(* A hover and a definition speak of one symbol *)

\* The first of the smallest symbols around a line is one of the smallest.
LEMMA SmallestOf ==
    ASSUME NEW s, NEW n \in Nat, DOMAIN s = 1 .. n, \A i \in 1 .. n : HasLines(s[i]), NEW line
    PROVE  /\ (\A i \in 1 .. n : ~ Covers(s[i], line)) => FirstSmallest(s, line) = NoSymbol
           /\ (\E i \in 1 .. n : Covers(s[i], line)) =>
                \E i \in 1 .. n : /\ FirstSmallest(s, line) = s[i] /\ Covers(s[i], line)
                                  /\ \A j \in 1 .. n : Covers(s[j], line) => Span(s[i]) <= Span(s[j])
<1> DEFINE around == {i \in DOMAIN s : Covers(s[i], line)}
           Good(i) == \A j \in around : /\ Span(s[i]) <= Span(s[j])
                                        /\ Span(s[i]) = Span(s[j]) => i <= j
<1>1. FirstSmallest(s, line) = IF around = {} THEN NoSymbol ELSE s[CHOOSE i \in around : Good(i)]
  BY DEF FirstSmallest
<1>2. \A i \in 1 .. n : Span(s[i]) \in Nat
  BY DEF HasLines, Span
<1>3. ASSUME around # {} PROVE \E i \in around : Good(i)
  <2> DEFINE Spans == {Span(s[i]) : i \in around}
  <2>1. Spans \in SUBSET Nat /\ Spans # {}
    BY <1>2, <1>3
  <2>2. PICK x \in Spans : \A y \in Spans : x <= y
    BY <2>1, LeastNumber
  <2> DEFINE Least == {i \in around : Span(s[i]) = x}
  <2>3. Least \in SUBSET Nat /\ Least # {}
    BY <2>2
  <2>4. PICK i \in Least : \A j \in Least : i <= j
    BY <2>3, LeastNumber
  <2>5. i \in around /\ Good(i)
    BY <2>2, <2>4
  <2> QED
    BY <2>5
<1>4. around = {} <=> \A i \in 1 .. n : ~ Covers(s[i], line)
  OBVIOUS
<1>5. ASSUME around # {}
      PROVE  \E i \in around : FirstSmallest(s, line) = s[i] /\ Good(i)
  BY <1>1, <1>3, <1>5
<1>6. CASE around = {}
  BY <1>1, <1>4, <1>6
<1>7. CASE around # {}
  <2>1. PICK i \in around : FirstSmallest(s, line) = s[i] /\ Good(i)
    BY <1>5, <1>7
  <2>2. i \in 1 .. n /\ Covers(s[i], line)
    OBVIOUS
  <2>3. \A j \in 1 .. n : Covers(s[j], line) => Span(s[i]) <= Span(s[j])
    BY <2>1
  <2> HIDE DEF around, Good
  <2> QED
    BY <1>4, <1>7, <2>1, <2>2, <2>3
<1> QED
  BY <1>6, <1>7

\* One turn of the loop of find_symbol_at, for what it has found so far.
BestStep(symbols, line, best) ==
    [i \in 0 .. Len(symbols) |->
       IF i = 0 THEN NoSymbol
       ELSE IF ~Covers(symbols[i], line) THEN best[i - 1]
       ELSE IF FirstSmallest(symbols[i].children, line) # NoSymbol
       THEN FirstSmallest(symbols[i].children, line)
       ELSE IF best[i - 1] = NoSymbol \/ Span(symbols[i]) < Span(best[i - 1]) THEN symbols[i]
       ELSE best[i - 1]]

\* The loop finds what any function that takes these turns ends with.
LEMMA BestIs ==
    ASSUME NEW s, Len(s) \in Nat, NEW line, NEW h, h = BestStep(s, line, h)
    PROVE  FindSymbolAt(s, line) = h[Len(s)]
<1> DEFINE n == Len(s)
           U == CHOOSE f : f = BestStep(s, line, f)
           T == {k \in Nat : k <= n => U[k] = h[k]}
<1>1. FindSymbolAt(s, line) = U[n]
  BY DEF FindSymbolAt, BestStep
<1>2. U = BestStep(s, line, U)
  OBVIOUS
<1> HIDE DEF U, n
<1>3. n \in Nat
  BY DEF n
<1>4. \A f : \A k \in 0 .. n : BestStep(s, line, f)[k] =
         IF k = 0 THEN NoSymbol
         ELSE IF ~Covers(s[k], line) THEN f[k - 1]
         ELSE IF FirstSmallest(s[k].children, line) # NoSymbol
         THEN FirstSmallest(s[k].children, line)
         ELSE IF f[k - 1] = NoSymbol \/ Span(s[k]) < Span(f[k - 1]) THEN s[k]
         ELSE f[k - 1]
  BY DEF BestStep, n
<1>5. 0 \in T
  BY <1>2, <1>3, <1>4
<1>6. ASSUME NEW k \in Nat, k \in T PROVE k + 1 \in T
  <2> SUFFICES ASSUME k + 1 <= n PROVE U[k + 1] = h[k + 1]
    OBVIOUS
  <2>1. k + 1 \in 0 .. n /\ (k + 1) - 1 = k /\ U[k] = h[k]
    BY <1>3, <1>6
  <2>2. BestStep(s, line, U)[k + 1] = BestStep(s, line, h)[k + 1]
    BY <1>4, <2>1
  <2> QED
    BY <1>2, <2>2
<1>7. n \in T
  <2> HIDE DEF T
  <2> QED
    BY <1>3, <1>5, <1>6, AllNumbers
<1> QED
  BY <1>1, <1>3, <1>7 DEF n

\* Where no two symbols of the top level share the line, the loop finds the one that is
\* there, or the smallest of its children that is.
LEMMA OneIsFound ==
    ASSUME NEW s, NEW n \in Nat, DOMAIN s = 1 .. n, Len(s) = n, NEW line,
           \A i, j \in 1 .. n : Covers(s[i], line) /\ Covers(s[j], line) => i = j
    PROVE  /\ (\A i \in 1 .. n : ~ Covers(s[i], line)) => FindSymbolAt(s, line) = NoSymbol
           /\ \A i \in 1 .. n : Covers(s[i], line) =>
                FindSymbolAt(s, line) =
                  IF FirstSmallest(s[i].children, line) # NoSymbol
                  THEN FirstSmallest(s[i].children, line) ELSE s[i]
<1>1. ASSUME \A i \in 1 .. n : ~ Covers(s[i], line) PROVE FindSymbolAt(s, line) = NoSymbol
  <2> DEFINE h == [i \in 0 .. n |-> NoSymbol]
  <2>1. h = BestStep(s, line, h)
    <3>1. ASSUME NEW i \in 0 .. n PROVE h[i] = BestStep(s, line, h)[i]
      <4>1. CASE i = 0
        BY <4>1 DEF BestStep
      <4>2. CASE i # 0
        <5>1. i \in 1 .. n /\ i - 1 \in 0 .. n
          BY <4>2
        <5> QED
          BY <1>1, <5>1 DEF BestStep
      <4> QED
        BY <4>1, <4>2
    <3>2. BestStep(s, line, h) = [i \in 0 .. n |-> BestStep(s, line, h)[i]]
      BY DEF BestStep
    <3> QED
      BY <3>1, <3>2
  <2>2. h[n] = NoSymbol
    OBVIOUS
  <2> HIDE DEF h
  <2> QED
    BY <2>1, <2>2, BestIs
<1>2. ASSUME NEW c \in 1 .. n, Covers(s[c], line)
      PROVE  FindSymbolAt(s, line) = IF FirstSmallest(s[c].children, line) # NoSymbol
                                     THEN FirstSmallest(s[c].children, line) ELSE s[c]
  <2> DEFINE R == IF FirstSmallest(s[c].children, line) # NoSymbol
                  THEN FirstSmallest(s[c].children, line) ELSE s[c]
             h == [i \in 0 .. n |-> IF i < c THEN NoSymbol ELSE R]
  <2> HIDE DEF R
  <2>1. h = BestStep(s, line, h)
    <3>1. ASSUME NEW i \in 0 .. n PROVE h[i] = BestStep(s, line, h)[i]
      <4>1. CASE i = 0
        BY <4>1 DEF BestStep
      <4>2. CASE i # 0 /\ i # c
        <5>1. i \in 1 .. n /\ i - 1 \in 0 .. n /\ ~ Covers(s[i], line)
          BY <1>2, <4>2
        <5>2. BestStep(s, line, h)[i] = h[i - 1]
          BY <5>1 DEF BestStep
        <5>3. i < c <=> i - 1 < c
          BY <4>2
        <5> QED
          BY <5>1, <5>2, <5>3
      <4>3. CASE i = c
        <5>1. i - 1 \in 0 .. n /\ h[i - 1] = NoSymbol /\ h[i] = R
          BY <4>3
        <5>2. BestStep(s, line, h)[i] = R
          BY <1>2, <4>3, <5>1 DEF BestStep, R
        <5> QED
          BY <5>1, <5>2
      <4> QED
        BY <4>1, <4>2, <4>3
    <3>2. BestStep(s, line, h) = [i \in 0 .. n |-> BestStep(s, line, h)[i]]
      BY DEF BestStep
    <3> QED
      BY <3>1, <3>2
  <2>2. h[n] = R
    OBVIOUS
  <2> HIDE DEF h
  <2>3. FindSymbolAt(s, line) = R
    BY <2>1, <2>2, BestIs
  <2> QED
    BY <2>3 DEF R
<1> QED
  BY <1>1, <1>2

\* Of nested symbols of which at most one of the top level is at the line, the loop finds
\* one of the smallest of all rows that are.
LEMMA NarrowestIsFound ==
    ASSUME NEW found, NEW all, Nested(found), RowsOfFound(all, found), NEW line \in Nat,
           \A i, j \in DOMAIN found : Covers(found[i], line) /\ Covers(found[j], line) => i = j
    PROVE  IF \A j \in DOMAIN all : ~ Covers(all[j], line)
           THEN FindSymbolAt(found, line) = NoSymbol
           ELSE \E j \in DOMAIN all :
                  /\ all[j] = FindSymbolAt(found, line) /\ Covers(all[j], line)
                  /\ \A k \in DOMAIN all : Covers(all[k], line) => Span(all[j]) <= Span(all[k])
<1>1. PICK n \in Nat : DOMAIN found = 1 .. n /\ Len(found) = n
  BY DEF Nested
<1>2. ASSUME NEW i \in 1 .. n
      PROVE  /\ HasLines(found[i])
             /\ \E k \in Nat : DOMAIN found[i].children = 1 .. k
             /\ \A j \in DOMAIN found[i].children :
                  /\ HasLines(found[i].children[j])
                  /\ Covers(found[i].children[j], line) => Covers(found[i], line)
                  /\ Span(found[i].children[j]) <= Span(found[i])
  <2>1. /\ HasLines(found[i])
        /\ \E k \in Nat : DOMAIN found[i].children = 1 .. k
        /\ \A j \in DOMAIN found[i].children :
             /\ HasLines(found[i].children[j])
             /\ found[i].first <= found[i].children[j].first
             /\ found[i].children[j].last <= found[i].last
    BY <1>1 DEF Nested
  <2>2. ASSUME NEW j \in DOMAIN found[i].children
        PROVE  /\ Covers(found[i].children[j], line) => Covers(found[i], line)
               /\ Span(found[i].children[j]) <= Span(found[i])
    <3> DEFINE s == found[i]
               k == found[i].children[j]
    <3>1. /\ s.first \in Nat /\ s.last \in Nat /\ k.first \in Nat /\ k.last \in Nat
          /\ s.first <= k.first /\ k.last <= s.last
      BY <2>1, <2>2 DEF HasLines
    <3> HIDE DEF s, k
    <3>2. Covers(k, line) => Covers(s, line)
      BY <3>1 DEF Covers
    <3>3. Span(k) <= Span(s)
      BY <3>1 DEF Span
    <3> QED
      BY <3>2, <3>3 DEF s, k
  <2> QED
    BY <2>1, <2>2
<1>3. \A j \in DOMAIN all : \E i \in 1 .. n :
         \/ all[j] = found[i]
         \/ \E k \in DOMAIN found[i].children : all[j] = found[i].children[k]
  <2>1. \A j \in DOMAIN all : \E i \in DOMAIN found :
           \/ all[j] = found[i]
           \/ \E k \in DOMAIN found[i].children : all[j] = found[i].children[k]
    BY DEF RowsOfFound
  <2> QED
    BY <1>1, <2>1
<1>4. ASSUME NEW i \in 1 .. n
      PROVE  /\ \E j \in DOMAIN all : all[j] = found[i]
             /\ \A k \in DOMAIN found[i].children : \E j \in DOMAIN all : all[j] = found[i].children[k]
  BY <1>1 DEF RowsOfFound
<1>5. CASE \A i \in 1 .. n : ~ Covers(found[i], line)
  <2>1. FindSymbolAt(found, line) = NoSymbol
    BY <1>1, <1>5, OneIsFound
  <2>2. ASSUME NEW j \in DOMAIN all PROVE ~ Covers(all[j], line)
    BY <1>2, <1>3, <1>5
  <2> QED
    BY <2>1, <2>2
<1>6. ASSUME NEW c \in 1 .. n, Covers(found[c], line)
      PROVE  \E j \in DOMAIN all :
               /\ all[j] = FindSymbolAt(found, line) /\ Covers(all[j], line)
               /\ \A k \in DOMAIN all : Covers(all[k], line) => Span(all[j]) <= Span(all[k])
  <2> DEFINE kids == found[c].children
             kid == FirstSmallest(kids, line)
  <2>1. PICK m \in Nat : DOMAIN kids = 1 .. m
    BY <1>2
  <2>2. \A i \in 1 .. m : HasLines(kids[i]) /\ Span(kids[i]) <= Span(found[c])
    BY <1>2, <2>1
  <2>3. FindSymbolAt(found, line) = IF kid # NoSymbol THEN kid ELSE found[c]
    BY <1>1, <1>6, OneIsFound
  <2>4. ASSUME NEW k \in DOMAIN all, Covers(all[k], line)
        PROVE  all[k] = found[c] \/ \E i \in 1 .. m : all[k] = kids[i]
    <3>1. PICK i \in 1 .. n :
             \/ all[k] = found[i]
             \/ \E x \in DOMAIN found[i].children : all[k] = found[i].children[x]
      BY <1>3
    <3>2. Covers(found[i], line)
      BY <1>2, <2>4, <3>1
    <3>3. i = c
      BY <1>1, <1>6, <3>2
    <3> QED
      BY <2>1, <3>1, <3>3
  <2>5. HasLines(found[c]) /\ Span(found[c]) \in Nat /\ \A i \in 1 .. m : Span(kids[i]) \in Nat
    <3>1. \A s : HasLines(s) => Span(s) \in Nat
      BY DEF HasLines, Span
    <3> QED
      BY <1>2, <2>2, <3>1
  <2>6. /\ (\A i \in 1 .. m : ~ Covers(kids[i], line)) => kid = NoSymbol
        /\ (\E i \in 1 .. m : Covers(kids[i], line)) =>
             \E i \in 1 .. m : /\ kid = kids[i] /\ Covers(kids[i], line)
                               /\ \A j \in 1 .. m : Covers(kids[j], line) => Span(kids[i]) <= Span(kids[j])
    <3> HIDE DEF kids
    <3> QED
      BY <2>1, <2>2, SmallestOf
  <2>7. CASE \A i \in 1 .. m : ~ Covers(kids[i], line)
    <3>1. FindSymbolAt(found, line) = found[c]
      BY <2>3, <2>6, <2>7
    <3>2. PICK j \in DOMAIN all : all[j] = found[c]
      BY <1>4
    <3>3. \A k \in DOMAIN all : Covers(all[k], line) => all[k] = found[c]
      BY <2>4, <2>7
    <3> HIDE DEF kids, kid
    <3> QED
      BY <1>6, <2>5, <3>1, <3>2, <3>3
  <2>8. CASE \E i \in 1 .. m : Covers(kids[i], line)
    <3>1. PICK i \in 1 .. m : /\ kid = kids[i] /\ Covers(kids[i], line)
                              /\ \A j \in 1 .. m : Covers(kids[j], line) => Span(kids[i]) <= Span(kids[j])
      BY <2>6, <2>8
    <3>2. kid # NoSymbol
      BY <2>2, <3>1 DEF HasLines, NoSymbol
    <3>3. FindSymbolAt(found, line) = kids[i]
      BY <2>3, <3>1, <3>2
    <3>4. PICK j \in DOMAIN all : all[j] = kids[i]
      BY <1>4, <2>1
    <3> HIDE DEF kids, kid
    <3>5. \A k \in DOMAIN all : Covers(all[k], line) => Span(kids[i]) <= Span(all[k])
      BY <2>2, <2>4, <3>1
    <3> QED
      BY <3>1, <3>3, <3>4, <3>5
  <2> QED
    BY <2>7, <2>8
<1>7. CASE \E i \in 1 .. n : Covers(found[i], line)
  <2>1. PICK c \in 1 .. n : Covers(found[c], line)
    BY <1>7
  <2>2. \E j \in DOMAIN all : Covers(all[j], line)
    BY <1>4, <2>1
  <2> QED
    BY <1>6, <2>1, <2>2
<1> QED
  BY <1>5, <1>7

\* What a document of a content caches, and its rows.
LEMMA CachedAre ==
    ASSUME NEW p \in Paths, NEW c \in Reqs
    PROVE  /\ Nested(SymbolsOf[p][c]) /\ RowsOfFound(RowsIn[p][c], SymbolsOf[p][c])
           /\ NSyms[p][c] = Len(RowsIn[p][c])
<1>1. /\ SymbolsOf[p][c] = Parsed(p, c) /\ RowsIn[p][c] = Flattened(Parsed(p, c))
      /\ NSyms[p][c] = Len(RowsIn[p][c])
  BY CacheAssumption, RowsAssumption, CountAssumption
<1>2. CASE Lang[p] = "none"
  <2>1. Parsed(p, c) = <<>> /\ Flattened(<<>>) = <<>>
    BY <1>2, NothingHasNoRows DEF Parsed
  <2>2. Nested(<<>>) /\ RowsOfFound(<<>>, <<>>)
    <3>1. 0 \in Nat /\ DOMAIN <<>> = 1 .. 0 /\ Len(<<>>) = 0
      OBVIOUS
    <3> QED
      BY <3>1 DEF Nested, RowsOfFound
  <2> QED
    BY <1>1, <2>1, <2>2
<1>3. CASE Lang[p] # "none"
  <2>1. IsTree(Tree[p][c]) /\ LinesNest(Tree[p][c])
    BY <1>3, TreesAssumption
  <2>2. Parsed(p, c) = CollectSymbols(Tree[p][c], Category(Lang[p]))
    BY <1>3 DEF Parsed, Symbols
  <2> QED
    BY <1>1, <2>1, <2>2, FoundIsNested
<1> QED
  BY <1>2, <1>3

\* What hover shows is one of the smallest symbols that the table has at the line,
\* whatever the trees are and whatever was written, wherever the table is up to date and
\* no two symbols of the top level share the line (hover.rs, find_symbol_at;
\* resolution.rs, find_symbol_name_at).
THEOREM HoverAgreesWithTable == NavSpec => []HoverIsNarrowest
<1>1. NavInit => TypeInv /\ SyncInv
  <2>1. NavInit => Init
    BY DEF NavInit
  <2>2. Init => SyncInv
    BY DEF Init, SyncInv, SyncOf, NoDocs, RowsOf, SymbolRows
  <2> QED
    BY <2>1, <2>2, InitTyped
<1>2. TypeInv /\ SyncInv => HoverIsNarrowest
  <2> SUFFICES ASSUME TypeInv, SyncInv, NEW p \in Paths, NEW line \in Nat,
                      Settled(p), ~ Shared(p, line)
               PROVE  IF Narrowest(p, line) = {} THEN SymbolAt(p, line) = NoSymbol
                      ELSE \E x \in Narrowest(p, line) : SymbolOf(x) = SymbolAt(p, line)
    BY LinesAssumption DEF HoverIsNarrowest
  <2>1. RowsOf(p) = SymbolRows(p, docs[p])
    <3>1. p \in Paths \ tainted /\ \A r \in Reqs : ~ Owes(r, p) /\ ~ Holds(r, p)
      BY DEF Settled, Owes
    <3> QED
      BY <3>1 DEF SyncInv, SyncOf, SymbolRows
  <2> DEFINE around == {x \in RowsOf(p) : Covers(SymbolOf(x), line)}
  <2>2. Narrowest(p, line) = {x \in around : \A y \in around : Span(SymbolOf(x)) <= Span(SymbolOf(y))}
    BY DEF Narrowest
  <2>3. CASE docs[p] = Closed
    <3>1. around = {}
      BY <2>1, <2>3 DEF SymbolRows
    <3>2. SymbolAt(p, line) = NoSymbol
      BY <2>3 DEF SymbolAt
    <3> QED
      BY <2>2, <3>1, <3>2
  <2>4. CASE docs[p] # Closed
    <3> DEFINE c == docs[p]
               found == SymbolsOf[p][c]
               all == RowsIn[p][c]
               rowOf(j) == [path |-> p, of |-> c, sym |-> j]
    <3>1. c \in Reqs
      BY <2>4 DEF TypeInv, TypeOK, Contents
    <3>2. Nested(found) /\ RowsOfFound(all, found) /\ NSyms[p][c] = Len(all)
      BY <3>1, CachedAre
    <3>3. DOMAIN all = 1 .. NSyms[p][c]
      BY <3>2 DEF RowsOfFound
    <3>4. /\ \A j \in DOMAIN all : rowOf(j) \in RowsOf(p)
          /\ \A x \in RowsOf(p) : \E j \in DOMAIN all : x = rowOf(j)
      BY <2>1, <2>4, <3>3 DEF SymbolRows
    <3>5. \A j : SymbolOf(rowOf(j)) = all[j]
      BY DEF SymbolOf
    <3>6. SymbolAt(p, line) = FindSymbolAt(found, line)
      BY <2>4 DEF SymbolAt
    <3>7. \A i, j \in DOMAIN found : Covers(found[i], line) /\ Covers(found[j], line) => i = j
      BY <2>4 DEF Shared
    <3> HIDE DEF found, all, c
    <3>8. IF \A j \in DOMAIN all : ~ Covers(all[j], line)
          THEN FindSymbolAt(found, line) = NoSymbol
          ELSE \E j \in DOMAIN all :
                 /\ all[j] = FindSymbolAt(found, line) /\ Covers(all[j], line)
                 /\ \A k \in DOMAIN all : Covers(all[k], line) => Span(all[j]) <= Span(all[k])
      BY <3>2, <3>7, NarrowestIsFound
    <3>9. CASE \A j \in DOMAIN all : ~ Covers(all[j], line)
      <4>1. around = {}
        BY <3>4, <3>5, <3>9
      <4> QED
        BY <2>2, <3>6, <3>8, <3>9, <4>1
    <3>10. CASE ~ \A j \in DOMAIN all : ~ Covers(all[j], line)
      <4>1. PICK j \in DOMAIN all :
               /\ all[j] = FindSymbolAt(found, line) /\ Covers(all[j], line)
               /\ \A k \in DOMAIN all : Covers(all[k], line) => Span(all[j]) <= Span(all[k])
        BY <3>8, <3>10
      <4>2. rowOf(j) \in around
        BY <3>4, <3>5, <4>1
      <4>3. \A y \in around : Span(SymbolOf(rowOf(j))) <= Span(SymbolOf(y))
        BY <3>4, <3>5, <4>1
      <4>4. rowOf(j) \in Narrowest(p, line) /\ SymbolOf(rowOf(j)) = SymbolAt(p, line)
        BY <2>2, <3>5, <3>6, <4>1, <4>2, <4>3
      <4> QED
        BY <4>4
    <3> QED
      BY <3>9, <3>10
  <2> QED
    BY <2>3, <2>4
<1> QED
  BY <1>1, <1>2, QueriesDisturbNothing, PTL DEF NavSpec

-----------------------------------------------------------------------------
(* A definition stays in its document *)

\* An answer to a definition is the step of lsp_goto_definition.
LEMMA DefinitionSteps ==
    ASSUME Shape, [NavNext]_allVars, NEW d \in Asks, step[d] = "read", step'[d] = "done",
           ask[d].op = "definition"
    PROVE  GotoDefinition(d)
<1>1. ASSUME NEW q \in Asks, Query(q) PROVE q = d /\ GotoDefinition(d)
  BY <1>1 DEF Shape, Query, Ask, RejectAsk, GotoDefinition, FindReferences, WorkspaceSymbols,
              AskHover, AskDiagnostics, ReadWord, Complete, TableFails, ReadFails, Answer
<1>2. ~((\E r \in Reqs : Writer(r)) \/ CrashWithQueries \/ UNCHANGED allVars)
  BY DEF Writer, CrashWithQueries, allVars, navVars
<1> QED
  BY <1>1, <1>2 DEF NavNext

\* The first match for the name of a row of p is a row of p.
LEMMA HomeFirst ==
    ASSUME NEW p, NEW line, NEW x \in Narrowest(p, line),
           NEW y \in FirstMatch(p, Named(SymbolOf(x).name))
    PROVE  /\ x \in rows /\ x.path = p
           /\ y \in Named(SymbolOf(x).name) /\ y.path = p
           /\ \A z \in Named(SymbolOf(x).name) : z.path = p => SymbolOf(y).first <= SymbolOf(z).first
<1>1. x \in rows /\ x.path = p
  BY DEF Narrowest, RowsOf
<1>2. x \in Named(SymbolOf(x).name)
  BY <1>1 DEF Named
<1> DEFINE home == {z \in Named(SymbolOf(x).name) : z.path = p}
<1>3. home # {}
  BY <1>1, <1>2
<1>4. y \in home /\ \A z \in home : SymbolOf(y).first <= SymbolOf(z).first
  BY <1>3 DEF FirstMatch
<1> QED
  BY <1>1, <1>4

\* Rows around a line have a narrowest one.
LEMMA SomeNarrowest ==
    ASSUME NEW p, NEW line, NEW x \in RowsOf(p), Covers(SymbolOf(x), line),
           \A y \in RowsOf(p) : HasLines(SymbolOf(y))
    PROVE  Narrowest(p, line) # {}
<1> DEFINE around == {y \in RowsOf(p) : Covers(SymbolOf(y), line)}
           spans  == {Span(SymbolOf(y)) : y \in around}
<1>1. \A y \in around : Span(SymbolOf(y)) \in Nat
  BY DEF HasLines, Span
<1>2. spans \in SUBSET Nat /\ spans # {}
  BY <1>1
<1>3. PICK least \in spans : \A n \in spans : least <= n
  BY <1>2, LeastNumber
<1>4. PICK y \in around : Span(SymbolOf(y)) = least
  BY <1>3
<1>5. y \in Narrowest(p, line)
  BY <1>3, <1>4 DEF Narrowest
<1> QED
  BY <1>5

\* Where store and table agree, the rows of an open document are its symbols.
LEMMA SettledSymbols ==
    ASSUME TypeInv, SyncInv, NEW p, Settled(p), docs[p] # Closed
    PROVE  LET all == RowsIn[p][docs[p]]
               rowOf(j) == [path |-> p, of |-> docs[p], sym |-> j]
           IN  /\ \A j \in DOMAIN all : rowOf(j) \in RowsOf(p) /\ SymbolOf(rowOf(j)) = all[j]
               /\ \A x \in RowsOf(p) : \E j \in DOMAIN all : x = rowOf(j)
               /\ \A j \in DOMAIN all : HasLines(all[j])
<1> DEFINE c == docs[p]
           all == RowsIn[p][c]
           found == SymbolsOf[p][c]
           rowOf(j) == [path |-> p, of |-> c, sym |-> j]
<1>1. RowsOf(p) = SymbolRows(p, c)
  <2>1. p \in Paths \ tainted /\ \A r \in Reqs : ~ Owes(r, p) /\ ~ Holds(r, p)
    BY DEF Settled, Owes
  <2> QED
    BY <2>1 DEF SyncInv, SyncOf, SymbolRows
<1>2. p \in Paths /\ c \in Reqs
  BY DEF TypeInv, TypeOK, Contents, Settled
<1>3. Nested(found) /\ RowsOfFound(all, found) /\ NSyms[p][c] = Len(all)
  BY <1>2, CachedAre
<1>4. DOMAIN all = 1 .. NSyms[p][c]
  BY <1>3 DEF RowsOfFound
<1>5. /\ \A j \in DOMAIN all : rowOf(j) \in RowsOf(p)
      /\ \A x \in RowsOf(p) : \E j \in DOMAIN all : x = rowOf(j)
  BY <1>1, <1>4 DEF SymbolRows
<1>6. \A j : SymbolOf(rowOf(j)) = all[j]
  BY DEF SymbolOf
<1> HIDE DEF found, all, c
<1>7. \A j \in DOMAIN all : HasLines(all[j])
  BY <1>3, ZenonT(60) DEF Nested, RowsOfFound
<1> QED
  BY <1>5, <1>6, <1>7 DEF all, c

\* FirstNamesakes of a sequence of symbols.
FirstIn(symbols, line) ==
    LET around   == {i \in DOMAIN symbols : Covers(symbols[i], line)}
        smallest == {i \in around : \A k \in around : Span(symbols[i]) <= Span(symbols[k])}
        bear(i)  == {j \in DOMAIN symbols : symbols[j].name = symbols[i].name}
    IN  UNION {{j \in bear(i) : \A k \in bear(i) : symbols[j].first <= symbols[k].first} : i \in smallest}

\* What lsp_goto_definition answers where store and table agree.
LEMMA DefinitionIs ==
    ASSUME TypeInv, SyncInv, Shape, NEW q \in Asks, GotoDefinition(q),
           NEW p, p = ask[q].path, NEW line, line = ask[q].line, Settled(p)
    PROVE  \/ FirstNamesakes(p, line) = {} /\ reply'[q] = <<>>
           \/ \E j \in FirstNamesakes(p, line) :
                reply'[q] = <<[path |-> p, of |-> docs[p], sym |-> j]>>
<1> DEFINE at == Narrowest(p, line)
<1>1. \/ at = {} /\ reply'[q] = <<>>
      \/ \E x \in at : \E y \in FirstMatch(p, Named(SymbolOf(x).name)) : reply'[q] = <<y>>
  BY DEF GotoDefinition, Answer, Shape
<1>2. CASE docs[p] = Closed
  <2>1. RowsOf(p) = {}
    <3>1. p \in Paths \ tainted /\ \A r \in Reqs : ~ Owes(r, p) /\ ~ Holds(r, p)
      BY DEF Settled, Owes
    <3> QED
      BY <1>2, <3>1 DEF SyncInv, SyncOf, SymbolRows
  <2>2. at = {}
    BY <2>1 DEF Narrowest
  <2>3. FirstNamesakes(p, line) = {}
    BY <1>2 DEF FirstNamesakes
  <2> QED
    BY <1>1, <2>2, <2>3
<1>3. CASE docs[p] # Closed
  <2> DEFINE symbols == RowsIn[p][docs[p]]
             rowOf(j) == [path |-> p, of |-> docs[p], sym |-> j]
             around  == {i \in DOMAIN symbols : Covers(symbols[i], line)}
             smallest == {i \in around : \A k \in around : Span(symbols[i]) <= Span(symbols[k])}
             bear(i) == {j \in DOMAIN symbols : symbols[j].name = symbols[i].name}
             first(i) == {j \in bear(i) : \A k \in bear(i) : symbols[j].first <= symbols[k].first}
  <2>0. FirstNamesakes(p, line) = UNION {first(i) : i \in smallest}
    <3> DEFINE opened == IF docs[p] = Closed THEN <<>> ELSE RowsIn[p][docs[p]]
    <3>1. opened = symbols
      BY <1>3
    <3>2. FirstNamesakes(p, line) = FirstIn(opened, line)
      BY DEF FirstNamesakes, FirstIn
    <3> HIDE DEF opened, symbols
    <3>3. FirstNamesakes(p, line) = FirstIn(symbols, line)
      BY <3>1, <3>2
    <3> QED
      BY <3>3 DEF FirstIn
  <2>1. /\ \A j \in DOMAIN symbols : rowOf(j) \in RowsOf(p) /\ SymbolOf(rowOf(j)) = symbols[j]
        /\ \A x \in RowsOf(p) : \E j \in DOMAIN symbols : x = rowOf(j)
        /\ \A j \in DOMAIN symbols : HasLines(symbols[j])
    BY <1>3, SettledSymbols
  <2> HIDE DEF symbols
  <2>2. CASE at = {}
    <3>1. reply'[q] = <<>>
      BY <1>1, <2>2
    <3>2. \A y \in RowsOf(p) : HasLines(SymbolOf(y))
      BY <2>1
    <3>3. \A x \in RowsOf(p) : ~ Covers(SymbolOf(x), line)
      BY <2>2, <3>2, SomeNarrowest
    <3>4. around = {}
      BY <2>1, <3>3
    <3> QED
      BY <2>0, <3>1, <3>4
  <2>3. ASSUME NEW x \in at, NEW y \in FirstMatch(p, Named(SymbolOf(x).name)), reply'[q] = <<y>>
        PROVE  \E j \in FirstNamesakes(p, line) : reply'[q] = <<rowOf(j)>>
    <3>1. /\ x \in RowsOf(p) /\ y \in RowsOf(p) /\ SymbolOf(y).name = SymbolOf(x).name
          /\ \A z \in RowsOf(p) : SymbolOf(z).name = SymbolOf(x).name =>
                                    SymbolOf(y).first <= SymbolOf(z).first
      BY HomeFirst DEF RowsOf, Named
    <3>2. Covers(SymbolOf(x), line) /\ \A z \in RowsOf(p) : Covers(SymbolOf(z), line) =>
                                                              Span(SymbolOf(x)) <= Span(SymbolOf(z))
      BY DEF Narrowest
    <3>3. PICK i \in DOMAIN symbols : x = rowOf(i)
      BY <2>1, <3>1
    <3>4. PICK j \in DOMAIN symbols : y = rowOf(j)
      BY <2>1, <3>1
    <3>5. i \in smallest
      BY <2>1, <3>2, <3>3
    <3>6. j \in bear(i)
      BY <2>1, <3>1, <3>3, <3>4
    <3>7. \A k \in bear(i) : symbols[j].first <= symbols[k].first
      BY <2>1, <3>1, <3>3, <3>4, ZenonT(60)
    <3>8. j \in FirstNamesakes(p, line)
      BY <2>0, <3>5, <3>6, <3>7
    <3> QED
      BY <2>3, <3>4, <3>8
  <2> QED
    BY <1>1, <2>2, <2>3
<1> QED
  BY <1>2, <1>3

\* lsp_goto_definition answers from the document it is asked from, among the
\* references of the same place, however many documents declare the name and
\* whatever is written meanwhile; where store and table agree it is the first symbol
\* of the open document with the name of a narrowest one at the line, for all trees
\* and lines (resolution.rs, goto_definition).
THEOREM DefinitionsStayHome == NavSpec => DefinitionStaysHome
<1>1. NavInit => TypeInv /\ SyncInv
  <2>1. NavInit => Init
    BY DEF NavInit
  <2>2. Init => SyncInv
    BY DEF Init, SyncInv, SyncOf, NoDocs, RowsOf, SymbolRows
  <2> QED
    BY <2>1, <2>2, InitTyped
<1>2. NavSpec => [](TypeInv /\ SyncInv /\ Shape)
  BY <1>1, InitShaped, ShapeStep, QueriesDisturbNothing, PTL DEF NavSpec
<1>3. ASSUME TypeInv, SyncInv, Shape, [NavNext]_allVars
      PROVE  \A q \in Asks :
         step[q] = "read" /\ step'[q] = "done" /\ ask[q].op = "definition" =>
           LET p    == ask[q].path
               line == ask[q].line
           IN  /\ \A n \in DOMAIN reply'[q] :
                     /\ reply'[q][n].path = p
                     /\ \E x \in Narrowest(p, line) : reply'[q][n] \in Named(SymbolOf(x).name)
               /\ Settled(p) =>
                     \/ FirstNamesakes(p, line) = {} /\ reply'[q] = <<>>
                     \/ \E j \in FirstNamesakes(p, line) :
                          reply'[q] = <<[path |-> p, of |-> docs[p], sym |-> j]>>
  <2> SUFFICES ASSUME NEW q \in Asks, step[q] = "read", step'[q] = "done", ask[q].op = "definition"
               PROVE  LET p    == ask[q].path
                          line == ask[q].line
                      IN  /\ \A n \in DOMAIN reply'[q] :
                                /\ reply'[q][n].path = p
                                /\ \E x \in Narrowest(p, line) : reply'[q][n] \in Named(SymbolOf(x).name)
                          /\ Settled(p) =>
                                \/ FirstNamesakes(p, line) = {} /\ reply'[q] = <<>>
                                \/ \E j \in FirstNamesakes(p, line) :
                                     reply'[q] = <<[path |-> p, of |-> docs[p], sym |-> j]>>
    BY Zenon
  <2> DEFINE p == ask[q].path
             line == ask[q].line
  <2>1. GotoDefinition(q)
    BY <1>3, DefinitionSteps
  <2>2. \/ reply'[q] = <<>>
        \/ \E x \in Narrowest(p, line) : \E y \in FirstMatch(p, Named(SymbolOf(x).name)) :
              reply'[q] = <<y>>
    BY <1>3, <2>1 DEF GotoDefinition, Answer, Shape
  <2>3. ASSUME NEW n \in DOMAIN reply'[q]
        PROVE  /\ reply'[q][n].path = p
               /\ \E x \in Narrowest(p, line) : reply'[q][n] \in Named(SymbolOf(x).name)
    <3>1. PICK x \in Narrowest(p, line) : \E y \in FirstMatch(p, Named(SymbolOf(x).name)) :
              reply'[q] = <<y>>
      BY <2>2
    <3>2. PICK y \in FirstMatch(p, Named(SymbolOf(x).name)) : reply'[q] = <<y>>
      BY <3>1
    <3>3. y.path = p /\ y \in Named(SymbolOf(x).name)
      BY HomeFirst
    <3>4. reply'[q][n] = y
      BY <3>2
    <3> QED
      BY <3>3, <3>4
  <2>4. ASSUME Settled(p)
        PROVE  \/ FirstNamesakes(p, line) = {} /\ reply'[q] = <<>>
               \/ \E j \in FirstNamesakes(p, line) :
                    reply'[q] = <<[path |-> p, of |-> docs[p], sym |-> j]>>
    BY <1>3, <2>1, <2>4, DefinitionIs
  <2> QED
    BY <2>3, <2>4
<1> QED
  BY <1>2, <1>3, PTL DEF NavSpec, DefinitionStaysHome

-----------------------------------------------------------------------------
(* The order of names *)

\* No name is before itself, and of two names one is before the other.
LEMMA NamesOrdered ==
    ASSUME NEW a \in Seq(Int), NEW b \in Seq(Int)
    PROVE  ~ Before(a, a) /\ (a = b \/ Before(a, b) \/ Before(b, a))
<1>1. /\ Len(a) \in Nat /\ Len(b) \in Nat
      /\ \A i \in 1 .. Len(a) : a[i] \in Int
      /\ \A i \in 1 .. Len(b) : b[i] \in Int
  BY ElementOfSeq
<1>2. ~ Before(a, a)
  <2> SUFFICES ASSUME NEW i \in 1 .. Len(a), i = Len(a) + 1 \/ a[i] < a[i] PROVE FALSE
    BY DEF Before
  <2> QED
    BY <1>1
<1>3. ASSUME a # b PROVE Before(a, b) \/ Before(b, a)
  <2> DEFINE Same(i) == i <= Len(a) /\ i <= Len(b) /\ a[i] = b[i]
             T == {i \in Nat : 1 <= i /\ ~ Same(i)}
  <2>1. T # {}
    <3>1. Len(a) + 1 \in T
      BY <1>1
    <3> QED
      BY <3>1
  <2>2. PICK m \in T : \A i \in T : m <= i
    BY <2>1, LeastNumber
  <2>3. \A i \in 1 .. m - 1 : Same(i)
    <3> SUFFICES ASSUME NEW i \in 1 .. m - 1, ~ Same(i) PROVE FALSE
      OBVIOUS
    <3>1. m \in Nat /\ i \in Nat /\ 1 <= i /\ i < m
      BY <2>2
    <3>2. i \in T
      BY <3>1
    <3> QED
      BY <2>2, <3>1, <3>2
  <2>4. m \in Nat /\ 1 <= m /\ m <= Len(a) + 1 /\ m <= Len(b) + 1
    <3>1. m \in Nat /\ 1 <= m
      BY <2>2
    <3>2. m - 1 = 0 \/ m - 1 \in 1 .. m - 1
      BY <3>1
    <3>3. m - 1 = 0 \/ (m - 1 <= Len(a) /\ m - 1 <= Len(b))
      BY <2>3, <3>2
    <3> QED
      BY <1>1, <3>1, <3>3
  <2>5. \A i \in 1 .. m - 1 : a[i] = b[i] /\ b[i] = a[i]
    BY <2>3
  <2>6. ~ Same(m)
    BY <2>2
  <2>7. CASE m = Len(a) + 1 /\ m = Len(b) + 1
    <3>1. Len(a) = Len(b) /\ \A i \in 1 .. Len(a) : a[i] = b[i]
      BY <1>1, <2>5, <2>7
    <3> HIDE DEF Same, T
    <3>2. a = b
      BY <3>1, SeqEqual
    <3> QED
      BY <1>3, <3>2
  <2>8. CASE m = Len(a) + 1 /\ m # Len(b) + 1
    <3>1. m \in 1 .. Len(b)
      BY <1>1, <2>4, <2>8
    <3>2. Before(a, b)
      BY <2>4, <2>5, <2>8, <3>1 DEF Before
    <3> QED
      BY <3>2
  <2>9. CASE m # Len(a) + 1 /\ m = Len(b) + 1
    <3>1. m \in 1 .. Len(a)
      BY <1>1, <2>4, <2>9
    <3>2. Before(b, a)
      BY <2>4, <2>5, <2>9, <3>1 DEF Before
    <3> QED
      BY <3>2
  <2>10. CASE m # Len(a) + 1 /\ m # Len(b) + 1
    <3> HIDE DEF Same, T
    <3>1. m \in 1 .. Len(a) /\ m \in 1 .. Len(b)
      BY <1>1, <2>4, <2>10
    <3>2. ~ (m <= Len(a) /\ m <= Len(b) /\ a[m] = b[m])
      BY <2>6 DEF Same
    <3>3. a[m] < b[m] \/ b[m] < a[m]
      BY <1>1, <3>1, <3>2
    <3> QED
      BY <2>4, <2>5, <3>1, <3>3 DEF Before
  <2> QED
    BY <2>7, <2>8, <2>9, <2>10
<1> QED
  BY <1>2, <1>3

LEMMA BeforeIsTransitive ==
    ASSUME NEW a \in Seq(Int), NEW b \in Seq(Int), NEW c \in Seq(Int), Before(a, b), Before(b, c)
    PROVE  Before(a, c)
<1>1. /\ Len(a) \in Nat /\ Len(b) \in Nat /\ Len(c) \in Nat
      /\ \A i \in 1 .. Len(a) : a[i] \in Int
      /\ \A i \in 1 .. Len(b) : b[i] \in Int
      /\ \A i \in 1 .. Len(c) : c[i] \in Int
  BY ElementOfSeq
<1>2. PICK i \in 1 .. Len(b) : /\ i <= Len(a) + 1
                               /\ \A j \in 1 .. i - 1 : a[j] = b[j]
                               /\ i = Len(a) + 1 \/ a[i] < b[i]
  BY DEF Before
<1>3. PICK k \in 1 .. Len(c) : /\ k <= Len(b) + 1
                               /\ \A j \in 1 .. k - 1 : b[j] = c[j]
                               /\ k = Len(b) + 1 \/ b[k] < c[k]
  BY DEF Before
<1>4. CASE i < k
  <2>1. i \in 1 .. Len(c) /\ i \in 1 .. k - 1 /\ \A j \in 1 .. i - 1 : j \in 1 .. k - 1
    BY <1>1, <1>4
  <2>2. b[i] = c[i] /\ \A j \in 1 .. i - 1 : a[j] = c[j]
    BY <1>2, <1>3, <2>1
  <2> QED
    BY <1>2, <2>1, <2>2 DEF Before
<1>5. CASE k < i
  <2>1. k \in 1 .. i - 1 /\ k # Len(b) + 1 /\ k <= Len(a) + 1 /\ \A j \in 1 .. k - 1 : j \in 1 .. i - 1
    <3>1. i \in Nat /\ k \in Nat /\ k >= 1 /\ i <= Len(b) /\ Len(a) \in Nat /\ Len(b) \in Nat
      BY <1>1
    <3>2. i <= Len(a) + 1
      BY <1>2
    <3>3. k \in 1 .. i - 1
      BY <1>5, <3>1
    <3>4. ASSUME NEW j \in 1 .. k - 1 PROVE j \in 1 .. i - 1
      BY <1>5, <3>1
    <3>5. k # Len(b) + 1
      BY <1>5, <3>1
    <3>6. k <= Len(a) + 1
      BY <1>5, <3>1, <3>2
    <3> QED
      BY <3>3, <3>4, <3>5, <3>6
  <2>2. a[k] = b[k] /\ b[k] < c[k] /\ \A j \in 1 .. k - 1 : a[j] = c[j]
    BY <1>2, <1>3, <2>1
  <2> QED
    BY <2>1, <2>2 DEF Before
<1>6. CASE i = k
  <2>1. b[i] < c[i] /\ i \in 1 .. Len(c) /\ b[i] \in Int /\ c[i] \in Int
    BY <1>1, <1>2, <1>3, <1>6
  <2>2. \A j \in 1 .. i - 1 : a[j] = c[j]
    BY <1>2, <1>3, <1>6
  <2>3. i = Len(a) + 1 \/ a[i] < c[i]
    <3> SUFFICES ASSUME i # Len(a) + 1 PROVE a[i] < c[i]
      OBVIOUS
    <3>1. a[i] < b[i]
      BY <1>2
    <3>2. i \in 1 .. Len(a)
      BY <1>1, <1>2
    <3>3. a[i] \in Int
      BY <1>1, <3>2
    <3> QED
      BY <2>1, <3>1, <3>3
  <2> QED
    BY <1>2, <2>1, <2>2, <2>3 DEF Before
<1> QED
  BY <1>1, <1>4, <1>5, <1>6

-----------------------------------------------------------------------------
(* Sorting by counting *)

\* A relation that puts all members of a set in a row.
Orderly(S, R) ==
    /\ \A x \in S : <<x, x>> \notin R
    /\ \A x, y, z \in S : <<x, y>> \in R /\ <<y, z>> \in R => <<x, z>> \in R
    /\ \A x, y \in S : x = y \/ <<x, y>> \in R \/ <<y, x>> \in R

\* How many members are before x.
Ahead(S, R, x) == Cardinality({y \in S : <<y, x>> \in R})

\* Each number of members below the size of the set is ahead of one member, and more
\* are ahead of a later one.
LEMMA CountedInOrder ==
    ASSUME NEW S, IsFiniteSet(S), NEW R, Orderly(S, R)
    PROVE  /\ \A i \in 1 .. Cardinality(S) : \E x \in S : Ahead(S, R, x) = i - 1
           /\ \A x \in S : Ahead(S, R, x) \in 0 .. Cardinality(S) - 1
           /\ \A x, y \in S : <<x, y>> \in R <=> Ahead(S, R, x) < Ahead(S, R, y)
<1> DEFINE k == Cardinality(S)
           A(x) == {y \in S : <<y, x>> \in R}
<1>1. ASSUME NEW x \in S
      PROVE  IsFiniteSet(A(x)) /\ Cardinality(A(x)) \in Nat /\ Cardinality(A(x)) < k /\ k \in Nat
  <2>1. A(x) \in SUBSET S /\ x \notin A(x)
    BY DEF Orderly
  <2> HIDE DEF A
  <2>2. IsFiniteSet(A(x)) /\ Cardinality(A(x)) <= k /\ (k = Cardinality(A(x)) => S = A(x))
    BY <2>1, FS_Subset
  <2>3. Cardinality(A(x)) \in Nat /\ k \in Nat
    BY <2>2, FS_CardinalityType
  <2> QED
    BY <2>1, <2>2, <2>3
<1>2. ASSUME NEW x \in S, NEW y \in S, <<x, y>> \in R PROVE Cardinality(A(x)) < Cardinality(A(y))
  <2>1. A(x) \in SUBSET A(y) /\ x \in A(y) /\ x \notin A(x)
    BY <1>2 DEF Orderly
  <2>2. IsFiniteSet(A(y)) /\ Cardinality(A(x)) \in Nat /\ Cardinality(A(y)) \in Nat
    BY <1>1
  <2> HIDE DEF A
  <2>3. Cardinality(A(x)) <= Cardinality(A(y)) /\ (Cardinality(A(y)) = Cardinality(A(x)) => A(y) = A(x))
    BY <2>1, <2>2, FS_Subset
  <2> QED
    BY <2>1, <2>2, <2>3
<1>3. \A x, y \in S : <<x, y>> \in R <=> Cardinality(A(x)) < Cardinality(A(y))
  <2> SUFFICES ASSUME NEW x \in S, NEW y \in S, Cardinality(A(x)) < Cardinality(A(y))
               PROVE  <<x, y>> \in R
    BY <1>2
  <2>1. Cardinality(A(x)) \in Nat /\ Cardinality(A(y)) \in Nat
    BY <1>1
  <2> HIDE DEF A
  <2>2. x # y /\ ~ (Cardinality(A(y)) < Cardinality(A(x)))
    BY <2>1
  <2> QED
    BY <1>2, <2>2 DEF Orderly
<1>4. \A x \in S : Ahead(S, R, x) = Cardinality(A(x))
  BY DEF Ahead
<1> HIDE DEF A, k
<1> DEFINE place == [x \in S |-> Ahead(S, R, x) + 1]
<1>5. place \in [S -> 1 .. k]
  BY <1>1, <1>4
<1>6. \A x, y \in S : place[x] = place[y] => x = y
  <2> SUFFICES ASSUME NEW x \in S, NEW y \in S, Cardinality(A(x)) + 1 = Cardinality(A(y)) + 1, x # y
               PROVE  FALSE
    BY <1>4
  <2>1. Cardinality(A(x)) \in Nat /\ Cardinality(A(y)) \in Nat
    BY <1>1
  <2>2. ~ (Cardinality(A(x)) < Cardinality(A(y))) /\ ~ (Cardinality(A(y)) < Cardinality(A(x)))
    BY <2>1
  <2> QED
    BY <1>3, <2>2 DEF Orderly
<1> HIDE DEF place
<1>7. k \in Nat /\ IsFiniteSet(1 .. k) /\ Cardinality(1 .. k) = k
  BY FS_CardinalityType, FS_Interval DEF k
<1>8. place \in Injection(S, 1 .. k)
  BY <1>5, <1>6 DEF Injection, IsInjective
<1>9. place \in Surjection(S, 1 .. k)
  BY <1>7, <1>8, FS_Injection DEF k
<1>10. ASSUME NEW i \in 1 .. k PROVE \E x \in S : Ahead(S, R, x) = i - 1
  <2>1. PICK x \in S : place[x] = i
    BY <1>9 DEF Surjection
  <2>2. Ahead(S, R, x) + 1 = i /\ Ahead(S, R, x) \in Nat
    BY <1>1, <1>4, <2>1 DEF place
  <2> QED
    BY <1>7, <2>2
<1>11. \A x \in S : Ahead(S, R, x) \in 0 .. k - 1
  BY <1>1, <1>4
<1> QED
  BY <1>3, <1>4, <1>10, <1>11 DEF k

-----------------------------------------------------------------------------
(* A completion is exact *)

\* These items are those of the n places, in the order of names and among equal names of
\* places.
ItemsOf(items, n, at, all, places) ==
    /\ DOMAIN items = 1 .. n
    /\ \A x \in 1 .. n : items[x].label = all[at[x]].name
    /\ \A i \in places : \E x \in 1 .. n : at[x] = i
    /\ \A x, y \in 1 .. n : x < y => \/ Before(all[at[x]].name, all[at[y]].name)
                                     \/ all[at[x]].name = all[at[y]].name /\ at[x] # at[y]

LEMMA SortedAre ==
    ASSUME NEW k \in Nat, NEW all, DOMAIN all = 1 .. k, \A i \in 1 .. k : all[i].name \in Seq(Int),
           NEW places \in SUBSET (1 .. k)
    PROVE  \E n \in Nat : \E at \in [1 .. n -> places] :
             ItemsOf(SortedItems(all, places), n, at, all, places)
<1> DEFINE name == [i \in 1 .. k |-> all[i].name]
           First(i, j) == Before(name[i], name[j]) \/ (name[i] = name[j] /\ i < j)
           R == {ss \in places \X places : First(ss[1], ss[2])}
           n == Cardinality(places)
           place(x) == CHOOSE i \in places : Ahead(places, R, i) = x - 1
           at == [x \in 1 .. n |-> place(x)]
<1>1. name \in [1 .. k -> Seq(Int)] /\ \A i \in places : i \in 1 .. k /\ name[i] = all[i].name
  OBVIOUS
<1>2. IsFiniteSet(places) /\ n \in Nat
  <2>1. IsFiniteSet(1 .. k)
    BY FS_Interval
  <2> QED
    BY <2>1, FS_Subset, FS_CardinalityType
<1>3. \A i, j \in places : <<i, j>> \in R <=> First(i, j)
  OBVIOUS
<1>4. SortedItems(all, places) =
        [x \in 1 .. n |-> [label |-> all[at[x]].name, kind |-> all[at[x]].kind]]
  <2>1. \A i, j \in places : <<j, i>> \in R <=>
          \/ Before(all[j].name, all[i].name)
          \/ all[j].name = all[i].name /\ j < i
    BY <1>1, <1>3
  <2> HIDE DEF R
  <2>2. \A i \in places : {j \in places : <<j, i>> \in R} =
          {j \in places : \/ Before(all[j].name, all[i].name)
                          \/ all[j].name = all[i].name /\ j < i}
    BY <2>1
  <2> DEFINE next(x) == CHOOSE i \in places :
                          Cardinality({j \in places : \/ Before(all[j].name, all[i].name)
                                                      \/ all[j].name = all[i].name /\ j < i}) = x - 1
             sorted == [x \in 1 .. n |-> next(x)]
  <2>3. SortedItems(all, places) =
          [x \in DOMAIN sorted |-> [label |-> all[sorted[x]].name, kind |-> all[sorted[x]].kind]]
    BY DEF SortedItems
  <2>4. \A x : place(x) = next(x)
    BY <2>2 DEF Ahead
  <2> HIDE DEF place, next, n
  <2>5. sorted = at /\ DOMAIN at = 1 .. n
    BY <2>4
  <2> HIDE DEF sorted, at
  <2> QED
    BY <2>3, <2>5
<1> HIDE DEF name
<1>5. Orderly(places, R)
  <2>1. \A i \in places : ~ First(i, i)
    BY <1>1, NamesOrdered
  <2>2. ASSUME NEW i \in places, NEW j \in places, NEW m \in places, First(i, j), First(j, m)
        PROVE  First(i, m)
    <3>1. /\ name[i] \in Seq(Int) /\ name[j] \in Seq(Int) /\ name[m] \in Seq(Int)
          /\ i \in Nat /\ j \in Nat /\ m \in Nat
      BY <1>1
    <3>2. CASE Before(name[i], name[j]) /\ Before(name[j], name[m])
      BY <3>1, <3>2, BeforeIsTransitive
    <3>3. CASE ~ (Before(name[i], name[j]) /\ Before(name[j], name[m]))
      BY <2>2, <3>1, <3>3
    <3> QED
      BY <3>2, <3>3
  <2>3. ASSUME NEW i \in places, NEW j \in places PROVE i = j \/ First(i, j) \/ First(j, i)
    <3>1. name[i] \in Seq(Int) /\ name[j] \in Seq(Int) /\ i \in Nat /\ j \in Nat
      BY <1>1
    <3>2. name[i] = name[j] \/ Before(name[i], name[j]) \/ Before(name[j], name[i])
      BY <3>1, NamesOrdered
    <3> QED
      BY <3>1, <3>2
  <2> HIDE DEF First, R
  <2> QED
    BY <1>3, <2>1, <2>2, <2>3 DEF Orderly
<1> HIDE DEF R, n
<1>6. /\ \A x \in 1 .. n : \E i \in places : Ahead(places, R, i) = x - 1
      /\ \A i \in places : Ahead(places, R, i) \in 0 .. n - 1
      /\ \A i, j \in places : <<i, j>> \in R <=> Ahead(places, R, i) < Ahead(places, R, j)
  BY <1>2, <1>5, CountedInOrder DEF n
<1>7. \A x \in 1 .. n : at[x] \in places /\ Ahead(places, R, at[x]) = x - 1
  BY <1>6
<1>8. at \in [1 .. n -> places]
  BY <1>7
<1> HIDE DEF at
<1>9. ASSUME NEW i \in places PROVE \E x \in 1 .. n : at[x] = i
  <2>1. PICK x \in 1 .. n : Ahead(places, R, i) = x - 1
    <3>1. Ahead(places, R, i) + 1 \in 1 .. n /\ Ahead(places, R, i) = (Ahead(places, R, i) + 1) - 1
      BY <1>2, <1>6
    <3> QED
      BY <3>1
  <2>2. Ahead(places, R, at[x]) = Ahead(places, R, i) /\ Ahead(places, R, i) \in Nat /\ at[x] \in places
    BY <1>2, <1>6, <1>7, <2>1
  <2>3. <<at[x], i>> \notin R /\ <<i, at[x]>> \notin R
    <3>1. ~ (Ahead(places, R, i) < Ahead(places, R, i))
      BY <2>2
    <3> QED
      BY <1>6, <2>2, <3>1
  <2> QED
    BY <1>5, <2>2, <2>3 DEF Orderly
<1>10. ASSUME NEW x \in 1 .. n, NEW y \in 1 .. n, x < y
       PROVE  \/ Before(all[at[x]].name, all[at[y]].name)
              \/ all[at[x]].name = all[at[y]].name /\ at[x] # at[y]
  <2>1. at[x] \in places /\ at[y] \in places /\ at[x] \in 1 .. k /\ at[y] \in 1 .. k
    BY <1>1, <1>8
  <2>2. Ahead(places, R, at[x]) < Ahead(places, R, at[y])
    BY <1>7, <1>10
  <2>3. First(at[x], at[y])
    BY <1>3, <1>6, <2>1, <2>2
  <2> QED
    BY <1>1, <2>1, <2>3
<1>11. /\ DOMAIN SortedItems(all, places) = 1 .. n
       /\ \A x \in 1 .. n : SortedItems(all, places)[x].label = all[at[x]].name
  BY <1>4
<1> QED
  BY <1>2, <1>8, <1>9, <1>10, <1>11 DEF ItemsOf

\* The items of rows with names: each name once, in order, and those that begin with
\* the prefix.
LEMMA ItemsAre ==
    ASSUME NEW order, WellNamed(Listed(order)), NEW prefix
    PROVE  /\ {Items(order, prefix)[x].label : x \in DOMAIN Items(order, prefix)} =
                {Listed(order)[i].name : i \in DOMAIN Listed(order)} \cap prefix
           /\ \A x, y \in DOMAIN Items(order, prefix) :
                x < y => Before(Items(order, prefix)[x].label, Items(order, prefix)[y].label)
<1> DEFINE all == Listed(order)
           k == Len(all)
           places == {i \in DOMAIN all : /\ all[i].name \in prefix
                                         /\ \A j \in 1 .. i - 1 : all[j].name # all[i].name}
           items == SortedItems(all, places)
<1>1. k \in Nat /\ DOMAIN all = 1 .. k /\ \A i \in 1 .. k : all[i].name \in Seq(Int)
  <2>1. PICK W : all \in Seq(W) /\ \A w \in W : w.name \in Seq(Int)
    BY DEF WellNamed
  <2> HIDE DEF all
  <2>2. k \in Nat /\ DOMAIN all = 1 .. k /\ \A i \in 1 .. k : all[i] \in W
    BY <2>1, ElementOfSeq
  <2> QED
    BY <2>1, <2>2
<1>2. Items(order, prefix) = items
  BY DEF Items
<1> HIDE DEF all, k
<1>3. places \in SUBSET (1 .. k)
  BY <1>1
<1>4. ASSUME NEW i \in 1 .. k, all[i].name \in prefix
      PROVE  \E j \in places : all[j].name = all[i].name
  <2> DEFINE T == {j \in 1 .. k : all[j].name = all[i].name}
  <2>1. T \in SUBSET Nat /\ i \in T
    BY <1>1
  <2>2. PICK j \in T : \A m \in T : j <= m
    BY <2>1, LeastNumber
  <2>3. ASSUME NEW m \in 1 .. j - 1 PROVE all[m].name # all[j].name
    <3>1. m \in 1 .. k /\ ~ (j <= m)
      BY <1>1, <2>2
    <3> QED
      BY <2>2, <3>1
  <2> QED
    BY <1>1, <1>4, <2>2, <2>3
<1>5. ASSUME NEW i \in places, NEW j \in places, all[i].name = all[j].name PROVE i = j
  <2>1. i \in Nat /\ j \in Nat /\ 1 <= i /\ 1 <= j
    BY <1>1
  <2>2. i < j => i \in 1 .. j - 1
    BY <2>1
  <2>3. j < i => j \in 1 .. i - 1
    BY <2>1
  <2> QED
    BY <1>5, <2>1, <2>2, <2>3
<1>6. \A i \in places : i \in 1 .. k /\ all[i].name \in prefix
  BY <1>1
<1> HIDE DEF places
<1>7. PICK n \in Nat : \E at \in [1 .. n -> places] : ItemsOf(items, n, at, all, places)
  BY <1>1, <1>3, SortedAre
<1>8. PICK at \in [1 .. n -> places] : ItemsOf(items, n, at, all, places)
  BY <1>7
<1> HIDE DEF items
<1> USE DEF ItemsOf
<1>9. ASSUME NEW l PROVE (\E x \in DOMAIN items : items[x].label = l)
                           <=> (\E i \in DOMAIN all : all[i].name = l) /\ l \in prefix
  <2>1. ASSUME NEW x \in DOMAIN items, items[x].label = l
        PROVE  (\E i \in DOMAIN all : all[i].name = l) /\ l \in prefix
    <3>1. at[x] \in places /\ l = all[at[x]].name
      BY <1>8, <2>1
    <3> QED
      BY <1>1, <1>6, <3>1
  <2>2. ASSUME NEW i \in DOMAIN all, all[i].name = l, l \in prefix
        PROVE  \E x \in DOMAIN items : items[x].label = l
    <3>1. PICK j \in places : all[j].name = l
      BY <1>1, <1>4, <2>2
    <3>2. PICK x \in 1 .. n : at[x] = j
      BY <1>8
    <3> QED
      BY <1>8, <3>1, <3>2
  <2> QED
    BY <2>1, <2>2
<1>10. \A x, y \in DOMAIN items : x < y => Before(items[x].label, items[y].label)
  <2> SUFFICES ASSUME NEW x \in 1 .. n, NEW y \in 1 .. n, x < y
               PROVE  Before(items[x].label, items[y].label)
    BY <1>8
  <2>1. /\ items[x].label = all[at[x]].name /\ items[y].label = all[at[y]].name
        /\ at[x] \in places /\ at[y] \in places
    BY <1>8
  <2>2. \/ Before(all[at[x]].name, all[at[y]].name)
        \/ all[at[x]].name = all[at[y]].name /\ at[x] # at[y]
    BY <1>8
  <2>3. ~ (all[at[x]].name = all[at[y]].name /\ at[x] # at[y])
    BY <1>5, <2>1
  <2> QED
    BY <2>1, <2>2, <2>3
<1>11. {items[x].label : x \in DOMAIN items} = {all[i].name : i \in DOMAIN all} \cap prefix
  BY <1>9
<1> QED
  BY <1>2, <1>10, <1>11 DEF all

\* The rows of every content have names.
LEMMA CachedAreNamed ==
    ASSUME NEW p \in Paths, NEW c \in Reqs PROVE WellNamed(RowsIn[p][c])
<1>1. RowsIn[p][c] = Flattened(Parsed(p, c))
  BY RowsAssumption
<1>2. CASE Lang[p] = "none"
  <2>1. RowsIn[p][c] = <<>>
    BY <1>1, <1>2, NothingHasNoRows DEF Parsed
  <2>2. <<>> \in Seq({})
    OBVIOUS
  <2>3. \A w \in {} : w.name \in Seq(Int)
    OBVIOUS
  <2>4. WellNamed(<<>>)
    <3> SUFFICES \E W : <<>> \in Seq(W) /\ \A w \in W : w.name \in Seq(Int)
      BY DEF WellNamed
    <3> WITNESS {}
    <3> QED
      BY <2>2, <2>3
  <2> QED
    BY <2>1, <2>4
<1>3. CASE Lang[p] # "none"
  <2>1. IsTree(Tree[p][c]) /\ Parsed(p, c) = CollectSymbols(Tree[p][c], Category(Lang[p]))
    BY <1>3, TreesAssumption DEF Parsed, Symbols
  <2> QED
    BY <1>1, <2>1, RowsAreNamed
<1> QED
  BY <1>2, <1>3

\* The open documents.
Open == {p \in Paths : docs[p] # Closed}

\* In whatever order they are listed, the rows are those of the open documents.
LEMMA ListedAre ==
    ASSUME TypeInv, IsFiniteSet(Open), NEW order \in Orders(Open)
    PROVE  /\ WellNamed(Listed(order))
           /\ {Listed(order)[i].name : i \in DOMAIN Listed(order)} =
                UNION {{RowsIn[p][docs[p]][i].name : i \in DOMAIN RowsIn[p][docs[p]]} : p \in Open}
<1> DEFINE n == Cardinality(Open)
           rowsOf == [p \in Open |-> RowsIn[p][docs[p]]]
           W == UNION {{rowsOf[p][i] : i \in DOMAIN rowsOf[p]} : p \in Open}
           parts == [x \in 1 .. n |-> rowsOf[order[x]]]
<1>1. n \in Nat /\ IsFiniteSet(1 .. n) /\ Cardinality(1 .. n) = n
  BY FS_CardinalityType, FS_Interval
<1>2. order \in [1 .. n -> Open] /\ \A p \in Open : \E x \in 1 .. n : order[x] = p
  <2>1. order \in [1 .. n -> Open] /\ \A x, y \in 1 .. n : x # y => order[x] # order[y]
    BY DEF Orders
  <2>2. order \in Injection(1 .. n, Open)
    BY <2>1 DEF Injection, IsInjective
  <2> HIDE DEF n
  <2>3. order \in Surjection(1 .. n, Open)
    BY <1>1, <2>2, FS_Injection DEF n
  <2> QED
    BY <2>1, <2>3 DEF Surjection
<1>3. Listed(order) = Joined(parts)
  <2>1. DOMAIN order = 1 .. n
    BY <1>2
  <2>2. \A x \in 1 .. n : rowsOf[order[x]] = RowsIn[order[x]][docs[order[x]]]
    BY <1>2
  <2> HIDE DEF n, rowsOf
  <2> QED
    BY <2>1, <2>2 DEF Listed
<1>4. \A p \in Open : WellNamed(rowsOf[p])
  <2> SUFFICES ASSUME NEW p \in Open PROVE WellNamed(RowsIn[p][docs[p]])
    OBVIOUS
  <2>1. p \in Paths /\ docs[p] \in Reqs
    BY DEF Open, TypeInv, TypeOK, Contents
  <2> QED
    BY <2>1, CachedAreNamed
<1> HIDE DEF rowsOf, n
<1>5. ASSUME NEW p \in Open
      PROVE  rowsOf[p] \in Seq(W) /\ \A i \in DOMAIN rowsOf[p] : rowsOf[p][i].name \in Seq(Int)
  <2>1. PICK V : rowsOf[p] \in Seq(V) /\ \A w \in V : w.name \in Seq(Int)
    BY <1>4 DEF WellNamed
  <2>2. /\ Len(rowsOf[p]) \in Nat /\ DOMAIN rowsOf[p] = 1 .. Len(rowsOf[p])
        /\ rowsOf[p] \in [1 .. Len(rowsOf[p]) -> V]
    BY <2>1
  <2>3. \A i \in 1 .. Len(rowsOf[p]) : rowsOf[p][i] \in W
    BY <2>2
  <2> HIDE DEF W
  <2>4. rowsOf[p] \in [1 .. Len(rowsOf[p]) -> W]
    BY <2>2, <2>3
  <2>5. rowsOf[p] \in Seq(W)
    BY <2>2, <2>4, IsSequence
  <2> QED
    BY <2>1, <2>2, <2>5
<1>6. \A w \in W : w.name \in Seq(Int)
  BY <1>5
<1>7. \A w : w \in W <=> \E p \in Open : Occurs(w, rowsOf[p])
  BY DEF Occurs
<1> HIDE DEF W
<1>8. parts \in Seq(Seq(W)) /\ DOMAIN parts = 1 .. n
  BY <1>1, <1>2, <1>5, IsSequence
<1>9. ASSUME NEW w PROVE Occurs(w, Listed(order)) <=> \E p \in Open : Occurs(w, rowsOf[p])
  <2>1. Occurs(w, Listed(order)) <=> \E x \in 1 .. n : Occurs(w, parts[x])
    BY <1>3, <1>8, JoinedOccur
  <2> QED
    BY <1>2, <2>1
<1>10. WellNamed(Listed(order))
  <2>1. Listed(order) \in Seq(W)
    BY <1>3, <1>8, JoinedOccur
  <2> QED
    BY <1>6, <2>1 DEF WellNamed
<1>11. ASSUME NEW l
       PROVE  (\E i \in DOMAIN Listed(order) : Listed(order)[i].name = l)
                <=> \E p \in Open : \E i \in DOMAIN rowsOf[p] : rowsOf[p][i].name = l
  <2>1. (\E i \in DOMAIN Listed(order) : Listed(order)[i].name = l)
           <=> \E w : Occurs(w, Listed(order)) /\ w.name = l
    BY DEF Occurs
  <2>2. (\E p \in Open : \E i \in DOMAIN rowsOf[p] : rowsOf[p][i].name = l)
           <=> \E w : (\E p \in Open : Occurs(w, rowsOf[p])) /\ w.name = l
    BY DEF Occurs
  <2> QED
    BY <1>9, <2>1, <2>2
<1>12. \A p \in Open : rowsOf[p] = RowsIn[p][docs[p]]
  BY DEF rowsOf
<1> DEFINE inList == {Listed(order)[i].name : i \in DOMAIN Listed(order)}
           inOpen == UNION {{RowsIn[p][docs[p]][i].name : i \in DOMAIN RowsIn[p][docs[p]]} : p \in Open}
<1>13. ASSUME NEW l PROVE l \in inList <=> l \in inOpen
  <2>1. l \in inList <=> \E i \in DOMAIN Listed(order) : Listed(order)[i].name = l
    OBVIOUS
  <2>2. l \in inOpen <=> \E p \in Open : \E i \in DOMAIN RowsIn[p][docs[p]] : RowsIn[p][docs[p]][i].name = l
    OBVIOUS
  <2> HIDE DEF inList, inOpen
  <2>3. (\E p \in Open : \E i \in DOMAIN rowsOf[p] : rowsOf[p][i].name = l)
          <=> \E p \in Open : \E i \in DOMAIN RowsIn[p][docs[p]] : RowsIn[p][docs[p]][i].name = l
    BY <1>12
  <2> QED
    BY <1>11, <2>1, <2>2, <2>3, Zenon
<1>14. inList = inOpen
  <2> HIDE DEF inList, inOpen
  <2> QED
    BY <1>13
<1> QED
  BY <1>10, <1>14

\* The word that stands at the cursor now, or the prefix that was sent.
Stands(q) ==
    IF ask[q].prefix # {} THEN ask[q].prefix
    ELSE IF docs[ask[q].path] = Closed THEN AllNames
    ELSE WordAt[docs[ask[q].path]][ask[q].line]

\* A completion at work holds that word, unless the document was written since.
WordInv ==
    /\ DOMAIN word = Asks
    /\ \A q \in Asks :
         /\ step[q] = "prefix" => ask[q].op = "complete" /\ ask[q].prefix = {}
         /\ step[q] = "read" /\ ask[q].op = "complete" /\ q \notin moved => word[q] = Stands(q)

LEMMA WordStep == Shape /\ WordInv /\ [NavNext]_allVars => WordInv'
<1> SUFFICES ASSUME Shape, WordInv, [NavNext]_allVars PROVE WordInv'
  OBVIOUS
<1> USE DEF Shape, WordInv, Stands
<1>1. ASSUME NEW q \in Asks, Ask(q) PROVE WordInv'
  <2>1. PICK a \in AskMenu :
          /\ ask' = [ask EXCEPT ![q] = a]
          /\ word' = [word EXCEPT ![q] = IF a.op = "complete" THEN a.prefix ELSE {}]
          /\ step' = [step EXCEPT ![q] =
                        IF a.op = "complete" /\ a.prefix = {} THEN "prefix" ELSE "read"]
    BY <1>1 DEF Ask
  <2>2. docs' = docs /\ moved' = moved
    BY <1>1 DEF Ask, vars
  <2>3. ask'[q] = a /\ word'[q] = IF a.op = "complete" THEN a.prefix ELSE {}
    BY <2>1
  <2>4. step'[q] = IF a.op = "complete" /\ a.prefix = {} THEN "prefix" ELSE "read"
    BY <2>1
  <2>5. \A o \in Asks \ {q} : ask'[o] = ask[o] /\ word'[o] = word[o] /\ step'[o] = step[o]
    BY <2>1
  <2>6. DOMAIN word' = Asks
    BY <2>1
  <2> QED
    BY <2>2, <2>3, <2>4, <2>5, <2>6
<1>2. ASSUME NEW q \in Asks, ReadWord(q) PROVE WordInv'
  <2>1. /\ word'[q] = IF docs[ask[q].path] = Closed THEN AllNames
                      ELSE WordAt[docs[ask[q].path]][ask[q].line]
        /\ step'[q] = "read" /\ DOMAIN word' = Asks
        /\ \A o \in Asks \ {q} : word'[o] = word[o] /\ step'[o] = step[o]
    BY <1>2 DEF ReadWord
  <2>2. docs' = docs /\ moved' = moved /\ ask' = ask
    BY <1>2 DEF ReadWord, vars
  <2>3. ask[q].prefix = {}
    BY <1>2 DEF ReadWord
  <2> QED
    BY <2>1, <2>2, <2>3
<1>3. ASSUME NEW q \in Asks, Query(q), ~ Ask(q), ~ ReadWord(q) PROVE WordInv'
  <2>1. docs' = docs /\ moved' = moved /\ ask' = ask /\ word' = word
    BY <1>3 DEF Query, RejectAsk, GotoDefinition, FindReferences, WorkspaceSymbols,
                AskHover, AskDiagnostics, Complete, TableFails, ReadFails, vars
  <2>2. /\ \A o \in Asks \ {q} : step'[o] = step[o]
        /\ step'[q] \in {"done", "err"}
    BY <1>3 DEF Query, RejectAsk, GotoDefinition, FindReferences, WorkspaceSymbols,
                AskHover, AskDiagnostics, Complete, TableFails, ReadFails, Answer
  <2> QED
    BY <2>1, <2>2
<1>4. ASSUME NEW r \in Reqs, Writer(r) PROVE WordInv'
  <2>1. ask' = ask /\ step' = step /\ word' = word
    BY <1>4 DEF Writer
  <2>2. moved' = moved \cup {q \in Asks : /\ step[q] = "read" /\ ask[q].op = "complete"
                                          /\ docs'[ask[q].path] # docs[ask[q].path]}
    BY <1>4 DEF Writer
  <2> QED
    BY <2>1, <2>2
<1>5. ASSUME CrashWithQueries PROVE WordInv'
  <2>1. ask' = ask /\ word' = word /\ moved' = moved
    BY <1>5 DEF CrashWithQueries
  <2>2. \A q \in Asks : step'[q] \notin {"prefix", "read"}
    BY <1>5 DEF CrashWithQueries
  <2> QED
    BY <2>1, <2>2
<1>6. CASE UNCHANGED allVars
  BY <1>6 DEF allVars, navVars, vars
<1> QED
  BY <1>1, <1>2, <1>3, <1>4, <1>5, <1>6 DEF NavNext

\* At any time finitely many documents are open.
OpenInv == IsFiniteSet(Open)

LEMMA OpenStep == TypeInv /\ OpenInv /\ [NavNext]_allVars => OpenInv'
<1> SUFFICES ASSUME TypeInv, IsFiniteSet(Open), [NavNext]_allVars PROVE IsFiniteSet(Open')
  BY DEF OpenInv
<1>1. CASE docs' = docs
  BY <1>1 DEF Open
<1>2. ASSUME NEW r \in Reqs, Write(r) \/ Close(r) PROVE IsFiniteSet(Open')
  <2>1. /\ docs \in [Paths -> Contents]
        /\ docs' = [docs EXCEPT ![call[r].path] = r] \/ docs' = [docs EXCEPT ![call[r].path] = Closed]
    BY <1>2 DEF TypeInv, TypeOK, Write, Close
  <2>2. Open' \subseteq Open \cup {call[r].path}
    BY <2>1 DEF Open
  <2>3. IsFiniteSet(Open \cup {call[r].path})
    BY FS_AddElement
  <2> QED
    BY <2>2, <2>3, FS_Subset
<1>3. CASE CrashRestart
  <2>1. Open' = {}
    BY <1>3 DEF CrashRestart, NoDocs, Open
  <2> QED
    BY <2>1, FS_EmptySet
<1>4. [Next]_vars => docs' = docs \/ CrashRestart \/ \E r \in Reqs : Write(r) \/ Close(r)
  BY DEF Next, Step, Submit, Reject, UpdateNotOpen, CloseNotOpen, ParserPanics, StoreFails,
         Snapshot, Replace, ReplaceFails, Remove, RemoveFails, Clear, ClearFails, vars
<1> QED
  BY <1>1, <1>2, <1>3, <1>4, StoreSteps

\* A completion lists each name once and in order, exactly those of the documents that
\* are open when it answers and begin with the word at the cursor, in whatever order the
\* documents are visited (completion.rs, complete); the word is the one that stands there
\* unless the document was written between the two critical sections (lsp/mod.rs,
\* complete).
THEOREM CompletionsAreExact == NavSpec => CompletionIsExact
<1>1. NavInit => TypeInv /\ SyncInv /\ WordInv /\ OpenInv
  <2>1. NavInit => Init
    BY DEF NavInit
  <2>2. Init => SyncInv
    BY DEF Init, SyncInv, SyncOf, NoDocs, RowsOf, SymbolRows
  <2>3. NavInit => WordInv
    BY DEF NavInit, WordInv
  <2>4. Init => Open = {}
    BY DEF Init, NoDocs, Open
  <2> QED
    BY <2>1, <2>2, <2>3, <2>4, InitTyped, FS_EmptySet DEF OpenInv
<1>2. NavSpec => [](TypeInv /\ SyncInv /\ Shape /\ WordInv /\ OpenInv)
  BY <1>1, InitShaped, ShapeStep, QueriesDisturbNothing, WordStep, OpenStep, PTL DEF NavSpec
<1>3. ASSUME TypeInv, Shape, WordInv, OpenInv, [NavNext]_allVars
      PROVE  \A q \in Asks :
               step[q] = "read" /\ step'[q] = "done" /\ ask[q].op = "complete" =>
                 LET c     == docs[ask[q].path]
                     stands == IF ask[q].prefix # {} THEN ask[q].prefix
                               ELSE IF c = Closed THEN AllNames ELSE WordAt[c][ask[q].line]
                     prefix == IF q \in moved THEN word[q] ELSE stands
                     names == UNION {{RowsIn[p][docs[p]][i].name : i \in DOMAIN RowsIn[p][docs[p]]} :
                                       p \in {p \in Paths : docs[p] # Closed}}
                     items == reply'[q]
                 IN  /\ {items[i].label : i \in DOMAIN items} = names \cap prefix
                     /\ \A i, j \in DOMAIN items : i < j => Before(items[i].label, items[j].label)
  <2> SUFFICES ASSUME NEW q \in Asks, step[q] = "read", step'[q] = "done", ask[q].op = "complete"
               PROVE  LET prefix == IF q \in moved THEN word[q] ELSE Stands(q)
                          names == UNION {{RowsIn[p][docs[p]][i].name : i \in DOMAIN RowsIn[p][docs[p]]} :
                                            p \in {p \in Paths : docs[p] # Closed}}
                          items == reply'[q]
                      IN  /\ {items[i].label : i \in DOMAIN items} = names \cap prefix
                          /\ \A i, j \in DOMAIN items : i < j => Before(items[i].label, items[j].label)
    BY Zenon DEF Stands
  <2>1. Complete(q)
    <3>1. ASSUME NEW o \in Asks, Query(o), o # q PROVE step'[q] = step[q]
      BY <1>3, <3>1 DEF Query, Ask, RejectAsk, GotoDefinition, FindReferences, WorkspaceSymbols,
                 AskHover, AskDiagnostics, ReadWord, Complete, TableFails, ReadFails, Answer, Shape
    <3>2. Query(q) => Complete(q)
      BY <1>3 DEF Query, Ask, RejectAsk, GotoDefinition, FindReferences, WorkspaceSymbols,
                 AskHover, AskDiagnostics, ReadWord, TableFails, ReadFails, Answer, Shape
    <3>3. (\E r \in Reqs : Writer(r)) \/ CrashWithQueries \/ UNCHANGED allVars => step'[q] # "done"
      BY <1>3 DEF Writer, CrashWithQueries, allVars, navVars
    <3> QED
      BY <1>3, <3>1, <3>2, <3>3 DEF NavNext
  <2>2. PICK order \in Orders(Open) : reply'[q] = Items(order, word[q])
    BY <1>3, <2>1 DEF Complete, Answer, Shape, Open
  <2> DEFINE names == UNION {{RowsIn[p][docs[p]][i].name : i \in DOMAIN RowsIn[p][docs[p]]} : p \in Open}
             items == Items(order, word[q])
  <2>3. WellNamed(Listed(order)) /\ {Listed(order)[i].name : i \in DOMAIN Listed(order)} = names
    BY <1>3, ListedAre DEF OpenInv
  <2>4. /\ {items[x].label : x \in DOMAIN items} =
              {Listed(order)[i].name : i \in DOMAIN Listed(order)} \cap word[q]
        /\ \A x, y \in DOMAIN items : x < y => Before(items[x].label, items[y].label)
    BY <2>3, ItemsAre
  <2>5. word[q] = IF q \in moved THEN word[q] ELSE Stands(q)
    BY <1>3 DEF WordInv
  <2>6. names = UNION {{RowsIn[p][docs[p]][i].name : i \in DOMAIN RowsIn[p][docs[p]]} :
                         p \in {p \in Paths : docs[p] # Closed}}
    BY DEF Open
  <2> HIDE DEF names, items
  <2>7. /\ {items[x].label : x \in DOMAIN items} = names \cap word[q]
        /\ \A x, y \in DOMAIN items : x < y => Before(items[x].label, items[y].label)
    BY <2>3, <2>4
  <2>8. reply'[q] = items
    BY <2>2 DEF items
  <2> QED
    BY <2>5, <2>6, <2>7, <2>8
<1> QED
  BY <1>2, <1>3, PTL DEF NavSpec, CompletionIsExact

=============================================================================
