------------------------------ MODULE LspStore ------------------------------
(***************************************************************************)
(* The LSP document store and its symbol index.                            *)
(*                                                                         *)
(* LspStore keeps the open documents in memory behind one mutex and their  *)
(* symbols in the SQLite table lsp_symbols behind another.  open, update,  *)
(* close and build_index change first one and then the other, each in a    *)
(* critical section of its own, on a blocking thread per request, so two   *)
(* requests can pass each other between the sections.  The table survives  *)
(* the process, the documents do not.                                      *)
(*                                                                         *)
(* A document's content is named by the request that stored it; parsed in  *)
(* the language of path p, the content of request r has NSyms[p][r]        *)
(* symbols, which are inserted in the order of their numbers.              *)
(***************************************************************************)
EXTENDS Integers, FiniteSets

CONSTANTS Reqs,        \* requests, each used once
          Paths,       \* document paths
          Menu,        \* the tool calls a client may make
          NSyms,       \* symbols of each content at each path
          Closed,      \* not a request: the document is not open
          MaxFaults,   \* bound on injected failures
          MaxCrashes   \* bound on crashes

Calls == [op : {"open", "update", "close"}, path : Paths] \cup [op : {"build"}]

ASSUME MenuAssumption   == Menu \subseteq Calls
ASSUME ClosedAssumption == Closed \notin Reqs
ASSUME SymsAssumption   == NSyms \in [Paths -> [Reqs -> Nat]]
ASSUME LimitAssumption  == MaxFaults \in Nat /\ MaxCrashes \in Nat

Contents == Reqs \cup {Closed}
Rows     == [path : Paths, of : Reqs, sym : Nat \ {0}]

VARIABLES
    docs,      \* DocumentStore: the content of each open document
    poisoned,  \* its mutex is poisoned
    rows,      \* table lsp_symbols
    call, pc,  \* what each request does and its next step
    snap,      \* the documents it has read from the store
    todo,      \* the paths it has still to write to the table
    faults, crashes,
    tainted,   \* history: paths whose rows may differ from the store
    cut        \* history: paths whose replacement stopped half way

vars == <<docs, poisoned, rows, call, pc, snap, todo, faults, crashes, tainted, cut>>

Working  == {"store", "snapshot", "replace", "remove", "clear"}
Finished == {"ok", "err", "lost"}
NoCall   == [op |-> "none"]
NoDocs   == [p \in Paths |-> Closed]

TypeOK ==
    /\ docs \in [Paths -> Contents] /\ poisoned \in BOOLEAN
    /\ rows \in SUBSET Rows
    /\ call \in [Reqs -> Calls \cup {NoCall}]
    /\ pc \in [Reqs -> {"idle"} \cup Working \cup Finished]
    /\ snap \in [Reqs -> [Paths -> Contents]]
    /\ todo \in [Reqs -> SUBSET Paths]
    /\ faults \in 0 .. MaxFaults /\ crashes \in 0 .. MaxCrashes
    /\ tainted \in SUBSET Paths /\ cut \in SUBSET Paths

\* The table starts empty (init_schema creates it) and no document is open.
Init ==
    /\ docs = NoDocs /\ poisoned = FALSE /\ rows = {}
    /\ call = [r \in Reqs |-> NoCall]
    /\ pc = [r \in Reqs |-> "idle"]
    /\ snap = [r \in Reqs |-> NoDocs]
    /\ todo = [r \in Reqs |-> {}]
    /\ faults = 0 /\ crashes = 0
    /\ tainted = {} /\ cut = {}

-----------------------------------------------------------------------------
(* Helpers *)

RowsOf(p)     == {x \in rows : x.path = p}
SymbolRows(p, c) == IF c = Closed THEN {} ELSE [path : {p}, of : {c}, sym : 1 .. NSyms[p][c]]
Goto(r, step) == pc' = [pc EXCEPT ![r] = step]
Scope(r)      == IF call[r].op = "build" THEN Paths ELSE {call[r].path}

Fault == faults < MaxFaults /\ faults' = faults + 1 /\ UNCHANGED crashes

\* Request r is about to write p to the table as it has read it before.
Holds(r, p) == \/ pc[r] = "replace" /\ p \in todo[r]
               \/ pc[r] = "remove" /\ call[r].path = p

\* Request r will still write p to the table, unless the document is closed.
Owes(r, p) == Holds(r, p) \/ (pc[r] = "snapshot" /\ p \in Scope(r))

OtherHolds(r, p) == \E q \in Reqs \ {r} : Holds(q, p)

\* A store write while another request holds what it has read makes p suspect.
TaintIfHeld(r, p) ==
    tainted' = IF OtherHolds(r, p) THEN tainted \cup {p} ELSE tainted

-----------------------------------------------------------------------------
(* The document store, one critical section *)

Submit(r) ==
    /\ pc[r] = "idle"
    /\ \E c \in Menu :
         /\ call' = [call EXCEPT ![r] = c]
         /\ Goto(r, IF c.op = "build" THEN "clear" ELSE "store")
    /\ UNCHANGED <<docs, poisoned, rows, snap, todo, faults, crashes, tainted, cut>>

\* A required argument is missing.
Reject(r) ==
    /\ pc[r] = "idle"
    /\ Goto(r, "err")
    /\ UNCHANGED <<docs, poisoned, rows, call, snap, todo, faults, crashes, tainted, cut>>

\* docs.open replaces whatever was there; docs.update needs an open document.
Write(r) ==
    /\ pc[r] = "store" /\ ~poisoned
    /\ call[r].op \in {"open", "update"}
    /\ call[r].op = "update" => docs[call[r].path] # Closed
    /\ docs' = [docs EXCEPT ![call[r].path] = r]
    /\ TaintIfHeld(r, call[r].path)
    /\ Goto(r, "snapshot")
    /\ UNCHANGED <<poisoned, rows, call, snap, todo, faults, crashes, cut>>

UpdateNotOpen(r) ==
    /\ pc[r] = "store" /\ ~poisoned
    /\ call[r].op = "update" /\ docs[call[r].path] = Closed
    /\ Goto(r, "err")
    /\ UNCHANGED <<docs, poisoned, rows, call, snap, todo, faults, crashes, tainted, cut>>

\* Mutation: closing leaves an empty entry behind.
CloseLeavesEntry(r) ==
    /\ pc[r] = "store" /\ ~poisoned
    /\ call[r].op = "close" /\ docs[call[r].path] # Closed
    /\ docs' = [docs EXCEPT ![call[r].path] = "empty"]
    /\ Goto(r, "remove")
    /\ UNCHANGED <<poisoned, rows, call, snap, todo, faults, crashes, tainted, cut>>

\* The rows are removed only if the document was open.
Close(r) ==
    /\ pc[r] = "store" /\ ~poisoned
    /\ call[r].op = "close" /\ docs[call[r].path] # Closed
    /\ docs' = [docs EXCEPT ![call[r].path] = Closed]
    /\ TaintIfHeld(r, call[r].path)
    /\ Goto(r, "remove")
    /\ UNCHANGED <<poisoned, rows, call, snap, todo, faults, crashes, cut>>

CloseNotOpen(r) ==
    /\ pc[r] = "store" /\ ~poisoned
    /\ call[r].op = "close" /\ docs[call[r].path] = Closed
    /\ Goto(r, "ok")
    /\ UNCHANGED <<docs, poisoned, rows, call, snap, todo, faults, crashes, tainted, cut>>

\* The extractor panics under the store's mutex: the request fails and every
\* later use of the store does too.
ParserPanics(r) ==
    /\ pc[r] = "store" /\ ~poisoned
    /\ call[r].op \in {"open", "update"}
    /\ call[r].op = "update" => docs[call[r].path] # Closed
    /\ Fault
    /\ poisoned' = TRUE
    /\ Goto(r, "err")
    /\ UNCHANGED <<docs, rows, call, snap, todo, tainted, cut>>

\* Mutation: a retry loop around a poisoned store.
StoreRetries(r) ==
    /\ pc[r] \in {"store", "snapshot"} /\ poisoned
    /\ UNCHANGED vars

\* Also the snapshot of a build_index that has already cleared the table.
StoreFails(r) ==
    /\ pc[r] \in {"store", "snapshot"} /\ poisoned
    /\ tainted' = IF pc[r] = "snapshot" THEN tainted \cup Scope(r) ELSE tainted
    /\ Goto(r, "err")
    /\ UNCHANGED <<docs, poisoned, rows, call, snap, todo, faults, crashes, cut>>

\* Mutation: what is written is the caller's content, not what the store holds.
SnapshotOwn(r) ==
    /\ pc[r] = "snapshot" /\ ~poisoned
    /\ snap' = [snap EXCEPT ![r] = [p \in Paths |-> IF call[r].op = "build" THEN docs[p] ELSE r]]
    /\ LET open == {p \in Scope(r) : snap'[r][p] # Closed}
       IN  /\ todo' = [todo EXCEPT ![r] = open]
           /\ Goto(r, IF open = {} THEN "ok" ELSE "replace")
    /\ UNCHANGED <<docs, poisoned, rows, call, faults, crashes, tainted, cut>>

\* docs.get for one document, docs.all_documents for build_index.
Snapshot(r) ==
    /\ pc[r] = "snapshot" /\ ~poisoned
    /\ snap' = [snap EXCEPT ![r] = docs]
    /\ LET open == {p \in Scope(r) : docs[p] # Closed}
       IN  /\ todo' = [todo EXCEPT ![r] = open]
           /\ Goto(r, IF open = {} THEN "ok" ELSE "replace")
    /\ UNCHANGED <<docs, poisoned, rows, call, faults, crashes, tainted, cut>>

-----------------------------------------------------------------------------
(* The symbol table, one critical section of the connection *)

\* Mutation: only the first symbol is inserted, not its children.
ReplaceTopOnly(r) ==
    /\ pc[r] = "replace"
    /\ \E p \in todo[r] :
         /\ rows' = (rows \ RowsOf(p)) \cup {x \in SymbolRows(p, snap[r][p]) : x.sym = 1}
         /\ todo' = [todo EXCEPT ![r] = @ \ {p}]
         /\ cut' = cut \ {p}
         /\ Goto(r, IF todo[r] = {p} THEN "ok" ELSE "replace")
    /\ UNCHANGED <<docs, poisoned, call, snap, faults, crashes, tainted>>

\* Mutation: the old rows are left in place.
ReplaceWithoutDelete(r) ==
    /\ pc[r] = "replace"
    /\ \E p \in todo[r] :
         /\ rows' = rows \cup SymbolRows(p, snap[r][p])
         /\ todo' = [todo EXCEPT ![r] = @ \ {p}]
         /\ cut' = cut \ {p}
         /\ Goto(r, IF todo[r] = {p} THEN "ok" ELSE "replace")
         /\ tainted' = IF docs[p] = snap[r][p] /\ ~OtherHolds(r, p)
                       THEN tainted \ {p} ELSE tainted
    /\ UNCHANGED <<docs, poisoned, call, snap, faults, crashes>>

\* DELETE, then one INSERT a symbol; an undisturbed write of what the store
\* holds makes the path sound again.
Replace(r) ==
    /\ pc[r] = "replace"
    /\ \E p \in todo[r] :
         /\ rows' = (rows \ RowsOf(p)) \cup SymbolRows(p, snap[r][p])
         /\ todo' = [todo EXCEPT ![r] = @ \ {p}]
         /\ cut' = cut \ {p}
         /\ Goto(r, IF todo[r] = {p} THEN "ok" ELSE "replace")
         /\ tainted' = IF docs[p] = snap[r][p] /\ ~OtherHolds(r, p)
                       THEN tainted \ {p} ELSE tainted
    /\ UNCHANGED <<docs, poisoned, call, snap, faults, crashes>>

\* There is no transaction: each statement commits, so what stops between two of
\* them leaves the DELETE and the first k INSERTs.
StopsHalfWay(r) ==
    /\ pc[r] = "replace"
    /\ \E p \in todo[r] : \E k \in 0 .. NSyms[p][snap[r][p]] - 1 :
         /\ rows' = (rows \ RowsOf(p)) \cup {x \in SymbolRows(p, snap[r][p]) : x.sym <= k}
         /\ cut' = cut \cup {p}

\* A statement fails (the memory tools write the same file) and the loop stops.
ReplaceFails(r) ==
    /\ pc[r] = "replace"
    /\ Fault
    /\ UNCHANGED <<rows, cut>> \/ StopsHalfWay(r)
    /\ tainted' = tainted \cup todo[r]
    /\ Goto(r, "err")
    /\ UNCHANGED <<docs, poisoned, call, snap, todo>>

Remove(r) ==
    /\ pc[r] = "remove"
    /\ LET p == call[r].path
       IN  /\ rows' = rows \ RowsOf(p)
           /\ cut' = cut \ {p}
           /\ tainted' = IF docs[p] = Closed /\ ~OtherHolds(r, p)
                         THEN tainted \ {p} ELSE tainted
    /\ Goto(r, "ok")
    /\ UNCHANGED <<docs, poisoned, call, snap, todo, faults, crashes>>

RemoveFails(r) ==
    /\ pc[r] = "remove"
    /\ Fault
    /\ tainted' = tainted \cup {call[r].path}
    /\ Goto(r, "err")
    /\ UNCHANGED <<docs, poisoned, rows, call, snap, todo, cut>>

\* build_index empties the table before it looks at the store.
Clear(r) ==
    /\ pc[r] = "clear"
    /\ rows' = {}
    /\ cut' = {}
    /\ tainted' = {p \in tainted : docs[p] # Closed \/ OtherHolds(r, p)}
    /\ Goto(r, "snapshot")
    /\ UNCHANGED <<docs, poisoned, call, snap, todo, faults, crashes>>

ClearFails(r) ==
    /\ pc[r] = "clear"
    /\ Fault
    /\ Goto(r, "err")
    /\ UNCHANGED <<docs, poisoned, rows, call, snap, todo, tainted, cut>>

\* The process ends, between two statements or in the middle of a replacement,
\* and starts again: the rows are there, the documents not.
CrashRestart ==
    /\ crashes < MaxCrashes
    /\ crashes' = crashes + 1
    /\ pc' = [r \in Reqs |-> IF pc[r] \in Working THEN "lost" ELSE pc[r]]
    /\ docs' = NoDocs /\ poisoned' = FALSE
    /\ UNCHANGED <<rows, cut>> \/ \E r \in Reqs : StopsHalfWay(r)
    /\ tainted' = {x.path : x \in rows'}
    /\ UNCHANGED <<call, snap, todo, faults>>

-----------------------------------------------------------------------------
Step(r) ==
    \/ Write(r) \/ UpdateNotOpen(r) \/ Close(r) \/ CloseNotOpen(r)
    \/ ParserPanics(r) \/ StoreFails(r) \/ Snapshot(r)
    \/ Replace(r) \/ ReplaceFails(r) \/ Remove(r) \/ RemoveFails(r)
    \/ Clear(r) \/ ClearFails(r)

Next ==
    \/ \E r \in Reqs : Submit(r) \/ Reject(r) \/ Step(r)
    \/ CrashRestart

Spec == Init /\ [][Next]_vars

\* A blocking thread that can run does.
FairSpec == Spec /\ \A r \in Reqs : WF_vars(Step(r))

-----------------------------------------------------------------------------
(* Properties *)

\* When no request is between the store and the table for p, the table holds
\* exactly the symbols of the open document at p, and none if it is closed,
\* unless a store write passed a request that held an older snapshot, a
\* statement failed, or the process restarted, since p was last written.
IndexFollowsStore ==
    \A p \in Paths \ tainted :
        (\A r \in Reqs : ~Owes(r, p)) => RowsOf(p) = SymbolRows(p, docs[p])

OneContentPerPath == \A x, y \in rows : x.path = y.path => x.of = y.of
NothingMissing    == \A p \in Paths \ cut : \E c \in Contents : RowsOf(p) = SymbolRows(p, c)

\* The rows of a path are symbols of one content, never of two, and all of them
\* unless its last replacement stopped half way: a statement failed, or the
\* process ended between two.
WholeReplacement == OneContentPerPath /\ NothingMissing

\* Every request that starts is answered or lost with the process, also after
\* the store is poisoned.
EveryRequestEnds == \A r \in Reqs : pc[r] \in Working ~> pc[r] \in Finished
=============================================================================
