----------------------------- MODULE Navigation -----------------------------
(***************************************************************************)
(* The queries of the LSP tools, beside the writers of LspStore.           *)
(*                                                                         *)
(* lsp_goto_definition, lsp_find_references and lsp_workspace_symbols read *)
(* the table lsp_symbols; lsp_hover, lsp_complete and lsp_diagnostics read *)
(* the open documents, lsp_complete in two critical sections.  Both are    *)
(* made from the same syntax tree, at different times.                     *)
(*                                                                         *)
(* A prefix is the set of names that begin with it, a search pattern the   *)
(* set of names it matches.  Only lines count: the column of a position is *)
(* passed down and compared with nothing.  A line reaches these tools only *)
(* from a caller in the process: over the wire it is a floating point      *)
(* number, and the call is refused (IntegerArguments of Protocol).         *)
(***************************************************************************)
EXTENDS LspStore, SymbolTree

CONSTANTS Lang,         \* the language of each path, or "none"
          Tree,         \* the syntax tree of each content, parsed for each path
          SymbolsOf,    \* the symbols the document of each content and path caches
          RowsIn,       \* the symbols of its rows in their order
          Line,         \* the lines of each content: "code", "blank", "comment" or
                        \* "mark", a comment without a word
          Rank,         \* the order of the paths
          WordAt,       \* the word before the cursor, for a content and a line
          AllNames,     \* every name: what the empty prefix begins
          Asks,         \* queries, each used once
          AskMenu,      \* the queries a client may make
          SymbolLimit   \* most results of a workspace search

Parsed(p, c) == IF Lang[p] = "none" THEN <<>> ELSE Symbols(Tree[p][c], Lang[p])

ASSUME CacheAssumption == SymbolsOf = [p \in Paths |-> [c \in Reqs |-> Parsed(p, c)]]
ASSUME RowsAssumption  == RowsIn = [p \in Paths |-> [c \in Reqs |-> Flattened(Parsed(p, c))]]
ASSUME CountAssumption == NSyms = [p \in Paths |-> [c \in Reqs |-> Len(RowsIn[p][c])]]
ASSUME TreesAssumption ==
    \A p \in Paths : \A c \in Reqs :
        Lang[p] # "none" => IsTree(Tree[p][c]) /\ LinesNest(Tree[p][c])
ASSUME LinesAssumption  == \A a \in AskMenu : a.op = "hover" => a.line \in Nat
ASSUME LimitsAssumption == SymbolLimit \in Nat \ {0}

VARIABLES
    ask, step,   \* what each query asks and its next step
    word,        \* the prefix lsp_complete has settled on
    reply,       \* the answer
    moved        \* history: the document was written after the prefix was read

navVars == <<ask, step, word, reply, moved>>
allVars == <<vars, navVars>>

NoAsk    == [op |-> "none"]
NoSymbol == [node |-> 0]

NavInit ==
    /\ Init
    /\ ask = [q \in Asks |-> NoAsk]
    /\ step = [q \in Asks |-> "idle"]
    /\ word = [q \in Asks |-> {}]
    /\ reply = [q \in Asks |-> <<>>]
    /\ moved = {}

-----------------------------------------------------------------------------
(* Reading the table *)

SymbolOf(x)     == RowsIn[x.path][x.of][x.sym]
Covers(s, line) == s.first <= line /\ line <= s.last
Span(s)         == s.last - s.first

\* Rows of p around a line with the fewest lines; the query has no second key.
Narrowest(p, line) ==
    LET around == {x \in RowsOf(p) : Covers(SymbolOf(x), line)}
    IN  {x \in around : \A y \in around : Span(SymbolOf(x)) <= Span(SymbolOf(y))}

\* ORDER BY document_path, start_line.
Precedes(x, y) ==
    \/ Rank[x.path] < Rank[y.path]
    \/ x.path = y.path /\ SymbolOf(x).first < SymbolOf(y).first

Named(name) == {x \in rows : SymbolOf(x).name = name}

\* Mutation: rows with the name are taken from any document alike.
FirstAnywhere(p, found) ==
    {x \in found : \A y \in found : SymbolOf(x).first <= SymbolOf(y).first}

\* ORDER BY the document asked from first, then the line.
FirstMatch(p, found) ==
    LET home == {x \in found : x.path = p}
        from == IF home = {} THEN found ELSE home
    IN  {x \in from : \A y \in from : SymbolOf(x).first <= SymbolOf(y).first}

-----------------------------------------------------------------------------
(* Reading a document *)

\* Among symbols without children: the first of the smallest.
FirstSmallest(symbols, line) ==
    LET around == {i \in DOMAIN symbols : Covers(symbols[i], line)}
    IN  IF around = {} THEN NoSymbol
        ELSE symbols[CHOOSE i \in around : \A j \in around :
                        /\ Span(symbols[i]) <= Span(symbols[j])
                        /\ Span(symbols[i]) = Span(symbols[j]) => i <= j]

\* A child around the line wins over everything before it; a symbol without
\* one wins only if it is smaller.
FindSymbolAt(symbols, line) ==
    LET Best[i \in 0 .. Len(symbols)] ==
          IF i = 0 THEN NoSymbol
          ELSE LET s     == symbols[i]
                   child == FirstSmallest(s.children, line)
               IN  IF ~Covers(s, line) THEN Best[i - 1]
                   ELSE IF child # NoSymbol THEN child
                   ELSE IF Best[i - 1] = NoSymbol \/ Span(s) < Span(Best[i - 1]) THEN s
                   ELSE Best[i - 1]
    IN  Best[Len(symbols)]

SymbolAt(p, line) ==
    IF docs[p] = Closed THEN NoSymbol ELSE FindSymbolAt(SymbolsOf[p][docs[p]], line)

\* The last comment line with a word among the five above a symbol, if there is no
\* code between; lines are counted from 0 and Line[c] from 1.
PrecedingComment(lines, first) ==
    LET above    == {i \in DOMAIN lines : first - 5 < i /\ i <= first}
        comments == {i \in above : /\ lines[i] = "comment"
                                   /\ \A k \in above : k > i => lines[k] # "code"}
    IN  IF comments = {} THEN 0 ELSE CHOOSE i \in comments : \A k \in comments : k <= i

Hover(p, line) ==
    LET s == SymbolAt(p, line)
    IN  IF s = NoSymbol THEN <<>> ELSE <<s, PrecedingComment(Line[docs[p]], s.first)>>

\* Names as the alphabet has them, by their first different text.
Before(a, b) ==
    \E i \in 1 .. Len(b) :
        /\ i <= Len(a) + 1
        /\ \A j \in 1 .. i - 1 : a[j] = b[j]
        /\ i = Len(a) + 1 \/ a[i] < b[i]

Orders(S) == {o \in [1 .. Cardinality(S) -> S] : \A i, j \in DOMAIN o : i # j => o[i] # o[j]}

\* The rows of open documents, one document after the other.
Listed(order) == Joined([i \in DOMAIN order |-> RowsIn[order[i]][docs[order[i]]]])

\* The items of the symbols at these places, sorted by label; the sort is stable.
SortedItems(all, places) ==
    LET first(i, j) == \/ Before(all[i].name, all[j].name)
                       \/ all[i].name = all[j].name /\ i < j
        sorted == [k \in 1 .. Cardinality(places) |->
                     CHOOSE i \in places : Cardinality({j \in places : first(j, i)}) = k - 1]
    IN  [k \in DOMAIN sorted |-> [label |-> all[sorted[k]].name, kind |-> all[sorted[k]].kind]]

\* Mutation: a label is offered for each symbol that has it.
ItemsWithRepeats(order, prefix) ==
    LET all == Listed(order)
    IN  SortedItems(all, {i \in DOMAIN all : all[i].name \in prefix})

\* The first symbol of each name that begins with the prefix.
Items(order, prefix) ==
    LET all == Listed(order)
    IN  SortedItems(all, {i \in DOMAIN all : /\ all[i].name \in prefix
                                             /\ \A j \in 1 .. i - 1 : all[j].name # all[i].name})

\* Error and missing nodes in the order of the text.
Errors(t) == InOrder({n \in DOMAIN t : t[n].kind \in {"ERROR", "MISSING"}})

Diagnostics(p) ==
    IF docs[p] = Closed \/ Lang[p] = "none" THEN <<>>
    ELSE Errors(Tree[p][docs[p]])

-----------------------------------------------------------------------------
(* The handlers *)

Answer(q, what) == reply' = [reply EXCEPT ![q] = what] /\ step' = [step EXCEPT ![q] = "done"]

Ask(q) ==
    /\ step[q] = "idle"
    /\ \E a \in AskMenu :
         /\ ask' = [ask EXCEPT ![q] = a]
         /\ word' = [word EXCEPT ![q] = IF a.op = "complete" THEN a.prefix ELSE {}]
         /\ step' = [step EXCEPT ![q] =
                       IF a.op = "complete" /\ a.prefix = {} THEN "prefix" ELSE "read"]
    /\ UNCHANGED <<vars, reply, moved>>

\* A required argument is missing.
RejectAsk(q) ==
    /\ step[q] = "idle"
    /\ step' = [step EXCEPT ![q] = "err"]
    /\ UNCHANGED <<vars, ask, word, reply, moved>>

\* One connection for both statements: the name at the line, then its first row.
GotoDefinition(q) ==
    /\ step[q] = "read" /\ ask[q].op = "definition"
    /\ LET at == Narrowest(ask[q].path, ask[q].line)
       IN  IF at = {} THEN Answer(q, <<>>)
           ELSE \E x \in at : \E y \in FirstMatch(ask[q].path, Named(SymbolOf(x).name)) :
                    Answer(q, <<y>>)
    /\ UNCHANGED <<vars, ask, word, moved>>

\* All rows with the name, as a set: their order is the table's.
FindReferences(q) ==
    /\ step[q] = "read" /\ ask[q].op = "references"
    /\ LET at == Narrowest(ask[q].path, ask[q].line)
       IN  IF at = {} THEN Answer(q, <<>>)
           ELSE \E x \in at : Answer(q, <<Named(SymbolOf(x).name)>>)
    /\ UNCHANGED <<vars, ask, word, moved>>

\* The first SymbolLimit rows by path and line that the pattern matches.
WorkspaceSymbols(q) ==
    /\ step[q] = "read" /\ ask[q].op = "workspace"
    /\ LET match == {x \in rows : SymbolOf(x).name \in ask[q].pattern}
           first == {S \in SUBSET match :
                       /\ Cardinality(S) = SymbolLimit \/ (S = match /\ Cardinality(S) < SymbolLimit)
                       /\ \A x \in S, y \in match \ S : ~Precedes(y, x)}
       IN  \E S \in first : Answer(q, <<S>>)
    /\ UNCHANGED <<vars, ask, word, moved>>

AskHover(q) ==
    /\ step[q] = "read" /\ ask[q].op = "hover" /\ ~poisoned
    /\ Answer(q, Hover(ask[q].path, ask[q].line))
    /\ UNCHANGED <<vars, ask, word, moved>>

AskDiagnostics(q) ==
    /\ step[q] = "read" /\ ask[q].op = "diagnostics" /\ ~poisoned
    /\ Answer(q, Diagnostics(ask[q].path))
    /\ UNCHANGED <<vars, ask, word, moved>>

\* The word before the cursor; a document that is not open has the empty word.
ReadWord(q) ==
    /\ step[q] = "prefix" /\ ~poisoned
    /\ LET c == docs[ask[q].path]
       IN  word' = [word EXCEPT ![q] =
                      IF c = Closed THEN AllNames ELSE WordAt[c][ask[q].line]]
    /\ step' = [step EXCEPT ![q] = "read"]
    /\ UNCHANGED <<vars, ask, reply, moved>>

\* All open documents, in the order of the hash map.
Complete(q) ==
    /\ step[q] = "read" /\ ask[q].op = "complete" /\ ~poisoned
    /\ LET open == {p \in Paths : docs[p] # Closed}
       IN  \E order \in Orders(open) : Answer(q, Items(order, word[q]))
    /\ UNCHANGED <<vars, ask, word, moved>>

\* A statement on the table fails.
TableFails(q) ==
    /\ step[q] = "read" /\ ask[q].op \in {"definition", "references", "workspace"}
    /\ Fault
    /\ step' = [step EXCEPT ![q] = "err"]
    /\ UNCHANGED <<docs, poisoned, rows, call, pc, snap, todo, tainted, cut,
                   ask, word, reply, moved>>

ReadFails(q) ==
    /\ poisoned
    /\ step[q] = "prefix" \/ (step[q] = "read" /\ ask[q].op \in {"hover", "complete", "diagnostics"})
    /\ step' = [step EXCEPT ![q] = "err"]
    /\ UNCHANGED <<vars, ask, word, reply, moved>>

\* A writer's step; a document written while a completion holds its word.
Writer(r) ==
    /\ Submit(r) \/ Reject(r) \/ Step(r)
    /\ moved' = moved \cup {q \in Asks : /\ step[q] = "read" /\ ask[q].op = "complete"
                                        /\ docs'[ask[q].path] # docs[ask[q].path]}
    /\ UNCHANGED <<ask, step, word, reply>>

\* The process ends with the queries it was working on.
CrashWithQueries ==
    /\ CrashRestart
    /\ step' = [q \in Asks |-> IF step[q] \in {"prefix", "read"} THEN "lost" ELSE step[q]]
    /\ UNCHANGED <<ask, word, reply, moved>>

-----------------------------------------------------------------------------
Query(q) ==
    \/ Ask(q) \/ RejectAsk(q) \/ GotoDefinition(q) \/ FindReferences(q) \/ WorkspaceSymbols(q)
    \/ AskHover(q) \/ AskDiagnostics(q) \/ ReadWord(q) \/ Complete(q)
    \/ TableFails(q) \/ ReadFails(q)

NavNext ==
    \/ \E r \in Reqs : Writer(r)
    \/ \E q \in Asks : Query(q)
    \/ CrashWithQueries

NavSpec == NavInit /\ [][NavNext]_allVars

-----------------------------------------------------------------------------
(* Properties *)

\* No request will still write p and none was passed.
Settled(p) == p \in Paths \ tainted /\ \A r \in Reqs : ~Owes(r, p)

\* Two symbols of the top level share the line.
Shared(p, line) ==
    /\ docs[p] # Closed
    /\ \E i, j \in DOMAIN SymbolsOf[p][docs[p]] :
         /\ i # j
         /\ Covers(SymbolsOf[p][docs[p]][i], line)
         /\ Covers(SymbolsOf[p][docs[p]][j], line)

\* What hover shows of the document is a smallest symbol of the table at the
\* same line (hover.rs:54 says the smallest), so a hover and a definition
\* asked at one place speak of one symbol; except where top-level symbols share the
\* line, where hover prefers whatever has a child there.
HoverIsNarrowest ==
    \A p \in Paths : \A line \in {a.line : a \in {b \in AskMenu : b.op = "hover"}} :
        Settled(p) /\ ~Shared(p, line) =>
            LET at == Narrowest(p, line)
            IN  IF at = {} THEN SymbolAt(p, line) = NoSymbol
                ELSE \E x \in at : SymbolOf(x) = SymbolAt(p, line)

\* The first symbols of the document that is open at p to bear the name of one of
\* its narrowest at the line.
FirstNamesakes(p, line) ==
    LET symbols  == IF docs[p] = Closed THEN <<>> ELSE RowsIn[p][docs[p]]
        around   == {i \in DOMAIN symbols : Covers(symbols[i], line)}
        smallest == {i \in around : \A k \in around : Span(symbols[i]) <= Span(symbols[k])}
        bear(i)  == {j \in DOMAIN symbols : symbols[j].name = symbols[i].name}
    IN  UNION {{j \in bear(i) : \A k \in bear(i) : symbols[j].first <= symbols[k].first} : i \in smallest}

\* A definition is answered from the document asked and is among the references
\* of the same place at that moment, whatever other documents declare the name
\* (resolution.rs:128 looks in all documents).  Where store and table agree it is
\* the first symbol of the open document with the name of a narrowest one at the
\* line, and there is none only if no symbol of the document is there.
DefinitionStaysHome ==
    [][\A q \in Asks :
         step[q] = "read" /\ step'[q] = "done" /\ ask[q].op = "definition" =>
           LET p    == ask[q].path
               line == ask[q].line
           IN  /\ \A n \in DOMAIN reply'[q] :
                     /\ reply'[q][n].path = p
                     /\ \E x \in Narrowest(p, line) : reply'[q][n] \in Named(SymbolOf(x).name)
               /\ Settled(p) =>
                     \/ FirstNamesakes(p, line) = {} /\ reply'[q] = <<>>
                     \/ \E j \in FirstNamesakes(p, line) :
                          reply'[q] = <<[path |-> p, of |-> docs[p], sym |-> j]>>]_allVars

\* A location that a query answers is of the content that is open, unless a
\* writer was passed, failed or has not finished there.
NavigationIsCurrent ==
    [][\A q \in Asks :
         step[q] = "read" /\ step'[q] = "done" /\ ask[q].op \in {"definition", "references", "workspace"} =>
           \A x \in IF ask[q].op = "definition" THEN {reply'[q][i] : i \in DOMAIN reply'[q]}
                    ELSE UNION {reply'[q][i] : i \in DOMAIN reply'[q]} :
               Settled(x.path) => x.of = docs[x.path]]_allVars

\* A completion offers each name once, in order, and exactly the names of the
\* documents open at that moment that begin with the word at the cursor, in
\* whatever order the hash map lists them; the word is the one that stands there
\* now unless the document was written in between.
CompletionIsExact ==
    [][\A q \in Asks :
         step[q] = "read" /\ step'[q] = "done" /\ ask[q].op = "complete" =>
           LET c     == docs[ask[q].path]
               stands == IF ask[q].prefix # {} THEN ask[q].prefix
                         ELSE IF c = Closed THEN AllNames ELSE WordAt[c][ask[q].line]
               prefix == IF q \in moved THEN word[q] ELSE stands
               names == UNION {{RowsIn[p][docs[p]][i].name : i \in DOMAIN RowsIn[p][docs[p]]} :
                                 p \in {p \in Paths : docs[p] # Closed}}
               items == reply'[q]
           IN  /\ {items[i].label : i \in DOMAIN items} = names \cap prefix
               /\ \A i, j \in DOMAIN items : i < j => Before(items[i].label, items[j].label)]_allVars
=============================================================================
