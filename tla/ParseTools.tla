----------------------------- MODULE ParseTools -----------------------------
(***************************************************************************)
(* The tools parse_file, get_symbols and get_imports.                      *)
(*                                                                         *)
(* All calls share two parsers, each behind a mutex: one that shows the    *)
(* syntax tree and one inside the symbol extractor.  A parser remembers    *)
(* the language it is set to, so a call's answer depends on the calls      *)
(* before it unless that memory is right.  A panic while the extractor is  *)
(* locked poisons its mutex for good.                                      *)
(*                                                                         *)
(* A source is a text with its syntax tree in the language it is written   *)
(* in; in another grammar it is one error node, in which there is nothing. *)
(***************************************************************************)
EXTENDS SymbolTree

CONSTANTS Reqs,      \* requests, each used once
          Sources,   \* a sequence of texts, each a record [lang, tree]
          Menu,      \* the tool calls a client may make
          NoLang     \* no language: a fresh parser, or none detected

SymbolKinds == {"function", "method", "class", "struct", "interface", "enum", "trait",
                "variable", "constant", "module", "import", "export", "field", "type",
                "property", "constructor", "event"}

\* What detect_language or the caller names, one language without a grammar too.
Named == Languages \cup {"fortran"}

ASSUME MenuAssumption ==
    \A c \in Menu : /\ c.op \in {"parse_file", "get_symbols", "get_imports"}
                    /\ c.lang \in Named /\ c.source \in DOMAIN Sources
                    /\ c.op = "parse_file" => c.ast \in BOOLEAN
                    /\ c.op = "get_symbols" => c.filter \subseteq SymbolKinds \cup {"all", "other"}

ASSUME SourcesAssumption ==
    \A s \in DOMAIN Sources : IsTree(Sources[s].tree) /\ Sources[s].lang \in Languages

ASSUME NoLangAssumption == NoLang \notin Named

VARIABLES
    extractor,  \* the parser behind the extractor's mutex
    parser,     \* the parser for syntax trees
    call, pc,   \* what each request does and its next step
    answer      \* the symbols answered to each request

vars == <<extractor, parser, call, pc, answer>>

NoCall == [op |-> "none"]
Fresh  == [cached |-> NoLang, grammar |-> NoLang, poisoned |-> FALSE]

Parsers == [cached : Named \cup {NoLang}, grammar : Languages \cup {NoLang},
            poisoned : BOOLEAN]

TypeOK ==
    /\ extractor \in Parsers /\ parser \in Parsers
    /\ \A r \in Reqs : call[r] \in Menu \cup {NoCall}
    /\ pc \in [Reqs -> {"idle", "ast", "extract", "ok", "err"}]
    /\ \A r \in Reqs : \A i \in DOMAIN answer[r] : answer[r][i].kind \in SymbolKinds

Init ==
    /\ extractor = Fresh /\ parser = Fresh
    /\ call = [r \in Reqs |-> NoCall]
    /\ pc = [r \in Reqs |-> "idle"]
    /\ answer = [r \in Reqs |-> <<>>]

Goto(r, step) == pc' = [pc EXCEPT ![r] = step]

-----------------------------------------------------------------------------
(* ParserWrapper *)

\* Mutation: the language is remembered before it is looked up.
EnsureRemembersFirst(p, lang) ==
    IF p.cached = lang THEN p
    ELSE [p EXCEPT !.cached = lang, !.grammar = IF lang \in Languages THEN lang ELSE @]

\* ensure_language: unknown languages are refused and change nothing.
EnsureLanguage(p, lang) ==
    IF p.cached = lang \/ lang \notin Languages THEN p
    ELSE [p EXCEPT !.cached = lang, !.grammar = lang]

\* The call may go on with the parser as EnsureLanguage leaves it.
Supported(p, lang) == p.cached = lang \/ lang \in Languages

-----------------------------------------------------------------------------
(* The handlers *)

Submit(r) ==
    /\ pc[r] = "idle"
    /\ \E c \in Menu :
         /\ call' = [call EXCEPT ![r] = c]
         /\ Goto(r, IF c.op = "parse_file" /\ c.ast THEN "ast" ELSE "extract")
    /\ UNCHANGED <<extractor, parser, answer>>

\* No content, or no language given and none known for the path.
Reject(r) ==
    /\ pc[r] = "idle"
    /\ Goto(r, "err")
    /\ UNCHANGED <<extractor, parser, call, answer>>

\* The parser is locked for the tree and released before the extractor is.
ShowTree(r) ==
    /\ pc[r] = "ast"
    /\ parser' = EnsureLanguage(parser, call[r].lang)
    /\ Goto(r, IF Supported(parser, call[r].lang) THEN "extract" ELSE "err")
    /\ UNCHANGED <<extractor, call, answer>>

Kept(c, s) ==
    CASE c.op = "get_imports" -> s.kind = "import"
      [] c.op = "get_symbols" -> "all" \in c.filter \/ s.kind \in c.filter \cap SymbolKinds
      [] OTHER -> TRUE

\* extract_symbols of each text in its own language.
Extracted == [source \in DOMAIN Sources |-> Symbols(Sources[source].tree, Sources[source].lang)]

\* The symbols of the text of c, in the grammar the parser is set to and with
\* the tables of the language asked for.
Found(p, c) ==
    IF p.grammar # Sources[c.source].lang THEN <<>>
    ELSE IF c.lang = p.grammar THEN Extracted[c.source]
    ELSE Symbols(Sources[c.source].tree, c.lang)

\* The filters look at the top level only.
Extract(r) ==
    LET set   == EnsureLanguage(extractor, call[r].lang)
        found == Found(set, call[r])
    IN  /\ pc[r] = "extract" /\ ~extractor.poisoned
        /\ Supported(extractor, call[r].lang)
        /\ ~Panics(found)
        /\ extractor' = set
        /\ answer' = [answer EXCEPT ![r] =
                        Picked(found, {i \in DOMAIN found : Kept(call[r], found[i])})]
        /\ Goto(r, "ok")
        /\ UNCHANGED <<parser, call>>

\* The panic ends the blocking thread with the mutex locked.
ExtractPanics(r) ==
    LET set == EnsureLanguage(extractor, call[r].lang)
    IN  /\ pc[r] = "extract" /\ ~extractor.poisoned
        /\ Supported(extractor, call[r].lang)
        /\ Panics(Found(set, call[r]))
        /\ extractor' = [set EXCEPT !.poisoned = TRUE]
        /\ Goto(r, "err")
        /\ UNCHANGED <<parser, call, answer>>

ExtractRefused(r) ==
    /\ pc[r] = "extract"
    /\ extractor.poisoned \/ ~Supported(extractor, call[r].lang)
    /\ extractor' = IF extractor.poisoned THEN extractor
                    ELSE EnsureLanguage(extractor, call[r].lang)
    /\ Goto(r, "err")
    /\ UNCHANGED <<parser, call, answer>>

-----------------------------------------------------------------------------
Step(r) == ShowTree(r) \/ Extract(r) \/ ExtractPanics(r) \/ ExtractRefused(r)

Next == \E r \in Reqs : Submit(r) \/ Reject(r) \/ Step(r)

Spec == Init /\ [][Next]_vars

-----------------------------------------------------------------------------
(* Properties *)

Expected == [source \in DOMAIN Sources |-> Outermost(Sources[source].tree, Sources[source].lang)]

\* The answer to a call does not depend on the calls before it: it is the
\* outermost declarations of the source in the language asked for, in the
\* order of the text, each once, and no declaration is reported again
\* as a child of another (collect_node_symbols, ensure_language).
SymbolsAreOutermost ==
    \A r \in Reqs : pc[r] = "ok" /\ call[r].op = "parse_file" =>
        LET all == Flattened(answer[r])
        IN  /\ [i \in DOMAIN answer[r] |-> answer[r][i].node] =
                 IF call[r].lang = Sources[call[r].source].lang
                 THEN Expected[call[r].source] ELSE <<>>
            /\ \A i, j \in DOMAIN all : all[i].node = all[j].node => i = j

\* A call in a known language fails only after some text has made the
\* extractor panic, and one in an unknown language never succeeds, whatever
\* was asked before (wrapper.rs, ensure_language).
SucceedsIfSupported ==
    \A r \in Reqs : call[r] # NoCall =>
        /\ pc[r] = "ok" => call[r].lang \in Languages
        /\ pc[r] = "err" => call[r].lang \notin Languages \/ extractor.poisoned
=============================================================================
