--------------------------- MODULE ParseToolsProofs ---------------------------
(* Proofs about ParseTools, for every set of requests and every source. *)
EXTENDS ParseTools, SymbolTreeProofs

-----------------------------------------------------------------------------
(* The memory of the parsers *)

\* A parser remembers the language of the grammar it is set to, which is one
\* that it has.
ParserInv(p) == p \in Parsers /\ p.cached \in Languages \cup {NoLang} /\ p.grammar = p.cached

\* Setting a parser to a language keeps its memory right.
LEMMA EnsureKeeps ==
    ASSUME NEW p, ParserInv(p), NEW lang \in Named
    PROVE  /\ ParserInv(EnsureLanguage(p, lang))
           /\ EnsureLanguage(p, lang).poisoned = p.poisoned
           /\ Supported(p, lang) <=> lang \in Languages
           /\ lang \in Languages => EnsureLanguage(p, lang).grammar = lang
<1> USE DEF ParserInv, Parsers, EnsureLanguage, Supported
<1>1. Languages \subseteq Named
  BY DEF Named
<1>2. CASE p.cached = lang
  <2>1. lang \in Languages
    BY <1>2, NoLangAssumption
  <2> QED
    BY <1>2, <2>1
<1>3. CASE p.cached # lang /\ lang \notin Languages
  BY <1>3
<1>4. CASE p.cached # lang /\ lang \in Languages
  <2>1. EnsureLanguage(p, lang) = [p EXCEPT !.cached = lang, !.grammar = lang]
    BY <1>4
  <2> QED
    BY <1>1, <1>4, <2>1
<1> QED
  BY <1>2, <1>3, <1>4

-----------------------------------------------------------------------------
(* Calls *)

\* A request is called once and works on that call until it ends.
CallInv ==
    /\ DOMAIN call = Reqs /\ DOMAIN pc = Reqs /\ DOMAIN answer = Reqs
    /\ \A r \in Reqs : /\ pc[r] = "idle" => call[r] = NoCall
                       /\ pc[r] \in {"ast", "extract"} => call[r] \in Menu

\* What a call that succeeds is answered, told from its arguments alone.
Own(c) ==
    LET found == IF c.lang = Sources[c.source].lang THEN Extracted[c.source] ELSE <<>>
    IN  Picked(found, {i \in DOMAIN found : Kept(c, found[i])})

\* The answer to a call does not depend on the calls before it.
AnswersStandAlone == \A r \in Reqs : pc[r] = "ok" => answer[r] = Own(call[r])

IInv == /\ ParserInv(extractor) /\ ParserInv(parser) /\ CallInv
        /\ SucceedsIfSupported /\ AnswersStandAlone

\* In the grammar of the language asked for, what is found is the call's own.
LEMMA FoundOwn ==
    ASSUME NEW p, NEW c, p.grammar = c.lang
    PROVE  Found(p, c) = IF c.lang = Sources[c.source].lang THEN Extracted[c.source] ELSE <<>>
  BY DEF Found

\* Every step keeps it.
LEMMA Inductive == IInv /\ [Next]_vars => IInv'
<1> SUFFICES ASSUME IInv, [Next]_vars PROVE IInv'
  OBVIOUS
<1> USE DEF IInv, CallInv
<1>0. /\ ParserInv(extractor) => extractor.poisoned \in BOOLEAN
      /\ \A r \in Reqs : pc[r] \in {"ast", "extract"} => call[r].lang \in Named
  BY MenuAssumption DEF ParserInv, Parsers
<1>1. ASSUME NEW r \in Reqs, Submit(r) PROVE IInv'
  <2>1. PICK c \in Menu : /\ call' = [call EXCEPT ![r] = c]
                          /\ pc' = [pc EXCEPT ![r] = IF c.op = "parse_file" /\ c.ast THEN "ast" ELSE "extract"]
    BY <1>1 DEF Submit, Goto
  <2>2. UNCHANGED <<extractor, parser, answer>> /\ pc'[r] \in {"ast", "extract"}
    BY <1>1, <2>1 DEF Submit
  <2>3. CallInv'
    BY <2>1, <2>2
  <2>4. SucceedsIfSupported' /\ AnswersStandAlone'
    BY <2>1, <2>2 DEF SucceedsIfSupported, AnswersStandAlone
  <2> QED
    BY <2>2, <2>3, <2>4
<1>2. ASSUME NEW r \in Reqs, Reject(r) PROVE IInv'
  <2>1. /\ UNCHANGED <<extractor, parser, call, answer>> /\ pc[r] = "idle"
        /\ pc' = [pc EXCEPT ![r] = "err"]
    BY <1>2 DEF Reject, Goto
  <2> QED
    BY <2>1 DEF SucceedsIfSupported, AnswersStandAlone
<1>3. ASSUME NEW r \in Reqs, ShowTree(r) PROVE IInv'
  <2>1. /\ UNCHANGED <<extractor, call, answer>> /\ pc[r] = "ast"
        /\ parser' = EnsureLanguage(parser, call[r].lang)
        /\ pc' = [pc EXCEPT ![r] = IF Supported(parser, call[r].lang) THEN "extract" ELSE "err"]
    BY <1>3 DEF ShowTree, Goto
  <2>2. ParserInv(parser') /\ (Supported(parser, call[r].lang) <=> call[r].lang \in Languages)
    BY <1>0, <2>1, EnsureKeeps
  <2>3. CallInv'
    BY <2>1
  <2>4. SucceedsIfSupported' /\ AnswersStandAlone'
    BY <2>1, <2>2 DEF SucceedsIfSupported, AnswersStandAlone
  <2> QED
    BY <2>1, <2>2, <2>3, <2>4
<1>4. ASSUME NEW r \in Reqs, Extract(r) PROVE IInv'
  <2> DEFINE set == EnsureLanguage(extractor, call[r].lang)
  <2>1. /\ UNCHANGED <<parser, call>> /\ pc[r] = "extract" /\ ~extractor.poisoned
        /\ Supported(extractor, call[r].lang)
        /\ extractor' = set
        /\ answer' = [answer EXCEPT ![r] =
                Picked(Found(set, call[r]), {i \in DOMAIN Found(set, call[r]) :
                                               Kept(call[r], Found(set, call[r])[i])})]
        /\ pc' = [pc EXCEPT ![r] = "ok"]
    BY <1>4 DEF Extract, Goto
  <2>2. /\ ParserInv(extractor') /\ call[r].lang \in Languages /\ set.grammar = call[r].lang
        /\ extractor'.poisoned = extractor.poisoned
    BY <1>0, <2>1, EnsureKeeps
  <2>3. answer'[r] = Own(call[r])
    BY <2>1, <2>2, FoundOwn DEF Own
  <2>4. CallInv'
    BY <2>1
  <2>5. SucceedsIfSupported'
    BY <2>1, <2>2 DEF SucceedsIfSupported
  <2>6. AnswersStandAlone'
    BY <2>1, <2>3 DEF AnswersStandAlone
  <2> QED
    BY <2>1, <2>2, <2>4, <2>5, <2>6
<1>5. ASSUME NEW r \in Reqs, ExtractPanics(r) PROVE IInv'
  <2> DEFINE set == EnsureLanguage(extractor, call[r].lang)
  <2>1. /\ UNCHANGED <<parser, call, answer>> /\ pc[r] = "extract"
        /\ extractor' = [set EXCEPT !.poisoned = TRUE]
        /\ pc' = [pc EXCEPT ![r] = "err"]
    BY <1>5 DEF ExtractPanics, Goto
  <2>2. ParserInv(set)
    BY <1>0, <2>1, EnsureKeeps
  <2>3. ParserInv(extractor') /\ extractor'.poisoned
    BY <2>1, <2>2 DEF ParserInv, Parsers
  <2>4. CallInv'
    BY <2>1
  <2>5. SucceedsIfSupported' /\ AnswersStandAlone'
    BY <2>1, <2>3 DEF SucceedsIfSupported, AnswersStandAlone
  <2> QED
    BY <2>1, <2>3, <2>4, <2>5
<1>6. ASSUME NEW r \in Reqs, ExtractRefused(r) PROVE IInv'
  <2>1. /\ UNCHANGED <<parser, call, answer>> /\ pc[r] = "extract"
        /\ extractor.poisoned \/ ~Supported(extractor, call[r].lang)
        /\ extractor' = IF extractor.poisoned THEN extractor
                        ELSE EnsureLanguage(extractor, call[r].lang)
        /\ pc' = [pc EXCEPT ![r] = "err"]
    BY <1>6 DEF ExtractRefused, Goto
  <2>2. /\ ParserInv(extractor') /\ extractor'.poisoned = extractor.poisoned
        /\ extractor.poisoned \/ call[r].lang \notin Languages
    BY <1>0, <2>1, EnsureKeeps
  <2>3. CallInv'
    BY <2>1
  <2>4. SucceedsIfSupported' /\ AnswersStandAlone'
    BY <2>1, <2>2 DEF SucceedsIfSupported, AnswersStandAlone
  <2> QED
    BY <2>1, <2>2, <2>3, <2>4
<1>7. CASE UNCHANGED vars
  BY <1>7 DEF vars, SucceedsIfSupported, AnswersStandAlone
<1> QED
  BY <1>1, <1>2, <1>3, <1>4, <1>5, <1>6, <1>7 DEF Next, Step

\* The initial state has it.
LEMMA Initially == Init => IInv
<1> SUFFICES ASSUME Init PROVE IInv
  OBVIOUS
<1>1. ParserInv(Fresh)
  BY DEF ParserInv, Fresh, Parsers
<1> QED
  BY <1>1 DEF Init, IInv, CallInv, SucceedsIfSupported, AnswersStandAlone

-----------------------------------------------------------------------------
(* The theorems *)

\* A call fails only if its language is not supported or some text has made
\* the extractor panic before, and succeeds only in a supported language,
\* whatever calls came before it (wrapper.rs, ensure_language).
THEOREM OnlyPanicsSpoil == Spec => []SucceedsIfSupported
<1>1. IInv => SucceedsIfSupported
  BY DEF IInv
<1> QED
  BY <1>1, Initially, Inductive, PTL DEF Spec

\* What a call of parse_file, get_symbols or get_imports answers is told by its
\* arguments, although all calls share one parser with a memory.
THEOREM CallsStandAlone == Spec => []AnswersStandAlone
<1>1. IInv => AnswersStandAlone
  BY DEF IInv
<1> QED
  BY <1>1, Initially, Inductive, PTL DEF Spec

-----------------------------------------------------------------------------
(* What the calls answer *)

\* All of a sequence is picked by all of its places.
LEMMA PickedAll ==
    ASSUME NEW k \in Nat, NEW s, DOMAIN s = 1 .. k, s = [i \in 1 .. k |-> s[i]]
    PROVE  Picked(s, DOMAIN s) = s
<1> DEFINE L == [i \in 1 .. k |-> i]
<1>1. L = InOrder(1 .. k)
  <2>1. L \in [1 .. k -> 1 .. k] /\ 1 .. k \in SUBSET Nat
    OBVIOUS
  <2>2. \A i, j \in 1 .. k : i < j => L[i] < L[j]
    OBVIOUS
  <2>3. \A n \in 1 .. k : \E i \in 1 .. k : L[i] = n
    OBVIOUS
  <2> HIDE DEF L
  <2> QED
    BY <2>1, <2>2, <2>3, OnlyInOrder
<1>2. DOMAIN L = 1 .. k /\ \A i \in 1 .. k : L[i] = i
  OBVIOUS
<1> QED
  BY <1>1, <1>2 DEF Picked

\* The kinds in the tables are those of the reply format, in every category.
LEMMA TableKinds ==
    /\ \A lang \in Languages : Category(lang) \in {"rust", "go", "javascript", "typescript",
                                                  "python", "java", "generic"}
    /\ \A cat \in {"rust", "go", "javascript", "typescript", "python", "java", "generic"} :
         \A kind \in DOMAIN KindTable[cat] : KindTable[cat][kind] \in SymbolKinds
<1>1. \A lang \in Languages : Category(lang) \in {"rust", "go", "javascript", "typescript",
                                                  "python", "java", "generic"}
  BY DEF Languages, Category
<1> USE DEF KindTable, SymbolKinds
<1>2. \A kind \in DOMAIN KindTable["rust"] : KindTable["rust"][kind] \in SymbolKinds
  OBVIOUS
<1>3. \A kind \in DOMAIN KindTable["go"] : KindTable["go"][kind] \in SymbolKinds
  OBVIOUS
<1>4. \A kind \in DOMAIN KindTable["javascript"] : KindTable["javascript"][kind] \in SymbolKinds
  OBVIOUS
<1>5. \A kind \in DOMAIN KindTable["typescript"] : KindTable["typescript"][kind] \in SymbolKinds
  OBVIOUS
<1>6. \A kind \in DOMAIN KindTable["python"] : KindTable["python"][kind] \in SymbolKinds
  OBVIOUS
<1>7. \A kind \in DOMAIN KindTable["java"] : KindTable["java"][kind] \in SymbolKinds
  OBVIOUS
<1>8. \A kind \in DOMAIN KindTable["generic"] : KindTable["generic"][kind] \in SymbolKinds
  OBVIOUS
<1> HIDE DEF KindTable, SymbolKinds
<1> QED
  BY <1>1, <1>2, <1>3, <1>4, <1>5, <1>6, <1>7, <1>8

\* What the walk finds in a source is a sequence of symbols of known kinds.
LEMMA ExtractedAre ==
    ASSUME NEW source \in DOMAIN Sources
    PROVE  \E k \in Nat : /\ DOMAIN Extracted[source] = 1 .. k
                          /\ Extracted[source] = [i \in 1 .. k |-> Extracted[source][i]]
                          /\ \A i \in 1 .. k : Extracted[source][i].kind \in SymbolKinds
<1> DEFINE t == Sources[source].tree
           cat == Category(Sources[source].lang)
           S == TopsBelow(t, 1, cat)
           M == SymbolFor(t, cat)
           k == Cardinality(S)
<1>0. IsTree(t) /\ Sources[source].lang \in Languages
  BY SourcesAssumption
<1> HIDE DEF t
<1>1. Extracted[source] = CollectSymbols(t, cat)
  BY DEF Extracted, Symbols, t
<1>2. \A c \in DOMAIN KindTable[cat] : KindTable[cat][c] \in SymbolKinds
  BY <1>0, TableKinds
<1> HIDE DEF cat
<1>3. Extracted[source] = Values(M, S)
  BY <1>0, <1>1, WalkFinds
<1>4. S \in SUBSET DOMAIN t /\ IsFiniteSet(S) /\ S \in SUBSET Nat
  BY <1>0, OutermostAre, TopsAreFinite
<1>5. ASSUME NEW n \in DOMAIN t PROVE M[n].kind \in SymbolKinds
  <2>1. CASE KindOf(t, n, cat) # "none"
    <3>1. M[n].kind = KindOf(t, n, cat)
      BY <2>1 DEF SymbolFor, Symbol
    <3> QED
      BY <1>2, <2>1, <3>1 DEF KindOf
  <2>2. CASE KindOf(t, n, cat) = "none"
    <3>1. M[n].kind = "variable"
      BY <2>2 DEF SymbolFor, Assigned
    <3> QED
      BY <3>1 DEF SymbolKinds
  <2> QED
    BY <2>1, <2>2
<1>6. k \in Nat /\ Lists(InOrder(S), S)
  BY <1>4, FS_CardinalityType, InOrderLists
<1> HIDE DEF M, S
<1>7. \A i \in 1 .. k : InOrder(S)[i] \in DOMAIN t
  BY <1>4, <1>6 DEF Lists
<1>8. Extracted[source] = [i \in 1 .. k |-> M[InOrder(S)[i]]]
  BY <1>3 DEF Values
<1> HIDE DEF k
<1> QED
  BY <1>5, <1>6, <1>7, <1>8

\* Every answer has symbols of known kinds only.
LEMMA OwnKinds ==
    ASSUME NEW c \in Menu PROVE \A i \in DOMAIN Own(c) : Own(c)[i].kind \in SymbolKinds
<1> DEFINE found == IF c.lang = Sources[c.source].lang THEN Extracted[c.source] ELSE <<>>
           places == {i \in DOMAIN found : Kept(c, found[i])}
<1>1. PICK k \in Nat : DOMAIN found = 1 .. k /\ \A i \in 1 .. k : found[i].kind \in SymbolKinds
  <2>1. c.source \in DOMAIN Sources
    BY MenuAssumption
  <2>2. CASE c.lang = Sources[c.source].lang
    <3>1. found = Extracted[c.source]
      BY <2>2
    <3> HIDE DEF found
    <3> QED
      BY <2>1, <3>1, ExtractedAre
  <2>3. CASE c.lang # Sources[c.source].lang
    <3>1. found = <<>>
      BY <2>3
    <3>2. 0 \in Nat /\ DOMAIN found = 1 .. 0 /\ \A i \in 1 .. 0 : found[i].kind \in SymbolKinds
      BY <3>1
    <3> HIDE DEF found
    <3> QED
      BY <3>2
  <2> QED
    BY <2>2, <2>3
<1>2. Own(c) = Picked(found, places)
  BY DEF Own
<1> HIDE DEF found
<1>3. places \in SUBSET Nat /\ IsFiniteSet(places) /\ places \in SUBSET 1 .. k
  BY <1>1, FS_Interval, FS_Subset
<1> HIDE DEF places
<1>4. Lists(InOrder(places), places)
  BY <1>3, InOrderLists
<1>5. DOMAIN Own(c) = DOMAIN InOrder(places)
      /\ \A i \in DOMAIN InOrder(places) : Own(c)[i] = found[InOrder(places)[i]]
  BY <1>2 DEF Picked
<1>6. \A i \in DOMAIN InOrder(places) : InOrder(places)[i] \in 1 .. k
  BY <1>3, <1>4 DEF Lists
<1> QED
  BY <1>1, <1>5, <1>6

\* Every step keeps the types.
LEMMA TypeStep == IInv /\ TypeOK /\ [Next]_vars => TypeOK'
<1> SUFFICES ASSUME IInv, TypeOK, [Next]_vars PROVE TypeOK'
  OBVIOUS
<1> USE DEF TypeOK
<1>0. IInv'
  BY Inductive
<1>1. extractor' \in Parsers /\ parser' \in Parsers
  BY <1>0 DEF IInv, ParserInv
<1>2. DOMAIN call = Reqs /\ DOMAIN answer = Reqs /\ DOMAIN answer' = Reqs
  BY <1>0 DEF IInv, CallInv
<1>3. ASSUME NEW r \in Reqs, Submit(r) PROVE TypeOK'
  BY <1>1, <1>2, <1>3 DEF Submit, Goto
<1>4. ASSUME NEW r \in Reqs, Reject(r) \/ ShowTree(r) \/ ExtractPanics(r) \/ ExtractRefused(r)
      PROVE  TypeOK'
  <2>1. UNCHANGED <<call, answer>>
    BY <1>4 DEF Reject, ShowTree, ExtractPanics, ExtractRefused
  <2>2. pc' \in [Reqs -> {"idle", "ast", "extract", "ok", "err"}]
    BY <1>4 DEF Reject, ShowTree, ExtractPanics, ExtractRefused, Goto
  <2> QED
    BY <1>1, <2>1, <2>2
<1>5. ASSUME NEW r \in Reqs, Extract(r) PROVE TypeOK'
  <2>1. pc' = [pc EXCEPT ![r] = "ok"] /\ UNCHANGED call /\ call[r] \in Menu
    BY <1>5 DEF Extract, Goto, IInv, CallInv
  <2>2. answer'[r] = Own(call[r])
    BY <1>0, <2>1 DEF IInv, AnswersStandAlone
  <2>3. \A q \in Reqs \ {r} : answer'[q] = answer[q]
    BY <1>2, <1>5 DEF Extract
  <2>4. \A i \in DOMAIN answer'[r] : answer'[r][i].kind \in SymbolKinds
    BY <2>1, <2>2, OwnKinds
  <2>5. \A q \in Reqs : \A i \in DOMAIN answer'[q] : answer'[q][i].kind \in SymbolKinds
    BY <2>3, <2>4
  <2> QED
    BY <1>1, <2>1, <2>5
<1>6. CASE UNCHANGED vars
  BY <1>6 DEF vars
<1> QED
  BY <1>3, <1>4, <1>5, <1>6 DEF Next, Step

LEMMA InitTyped == Init => TypeOK
  BY DEF Init, TypeOK, Fresh, Parsers

\* The parsers, the calls and the answers have their types; every symbol answered is of a
\* kind that the reply format has (symbols.rs, node_kind_to_symbol).
THEOREM TypeCorrect == Spec => []TypeOK
  BY Initially, Inductive, InitTyped, TypeStep, PTL DEF Spec

\* What the call of a source with its own language answers is what has to be reported.
LEMMA OwnIsOutermost ==
    ASSUME NEW c \in Menu, c.op = "parse_file"
    PROVE  /\ [i \in DOMAIN Own(c) |-> Own(c)[i].node] =
                IF c.lang = Sources[c.source].lang THEN Expected[c.source] ELSE <<>>
           /\ \A i, j \in DOMAIN Flattened(Own(c)) :
                Flattened(Own(c))[i].node = Flattened(Own(c))[j].node => i = j
<1> DEFINE found == IF c.lang = Sources[c.source].lang THEN Extracted[c.source] ELSE <<>>
<1>0. c.source \in DOMAIN Sources
  BY MenuAssumption
<1>1. Own(c) = found
  <2>1. \E k \in Nat : DOMAIN found = 1 .. k /\ found = [i \in 1 .. k |-> found[i]]
    <3>1. 0 \in Nat /\ DOMAIN <<>> = 1 .. 0 /\ <<>> = [i \in 1 .. 0 |-> <<>>[i]]
      OBVIOUS
    <3> QED
      BY <1>0, <3>1, ExtractedAre
  <2>2. Own(c) = Picked(found, {i \in DOMAIN found : Kept(c, found[i])})
    BY DEF Own
  <2> HIDE DEF found
  <2>3. {i \in DOMAIN found : Kept(c, found[i])} = DOMAIN found
    BY DEF Kept
  <2> QED
    BY <2>1, <2>2, <2>3, PickedAll
<1>2. CASE c.lang = Sources[c.source].lang
  <2> DEFINE t == Sources[c.source].tree
             lang == Sources[c.source].lang
  <2>1. IsTree(t)
    BY <1>0, SourcesAssumption
  <2>2. found = Symbols(t, lang) /\ Expected[c.source] = Outermost(t, lang)
    BY <1>0, <1>2 DEF Extracted, Expected
  <2>3. found = CollectSymbols(t, Category(lang))
    BY <2>2 DEF Symbols
  <2> HIDE DEF found, t, lang
  <2>4. [i \in DOMAIN found |-> found[i].node] = Outermost(t, lang)
    BY <2>1, <2>2, WalkFindsOutermost
  <2>5. \A i, j \in DOMAIN Flattened(found) :
            Flattened(found)[i].node = Flattened(found)[j].node => i = j
    BY <2>1, <2>3, NodesReportedOnce
  <2> QED
    BY <1>1, <1>2, <2>2, <2>4, <2>5
<1>3. CASE c.lang # Sources[c.source].lang
  <2>1. found = <<>>
    BY <1>3
  <2>2. [i \in DOMAIN <<>> |-> <<>>[i].node] = <<>>
    OBVIOUS
  <2>3. Flattened(<<>>) = <<>>
    BY NothingHasNoRows
  <2>4. DOMAIN <<>> = {}
    OBVIOUS
  <2> QED
    BY <1>1, <1>3, <2>1, <2>2, <2>3, <2>4
<1> QED
  BY <1>2, <1>3

\* The answer of parse_file is the outermost declarations of the source, in the order of
\* the text and each once, whatever the tree is and whatever calls came before
\* (symbols.rs, collect_node_symbols).
THEOREM OutermostAnswered == Spec => []SymbolsAreOutermost
<1>1. IInv /\ TypeOK => SymbolsAreOutermost
  <2> SUFFICES ASSUME IInv, TypeOK, NEW r \in Reqs, pc[r] = "ok", call[r].op = "parse_file"
               PROVE  LET all == Flattened(answer[r])
                      IN  /\ [i \in DOMAIN answer[r] |-> answer[r][i].node] =
                               IF call[r].lang = Sources[call[r].source].lang
                               THEN Expected[call[r].source] ELSE <<>>
                          /\ \A i, j \in DOMAIN all : all[i].node = all[j].node => i = j
    BY DEF SymbolsAreOutermost
  <2>1. answer[r] = Own(call[r])
    BY DEF IInv, AnswersStandAlone
  <2>2. call[r] \in Menu
    BY DEF TypeOK, NoCall
  <2> QED
    BY <2>1, <2>2, OwnIsOutermost
<1> QED
  BY <1>1, Initially, Inductive, InitTyped, TypeStep, PTL DEF Spec
=============================================================================
