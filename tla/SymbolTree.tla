----------------------------- MODULE SymbolTree -----------------------------
(***************************************************************************)
(* What parser/symbols.rs makes of a syntax tree.                          *)
(*                                                                         *)
(* A tree is a sequence of nodes in preorder: node 1 is the root, a node's *)
(* parent comes before it.  A node has its grammar type, the name of the   *)
(* field it is in the parent's rule (or ""), its first and last line and   *)
(* its text.  A text is a number, its rank in the alphabet; Unsliceable is *)
(* the text of an import of more than 120 bytes with a character across    *)
(* byte 117, where the slice of truncate_import panics.                    *)
(*                                                                         *)
(* A name is a sequence of texts: one, or the word "impl" and one or two.  *)
(***************************************************************************)
EXTENDS Integers, Sequences, FiniteSets

Languages   == {"rust", "go", "javascript", "typescript", "tsx", "python", "java", "c"}
Unsliceable == -1
ImplWord    == 0

-----------------------------------------------------------------------------
(* Node types and symbol kinds *)

Category(lang) ==
    CASE lang = "tsx" -> "typescript"
      [] lang \in {"rust", "go", "javascript", "typescript", "python", "java"} -> lang
      [] OTHER -> "generic"

\* The last entry stands for the heuristic on words of the type, for the
\* types of the C grammar.
KindTable ==
    [rust |-> [function_item |-> "function", struct_item |-> "struct",
               enum_item |-> "enum", trait_item |-> "trait", impl_item |-> "class",
               const_item |-> "constant", static_item |-> "constant",
               type_item |-> "type", use_declaration |-> "import",
               mod_item |-> "module"],
     go |-> [function_declaration |-> "function", method_declaration |-> "method",
             type_declaration |-> "type", import_declaration |-> "import",
             const_declaration |-> "constant", var_declaration |-> "variable",
             package_clause |-> "module"],
     javascript |->
            [function_declaration |-> "function", class_declaration |-> "class",
             method_definition |-> "method", variable_declaration |-> "variable",
             lexical_declaration |-> "variable", import_statement |-> "import",
             export_statement |-> "export"],
     typescript |->
            [function_declaration |-> "function", class_declaration |-> "class",
             method_definition |-> "method", variable_declaration |-> "variable",
             lexical_declaration |-> "variable", import_statement |-> "import",
             export_statement |-> "export", interface_declaration |-> "interface",
             type_alias_declaration |-> "type", enum_declaration |-> "enum"],
     python |-> [function_definition |-> "function", class_definition |-> "class",
                 import_statement |-> "import", import_from_statement |-> "import"],
     java |-> [class_declaration |-> "class", interface_declaration |-> "interface",
               method_declaration |-> "method", field_declaration |-> "field",
               enum_declaration |-> "enum", constructor_declaration |-> "constructor",
               import_declaration |-> "import"],
     generic |-> [function_definition |-> "function", function_declarator |-> "function",
                  preproc_function_def |-> "function", struct_specifier |-> "struct"]]

\* The same for a node in the body of a container.
NestedScript == [method_definition |-> "method", field_definition |-> "property",
                 public_field_definition |-> "property"]

NestedTable ==
    [rust |-> [function_item |-> "method", function_signature_item |-> "method",
               const_item |-> "constant", type_item |-> "type"],
     go |-> [method_declaration |-> "method"],
     javascript |-> NestedScript,
     typescript |-> NestedScript,
     python |-> [function_definition |-> "method"],
     java |-> [method_declaration |-> "method", constructor_declaration |-> "constructor",
               field_declaration |-> "field"],
     generic |-> [function_definition |-> "method", function_declarator |-> "method",
                  preproc_function_def |-> "method"]]

Containers == {"class", "struct", "trait", "interface"}
WholeText  == {"import", "export"}
Signed     == {"function", "method", "constructor"}

-----------------------------------------------------------------------------
(* Sequences.  These are definitions that the proofs can expand. *)

\* The numbers in S, the least first.
InOrder(S) ==
    [i \in 1 .. Cardinality(S) |-> CHOOSE n \in S : Cardinality({m \in S : m < n}) = i - 1]

\* The elements of s at the places in S.
Picked(s, S) == LET places == InOrder(S) IN [i \in DOMAIN places |-> s[places[i]]]

\* One sequence after the other.
Joined(parts) ==
    LET Upto[i \in 0 .. Len(parts)] == IF i = 0 THEN <<>> ELSE Upto[i - 1] \o parts[i]
    IN  Upto[Len(parts)]

-----------------------------------------------------------------------------
(* Nodes *)

\* A sequence of nodes is a tree in preorder: the parents of the nodes between
\* a node and its parent are not before that parent.
IsTree(t) ==
    /\ t \in Seq([kind : STRING, parent : Nat, field : STRING, text : Int, first : Nat, last : Nat])
    /\ t # <<>> /\ t[1].parent = 0
    /\ \A n \in 2 .. Len(t) : /\ t[n].parent \in 1 .. n - 1
                             /\ \A m \in t[n].parent + 1 .. n - 1 : t[m].parent >= t[n].parent

\* The lines of a node are among those of its parent.
LinesNest(t) ==
    \A n \in DOMAIN t : /\ t[n].first <= t[n].last
                        /\ t[n].parent # 0 => /\ t[t[n].parent].first <= t[n].first
                                              /\ t[n].last <= t[t[n].parent].last

Children(t, n) == InOrder({m \in DOMAIN t : t[m].parent = n})

\* The first of the children of n that Test accepts, or 0.
FirstChild(t, n, Test(_)) ==
    LET found == {m \in DOMAIN t : t[m].parent = n /\ Test(t[m])}
    IN  IF found = {} THEN 0 ELSE CHOOSE m \in found : \A k \in found : m <= k

ChildByKind(t, n, kind)   == FirstChild(t, n, LAMBDA x : x.kind = kind)
ChildByField(t, n, field) == FirstChild(t, n, LAMBDA x : x.field = field)

\* The first number of s that is not 0, or 0.
FirstOf(s) ==
    LET some == {i \in DOMAIN s : s[i] # 0}
    IN  IF some = {} THEN 0 ELSE s[CHOOSE i \in some : \A k \in some : i <= k]

-----------------------------------------------------------------------------
(* Names.  The empty sequence is no name. *)

NameFromNode(t, n) ==
    LET at == FirstOf(<<ChildByField(t, n, "name"),
                        FirstChild(t, n, LAMBDA x : x.kind \in {"identifier",
                                             "type_identifier", "package_identifier"})>>)
    IN  IF at = 0 THEN <<>> ELSE <<t[at].text>>

\* The types an impl names, of which the first two count.
RustImplName(t, n) ==
    LET types == InOrder({m \in DOMAIN t : t[m].parent = n /\ t[m].kind \in
                     {"type_identifier", "scoped_type_identifier", "generic_type"}})
    IN  IF types = <<>> THEN <<>>
        ELSE <<ImplWord>> \o [i \in 1 .. (IF Len(types) = 1 THEN 1 ELSE 2) |-> t[types[i]].text]

ExtractName(t, n, kind, cat) ==
    CASE kind \in WholeText -> <<t[n].text>>
      [] cat = "go" /\ t[n].kind = "type_declaration" /\ ChildByKind(t, n, "type_spec") # 0 ->
            NameFromNode(t, ChildByKind(t, n, "type_spec"))
      [] cat = "rust" /\ t[n].kind = "impl_item" -> RustImplName(t, n)
      [] OTHER -> NameFromNode(t, n)

\* The parameters and the result shown with a function; 0 is none.
Detail(t, n, kind) ==
    IF kind \notin Signed THEN [params |-> 0, result |-> 0]
    ELSE [params |-> FirstOf(<<ChildByField(t, n, "parameters"),
                               ChildByKind(t, n, "formal_parameters"),
                               ChildByKind(t, n, "parameter_list"),
                               ChildByKind(t, n, "parameters")>>),
          result |-> FirstOf(<<ChildByField(t, n, "return_type"),
                               ChildByKind(t, n, "return_type"),
                               ChildByField(t, n, "result")>>)]

-----------------------------------------------------------------------------
(* Symbols *)

Symbol(t, n, kind, cat, children) ==
    [node |-> n, kind |-> kind, name |-> ExtractName(t, n, kind, cat),
     detail |-> Detail(t, n, kind), first |-> t[n].first, last |-> t[n].last,
     children |-> children]

FindBody(t, n) == FirstOf(<<ChildByField(t, n, "body"), ChildByKind(t, n, "declaration_list"),
                            ChildByKind(t, n, "class_body"), ChildByKind(t, n, "block"), n>>)

\* Direct children of the body of a container; none of their kinds is a
\* container, so the symbols below them have no children of their own.
NestedSymbols(t, n, kind, cat) ==
    IF kind \notin Containers THEN <<>>
    ELSE LET table == NestedTable[cat]
             inner == InOrder({m \in DOMAIN t :
                        /\ t[m].parent = FindBody(t, n) /\ t[m].kind \in DOMAIN table
                        /\ ExtractName(t, m, table[t[m].kind], cat) # <<>>})
         IN  [i \in DOMAIN inner |->
                Symbol(t, inner[i], table[t[inner[i]].kind], cat, <<>>)]

\* An assignment that is a statement of a Python module.
AssignedName(t, n, cat) ==
    LET assign == ChildByKind(t, n, "assignment")
    IN  IF /\ cat = "python" /\ t[n].kind = "expression_statement"
           /\ t[n].parent # 0 /\ t[t[n].parent].kind = "module" /\ assign # 0
        THEN NameFromNode(t, assign) ELSE <<>>

\* Mutation: the symbol of an assignment has the type of its node as its kind.
AssignedRaw(t, n, cat) ==
    [node |-> n, kind |-> t[n].kind, name |-> AssignedName(t, n, cat),
     detail |-> Detail(t, n, "variable"), first |-> t[n].first, last |-> t[n].last,
     children |-> <<>>]

Assigned(t, n, cat) ==
    [node |-> n, kind |-> "variable", name |-> AssignedName(t, n, cat),
     detail |-> Detail(t, n, "variable"), first |-> t[n].first, last |-> t[n].last,
     children |-> <<>>]

\* The type of the node is in the table of the language, and it has a name.
KindOf(t, n, cat) ==
    IF t[n].kind \notin DOMAIN KindTable[cat] THEN "none"
    ELSE LET kind == KindTable[cat][t[n].kind]
         IN  IF ExtractName(t, n, kind, cat) = <<>> THEN "none" ELSE kind

\* Mutation: a matched node is pushed and its children are still walked.
CollectAndDescend(t, cat) ==
    LET Collected[n \in DOMAIN t] ==
          LET kind  == KindOf(t, n, cat)
              below == Joined([i \in DOMAIN Children(t, n) |-> Collected[Children(t, n)[i]]])
          IN  IF kind # "none"
              THEN <<Symbol(t, n, kind, cat, NestedSymbols(t, n, kind, cat))>> \o below
              ELSE IF AssignedName(t, n, cat) # <<>>
              THEN <<Assigned(t, n, cat)>>
              ELSE below
        top == Children(t, 1)
    IN  Joined([i \in DOMAIN top |-> Collected[top[i]]])

\* A matched node is one symbol; any other node is walked.  The root is not
\* looked at itself.
CollectSymbols(t, cat) ==
    LET Collected[n \in DOMAIN t] ==
          LET kind == KindOf(t, n, cat)
          IN  IF kind # "none"
              THEN <<Symbol(t, n, kind, cat, NestedSymbols(t, n, kind, cat))>>
              ELSE IF AssignedName(t, n, cat) # <<>>
              THEN <<Assigned(t, n, cat)>>
              ELSE Joined([i \in DOMAIN Children(t, n) |-> Collected[Children(t, n)[i]]])
        top == Children(t, 1)
    IN  Joined([i \in DOMAIN top |-> Collected[top[i]]])

Symbols(t, lang) == CollectSymbols(t, Category(lang))

\* The rows insert_symbols_recursive writes: a symbol before its children.
Flattened(symbols) ==
    Joined([i \in DOMAIN symbols |-> <<symbols[i]>> \o symbols[i].children])

\* The walk that found these symbols came upon a text that it cannot cut.
Panics(symbols) ==
    \E i \in DOMAIN symbols : symbols[i].kind \in WholeText /\ symbols[i].name = <<Unsliceable>>

-----------------------------------------------------------------------------
(* Reference definition: which nodes the walk has to report. *)

Declared(t, n, cat) == n # 1 /\ (KindOf(t, n, cat) # "none" \/ AssignedName(t, n, cat) # <<>>)

\* The nodes above n, without the root.
Above(t, n) ==
    LET Up[m \in DOMAIN t] == IF t[m].parent \in {0, 1} THEN {}
                              ELSE {t[m].parent} \cup Up[t[m].parent]
    IN  Up[n]

\* The declared nodes that are below no other, in the order of the text.
Outermost(t, lang) ==
    LET cat == Category(lang)
    IN  InOrder({n \in DOMAIN t : /\ Declared(t, n, cat)
                                  /\ \A m \in Above(t, n) : ~Declared(t, m, cat)})
=============================================================================
