---------------------------- MODULE MCNavigation ----------------------------
(* An instance of Navigation for TLC: two contents for two Rust documents.  *)
EXTENDS Navigation

CONSTANTS p1, p2, r1, r2, q1

N(kind, parent, field, text, first, last) ==
    [kind |-> kind, parent |-> parent, field |-> field, text |-> text,
     first |-> first, last |-> last]

\* // a comment
\* fn a() {}
\* const E: u8 = 1; impl C for D { fn a() {
\*   }
\* }
OneTree ==
    <<N("source_file", 0, "", 0, 0, 5),
      N("line_comment", 1, "", 0, 0, 0),
      N("function_item", 1, "", 0, 1, 1), N("identifier", 3, "name", 1, 1, 1),
      N("const_item", 1, "", 0, 2, 2), N("identifier", 5, "name", 5, 2, 2),
      N("impl_item", 1, "", 0, 2, 5), N("type_identifier", 7, "trait", 3, 2, 2),
      N("type_identifier", 7, "type", 4, 2, 2), N("declaration_list", 7, "body", 0, 2, 5),
      N("function_item", 10, "", 0, 2, 4), N("identifier", 11, "name", 1, 2, 2)>>

\* fn b() {}
\* struct a {
\* }
\* fn (      an error
OtherTree ==
    <<N("source_file", 0, "", 0, 0, 3),
      N("function_item", 1, "", 0, 0, 0), N("identifier", 2, "name", 2, 0, 0),
      N("struct_item", 1, "", 0, 1, 2), N("type_identifier", 4, "name", 1, 1, 1),
      N("ERROR", 1, "", 0, 3, 3)>>

TwoTrees  == [p \in Paths |-> [c \in Reqs |-> IF c = r1 THEN OneTree ELSE OtherTree]]
SomeTrees == TwoTrees

\* The symbols and the rows of the two contents, written out; the assumptions
\* of Navigation compare them with what the trees give.
S(node, kind, name, first, last, children) ==
    [node |-> node, kind |-> kind, name |-> name, detail |-> [params |-> 0, result |-> 0],
     first |-> first, last |-> last, children |-> children]

InnerA == S(11, "method", <<1>>, 2, 4, <<>>)

OneSymbols   == <<S(3, "function", <<1>>, 1, 1, <<>>), S(5, "constant", <<5>>, 2, 2, <<>>),
                  S(7, "class", <<0, 3, 4>>, 2, 5, <<InnerA>>)>>
OtherSymbols == <<S(2, "function", <<2>>, 0, 0, <<>>), S(4, "struct", <<1>>, 1, 2, <<>>)>>

Cached      == [p \in Paths |-> [c \in Reqs |-> IF c = r1 THEN OneSymbols ELSE OtherSymbols]]
SomeSymbols == Cached

Listing   == [p \in Paths |-> [c \in Reqs |->
                IF c = r1 THEN Append(OneSymbols, InnerA) ELSE OtherSymbols]]
SomeRows  == Listing

Rust      == [p \in Paths |-> "rust"]
TwoRanks  == [p \in Paths |-> IF p = p1 THEN 1 ELSE 2]
SomeLines == [c \in Reqs |-> IF c = r1 THEN <<"comment", "code", "code", "code", "code", "code">>
                             ELSE <<"code", "code", "code", "code">>]

Names     == {<<1>>, <<2>>, <<5>>, <<0, 3, 4>>}
SomeNames == Names

\* The cursor stands behind an "a" in line 3 of one content, a "b" of the other.
Words     == [c \in Reqs |-> [line \in 0 .. 4 |->
                  IF line = 3 THEN IF c = r1 THEN {<<1>>} ELSE {<<2>>} ELSE Names]]
SomeWords == Words

Counts     == [p \in Paths |-> [c \in Reqs |-> Len(RowsIn[p][c])]]
SomeCounts == Counts

Edits == [op : {"open", "update", "close"}, path : {p1}]
           \cup {[op |-> "open", path |-> p2], [op |-> "build"]}

Queries ==
    [op : {"definition", "hover"}, path : {p1}, line : {1, 2, 3}]
      \cup {[op |-> "references", path |-> p1, line |-> 1],
            [op |-> "workspace", pattern |-> {<<1>>, <<2>>}],
            [op |-> "complete", path |-> p1, line |-> 3, prefix |-> {}],
            [op |-> "complete", path |-> p2, line |-> 0, prefix |-> {<<1>>, <<2>>}],
            [op |-> "diagnostics", path |-> p1]}
=============================================================================
