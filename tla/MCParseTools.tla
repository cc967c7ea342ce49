---------------------------- MODULE MCParseTools ----------------------------
(* An instance of ParseTools for TLC: sources put together from fragments of *)
(* six languages, as their grammars parse them.                              *)
EXTENDS ParseTools, SequencesExt

CONSTANTS r1, r2

\* A node of a fragment; the parent 0 is the root of the file.
N(kind, parent, field, text, first, last) ==
    [kind |-> kind, parent |-> parent, field |-> field, text |-> text,
     first |-> first, last |-> last]

\* fn a() { fn b() {} }
NestedFn ==
    <<N("function_item", 0, "", 0, 0, 2), N("identifier", 1, "name", 1, 0, 0),
      N("parameters", 1, "parameters", 0, 0, 0), N("block", 1, "body", 0, 0, 2),
      N("function_item", 4, "", 0, 1, 1), N("identifier", 5, "name", 2, 1, 1),
      N("parameters", 5, "parameters", 0, 1, 1), N("block", 5, "body", 0, 1, 1)>>

\* impl C for D { fn a() {}  const E }
TraitImpl ==
    <<N("impl_item", 0, "", 0, 0, 3), N("type_identifier", 1, "trait", 3, 0, 0),
      N("type_identifier", 1, "type", 4, 0, 0), N("declaration_list", 1, "body", 0, 0, 3),
      N("function_item", 4, "", 0, 1, 1), N("identifier", 5, "name", 1, 1, 1),
      N("parameters", 5, "parameters", 0, 1, 1), N("block", 5, "body", 0, 1, 1),
      N("const_item", 4, "", 0, 2, 2), N("identifier", 9, "name", 5, 2, 2)>>

\* impl [u8] { fn f() {} }: no type to name it by
SliceImpl ==
    <<N("impl_item", 0, "", 0, 0, 2), N("array_type", 1, "type", 0, 0, 0),
      N("declaration_list", 1, "body", 0, 0, 2), N("function_item", 3, "", 0, 1, 1),
      N("identifier", 4, "name", 6, 1, 1), N("parameters", 4, "parameters", 0, 1, 1),
      N("block", 4, "body", 0, 1, 1)>>

\* mod b { fn a() {} }
ModWithFn ==
    <<N("mod_item", 0, "", 0, 0, 2), N("identifier", 1, "name", 2, 0, 0),
      N("declaration_list", 1, "body", 0, 0, 2), N("function_item", 3, "", 0, 1, 1),
      N("identifier", 4, "name", 1, 1, 1), N("parameters", 4, "parameters", 0, 1, 1),
      N("block", 4, "body", 0, 1, 1)>>

\* use g;
Use ==
    <<N("use_declaration", 0, "", 7, 0, 0)>>

\* export function a() {}
ExportFn ==
    <<N("export_statement", 0, "", 8, 0, 0),
      N("function_declaration", 1, "declaration", 0, 0, 0),
      N("identifier", 2, "name", 1, 0, 0), N("formal_parameters", 2, "parameters", 0, 0, 0)>>

\* const b = () => { function c() {} }
ConstArrow ==
    <<N("lexical_declaration", 0, "", 0, 0, 2), N("variable_declarator", 1, "", 0, 0, 2),
      N("identifier", 2, "name", 2, 0, 0), N("arrow_function", 2, "value", 0, 0, 2),
      N("statement_block", 4, "body", 0, 0, 2), N("function_declaration", 5, "", 0, 1, 1),
      N("identifier", 6, "name", 3, 1, 1)>>

\* class D { a() {}  e = 1 }
ScriptClass ==
    <<N("class_declaration", 0, "", 0, 0, 2), N("identifier", 1, "name", 4, 0, 0),
      N("class_body", 1, "body", 0, 0, 2), N("method_definition", 3, "", 0, 1, 1),
      N("property_identifier", 4, "name", 1, 1, 1), N("field_definition", 3, "", 0, 2, 2),
      N("property_identifier", 6, "property", 5, 2, 2)>>

\* an import of which byte 117 is inside a character
LongImport ==
    <<N("import_statement", 0, "", Unsliceable, 0, 0)>>

\* class D: with a decorated method, a method and an assignment
PyClass ==
    <<N("class_definition", 0, "", 0, 0, 4), N("identifier", 1, "name", 4, 0, 0),
      N("block", 1, "body", 0, 1, 4), N("decorated_definition", 3, "", 0, 1, 2),
      N("decorator", 4, "", 0, 1, 1), N("function_definition", 4, "definition", 0, 2, 2),
      N("identifier", 6, "name", 1, 2, 2), N("function_definition", 3, "", 0, 3, 3),
      N("identifier", 8, "name", 2, 3, 3), N("expression_statement", 3, "", 0, 4, 4),
      N("assignment", 10, "", 0, 4, 4), N("identifier", 11, "left", 3, 4, 4)>>

\* e = 1
PyAssign ==
    <<N("expression_statement", 0, "", 0, 0, 0), N("assignment", 1, "", 0, 0, 0),
      N("identifier", 2, "left", 5, 0, 0)>>

\* @x def f()
PyDecorated ==
    <<N("decorated_definition", 0, "", 0, 0, 1), N("decorator", 1, "", 0, 0, 0),
      N("function_definition", 1, "definition", 0, 1, 1), N("identifier", 3, "name", 6, 1, 1)>>

\* from g import h
PyImport ==
    <<N("import_from_statement", 0, "", 7, 0, 0)>>

\* package a
Package ==
    <<N("package_clause", 0, "", 0, 0, 0), N("package_identifier", 1, "", 1, 0, 0)>>

\* type B struct{}
GoType ==
    <<N("type_declaration", 0, "", 0, 0, 0), N("type_spec", 1, "", 0, 0, 0),
      N("type_identifier", 2, "name", 2, 0, 0)>>

\* const c = 1
GoConst ==
    <<N("const_declaration", 0, "", 0, 0, 0), N("const_spec", 1, "", 0, 0, 0),
      N("identifier", 2, "name", 3, 0, 0)>>

\* class D { E f; void a() {} }: the field is named by its type
JavaClass ==
    <<N("class_declaration", 0, "", 0, 0, 3), N("identifier", 1, "name", 4, 0, 0),
      N("class_body", 1, "body", 0, 0, 3), N("field_declaration", 3, "", 0, 1, 1),
      N("type_identifier", 4, "type", 5, 1, 1),
      N("variable_declarator", 4, "declarator", 0, 1, 1), N("identifier", 6, "name", 6, 1, 1),
      N("method_declaration", 3, "", 0, 2, 2), N("void_type", 8, "type", 0, 2, 2),
      N("identifier", 8, "name", 1, 2, 2), N("formal_parameters", 8, "parameters", 0, 2, 2)>>

\* import g;
JavaImport ==
    <<N("import_declaration", 0, "", 7, 0, 0)>>

\* int a(int x) {}
CFunction ==
    <<N("function_definition", 0, "", 0, 0, 0), N("primitive_type", 1, "type", 0, 0, 0),
      N("function_declarator", 1, "declarator", 0, 0, 0),
      N("identifier", 3, "declarator", 1, 0, 0), N("parameter_list", 3, "parameters", 0, 0, 0),
      N("compound_statement", 1, "body", 0, 0, 0)>>

\* B c(int x) {}: the function is named by its result
CTyped ==
    <<N("function_definition", 0, "", 0, 0, 0), N("type_identifier", 1, "type", 2, 0, 0),
      N("function_declarator", 1, "declarator", 0, 0, 0),
      N("identifier", 3, "declarator", 3, 0, 0), N("parameter_list", 3, "parameters", 0, 0, 0),
      N("compound_statement", 1, "body", 0, 0, 0)>>

\* A file is a root with its fragments one below the other.
FileOf(root, parts) ==
    FoldLeft(LAMBDA done, part :
               done \o [i \in DOMAIN part |->
                          [part[i] EXCEPT
                             !.parent = IF @ = 0 THEN 1 ELSE @ + Len(done),
                             !.first = @ + done[Len(done)].last + 1,
                             !.last = @ + done[Len(done)].last + 1]],
             <<N(root, 0, "", 0, 0, 0)>>, parts)

Single(lang, root, parts) ==
    [i \in DOMAIN parts |-> [lang |-> lang, tree |-> FileOf(root, <<parts[i]>>)]]

Pairs(lang, root, parts) ==
    LET n == Len(parts)
    IN  [k \in 1 .. n * n |->
           [lang |-> lang,
            tree |-> FileOf(root, <<parts[((k - 1) \div n) + 1], parts[((k - 1) % n) + 1]>>)]]

RustParts   == <<NestedFn, TraitImpl, SliceImpl, ModWithFn, Use>>
ScriptParts == <<ExportFn, ConstArrow, ScriptClass, LongImport>>
PythonParts == <<PyClass, PyAssign, PyDecorated, PyImport>>
GoParts     == <<Package, GoType, GoConst>>
JavaParts   == <<JavaClass, JavaImport>>
CParts      == <<CFunction, CTyped>>

\* Each of the 20 fragments in a file of its own, then every two of a language.
NSingle == 20

Files ==
    Single("rust", "source_file", RustParts) \o Single("javascript", "program", ScriptParts)
      \o Single("python", "module", PythonParts) \o Single("go", "source_file", GoParts)
      \o Single("java", "program", JavaParts) \o Single("c", "translation_unit", CParts)
      \o Pairs("rust", "source_file", RustParts) \o Pairs("javascript", "program", ScriptParts)
      \o Pairs("python", "module", PythonParts) \o Pairs("go", "source_file", GoParts)
      \o Pairs("java", "program", JavaParts) \o Pairs("c", "translation_unit", CParts)

\* Every source once, and calls that set the parsers to something else.
Requests ==
    {[op |-> "parse_file", ast |-> FALSE, lang |-> Files[s].lang, source |-> s] :
        s \in DOMAIN Files}
      \cup {[op |-> "parse_file", ast |-> TRUE, lang |-> l, source |-> s] :
              l \in {"fortran", "rust"}, s \in 1 .. NSingle}
      \cup {[op |-> "get_imports", lang |-> Files[s].lang, source |-> s] : s \in 1 .. NSingle}
      \cup {[op |-> "get_symbols", lang |-> Files[s].lang, source |-> s,
              filter |-> {"method", "other"}] : s \in 1 .. NSingle}
      \cup {[op |-> "get_symbols", lang |-> "fortran", source |-> s, filter |-> {"all"}] :
              s \in 1 .. NSingle}

SomeSources == Files
SomeCalls   == Requests
=============================================================================
