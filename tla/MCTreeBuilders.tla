--------------------------- MODULE MCTreeBuilders ---------------------------
(***************************************************************************)
(* Databases for TreeBuilders: for each language every choice of a handful *)
(* of tags in which names are shared, owners are missing and scopes are    *)
(* nested, with or without a class of another language.                    *)
(***************************************************************************)
EXTENDS TreeBuilders, FiniteSets

Row(lang, name, type, memberOf, file, line) ==
  [lang |-> lang, name |-> name, type |-> type, memberOf |-> memberOf, file |-> file, line |-> line]

A == <<"A">>
B == <<"B">>
N == <<"N">>
M == <<"m">>

Pool(lang) ==
  CASE lang = "C/C++" ->
         {Row(lang, A, "class", <<>>, "f", 1), Row(lang, A, "struct", <<>>, "g", 1),
          Row(lang, B, "class", A, "f", 2), Row(lang, M, "member", A, "f", 3),
          Row(lang, M, "function", <<"A", "B">>, "f", 4), Row(lang, M, "function", <<>>, "f", 5),
          Row(lang, N, "namespace", <<>>, "f", 6), Row(lang, A, "function", N, "f", 7),
          Row(lang, N, "Class", <<>>, "g", 2)}
    [] lang = "C#" ->
         {Row(lang, N, "namespace", <<>>, "f", 1), Row(lang, <<"N", "B">>, "namespace", <<>>, "g", 1),
          Row(lang, A, "class", N, "f", 2), Row(lang, A, "class", N, "g", 2),
          Row(lang, B, "interface", <<"N", "B">>, "f", 3), Row(lang, M, "method", <<"N", "A">>, "f", 4),
          Row(lang, B, "class", <<>>, "g", 5), Row(lang, M, "enum", N, "g", 6),
          Row(lang, M, "property", <<"N", "B", "B">>, "f", 7), Row(lang, B, "class", N, "h", 1)}
    [] lang = "Java" ->
         {Row(lang, N, "package", <<>>, "f", 1), Row(lang, N, "package", <<>>, "g", 1),
          Row(lang, A, "class", <<>>, "f", 2), Row(lang, A, "interface", <<>>, "g", 2),
          Row(lang, M, "method", A, "f", 3), Row(lang, M, "field", A, "g", 3),
          Row(lang, B, "class", A, "f", 4), Row(lang, M, "method", <<"A", "B">>, "f", 5),
          Row(lang, N, "interface", A, "f", 6)}
    [] lang = "ReStructuredText" ->
         {Row(lang, A, "chapter", <<>>, "f", 1), Row(lang, B, "chapter", <<>>, "f", 2),
          Row(lang, N, "section", A, "f", 3), Row(lang, B, "section", B, "f", 4),
          Row(lang, M, "subsection", N, "f", 5), Row(lang, M, "subsection", B, "f", 6),
          Row(lang, A, "subsubsection", M, "f", 7)}
    [] lang = "SQL" ->
         {Row(lang, A, "table", <<>>, "f", 1), Row(lang, B, "table", <<>>, "f", 2),
          Row(lang, M, "field", A, "f", 3), Row(lang, M, "field", B, "f", 4),
          Row(lang, N, "index", A, "f", 5), Row(lang, N, "trigger", B, "f", 6),
          Row(lang, A, "view", <<>>, "f", 7), Row(lang, M, "table", A, "f", 8)}
    [] OTHER ->
         {Row(lang, A, "class", <<>>, "f", 1), Row(lang, A, "class", <<>>, "g", 1),
          Row(lang, B, "class", A, "f", 2), Row(lang, M, "member", A, "f", 3),
          Row(lang, M, "member", B, "f", 4), Row(lang, M, "function", <<>>, "f", 5),
          Row(lang, B, "Class", <<>>, "h", 1)}

\* The only capital letters there are in the type of a tag.
LowerClass(text) == IF text = <<"Class">> THEN <<"class">> ELSE text

\* Files are of one language, so this one is in a file of its own.
Intruder == Row("PHP", A, "class", <<>>, "h", 1)

Bases(langs) ==
  UNION {{base \cup other : base \in SUBSET Pool(l), other \in SUBSET {Intruder}} : l \in langs}

AllLanguages == Bases({"C/C++", "C#", "Java", "ReStructuredText", "SQL", "Python", "CSS"})
=============================================================================
