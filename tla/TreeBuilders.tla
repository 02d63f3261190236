---------------------------- MODULE TreeBuilders ----------------------------
(***************************************************************************)
(* The items of the tree (TreeBuilder.cpp and the builders of the          *)
(* languages): one root per language, filled when the user opens it, and   *)
(* so on downwards.  What an item contains is a query; which query depends *)
(* on the builder, on the depth, and on what was found when the item was   *)
(* made.                                                                   *)
(*                                                                         *)
(* The database stays as it is here; TagsTree has the tree change its      *)
(* database, and the queries that fail.  A scoped name is the sequence of  *)
(* its parts, as in <<"Outer", "Inner">>; a column that is NULL is <<>>.   *)
(***************************************************************************)
EXTENDS Naturals, Sequences, SequencesExt

CONSTANTS
  Databases,     \* the tables Tags there can be, each a set of rows
  Open,          \* the languages that can be that of the current file
  LowerCase(_)   \* a text without its capital letters, as _wcsicmp compares

\* The columns the builders look at, and line to tell rows apart.
Columns == {"name", "type", "lang", "memberOf", "file", "line"}

ASSUME DatabasesAssumption ==
  \A base \in Databases : \A t \in base :
    /\ DOMAIN t = Columns
    /\ t.name \in Seq(STRING) \ {<<>>}
    /\ t.memberOf \in Seq(STRING)

\* ctags reads a file with a package in it as Java and nothing else.
ASSUME PackagesAssumption ==
  \A base \in Databases : \A p, t \in base :
    p.lang = "Java" /\ p.type = "package" /\ t.file = p.file => t.lang = "Java"

VARIABLES
  tags,          \* the table Tags
  tree           \* the items: where they are, and the builder behind them

vars == <<tags, tree>>

-----------------------------------------------------------------------------
(***************************************************************************)
(* Items.  at: the labels on the way from the root, each a text or a tag   *)
(* (the sub-type of an SQL table is a text and has the tag of the table).  *)
(***************************************************************************)
NoTag == [name |-> <<>>, type |-> "", lang |-> "", memberOf |-> <<>>, file |-> "", line |-> 0]
Text(x) == [text |-> x, tag |-> NoTag]
TagLabel(t) == [text |-> <<>>, tag |-> t]

Depth(n) == Len(n.at)
ItemText(n) == Last(n.at).text
TagOf(n) == Last(n.at).tag
ShowsTag(n) == ItemText(n) = <<>>

\* plus: the item has a (+); opened: TVIS_EXPANDEDONCE; table and indexed:
\* _table and _tableHasIndexes of the builder for SQL.
Item(at, lang, plus) ==
  [at |-> at, lang |-> lang, plus |-> plus, opened |-> FALSE,
   table |-> FALSE, indexed |-> FALSE]

Root(lang) == Item(<<Text(<<lang>>)>>, lang, TRUE)
Child(n, label, plus) == Item(Append(n.at, label), n.lang, plus)

Texts(n, texts) == {Child(n, Text(x), TRUE) : x \in texts}
Tags(n, rows, plus) == {Child(n, TagLabel(t), plus) : t \in rows}

-----------------------------------------------------------------------------
(***************************************************************************)
(* The queries.  "Language = @lang" is in each of them but one.            *)
(***************************************************************************)
Rows(lang) == {t \in tags : t.lang = lang}

\* MemberOf = @memberof; an empty string is bound as NULL, which no row has.
MembersOf(lang, scope) == {t \in Rows(lang) : scope # <<>> /\ t.memberOf = scope}

\* "Class" is a class here; in the queries it is another type.
TypeHasMembers(lang, text) ==
  CASE lang = "C/C++" -> LowerCase(text) \in {<<"class">>, <<"struct">>, <<"union">>, <<"enum">>}
    [] lang = "SQL" -> FALSE
    [] OTHER -> LowerCase(text) = <<"class">> /\ lang # "CSS"

OfType(n) == {t \in Rows(n.lang) : <<t.type>> = ItemText(n)}

\* Variant: members are listed a second time under their type.
MembersToo(n) == Tags(n, OfType(n), TypeHasMembers(n.lang, ItemText(n)))

AddTypeMembers(n) ==
  LET members == TypeHasMembers(n.lang, ItemText(n)) IN
  Tags(n, {t \in OfType(n) : members \/ t.memberOf = <<>>}, members)

\* Variant: members can be opened like the tags they belong to.
AddMembersThatOpen(n) == Tags(n, MembersOf(n.lang, TagOf(n).name), TRUE)

AddMembers(n) == Tags(n, MembersOf(n.lang, TagOf(n).name), FALSE)

TypesOf(rows) == {<<t.type>> : t \in rows}

GenericChildren(n) ==
  CASE Depth(n) = 1 -> Texts(n, TypesOf(Rows(n.lang)))
    [] Depth(n) = 2 -> AddTypeMembers(n)
    [] OTHER -> AddMembers(n)

CppTypes == {"class", "function", "struct", "union", "enum", "variable", "macro", "typedef"}

CppChildren(n) ==
  CASE Depth(n) = 1 -> Texts(n, TypesOf({t \in Rows(n.lang) : t.type \in CppTypes}))
    [] Depth(n) = 2 -> AddTypeMembers(n)
    [] Depth(n) = 3 -> AddMembers(n)
    [] OTHER -> {}

OfTypes(lang, types) == {t \in Rows(lang) : t.type \in types}

CSharpChildren(n) ==
  CASE Depth(n) = 1 -> Texts(n, {t.name : t \in OfTypes(n.lang, {"namespace"})})
    [] Depth(n) = 2 ->
         Tags(n, OfTypes(n.lang, {"class", "interface"}) \cap MembersOf(n.lang, ItemText(n)), TRUE)
    [] Depth(n) = 3 ->
         Tags(n, MembersOf(n.lang, TagOf(n).memberOf \o TagOf(n).name), FALSE)
    [] OTHER -> {}

\* The classes are those of any language, in the files of the package.
JavaChildren(n) ==
  LET packages == OfTypes(n.lang, {"package"}) IN
  CASE Depth(n) = 1 -> Texts(n, {t.name : t \in packages})
    [] Depth(n) = 2 ->
         Tags(n, {t \in tags : /\ t.type \in {"class", "interface"}
                               /\ t.file \in {p.file : p \in {q \in packages : q.name = ItemText(n)}}},
              TRUE)
    [] Depth(n) = 3 ->
         Tags(n, {t \in MembersOf(n.lang, TagOf(n).name) : t.file = TagOf(n).file}, FALSE)
    [] OTHER -> {}

RstTypes == <<"chapter", "section", "subsection", "subsubsection">>

\* Variant: the (+) asks for members of any type.
AnyMembers(n, type, subtype) ==
  LET rows == {t \in OfTypes(n.lang, {type}) : Depth(n) > 1 => t.memberOf = TagOf(n).name} IN
  {Child(n, TagLabel(t), MembersOf(n.lang, t.name) # {}) : t \in rows}

AddItems(n, type, subtype) ==
  LET rows == {t \in OfTypes(n.lang, {type}) : Depth(n) > 1 => t.memberOf = TagOf(n).name}
      below(t) == OfTypes(n.lang, {subtype}) \cap MembersOf(n.lang, t.name)
  IN  {Child(n, TagLabel(t), below(t) # {}) : t \in rows}

RstChildren(n) ==
  IF Depth(n) <= 3 THEN AddItems(n, RstTypes[Depth(n)], RstTypes[Depth(n) + 1]) ELSE {}

AddTables(n) ==
  {[Child(n, TagLabel(t), TRUE) EXCEPT
      !.table = TRUE,
      !.indexed = "index" \in {m.type : m \in MembersOf(n.lang, t.name)}]
   : t \in OfTypes(n.lang, {"table"})}

\* Variant: no callback, so the builder of the sub-type has no Tag.
SubTypesWithoutTag(n) ==
  {[x EXCEPT !.table = TRUE] : x \in Texts(n, TypesOf(MembersOf(n.lang, TagOf(n).name)))}

\* The type as text, with a copy of the Tag of the table.
AddTableSubTypes(n) ==
  {[Child(n, [text |-> x, tag |-> TagOf(n)], TRUE) EXCEPT !.table = TRUE]
   : x \in TypesOf(MembersOf(n.lang, TagOf(n).name))}

AddTableMembers(n) ==
  Tags(n, {t \in MembersOf(n.lang, TagOf(n).name) : <<t.type>> = ItemText(n)}, FALSE)

SqlTypes(n) ==
  {[x EXCEPT !.table = (ItemText(x) = <<"table">>)]
   : x \in Texts(n, TypesOf({t \in Rows(n.lang) : t.type \notin {"field", "index"}}))}

SqlChildren(n) ==
  CASE Depth(n) = 1 -> SqlTypes(n)
    [] Depth(n) > 1 /\ ~n.table -> AddTypeMembers(n)
    [] Depth(n) = 2 /\ n.table -> AddTables(n)
    [] Depth(n) = 3 /\ n.table -> IF n.indexed THEN AddTableSubTypes(n) ELSE AddMembers(n)
    [] OTHER -> AddTableMembers(n)

Children(n) ==
  CASE n.lang = "C/C++" -> CppChildren(n)
    [] n.lang = "C#" -> CSharpChildren(n)
    [] n.lang = "Java" -> JavaChildren(n)
    [] n.lang = "ReStructuredText" -> RstChildren(n)
    [] n.lang = "SQL" -> SqlChildren(n)
    [] OTHER -> GenericChildren(n)

-----------------------------------------------------------------------------
\* The items with n opened.  The (+) goes when there was nothing to add.
Opened(items, n) ==
  (items \ {n})
  \cup {[n EXCEPT !.opened = TRUE, !.plus = Children(n) # {}]}
  \cup Children(n)

\* UpdateTagsTree on a tree that is visible: the roots, and the one of the
\* language of the current file is opened.
UpdateTagsTree(lang) ==
  LET roots == {Root(l) : l \in {t.lang : t \in tags}} IN
  /\ tree' = IF Root(lang) \in roots THEN Opened(roots, Root(lang)) ELSE roots
  /\ UNCHANGED tags

\* TVN_ITEMEXPANDING.
OnItemExpanding(n) ==
  /\ n.plus /\ ~n.opened
  /\ tree' = Opened(tree, n)
  /\ UNCHANGED tags

Init == tags \in Databases /\ tree = {}

Next ==
  \/ \E lang \in Open : UpdateTagsTree(lang)
  \/ \E n \in tree : OnItemExpanding(n)

Spec == Init /\ [][Next]_vars
-----------------------------------------------------------------------------
TypeOK ==
  /\ \A t \in tags : DOMAIN t = Columns
  /\ \A n \in tree : /\ {n.plus, n.opened, n.table, n.indexed} \subseteq BOOLEAN
                     /\ TagOf(n) \in tags \cup {NoTag}
                     /\ Depth(n) \in 1..(IF n.lang = "SQL" THEN 5 ELSE 4)

\* Nothing is left to open.
Complete == tree # {} /\ \A n \in tree : n.plus => n.opened

Shown == {TagOf(n) : n \in {m \in tree : ShowsTag(m)}}

\* The tags the tree has a place for, said of a tag and those it belongs to
\* instead of from the root downwards.
Owns(o, t) == t.lang = o.lang /\ t.memberOf = o.name

HasPlace(t) ==
  LET of(types) == OfTypes(t.lang, types)
      compound(o) == TypeHasMembers(t.lang, <<o.type>>)
      inPackage(o) == \E p \in OfTypes("Java", {"package"}) : p.file = o.file
      inNamespace(o) == \E s \in of({"namespace"}) : Owns(s, o)
      class(o) == o.type \in {"class", "interface"}
      listed(o) == t.lang = "C/C++" => o.type \in CppTypes
  IN
  CASE t.lang = "C#" ->
         \/ class(t) /\ inNamespace(t)
         \/ \E o \in of({"class", "interface"}) : inNamespace(o) /\ t.memberOf = o.memberOf \o o.name
    [] t.lang = "Java" ->
         \/ class(t) /\ inPackage(t)
         \/ \E o \in of({"class", "interface"}) : inPackage(o) /\ Owns(o, t) /\ o.file = t.file
    [] t.lang = "ReStructuredText" ->
         \/ t.type = "chapter"
         \/ t.type = "section" /\ \E c \in of({"chapter"}) : Owns(c, t)
         \/ /\ t.type = "subsection"
            /\ \E s \in of({"section"}) : Owns(s, t) /\ \E c \in of({"chapter"}) : Owns(c, s)
    [] t.lang = "SQL" ->
         \/ t.type = "table"
         \/ t.type \notin {"field", "index"} /\ t.memberOf = <<>>
         \/ \E o \in of({"table"}) : Owns(o, t)
    [] OTHER ->
         \/ listed(t) /\ (t.memberOf = <<>> \/ compound(t))
         \/ \E o \in Rows(t.lang) : listed(o) /\ compound(o) /\ Owns(o, t)

\* Opened in whatever order, the tree ends with exactly the tags it has a
\* place for: none is lost below a (+) that was not made or a flag that was
\* not handed down, and none comes in from elsewhere.
ShowsExactly == Complete => Shown = {t \in tags : HasPlace(t)}

\* Some tags can be in two places by what they are: those that are shown for
\* themselves, whether they belong to another tag or not.
ShownForItself(t) ==
  CASE t.lang \in {"C#", "Java"} -> t.type \in {"class", "interface"}
    [] t.lang = "SQL" -> t.type = "table"
    [] OTHER -> TypeHasMembers(t.lang, <<t.type>>)

Scope(o) == IF o.lang = "C#" THEN o.memberOf \o o.name ELSE o.name

\* Any other tag is in the tree twice only because two of its owners have the
\* same name: it is not listed both under its type and under an owner, nor
\* twice under one.
TwiceOnlyByName ==
  \A m, n \in {k \in tree : ShowsTag(k)} :
    TagOf(m) = TagOf(n) /\ m # n =>
      LET owner(k) == k.at[Len(k.at) - 1].tag IN
      \/ ShownForItself(TagOf(m))
      \/ NoTag \notin {owner(m), owner(n)} /\ Scope(owner(m)) = Scope(owner(n))

\* Down to the sections, the (+) of a title in a reStructuredText file says
\* before it is opened whether there is something under it.  The (+) of a
\* subsection is made the same way, and Expand has no case for it.
RstPlusIsRight ==
  \A n \in tree :
    n.lang = "ReStructuredText" /\ Depth(n) \in 2..3 => (n.plus <=> Children(n) # {})

=============================================================================
