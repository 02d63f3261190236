------------------------- MODULE TreeBuilders_proof -------------------------
(***************************************************************************)
(* Proofs about TreeBuilders, for every table Tags and every order in      *)
(* which the items are opened.                                             *)
(*                                                                         *)
(* The inductive invariant says of each item what its builder relies on    *)
(* when it is opened (Shape), and why the tag it shows is there (Placed);  *)
(* of the tree, that it is filled below what has been opened and nowhere   *)
(* else, and that an item is two items nowhere. With that, what is shown   *)
(* at the end is the work of the queries alone: each item a query finds is *)
(* in the tree, and by the steps from the root to a tag that has a place,  *)
(* so is the tag.                                                          *)
(*                                                                         *)
(* The builders are taken one by one; what they have in common is that an  *)
(* item they make has one label more than its parent.                      *)
(***************************************************************************)
EXTENDS TreeBuilders, SequenceTheorems, TLAPS

-----------------------------------------------------------------------------
Langs == {t.lang : t \in tags}

\* What the text of a label can be, what a label can be, and an item.
LabelTexts ==
  {<<>>} \cup {<<t.lang>> : t \in tags} \cup {<<t.type>> : t \in tags} \cup {t.name : t \in tags}

Labels == [text : LabelTexts, tag : tags \cup {NoTag}]

Items == [at : Seq(Labels) \ {<<>>}, lang : Langs, plus : BOOLEAN, opened : BOOLEAN,
          table : BOOLEAN, indexed : BOOLEAN]

\* One label further down.
Ext(s, label) == Append(s, label)

\* Where an item of depth two with the text x is.
Under(lang, x) == Ext(<<Text(<<lang>>)>>, Text(x))

-----------------------------------------------------------------------------
\* The tags that are listed under their type.
Listed(lang) == {t \in Rows(lang) : lang = "C/C++" => t.type \in CppTypes}

\* What the items of a language are, level by level: first of the languages
\* whose tags are listed by type.
FlatShape(n) ==
  /\ Depth(n) <= 4
  /\ Depth(n) = 2 => \E t \in Listed(n.lang) : n.at = Under(n.lang, <<t.type>>)
  /\ Depth(n) = 3 =>
       \E t \in Listed(n.lang) :
         /\ n.at = Ext(Under(n.lang, <<t.type>>), TagLabel(t))
         /\ n.plus => TypeHasMembers(n.lang, <<t.type>>)
  /\ Depth(n) = 4 => ~n.plus

\* C#: namespaces, their classes, members.
InNamespace(t) == \E s \in OfTypes("C#", {"namespace"}) : Owns(s, t)
Classes(lang) == OfTypes(lang, {"class", "interface"})

CSharpShape(n) ==
  /\ Depth(n) <= 4
  /\ Depth(n) = 2 =>
       \E s \in OfTypes("C#", {"namespace"}) : ItemText(n) = s.name /\ TagOf(n) = NoTag
  /\ Depth(n) = 3 => ShowsTag(n) /\ TagOf(n) \in Classes("C#") /\ InNamespace(TagOf(n))
  /\ Depth(n) = 4 => ~n.plus

\* Java: packages, the classes in their files, members.
InPackage(t) == \E p \in OfTypes("Java", {"package"}) : p.file = t.file

JavaShape(n) ==
  /\ Depth(n) <= 4
  /\ Depth(n) = 2 =>
       \E p \in OfTypes("Java", {"package"}) : ItemText(n) = p.name /\ TagOf(n) = NoTag
  /\ Depth(n) = 3 => ShowsTag(n) /\ TagOf(n) \in Classes("Java") /\ InPackage(TagOf(n))
  /\ Depth(n) = 4 => ~n.plus

\* reStructuredText: three levels that can be opened.
Titles(type) == OfTypes("ReStructuredText", {type})

RstShape(n) ==
  /\ Depth(n) <= 4
  /\ Depth(n) = 2 => ShowsTag(n) /\ TagOf(n) \in Titles("chapter")
  /\ Depth(n) = 3 => /\ ShowsTag(n) /\ TagOf(n) \in Titles("section")
                     /\ \E c \in Titles("chapter") : Owns(c, TagOf(n))
  /\ Depth(n) \in 2..3 => (n.plus <=> Children(n) # {})

\* SQL: what hangs below a table keeps the tag of the table.
Tables == OfTypes("SQL", {"table"})

SqlShape(n) ==
  /\ Depth(n) <= 5
  /\ Depth(n) = 2 =>
       \E t \in Rows("SQL") : /\ t.type \notin {"field", "index"}
                              /\ n.at = Under("SQL", <<t.type>>)
                              /\ n.table = (t.type = "table")
  /\ Depth(n) >= 3 /\ ~n.table => ~n.plus
  /\ Depth(n) = 3 /\ n.table => ShowsTag(n) /\ TagOf(n) \in Tables
  /\ Depth(n) = 4 /\ n.table => ~ShowsTag(n) /\ TagOf(n) \in Tables
  /\ Depth(n) = 5 => ~n.table

Shape(n) ==
  CASE n.lang = "C#" -> CSharpShape(n)
    [] n.lang = "Java" -> JavaShape(n)
    [] n.lang = "ReStructuredText" -> RstShape(n)
    [] n.lang = "SQL" -> SqlShape(n)
    [] OTHER -> FlatShape(n)

\* Why a tag is where it is: below a tag that owns it, or in the one place
\* that tags without an owner have, or because it is shown for itself.
Owner(n) == n.at[Len(n.at) - 1].tag

Unowned(t) == IF t.lang = "ReStructuredText" THEN t.type = "chapter" ELSE t.memberOf = <<>>

Home(t) ==
  IF t.lang = "ReStructuredText" THEN Ext(<<Text(<<t.lang>>)>>, TagLabel(t))
  ELSE Ext(Under(t.lang, <<t.type>>), TagLabel(t))

Placed(n) ==
  LET t == TagOf(n) IN
  /\ t \in tags /\ t.lang = n.lang /\ HasPlace(t)
  /\ \/ Owner(n) \in tags /\ ~Unowned(t) /\ t.memberOf = Scope(Owner(n))
     \/ Owner(n) = NoTag /\ Unowned(t) /\ n.at = Home(t)
     \/ ShownForItself(t)

\* What is true of an item by itself.
ItemInv(n) ==
  /\ n \in Items
  /\ Depth(n) = 1 => n.at = <<Text(<<n.lang>>)>> /\ ~n.table /\ ~n.indexed
  /\ Shape(n)
  /\ ShowsTag(n) => Placed(n)

-----------------------------------------------------------------------------
\* m is c as it was made, or opened since.
Version(m, c) ==
  /\ m.at = c.at /\ m.lang = c.lang /\ m.table = c.table /\ m.indexed = c.indexed
  /\ m.opened \/ m = c

\* What is true of the items of a tree, whatever has been opened so far.
ItemsRight(items) == \A n \in items : ItemInv(n)

HasParent(items) ==
  \A n \in items : Depth(n) > 1 =>
    \E p \in items : p.opened /\ n.at = Ext(p.at, Last(n.at))

Filled(items) ==
  \A n \in items : n.opened => \A c \in Children(n) : \E m \in items : Version(m, c)

Rooted(items) == items # {} => \A l \in Langs : \E m \in items : Version(m, Root(l))

OnePerPlace(items) == \A m, n \in items : m.at = n.at => m = n

Grown(items) ==
  /\ ItemsRight(items)
  /\ HasParent(items)
  /\ Filled(items)
  /\ Rooted(items)
  /\ OnePerPlace(items)

TreeInv == tags \in Databases /\ Grown(tree)

-----------------------------------------------------------------------------
\* c is an item one level below p, not yet opened.
Made(c, p) ==
  /\ c \in Items /\ ~c.opened
  /\ c.at = Ext(p.at, Last(c.at)) /\ c.lang = p.lang
  /\ Depth(c) = Depth(p) + 1
  /\ Owner(c) = TagOf(p)

\* What one label more does to where an item is.
LEMMA LastOfAppend ==
  ASSUME NEW s \in Seq(Labels) \ {<<>>}, NEW e \in Labels
  PROVE  /\ Ext(s, e) \in Seq(Labels) \ {<<>>}
         /\ Last(Ext(s, e)) = e
         /\ Len(Ext(s, e)) = Len(s) + 1 /\ Len(s) \in Nat \ {0}
         /\ Ext(s, e)[Len(Ext(s, e)) - 1] = Last(s)
<1> DEFINE app == Append(s, e)
<1>1. Len(s) \in Nat \ {0}
  OBVIOUS
<1>2. app \in Seq(Labels) /\ Len(app) = Len(s) + 1
  OBVIOUS
<1>3. app[Len(s) + 1] = e /\ app[Len(s)] = s[Len(s)]
  BY <1>1
<1> HIDE DEF app
<1>4. Len(app) - 1 = Len(s) /\ app # <<>>
  BY <1>1, <1>2
<1>5. Last(app) = e /\ app[Len(app) - 1] = Last(s)
  BY <1>2, <1>3, <1>4 DEF Last
<1> QED BY <1>1, <1>2, <1>4, <1>5 DEF app, Ext

\* The labels the builders make of a row.
LEMMA LabelOf ==
  ASSUME tags \in Databases
  PROVE  /\ \A t \in tags : TagLabel(t) \in Labels /\ Text(t.name) \in Labels
                            /\ Text(<<t.type>>) \in Labels /\ Text(<<t.lang>>) \in Labels
                            /\ [text |-> <<t.type>>, tag |-> t] \in Labels
                            /\ t.name # <<>> /\ <<t.type>> # <<>> /\ t # NoTag
         /\ \A t, o \in tags : [text |-> <<t.type>>, tag |-> o] \in Labels
<1>1. \A t \in tags : t.name # <<>>
  BY DatabasesAssumption
<1>2. NoTag.name = <<>>
  BY DEF NoTag
<1> QED BY <1>1, <1>2 DEF TagLabel, Text, Labels, LabelTexts

\* What Child returns.
LEMMA ChildIs ==
  ASSUME NEW p \in Items, NEW label \in Labels, NEW plus \in BOOLEAN,
         NEW c, c = Child(p, label, plus)
  PROVE  /\ Made(c, p)
         /\ c.at = Ext(p.at, label) /\ c.plus = plus
         /\ ~c.table /\ ~c.indexed
         /\ ItemText(c) = label.text /\ TagOf(c) = label.tag
<1>1. c = [at |-> Ext(p.at, label), lang |-> p.lang, plus |-> plus, opened |-> FALSE,
           table |-> FALSE, indexed |-> FALSE]
  BY DEF Child, Item, Ext
<1>2. p.at \in Seq(Labels) \ {<<>>} /\ p.lang \in Langs
  BY DEF Items
<1>3. /\ Ext(p.at, label) \in Seq(Labels) \ {<<>>}
      /\ Last(Ext(p.at, label)) = label
      /\ Len(Ext(p.at, label)) = Len(p.at) + 1
      /\ Ext(p.at, label)[Len(Ext(p.at, label)) - 1] = Last(p.at)
  BY <1>2, LastOfAppend
<1>4. c \in Items
  BY <1>1, <1>2, <1>3 DEF Items
<1>5. c.at = Ext(p.at, label) /\ c.lang = p.lang /\ c.plus = plus
      /\ c.opened = FALSE /\ c.table = FALSE /\ c.indexed = FALSE
  BY <1>1
<1>6. /\ Last(c.at) = label /\ Len(c.at) = Len(p.at) + 1
      /\ c.at[Len(c.at) - 1] = Last(p.at)
  BY <1>3, <1>5
<1> QED BY <1>4, <1>5, <1>6 DEF Made, Depth, Owner, TagOf, ItemText

\* The items a query for texts adds.
LEMMA TextsAre ==
  ASSUME tags \in Databases, NEW p \in Items, NEW S,
         \A x \in S : Text(x) \in Labels /\ x # <<>>,
         NEW c \in Texts(p, S)
  PROVE  \E x \in S :
           /\ Made(c, p) /\ c.plus /\ ~c.table /\ ~c.indexed
           /\ c.at = Ext(p.at, Text(x))
           /\ ItemText(c) = x /\ TagOf(c) = NoTag /\ ~ShowsTag(c)
<1>1. PICK x \in S : c = Child(p, Text(x), TRUE)
  BY DEF Texts
<1>2. Text(x) \in Labels /\ Text(x).text = x /\ Text(x).tag = NoTag /\ x # <<>>
  BY DEF Text
<1>3. /\ Made(c, p) /\ c.plus /\ ~c.table /\ ~c.indexed
      /\ c.at = Ext(p.at, Text(x))
      /\ ItemText(c) = Text(x).text /\ TagOf(c) = Text(x).tag
  <2>1. ASSUME NEW label \in Labels, NEW plus \in BOOLEAN, c = Child(p, label, plus)
        PROVE  /\ Made(c, p) /\ c.plus = plus /\ ~c.table /\ ~c.indexed
               /\ c.at = Ext(p.at, label)
               /\ ItemText(c) = label.text /\ TagOf(c) = label.tag
    BY <2>1, ChildIs
  <2> QED BY <1>1, <1>2, <2>1
<1> QED BY <1>2, <1>3 DEF ShowsTag

\* The items a query for tags adds.
LEMMA TagsAre ==
  ASSUME tags \in Databases, NEW p \in Items, NEW rows \in SUBSET tags, NEW plus \in BOOLEAN,
         NEW c \in Tags(p, rows, plus)
  PROVE  /\ TagOf(c) \in rows /\ ShowsTag(c)
         /\ Made(c, p) /\ c.plus = plus /\ ~c.table /\ ~c.indexed
         /\ c.at = Ext(p.at, TagLabel(TagOf(c)))
<1>1. PICK t \in rows : c = Child(p, TagLabel(t), plus)
  BY DEF Tags
<1>2. TagLabel(t) \in Labels /\ TagLabel(t).text = <<>> /\ TagLabel(t).tag = t
  BY LabelOf DEF TagLabel
<1>3. /\ Made(c, p) /\ c.plus = plus /\ ~c.table /\ ~c.indexed
      /\ c.at = Ext(p.at, TagLabel(t))
      /\ ItemText(c) = TagLabel(t).text /\ TagOf(c) = TagLabel(t).tag
  BY <1>1, <1>2, ChildIs
<1> QED BY <1>2, <1>3 DEF ShowsTag

\* Whether tags of a type have members is a yes or a no.
LEMMA MembersBoolean ==
  ASSUME NEW lang, NEW text
  PROVE  TypeHasMembers(lang, text) \in BOOLEAN
<1>1. CASE lang = "C/C++"
  BY <1>1 DEF TypeHasMembers
<1>2. CASE lang = "SQL"
  BY <1>2 DEF TypeHasMembers
<1>3. CASE lang \notin {"C/C++", "SQL"}
  BY <1>3 DEF TypeHasMembers
<1> QED BY <1>1, <1>2, <1>3

\* Every item has a depth.
LEMMA DepthOf ==
  ASSUME NEW n \in Items
  PROVE  Depth(n) \in Nat \ {0}
BY DEF Items, Depth

\* What the root of a language and the texts under it are.
LEMMA UnderIs ==
  ASSUME tags \in Databases, NEW t \in tags, NEW x, Text(x) \in Labels
  PROVE  /\ Under(t.lang, x) \in Seq(Labels) \ {<<>>}
         /\ Last(Under(t.lang, x)) = Text(x)
         /\ Len(Under(t.lang, x)) = 2
<1>1. Text(<<t.lang>>) \in Labels
  BY LabelOf
<1>2. <<Text(<<t.lang>>)>> \in Seq(Labels) \ {<<>>} /\ Len(<<Text(<<t.lang>>)>>) = 1
  BY <1>1
<1>3. ASSUME NEW s \in Seq(Labels) \ {<<>>}, Len(s) = 1, NEW e \in Labels
      PROVE  /\ Ext(s, e) \in Seq(Labels) \ {<<>>}
             /\ Last(Ext(s, e)) = e
             /\ Len(Ext(s, e)) = 2
  <2>1. Ext(s, e) \in Seq(Labels) \ {<<>>} /\ Last(Ext(s, e)) = e
    BY <1>3, LastOfAppend
  <2>2. Len(Ext(s, e)) = Len(s) + 1
    BY <1>3, LastOfAppend
  <2> QED BY <1>3, <2>1, <2>2
<1> QED BY <1>2, <1>3 DEF Under

\* Members have no (+).
LEMMA MembersMade ==
  ASSUME tags \in Databases, NEW p \in Items, NEW c \in AddMembers(p)
  PROVE  /\ TagOf(c) \in MembersOf(p.lang, TagOf(p).name) /\ ShowsTag(c)
         /\ Made(c, p) /\ ~c.plus /\ ~c.table /\ ~c.indexed
         /\ c.at = Ext(p.at, TagLabel(TagOf(c)))
<1> DEFINE rows == MembersOf(p.lang, TagOf(p).name)
<1>1. rows \in SUBSET tags
  BY DEF MembersOf, Rows
<1>2. PICK plus \in BOOLEAN : plus = FALSE /\ c \in Tags(p, rows, plus)
  BY Zenon DEF AddMembers
<1> HIDE DEF rows
<1>3. /\ TagOf(c) \in rows /\ ShowsTag(c)
      /\ Made(c, p) /\ c.plus = plus /\ ~c.table /\ ~c.indexed
      /\ c.at = Ext(p.at, TagLabel(TagOf(c)))
  BY <1>1, <1>2, TagsAre
<1> QED BY <1>2, <1>3 DEF rows

\* Tags under their type.
LEMMA TypeMembersMade ==
  ASSUME tags \in Databases, NEW p \in Items, NEW c \in AddTypeMembers(p)
  PROVE  LET members == TypeHasMembers(p.lang, ItemText(p)) IN
         /\ TagOf(c) \in OfType(p) /\ ShowsTag(c)
         /\ Made(c, p) /\ c.plus = members /\ ~c.table /\ ~c.indexed
         /\ c.at = Ext(p.at, TagLabel(TagOf(c)))
         /\ members \/ TagOf(c).memberOf = <<>>
<1> DEFINE members == TypeHasMembers(p.lang, ItemText(p))
           rows == {t \in OfType(p) : members \/ t.memberOf = <<>>}
<1>1. c \in Tags(p, rows, members)
  BY Zenon DEF AddTypeMembers
<1>2. rows \in SUBSET tags
  BY DEF OfType, Rows
<1>3. members \in BOOLEAN
  BY MembersBoolean
<1>4. ASSUME NEW S \in SUBSET tags, NEW plus \in BOOLEAN, c \in Tags(p, S, plus)
      PROVE  /\ TagOf(c) \in S /\ ShowsTag(c)
             /\ Made(c, p) /\ c.plus = plus /\ ~c.table /\ ~c.indexed
             /\ c.at = Ext(p.at, TagLabel(TagOf(c)))
  BY <1>4, TagsAre
<1>5. /\ TagOf(c) \in rows /\ ShowsTag(c)
      /\ Made(c, p) /\ c.plus = members /\ ~c.table /\ ~c.indexed
      /\ c.at = Ext(p.at, TagLabel(TagOf(c)))
  <2> HIDE DEF rows, members
  <2> QED BY <1>1, <1>2, <1>3, <1>4
<1> QED BY <1>5

\* The languages with a builder that does not list tags by type.
Others == {"C#", "Java", "ReStructuredText", "SQL"}

\* The queries of the generic builder and of the one for C and C++.
LEMMA FlatChildrenAre ==
  ASSUME NEW p \in Items, p.lang \notin Others, Depth(p) <= 3
  PROVE  Children(p) = IF Depth(p) = 1 THEN Texts(p, TypesOf(Listed(p.lang)))
                       ELSE IF Depth(p) = 2 THEN AddTypeMembers(p) ELSE AddMembers(p)
<1>1. Depth(p) \in {1, 2, 3}
  BY DepthOf
<1>2. CASE p.lang = "C/C++"
  <2>1. Children(p) = CppChildren(p)
    BY <1>2 DEF Children
  <2>2. Listed(p.lang) = {t \in Rows(p.lang) : t.type \in CppTypes}
    BY <1>2 DEF Listed
  <2> QED BY <1>1, <2>1, <2>2 DEF CppChildren
<1>3. CASE p.lang # "C/C++"
  <2>1. Children(p) = GenericChildren(p)
    BY <1>3 DEF Children, Others
  <2>2. Listed(p.lang) = Rows(p.lang)
    BY <1>3 DEF Listed
  <2> QED BY <1>1, <2>1, <2>2 DEF GenericChildren
<1> QED BY <1>2, <1>3

\* Where their tags have a place.
LEMMA PlaceFlat ==
  ASSUME NEW t \in tags, t.lang \notin Others
  PROVE  HasPlace(t) <=>
           \/ t \in Listed(t.lang) /\ (t.memberOf = <<>> \/ TypeHasMembers(t.lang, <<t.type>>))
           \/ \E o \in Listed(t.lang) : Owns(o, t) /\ TypeHasMembers(t.lang, <<o.type>>)
BY DEF HasPlace, Others, Listed, Rows

\* What they add to an item is as it should be.
LEMMA FlatChild ==
  ASSUME tags \in Databases, NEW p, ItemInv(p), p.plus, p.lang \notin Others,
         NEW c \in Children(p)
  PROVE  ItemInv(c) /\ Made(c, p)
<1> DEFINE lang == p.lang
<1>0. p \in Items /\ FlatShape(p) /\ Depth(p) \in Nat \ {0}
  BY DepthOf DEF ItemInv, Shape, Others
<1>1. Depth(p) \in {1, 2, 3}
  BY <1>0 DEF FlatShape
<1>2. SUFFICES /\ Made(c, p)
               /\ FlatShape(c)
               /\ ShowsTag(c) => Placed(c)
  BY <1>0 DEF Made, ItemInv, Shape, Others
<1>3. CASE Depth(p) = 1
  <2>1. \A x \in TypesOf(Listed(lang)) : Text(x) \in Labels /\ x # <<>>
    BY LabelOf DEF TypesOf, Listed, Rows
  <2>2. c \in Texts(p, TypesOf(Listed(lang)))
    BY <1>0, <1>3, FlatChildrenAre
  <2>3. PICK x \in TypesOf(Listed(lang)) :
          Made(c, p) /\ c.at = Ext(p.at, Text(x)) /\ ~ShowsTag(c)
    BY <1>0, <2>1, <2>2, TextsAre
  <2>4. PICK t \in Listed(lang) : x = <<t.type>>
    BY DEF TypesOf
  <2>5. p.at = <<Text(<<lang>>)>> /\ c.lang = lang /\ Depth(c) = 2
    BY <1>3, <2>3 DEF ItemInv, Made
  <2>6. c.at = Under(lang, <<t.type>>)
    BY <2>3, <2>4, <2>5 DEF Under
  <2>7. t \in Listed(p.lang) /\ c.lang = p.lang
    BY <2>4, <2>5
  <2>8. FlatShape(c)
    BY <2>5, <2>6, <2>7 DEF FlatShape
  <2> QED BY <2>3, <2>8
<1>4. CASE Depth(p) = 2
  <2>1. PICK u \in Listed(lang) : p.at = Under(lang, <<u.type>>)
    BY <1>0, <1>4 DEF FlatShape
  <2>2. ItemText(p) = <<u.type>> /\ TagOf(p) = NoTag
    <3>1. u \in tags /\ u.lang = lang /\ Text(<<u.type>>) \in Labels
      BY LabelOf DEF Listed, Rows
    <3> QED BY <2>1, <3>1, UnderIs DEF ItemText, TagOf, Text
  <2> DEFINE members == TypeHasMembers(lang, <<u.type>>)
             t == TagOf(c)
  <2>3. c \in AddTypeMembers(p)
    BY <1>0, <1>4, FlatChildrenAre
  <2>4. /\ t \in OfType(p) /\ Made(c, p) /\ c.plus = members
        /\ c.at = Ext(p.at, TagLabel(t))
        /\ members \/ t.memberOf = <<>>
    BY <1>0, <2>2, <2>3, TypeMembersMade
  <2>6. t \in tags /\ t.lang = lang /\ t.type = u.type /\ t \in Listed(lang)
    BY <2>2, <2>4 DEF OfType, Rows, Listed
  <2>7. c.at = Ext(Under(lang, <<t.type>>), TagLabel(t)) /\ Depth(c) = 3 /\ c.lang = lang
    BY <1>4, <2>1, <2>4, <2>6 DEF Made
  <2>8. FlatShape(c)
    <3>1. c.plus => TypeHasMembers(lang, <<t.type>>)
      BY <2>4, <2>6
    <3>2. \E x \in Listed(c.lang) :
            /\ c.at = Ext(Under(c.lang, <<x.type>>), TagLabel(x))
            /\ c.plus => TypeHasMembers(c.lang, <<x.type>>)
      <4> HIDE DEF t, members
      <4> QED BY <2>6, <2>7, <3>1
    <3> QED BY <2>7, <3>2 DEF FlatShape
  <2>10. HasPlace(t)
    BY <2>4, <2>6, PlaceFlat
  <2>11. Owner(c) = NoTag
    BY <2>2, <2>4 DEF Made
  <2>12. members => ShownForItself(t)
    BY <2>6 DEF ShownForItself, Others
  <2>13. t.memberOf = <<>> => Unowned(t) /\ c.at = Home(t)
    BY <2>6, <2>7 DEF Unowned, Home, Others
  <2> QED BY <2>4, <2>6, <2>7, <2>8, <2>10, <2>11, <2>12, <2>13 DEF Placed
<1>5. CASE Depth(p) = 3
  <2>1. PICK o \in Listed(lang) :
          /\ p.at = Ext(Under(lang, <<o.type>>), TagLabel(o))
          /\ TypeHasMembers(lang, <<o.type>>)
    BY <1>0, <1>5 DEF FlatShape
  <2>2. o \in tags /\ o.lang = lang /\ o.name # <<>> /\ o \in Rows(lang)
    BY LabelOf DEF Listed, Rows
  <2>3. TagOf(p) = o
    <3>1. TagLabel(o) \in Labels /\ Text(<<o.type>>) \in Labels
      BY <2>2, LabelOf
    <3>2. Under(lang, <<o.type>>) \in Seq(Labels) \ {<<>>}
      BY <2>2, <3>1, UnderIs
    <3>3. Last(p.at) = TagLabel(o)
      BY <2>1, <3>1, <3>2, LastOfAppend
    <3> QED BY <3>3 DEF TagOf, TagLabel
  <2>4. c \in AddMembers(p)
    BY <1>0, <1>5, FlatChildrenAre
  <2>5. AddMembers(p) = Tags(p, MembersOf(lang, o.name), FALSE)
    BY <2>3, Zenon DEF AddMembers
  <2> DEFINE t == TagOf(c)
  <2>6. t \in MembersOf(lang, o.name) /\ Made(c, p) /\ ~c.plus
    BY <1>0, <2>3, <2>4, MembersMade
  <2>7. t \in tags /\ t.lang = lang /\ t.memberOf = o.name /\ t.memberOf # <<>> /\ Owns(o, t)
    BY <2>2, <2>6 DEF MembersOf, Rows, Owns
  <2>8. HasPlace(t)
    BY <2>1, <2>2, <2>7, PlaceFlat
  <2>9. Owner(c) = o /\ Depth(c) = 4 /\ c.lang = lang
    BY <1>5, <2>3, <2>6 DEF Made
  <2>10. FlatShape(c)
    BY <2>6, <2>9 DEF FlatShape
  <2>11. ~Unowned(t) /\ t.memberOf = Scope(o)
    BY <2>2, <2>7 DEF Unowned, Scope, Others
  <2> QED BY <2>2, <2>6, <2>7, <2>8, <2>9, <2>10, <2>11 DEF Placed
<1> QED BY <1>1, <1>3, <1>4, <1>5

\* Tags with a (+), and tags without one.
Expandable(n, rows) == Tags(n, rows, TRUE)
Plain(n, rows) == Tags(n, rows, FALSE)

\* Tags with a (+).
LEMMA ExpandableMade ==
  ASSUME tags \in Databases, NEW p \in Items, NEW rows \in SUBSET tags,
         NEW c \in Expandable(p, rows)
  PROVE  /\ TagOf(c) \in rows /\ ShowsTag(c)
         /\ Made(c, p) /\ c.plus /\ ~c.table /\ ~c.indexed
         /\ c.at = Ext(p.at, TagLabel(TagOf(c)))
<1>1. ASSUME NEW b \in BOOLEAN, c \in Tags(p, rows, b)
      PROVE  /\ TagOf(c) \in rows /\ ShowsTag(c)
             /\ Made(c, p) /\ c.plus = b /\ ~c.table /\ ~c.indexed
             /\ c.at = Ext(p.at, TagLabel(TagOf(c)))
  BY <1>1, TagsAre
<1> QED BY <1>1 DEF Expandable

\* Tags without one.
LEMMA PlainMade ==
  ASSUME tags \in Databases, NEW p \in Items, NEW rows \in SUBSET tags,
         NEW c \in Plain(p, rows)
  PROVE  /\ TagOf(c) \in rows /\ ShowsTag(c)
         /\ Made(c, p) /\ ~c.plus /\ ~c.table /\ ~c.indexed
         /\ c.at = Ext(p.at, TagLabel(TagOf(c)))
<1>1. ASSUME NEW b \in BOOLEAN, c \in Tags(p, rows, b)
      PROVE  /\ TagOf(c) \in rows /\ ShowsTag(c)
             /\ Made(c, p) /\ c.plus = b /\ ~c.table /\ ~c.indexed
             /\ c.at = Ext(p.at, TagLabel(TagOf(c)))
  BY <1>1, TagsAre
<1> QED BY <1>1 DEF Plain

\* Where the tags of C# have a place.
LEMMA PlaceCSharp ==
  ASSUME NEW t \in tags, t.lang = "C#"
  PROVE  HasPlace(t) <=>
           \/ t \in Classes("C#") /\ InNamespace(t)
           \/ \E o \in Classes("C#") : InNamespace(o) /\ t.memberOf = o.memberOf \o o.name
BY DEF HasPlace, Classes, InNamespace, OfTypes, Rows

\* The rows of its queries.
CSharpClasses(n) == OfTypes(n.lang, {"class", "interface"}) \cap MembersOf(n.lang, ItemText(n))
CSharpMembers(n) == MembersOf(n.lang, TagOf(n).memberOf \o TagOf(n).name)

\* The queries of its builder, level by level.
LEMMA CSharpChildrenAre ==
  ASSUME NEW n
  PROVE  /\ Depth(n) = 1 =>
              CSharpChildren(n) = Texts(n, {t.name : t \in OfTypes(n.lang, {"namespace"})})
         /\ Depth(n) = 2 => CSharpChildren(n) = Expandable(n, CSharpClasses(n))
         /\ Depth(n) = 3 => CSharpChildren(n) = Plain(n, CSharpMembers(n))
<1>1. CSharpChildren(n) =
        CASE Depth(n) = 1 -> Texts(n, {t.name : t \in OfTypes(n.lang, {"namespace"})})
          [] Depth(n) = 2 -> Expandable(n, CSharpClasses(n))
          [] Depth(n) = 3 -> Plain(n, CSharpMembers(n))
          [] OTHER -> {}
  BY Zenon DEF CSharpChildren, Expandable, Plain, CSharpClasses, CSharpMembers
<1> QED BY <1>1

\* What it adds to an item is as it should be.
LEMMA CSharpChild ==
  ASSUME tags \in Databases, NEW p, ItemInv(p), p.plus, p.lang = "C#",
         NEW c \in Children(p)
  PROVE  ItemInv(c) /\ Made(c, p)
<1>0. p \in Items /\ CSharpShape(p) /\ Depth(p) \in Nat \ {0} /\ Children(p) = CSharpChildren(p)
  BY DepthOf DEF ItemInv, Shape, Children
<1>1. Depth(p) \in {1, 2, 3}
  BY <1>0 DEF CSharpShape
<1>2. SUFFICES /\ Made(c, p)
               /\ CSharpShape(c)
               /\ ShowsTag(c) => Placed(c)
  BY <1>0 DEF Made, ItemInv, Shape
<1> DEFINE t == TagOf(c)
<1>3. CASE Depth(p) = 1
  <2> DEFINE names == {s.name : s \in OfTypes("C#", {"namespace"})}
  <2>1. \A x \in names : Text(x) \in Labels /\ x # <<>>
    BY LabelOf DEF OfTypes, Rows
  <2>2. c \in Texts(p, names)
    BY <1>0, <1>3 DEF CSharpChildren
  <2>3. PICK x \in names : Made(c, p) /\ ItemText(c) = x /\ TagOf(c) = NoTag /\ ~ShowsTag(c)
    <3> HIDE DEF names
    <3> QED BY <1>0, <2>1, <2>2, TextsAre
  <2>4. Depth(c) = 2 /\ \E s \in OfTypes("C#", {"namespace"}) : ItemText(c) = s.name
    BY <1>3, <2>3 DEF Made
  <2> QED BY <2>3, <2>4 DEF CSharpShape
<1>4. CASE Depth(p) = 2
  <2>1. PICK s \in OfTypes("C#", {"namespace"}) : ItemText(p) = s.name /\ TagOf(p) = NoTag
    BY <1>0, <1>4 DEF CSharpShape
  <2> DEFINE rows == CSharpClasses(p)
  <2>2. c \in Expandable(p, rows)
    BY <1>0, <1>4, CSharpChildrenAre
  <2>3. rows \in SUBSET tags
    BY DEF CSharpClasses, CSharpMembers, MembersOf, Rows
  <2>4. t \in rows /\ ShowsTag(c) /\ Made(c, p)
    <3> HIDE DEF rows
    <3> QED BY <1>0, <2>2, <2>3, ExpandableMade
  <2>5. t \in tags /\ t.lang = "C#" /\ t \in Classes("C#") /\ InNamespace(t)
    BY <2>1, <2>4 DEF CSharpClasses, CSharpMembers, MembersOf, Rows, InNamespace, Owns, OfTypes, Classes
  <2>6. CSharpShape(c)
    BY <1>4, <2>4, <2>5 DEF CSharpShape, Made
  <2>7. HasPlace(t) /\ ShownForItself(t)
    BY <2>5, PlaceCSharp DEF ShownForItself, Classes, OfTypes
  <2> QED BY <2>4, <2>5, <2>6, <2>7 DEF Placed, Made
<1>5. CASE Depth(p) = 3
  <2> DEFINE o == TagOf(p)
  <2>1. o \in Classes("C#") /\ InNamespace(o)
    BY <1>0, <1>5 DEF CSharpShape
  <2> DEFINE rows == CSharpMembers(p)
  <2>2. c \in Plain(p, rows)
    BY <1>0, <1>5, CSharpChildrenAre
  <2>3. rows \in SUBSET tags
    BY DEF CSharpClasses, CSharpMembers, MembersOf, Rows
  <2>4. t \in rows /\ ShowsTag(c) /\ Made(c, p) /\ ~c.plus
    <3> HIDE DEF rows
    <3> QED BY <1>0, <2>2, <2>3, PlainMade
  <2>5. /\ t \in tags /\ t.lang = "C#" /\ t.memberOf = o.memberOf \o o.name /\ t.memberOf # <<>>
        /\ o \in tags /\ o.lang = "C#"
    BY <2>1, <2>4 DEF CSharpClasses, CSharpMembers, MembersOf, Rows, Classes, OfTypes
  <2>6. CSharpShape(c)
    BY <1>5, <2>4 DEF CSharpShape, Made
  <2>7. HasPlace(t)
    BY <2>1, <2>5, PlaceCSharp
  <2>8. ~Unowned(t) /\ t.memberOf = Scope(o)
    BY <2>5 DEF Unowned, Scope
  <2>9. Owner(c) = o /\ c.lang = "C#"
    BY <2>4 DEF Made
  <2> QED BY <2>4, <2>5, <2>6, <2>7, <2>8, <2>9 DEF Placed
<1> QED BY <1>1, <1>3, <1>4, <1>5

\* Where the tags of Java have a place.
LEMMA PlaceJava ==
  ASSUME NEW t \in tags, t.lang = "Java"
  PROVE  HasPlace(t) <=>
           \/ t \in Classes("Java") /\ InPackage(t)
           \/ \E o \in Classes("Java") : InPackage(o) /\ Owns(o, t) /\ o.file = t.file
BY DEF HasPlace, Classes, InPackage, OfTypes, Rows

\* The rows of its queries.
JavaClasses(n) ==
  LET packages == OfTypes(n.lang, {"package"}) IN
  {t \in tags : /\ t.type \in {"class", "interface"}
                /\ t.file \in {p.file : p \in {q \in packages : q.name = ItemText(n)}}}
JavaMembers(n) == {t \in MembersOf(n.lang, TagOf(n).name) : t.file = TagOf(n).file}

\* The queries of its builder, level by level.
LEMMA JavaChildrenAre ==
  ASSUME NEW n
  PROVE  /\ Depth(n) = 1 =>
              JavaChildren(n) = Texts(n, {t.name : t \in OfTypes(n.lang, {"package"})})
         /\ Depth(n) = 2 => JavaChildren(n) = Expandable(n, JavaClasses(n))
         /\ Depth(n) = 3 => JavaChildren(n) = Plain(n, JavaMembers(n))
<1>1. JavaChildren(n) =
        CASE Depth(n) = 1 -> Texts(n, {t.name : t \in OfTypes(n.lang, {"package"})})
          [] Depth(n) = 2 -> Expandable(n, JavaClasses(n))
          [] Depth(n) = 3 -> Plain(n, JavaMembers(n))
          [] OTHER -> {}
  BY Zenon DEF JavaChildren, Expandable, Plain, JavaClasses, JavaMembers
<1> QED BY <1>1

\* What it adds to an item is as it should be: its second query does not ask
\* for the language, and a file with a package has no other.
LEMMA JavaChild ==
  ASSUME tags \in Databases, NEW p, ItemInv(p), p.plus, p.lang = "Java",
         NEW c \in Children(p)
  PROVE  ItemInv(c) /\ Made(c, p)
<1>0. p \in Items /\ JavaShape(p) /\ Depth(p) \in Nat \ {0} /\ Children(p) = JavaChildren(p)
  BY DepthOf DEF ItemInv, Shape, Children
<1>1. Depth(p) \in {1, 2, 3}
  BY <1>0 DEF JavaShape
<1>2. SUFFICES /\ Made(c, p)
               /\ JavaShape(c)
               /\ ShowsTag(c) => Placed(c)
  BY <1>0 DEF Made, ItemInv, Shape
<1> DEFINE t == TagOf(c)
           packages == OfTypes("Java", {"package"})
<1>3. CASE Depth(p) = 1
  <2> DEFINE names == {s.name : s \in packages}
  <2>1. \A x \in names : Text(x) \in Labels /\ x # <<>>
    BY LabelOf DEF OfTypes, Rows
  <2>2. c \in Texts(p, names)
    BY <1>0, <1>3 DEF JavaChildren
  <2>3. PICK x \in names : Made(c, p) /\ ItemText(c) = x /\ TagOf(c) = NoTag /\ ~ShowsTag(c)
    <3> HIDE DEF names
    <3> QED BY <1>0, <2>1, <2>2, TextsAre
  <2>4. Depth(c) = 2 /\ \E s \in packages : ItemText(c) = s.name
    BY <1>3, <2>3 DEF Made
  <2> QED BY <2>3, <2>4 DEF JavaShape
<1>4. CASE Depth(p) = 2
  <2>1. TagOf(p) = NoTag
    BY <1>0, <1>4 DEF JavaShape
  <2> DEFINE rows == JavaClasses(p)
  <2>2. c \in Expandable(p, rows)
    BY <1>0, <1>4, JavaChildrenAre
  <2>3. t \in rows /\ ShowsTag(c) /\ Made(c, p)
    <3>1. rows \in SUBSET tags
      BY DEF JavaClasses
    <3> HIDE DEF rows
    <3> QED BY <1>0, <2>2, <3>1, ExpandableMade
  <2>4. PICK q \in packages : q.file = t.file
    BY <2>3 DEF JavaClasses
  <2>5. t \in tags /\ t.lang = "Java" /\ t.type \in {"class", "interface"}
    <3>1. q \in tags /\ q.lang = "Java" /\ q.type = "package"
      BY DEF OfTypes, Rows
    <3> QED BY <2>3, <2>4, <3>1, PackagesAssumption DEF JavaClasses
  <2>6. t \in Classes("Java") /\ InPackage(t)
    BY <2>4, <2>5 DEF Classes, OfTypes, Rows, InPackage
  <2>7. JavaShape(c)
    BY <1>4, <2>3, <2>6 DEF JavaShape, Made
  <2>8. HasPlace(t) /\ ShownForItself(t)
    BY <2>5, <2>6, PlaceJava DEF ShownForItself
  <2> QED BY <2>3, <2>5, <2>7, <2>8 DEF Placed, Made
<1>5. CASE Depth(p) = 3
  <2> DEFINE o == TagOf(p)
  <2>1. o \in Classes("Java") /\ InPackage(o)
    BY <1>0, <1>5 DEF JavaShape
  <2> DEFINE rows == JavaMembers(p)
  <2>2. c \in Plain(p, rows)
    BY <1>0, <1>5, JavaChildrenAre
  <2>3. rows \in SUBSET tags
    BY DEF JavaMembers, MembersOf, Rows
  <2>4. t \in rows /\ ShowsTag(c) /\ Made(c, p) /\ ~c.plus
    <3> HIDE DEF rows
    <3> QED BY <1>0, <2>2, <2>3, PlainMade
  <2>5. /\ t \in tags /\ t.lang = "Java" /\ t.memberOf = o.name /\ t.memberOf # <<>>
        /\ o \in tags /\ o.lang = "Java" /\ t.file = o.file /\ Owns(o, t)
    BY <2>1, <2>4 DEF JavaMembers, MembersOf, Rows, Classes, OfTypes, Owns
  <2>6. JavaShape(c)
    BY <1>5, <2>4 DEF JavaShape, Made
  <2>7. HasPlace(t)
    BY <2>1, <2>5, PlaceJava
  <2>8. ~Unowned(t) /\ t.memberOf = Scope(o)
    BY <2>5 DEF Unowned, Scope
  <2>9. Owner(c) = o /\ c.lang = "Java"
    BY <2>4 DEF Made
  <2> QED BY <2>4, <2>5, <2>6, <2>7, <2>8, <2>9 DEF Placed
<1> QED BY <1>1, <1>3, <1>4, <1>5

\* The titles of a type under a title.
TitlesUnder(type, o) ==
  OfTypes("ReStructuredText", {type}) \cap MembersOf("ReStructuredText", o.name)

\* The items of one level of titles.
LEMMA ItemsMade ==
  ASSUME tags \in Databases, NEW p \in Items, p.lang = "ReStructuredText",
         NEW type, NEW sub, NEW c \in AddItems(p, type, sub)
  PROVE  /\ TagOf(c) \in Titles(type) /\ ShowsTag(c)
         /\ Depth(p) > 1 => TagOf(c).memberOf = TagOf(p).name
         /\ Made(c, p) /\ ~c.table /\ ~c.indexed
         /\ c.at = Ext(p.at, TagLabel(TagOf(c)))
         /\ c.plus <=> TitlesUnder(sub, TagOf(c)) # {}
<1>1. PICK t \in Titles(type) :
        /\ Depth(p) > 1 => t.memberOf = TagOf(p).name
        /\ c = Child(p, TagLabel(t), TitlesUnder(sub, t) # {})
  BY Zenon DEF AddItems, Titles, TitlesUnder
<1>2. t \in tags
  BY DEF Titles, OfTypes, Rows
<1>3. TagLabel(t) \in Labels /\ TagLabel(t).text = <<>> /\ TagLabel(t).tag = t
  BY <1>2, LabelOf DEF TagLabel
<1>4. ASSUME NEW b \in BOOLEAN, c = Child(p, TagLabel(t), b)
      PROVE  /\ Made(c, p) /\ c.plus = b /\ ~c.table /\ ~c.indexed
             /\ c.at = Ext(p.at, TagLabel(t))
             /\ ItemText(c) = <<>> /\ TagOf(c) = t
  <2>1. ASSUME NEW label \in Labels, c = Child(p, label, b)
        PROVE  /\ Made(c, p) /\ c.plus = b /\ ~c.table /\ ~c.indexed
               /\ c.at = Ext(p.at, label)
               /\ ItemText(c) = label.text /\ TagOf(c) = label.tag
    BY <2>1, ChildIs
  <2> QED BY <1>3, <1>4, <2>1
<1>5. PICK b \in BOOLEAN : b = (TitlesUnder(sub, t) # {})
  OBVIOUS
<1> QED BY <1>1, <1>4, <1>5 DEF ShowsTag

\* The queries of the builder for reStructuredText, level by level.
LEMMA RstChildrenAre ==
  ASSUME NEW n \in Items, n.lang = "ReStructuredText"
  PROVE  /\ Depth(n) = 1 => Children(n) = AddItems(n, "chapter", "section")
         /\ Depth(n) = 2 => Children(n) = AddItems(n, "section", "subsection")
         /\ Depth(n) = 3 => Children(n) = AddItems(n, "subsection", "subsubsection")
         /\ Depth(n) = 4 => Children(n) = {}
<1>1. Children(n) = RstChildren(n)
  BY DEF Children
<1>2. RstTypes[1] = "chapter" /\ RstTypes[2] = "section" /\ RstTypes[3] = "subsection"
      /\ RstTypes[4] = "subsubsection"
  BY DEF RstTypes
<1> QED BY <1>1, <1>2 DEF RstChildren

\* There is something under a title if there is a row for it.
LEMMA ItemsThere ==
  ASSUME tags \in Databases, NEW n \in Items, n.lang = "ReStructuredText", Depth(n) > 1,
         TagOf(n) \in tags, NEW type, NEW sub
  PROVE  AddItems(n, type, sub) # {} <=> TitlesUnder(type, TagOf(n)) # {}
<1> DEFINE rows == {t \in OfTypes(n.lang, {type}) : Depth(n) > 1 => t.memberOf = TagOf(n).name}
<1>1. rows = TitlesUnder(type, TagOf(n))
  <2>1. TagOf(n).name # <<>>
    BY LabelOf
  <2> QED BY <2>1 DEF TitlesUnder, MembersOf, OfTypes, Rows
<1>2. AddItems(n, type, sub) # {} <=> rows # {}
  BY DEF AddItems
<1> QED BY <1>1, <1>2

\* Where the titles have a place.
LEMMA PlaceRst ==
  ASSUME NEW t \in tags, t.lang = "ReStructuredText"
  PROVE  HasPlace(t) <=>
           \/ t.type = "chapter"
           \/ t.type = "section" /\ \E c \in Titles("chapter") : Owns(c, t)
           \/ /\ t.type = "subsection"
              /\ \E s \in Titles("section") : Owns(s, t) /\ \E c \in Titles("chapter") : Owns(c, s)
BY DEF HasPlace, Titles, OfTypes, Rows

\* What it adds to an item is as it should be, the (+) with it.
LEMMA RstChild ==
  ASSUME tags \in Databases, NEW p, ItemInv(p), p.plus, p.lang = "ReStructuredText",
         NEW c \in Children(p)
  PROVE  ItemInv(c) /\ Made(c, p)
<1>0. p \in Items /\ RstShape(p) /\ Depth(p) \in Nat \ {0}
  BY DepthOf DEF ItemInv, Shape
<1>1. Depth(p) \in {1, 2, 3}
  BY <1>0, RstChildrenAre DEF RstShape
<1>2. SUFFICES /\ Made(c, p)
               /\ RstShape(c)
               /\ ShowsTag(c) => Placed(c)
  BY <1>0 DEF Made, ItemInv, Shape
<1> DEFINE t == TagOf(c)
           o == TagOf(p)
<1>3. ASSUME NEW type, t \in Titles(type)
      PROVE  t \in tags /\ t.lang = "ReStructuredText" /\ t.type = type
  BY <1>3 DEF Titles, OfTypes, Rows
<1>4. CASE Depth(p) = 1
  <2>1. /\ t \in Titles("chapter") /\ ShowsTag(c) /\ Made(c, p)
        /\ c.at = Ext(p.at, TagLabel(t))
        /\ c.plus <=> TitlesUnder("section", t) # {}
    BY <1>0, <1>4, RstChildrenAre, ItemsMade
  <2>2. t \in tags /\ t.lang = "ReStructuredText" /\ t.type = "chapter"
    BY <1>3, <2>1
  <2>3. c \in Items /\ c.lang = "ReStructuredText" /\ Depth(c) = 2
    BY <1>4, <2>1 DEF Made
  <2>4. Children(c) # {} <=> TitlesUnder("section", t) # {}
    <3>1. Children(c) = AddItems(c, "section", "subsection")
      BY <2>3, RstChildrenAre
    <3> QED BY <2>2, <2>3, <3>1, ItemsThere
  <2>5. RstShape(c)
    BY <2>1, <2>3, <2>4 DEF RstShape
  <2>6. p.at = <<Text(<<"ReStructuredText">>)>> /\ TagOf(p) = NoTag
    <3>1. p.at = <<Text(<<"ReStructuredText">>)>>
      BY <1>4 DEF ItemInv
    <3>2. Last(p.at) = Text(<<"ReStructuredText">>)
      BY <3>1 DEF Last
    <3> QED BY <3>1, <3>2 DEF TagOf, Text
  <2>7. c.at = Home(t) /\ Unowned(t)
    BY <2>1, <2>2, <2>6 DEF Home, Unowned
  <2>8. HasPlace(t) /\ Owner(c) = NoTag
    BY <2>1, <2>2, <2>6, PlaceRst DEF Made
  <2> QED BY <2>1, <2>2, <2>3, <2>5, <2>7, <2>8 DEF Placed
<1>5. CASE Depth(p) = 2
  <2>0. o \in Titles("chapter") /\ o \in tags /\ o.lang = "ReStructuredText" /\ o.name # <<>>
    BY <1>0, <1>5, LabelOf DEF RstShape, Titles, OfTypes, Rows
  <2>1. /\ t \in Titles("section") /\ ShowsTag(c) /\ Made(c, p)
        /\ t.memberOf = o.name
        /\ c.plus <=> TitlesUnder("subsection", t) # {}
    BY <1>0, <1>5, RstChildrenAre, ItemsMade
  <2>2. t \in tags /\ t.lang = "ReStructuredText" /\ t.type = "section"
    BY <1>3, <2>1
  <2>3. c \in Items /\ c.lang = "ReStructuredText" /\ Depth(c) = 3 /\ Owner(c) = o
    BY <1>5, <2>1 DEF Made
  <2>4. Children(c) # {} <=> TitlesUnder("subsection", t) # {}
    <3>1. Children(c) = AddItems(c, "subsection", "subsubsection")
      BY <2>3, RstChildrenAre
    <3> QED BY <2>2, <2>3, <3>1, ItemsThere
  <2>5. Owns(o, t)
    BY <2>0, <2>1, <2>2 DEF Owns
  <2>6. RstShape(c)
    BY <2>0, <2>1, <2>3, <2>4, <2>5 DEF RstShape
  <2>7. ~Unowned(t) /\ t.memberOf = Scope(o) /\ HasPlace(t)
    BY <2>0, <2>1, <2>2, <2>5, PlaceRst DEF Unowned, Scope
  <2> QED BY <2>0, <2>1, <2>2, <2>3, <2>6, <2>7 DEF Placed
<1>6. CASE Depth(p) = 3
  <2>0. /\ o \in Titles("section") /\ o \in tags /\ o.lang = "ReStructuredText"
        /\ \E d \in Titles("chapter") : Owns(d, o)
    BY <1>0, <1>6 DEF RstShape, Titles, OfTypes, Rows
  <2>1. /\ t \in Titles("subsection") /\ ShowsTag(c) /\ Made(c, p)
        /\ t.memberOf = o.name
    BY <1>0, <1>6, RstChildrenAre, ItemsMade
  <2>2. t \in tags /\ t.lang = "ReStructuredText" /\ t.type = "subsection"
    BY <1>3, <2>1
  <2>3. c \in Items /\ c.lang = "ReStructuredText" /\ Depth(c) = 4 /\ Owner(c) = o
    BY <1>6, <2>1 DEF Made
  <2>4. Owns(o, t)
    BY <2>0, <2>1, <2>2 DEF Owns
  <2>5. RstShape(c)
    BY <2>3 DEF RstShape
  <2>6. ~Unowned(t) /\ t.memberOf = Scope(o) /\ HasPlace(t)
    BY <2>0, <2>1, <2>2, <2>4, PlaceRst DEF Unowned, Scope
  <2> QED BY <2>0, <2>1, <2>2, <2>3, <2>5, <2>6 DEF Placed
<1> QED BY <1>1, <1>4, <1>5, <1>6

\* A child with a (+), and one whose flags are set after it is made.
Opening(n, label) == Child(n, label, TRUE)
Flagged(n, label, table, indexed) ==
  [Opening(n, label) EXCEPT !.table = table, !.indexed = indexed]
TableSet(n, label, table) == [Opening(n, label) EXCEPT !.table = table]

\* What Opening returns.
LEMMA OpeningIs ==
  ASSUME NEW p \in Items, NEW label \in Labels, NEW c, c = Opening(p, label)
  PROVE  /\ Made(c, p)
         /\ c.at = Ext(p.at, label) /\ c.plus = TRUE /\ c.table = FALSE /\ c.indexed = FALSE
         /\ ItemText(c) = label.text /\ TagOf(c) = label.tag
<1>1. ASSUME NEW plus \in BOOLEAN, c = Child(p, label, plus)
      PROVE  /\ Made(c, p)
             /\ c.at = Ext(p.at, label) /\ c.plus = plus /\ ~c.table /\ ~c.indexed
             /\ ItemText(c) = label.text /\ TagOf(c) = label.tag
  BY <1>1, ChildIs
<1>2. PICK plus \in BOOLEAN : plus = TRUE /\ c = Child(p, label, plus)
  BY Zenon DEF Opening
<1>3. /\ Made(c, p)
      /\ c.at = Ext(p.at, label) /\ c.plus = plus /\ ~c.table /\ ~c.indexed
      /\ ItemText(c) = label.text /\ TagOf(c) = label.tag
  BY <1>1, <1>2
<1>4. c.table \in BOOLEAN /\ c.indexed \in BOOLEAN
  BY <1>3 DEF Made, Items
<1> QED BY <1>2, <1>3, <1>4

\* What Flagged returns.
LEMMA FlaggedIs ==
  ASSUME NEW p \in Items, NEW label \in Labels, NEW a \in BOOLEAN, NEW b \in BOOLEAN,
         NEW c, c = Flagged(p, label, a, b)
  PROVE  /\ Made(c, p)
         /\ c.at = Ext(p.at, label) /\ c.plus /\ c.table = a /\ c.indexed = b
         /\ ItemText(c) = label.text /\ TagOf(c) = label.tag
<1>1. PICK d : d = Opening(p, label)
  OBVIOUS
<1>2. /\ Made(d, p)
      /\ d.at = Ext(p.at, label) /\ d.plus = TRUE
      /\ ItemText(d) = label.text /\ TagOf(d) = label.tag
  BY <1>1, OpeningIs
<1>3. d \in Items
  BY <1>2 DEF Made
<1>4. c = [d EXCEPT !.table = a, !.indexed = b]
  BY <1>1 DEF Flagged
<1>5. /\ c \in Items /\ c.at = d.at /\ c.lang = d.lang /\ c.plus = d.plus /\ c.opened = d.opened
      /\ c.table = a /\ c.indexed = b
  BY <1>3, <1>4 DEF Items
<1>6. Depth(c) = Depth(d) /\ Owner(c) = Owner(d) /\ ItemText(c) = ItemText(d) /\ TagOf(c) = TagOf(d)
  BY <1>5 DEF Depth, Owner, ItemText, TagOf
<1> QED BY <1>2, <1>5, <1>6 DEF Made

\* Setting one flag leaves the other as it was made.
LEMMA OneFlag ==
  ASSUME NEW p \in Items, NEW label \in Labels, NEW a \in BOOLEAN,
         NEW c, c = TableSet(p, label, a)
  PROVE  /\ Made(c, p)
         /\ c.at = Ext(p.at, label) /\ c.plus /\ c.table = a /\ ~c.indexed
         /\ ItemText(c) = label.text /\ TagOf(c) = label.tag
<1>1. PICK d : d = Opening(p, label)
  OBVIOUS
<1>2. d \in Items /\ d.indexed = FALSE
  BY <1>1, OpeningIs DEF Made
<1>3. d.indexed \in BOOLEAN
  BY <1>2 DEF Items
<1>4. [d EXCEPT !.table = a] = [d EXCEPT !.table = a, !.indexed = d.indexed]
  BY <1>2 DEF Items
<1>5. PICK b \in BOOLEAN : b = FALSE /\ c = Flagged(p, label, a, b)
  BY <1>1, <1>2, <1>3, <1>4 DEF Flagged, TableSet
<1>6. /\ Made(c, p)
      /\ c.at = Ext(p.at, label) /\ c.plus /\ c.table = a /\ c.indexed = b
      /\ ItemText(c) = label.text /\ TagOf(c) = label.tag
  BY <1>5, FlaggedIs
<1>7. ~c.indexed
  BY <1>5, <1>6
<1> QED BY <1>6, <1>7

\* The types of SQL, the tables set apart.
LEMMA SqlTypesMade ==
  ASSUME tags \in Databases, NEW p \in Items, p.lang = "SQL", NEW c \in SqlTypes(p)
  PROVE  /\ \E t \in Rows("SQL") : /\ t.type \notin {"field", "index"}
                                   /\ c.at = Ext(p.at, Text(<<t.type>>))
                                   /\ c.table = (t.type = "table")
                                   /\ ItemText(c) = <<t.type>>
         /\ Made(c, p) /\ TagOf(c) = NoTag /\ ~ShowsTag(c) /\ c.plus /\ ~c.indexed
<1>1. PICK x \in Texts(p, TypesOf({t \in Rows("SQL") : t.type \notin {"field", "index"}})) :
        c = [x EXCEPT !.table = (ItemText(x) = <<"table">>)]
  BY DEF SqlTypes
<1>2. PICK t \in Rows("SQL") :
        t.type \notin {"field", "index"} /\ x = Opening(p, Text(<<t.type>>))
  BY Zenon DEF Texts, TypesOf, Opening
<1>3. PICK label \in Labels : /\ label = Text(<<t.type>>)
                              /\ label.text = <<t.type>> /\ label.tag = NoTag
  BY LabelOf DEF Rows, Text
<1>4. PICK a \in BOOLEAN : a = (<<t.type>> = <<"table">>)
  OBVIOUS
<1>5. ItemText(x) = <<t.type>>
  BY <1>2, <1>3, OpeningIs
<1>6. c = TableSet(p, label, a)
  BY <1>1, <1>2, <1>3, <1>4, <1>5 DEF TableSet
<1>8. /\ Made(c, p) /\ c.at = Ext(p.at, label) /\ c.table = a /\ c.plus /\ ~c.indexed
      /\ ItemText(c) = label.text /\ TagOf(c) = label.tag
  BY <1>6, OneFlag
<1>9. c.table = (t.type = "table")
  BY <1>4, <1>8
<1>10. ~ShowsTag(c)
  BY <1>3, <1>8 DEF ShowsTag
<1> QED BY <1>2, <1>3, <1>8, <1>9, <1>10

\* The tables, with whether they have an index.
LEMMA TablesMade ==
  ASSUME tags \in Databases, NEW p \in Items, p.lang = "SQL", NEW c \in AddTables(p)
  PROVE  /\ TagOf(c) \in Tables /\ ShowsTag(c) /\ c.table /\ Made(c, p) /\ c.plus
         /\ c.at = Ext(p.at, TagLabel(TagOf(c)))
         /\ c.indexed = ("index" \in {m.type : m \in MembersOf("SQL", TagOf(c).name)})
<1> DEFINE indexed(t) == "index" \in {m.type : m \in MembersOf("SQL", t.name)}
<1>1. PICK t \in Tables : c = Flagged(p, TagLabel(t), TRUE, indexed(t))
  BY Zenon DEF AddTables, Tables, Flagged, Opening
<1>2. PICK a \in BOOLEAN : a = TRUE
  OBVIOUS
<1>0. PICK b \in BOOLEAN : b = indexed(t)
  <2>1. ASSUME NEW x, NEW S
        PROVE  \E b \in BOOLEAN : b = (x \in S)
    <3>1. (x \in S) \in BOOLEAN
      OBVIOUS
    <3> WITNESS (x \in S) \in BOOLEAN
    <3> QED OBVIOUS
  <2> QED BY <2>1, Zenon
<1>3. c = Flagged(p, TagLabel(t), a, b)
  BY <1>0, <1>1, <1>2, Zenon
<1> HIDE DEF indexed
<1>4. t \in tags
  BY DEF Tables, OfTypes, Rows
<1>5. PICK label \in Labels : label = TagLabel(t) /\ label.text = <<>> /\ label.tag = t
  BY <1>4, LabelOf DEF TagLabel
<1>6. /\ Made(c, p) /\ c.at = Ext(p.at, label) /\ c.table = a /\ c.indexed = b /\ c.plus
      /\ ItemText(c) = label.text /\ TagOf(c) = label.tag
  BY <1>3, <1>5, FlaggedIs
<1>7. TagOf(c) = t /\ ShowsTag(c) /\ c.table = TRUE
  BY <1>2, <1>5, <1>6 DEF ShowsTag
<1>8. c.indexed = indexed(TagOf(c))
  BY <1>0, <1>6, <1>7
<1> QED BY <1>5, <1>6, <1>7, <1>8 DEF indexed

\* The types in a table, each with the tag of the table.
LEMMA SubTypesMade ==
  ASSUME tags \in Databases, NEW p \in Items, p.lang = "SQL", TagOf(p) \in tags,
         NEW c \in AddTableSubTypes(p)
  PROVE  /\ TagOf(c) = TagOf(p) /\ ~ShowsTag(c) /\ c.table /\ Made(c, p) /\ c.plus /\ ~c.indexed
         /\ c.at = Ext(p.at, [text |-> ItemText(c), tag |-> TagOf(p)])
<1>1. PICK t \in MembersOf("SQL", TagOf(p).name) :
        c = [Opening(p, [text |-> <<t.type>>, tag |-> TagOf(p)]) EXCEPT !.table = TRUE]
  BY Zenon DEF AddTableSubTypes, TypesOf, Opening
<1>2. t \in tags
  BY DEF MembersOf, Rows
<1>3. PICK label \in Labels : /\ label = [text |-> <<t.type>>, tag |-> TagOf(p)]
                              /\ label.text = <<t.type>> /\ label.tag = TagOf(p)
  BY <1>2, LabelOf
<1>4. PICK a \in BOOLEAN : a = TRUE
  OBVIOUS
<1>5. c = TableSet(p, label, a)
  BY <1>1, <1>3, <1>4 DEF TableSet
<1>6. /\ Made(c, p) /\ c.at = Ext(p.at, label) /\ c.table = a /\ c.plus /\ ~c.indexed
      /\ ItemText(c) = label.text /\ TagOf(c) = label.tag
  BY <1>5, OneFlag
<1>7. ~ShowsTag(c)
  BY <1>3, <1>6 DEF ShowsTag
<1>8. c.table = TRUE
  BY <1>4, <1>6
<1> QED BY <1>3, <1>6, <1>7, <1>8

\* Where the tags of SQL have a place.
LEMMA PlaceSql ==
  ASSUME NEW t \in tags, t.lang = "SQL"
  PROVE  HasPlace(t) <=>
           \/ t.type = "table"
           \/ t.type \notin {"field", "index"} /\ t.memberOf = <<>>
           \/ \E o \in Tables : Owns(o, t)
BY DEF HasPlace, Tables, OfTypes, Rows

\* The rows of its last query.
SqlMembers(n) == {t \in MembersOf(n.lang, TagOf(n).name) : <<t.type>> = ItemText(n)}

\* The queries of its builder, level by level.
LEMMA SqlChildrenAre ==
  ASSUME NEW n
  PROVE  /\ Depth(n) = 1 => SqlChildren(n) = SqlTypes(n)
         /\ Depth(n) = 2 /\ ~n.table => SqlChildren(n) = AddTypeMembers(n)
         /\ Depth(n) = 2 /\ n.table => SqlChildren(n) = AddTables(n)
         /\ Depth(n) = 3 /\ n.table /\ n.indexed => SqlChildren(n) = AddTableSubTypes(n)
         /\ Depth(n) = 3 /\ n.table /\ ~n.indexed => SqlChildren(n) = AddMembers(n)
         /\ Depth(n) = 4 /\ n.table => SqlChildren(n) = Plain(n, SqlMembers(n))
<1>1. AddTableMembers(n) = Plain(n, SqlMembers(n))
  BY Zenon DEF AddTableMembers, Plain, SqlMembers
<1> QED BY <1>1 DEF SqlChildren

\* What it adds to an item is as it should be.
LEMMA SqlChild ==
  ASSUME tags \in Databases, NEW p, ItemInv(p), p.plus, p.lang = "SQL",
         NEW c \in Children(p)
  PROVE  ItemInv(c) /\ Made(c, p)
<1>0. p \in Items /\ SqlShape(p) /\ Depth(p) \in Nat \ {0} /\ Children(p) = SqlChildren(p)
  BY DepthOf DEF ItemInv, Shape, Children
<1>1. Depth(p) \in {1, 2, 3, 4} /\ (Depth(p) \in {3, 4} => p.table)
  BY <1>0 DEF SqlShape
<1>2. SUFFICES /\ Made(c, p)
               /\ SqlShape(c)
               /\ ShowsTag(c) => Placed(c)
  BY <1>0 DEF Made, ItemInv, Shape
<1> DEFINE t == TagOf(c)
           o == TagOf(p)
<1>3. ASSUME o \in Tables, t \in MembersOf("SQL", o.name)
      PROVE  /\ t \in tags /\ t.lang = "SQL" /\ o \in tags
             /\ HasPlace(t) /\ ~Unowned(t) /\ t.memberOf = Scope(o)
  <2>1. /\ t \in tags /\ t.lang = "SQL" /\ t.memberOf = o.name /\ t.memberOf # <<>>
        /\ o \in tags /\ o.lang = "SQL" /\ Owns(o, t)
    BY <1>3 DEF MembersOf, Rows, Tables, OfTypes, Owns
  <2>2. HasPlace(t)
    BY <1>3, <2>1, PlaceSql
  <2>3. ~Unowned(t) /\ t.memberOf = Scope(o)
    BY <2>1 DEF Unowned, Scope
  <2> QED BY <2>1, <2>2, <2>3
<1>4. CASE Depth(p) = 1
  <2>1. c \in SqlTypes(p)
    BY <1>0, <1>4, SqlChildrenAre
  <2>2. PICK u \in Rows("SQL") : /\ u.type \notin {"field", "index"}
                                 /\ c.at = Ext(p.at, Text(<<u.type>>))
                                 /\ c.table = (u.type = "table")
    BY <1>0, <2>1, SqlTypesMade
  <2>3. Made(c, p) /\ ~ShowsTag(c)
    BY <1>0, <2>1, SqlTypesMade
  <2>4. c.at = Under("SQL", <<u.type>>)
    <3>1. p.at = <<Text(<<"SQL">>)>>
      BY <1>4 DEF ItemInv
    <3> QED BY <2>2, <3>1 DEF Under
  <2>5. Depth(c) = 2
    BY <1>4, <2>3 DEF Made
  <2>6. SqlShape(c)
    BY <2>2, <2>4, <2>5 DEF SqlShape
  <2> QED BY <2>3, <2>6
<1>5. CASE Depth(p) = 2 /\ ~p.table
  <2>1. c \in AddTypeMembers(p)
    BY <1>0, <1>5, SqlChildrenAre
  <2>2. /\ t \in OfType(p) /\ ShowsTag(c)
        /\ Made(c, p) /\ ~c.plus /\ ~c.table
        /\ c.at = Ext(p.at, TagLabel(t))
        /\ t.memberOf = <<>>
    <3>1. TypeHasMembers(p.lang, ItemText(p)) = FALSE
      BY DEF TypeHasMembers
    <3> QED BY <1>0, <2>1, <3>1, TypeMembersMade
  <2>3. PICK u \in Rows("SQL") : /\ u.type \notin {"field", "index"}
                                 /\ p.at = Under("SQL", <<u.type>>)
    BY <1>0, <1>5 DEF SqlShape
  <2>4. ItemText(p) = <<u.type>> /\ o = NoTag
    <3>1. u \in tags /\ u.lang = "SQL" /\ Text(<<u.type>>) \in Labels
      BY LabelOf DEF Rows
    <3> QED BY <2>3, <3>1, UnderIs DEF ItemText, TagOf, Text
  <2>5. t \in tags /\ t.lang = "SQL" /\ t.type = u.type
    BY <2>2, <2>4 DEF OfType, Rows
  <2>6. SqlShape(c)
    <3>1. Depth(c) = 3
      BY <1>5, <2>2 DEF Made
    <3> QED BY <2>2, <3>1 DEF SqlShape
  <2>7. HasPlace(t)
    BY <2>2, <2>3, <2>5, PlaceSql
  <2>8. Unowned(t) /\ c.at = Home(t)
    BY <2>2, <2>3, <2>5 DEF Unowned, Home
  <2>9. Owner(c) = NoTag /\ c.lang = "SQL"
    BY <2>2, <2>4 DEF Made
  <2> QED BY <2>2, <2>5, <2>6, <2>7, <2>8, <2>9 DEF Placed
<1>6. CASE Depth(p) = 2 /\ p.table
  <2>1. c \in AddTables(p)
    BY <1>0, <1>6, SqlChildrenAre
  <2>2. t \in Tables /\ ShowsTag(c) /\ c.table /\ Made(c, p)
    BY <1>0, <2>1, TablesMade
  <2>3. t \in tags /\ t.lang = "SQL" /\ t.type = "table"
    BY <2>2 DEF Tables, OfTypes, Rows
  <2>4. SqlShape(c)
    <3>1. Depth(c) = 3
      BY <1>6, <2>2 DEF Made
    <3> QED BY <2>2, <3>1 DEF SqlShape
  <2>5. HasPlace(t) /\ ShownForItself(t) /\ c.lang = "SQL"
    BY <2>2, <2>3, PlaceSql DEF ShownForItself, Made
  <2> QED BY <2>2, <2>3, <2>4, <2>5 DEF Placed
<1>7. CASE Depth(p) = 3 /\ p.indexed
  <2>1. o \in Tables /\ o \in tags
    BY <1>0, <1>1, <1>7 DEF SqlShape, Tables, OfTypes, Rows
  <2>2. c \in AddTableSubTypes(p)
    BY <1>0, <1>1, <1>7, SqlChildrenAre
  <2>3. t = o /\ ~ShowsTag(c) /\ c.table /\ Made(c, p)
    BY <1>0, <2>1, <2>2, SubTypesMade
  <2>4. Depth(c) = 4
    BY <1>7, <2>3 DEF Made
  <2> QED BY <2>1, <2>3, <2>4 DEF SqlShape
<1>8. CASE Depth(p) = 3 /\ ~p.indexed
  <2>1. o \in Tables
    BY <1>0, <1>1, <1>8 DEF SqlShape
  <2>2. c \in AddMembers(p)
    BY <1>0, <1>1, <1>8, SqlChildrenAre
  <2>3. t \in MembersOf("SQL", o.name) /\ Made(c, p) /\ ~c.plus /\ ~c.table /\ ShowsTag(c)
    BY <1>0, <2>2, MembersMade
  <2>4. Depth(c) = 4 /\ Owner(c) = o /\ c.lang = "SQL"
    BY <1>8, <2>3 DEF Made
  <2>5. SqlShape(c)
    BY <2>3, <2>4 DEF SqlShape
  <2> QED BY <1>3, <2>1, <2>3, <2>4, <2>5 DEF Placed
<1>9. CASE Depth(p) = 4
  <2>1. o \in Tables
    BY <1>0, <1>1, <1>9 DEF SqlShape
  <2> DEFINE rows == SqlMembers(p)
  <2>2. c \in Plain(p, rows)
    BY <1>0, <1>1, <1>9, SqlChildrenAre
  <2>3. rows \in SUBSET tags
    BY DEF SqlMembers, MembersOf, Rows
  <2>4. t \in rows /\ Made(c, p) /\ ~c.plus /\ ~c.table /\ ShowsTag(c)
    <3> HIDE DEF rows
    <3> QED BY <1>0, <2>2, <2>3, PlainMade
  <2>5. t \in MembersOf("SQL", o.name)
    BY <2>4 DEF SqlMembers
  <2>6. Depth(c) = 5 /\ Owner(c) = o /\ c.lang = "SQL"
    BY <1>9, <2>4 DEF Made
  <2>7. SqlShape(c)
    BY <2>4, <2>6 DEF SqlShape
  <2> QED BY <1>3, <2>1, <2>4, <2>5, <2>6, <2>7 DEF Placed
<1> QED BY <1>1, <1>4, <1>5, <1>6, <1>7, <1>8, <1>9

\* What an item that can be opened adds is again as it should be.
LEMMA ChildInv ==
  ASSUME tags \in Databases, NEW p, ItemInv(p), p.plus, NEW c \in Children(p)
  PROVE  ItemInv(c) /\ Made(c, p)
<1>1. CASE p.lang = "C#"
  BY <1>1, CSharpChild
<1>2. CASE p.lang = "Java"
  BY <1>2, JavaChild
<1>3. CASE p.lang = "ReStructuredText"
  BY <1>3, RstChild
<1>4. CASE p.lang = "SQL"
  BY <1>4, SqlChild
<1>5. CASE p.lang \notin Others
  BY <1>5, FlatChild
<1> QED BY <1>1, <1>2, <1>3, <1>4, <1>5 DEF Others

\* The root of a language.
LEMMA RootInv ==
  ASSUME tags \in Databases, NEW lang \in Langs
  PROVE  /\ ItemInv(Root(lang)) /\ Depth(Root(lang)) = 1
         /\ Root(lang).lang = lang /\ Root(lang).plus /\ ~Root(lang).opened
<1> DEFINE r == Root(lang)
<1>1. PICK t \in tags : lang = t.lang
  BY DEF Langs
<1>2. Text(<<lang>>) \in Labels /\ Text(<<lang>>).text = <<lang>> /\ <<lang>> # <<>>
  BY <1>1, LabelOf DEF Text
<1>3. r = [at |-> <<Text(<<lang>>)>>, lang |-> lang, plus |-> TRUE, opened |-> FALSE,
           table |-> FALSE, indexed |-> FALSE]
  BY DEF Root, Item
<1>4. /\ r.at = <<Text(<<lang>>)>> /\ r.lang = lang
      /\ r.plus = TRUE /\ r.opened = FALSE /\ r.table = FALSE /\ r.indexed = FALSE
  BY <1>3
<1>5. <<Text(<<lang>>)>> \in Seq(Labels) \ {<<>>}
  BY <1>2
<1>6. r \in Items
  BY <1>3, <1>5 DEF Items
<1> HIDE DEF r
<1>7. Depth(r) = 1
  BY <1>4 DEF Depth
<1>8. ~ShowsTag(r)
  <2>1. Last(r.at) = Text(<<lang>>)
    BY <1>4 DEF Last
  <2> QED BY <1>2, <2>1 DEF ShowsTag, ItemText
<1>9. Shape(r)
  BY <1>7 DEF Shape, CSharpShape, JavaShape, RstShape, SqlShape, FlatShape
<1> QED BY <1>4, <1>6, <1>7, <1>8, <1>9 DEF ItemInv, r

-----------------------------------------------------------------------------
\* What an item contains does not depend on whether it is open.
LEMMA SameChildren ==
  ASSUME NEW m, NEW n, m.at = n.at, m.lang = n.lang, m.table = n.table, m.indexed = n.indexed
  PROVE  Children(m) = Children(n)
<1>1. Depth(m) = Depth(n) /\ ItemText(m) = ItemText(n) /\ TagOf(m) = TagOf(n)
  BY DEF Depth, ItemText, TagOf
<1>2. ASSUME NEW label, NEW plus
      PROVE  Child(m, label, plus) = Child(n, label, plus)
  BY DEF Child
<1>3. ASSUME NEW S, NEW plus
      PROVE  Tags(m, S, plus) = Tags(n, S, plus)
  BY <1>2, Zenon DEF Tags
<1>4. ASSUME NEW S
      PROVE  Texts(m, S) = Texts(n, S)
  BY <1>2, Zenon DEF Texts
<1>5. OfType(m) = OfType(n)
  BY <1>1, Zenon DEF OfType
<1>6. AddTypeMembers(m) = AddTypeMembers(n) /\ AddMembers(m) = AddMembers(n)
  BY <1>1, <1>3, <1>5, Zenon DEF AddTypeMembers, AddMembers
<1>7. CSharpChildren(m) = CSharpChildren(n)
  <2>1. CSharpClasses(m) = CSharpClasses(n) /\ CSharpMembers(m) = CSharpMembers(n)
    BY <1>1, Zenon DEF CSharpClasses, CSharpMembers
  <2> QED BY <1>1, <1>3, <1>4, Zenon DEF CSharpChildren
<1>8. JavaChildren(m) = JavaChildren(n)
  <2>1. JavaClasses(m) = JavaClasses(n) /\ JavaMembers(m) = JavaMembers(n)
    BY <1>1, Zenon DEF JavaClasses, JavaMembers
  <2>2. ASSUME NEW S
        PROVE  Expandable(m, S) = Expandable(n, S) /\ Plain(m, S) = Plain(n, S)
    BY <1>3, Zenon DEF Expandable, Plain
  <2>3. ASSUME NEW k
        PROVE  JavaChildren(k) =
                 CASE Depth(k) = 1 -> Texts(k, {t.name : t \in OfTypes(k.lang, {"package"})})
                   [] Depth(k) = 2 -> Expandable(k, JavaClasses(k))
                   [] Depth(k) = 3 -> Plain(k, JavaMembers(k))
                   [] OTHER -> {}
    BY Zenon DEF JavaChildren, Expandable, Plain, JavaClasses, JavaMembers
  <2> QED BY <1>1, <1>4, <2>1, <2>2, <2>3, Zenon
<1>9. RstChildren(m) = RstChildren(n)
  <2>1. ASSUME NEW type, NEW sub
        PROVE  AddItems(m, type, sub) = AddItems(n, type, sub)
    BY <1>1, <1>2, Zenon DEF AddItems
  <2> QED BY <1>1, <2>1, Zenon DEF RstChildren
<1>10. SqlChildren(m) = SqlChildren(n)
  <2>1. SqlTypes(m) = SqlTypes(n)
    BY <1>4, Zenon DEF SqlTypes
  <2>2. AddTables(m) = AddTables(n)
    <3> DEFINE indexed(t) == "index" \in {x.type : x \in MembersOf(n.lang, t.name)}
    <3>1. ASSUME NEW t
          PROVE  Flagged(m, TagLabel(t), TRUE, indexed(t)) = Flagged(n, TagLabel(t), TRUE, indexed(t))
      BY <1>2, Zenon DEF Flagged, Opening
    <3>2. /\ AddTables(m) =
               {Flagged(m, TagLabel(t), TRUE, indexed(t)) : t \in OfTypes(n.lang, {"table"})}
          /\ AddTables(n) =
               {Flagged(n, TagLabel(t), TRUE, indexed(t)) : t \in OfTypes(n.lang, {"table"})}
      BY Zenon DEF AddTables, Flagged, Opening
    <3> HIDE DEF indexed
    <3> QED BY <3>1, <3>2, Zenon
  <2>3. AddTableSubTypes(m) = AddTableSubTypes(n)
    BY <1>1, <1>2, Zenon DEF AddTableSubTypes
  <2>4. AddTableMembers(m) = AddTableMembers(n)
    BY <1>1, <1>3, Zenon DEF AddTableMembers
  <2> QED BY <1>1, <1>6, <2>1, <2>2, <2>3, <2>4, Zenon DEF SqlChildren
<1>11. GenericChildren(m) = GenericChildren(n) /\ CppChildren(m) = CppChildren(n)
  BY <1>1, <1>4, <1>6, Zenon DEF GenericChildren, CppChildren
<1> QED BY <1>7, <1>8, <1>9, <1>10, <1>11, Zenon DEF Children

-----------------------------------------------------------------------------
\* Nothing that is said of the rows changes while they stay.
LEMMA Steady ==
  ASSUME tags' = tags
  PROVE  /\ \A n : ItemInv(n)' <=> ItemInv(n)
         /\ \A n : Children(n)' = Children(n)
         /\ Langs' = Langs
<1>1. ASSUME NEW l PROVE Rows(l)' = Rows(l)
  BY DEF Rows
<1>2. ASSUME NEW l, NEW s PROVE MembersOf(l, s)' = MembersOf(l, s)
  BY <1>1 DEF MembersOf
<1>3. ASSUME NEW l, NEW S PROVE OfTypes(l, S)' = OfTypes(l, S)
  BY <1>1 DEF OfTypes
<1>4. ASSUME NEW t PROVE HasPlace(t)' <=> HasPlace(t)
  BY <1>1, <1>3, Zenon DEF HasPlace
<1>5. Langs' = Langs /\ LabelTexts' = LabelTexts
  BY DEF Langs, LabelTexts
<1>6. Labels' = Labels
  BY <1>5 DEF Labels
<1>7. Items' = Items
  BY <1>5, <1>6 DEF Items
<1>8. ASSUME NEW n PROVE OfType(n)' = OfType(n)
  BY <1>1 DEF OfType
<1>9. ASSUME NEW n, NEW S, NEW b PROVE Texts(n, S)' = Texts(n, S) /\ Tags(n, S, b)' = Tags(n, S, b)
  BY DEF Texts, Tags
<1>10. ASSUME NEW n
       PROVE  AddTypeMembers(n)' = AddTypeMembers(n) /\ AddMembers(n)' = AddMembers(n)
  BY <1>2, <1>8, <1>9 DEF AddTypeMembers, AddMembers
<1>11. ASSUME NEW n PROVE CSharpChildren(n)' = CSharpChildren(n)
  BY <1>2, <1>3, <1>9 DEF CSharpChildren
<1>12. ASSUME NEW n PROVE JavaChildren(n)' = JavaChildren(n)
  BY <1>2, <1>3, <1>9 DEF JavaChildren
<1>13. ASSUME NEW n PROVE RstChildren(n)' = RstChildren(n)
  <2>1. ASSUME NEW type, NEW sub PROVE AddItems(n, type, sub)' = AddItems(n, type, sub)
    BY <1>2, <1>3 DEF AddItems
  <2> QED BY <2>1, Zenon DEF RstChildren
<1>14. ASSUME NEW n PROVE SqlChildren(n)' = SqlChildren(n)
  <2>1. SqlTypes(n)' = SqlTypes(n)
    BY <1>1, <1>9 DEF SqlTypes, TypesOf
  <2>2. AddTables(n)' = AddTables(n)
    BY <1>2, <1>3 DEF AddTables
  <2>3. AddTableSubTypes(n)' = AddTableSubTypes(n)
    BY <1>2 DEF AddTableSubTypes, TypesOf
  <2>4. AddTableMembers(n)' = AddTableMembers(n)
    BY <1>2, <1>9 DEF AddTableMembers
  <2> QED BY <1>10, <2>1, <2>2, <2>3, <2>4, Zenon DEF SqlChildren
<1>15. ASSUME NEW n
       PROVE GenericChildren(n)' = GenericChildren(n) /\ CppChildren(n)' = CppChildren(n)
  BY <1>1, <1>9, <1>10 DEF GenericChildren, CppChildren, TypesOf
<1>16. ASSUME NEW n PROVE Children(n)' = Children(n)
  BY <1>11, <1>12, <1>13, <1>14, <1>15, Zenon DEF Children
<1>17. ASSUME NEW n PROVE Shape(n)' <=> Shape(n)
  <2>1. CSharpShape(n)' <=> CSharpShape(n)
    BY <1>3, Zenon DEF CSharpShape, Classes, InNamespace
  <2>2. JavaShape(n)' <=> JavaShape(n)
    BY <1>3, Zenon DEF JavaShape, Classes, InPackage
  <2>3. RstShape(n)' <=> RstShape(n)
    BY <1>3, <1>16, Zenon DEF RstShape, Titles
  <2>4. SqlShape(n)' <=> SqlShape(n)
    BY <1>1, <1>3, Zenon DEF SqlShape, Tables
  <2>5. FlatShape(n)' <=> FlatShape(n)
    BY <1>1 DEF FlatShape, Listed
  <2> QED BY <2>1, <2>2, <2>3, <2>4, <2>5, Zenon DEF Shape
<1>18. ASSUME NEW n PROVE Placed(n)' <=> Placed(n)
  BY <1>4, Zenon DEF Placed
<1>19. ASSUME NEW n PROVE ItemInv(n)' <=> ItemInv(n)
  BY <1>7, <1>17, <1>18, Zenon DEF ItemInv
<1> QED BY <1>5, <1>16, <1>19

-----------------------------------------------------------------------------
\* Where an item is says where its parent is.
LEMMA ExtInjective ==
  ASSUME NEW s \in Seq(Labels) \ {<<>>}, NEW u \in Seq(Labels) \ {<<>>},
         NEW a \in Labels, NEW b \in Labels, Ext(s, a) = Ext(u, b)
  PROVE  s = u /\ a = b
<1>1. s \in Seq(Labels) /\ u \in Seq(Labels) /\ Append(s, a) = Append(u, b)
  BY DEF Ext
<1>2. Len(s) \in Nat /\ Len(u) \in Nat
  BY <1>1
<1> DEFINE x == Append(s, a)
           y == Append(u, b)
<1>3. /\ Len(x) = Len(s) + 1 /\ (\A i \in 1..Len(s) : x[i] = s[i]) /\ x[Len(s) + 1] = a
      /\ Len(y) = Len(u) + 1 /\ (\A i \in 1..Len(u) : y[i] = u[i]) /\ y[Len(u) + 1] = b
  <2>1. ASSUME NEW v \in Seq(Labels), NEW e \in Labels
        PROVE  /\ Len(Append(v, e)) = Len(v) + 1
               /\ \A i \in 1..Len(v) : Append(v, e)[i] = v[i]
               /\ Append(v, e)[Len(v) + 1] = e
    OBVIOUS
  <2> QED BY <1>1, <2>1, Zenon
<1>4. x = y
  BY <1>1
<1> HIDE DEF x, y
<1>5. Len(s) = Len(u) /\ a = b
  BY <1>2, <1>3, <1>4
<1>6. \A i \in 1..Len(s) : s[i] = u[i]
  BY <1>3, <1>4, <1>5
<1> QED BY <1>1, <1>5, <1>6, SeqEqual

\* Two items with the same columns are one.
LEMMA SameItem ==
  ASSUME NEW c \in Items, NEW d \in Items,
         c.at = d.at, c.lang = d.lang, c.plus = d.plus, c.opened = d.opened,
         c.table = d.table, c.indexed = d.indexed
  PROVE  c = d
BY DEF Items

\* Two items made from one are two by where they are.
LEMMA ChildrenByLabel ==
  ASSUME tags \in Databases, NEW p, ItemInv(p), p.plus,
         NEW c \in Children(p), NEW d \in Children(p), c.at = d.at
  PROVE  c = d
<1>0. p \in Items /\ Shape(p) /\ Depth(p) \in Nat \ {0}
  BY DepthOf DEF ItemInv
<1>1. Made(c, p) /\ Made(d, p)
  BY ChildInv
<1>2. TagOf(c) = TagOf(d) /\ ItemText(c) = ItemText(d)
  BY DEF TagOf, ItemText
<1>3. SUFFICES (c.plus <=> d.plus) /\ (c.table <=> d.table) /\ (c.indexed <=> d.indexed)
  <2>1. c \in Items /\ d \in Items /\ c.lang = d.lang /\ ~c.opened /\ ~d.opened
    BY <1>1 DEF Made
  <2>2. /\ c.plus \in BOOLEAN /\ c.opened \in BOOLEAN /\ c.table \in BOOLEAN /\ c.indexed \in BOOLEAN
        /\ d.plus \in BOOLEAN /\ d.opened \in BOOLEAN /\ d.table \in BOOLEAN /\ d.indexed \in BOOLEAN
    BY <2>1 DEF Items
  <2>3. ASSUME c.plus <=> d.plus, c.table <=> d.table, c.indexed <=> d.indexed
        PROVE  /\ c.plus = d.plus /\ c.opened = d.opened
               /\ c.table = d.table /\ c.indexed = d.indexed
    BY <2>1, <2>2, <2>3
  <2> QED BY <2>1, <2>3, SameItem
<1>4. ASSUME NEW S, \A x \in S : Text(x) \in Labels /\ x # <<>>,
             c \in Texts(p, S), d \in Texts(p, S)
      PROVE  c.plus /\ d.plus /\ ~c.table /\ ~d.table /\ ~c.indexed /\ ~d.indexed
  BY <1>0, <1>4, TextsAre
<1>5. ASSUME c \in AddMembers(p), d \in AddMembers(p)
      PROVE  ~c.plus /\ ~d.plus /\ ~c.table /\ ~d.table /\ ~c.indexed /\ ~d.indexed
  BY <1>0, <1>5, MembersMade
<1>6. ASSUME c \in AddTypeMembers(p), d \in AddTypeMembers(p)
      PROVE  c.plus = d.plus /\ ~c.table /\ ~d.table /\ ~c.indexed /\ ~d.indexed
  BY <1>0, <1>6, TypeMembersMade
<1>7. ASSUME NEW rows \in SUBSET tags, c \in Expandable(p, rows), d \in Expandable(p, rows)
      PROVE  c.plus /\ d.plus /\ ~c.table /\ ~d.table /\ ~c.indexed /\ ~d.indexed
  BY <1>0, <1>7, ExpandableMade
<1>8. ASSUME NEW rows \in SUBSET tags, c \in Plain(p, rows), d \in Plain(p, rows)
      PROVE  ~c.plus /\ ~d.plus /\ ~c.table /\ ~d.table /\ ~c.indexed /\ ~d.indexed
  BY <1>0, <1>8, PlainMade
<1>9. ASSUME NEW lang, NEW types
      PROVE  \A x \in {t.name : t \in OfTypes(lang, types)} : Text(x) \in Labels /\ x # <<>>
  BY LabelOf DEF OfTypes, Rows
<1>10. CASE p.lang = "C#"
  <2>1. Children(p) = CSharpChildren(p) /\ Depth(p) \in {1, 2, 3}
    BY <1>0, <1>10 DEF Children, Shape, CSharpShape
  <2>2. CSharpClasses(p) \in SUBSET tags /\ CSharpMembers(p) \in SUBSET tags
    BY DEF CSharpClasses, CSharpMembers, MembersOf, Rows
  <2>3. CASE Depth(p) = 1
    <3> DEFINE names == {t.name : t \in OfTypes(p.lang, {"namespace"})}
    <3>1. c \in Texts(p, names) /\ d \in Texts(p, names)
      BY <2>1, <2>3, CSharpChildrenAre
    <3>2. \A x \in names : Text(x) \in Labels /\ x # <<>>
      BY <1>9
    <3> HIDE DEF names
    <3> QED BY <1>4, <3>1, <3>2
  <2>4. CASE Depth(p) = 2
    BY <1>7, <2>1, <2>2, <2>4, CSharpChildrenAre
  <2>5. CASE Depth(p) = 3
    BY <1>8, <2>1, <2>2, <2>5, CSharpChildrenAre
  <2> QED BY <2>1, <2>3, <2>4, <2>5
<1>11. CASE p.lang = "Java"
  <2>1. Children(p) = JavaChildren(p) /\ Depth(p) \in {1, 2, 3}
    BY <1>0, <1>11 DEF Children, Shape, JavaShape
  <2>2. JavaClasses(p) \in SUBSET tags /\ JavaMembers(p) \in SUBSET tags
    BY DEF JavaClasses, JavaMembers, MembersOf, Rows
  <2>3. CASE Depth(p) = 1
    <3> DEFINE names == {t.name : t \in OfTypes(p.lang, {"package"})}
    <3>1. c \in Texts(p, names) /\ d \in Texts(p, names)
      BY <2>1, <2>3, JavaChildrenAre
    <3>2. \A x \in names : Text(x) \in Labels /\ x # <<>>
      BY <1>9
    <3> HIDE DEF names
    <3> QED BY <1>4, <3>1, <3>2
  <2>4. CASE Depth(p) = 2
    BY <1>7, <2>1, <2>2, <2>4, JavaChildrenAre
  <2>5. CASE Depth(p) = 3
    BY <1>8, <2>1, <2>2, <2>5, JavaChildrenAre
  <2> QED BY <2>1, <2>3, <2>4, <2>5
<1>12. CASE p.lang = "ReStructuredText"
  <2>1. PICK type, sub : Children(p) = AddItems(p, type, sub)
    BY <1>0, <1>12, RstChildrenAre DEF Shape, RstShape
  <2>2. /\ c.plus <=> TitlesUnder(sub, TagOf(c)) # {}
        /\ d.plus <=> TitlesUnder(sub, TagOf(d)) # {}
        /\ ~c.table /\ ~c.indexed /\ ~d.table /\ ~d.indexed
    BY <1>0, <1>12, <2>1, ItemsMade
  <2> QED BY <1>2, <2>2
<1>13. CASE p.lang = "SQL"
  <2>0. /\ Children(p) = SqlChildren(p) /\ Depth(p) \in {1, 2, 3, 4}
        /\ Depth(p) \in {3, 4} => p.table /\ TagOf(p) \in Tables
    BY <1>0, <1>13 DEF Children, Shape, SqlShape
  <2>1. CASE Depth(p) = 1
    <3>1. c \in SqlTypes(p) /\ d \in SqlTypes(p)
      BY <2>0, <2>1, SqlChildrenAre
    <3>2. c.plus /\ d.plus /\ ~c.indexed /\ ~d.indexed
      BY <1>0, <1>13, <3>1, SqlTypesMade
    <3>3. PICK t \in Rows("SQL") : c.at = Ext(p.at, Text(<<t.type>>)) /\ c.table = (t.type = "table")
      BY <1>0, <1>13, <3>1, SqlTypesMade
    <3>4. PICK u \in Rows("SQL") : d.at = Ext(p.at, Text(<<u.type>>)) /\ d.table = (u.type = "table")
      BY <1>0, <1>13, <3>1, SqlTypesMade
    <3>5. p.at \in Seq(Labels) \ {<<>>} /\ Text(<<t.type>>) \in Labels /\ Text(<<u.type>>) \in Labels
      BY <1>0, LabelOf DEF Items, Rows
    <3>6. Text(<<t.type>>) = Text(<<u.type>>)
      <4>1. Ext(p.at, Text(<<t.type>>)) = Ext(p.at, Text(<<u.type>>))
        BY <3>3, <3>4
      <4> QED BY <3>5, <4>1, ExtInjective
    <3>7. t.type = u.type
      BY <3>6 DEF Text
    <3>8. c.table = d.table
      BY <3>3, <3>4, <3>7
    <3> QED BY <3>2, <3>8
  <2>2. CASE Depth(p) = 2 /\ ~p.table
    BY <1>6, <2>0, <2>2, SqlChildrenAre
  <2>3. CASE Depth(p) = 2 /\ p.table
    <3>1. c \in AddTables(p) /\ d \in AddTables(p)
      BY <2>0, <2>3, SqlChildrenAre
    <3>2. c.plus /\ d.plus /\ c.table /\ d.table
      BY <1>0, <1>13, <3>1, TablesMade
    <3>3. c.indexed = d.indexed
      BY <1>0, <1>2, <1>13, <3>1, TablesMade
    <3> QED BY <3>2, <3>3
  <2>4. CASE Depth(p) = 3 /\ p.indexed
    <3>1. c \in AddTableSubTypes(p) /\ d \in AddTableSubTypes(p)
      BY <2>0, <2>4, SqlChildrenAre
    <3>2. TagOf(p) \in tags
      BY <2>0, <2>4 DEF Tables, OfTypes, Rows
    <3> QED BY <1>0, <1>13, <3>1, <3>2, SubTypesMade
  <2>5. CASE Depth(p) = 3 /\ ~p.indexed
    BY <1>5, <2>0, <2>5, SqlChildrenAre
  <2>6. CASE Depth(p) = 4
    <3>1. SqlMembers(p) \in SUBSET tags
      BY DEF SqlMembers, MembersOf, Rows
    <3> QED BY <1>8, <2>0, <2>6, <3>1, SqlChildrenAre
  <2> QED BY <2>0, <2>1, <2>2, <2>3, <2>4, <2>5, <2>6
<1>14. CASE p.lang \notin Others
  <2>1. Depth(p) \in {1, 2, 3}
    BY <1>0, <1>14 DEF Shape, FlatShape, Others
  <2>2. \A x \in TypesOf(Listed(p.lang)) : Text(x) \in Labels /\ x # <<>>
    BY LabelOf DEF TypesOf, Listed, Rows
  <2>3. CASE Depth(p) = 1
    BY <1>0, <1>4, <1>14, <2>2, <2>3, FlatChildrenAre
  <2>4. CASE Depth(p) = 2
    BY <1>0, <1>6, <1>14, <2>4, FlatChildrenAre
  <2>5. CASE Depth(p) = 3
    BY <1>0, <1>5, <1>14, <2>5, FlatChildrenAre
  <2> QED BY <2>1, <2>3, <2>4, <2>5
<1> QED BY <1>10, <1>11, <1>12, <1>13, <1>14 DEF Others

\* The item that is opened, after it.
AsOpened(n) == [n EXCEPT !.opened = TRUE, !.plus = Children(n) # {}]

\* An item that is opened stays as it should be: its (+) is what it found.
LEMMA OpenedItem ==
  ASSUME tags \in Databases, NEW n, ItemInv(n), n.plus
  PROVE  LET o == AsOpened(n) IN
         /\ ItemInv(o) /\ o.opened /\ Children(o) = Children(n)
         /\ o.at = n.at /\ o.lang = n.lang /\ o.table = n.table /\ o.indexed = n.indexed
         /\ Depth(o) = Depth(n)
<1> DEFINE o == AsOpened(n)
<1>1. n \in Items /\ Shape(n) /\ Depth(n) \in Nat \ {0}
  BY DepthOf DEF ItemInv
<1>2. PICK b \in BOOLEAN : b <=> Children(n) # {}
  OBVIOUS
<1>3. o = [n EXCEPT !.opened = TRUE, !.plus = b]
  <2>1. (Children(n) # {}) = b
    BY <1>2
  <2> QED BY <2>1, Zenon DEF AsOpened
<1> HIDE DEF o
<1>4. /\ o \in Items /\ o.opened /\ o.plus = b
      /\ o.at = n.at /\ o.lang = n.lang /\ o.table = n.table /\ o.indexed = n.indexed
  BY <1>1, <1>3 DEF Items
<1>5. Children(o) = Children(n)
  BY <1>4, SameChildren
<1>6. /\ Depth(o) = Depth(n) /\ ItemText(o) = ItemText(n) /\ TagOf(o) = TagOf(n)
      /\ Owner(o) = Owner(n) /\ ShowsTag(o) = ShowsTag(n)
  BY <1>4 DEF Depth, ItemText, TagOf, Owner, ShowsTag
<1>7. Shape(o)
  <2>1. CSharpShape(n) => CSharpShape(o)
    BY <1>4, <1>6 DEF CSharpShape
  <2>2. JavaShape(n) => JavaShape(o)
    BY <1>4, <1>6 DEF JavaShape
  <2>3. RstShape(n) => RstShape(o)
    BY <1>2, <1>4, <1>5, <1>6 DEF RstShape
  <2>4. SqlShape(n) => SqlShape(o)
    BY <1>4, <1>6 DEF SqlShape
  <2>5. FlatShape(n) => FlatShape(o)
    BY <1>4, <1>6 DEF FlatShape
  <2> QED BY <1>1, <1>4, <2>1, <2>2, <2>3, <2>4, <2>5 DEF Shape
<1>8. ShowsTag(o) => Placed(o)
  BY <1>4, <1>6 DEF ItemInv, Placed
<1>9. Depth(o) = 1 => o.at = <<Text(<<o.lang>>)>> /\ ~o.table /\ ~o.indexed
  BY <1>4, <1>6 DEF ItemInv
<1> QED BY <1>4, <1>5, <1>6, <1>7, <1>8, <1>9 DEF ItemInv, o

\* Opening an item, whichever it is, leaves a tree as it should be.
LEMMA OpenedGrown ==
  ASSUME tags \in Databases, NEW items, Grown(items),
         NEW n \in items, n.plus, ~n.opened
  PROVE  Grown(Opened(items, n))
<1> DEFINE o == AsOpened(n)
           below == Children(n)
           new == Opened(items, n)
<1>1. ItemInv(n) /\ n \in Items
  BY DEF Grown, ItemsRight, ItemInv
<1>2. /\ ItemInv(o) /\ o.opened /\ Children(o) = below
      /\ o.at = n.at /\ o.lang = n.lang /\ o.table = n.table /\ o.indexed = n.indexed
      /\ Depth(o) = Depth(n)
  BY <1>1, OpenedItem
<1>3. ASSUME NEW c \in below
      PROVE  /\ ItemInv(c) /\ c \in Items /\ ~c.opened
             /\ c.at = Ext(n.at, Last(c.at)) /\ Depth(c) = Depth(n) + 1
  BY <1>1, <1>3, ChildInv DEF Made
<1>4. \A m : m \in new <=> (m \in items /\ m # n) \/ m = o \/ m \in below
  BY DEF Opened, AsOpened
<1> HIDE DEF o, below, new
<1>5. ItemsRight(new)
  BY <1>2, <1>3, <1>4 DEF Grown, ItemsRight
<1>6. HasParent(new)
  <2> SUFFICES ASSUME NEW m \in new, Depth(m) > 1
               PROVE  \E p \in new : p.opened /\ m.at = Ext(p.at, Last(m.at))
    BY DEF HasParent
  <2>1. CASE m \in items
    <3>1. PICK p \in items : p.opened /\ m.at = Ext(p.at, Last(m.at))
      BY <2>1 DEF Grown, HasParent
    <3>2. p \in new
      BY <1>4, <3>1
    <3> QED BY <3>1, <3>2
  <2>2. CASE m = o
    <3>1. PICK p \in items : p.opened /\ n.at = Ext(p.at, Last(n.at))
      BY <1>2, <2>2 DEF Grown, HasParent
    <3>2. p \in new
      BY <1>4, <3>1
    <3>3. m.at = n.at
      BY <1>2, <2>2
    <3> QED BY <3>1, <3>2, <3>3
  <2>3. CASE m \in below
    <3>1. o \in new /\ o.opened /\ m.at = Ext(o.at, Last(m.at))
      BY <1>2, <1>3, <1>4, <2>3
    <3> QED BY <3>1
  <2> QED BY <1>4, <2>1, <2>2, <2>3
<1>7. ASSUME NEW c, NEW v \in items, Version(v, c)
      PROVE  \E w \in new : Version(w, c)
  <2>1. CASE v = n
    <3>1. Version(o, c) /\ o \in new
      BY <1>2, <1>4, <1>7, <2>1 DEF Version
    <3> QED BY <3>1
  <2>2. CASE v # n
    BY <1>4, <1>7, <2>2
  <2> QED BY <2>1, <2>2
<1>8. Filled(new)
  <2> SUFFICES ASSUME NEW m \in new, m.opened, NEW c \in Children(m)
               PROVE  \E w \in new : Version(w, c)
    BY DEF Filled
  <2>1. CASE m \in items
    <3>1. PICK v \in items : Version(v, c)
      BY <2>1 DEF Grown, Filled
    <3> QED BY <1>7, <3>1
  <2>2. CASE m = o
    <3>1. c \in below /\ c \in new
      BY <1>2, <1>4, <2>2
    <3> QED BY <3>1 DEF Version
  <2>3. CASE m \in below
    BY <1>3, <2>3
  <2> QED BY <1>4, <2>1, <2>2, <2>3
<1>9. Rooted(new)
  <2> SUFFICES ASSUME NEW l \in Langs
               PROVE  \E w \in new : Version(w, Root(l))
    BY DEF Rooted
  <2>1. PICK v \in items : Version(v, Root(l))
    BY DEF Grown, Rooted
  <2> QED BY <1>7, <2>1
<1>10. OnePerPlace(new)
  <2>1. ASSUME NEW c \in below, NEW m \in new, m.at = c.at
        PROVE  m \in below
    <3>1. Depth(n) \in Nat \ {0} /\ Depth(m) = Depth(n) + 1
      BY <1>1, <1>3, <2>1, DepthOf DEF Depth
    <3>2. m # o
      BY <1>2, <3>1
    <3>3. CASE m \in items /\ m # n
      <4>1. PICK p \in items : p.opened /\ m.at = Ext(p.at, Last(m.at))
        BY <3>1, <3>3 DEF Grown, HasParent
      <4>2. /\ p.at \in Seq(Labels) \ {<<>>} /\ n.at \in Seq(Labels) \ {<<>>}
            /\ m.at \in Seq(Labels) \ {<<>>}
        BY <1>1, <3>3, <4>1 DEF Grown, ItemsRight, ItemInv, Items
      <4>3. Last(m.at) \in Labels
        BY <4>2 DEF Last
      <4>4. Ext(p.at, Last(m.at)) = Ext(n.at, Last(m.at))
        BY <1>3, <2>1, <4>1
      <4>5. p.at = n.at
        BY <4>2, <4>3, <4>4, ExtInjective
      <4>6. p = n
        BY <4>1, <4>5 DEF Grown, OnePerPlace
      <4> QED BY <4>1, <4>6
    <3> QED BY <1>4, <3>2, <3>3
  <2>2. ASSUME NEW c \in below, NEW d \in below, c.at = d.at
        PROVE  c = d
    BY <1>1, <2>2, ChildrenByLabel DEF below
  <2>3. ASSUME NEW m \in items, m # n
        PROVE  m.at # o.at
    BY <1>2, <2>3 DEF Grown, OnePerPlace
  <2> SUFFICES ASSUME NEW m \in new, NEW k \in new, m.at = k.at
               PROVE  m = k
    BY DEF OnePerPlace
  <2>4. CASE m \in below \/ k \in below
    BY <2>1, <2>2, <2>4
  <2>5. CASE m \notin below /\ k \notin below
    <3>1. (m \in items /\ m # n) \/ m = o
      BY <1>4, <2>5
    <3>2. (k \in items /\ k # n) \/ k = o
      BY <1>4, <2>5
    <3> QED BY <2>3, <3>1, <3>2 DEF Grown, OnePerPlace
  <2> QED BY <2>4, <2>5
<1> QED BY <1>5, <1>6, <1>8, <1>9, <1>10 DEF Grown, new

\* The tree before anything is opened.
Roots == {Root(l) : l \in Langs}

\* The roots alone are such a tree.
LEMMA RootsGrown ==
  ASSUME tags \in Databases
  PROVE  Grown(Roots)
<1>1. ASSUME NEW r \in Roots
      PROVE  /\ ItemInv(r) /\ Depth(r) = 1 /\ ~r.opened
             /\ r.at = <<Text(<<r.lang>>)>> /\ r = Root(r.lang)
  <2>1. PICK l \in Langs : r = Root(l)
    BY DEF Roots
  <2>2. ItemInv(r) /\ Depth(r) = 1 /\ ~r.opened /\ r.lang = l
    BY <2>1, RootInv
  <2> QED BY <2>1, <2>2 DEF ItemInv
<1>2. ItemsRight(Roots)
  BY <1>1 DEF ItemsRight
<1>3. HasParent(Roots)
  <2>1. ASSUME NEW r \in Roots
        PROVE  ~(Depth(r) > 1)
    <3>1. Depth(r) = 1
      BY <1>1
    <3> QED BY <3>1
  <2> QED BY <2>1 DEF HasParent
<1>4. Filled(Roots)
  BY <1>1 DEF Filled
<1>5. Rooted(Roots)
  <2>1. ASSUME NEW l \in Langs
        PROVE  Root(l) \in Roots /\ Version(Root(l), Root(l))
    BY DEF Roots, Version
  <2> QED BY <2>1 DEF Rooted
<1>6. OnePerPlace(Roots)
  <2>1. ASSUME NEW r \in Roots, NEW s \in Roots, r.at = s.at
        PROVE  r = s
    <3>1. <<Text(<<r.lang>>)>> = <<Text(<<s.lang>>)>>
      BY <1>1, <2>1
    <3>2. Text(<<r.lang>>).text = Text(<<s.lang>>).text
      BY <3>1
    <3>3. r.lang = s.lang
      BY <3>2 DEF Text
    <3> QED BY <1>1, <3>3
  <2> QED BY <2>1 DEF OnePerPlace
<1> QED BY <1>2, <1>3, <1>4, <1>5, <1>6 DEF Grown

\* TreeInv holds in every state.
LEMMA TreeInvStep ==
  ASSUME TreeInv, [Next]_vars
  PROVE  TreeInv'
<1>1. tags' = tags
  BY DEF Next, vars, UpdateTagsTree, OnItemExpanding
<1>2. Grown(tree')
  <2>1. CASE UNCHANGED vars
    BY <2>1 DEF TreeInv, vars
  <2>2. ASSUME NEW lang \in Open, UpdateTagsTree(lang)
        PROVE  Grown(tree')
    <3>1. tree' = IF Root(lang) \in Roots THEN Opened(Roots, Root(lang)) ELSE Roots
      BY <2>2, Zenon DEF UpdateTagsTree, Roots, Langs
    <3>2. Grown(Roots)
      BY RootsGrown DEF TreeInv
    <3>3. CASE Root(lang) \in Roots
      <4>1. PICK l \in Langs : Root(lang) = Root(l)
        BY <3>3 DEF Roots
      <4>2. Root(l).plus /\ ~Root(l).opened
        BY RootInv DEF TreeInv
      <4>3. Root(lang).plus /\ ~Root(lang).opened
        BY <4>1, <4>2
      <4>4. Grown(Opened(Roots, Root(lang)))
        BY <3>2, <3>3, <4>3, OpenedGrown DEF TreeInv
      <4> QED BY <3>1, <3>3, <4>4
    <3> QED BY <3>1, <3>2, <3>3
  <2>3. ASSUME NEW n \in tree, OnItemExpanding(n)
        PROVE  Grown(tree')
    BY <2>3, OpenedGrown DEF TreeInv, OnItemExpanding
  <2> QED BY <2>1, <2>2, <2>3 DEF Next
<1>3. Grown(tree)'
  <2>1. \A n : ItemInv(n)' <=> ItemInv(n)
    BY <1>1, Steady
  <2>2. \A n : Children(n)' = Children(n)
    BY <1>1, Steady
  <2>3. Langs' = Langs
    BY <1>1, Steady
  <2>4. ItemsRight(tree)'
    BY <1>2, <2>1 DEF ItemsRight, Grown
  <2>5. Filled(tree)'
    BY <1>2, <2>2 DEF Filled, Grown
  <2>6. Rooted(tree)'
    BY <1>2, <2>3 DEF Rooted, Grown
  <2>7. HasParent(tree)' /\ OnePerPlace(tree)'
    BY <1>2 DEF HasParent, OnePerPlace, Grown
  <2> QED BY <2>4, <2>5, <2>6, <2>7 DEF Grown
<1> QED BY <1>1, <1>3 DEF TreeInv

\* The inductive invariant holds in every state.
LEMMA TreeInvAlways == Spec => []TreeInv
<1>1. Init => TreeInv
  BY DEF Init, TreeInv, Grown, ItemsRight, HasParent, Filled, Rooted, OnePerPlace
<1>2. TreeInv /\ [Next]_vars => TreeInv'
  BY TreeInvStep
<1> QED BY <1>1, <1>2, PTL DEF Spec

-----------------------------------------------------------------------------
\* What an item can say of the last label on the way to it.
LEMMA LastLabel ==
  ASSUME NEW n \in Items
  PROVE  TagOf(n) \in tags \cup {NoTag}
<1>1. n.at \in Seq(Labels) \ {<<>>}
  BY DEF Items
<1>2. Last(n.at) \in Labels
  BY <1>1 DEF Last
<1> QED BY <1>2 DEF TagOf, Labels

\* Type correctness.
THEOREM TypeCorrect == Spec => []TypeOK
<1>1. ASSUME TreeInv
      PROVE  TypeOK
  <2>1. \A t \in tags : DOMAIN t = Columns
    BY <1>1, DatabasesAssumption DEF TreeInv
  <2>2. ASSUME NEW n \in tree
        PROVE  /\ {n.plus, n.opened, n.table, n.indexed} \subseteq BOOLEAN
               /\ TagOf(n) \in tags \cup {NoTag}
               /\ Depth(n) \in 1..(IF n.lang = "SQL" THEN 5 ELSE 4)
    <3>1. ItemInv(n) /\ n \in Items /\ Shape(n) /\ Depth(n) \in Nat \ {0}
      BY <1>1, DepthOf DEF TreeInv, Grown, ItemsRight, ItemInv
    <3>2. {n.plus, n.opened, n.table, n.indexed} \subseteq BOOLEAN
      BY <3>1 DEF Items
    <3>3. n.lang = "SQL" => Depth(n) <= 5
      BY <3>1 DEF Shape, SqlShape
    <3>4. n.lang # "SQL" => Depth(n) <= 4
      BY <3>1 DEF Shape, CSharpShape, JavaShape, RstShape, FlatShape
    <3>5. Depth(n) \in 1..(IF n.lang = "SQL" THEN 5 ELSE 4)
      BY <3>1, <3>3, <3>4
    <3> QED BY <3>1, <3>2, <3>5, LastLabel
  <2> QED BY <2>1, <2>2 DEF TypeOK
<1> QED BY <1>1, TreeInvAlways, PTL

\* The (+) of a title.
THEOREM TitlesSayWhatIsBelow == Spec => []RstPlusIsRight
<1>1. ASSUME TreeInv
      PROVE  RstPlusIsRight
  <2>1. ASSUME NEW n \in tree, n.lang = "ReStructuredText", Depth(n) \in 2..3
        PROVE  n.plus <=> Children(n) # {}
    BY <1>1, <2>1 DEF TreeInv, Grown, ItemsRight, ItemInv, Shape, RstShape
  <2> QED BY <2>1 DEF RstPlusIsRight
<1> QED BY <1>1, TreeInvAlways, PTL

\* A tag that is not shown for itself is shown once for each owner's name.
THEOREM OnePlaceForATag == Spec => []TwiceOnlyByName
<1>1. ASSUME TreeInv
      PROVE  TwiceOnlyByName
  <2> SUFFICES ASSUME NEW m \in tree, NEW n \in tree, ShowsTag(m), ShowsTag(n),
                      TagOf(m) = TagOf(n), m # n, ~ShownForItself(TagOf(m))
               PROVE  NoTag \notin {Owner(m), Owner(n)} /\ Scope(Owner(m)) = Scope(Owner(n))
    BY Zenon DEF TwiceOnlyByName, Owner
  <2>1. Placed(m) /\ Placed(n) /\ m.at # n.at
    BY <1>1 DEF TreeInv, Grown, ItemsRight, ItemInv, OnePerPlace
  <2>2. \A t \in tags : t # NoTag
    BY <1>1, LabelOf DEF TreeInv
  <2> DEFINE t == TagOf(m)
  <2>3. \/ Owner(m) \in tags /\ ~Unowned(t) /\ t.memberOf = Scope(Owner(m))
        \/ Owner(m) = NoTag /\ Unowned(t) /\ m.at = Home(t)
    BY <2>1 DEF Placed
  <2>4. \/ Owner(n) \in tags /\ ~Unowned(t) /\ t.memberOf = Scope(Owner(n))
        \/ Owner(n) = NoTag /\ Unowned(t) /\ n.at = Home(t)
    BY <2>1 DEF Placed
  <2> HIDE DEF t
  <2> QED BY <2>1, <2>2, <2>3, <2>4
<1> QED BY <1>1, TreeInvAlways, PTL

-----------------------------------------------------------------------------
\* c is in the tree, as it was made or opened since.
Reached(c) == \E v \in tree : Version(v, c)

\* With nothing left to open, what an item with a (+) contains is in the tree.
LEMMA ReachedBelow ==
  ASSUME TreeInv, Complete, NEW p, Reached(p), p.plus, NEW c \in Children(p)
  PROVE  Reached(c)
<1>1. PICK v \in tree : Version(v, p)
  BY DEF Reached
<1>2. v.opened
  BY <1>1 DEF Version, Complete
<1>3. Children(v) = Children(p)
  BY <1>1, SameChildren DEF Version
<1> QED BY <1>2, <1>3 DEF TreeInv, Grown, Filled, Reached

\* The roots are in the tree.
LEMMA ReachedRoot ==
  ASSUME TreeInv, Complete, NEW t \in tags
  PROVE  LET r == Root(t.lang) IN
         /\ Reached(r) /\ r \in Items /\ r.plus /\ r.lang = t.lang /\ Depth(r) = 1 /\ ~r.table
<1>1. t.lang \in Langs
  BY DEF Langs
<1>2. Reached(Root(t.lang))
  BY <1>1 DEF TreeInv, Grown, Rooted, Complete, Reached
<1> QED BY <1>1, <1>2, RootInv DEF TreeInv, ItemInv

\* A tag whose item is in the tree is shown.
LEMMA ReachedShown ==
  ASSUME NEW c, Reached(c), ShowsTag(c)
  PROVE  TagOf(c) \in Shown
<1>1. PICK v \in tree : Version(v, c)
  BY DEF Reached
<1>2. ShowsTag(v) /\ TagOf(v) = TagOf(c)
  BY <1>1 DEF Version, ShowsTag, ItemText, TagOf
<1> QED BY <1>1, <1>2 DEF Shown

\* What a query finds is among the items made of it.
LEMMA TextThere ==
  ASSUME NEW p \in Items, NEW S, NEW x \in S, Text(x) \in Labels
  PROVE  \E c \in Texts(p, S) :
           Made(c, p) /\ c.plus /\ ~c.table /\ ItemText(c) = x /\ TagOf(c) = NoTag
<1>1. PICK c : c = Opening(p, Text(x))
  OBVIOUS
<1>2. c \in Texts(p, S)
  BY <1>1, Zenon DEF Texts, Opening
<1>3. Text(x).text = x /\ Text(x).tag = NoTag
  BY DEF Text
<1>4. Made(c, p) /\ c.plus /\ ~c.table /\ ItemText(c) = Text(x).text /\ TagOf(c) = Text(x).tag
  BY <1>1, OpeningIs
<1> QED BY <1>2, <1>3, <1>4

\* A row the query finds has its item.
LEMMA TagThere ==
  ASSUME tags \in Databases, NEW p \in Items, NEW rows \in SUBSET tags, NEW t \in rows,
         NEW plus \in BOOLEAN
  PROVE  \E c \in Tags(p, rows, plus) :
           Made(c, p) /\ c.plus = plus /\ ShowsTag(c) /\ TagOf(c) = t
<1>1. PICK c : c = Child(p, TagLabel(t), plus)
  OBVIOUS
<1>2. c \in Tags(p, rows, plus)
  BY <1>1 DEF Tags
<1>3. TagLabel(t) \in Labels /\ TagLabel(t).text = <<>> /\ TagLabel(t).tag = t
  BY LabelOf DEF TagLabel
<1>4. /\ Made(c, p) /\ c.plus = plus
      /\ ItemText(c) = TagLabel(t).text /\ TagOf(c) = TagLabel(t).tag
  BY <1>1, <1>3, ChildIs
<1> QED BY <1>2, <1>3, <1>4 DEF ShowsTag

\* The same, with a (+).
LEMMA ExpandableThere ==
  ASSUME tags \in Databases, NEW p \in Items, NEW rows \in SUBSET tags, NEW t \in rows
  PROVE  \E c \in Expandable(p, rows) :
           Made(c, p) /\ c.plus /\ ShowsTag(c) /\ TagOf(c) = t
<1>1. PICK plus \in BOOLEAN : plus = TRUE
  OBVIOUS
<1>2. PICK c \in Tags(p, rows, plus) : Made(c, p) /\ c.plus = plus /\ ShowsTag(c) /\ TagOf(c) = t
  BY TagThere
<1>3. c \in Expandable(p, rows)
  BY <1>1, <1>2, Zenon DEF Expandable
<1> QED BY <1>1, <1>2, <1>3

\* The same, without one.
LEMMA PlainThere ==
  ASSUME tags \in Databases, NEW p \in Items, NEW rows \in SUBSET tags, NEW t \in rows
  PROVE  \E c \in Plain(p, rows) : Made(c, p) /\ ShowsTag(c) /\ TagOf(c) = t
<1>1. PICK plus \in BOOLEAN : plus = FALSE
  OBVIOUS
<1>2. PICK c \in Tags(p, rows, plus) : Made(c, p) /\ c.plus = plus /\ ShowsTag(c) /\ TagOf(c) = t
  BY TagThere
<1>3. c \in Plain(p, rows)
  BY <1>1, <1>2, Zenon DEF Plain
<1> QED BY <1>2, <1>3

\* A member has its item under its owner.
LEMMA MemberThere ==
  ASSUME tags \in Databases, NEW p \in Items, NEW t \in MembersOf(p.lang, TagOf(p).name)
  PROVE  \E c \in AddMembers(p) : Made(c, p) /\ ShowsTag(c) /\ TagOf(c) = t
<1> DEFINE rows == MembersOf(p.lang, TagOf(p).name)
<1>1. rows \in SUBSET tags
  BY DEF MembersOf, Rows
<1>2. AddMembers(p) = Plain(p, rows)
  BY Zenon DEF AddMembers, Plain
<1> HIDE DEF rows
<1>3. t \in rows
  BY DEF rows
<1> QED BY <1>1, <1>2, <1>3, PlainThere

\* A tag has its item under its type, if it has no owner or any will do.
LEMMA TypeMemberThere ==
  ASSUME tags \in Databases, NEW p \in Items, NEW t \in OfType(p),
         TypeHasMembers(p.lang, ItemText(p)) \/ t.memberOf = <<>>
  PROVE  \E c \in AddTypeMembers(p) :
           /\ Made(c, p) /\ ShowsTag(c) /\ TagOf(c) = t
           /\ c.plus = TypeHasMembers(p.lang, ItemText(p))
<1> DEFINE members == TypeHasMembers(p.lang, ItemText(p))
           rows == {u \in OfType(p) : members \/ u.memberOf = <<>>}
<1>1. rows \in SUBSET tags /\ t \in rows
  BY DEF OfType, Rows
<1>2. PICK plus \in BOOLEAN : plus = members
  BY MembersBoolean
<1>3. AddTypeMembers(p) = Tags(p, rows, plus)
  BY <1>2, Zenon DEF AddTypeMembers
<1> HIDE DEF rows, members
<1>4. PICK c \in Tags(p, rows, plus) : Made(c, p) /\ c.plus = plus /\ ShowsTag(c) /\ TagOf(c) = t
  <2>1. ASSUME NEW S \in SUBSET tags, t \in S, NEW b \in BOOLEAN
        PROVE  \E c \in Tags(p, S, b) : Made(c, p) /\ c.plus = b /\ ShowsTag(c) /\ TagOf(c) = t
    BY <2>1, TagThere
  <2> QED BY <1>1, <2>1
<1> QED BY <1>2, <1>3, <1>4 DEF members

\* A title has its item.
LEMMA ItemThere ==
  ASSUME tags \in Databases, NEW p \in Items, p.lang = "ReStructuredText",
         NEW type, NEW sub, NEW t \in Titles(type),
         Depth(p) > 1 => t.memberOf = TagOf(p).name
  PROVE  \E c \in AddItems(p, type, sub) : Made(c, p) /\ ShowsTag(c) /\ TagOf(c) = t
<1>1. PICK plus \in BOOLEAN : plus <=> TitlesUnder(sub, t) # {}
  OBVIOUS
<1>2. PICK c : c = Child(p, TagLabel(t), plus)
  OBVIOUS
<1>3. c \in AddItems(p, type, sub)
  <2>1. plus = (TitlesUnder(sub, t) # {})
    BY <1>1
  <2> QED BY <1>2, <2>1, Zenon DEF AddItems, Titles, TitlesUnder
<1>4. t \in tags
  BY DEF Titles, OfTypes, Rows
<1>5. TagLabel(t) \in Labels /\ TagLabel(t).text = <<>> /\ TagLabel(t).tag = t
  BY <1>4, LabelOf DEF TagLabel
<1>6. Made(c, p) /\ ItemText(c) = TagLabel(t).text /\ TagOf(c) = TagLabel(t).tag
  BY <1>2, <1>5, ChildIs
<1> QED BY <1>3, <1>5, <1>6 DEF ShowsTag

\* The way from the root to a tag that has a place, language by language.
LEMMA FlatShown ==
  ASSUME TreeInv, Complete, NEW t \in tags, t.lang \notin Others, HasPlace(t)
  PROVE  t \in Shown
<1> DEFINE r == Root(t.lang)
<1>0. tags \in Databases
  BY DEF TreeInv
<1>1. Reached(r) /\ r \in Items /\ r.plus /\ r.lang = t.lang /\ Depth(r) = 1
  BY ReachedRoot
<1> HIDE DEF r
<1>2. ASSUME NEW u \in Listed(t.lang), u.memberOf = <<>> \/ TypeHasMembers(t.lang, <<u.type>>)
      PROVE  \E c : /\ Reached(c) /\ c \in Items /\ ShowsTag(c) /\ TagOf(c) = u
                    /\ c.lang = t.lang /\ Depth(c) = 3
                    /\ c.plus = TypeHasMembers(t.lang, <<u.type>>)
  <2>1. u \in tags /\ u.lang = t.lang /\ u \in Rows(t.lang) /\ Text(<<u.type>>) \in Labels
    BY <1>0, LabelOf DEF Listed, Rows
  <2>2. <<u.type>> \in TypesOf(Listed(t.lang))
    BY DEF TypesOf
  <2>3. PICK a \in Texts(r, TypesOf(Listed(t.lang))) :
          Made(a, r) /\ a.plus /\ ItemText(a) = <<u.type>>
    BY <1>1, <2>1, <2>2, TextThere
  <2>4. a \in Children(r)
    BY <1>1, <2>3, FlatChildrenAre
  <2>5. Reached(a) /\ a \in Items /\ a.lang = t.lang /\ Depth(a) = 2
    BY <1>1, <2>3, <2>4, ReachedBelow DEF Made
  <2>6. u \in OfType(a)
    BY <2>1, <2>3, <2>5 DEF OfType
  <2>7. PICK c \in AddTypeMembers(a) :
          /\ Made(c, a) /\ ShowsTag(c) /\ TagOf(c) = u
          /\ c.plus = TypeHasMembers(a.lang, ItemText(a))
    BY <1>0, <1>2, <2>3, <2>5, <2>6, TypeMemberThere
  <2>8. c \in Children(a)
    BY <2>5, <2>7, FlatChildrenAre
  <2>9. Reached(c) /\ c \in Items /\ c.lang = t.lang /\ Depth(c) = 3
    BY <2>3, <2>5, <2>7, <2>8, ReachedBelow DEF Made
  <2> QED BY <2>3, <2>5, <2>7, <2>9
<1>3. CASE t \in Listed(t.lang) /\ (t.memberOf = <<>> \/ TypeHasMembers(t.lang, <<t.type>>))
  BY <1>2, <1>3, ReachedShown
<1>4. ASSUME NEW o \in Listed(t.lang), Owns(o, t), TypeHasMembers(t.lang, <<o.type>>)
      PROVE  t \in Shown
  <2>2. PICK c : /\ Reached(c) /\ c \in Items /\ TagOf(c) = o /\ c.lang = t.lang /\ Depth(c) = 3
                 /\ c.plus = TypeHasMembers(t.lang, <<o.type>>)
    BY <1>2, <1>4
  <2>3. o.name # <<>>
    BY <1>0, LabelOf DEF Listed, Rows
  <2>4. t \in MembersOf(c.lang, TagOf(c).name)
    BY <1>4, <2>2, <2>3 DEF MembersOf, Rows, Owns
  <2>5. PICK d \in AddMembers(c) : Made(d, c) /\ ShowsTag(d) /\ TagOf(d) = t
    BY <1>0, <2>2, <2>4, MemberThere
  <2>6. d \in Children(c)
    BY <2>2, <2>5, FlatChildrenAre
  <2>7. c.plus
    BY <1>4, <2>2
  <2> QED BY <2>2, <2>5, <2>6, <2>7, ReachedBelow, ReachedShown
<1> QED BY <1>3, <1>4, PlaceFlat

\* C#: by namespace and class.
LEMMA CSharpShown ==
  ASSUME TreeInv, Complete, NEW t \in tags, t.lang = "C#", HasPlace(t)
  PROVE  t \in Shown
<1> DEFINE r == Root(t.lang)
<1>0. tags \in Databases
  BY DEF TreeInv
<1>1. Reached(r) /\ r \in Items /\ r.plus /\ r.lang = "C#" /\ Depth(r) = 1
  BY ReachedRoot
<1> HIDE DEF r
<1>2. ASSUME NEW n, n.lang = "C#"
      PROVE  Children(n) = CSharpChildren(n)
  BY <1>2 DEF Children
<1>3. ASSUME NEW u \in Classes("C#"), InNamespace(u)
      PROVE  \E c : /\ Reached(c) /\ c \in Items /\ c.plus /\ ShowsTag(c) /\ TagOf(c) = u
                    /\ c.lang = "C#" /\ Depth(c) = 3
  <2>1. PICK s \in OfTypes("C#", {"namespace"}) : Owns(s, u)
    BY <1>3 DEF InNamespace
  <2> DEFINE names == {x.name : x \in OfTypes("C#", {"namespace"})}
  <2>2. s.name \in names /\ Text(s.name) \in Labels /\ s.name # <<>>
    BY <1>0, LabelOf DEF OfTypes, Rows
  <2>3. Children(r) = Texts(r, names)
    BY <1>1, <1>2, CSharpChildrenAre
  <2> HIDE DEF names
  <2>4. PICK a \in Texts(r, names) : Made(a, r) /\ a.plus /\ ItemText(a) = s.name
    BY <1>1, <2>2, TextThere
  <2>5. Reached(a) /\ a \in Items /\ a.lang = "C#" /\ Depth(a) = 2
    BY <1>1, <2>3, <2>4, ReachedBelow DEF Made
  <2> DEFINE rows == CSharpClasses(a)
  <2>6. rows \in SUBSET tags /\ u \in rows
    BY <1>3, <2>1, <2>2, <2>4, <2>5 DEF CSharpClasses, MembersOf, Rows, Owns, Classes, OfTypes
  <2>7. Children(a) = Expandable(a, rows)
    BY <1>2, <2>5, CSharpChildrenAre
  <2> HIDE DEF rows
  <2>8. PICK c \in Expandable(a, rows) : Made(c, a) /\ c.plus /\ ShowsTag(c) /\ TagOf(c) = u
    BY <1>0, <2>5, <2>6, ExpandableThere
  <2>9. Reached(c) /\ c \in Items /\ c.lang = "C#" /\ Depth(c) = 3
    BY <2>4, <2>5, <2>7, <2>8, ReachedBelow DEF Made
  <2> QED BY <2>8, <2>9
<1>4. CASE t \in Classes("C#") /\ InNamespace(t)
  BY <1>3, <1>4, ReachedShown
<1>5. ASSUME NEW o \in Classes("C#"), InNamespace(o), t.memberOf = o.memberOf \o o.name
      PROVE  t \in Shown
  <2>1. PICK c : /\ Reached(c) /\ c \in Items /\ c.plus /\ TagOf(c) = o
                 /\ c.lang = "C#" /\ Depth(c) = 3
    BY <1>3, <1>5
  <2> DEFINE rows == CSharpMembers(c)
  <2>2. o.memberOf \o o.name # <<>>
    <3>1. o \in tags
      BY DEF Classes, OfTypes, Rows
    <3>2. o.memberOf \in Seq(STRING) /\ o.name \in Seq(STRING) /\ o.name # <<>>
      BY <1>0, <3>1, DatabasesAssumption
    <3> QED BY <3>2, ConcatEqualIffEmpty
  <2>3. rows \in SUBSET tags /\ t \in rows
    BY <1>5, <2>1, <2>2 DEF CSharpMembers, MembersOf, Rows
  <2>4. Children(c) = Plain(c, rows)
    BY <1>2, <2>1, CSharpChildrenAre
  <2> HIDE DEF rows
  <2>5. PICK d \in Plain(c, rows) : Made(d, c) /\ ShowsTag(d) /\ TagOf(d) = t
    BY <1>0, <2>1, <2>3, PlainThere
  <2> QED BY <2>1, <2>4, <2>5, ReachedBelow, ReachedShown
<1> QED BY <1>4, <1>5, PlaceCSharp

\* Java: by package and class.
LEMMA JavaShown ==
  ASSUME TreeInv, Complete, NEW t \in tags, t.lang = "Java", HasPlace(t)
  PROVE  t \in Shown
<1> DEFINE r == Root(t.lang)
<1>0. tags \in Databases
  BY DEF TreeInv
<1>1. Reached(r) /\ r \in Items /\ r.plus /\ r.lang = "Java" /\ Depth(r) = 1
  BY ReachedRoot
<1> HIDE DEF r
<1>2. ASSUME NEW n, n.lang = "Java"
      PROVE  Children(n) = JavaChildren(n)
  BY <1>2 DEF Children
<1>3. ASSUME NEW u \in Classes("Java"), InPackage(u)
      PROVE  \E c : /\ Reached(c) /\ c \in Items /\ c.plus /\ ShowsTag(c) /\ TagOf(c) = u
                    /\ c.lang = "Java" /\ Depth(c) = 3
  <2>1. PICK s \in OfTypes("Java", {"package"}) : s.file = u.file
    BY <1>3 DEF InPackage
  <2> DEFINE names == {x.name : x \in OfTypes("Java", {"package"})}
  <2>2. s.name \in names /\ Text(s.name) \in Labels /\ s.name # <<>>
    BY <1>0, LabelOf DEF OfTypes, Rows
  <2>3. Children(r) = Texts(r, names)
    BY <1>1, <1>2, JavaChildrenAre
  <2> HIDE DEF names
  <2>4. PICK a \in Texts(r, names) : Made(a, r) /\ a.plus /\ ItemText(a) = s.name
    BY <1>1, <2>2, TextThere
  <2>5. Reached(a) /\ a \in Items /\ a.lang = "Java" /\ Depth(a) = 2
    BY <1>1, <2>3, <2>4, ReachedBelow DEF Made
  <2> DEFINE rows == JavaClasses(a)
  <2>6. rows \in SUBSET tags /\ u \in rows
    BY <1>3, <2>1, <2>4, <2>5 DEF JavaClasses, Rows, Classes, OfTypes
  <2>7. Children(a) = Expandable(a, rows)
    BY <1>2, <2>5, JavaChildrenAre
  <2> HIDE DEF rows
  <2>8. PICK c \in Expandable(a, rows) : Made(c, a) /\ c.plus /\ ShowsTag(c) /\ TagOf(c) = u
    BY <1>0, <2>5, <2>6, ExpandableThere
  <2>9. Reached(c) /\ c \in Items /\ c.lang = "Java" /\ Depth(c) = 3
    BY <2>4, <2>5, <2>7, <2>8, ReachedBelow DEF Made
  <2> QED BY <2>8, <2>9
<1>4. CASE t \in Classes("Java") /\ InPackage(t)
  BY <1>3, <1>4, ReachedShown
<1>5. ASSUME NEW o \in Classes("Java"), InPackage(o), Owns(o, t), o.file = t.file
      PROVE  t \in Shown
  <2>1. PICK c : /\ Reached(c) /\ c \in Items /\ c.plus /\ TagOf(c) = o
                 /\ c.lang = "Java" /\ Depth(c) = 3
    BY <1>3, <1>5
  <2> DEFINE rows == JavaMembers(c)
  <2>2. o.name # <<>>
    BY <1>0, LabelOf DEF Classes, OfTypes, Rows
  <2>3. rows \in SUBSET tags /\ t \in rows
    BY <1>5, <2>1, <2>2 DEF JavaMembers, MembersOf, Rows, Owns
  <2>4. Children(c) = Plain(c, rows)
    BY <1>2, <2>1, JavaChildrenAre
  <2> HIDE DEF rows
  <2>5. PICK d \in Plain(c, rows) : Made(d, c) /\ ShowsTag(d) /\ TagOf(d) = t
    BY <1>0, <2>1, <2>3, PlainThere
  <2> QED BY <2>1, <2>4, <2>5, ReachedBelow, ReachedShown
<1> QED BY <1>4, <1>5, PlaceJava

\* reStructuredText: by chapter and section.
LEMMA RstShown ==
  ASSUME TreeInv, Complete, NEW t \in tags, t.lang = "ReStructuredText", HasPlace(t)
  PROVE  t \in Shown
<1> DEFINE r == Root(t.lang)
<1>0. tags \in Databases
  BY DEF TreeInv
<1>1. Reached(r) /\ r \in Items /\ ItemInv(r) /\ r.plus /\ r.lang = "ReStructuredText" /\ Depth(r) = 1
  <2>1. t.lang \in Langs
    BY DEF Langs
  <2> QED BY <1>0, <2>1, ReachedRoot, RootInv
<1> HIDE DEF r
\* A title that is in the tree has a (+) when one is found under it.
<1>2. ASSUME NEW p, Reached(p), p \in Items, ItemInv(p), p.lang = "ReStructuredText",
             NEW type, NEW sub, Children(p) = AddItems(p, type, sub), Depth(p) \in 1..3,
             p.plus \/ Depth(p) > 1,
             NEW u \in Titles(type), Depth(p) > 1 => u.memberOf = TagOf(p).name
      PROVE  \E c : /\ Reached(c) /\ c \in Items /\ ItemInv(c) /\ ShowsTag(c) /\ TagOf(c) = u
                    /\ c.lang = "ReStructuredText" /\ Depth(c) = Depth(p) + 1
  <2>1. PICK c \in AddItems(p, type, sub) : Made(c, p) /\ ShowsTag(c) /\ TagOf(c) = u
    BY <1>0, <1>2, ItemThere
  <2>2. p.plus
    BY <1>2, <2>1 DEF ItemInv, Shape, RstShape
  <2>3. c \in Children(p)
    BY <1>2, <2>1
  <2>4. ItemInv(c) /\ Reached(c)
    BY <1>0, <1>2, <2>2, <2>3, ChildInv, ReachedBelow
  <2> QED BY <1>2, <2>1, <2>4 DEF Made
<1>3. ASSUME NEW u \in Titles("chapter")
      PROVE  \E c : /\ Reached(c) /\ c \in Items /\ ItemInv(c) /\ ShowsTag(c) /\ TagOf(c) = u
                    /\ c.lang = "ReStructuredText" /\ Depth(c) = 2
  <2>1. Children(r) = AddItems(r, "chapter", "section")
    BY <1>1, RstChildrenAre
  <2> QED BY <1>1, <1>2, <2>1
<1>4. ASSUME NEW u \in Titles("section"), NEW o \in Titles("chapter"), Owns(o, u)
      PROVE  \E c : /\ Reached(c) /\ c \in Items /\ ItemInv(c) /\ ShowsTag(c) /\ TagOf(c) = u
                    /\ c.lang = "ReStructuredText" /\ Depth(c) = 3
  <2>1. PICK a : /\ Reached(a) /\ a \in Items /\ ItemInv(a) /\ TagOf(a) = o
                 /\ a.lang = "ReStructuredText" /\ Depth(a) = 2
    BY <1>3
  <2>2. Children(a) = AddItems(a, "section", "subsection")
    BY <2>1, RstChildrenAre
  <2> QED BY <1>2, <1>4, <2>1, <2>2 DEF Owns
<1>5. ASSUME NEW u \in Titles("subsection"), NEW s \in Titles("section"), Owns(s, u),
             NEW o \in Titles("chapter"), Owns(o, s)
      PROVE  u \in Shown
  <2>1. PICK a : /\ Reached(a) /\ a \in Items /\ ItemInv(a) /\ TagOf(a) = s
                 /\ a.lang = "ReStructuredText" /\ Depth(a) = 3
    BY <1>4, <1>5
  <2>2. Children(a) = AddItems(a, "subsection", "subsubsection")
    BY <2>1, RstChildrenAre
  <2>3. PICK c : Reached(c) /\ ShowsTag(c) /\ TagOf(c) = u
    BY <1>2, <1>5, <2>1, <2>2 DEF Owns
  <2> QED BY <2>3, ReachedShown
<1>6. ASSUME NEW type, t.type = type
      PROVE  t \in Titles(type)
  BY <1>6 DEF Titles, OfTypes, Rows
<1>7. CASE t.type = "chapter"
  BY <1>3, <1>6, <1>7, ReachedShown
<1>8. CASE t.type = "section" /\ \E c \in Titles("chapter") : Owns(c, t)
  BY <1>4, <1>6, <1>8, ReachedShown
<1>9. CASE /\ t.type = "subsection"
           /\ \E s \in Titles("section") : Owns(s, t) /\ \E c \in Titles("chapter") : Owns(c, s)
  BY <1>5, <1>6, <1>9
<1> QED BY <1>7, <1>8, <1>9, PlaceRst

\* SQL: a type has its item.
LEMMA SqlTypeThere ==
  ASSUME tags \in Databases, NEW p \in Items, p.lang = "SQL",
         NEW u \in Rows("SQL"), u.type \notin {"field", "index"}
  PROVE  \E c \in SqlTypes(p) : /\ Made(c, p) /\ c.plus /\ ItemText(c) = <<u.type>>
                                /\ c.table = (u.type = "table")
<1> DEFINE rows == {t \in Rows("SQL") : t.type \notin {"field", "index"}}
<1>1. PICK x : x = Opening(p, Text(<<u.type>>))
  OBVIOUS
<1>2. Text(<<u.type>>) \in Labels /\ Text(<<u.type>>).text = <<u.type>>
  BY LabelOf DEF Rows, Text
<1>3. x \in Items /\ ItemText(x) = <<u.type>>
  BY <1>1, <1>2, OpeningIs DEF Made
<1>4. x \in Texts(p, TypesOf(rows))
  <2>1. <<u.type>> \in TypesOf(rows)
    BY DEF TypesOf
  <2> QED BY <1>1, <2>1, Zenon DEF Texts, Opening
<1>5. PICK c : c = [x EXCEPT !.table = (ItemText(x) = <<"table">>)]
  OBVIOUS
<1>6. c \in SqlTypes(p)
  BY <1>4, <1>5 DEF SqlTypes
<1>7. Made(c, p) /\ c.plus
  BY <1>6, SqlTypesMade
<1>8. PICK t \in Rows("SQL") : c.table = (t.type = "table") /\ ItemText(c) = <<t.type>>
  BY <1>6, SqlTypesMade
<1>9. ItemText(c) = <<u.type>>
  <2>1. c.at = x.at
    BY <1>3, <1>5 DEF Items
  <2> QED BY <1>3, <2>1 DEF ItemText
<1>10. t.type = u.type
  BY <1>8, <1>9
<1> QED BY <1>6, <1>7, <1>8, <1>9, <1>10

\* A table has its item.
LEMMA TableThere ==
  ASSUME tags \in Databases, NEW p \in Items, p.lang = "SQL", NEW u \in Tables
  PROVE  \E c \in AddTables(p) :
           Made(c, p) /\ c.plus /\ c.table /\ ShowsTag(c) /\ TagOf(c) = u
<1> DEFINE indexed(t) == "index" \in {m.type : m \in MembersOf("SQL", t.name)}
<1>1. PICK c : c = Flagged(p, TagLabel(u), TRUE, indexed(u))
  OBVIOUS
<1>2. c \in AddTables(p)
  BY <1>1, Zenon DEF AddTables, Tables, Flagged, Opening
<1> HIDE DEF indexed
<1>3. Made(c, p) /\ c.plus /\ c.table /\ ShowsTag(c)
  BY <1>2, TablesMade
<1>4. TagOf(c) = u
  <2>1. u \in tags
    BY DEF Tables, OfTypes, Rows
  <2>2. PICK x : x = Opening(p, TagLabel(u))
    OBVIOUS
  <2>3. PICK label \in Labels : label = TagLabel(u) /\ label.tag = u
    BY <2>1, LabelOf DEF TagLabel
  <2>4. x \in Items /\ TagOf(x) = u
    <3>1. x = Opening(p, label)
      BY <2>2, <2>3
    <3>2. Made(x, p) /\ TagOf(x) = label.tag
      BY <3>1, OpeningIs
    <3> QED BY <2>3, <3>2 DEF Made
  <2>5. c = [x EXCEPT !.table = TRUE, !.indexed = indexed(u)]
    BY <1>1, <2>2, Zenon DEF Flagged
  <2>6. c.at = x.at
    BY <2>4, <2>5 DEF Items
  <2> QED BY <2>4, <2>6 DEF TagOf
<1> QED BY <1>2, <1>3, <1>4

\* A type in a table has its item.
LEMMA SubTypeThere ==
  ASSUME tags \in Databases, NEW p \in Items, p.lang = "SQL", TagOf(p) \in tags,
         NEW u \in MembersOf("SQL", TagOf(p).name)
  PROVE  \E c \in AddTableSubTypes(p) :
           Made(c, p) /\ c.plus /\ c.table /\ ItemText(c) = <<u.type>> /\ TagOf(c) = TagOf(p)
<1> DEFINE label == [text |-> <<u.type>>, tag |-> TagOf(p)]
<1>1. PICK x : x = Opening(p, label)
  OBVIOUS
<1>2. PICK c : c = [x EXCEPT !.table = TRUE]
  OBVIOUS
<1>3. c \in AddTableSubTypes(p)
  BY <1>1, <1>2, Zenon DEF AddTableSubTypes, TypesOf, Opening
<1>4. Made(c, p) /\ c.plus /\ c.table /\ TagOf(c) = TagOf(p)
  BY <1>3, SubTypesMade
<1>5. label \in Labels /\ label.text = <<u.type>>
  BY LabelOf DEF MembersOf, Rows
<1> HIDE DEF label
<1>6. x \in Items /\ ItemText(x) = <<u.type>>
  BY <1>1, <1>5, OpeningIs DEF Made
<1>7. c.at = x.at
  BY <1>2, <1>6 DEF Items
<1>8. ItemText(c) = <<u.type>>
  BY <1>6, <1>7 DEF ItemText
<1> QED BY <1>3, <1>4, <1>8

\* SQL: by type, or by table, with or without an index.
LEMMA SqlShown ==
  ASSUME TreeInv, Complete, NEW t \in tags, t.lang = "SQL", HasPlace(t)
  PROVE  t \in Shown
<1> DEFINE r == Root(t.lang)
<1>0. tags \in Databases
  BY DEF TreeInv
<1>1. Reached(r) /\ r \in Items /\ r.plus /\ r.lang = "SQL" /\ Depth(r) = 1
  BY ReachedRoot
<1> HIDE DEF r
<1>2. ASSUME NEW n, n.lang = "SQL"
      PROVE  Children(n) = SqlChildren(n)
  BY <1>2 DEF Children
<1>3. ASSUME NEW u \in Rows("SQL"), u.type \notin {"field", "index"}
      PROVE  \E a : /\ Reached(a) /\ a \in Items /\ a.plus /\ ItemText(a) = <<u.type>>
                    /\ a.lang = "SQL" /\ Depth(a) = 2 /\ a.table = (u.type = "table")
  <2>1. PICK a \in SqlTypes(r) : /\ Made(a, r) /\ a.plus /\ ItemText(a) = <<u.type>>
                                 /\ a.table = (u.type = "table")
    BY <1>0, <1>1, <1>3, SqlTypeThere
  <2>2. a \in Children(r)
    BY <1>1, <1>2, <2>1, SqlChildrenAre
  <2>3. Reached(a) /\ a \in Items /\ a.lang = "SQL" /\ Depth(a) = 2
    BY <1>1, <2>1, <2>2, ReachedBelow DEF Made
  <2> QED BY <2>1, <2>3
<1>4. ASSUME NEW u \in Tables
      PROVE  \E c : /\ Reached(c) /\ c \in Items /\ c.plus /\ c.table /\ ShowsTag(c) /\ TagOf(c) = u
                    /\ c.lang = "SQL" /\ Depth(c) = 3
  <2>1. u \in Rows("SQL") /\ u.type = "table"
    BY DEF Tables, OfTypes
  <2>2. PICK a : /\ Reached(a) /\ a \in Items /\ a.plus /\ a.lang = "SQL" /\ Depth(a) = 2
                 /\ a.table = (u.type = "table")
    BY <1>3, <2>1
  <2>3. a.table
    BY <2>1, <2>2
  <2>4. PICK c \in AddTables(a) : Made(c, a) /\ c.plus /\ c.table /\ ShowsTag(c) /\ TagOf(c) = u
    BY <1>0, <2>2, TableThere
  <2>5. c \in Children(a)
    BY <1>2, <2>2, <2>3, <2>4, SqlChildrenAre
  <2>6. Reached(c) /\ c \in Items /\ c.lang = "SQL" /\ Depth(c) = 3
    BY <2>2, <2>4, <2>5, ReachedBelow DEF Made
  <2> QED BY <2>4, <2>6
<1>5. CASE t.type = "table"
  <2>1. t \in Tables
    BY <1>5 DEF Tables, OfTypes, Rows
  <2> QED BY <1>4, <2>1, ReachedShown
<1>6. CASE t.type \notin {"field", "index", "table"} /\ t.memberOf = <<>>
  <2>1. t \in Rows("SQL")
    BY DEF Rows
  <2>2. PICK a : /\ Reached(a) /\ a \in Items /\ a.plus /\ ItemText(a) = <<t.type>>
                 /\ a.lang = "SQL" /\ Depth(a) = 2 /\ a.table = (t.type = "table")
    BY <1>3, <1>6, <2>1
  <2>3. ~a.table /\ t \in OfType(a)
    BY <1>6, <2>1, <2>2 DEF OfType
  <2>4. PICK c \in AddTypeMembers(a) : Made(c, a) /\ ShowsTag(c) /\ TagOf(c) = t
    BY <1>0, <1>6, <2>2, <2>3, TypeMemberThere
  <2>5. c \in Children(a)
    BY <1>2, <2>2, <2>3, <2>4, SqlChildrenAre
  <2> QED BY <2>2, <2>4, <2>5, ReachedBelow, ReachedShown
<1>7. ASSUME NEW o \in Tables, Owns(o, t)
      PROVE  t \in Shown
  <2>1. PICK c : /\ Reached(c) /\ c \in Items /\ c.plus /\ c.table /\ TagOf(c) = o
                 /\ c.lang = "SQL" /\ Depth(c) = 3
    BY <1>4
  <2>2. o \in tags /\ o.name # <<>>
    BY <1>0, LabelOf DEF Tables, OfTypes, Rows
  <2>3. t \in MembersOf("SQL", o.name)
    BY <1>7, <2>2 DEF MembersOf, Rows, Owns
  <2>4. CASE c.indexed
    <3>1. PICK d \in AddTableSubTypes(c) :
            Made(d, c) /\ d.plus /\ d.table /\ ItemText(d) = <<t.type>> /\ TagOf(d) = o
      BY <1>0, <2>1, <2>2, <2>3, SubTypeThere
    <3>2. d \in Children(c)
      BY <1>2, <2>1, <2>4, <3>1, SqlChildrenAre
    <3>3. Reached(d) /\ d \in Items /\ d.lang = "SQL" /\ Depth(d) = 4
      BY <2>1, <3>1, <3>2, ReachedBelow DEF Made
    <3> DEFINE rows == SqlMembers(d)
    <3>4. rows \in SUBSET tags /\ t \in rows
      BY <2>3, <3>1, <3>3 DEF SqlMembers, MembersOf, Rows
    <3>5. Children(d) = Plain(d, rows)
      BY <1>2, <3>1, <3>3, SqlChildrenAre
    <3> HIDE DEF rows
    <3>6. PICK e \in Plain(d, rows) : Made(e, d) /\ ShowsTag(e) /\ TagOf(e) = t
      BY <1>0, <3>3, <3>4, PlainThere
    <3> QED BY <3>1, <3>3, <3>5, <3>6, ReachedBelow, ReachedShown
  <2>5. CASE ~c.indexed
    <3>1. PICK d \in AddMembers(c) : Made(d, c) /\ ShowsTag(d) /\ TagOf(d) = t
      BY <1>0, <2>1, <2>3, MemberThere
    <3>2. d \in Children(c)
      BY <1>2, <2>1, <2>5, <3>1, SqlChildrenAre
    <3> QED BY <2>1, <3>1, <3>2, ReachedBelow, ReachedShown
  <2> QED BY <2>4, <2>5
<1> QED BY <1>5, <1>6, <1>7, PlaceSql

\* With everything opened the tree has exactly the tags it has a place for.
THEOREM EverythingIsShown == Spec => []ShowsExactly
<1>1. ASSUME TreeInv
      PROVE  ShowsExactly
  <2>1. ASSUME NEW x \in Shown
        PROVE  x \in tags /\ HasPlace(x)
    <3>1. PICK n \in tree : ShowsTag(n) /\ x = TagOf(n)
      BY DEF Shown
    <3> QED BY <1>1, <3>1 DEF TreeInv, Grown, ItemsRight, ItemInv, Placed
  <2>2. ASSUME Complete, NEW t \in tags, HasPlace(t)
        PROVE  t \in Shown
    <3>1. CASE t.lang \notin Others
      BY <1>1, <2>2, <3>1, FlatShown
    <3>2. CASE t.lang \in Others
      BY <1>1, <2>2, <3>2, CSharpShown, JavaShown, RstShown, SqlShown DEF Others
    <3> QED BY <3>1, <3>2
  <2> QED BY <2>1, <2>2 DEF ShowsExactly
<1> QED BY <1>1, TreeInvAlways, PTL

=============================================================================
