----------------------------- MODULE MCTagsFile -----------------------------
(***************************************************************************)
(* TagsFile with every tags file of a pseudo tag or none and up to two     *)
(* lines, of every length around the sizes that the buffer takes.          *)
(***************************************************************************)
EXTENDS TagsFile

\* Where ctags cuts a long line off.
CutAt == 3

Chars == {"x", "/", "\\", "$", " "}
Texts == UNION {[1..n -> Chars] : n \in 1..4}

Tags(text, fields) ==
  [name |-> "x", number |-> 0, thisFile |-> FALSE, text |-> text,
   pattern |-> IF Len(text) > CutAt THEN CutPattern(text, CutAt) ELSE Pattern(text),
   cut |-> Len(text) > CutAt, fields |-> fields]
Field(key, value) == [key |-> key, value |-> value]

Plain == Tags(<<"x">>, <<>>)
Method == Tags(<<" ", "/", "x">>,
               <<Field("class", "A"), Field("access", "public"), Field("signature", "()")>>)
Class == [Tags(<<"x">>, <<Field("language", "C++"), Field("inherits", "A"), Field("class", "B"),
                          Field("end", "9"), Field("roles", "def"), Field("enum", "C")>>)
            EXCEPT !.thisFile = TRUE]
Minimized == Tags(<<"x", "x", "x">>, <<Field("language", "JavaScript")>>)
Script == Tags(<<"x", "x">>, <<Field("language", "JavaScript"), Field("implementation", "x")>>)
Numbered == [Plain EXCEPT !.number = 7, !.pattern = <<"7">>]
EmptyLine == Tags(<<" ">>, <<>>)
Contents == {Plain, Method, Class, Minimized, Script, Numbered, EmptyLine}

Of(kind, content, len, end) == content @@ [kind |-> kind, len |-> len, end |-> end]

\* A length and an end of a line: around the buffer of four bytes, which is
\* full at three, and the one of eight.
Sizes == {1, 2, 3, 6, 7} \X {1, 2}
Tagged == {Of("tag", c, s[1], s[2]) : c \in Contents, s \in Sizes}
Wrong == {Of("bad", Plain, 2, 1)}
Blanks == {Of("blank", Plain, 0, e) : e \in {1, 2}}
Pseudo == {Of("pseudo", Plain, s[1], s[2]) : s \in {<<2, 1>>, <<2, 2>>, <<3, 2>>, <<9, 1>>}}
Ends == {Of("tag", c, n, 0) : c \in {Plain, Class}, n \in {2, 3, 7}}

MCFiles ==
  LET Heads == {<<>>} \cup {<<p>> : p \in Pseudo \cup Blanks}
      Some == {l \in Tagged : l.len \in {2, 3} /\ l.end = 2}
  IN  {h \o <<l>> : h \in Heads, l \in Tagged \cup Wrong \cup Ends} \cup {<<>>}
        \cup {<<k, l>> : k \in Tagged \cup Wrong, l \in Some \cup Ends \cup Blanks \cup Pseudo}
        \cup {<<p, k, l>> : p \in Pseudo, k \in Some, l \in Some}
        \cup {<<Of("tag", Tags(t, <<>>), 2, 1)>> : t \in Texts}
=============================================================================
