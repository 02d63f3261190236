------------------------------ MODULE TagsFile ------------------------------
(***************************************************************************)
(* How a tags file becomes rows of the table Tags: readtags.c, which reads *)
(* a line into a buffer that grows and takes it apart, Tag::operator=,     *)
(* which sorts its fields, and Tag::SaveToDB.  Buffer, list of fields, Tag *)
(* and prepared statement are the same for all lines of a file.            *)
(*                                                                         *)
(* The content of a line is a record that stands for what parseTagLine     *)
(* finds in it; its length counts where the buffer ends.                   *)
(***************************************************************************)
EXTENDS Naturals, SequencesExt

CONSTANTS
  Files,               \* the tags files: sequences of lines
  FirstSize,           \* the size of a new buffer (growString: 128)
  FirstFields,         \* the size of a new list of fields (initialize: 20)
  FieldsModulus,       \* where an unsigned short starts again from zero
  MaxPath,             \* MAX_PATH
  Null                 \* NULL in a column

ASSUME TagsFileAssumption ==
  /\ FirstSize \in Nat /\ FirstSize >= 2
  /\ FirstFields \in Nat \ {0} /\ FieldsModulus \in Nat \ {0} /\ MaxPath \in Nat

\* A line has len characters and an end of none, one ("\n") or two bytes; it
\* is not without both, and only the last one of a file is without an end.
ASSUME FilesAssumption ==
  \A f \in Files :
    /\ f \in Seq(ToSet(f))
    /\ \A n \in DOMAIN f :
         /\ f[n].kind \in {"blank", "pseudo", "tag", "bad"}
         /\ f[n].len \in Nat /\ f[n].end \in 0..2
         /\ f[n].len + f[n].end > 0
         /\ f[n].len = 0 => f[n].kind = "blank"
         /\ f[n].end = 0 => n = Len(f)
         /\ f[n].fields \in Seq(ToSet(f[n].fields))

VARIABLES
  file,                \* the file that is read
  pc,                  \* what comes next
  at, off,             \* the position: a line, and how much of it is read
  start,               \* readPseudoTags: startOfLine, a position, too
  size,                \* file->line.size
  line,                \* the line in the buffer
  max,                 \* file->fields.max
  list,                \* the fields of the line that are in file->fields.list
  tag,                 \* the Tag of ImportTags
  bound,               \* what is bound to the parameters of its statement
  rows                 \* the rows that have been inserted

reader == <<at, off, start, size>>
vars == <<file, pc, reader, line, max, list, tag, bound, rows>>

-----------------------------------------------------------------------------
(***************************************************************************)
(* Lines are blank, a pseudo tag, a tag, or "bad": one that parseTagLine   *)
(* gives up on.  A part of a line would be taken for a line of its own.    *)
(***************************************************************************)
Part == [kind |-> "part"]

EmptyTag == [name |-> "", line |-> 0, pattern |-> <<>>, thisFile |-> FALSE,
             language |-> "", memberOf |-> "", memberOfType |-> "",
             inherits |-> "", signature |-> "", access |-> "",
             implementation |-> "", unrecognized |-> <<>>]
Owners == {"class", "struct", "union", "enum", "interface", "namespace",
           "chapter", "section", "subsection", "table"}
OwnColumn == {"inherits", "signature", "access", "implementation"}

Init ==
  /\ file \in Files
  /\ pc = "pseudo"
  /\ at = 1 /\ off = 0 /\ start = <<1, 0>>
  /\ size = FirstSize /\ max = FirstFields
  /\ line = Part /\ list = <<>>
  /\ tag = EmptyTag /\ bound = EmptyTag /\ rows = <<>>

-----------------------------------------------------------------------------
(***************************************************************************)
(* readTagLine.  fgets fills the buffer but for its last byte.  When the   *)
(* byte before that is neither free nor an end of line, the buffer is      *)
(* doubled and the line read again.                                        *)
(***************************************************************************)
Eof == at > Len(file)
Got == LET rest == file[at].len + file[at].end - off
       IN  IF rest < size - 1 THEN rest ELSE size - 1

\* Variant: a line that fills the buffer is taken as it is.
OverflowsNever == FALSE

Overflows == Got = size - 1 /\ off + Got <= file[at].len

\* Variant: the doubled buffer is not kept.
GrowForgotten ==
  /\ pc \in {"pseudo", "read"} /\ ~Eof /\ Overflows
  /\ UNCHANGED vars

\* Variant: the rest of the line is read into the doubled buffer.
GrowWithoutSeek ==
  /\ pc \in {"pseudo", "read"} /\ ~Eof /\ Overflows
  /\ size' = 2 * size /\ off' = off + Got
  /\ UNCHANGED <<file, pc, at, start, line, max, list, tag, bound, rows>>

Grow ==
  /\ pc \in {"pseudo", "read"} /\ ~Eof /\ Overflows
  /\ size' = 2 * size
  /\ UNCHANGED <<file, pc, at, off, start, line, max, list, tag, bound, rows>>

\* Where fgets has left the file, and the line it has read.
Advance ==
  IF off + Got = file[at].len + file[at].end
    THEN at' = at + 1 /\ off' = 0 ELSE at' = at /\ off' = off + Got
IsBlank == off >= file[at].len \/ file[at].kind = "blank"
Whole == off = 0 /\ Got >= file[at].len
Line == IF Whole THEN file[at] ELSE Part
LineRead == ~Eof /\ ~Overflows /\ ~IsBlank

\* A line without a name is passed over.
ReadBlank ==
  /\ pc \in {"pseudo", "read"} /\ ~Eof /\ ~Overflows /\ IsBlank
  /\ Advance
  /\ UNCHANGED <<file, pc, start, size, line, max, list, tag, bound, rows>>

\* readPseudoTags reads the first line behind the pseudo tags, too, and
\* goes back.
ReadPseudo ==
  /\ pc = "pseudo" /\ LineRead /\ Line.kind = "pseudo"
  /\ Advance /\ start' = <<at', off'>>
  /\ UNCHANGED <<file, pc, size, line, max, list, tag, bound, rows>>

\* Variant: it does not go back.
OpenWithoutRewind ==
  /\ pc = "pseudo"
  /\ Eof \/ (LineRead /\ Line.kind # "pseudo")
  /\ IF Eof THEN UNCHANGED <<at, off>> ELSE Advance
  /\ pc' = "read"
  /\ UNCHANGED <<file, start, size, line, max, list, tag, bound, rows>>

Open ==
  /\ pc = "pseudo"
  /\ Eof \/ (LineRead /\ Line.kind # "pseudo")
  /\ at' = start[1] /\ off' = start[2]
  /\ pc' = "read"
  /\ UNCHANGED <<file, start, size, line, max, list, tag, bound, rows>>

\* tagsNext of ImportTags.  Any failure ends its loop.
tagsNext ==
  /\ pc = "read" /\ LineRead
  /\ Advance
  /\ line' = Line /\ list' = <<>>
  /\ pc' = IF Line.kind = "bad" THEN "done" ELSE IF Line.kind = "part" THEN "read" ELSE "fields"
  /\ rows' = IF Line.kind = "part" THEN Append(rows, EmptyTag) ELSE rows
  /\ UNCHANGED <<file, start, size, max, tag, bound>>

EndOfFile ==
  /\ pc = "read" /\ Eof
  /\ pc' = "done"
  /\ UNCHANGED <<file, reader, line, max, list, tag, bound, rows>>

-----------------------------------------------------------------------------
(***************************************************************************)
(* parseExtensionFields, with growFields when the list is full.            *)
(***************************************************************************)
\* Variant: the list grows when it has run over.
FullOneLate(n) == n > max
Full(n) == n = max

ParseField ==
  /\ pc = "fields" /\ Len(list) < Len(line.fields)
  /\ max' = IF Full(Len(list)) THEN (2 * max) % FieldsModulus ELSE max
  /\ list' = Append(list, line.fields[Len(list) + 1])
  /\ UNCHANGED <<file, pc, reader, line, tag, bound, rows>>

-----------------------------------------------------------------------------
(***************************************************************************)
(* Tag::operator=.  A pattern is a sequence of characters.                 *)
(***************************************************************************)
Trim(s) == LET text == {n \in DOMAIN s : s[n] # " "}
           IN  IF text = {} THEN <<>> ELSE SubSeq(s, Min(text), Max(text))

\* Variant: the slashes stay escaped.
TrimPatternOnly(s) == Trim(SubSeq(s, 3, Len(s) - 2))

Unescape(s, c) ==
  IF c = "/" /\ s # <<>> /\ Last(s) = "\\" THEN Append(Front(s), c) ELSE Append(s, c)
UnescapeSlashes(s) == FoldLeft(Unescape, <<>>, s)

\* Without "/^" and "$/", or what stands in their places.
TrimPattern(s) == Trim(UnescapeSlashes(SubSeq(s, 3, Len(s) - 2)))

AssignField(t, f) ==
  IF f.key = "language"
    THEN [t EXCEPT !.language = IF f.value \in {"C", "C++"} THEN "C/C++" ELSE f.value]
  ELSE IF f.key \in Owners
    THEN [t EXCEPT !.memberOf = f.value, !.memberOfType = f.key]
  ELSE IF f.key \in OwnColumn THEN [t EXCEPT ![f.key] = f.value]
  ELSE [t EXCEPT !.unrecognized = Append(@, f)]

AssignFrom(t) ==
  FoldLeft(AssignField,
           [t EXCEPT !.name = line.name, !.line = line.number,
                     !.pattern = IF line.number = 0 THEN TrimPattern(line.pattern) ELSE t.pattern,
                     !.thisFile = line.thisFile],
           list)

\* Variant: what the line before had and this one has not is still there.
AssignOver ==
  /\ pc = "fields" /\ Len(list) = Len(line.fields)
  /\ tag' = AssignFrom(tag)
  /\ pc' = "save"
  /\ UNCHANGED <<file, reader, line, max, list, bound, rows>>

Assign ==
  /\ pc = "fields" /\ Len(list) = Len(line.fields)
  /\ tag' = AssignFrom(EmptyTag)
  /\ pc' = "save"
  /\ UNCHANGED <<file, reader, line, max, list, bound, rows>>

-----------------------------------------------------------------------------
(***************************************************************************)
(* ImportTags.  What is empty is bound as NULL, and read back as empty.    *)
(***************************************************************************)
Wanted(t) ==
  /\ t.pattern # <<>> \/ t.line # 0
  /\ ~(t.language = "JavaScript" /\ Len(t.pattern) >= MaxPath)

Skip ==
  /\ pc = "save" /\ ~Wanted(tag)
  /\ pc' = "read"
  /\ UNCHANGED <<file, reader, line, max, list, tag, bound, rows>>

IsEmpty(t, c) == t[c] = EmptyTag[c] /\ c # "thisFile"

\* Variant: what is empty is not bound.
BindEmptyNot(t) == [c \in DOMAIN t |-> IF IsEmpty(t, c) THEN bound[c] ELSE t[c]]

Bind(t) == [c \in DOMAIN t |-> IF IsEmpty(t, c) THEN Null ELSE t[c]]

SaveToDB ==
  /\ pc = "save" /\ Wanted(tag)
  /\ bound' = Bind(tag)
  /\ rows' = Append(rows, bound')
  /\ pc' = "read"
  /\ UNCHANGED <<file, reader, line, max, list, tag>>

SetFromDB(row) == [c \in DOMAIN row |-> IF row[c] = Null THEN EmptyTag[c] ELSE row[c]]

\* A call of the C library fails, there is no memory for a longer buffer or
\* list, or the value of a pseudo tag is one that tagsOpen refuses: the loop
\* ends, or does not begin.
Fails ==
  /\ \/ pc \in {"pseudo", "read"}
     \/ pc = "fields" /\ Len(list) < Len(line.fields) /\ Full(Len(list))
  /\ pc' = "failed"
  /\ UNCHANGED <<file, reader, line, max, list, tag, bound, rows>>

Step ==
  \/ Grow \/ ReadBlank \/ ReadPseudo \/ Open \/ tagsNext \/ EndOfFile
  \/ ParseField \/ Assign \/ Skip \/ SaveToDB

Next == Step \/ Fails

Spec == Init /\ [][Next]_vars /\ WF_vars(Step)

-----------------------------------------------------------------------------
\* The types, and where the reader stands between two calls: not inside of
\* the text of a line, so that no part of one is taken for a line.
TypeOK ==
  /\ pc \in {"pseudo", "read", "fields", "save", "done", "failed"}
  /\ at \in 1..(Len(file) + 1) /\ start[1] \in 1..at
  /\ at <= Len(file) => /\ off = 0 \/ off >= file[at].len
                        /\ off < file[at].len + file[at].end
  /\ size \in Nat /\ max \in Nat
  /\ DOMAIN tag = DOMAIN EmptyTag /\ DOMAIN bound = DOMAIN EmptyTag

\* What a line says, read on its own: of the fields with a key, the last.
LastOf(fields, keys) ==
  LET places == {n \in DOMAIN fields : fields[n].key \in keys}
  IN  IF places = {} THEN [key |-> "", value |-> ""] ELSE fields[Max(places)]

Known == Owners \cup OwnColumn \cup {"language"}
AddOther(others, f) == IF f.key \in Known THEN others ELSE Append(others, f)

TagOf(l) ==
  LET value(keys) == LastOf(l.fields, keys).value IN
  [name |-> l.name, line |-> l.number, thisFile |-> l.thisFile,
   pattern |-> IF l.number = 0 THEN TrimPattern(l.pattern) ELSE <<>>,
   language |-> IF value({"language"}) \in {"C", "C++"} THEN "C/C++" ELSE value({"language"}),
   memberOf |-> value(Owners), memberOfType |-> LastOf(l.fields, Owners).key,
   inherits |-> value({"inherits"}), signature |-> value({"signature"}),
   access |-> value({"access"}), implementation |-> value({"implementation"}),
   unrecognized |-> FoldLeft(AddOther, <<>>, l.fields)]

\* What a line says is never the same as NULL.
ASSUME NullAssumption ==
  \A f \in Files : \A n \in DOMAIN f : \A c \in DOMAIN EmptyTag : TagOf(f[n])[c] # Null

\* The lines that are tags: a pseudo tag is one, too, behind the first tag.
IsTag(n) ==
  \/ file[n].kind = "tag"
  \/ file[n].kind = "pseudo" /\ \E k \in 1..(n - 1) : file[k].kind = "tag"

\* What the first n lines are to become.
AddTag(tags, n) ==
  IF IsTag(n) /\ Wanted(TagOf(file[n])) THEN Append(tags, TagOf(file[n])) ELSE tags
TagsUpTo(n) == FoldLeftDomain(AddTag, <<>>, SubSeq(file, 1, n))

\* The lines before one that cannot be parsed, where ImportTags stops.
Good == CHOOSE n \in 0..Len(file) : /\ \A k \in 1..n : file[k].kind # "bad"
                                    /\ n < Len(file) => file[n + 1].kind = "bad"

\* Every line of a tags file that is a tag and is wanted becomes one row, up
\* to the first line that cannot be parsed, or as far as the reading gets
\* before it fails: wherever the line ends in the buffer, with what it says
\* and nothing of the lines before it, not in the list of fields, not in the
\* Tag, not in the statement.
RowsAreLines ==
  LET read == [n \in DOMAIN rows |-> SetFromDB(rows[n])] IN
  /\ IsPrefix(read, TagsUpTo(Len(file)))
  /\ pc = "done" => read = TagsUpTo(Good)

\* No field is written behind the end of the list, in a file whose lines
\* have no more of them than an unsigned short can count when it is doubled.
FewFields == \A n \in DOMAIN file : Len(file[n].fields) <= FieldsModulus \div 2
FieldsFit == FewFields /\ pc = "fields" => Len(list) <= max

\* Every import ends: no line makes the buffer grow and be read again for
\* ever.
ReadingEnds == <>(pc \in {"done", "failed"})

-----------------------------------------------------------------------------
(***************************************************************************)
(* The patterns that ctags writes: of the text of a line of a source file  *)
(* or of the first n characters of a long one, which has no "$" then.      *)
(***************************************************************************)
Escaped(text, n) ==
  \/ text[n] \in {"/", "\\"}
  \/ text[n] = "$" /\ n = Len(text)
Write(s, characters) == s \o characters
Escape(text, n) ==
  FoldLeft(Write, <<>>,
           [k \in 1..n |-> IF Escaped(text, k) THEN <<"\\", text[k]>> ELSE <<text[k]>>])
Pattern(text) == <<"/", "^">> \o Escape(text, Len(text)) \o <<"$", "/">>
CutPattern(text, n) == <<"/", "^">> \o Escape(text, n) \o <<"/">>

\* A tag without a line number has the pattern of its line.
ByPattern(l) == l.kind = "tag" /\ l.number = 0

ASSUME PatternAssumption ==
  \A f \in Files : \A n \in DOMAIN f : ByPattern(f[n]) =>
    LET l == f[n] IN
    /\ l.text \in Seq(ToSet(l.text)) \ {<<>>}
    /\ l.cut \in BOOLEAN
    /\ IF l.cut THEN \E k \in DOMAIN l.text : l.pattern = CutPattern(l.text, k)
                ELSE l.pattern = Pattern(l.text)

\* Jump to Tag looks for the pattern in the text of the source file, as it
\* is.  It finds the line of the tag unless there is a backslash in it or a
\* dollar sign at its end: TrimPattern gives back the slashes that ctags has
\* escaped, and nothing else.  Where ctags has cut the line off, TrimPattern
\* takes one character too many, and what is left is found, too, unless
\* there is a backslash in it.
Found(pattern, text) == \E n \in 0..(Len(text) - Len(pattern)) :
                          SubSeq(text, n + 1, n + Len(pattern)) = pattern
PatternFindsLine ==
  pc = "save" /\ ByPattern(line) =>
    IF line.cut
      THEN "\\" \notin ToSet(tag.pattern) => Found(tag.pattern, line.text)
      ELSE Found(tag.pattern, line.text)
             <=> "\\" \notin ToSet(line.text) /\ Last(line.text) # "$"
=============================================================================
