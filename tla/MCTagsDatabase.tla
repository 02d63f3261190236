--------------------------- MODULE MCTagsDatabase ---------------------------
(***************************************************************************)
(* Small instances of TagsDatabase for TLC.                                *)
(***************************************************************************)
EXTENDS TagsDatabase, TLC

CONSTANTS a, b, noSearch, broken   \* tags; SkipTag and the parser refuse two

\* One after the other: nothing, one tag, a tag passed over between two
\* that are stored, a broken line between two good ones.
FourTagFiles == {<<>>, <<a>>, <<a, noSearch, b>>, <<a, broken, b>>}
OneTagFile == {<<a>>}

AllFaults == FaultKinds

\* The faults of a use of the database, without those of the way to it.
DatabaseFaults == {"open", "read", "write", "commit", "crash"}
=============================================================================
