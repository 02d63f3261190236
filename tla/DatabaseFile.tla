---------------------------- MODULE DatabaseFile ----------------------------
(***************************************************************************)
(* What tags.sqlite promises to whoever opens it, whatever the instances   *)
(* of the plug-in do and wherever they fail: it is created empty, gets its *)
(* tables, is stamped with the version of the plug-in, and only then gets  *)
(* rows.  No step but its removal takes anything back.                     *)
(***************************************************************************)
EXTENDS Naturals

CONSTANT Tags

VARIABLE file          \* [present, version, schema, rows], as in SqliteDB

NoRows == [t \in Tags |-> 0]
Nothing == [present |-> FALSE, version |-> 0, schema |-> FALSE, rows |-> NoRows]

\* There is no file, or one that an earlier session has finished.
Init == file.present => file.schema /\ file.version # 0

Create ==
  /\ ~file.present
  /\ file' = [Nothing EXCEPT !.present = TRUE]

CreateTables ==
  /\ file.present /\ file.version = 0 /\ ~file.schema
  /\ file' = [file EXCEPT !.schema = TRUE]

Stamp ==
  /\ file.schema /\ file.version = 0
  /\ file' = [file EXCEPT !.version = 1]

\* An import adds to the rows it finds: none is lost to another writer.
Import ==
  /\ file.schema /\ file.version = 1
  /\ \A t \in Tags : file'.rows[t] >= file.rows[t]
  /\ file' = [file EXCEPT !.rows = file'.rows]

Remove == file' = Nothing

Next == Create \/ CreateTables \/ Stamp \/ Import \/ Remove

Spec == Init /\ [][Next]_file
=============================================================================
