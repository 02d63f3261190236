------------------------------ MODULE SqliteDB ------------------------------
(***************************************************************************)
(* The classes SqliteDatabase and SqliteStatement (SqliteDB.cpp) of every  *)
(* running copy of the plug-in, all of them on one tags.sqlite file.       *)
(*                                                                         *)
(* The SQLite library is used with its defaults: a rollback journal, no    *)
(* busy handler, one lock per connection on the file.  A statement that    *)
(* cannot have its lock fails at once; it never waits.  The file is opened *)
(* without FILE_SHARE_DELETE, so Windows refuses to delete it while any    *)
(* connection is open.  A committed transaction survives a crash, an       *)
(* uncommitted one never reaches the file.                                 *)
(*                                                                         *)
(* The operators below are the library calls the plug-in makes, as action  *)
(* fragments over the variables of this module; TagsDatabase composes them *)
(* into the plug-in's operations.                                          *)
(***************************************************************************)
EXTENDS Naturals

CONSTANTS
  Instances,     \* the running copies of Notepad++ with the plug-in loaded
  Tags           \* the tags a tags file can hold

VARIABLES
  file,          \* the committed content of tags.sqlite
  conn,          \* conn[i]:  SqliteDatabase::_db of instance i
  lock,          \* lock[i]:  the lock that connection holds on the file
  txn,           \* txn[i]:   it is inside BEGIN ... COMMIT
  draft          \* draft[i]: what its uncommitted transaction would commit

sqliteVars == <<file, conn, lock, txn, draft>>

(***************************************************************************)
(* The file.  version is PRAGMA user_version: 0 in a file SQLite has just  *)
(* created, DbVersion after TagsDatabase::Init, OtherVersion in a database *)
(* some other release of the plug-in wrote.  rows counts the rows of the   *)
(* table Tags per tag.                                                     *)
(***************************************************************************)
DbVersion == 1
OtherVersion == 2
NoRows == [t \in Tags |-> 0]

Content == [present: BOOLEAN, version: {0, DbVersion, OtherVersion},
            schema: BOOLEAN, rows: [Tags -> Nat]]

Absent == [present |-> FALSE, version |-> 0, schema |-> FALSE, rows |-> NoRows]
Blank == [Absent EXCEPT !.present = TRUE]

\* "sick": sqlite3_open16 failed, yet left a handle that is not NULL.
Conns == {"null", "open", "sick"}

WriteLocks == {"reserved", "pending", "exclusive"}
Locks == {"none", "shared"} \cup WriteLocks

SqliteTypeOK ==
  /\ file \in Content
  /\ conn \in [Instances -> Conns]
  /\ lock \in [Instances -> Locks]
  /\ txn \in [Instances -> BOOLEAN]
  /\ draft \in [Instances -> Content]

-----------------------------------------------------------------------------
(***************************************************************************)
(* Locking                                                                 *)
(***************************************************************************)
Others(i) == Instances \ {i}
CanShare(i) == \A j \in Others(i) : lock[j] \notin {"pending", "exclusive"}
CanReserve(i) == \A j \in Others(i) : lock[j] \notin WriteLocks

\* Variant: a commit does not wait for the readers.
CommitOverReaders(i) == CanReserve(i)

CanExclude(i) == \A j \in Others(i) : lock[j] = "none"

\* A statement can read: with a lock that is held already, or a new one.
CanRead(i) == lock[i] # "none" \/ CanShare(i)

\* What the statements of connection i see.
View(i) == IF lock[i] \in WriteLocks THEN draft[i] ELSE file

-----------------------------------------------------------------------------
(***************************************************************************)
(* SqliteDatabase::Open, after its two guards: a missing file is created   *)
(* empty.  When the library cannot open it, _db keeps the dead handle.     *)
(***************************************************************************)
OpenFile(i) ==
  /\ conn' = [conn EXCEPT ![i] = "open"]
  /\ file' = IF file.present THEN file ELSE Blank
  /\ UNCHANGED <<lock, txn, draft>>

OpenFileFails(i) ==
  /\ conn' = [conn EXCEPT ![i] = "sick"]
  /\ UNCHANGED <<file, lock, txn, draft>>

\* Variant: Close forgets to reset _db.
CloseKeepsHandle(i) == UNCHANGED sqliteVars

\* SqliteDatabase::Close, and what the end of the process does to a
\* connection: locks go, an open transaction is rolled back.
CloseConn(i) ==
  /\ conn' = [conn EXCEPT ![i] = "null"]
  /\ lock' = [lock EXCEPT ![i] = "none"]
  /\ txn' = [txn EXCEPT ![i] = FALSE]
  /\ draft' = [draft EXCEPT ![i] = Absent]
  /\ UNCHANGED file

\* Variant: the file is opened with FILE_SHARE_DELETE.
DeletesOpenFile == TRUE

\* SqliteDatabase::Delete: an open connection, whoever holds it, keeps
\* the file from being deleted.
CanDelete == \A j \in Instances : conn[j] # "open"

DeleteFile ==
  /\ file' = Absent
  /\ UNCHANGED <<conn, lock, txn, draft>>

-----------------------------------------------------------------------------
\* BEGIN TRANSACTION takes no lock.
Begin(i) ==
  /\ txn' = [txn EXCEPT ![i] = TRUE]
  /\ UNCHANGED <<file, conn, lock, draft>>

\* Variant: every row is a transaction of its own.
WriteAutocommits(i, content, l) ==
  /\ file' = content
  /\ UNCHANGED <<conn, lock, txn, draft>>

\* A write inside a transaction, with the lock it ends up holding.
Write(i, content, l) ==
  /\ draft' = [draft EXCEPT ![i] = content]
  /\ lock' = [lock EXCEPT ![i] = l]
  /\ UNCHANGED <<file, conn, txn>>

\* COMMIT TRANSACTION: publishes the draft, if anything was written.
Commit(i) ==
  /\ file' = View(i)
  /\ lock' = [lock EXCEPT ![i] = "none"]
  /\ txn' = [txn EXCEPT ![i] = FALSE]
  /\ draft' = [draft EXCEPT ![i] = Absent]
  /\ UNCHANGED conn

\* COMMIT refused because of a reader: the transaction stays open and the
\* PENDING lock it now holds keeps new readers out.
CommitBusy(i) ==
  /\ lock' = [lock EXCEPT ![i] = "pending"]
  /\ UNCHANGED <<file, conn, txn, draft>>

\* SQLite's automatic rollback after a disk error.
AutoRollback(i) ==
  /\ lock' = [lock EXCEPT ![i] = "none"]
  /\ txn' = [txn EXCEPT ![i] = FALSE]
  /\ draft' = [draft EXCEPT ![i] = Absent]
  /\ UNCHANGED <<file, conn>>

-----------------------------------------------------------------------------
\* The first sqlite3_step of a SELECT.
StartRead(i) ==
  /\ lock' = [lock EXCEPT ![i] = IF lock[i] = "none" THEN "shared" ELSE lock[i]]
  /\ UNCHANGED <<file, conn, txn, draft>>

\* Its last step, or sqlite3_finalize: the shared lock goes unless the
\* connection is inside a transaction.
EndRead(i) ==
  /\ lock' = [lock EXCEPT ![i] = IF lock[i] = "shared" /\ ~txn[i]
                                   THEN "none" ELSE lock[i]]
  /\ UNCHANGED <<file, conn, txn, draft>>
=============================================================================
