---------------------------- MODULE TagsDatabase ----------------------------
(***************************************************************************)
(* The class TagsDatabase (TagsDatabase.cpp) and the operations of the     *)
(* plug-in that use it: generating the database from a tags file, looking  *)
(* up a tag, building the tags tree and expanding one of its nodes.        *)
(*                                                                         *)
(* Every running instance is one thread of control.  Several of them share *)
(* one directory, hence one tags file and one tags.sqlite.  A step is one  *)
(* call that touches a file: what another instance does, and a crash, can  *)
(* come between any two of them.  No step waits for another instance.      *)
(*                                                                         *)
(* An operation that fails leaves by one of two exits.  A SqliteException  *)
(* is caught by the operation, which tells the user.  Execute throws a     *)
(* char* instead (SqliteDB.cpp:186), which no handler of the plug-in       *)
(* catches.  Neither exit closes the database.                             *)
(***************************************************************************)
EXTENDS SqliteDB, Sequences, FiniteSets

CONSTANTS
  NoTags,        \* there is no tags file
  TagFiles,      \* what a run of ctags can write
  Skipped,       \* the tags ImportTags passes over
  Malformed,     \* the lines tagsNext gives up on
  Faults,        \* the calls into the system that can fail
  OverwriteTags, \* Options: OverwriteExistingTagsFile
  DeleteTags     \* Options: DeleteTagsFile

FaultKinds == {"spawn", "ctags", "tagsfile", "delete", "open", "read",
               "write", "commit", "crash"}

\* Options.cpp:86: a tags file that is deleted is always overwritten too.
ASSUME OptionsAssumption ==
  /\ OverwriteTags \in BOOLEAN
  /\ DeleteTags \in BOOLEAN
  /\ DeleteTags => OverwriteTags

ASSUME TagsAssumption ==
  /\ TagFiles \subseteq Seq(Tags)
  /\ NoTags \notin Seq(Tags)
  /\ Skipped \subseteq Tags
  /\ Malformed \subseteq Tags
  /\ Faults \subseteq FaultKinds

VARIABLES
  tagsFile,      \* the tags file: its entries, or NoTags
  pc,            \* pc[i]:     the next step of instance i
  op,            \* op[i]:     the operation it runs
  named,         \* named[i]:  _dbFile is set
  shown,         \* shown[i]:  s_bTreeVisible
  tree,          \* tree[i]:   the tree has a node that can be expanded
  reader,        \* reader[i]: the entry tagsNext reads next, 0: not open
  stuck,         \* stuck[i]:  a tagFile it will never close
  threw          \* threw[i]:  an operation has failed since the start

uiVars == <<op, named, shown, tree, threw>>
tagVars == <<tagsFile, reader, stuck>>
vars == <<file, conn, lock, txn, draft, tagsFile, pc, op, named, shown, tree,
          reader, stuck, threw>>

Pcs == {"off", "idle", "ctags", "writing", "import", "delete", "open",
        "version", "versionRead", "init", "initCommit", "setVersion",
        "prepare", "begin", "insert", "commit", "finish", "closeTags",
        "deleteTags", "query", "scan"}
Ops == {"none", "generate", "lookup", "tree", "expand", "borrow"}

\* The types, and that every tags file an instance has open is one it is
\* importing, or one it has lost sight of for good (stuck).
TypeOK ==
  /\ SqliteTypeOK
  /\ tagsFile \in {NoTags} \cup Seq(Tags)
  /\ pc \in [Instances -> Pcs]
  /\ op \in [Instances -> Ops]
  /\ named \in [Instances -> BOOLEAN]
  /\ shown \in [Instances -> BOOLEAN]
  /\ tree \in [Instances -> BOOLEAN]
  /\ reader \in [Instances -> Nat]
  /\ stuck \in [Instances -> BOOLEAN]
  /\ threw \in [Instances -> BOOLEAN]
  /\ \A i \in Instances : reader[i] # 0 => op[i] = "generate"

-----------------------------------------------------------------------------
(***************************************************************************)
(* The entries ImportTags stores, as a count per tag: it reads up to the   *)
(* first line it cannot parse and passes over the skipped ones.            *)
(***************************************************************************)
Stored(s, k) ==
  /\ s[k] \notin Skipped
  /\ \A j \in 1..k : s[j] \notin Malformed

Accepted(s) ==
  [t \in Tags |-> Cardinality({k \in DOMAIN s : s[k] = t /\ Stored(s, k)})]

\* The entries of a tags file there is something to search for in.
Wanted(s) ==
  [t \in Tags |-> Cardinality({k \in DOMAIN s : s[k] = t /\ t \notin Skipped})]

Database(v, rows) ==
  [present |-> TRUE, version |-> v, schema |-> TRUE, rows |-> rows]

Init ==
  /\ file \in {Absent, Database(OtherVersion, NoRows)}
              \cup {Database(DbVersion, Accepted(s)) : s \in TagFiles}
  /\ tagsFile \in {NoTags} \cup TagFiles
  /\ conn = [i \in Instances |-> "null"]
  /\ lock = [i \in Instances |-> "none"]
  /\ txn = [i \in Instances |-> FALSE]
  /\ draft = [i \in Instances |-> Absent]
  /\ pc = [i \in Instances |-> "off"]
  /\ op = [i \in Instances |-> "none"]
  /\ named = [i \in Instances |-> FALSE]
  /\ shown = [i \in Instances |-> FALSE]
  /\ tree = [i \in Instances |-> FALSE]
  /\ reader = [i \in Instances |-> 0]
  /\ stuck = [i \in Instances |-> FALSE]
  /\ threw = [i \in Instances |-> FALSE]

-----------------------------------------------------------------------------
(***************************************************************************)
(* How a step hands on control.                                            *)
(***************************************************************************)
Goto(i, l) ==
  /\ pc' = [pc EXCEPT ![i] = l]
  /\ UNCHANGED <<uiVars, tagVars>>

\* The operation is over, and nothing went wrong.
Done(i) ==
  /\ pc' = [pc EXCEPT ![i] = "idle"]
  /\ op' = [op EXCEPT ![i] = "none"]
  /\ UNCHANGED <<named, shown, tree, threw, tagVars>>

\* Variant: the handler deletes the tags file it has not imported.
ThrowsAndCleansUp(i) ==
  /\ pc' = [pc EXCEPT ![i] = "idle"]
  /\ op' = [op EXCEPT ![i] = "none"]
  /\ threw' = [threw EXCEPT ![i] = TRUE]
  /\ reader' = [reader EXCEPT ![i] = 0]
  /\ tagsFile' = IF reader[i] # 0 THEN NoTags ELSE tagsFile
  /\ UNCHANGED <<named, shown, tree, stuck>>

\* Variant: the handler forgets to close the tags file.
ThrowsAndForgets(i) ==
  /\ pc' = [pc EXCEPT ![i] = "idle"]
  /\ op' = [op EXCEPT ![i] = "none"]
  /\ threw' = [threw EXCEPT ![i] = TRUE]
  /\ UNCHANGED <<named, shown, tree, tagsFile, reader, stuck>>

\* A SqliteException: the handler tells the user and, in ImportTags, closes
\* the tags file.  Nobody closes the database.
Throws(i) ==
  /\ pc' = [pc EXCEPT ![i] = "idle"]
  /\ op' = [op EXCEPT ![i] = "none"]
  /\ threw' = [threw EXCEPT ![i] = TRUE]
  /\ reader' = [reader EXCEPT ![i] = 0]
  /\ UNCHANGED <<named, shown, tree, tagsFile, stuck>>

\* The char* that Execute throws: no handler of the plug-in sees it, so the
\* tags file stays open as well.
Escapes(i) ==
  /\ pc' = [pc EXCEPT ![i] = "idle"]
  /\ op' = [op EXCEPT ![i] = "none"]
  /\ threw' = [threw EXCEPT ![i] = TRUE]
  /\ reader' = [reader EXCEPT ![i] = 0]
  /\ stuck' = [stuck EXCEPT ![i] = @ \/ reader[i] # 0]
  /\ UNCHANGED <<named, shown, tree, tagsFile>>

-----------------------------------------------------------------------------
(***************************************************************************)
(* The start and the end of an instance.                                   *)
(***************************************************************************)
\* UpdateTagsTree with the tree in state v, up to its try block: the nodes
\* go, and there is a database to read or there is not.
EnterTree(i, isNamed) ==
  /\ tree' = [tree EXCEPT ![i] = FALSE]
  /\ pc' = [pc EXCEPT ![i] = IF isNamed THEN "open" ELSE "idle"]
  /\ op' = [op EXCEPT ![i] = IF isNamed THEN "tree" ELSE "none"]

\* NPPN_READY, with the option Show set or not.
Start(i) ==
  /\ pc[i] = "off"
  /\ \/ /\ shown' = [shown EXCEPT ![i] = TRUE]
        /\ named' = [named EXCEPT ![i] = file.present]
        /\ EnterTree(i, file.present)
     \/ /\ pc' = [pc EXCEPT ![i] = "idle"]
        /\ UNCHANGED <<op, named, shown, tree>>
  /\ UNCHANGED <<sqliteVars, tagVars, threw>>

\* The process is gone, and its handles with it.
Gone(i) ==
  /\ CloseConn(i)
  /\ pc' = [pc EXCEPT ![i] = "off"]
  /\ op' = [op EXCEPT ![i] = "none"]
  /\ named' = [named EXCEPT ![i] = FALSE]
  /\ shown' = [shown EXCEPT ![i] = FALSE]
  /\ tree' = [tree EXCEPT ![i] = FALSE]
  /\ reader' = [reader EXCEPT ![i] = 0]
  /\ stuck' = [stuck EXCEPT ![i] = FALSE]
  /\ threw' = [threw EXCEPT ![i] = FALSE]

\* DLL_PROCESS_DETACH: the destructor of g_DB closes the connection.
Quit(i) ==
  /\ pc[i] = "idle"
  /\ Gone(i)
  /\ UNCHANGED tagsFile

\* The ctags it has started outlives it.
Crash(i) ==
  /\ "crash" \in Faults
  /\ pc[i] # "off"
  /\ Gone(i)
  /\ IF pc[i] = "writing" THEN tagsFile' \in TagFiles ELSE UNCHANGED tagsFile

-----------------------------------------------------------------------------
(***************************************************************************)
(* The user and the editor start an operation.                             *)
(***************************************************************************)
\* NPPN_BUFFERACTIVATED, UpdateFilename: the first time it finds the
\* database it also fills the tree.
BufferActivated(i) ==
  /\ pc[i] = "idle"
  /\ ~named[i] /\ file.present
  /\ named' = [named EXCEPT ![i] = TRUE]
  /\ IF shown[i] THEN EnterTree(i, TRUE) ELSE UNCHANGED <<pc, op, tree>>
  /\ UNCHANGED <<sqliteVars, tagVars, shown, threw>>

\* The menu entry "Show Tags Tree".
TagsTree(i) ==
  /\ pc[i] = "idle"
  /\ shown' = [shown EXCEPT ![i] = ~@]
  /\ IF shown[i] THEN UNCHANGED <<pc, op, tree>> ELSE EnterTree(i, named[i])
  /\ UNCHANGED <<sqliteVars, tagVars, named, threw>>

\* The menu entry "Jump to Tag".  That a database is named is all it asks.
JumpToTag(i) ==
  /\ pc[i] = "idle"
  /\ named[i]
  /\ pc' = [pc EXCEPT ![i] = "open"]
  /\ op' = [op EXCEPT ![i] = "lookup"]
  /\ UNCHANGED <<sqliteVars, tagVars, named, shown, tree, threw>>

\* TVN_ITEMEXPANDING, TreeBuilder::Expand: a handle that is there already
\* is borrowed, and not closed afterwards.
Expand(i) ==
  /\ pc[i] = "idle"
  /\ shown[i] /\ tree[i]
  /\ IF conn[i] = "null"
     THEN /\ pc' = [pc EXCEPT ![i] = "open"]
          /\ op' = [op EXCEPT ![i] = "expand"]
     ELSE /\ pc' = [pc EXCEPT ![i] = "query"]
          /\ op' = [op EXCEPT ![i] = "borrow"]
  /\ UNCHANGED <<sqliteVars, tagVars, named, shown, tree, threw>>

\* The menu entry "Generate tags database", up to the run of ctags.
Generate(i) ==
  /\ pc[i] = "idle"
  /\ named' = [named EXCEPT ![i] = TRUE]
  /\ \/ /\ ~OverwriteTags /\ tagsFile # NoTags
        /\ pc' = [pc EXCEPT ![i] = "import"]
        /\ op' = [op EXCEPT ![i] = "generate"]
        /\ UNCHANGED threw
     \/ /\ OverwriteTags \/ tagsFile = NoTags
        /\ pc' = [pc EXCEPT ![i] = "ctags"]
        /\ op' = [op EXCEPT ![i] = "generate"]
        /\ UNCHANGED threw
     \/ /\ OverwriteTags \/ tagsFile = NoTags
        /\ "spawn" \in Faults                      \* CreateProcess fails
        /\ threw' = [threw EXCEPT ![i] = TRUE]
        /\ UNCHANGED <<pc, op>>
  /\ UNCHANGED <<sqliteVars, tagVars, shown, tree>>

-----------------------------------------------------------------------------
(***************************************************************************)
(* GenerateTagsFile: ctags.  The plug-in waits for it without a time limit *)
(* and does not look at its exit code.                                     *)
(***************************************************************************)
CtagsOpens(i) ==
  /\ pc[i] = "ctags"
  /\ tagsFile' = <<>>
  /\ pc' = [pc EXCEPT ![i] = "writing"]
  /\ UNCHANGED <<sqliteVars, uiVars, reader, stuck>>

CtagsEnds(i) ==
  /\ pc[i] = "writing"
  /\ tagsFile' \in TagFiles
  /\ pc' = [pc EXCEPT ![i] = "import"]
  /\ UNCHANGED <<sqliteVars, uiVars, reader, stuck>>

CtagsFails(i) ==
  /\ "ctags" \in Faults
  /\ \/ /\ pc[i] = "ctags"
        /\ UNCHANGED tagsFile
     \/ /\ pc[i] = "writing"
        /\ \E s \in TagFiles : \E k \in 0..Len(s) : tagsFile' = SubSeq(s, 1, k)
  /\ pc' = [pc EXCEPT ![i] = "import"]
  /\ UNCHANGED <<sqliteVars, uiVars, reader, stuck>>

\* Variant: nobody looks at what tagsOpen returns.
OpenTagsFileUnchecked(i) ==
  /\ pc[i] = "import"
  /\ reader' = [reader EXCEPT ![i] = 1]
  /\ pc' = [pc EXCEPT ![i] = "delete"]
  /\ UNCHANGED <<sqliteVars, uiVars, tagsFile, stuck>>

\* ImportTags, tagsOpen.
OpenTagsFile(i) ==
  /\ pc[i] = "import"
  /\ \/ /\ tagsFile # NoTags
        /\ reader' = [reader EXCEPT ![i] = 1]
        /\ pc' = [pc EXCEPT ![i] = "delete"]
        /\ UNCHANGED op
     \/ /\ tagsFile = NoTags \/ "tagsfile" \in Faults
        /\ pc' = [pc EXCEPT ![i] = "idle"]
        /\ op' = [op EXCEPT ![i] = "none"]
        /\ UNCHANGED reader
  /\ UNCHANGED <<sqliteVars, named, shown, tree, threw, tagsFile, stuck>>

\* ImportTags, SqliteDatabase::Delete: no file is no error.
DeleteOld(i) ==
  /\ pc[i] = "delete"
  /\ \/ /\ CanDelete
        /\ DeleteFile
        /\ Goto(i, "open")
     \/ /\ ~CanDelete \/ "delete" \in Faults
        /\ Throws(i)
        /\ UNCHANGED sqliteVars

-----------------------------------------------------------------------------
(***************************************************************************)
(* TagsDatabase::Open.                                                     *)
(***************************************************************************)
\* What follows an Open that found the version of the plug-in, ...
AfterOpen(i) == IF op[i] = "generate" THEN "prepare" ELSE "query"

\* ... and one that made the tables: the connection has their schema in
\* memory, so that preparing a statement does not touch the file.
AfterInit(i) == IF op[i] = "generate" THEN "begin" ELSE "query"

Open(i) ==
  /\ pc[i] = "open"
  /\ \/ /\ conn[i] # "null"              \* "Database already opened!"
        /\ Throws(i)
        /\ UNCHANGED sqliteVars
     \/ /\ conn[i] = "null"
        /\ OpenFile(i)
        /\ Goto(i, "version")
     \/ /\ conn[i] = "null"
        /\ "open" \in Faults
        /\ OpenFileFails(i)
        /\ Throws(i)

\* Variant: a busy handler that retries for ever.
GetUserVersionWaits(i) ==
  /\ pc[i] = "version"
  /\ CanShare(i)
  /\ StartRead(i)
  /\ Goto(i, "versionRead")

\* GetUserVersion: the step that reads the version ...
GetUserVersion(i) ==
  /\ pc[i] = "version"
  /\ \/ /\ CanShare(i)
        /\ StartRead(i)
        /\ Goto(i, "versionRead")
     \/ /\ ~CanShare(i) \/ "read" \in Faults
        /\ Throws(i)
        /\ UNCHANGED sqliteVars

\* ... the end of its statement, and what Open makes of the version.
CheckVersion(i) ==
  /\ pc[i] = "versionRead"
  /\ EndRead(i)
  /\ \/ file.version = DbVersion /\ Goto(i, AfterOpen(i))
     \/ file.version = 0 /\ Goto(i, "init")
     \/ file.version \notin {0, DbVersion} /\ Throws(i)

\* Variant: Init drops the tables it finds, by a version that was read before.
CreateTablesAfresh(i) ==
  /\ pc[i] = "init"
  /\ CanShare(i) /\ CanReserve(i)
  /\ txn' = [txn EXCEPT ![i] = TRUE]
  /\ lock' = [lock EXCEPT ![i] = "reserved"]
  /\ draft' = [draft EXCEPT ![i] = [file EXCEPT !.schema = TRUE, !.rows = NoRows]]
  /\ Goto(i, "initCommit")
  /\ UNCHANGED <<file, conn>>

\* Init: BEGIN and the six CREATE statements.
CreateTables(i) ==
  /\ pc[i] = "init"
  /\ CanShare(i) /\ CanReserve(i)
  /\ ~file.schema
  /\ txn' = [txn EXCEPT ![i] = TRUE]
  /\ lock' = [lock EXCEPT ![i] = "reserved"]
  /\ draft' = [draft EXCEPT ![i] = [file EXCEPT !.schema = TRUE]]
  /\ Goto(i, "initCommit")
  /\ UNCHANGED <<file, conn>>

\* Locked, the tables are there already, or the disk fails.
CreateTablesFails(i) ==
  /\ pc[i] = "init"
  /\ \/ /\ ~CanShare(i) \/ ~CanReserve(i) \/ file.schema
        /\ Begin(i)
     \/ /\ "write" \in Faults
        /\ AutoRollback(i)
  /\ Escapes(i)

\* Variant: nobody looks at what COMMIT returns.
InitCommitUnchecked(i) ==
  /\ pc[i] = "initCommit"
  /\ IF CanExclude(i) THEN Commit(i) ELSE CommitBusy(i)
  /\ Goto(i, "setVersion")

InitCommit(i) ==
  /\ pc[i] = "initCommit"
  /\ \/ /\ CanExclude(i)
        /\ Commit(i)
        /\ Goto(i, "setVersion")
     \/ /\ ~CanExclude(i)
        /\ CommitBusy(i)
        /\ Escapes(i)
     \/ /\ "commit" \in Faults
        /\ AutoRollback(i)
        /\ Escapes(i)

\* PRAGMA user_version = 1, a transaction of its own.
SetUserVersion(i) ==
  /\ pc[i] = "setVersion"
  /\ \/ /\ CanExclude(i)
        /\ file' = [file EXCEPT !.version = DbVersion]
        /\ Goto(i, AfterInit(i))
     \/ /\ ~CanExclude(i) \/ "write" \in Faults
        /\ Escapes(i)
        /\ UNCHANGED file
  /\ UNCHANGED <<conn, lock, txn, draft>>

-----------------------------------------------------------------------------
(***************************************************************************)
(* ImportTags, the rest.                                                   *)
(***************************************************************************)
\* Prepare the INSERT, which reads the schema of a database this connection
\* has not made itself, and BEGIN.
PrepareInsert(i) ==
  /\ pc[i] = "prepare"
  /\ \/ /\ CanShare(i) /\ file.schema
        /\ Begin(i)
        /\ Goto(i, "insert")
     \/ /\ ~CanShare(i) \/ ~file.schema \/ "read" \in Faults
        /\ Throws(i)
        /\ UNCHANGED sqliteVars

BeginInsert(i) ==
  /\ pc[i] = "begin"
  /\ Begin(i)
  /\ Goto(i, "insert")

\* tagsNext does not succeed: the end of the file, or a line it gives up on.
AtEnd(i) ==
  IF reader[i] > Len(tagsFile) THEN TRUE ELSE tagsFile[reader[i]] \in Malformed

\* The lock a write leaves the connection with: SQLite may have to spill
\* its cache, which needs the file for itself.
LockAfterWrite(i) ==
  LET held == IF lock[i] = "none" THEN "reserved" ELSE lock[i] IN
  IF CanExclude(i) THEN {held, "exclusive"} ELSE {held, "pending"}

SkipTag(i) ==
  /\ pc[i] = "insert"
  /\ ~AtEnd(i) /\ tagsFile[reader[i]] \in Skipped
  /\ reader' = [reader EXCEPT ![i] = @ + 1]
  /\ UNCHANGED <<sqliteVars, uiVars, pc, tagsFile, stuck>>

SaveToDB(i) ==
  /\ pc[i] = "insert"
  /\ ~AtEnd(i) /\ tagsFile[reader[i]] \notin Skipped
  /\ \/ /\ lock[i] # "none" \/ (CanShare(i) /\ CanReserve(i))
        /\ \E l \in LockAfterWrite(i) :
             Write(i, [View(i) EXCEPT !.rows[tagsFile[reader[i]]] = @ + 1], l)
        /\ reader' = [reader EXCEPT ![i] = @ + 1]
        /\ UNCHANGED <<uiVars, pc, tagsFile, stuck>>
     \/ /\ lock[i] = "none" /\ ~(CanShare(i) /\ CanReserve(i))
        /\ Throws(i)
        /\ UNCHANGED sqliteVars
     \/ /\ "write" \in Faults
        /\ AutoRollback(i)
        /\ Throws(i)

EndOfTags(i) ==
  /\ pc[i] = "insert"
  /\ AtEnd(i)
  /\ Goto(i, "commit")
  /\ UNCHANGED sqliteVars

ImportCommit(i) ==
  /\ pc[i] = "commit"
  /\ \/ /\ lock[i] = "none" \/ CanExclude(i)
        /\ Commit(i)
        /\ Goto(i, "finish")
     \/ /\ lock[i] # "none" /\ ~CanExclude(i)
        /\ CommitBusy(i)
        /\ Escapes(i)
     \/ /\ lock[i] # "none" /\ "commit" \in Faults
        /\ AutoRollback(i)
        /\ Escapes(i)

\* Nobody but i has the tags file open, so DeleteFileA works.
CanDeleteTags(i) ==
  /\ ~stuck[i]
  /\ \A j \in Others(i) : reader[j] = 0 /\ ~stuck[j] /\ pc[j] # "writing"

\* The end of ImportTags: Close ...
Finish(i) ==
  /\ pc[i] = "finish"
  /\ CloseConn(i)
  /\ Goto(i, "closeTags")

\* ... and tagsClose.
CloseTagsFile(i) ==
  /\ pc[i] = "closeTags"
  /\ reader' = [reader EXCEPT ![i] = 0]
  /\ pc' = [pc EXCEPT ![i] = "deleteTags"]
  /\ UNCHANGED <<sqliteVars, uiVars, tagsFile, stuck>>

\* The end of Generate: delete the tags file as far as Windows lets it, and
\* update the tree.
DeleteTagsFile(i) ==
  /\ pc[i] = "deleteTags"
  /\ tagsFile' = IF DeleteTags /\ CanDeleteTags(i) THEN NoTags ELSE tagsFile
  /\ IF shown[i]
     THEN EnterTree(i, TRUE)
     ELSE /\ pc' = [pc EXCEPT ![i] = "idle"]
          /\ op' = [op EXCEPT ![i] = "none"]
          /\ UNCHANGED tree
  /\ UNCHANGED <<sqliteVars, named, shown, reader, stuck, threw>>

-----------------------------------------------------------------------------
(***************************************************************************)
(* Reading: FindTagInDB, UpdateTagsTree, TreeBuilder::Expand.              *)
(***************************************************************************)
\* Prepare the SELECT and take its first step.  With a row in the table the
\* tree now has a node for its language.
Query(i) ==
  /\ pc[i] = "query"
  /\ \/ /\ conn[i] = "open"
        /\ CanRead(i) /\ View(i).schema
        /\ StartRead(i)
        /\ pc' = [pc EXCEPT ![i] = "scan"]
        /\ tree' = [tree EXCEPT ![i] =
                      @ \/ (op[i] = "tree" /\ View(i).rows # NoRows)]
        /\ UNCHANGED <<op, named, shown, threw, tagVars>>
     \/ /\ \/ conn[i] = "sick"
           \/ ~CanRead(i)
           \/ ~View(i).schema
           \/ "read" \in Faults
        /\ Throws(i)
        /\ UNCHANGED sqliteVars

\* The other rows, Finalize, and Close unless the handle is borrowed.
Scan(i) ==
  /\ pc[i] = "scan"
  /\ \/ /\ IF op[i] = "borrow" THEN EndRead(i) ELSE CloseConn(i)
        /\ Done(i)
     \/ /\ "read" \in Faults
        /\ EndRead(i)
        /\ Throws(i)

-----------------------------------------------------------------------------
\* What an instance does by itself once an operation has begun.
Step(i) ==
  \/ CtagsOpens(i) \/ CtagsEnds(i) \/ CtagsFails(i)
  \/ OpenTagsFile(i) \/ DeleteOld(i)
  \/ Open(i) \/ GetUserVersion(i) \/ CheckVersion(i)
  \/ CreateTables(i) \/ CreateTablesFails(i) \/ InitCommit(i)
  \/ SetUserVersion(i)
  \/ PrepareInsert(i) \/ BeginInsert(i)
  \/ SkipTag(i) \/ SaveToDB(i) \/ EndOfTags(i) \/ ImportCommit(i)
  \/ Finish(i) \/ CloseTagsFile(i) \/ DeleteTagsFile(i)
  \/ Query(i) \/ Scan(i)

\* What the user, the editor and the operating system do.
Event(i) ==
  \/ Start(i) \/ Quit(i) \/ Crash(i)
  \/ BufferActivated(i) \/ TagsTree(i)
  \/ JumpToTag(i) \/ Expand(i) \/ Generate(i)

Next == \E i \in Instances : Step(i) \/ Event(i)

Spec == Init /\ [][Next]_vars

\* The thread that runs an operation is never blocked by the plug-in, and
\* ctags is assumed to end.
Fairness == \A i \in Instances : WF_vars(Step(i))

FairSpec == Spec /\ Fairness
-----------------------------------------------------------------------------
(***************************************************************************)
(* Safety                                                                  *)
(***************************************************************************)
\* Open trusts the version number alone (TagsDatabase.cpp:155): a database
\* with the version of the plug-in has its tables, although Init commits
\* the tables and the version in two transactions.
VersionImpliesSchema ==
  file.present /\ file.version = DbVersion => file.schema

\* One transaction around the import: wherever it is cut off, what reaches
\* the disk is everything the tags file offers or nothing of it.
ImportIsWhole ==
  [][file'.present /\ file'.rows # file.rows
       => file'.rows = Accepted(tagsFile)]_vars

\* A connection is left open only by an operation that failed: every other
\* operation closes what it opens (Open and Close are paired by hand).
LeakNeedsFailure ==
  \A i \in Instances : pc[i] = "idle" /\ conn[i] # "null" => threw[i]

\* The temporary tags file goes only after the database on disk has what the
\* import could read of it, whatever failed on the way: nothing at all is
\* lost of a file whose lines can all be read.  Behind a line that cannot be
\* read the tags go with the file: ImportLosesNothing, below, is about those.
TagsFileOutlivesImport ==
  [][tagsFile # NoTags /\ tagsFile' = NoTags =>
       /\ file.rows = Accepted(tagsFile)
       /\ (\A k \in DOMAIN tagsFile : tagsFile[k] \notin Malformed)
            => file.rows = Wanted(tagsFile)]_vars

\* The old database goes only when there is a tags file to replace it: a
\* run of ctags that produced nothing leaves the old database in place.
OldOutlivesCtags ==
  [][file.present /\ ~file'.present => tagsFile # NoTags]_vars

\* A lookup or a tree reads one state of the database: nobody changes the
\* file between its first row and its last.
ScanSeesOneState ==
  [][\A i \in Instances : pc[i] = "scan" => file' = file]_vars

\* What a step of an operation that only reads leaves as it is.
ReadersStep ==
  \A i \in Instances : op[i] # "generate" /\ pc'[i] # pc[i] /\ file.present
                         => file'.present /\ file'.rows = file.rows

\* A lookup or a tree opens the database by a name that may be stale, and by
\* a version that may be: it can make a database where there was none, but
\* it never deletes one, and takes no row from it and adds none, whatever
\* another instance has made of the file since it was looked at.
ReadersKeepRows == [][ReadersStep]_vars

\* The file keeps the promises of DatabaseFile.
DBF == INSTANCE DatabaseFile WITH Tags <- Tags, file <- file
FileKeepsPromises == DBF!Spec

-----------------------------------------------------------------------------
(***************************************************************************)
(* Liveness                                                                *)
(***************************************************************************)
\* No operation hangs: it ends, for better or worse, whatever locks the
\* other instances hold and never give back.
OperationsEnd ==
  \A i \in Instances : pc[i] \notin {"off", "idle"} ~> pc[i] \in {"off", "idle"}

-----------------------------------------------------------------------------
(***************************************************************************)
(* What the source says of itself, and the code does not keep.             *)
(***************************************************************************)
\* "Database has wrong version, please regenerate!" (TagsDatabase.cpp:167):
\* with one instance and no fault at all, regenerating gets past Delete.
RegenerateWorks ==
  \A i \in Instances : pc[i] = "delete" => CanDelete

\* "First delete the old database (if any)", "Create the new database"
\* (TagsDatabase.cpp:371, 374): an import starts with an empty table.
ImportStartsEmpty ==
  \A i \in Instances : pc[i] \in {"prepare", "begin"} => file.rows = NoRows

\* The tags file "is converted to a SQLite database directly after that"
\* (docs/how-to-use.rst:8): an import that reports success has stored every
\* entry there is something to search for in.
ImportLosesNothing ==
  \A i \in Instances : pc[i] = "finish" =>
    \A k \in DOMAIN tagsFile :
      tagsFile[k] \notin Skipped \cup Malformed => file.rows[tagsFile[k]] > 0
=============================================================================
