------------------------- MODULE TagsDatabase_proof -------------------------
(***************************************************************************)
(* Proofs about TagsDatabase, for any set of instances, any tags, any tags *)
(* files and any combination of faults.                                    *)
(***************************************************************************)
EXTENDS TagsDatabase, FiniteSetTheorems, SequenceTheorems, TLAPS

\* The count of the entries of a tags file is a possible content of the
\* table (TagsDatabase.cpp:385-400).
LEMMA AcceptedType ==
  ASSUME NEW s \in Seq(Tags)
  PROVE  Accepted(s) \in [Tags -> Nat]
<1> SUFFICES ASSUME NEW t \in Tags
             PROVE  Cardinality({k \in DOMAIN s : s[k] = t /\ Stored(s, k)}) \in Nat
  BY DEF Accepted
<1> DEFINE K == {k \in DOMAIN s : s[k] = t /\ Stored(s, k)}
<1>1. DOMAIN s = 1..Len(s) /\ Len(s) \in Nat
  OBVIOUS
<1>2. IsFiniteSet(1..Len(s))
  BY <1>1, FS_Interval
<1>3. K \in SUBSET (1..Len(s))
  BY <1>1
<1>4. IsFiniteSet(K)
  <2> HIDE DEF K
  <2> QED BY <1>2, <1>3, FS_Subset
<1> QED
  <2> HIDE DEF K
  <2>1. Cardinality(K) \in Nat
    BY <1>4, FS_CardinalityType
  <2> QED BY <2>1 DEF K

\* A partial run of ctags still leaves a sequence of tags.
LEMMA PrefixType ==
  ASSUME NEW s \in Seq(Tags), NEW k \in 0..Len(s)
  PROVE  SubSeq(s, 1, k) \in Seq(Tags)
BY SubSeqProperties

-----------------------------------------------------------------------------
\* The constants of SqliteDB are contents of the file.
LEMMA ContentType ==
  /\ Absent \in Content
  /\ Blank \in Content
  /\ \A rows \in [Tags -> Nat] :
       /\ Database(OtherVersion, rows) \in Content
       /\ Database(DbVersion, rows) \in Content
BY DEF Absent, Blank, Content, Database, NoRows, DbVersion, OtherVersion

\* What the calls into SQLite leave behind is well typed.
LEMMA SqliteTypes ==
  ASSUME SqliteTypeOK, NEW i \in Instances
  PROVE  /\ UNCHANGED sqliteVars => SqliteTypeOK'
         /\ OpenFile(i) => SqliteTypeOK'
         /\ OpenFileFails(i) => SqliteTypeOK'
         /\ CloseConn(i) => SqliteTypeOK'
         /\ DeleteFile => SqliteTypeOK'
         /\ Begin(i) => SqliteTypeOK'
         /\ \A c \in Content, l \in Locks : Write(i, c, l) => SqliteTypeOK'
         /\ Commit(i) => SqliteTypeOK'
         /\ CommitBusy(i) => SqliteTypeOK'
         /\ AutoRollback(i) => SqliteTypeOK'
         /\ StartRead(i) => SqliteTypeOK'
         /\ EndRead(i) => SqliteTypeOK'
<1> USE DEF SqliteTypeOK
<1>1. UNCHANGED sqliteVars => SqliteTypeOK'
  BY DEF sqliteVars
<1>2. OpenFile(i) => SqliteTypeOK'
  BY ContentType DEF OpenFile, Conns
<1>3. OpenFileFails(i) => SqliteTypeOK'
  BY DEF OpenFileFails, Conns
<1>4. CloseConn(i) => SqliteTypeOK'
  BY ContentType DEF CloseConn, Conns, Locks
<1>5. DeleteFile => SqliteTypeOK'
  BY ContentType DEF DeleteFile
<1>6. Begin(i) => SqliteTypeOK'
  BY DEF Begin
<1>7. ASSUME NEW c \in Content, NEW l \in Locks, Write(i, c, l)
      PROVE  SqliteTypeOK'
  BY <1>7 DEF Write
<1>8. Commit(i) => SqliteTypeOK'
  BY ContentType DEF Commit, View, Locks
<1>9. CommitBusy(i) => SqliteTypeOK'
  BY DEF CommitBusy, Locks, WriteLocks
<1>10. AutoRollback(i) => SqliteTypeOK'
  BY ContentType DEF AutoRollback, Locks
<1>11. StartRead(i) => SqliteTypeOK'
  BY DEF StartRead, Locks
<1>12. EndRead(i) => SqliteTypeOK'
  BY DEF EndRead, Locks
<1> QED
  BY <1>1, <1>2, <1>3, <1>4, <1>5, <1>6, <1>7, <1>8, <1>9, <1>10, <1>11, <1>12

\* The part of TypeOK that is the plug-in's own state.
PlugTypeOK ==
  /\ tagsFile \in {NoTags} \cup Seq(Tags)
  /\ pc \in [Instances -> Pcs]
  /\ op \in [Instances -> Ops]
  /\ named \in [Instances -> BOOLEAN]
  /\ shown \in [Instances -> BOOLEAN]
  /\ tree \in [Instances -> BOOLEAN]
  /\ reader \in [Instances -> Nat]
  /\ stuck \in [Instances -> BOOLEAN]
  /\ threw \in [Instances -> BOOLEAN]

\* So are the ways a step hands on control.
LEMMA ControlTypes ==
  ASSUME PlugTypeOK, NEW i \in Instances
  PROVE  /\ \A l \in Pcs : Goto(i, l) => PlugTypeOK'
         /\ Done(i) => PlugTypeOK'
         /\ Throws(i) => PlugTypeOK'
         /\ Escapes(i) => PlugTypeOK'
<1> USE DEF PlugTypeOK
<1>1. ASSUME NEW l \in Pcs, Goto(i, l)
      PROVE  PlugTypeOK'
  BY <1>1 DEF Goto, uiVars, tagVars
<1>2. Done(i) => PlugTypeOK'
  BY DEF Done, tagVars, Pcs, Ops
<1>3. Throws(i) => PlugTypeOK'
  BY DEF Throws, Pcs, Ops
<1>4. Escapes(i) => PlugTypeOK'
  BY DEF Escapes, Pcs, Ops
<1> QED
  BY <1>1, <1>2, <1>3, <1>4

\* Every state the program can start in is well typed.
LEMMA TypeInit == Init => SqliteTypeOK /\ PlugTypeOK
<1> SUFFICES ASSUME Init PROVE SqliteTypeOK /\ PlugTypeOK
  OBVIOUS
<1>1. file \in Content
  <2>1. NoRows \in [Tags -> Nat]
    BY DEF NoRows
  <2>2. \A s \in TagFiles : Accepted(s) \in [Tags -> Nat]
    BY AcceptedType, TagsAssumption
  <2> QED BY <2>1, <2>2, ContentType DEF Init
<1>2. tagsFile \in {NoTags} \cup Seq(Tags)
  BY TagsAssumption DEF Init
<1> QED
  BY <1>1, <1>2, ContentType
  DEF Init, SqliteTypeOK, PlugTypeOK, Conns, Locks, Pcs, Ops

\* A write of one row leaves a content of the file.
LEMMA RowType ==
  ASSUME NEW c \in Content, NEW t
  PROVE  [c EXCEPT !.rows[t] = @ + 1] \in Content
BY DEF Content

\* A step of an operation keeps the types.
LEMMA TypeStep ==
  ASSUME SqliteTypeOK, PlugTypeOK, NEW i \in Instances, Step(i)
  PROVE  SqliteTypeOK' /\ PlugTypeOK'
<1>1. CASE CtagsOpens(i)
  <2>1. PlugTypeOK'
    BY <1>1 DEF CtagsOpens, PlugTypeOK, uiVars, Pcs
  <2> QED BY <1>1, <2>1, SqliteTypes DEF CtagsOpens
<1>2. CASE CtagsEnds(i)
  <2>1. PlugTypeOK'
    BY <1>2, TagsAssumption DEF CtagsEnds, PlugTypeOK, uiVars, Pcs
  <2> QED BY <1>2, <2>1, SqliteTypes DEF CtagsEnds
<1>3. CASE CtagsFails(i)
  <2>1. tagsFile' \in {NoTags} \cup Seq(Tags)
    BY <1>3, PrefixType, TagsAssumption DEF CtagsFails, PlugTypeOK
  <2>2. PlugTypeOK'
    BY <1>3, <2>1 DEF CtagsFails, PlugTypeOK, uiVars, Pcs
  <2> QED BY <1>3, <2>2, SqliteTypes DEF CtagsFails
<1>4. CASE OpenTagsFile(i)
  <2>1. PlugTypeOK'
    <3>1. CASE /\ reader' = [reader EXCEPT ![i] = 1]
               /\ pc' = [pc EXCEPT ![i] = "delete"]
               /\ UNCHANGED op
      BY <1>4, <3>1 DEF OpenTagsFile, PlugTypeOK, Pcs
    <3>2. CASE /\ pc' = [pc EXCEPT ![i] = "idle"]
               /\ op' = [op EXCEPT ![i] = "none"]
               /\ UNCHANGED reader
      BY <1>4, <3>2 DEF OpenTagsFile, PlugTypeOK, Pcs, Ops
    <3> QED BY <1>4, <3>1, <3>2 DEF OpenTagsFile
  <2> QED BY <1>4, <2>1, SqliteTypes DEF OpenTagsFile
<1>5. CASE DeleteOld(i)
  BY <1>5, SqliteTypes, ControlTypes DEF DeleteOld, Pcs
<1>6. CASE Open(i)
  BY <1>6, SqliteTypes, ControlTypes DEF Open, Pcs
<1>7. CASE GetUserVersion(i)
  BY <1>7, SqliteTypes, ControlTypes DEF GetUserVersion, Pcs
<1>7a. CASE CheckVersion(i)
  <2>1. SqliteTypeOK'
    BY <1>7a, SqliteTypes DEF CheckVersion
  <2>2. PlugTypeOK'
    BY <1>7a, ControlTypes DEF CheckVersion, AfterOpen, Pcs
  <2> QED BY <2>1, <2>2
<1>8. CASE CreateTables(i)
  <2>1. [file EXCEPT !.schema = TRUE] \in Content
    BY DEF Content, SqliteTypeOK
  <2>2. SqliteTypeOK'
    BY <1>8, <2>1 DEF CreateTables, SqliteTypeOK, Locks, WriteLocks
  <2> QED BY <1>8, <2>2, ControlTypes DEF CreateTables, Pcs
<1>9. CASE CreateTablesFails(i)
  BY <1>9, SqliteTypes, ControlTypes DEF CreateTablesFails
<1>10. CASE InitCommit(i)
  BY <1>10, SqliteTypes, ControlTypes DEF InitCommit, Pcs
<1>11. CASE SetUserVersion(i)
  <2>1. [file EXCEPT !.version = DbVersion] \in Content
    BY DEF Content, SqliteTypeOK
  <2>2. SqliteTypeOK'
    BY <1>11, <2>1 DEF SetUserVersion, SqliteTypeOK
  <2> QED BY <1>11, <2>2, ControlTypes DEF SetUserVersion, AfterInit, Pcs
<1>12. CASE PrepareInsert(i)
  BY <1>12, SqliteTypes, ControlTypes DEF PrepareInsert, Pcs
<1>12a. CASE BeginInsert(i)
  BY <1>12a, SqliteTypes, ControlTypes DEF BeginInsert, Pcs
<1>13. CASE SkipTag(i)
  <2>1. PlugTypeOK'
    BY <1>13 DEF SkipTag, PlugTypeOK, uiVars
  <2> QED BY <1>13, <2>1, SqliteTypes DEF SkipTag
<1>14. CASE SaveToDB(i)
  <2> DEFINE row == [View(i) EXCEPT !.rows[tagsFile[reader[i]]] = @ + 1]
  <2>1. View(i) \in Content
    BY DEF View, SqliteTypeOK
  <2>2. LockAfterWrite(i) \subseteq Locks
    BY DEF LockAfterWrite, Locks, WriteLocks, SqliteTypeOK
  <2>3. row \in Content
    BY <2>1, RowType
  <2>4. CASE /\ \E l \in LockAfterWrite(i) : Write(i, row, l)
             /\ reader' = [reader EXCEPT ![i] = @ + 1]
             /\ UNCHANGED <<uiVars, pc, tagsFile, stuck>>
    <3>1. SqliteTypeOK'
      <4> HIDE DEF row
      <4> QED BY <2>2, <2>3, <2>4, SqliteTypes
    <3>2. PlugTypeOK'
      BY <2>4 DEF PlugTypeOK, uiVars
    <3> QED BY <3>1, <3>2
  <2>5. CASE Throws(i) /\ (UNCHANGED sqliteVars \/ AutoRollback(i))
    BY <2>5, SqliteTypes, ControlTypes
  <2> QED BY <1>14, <2>4, <2>5 DEF SaveToDB
<1>15. CASE EndOfTags(i)
  BY <1>15, SqliteTypes, ControlTypes DEF EndOfTags, Pcs
<1>16. CASE ImportCommit(i)
  BY <1>16, SqliteTypes, ControlTypes DEF ImportCommit, Pcs
<1>17. CASE Finish(i)
  BY <1>17, SqliteTypes, ControlTypes DEF Finish, Pcs
<1>17a. CASE CloseTagsFile(i)
  <2>1. PlugTypeOK'
    BY <1>17a DEF CloseTagsFile, PlugTypeOK, uiVars, Pcs
  <2> QED BY <1>17a, <2>1, SqliteTypes DEF CloseTagsFile
<1>17b. CASE DeleteTagsFile(i)
  <2>1. PlugTypeOK'
    BY <1>17b DEF DeleteTagsFile, EnterTree, PlugTypeOK, Pcs, Ops
  <2> QED BY <1>17b, <2>1, SqliteTypes DEF DeleteTagsFile
<1>18. CASE Query(i)
  <2>1. CASE Throws(i) /\ UNCHANGED sqliteVars
    BY <2>1, SqliteTypes, ControlTypes
  <2>2. CASE /\ StartRead(i)
             /\ pc' = [pc EXCEPT ![i] = "scan"]
             /\ tree' = [tree EXCEPT ![i] =
                           @ \/ (op[i] = "tree" /\ View(i).rows # NoRows)]
             /\ UNCHANGED <<op, named, shown, threw, tagVars>>
    <3>1. (tree[i] \/ (op[i] = "tree" /\ View(i).rows # NoRows)) \in BOOLEAN
      OBVIOUS
    <3>2. PlugTypeOK'
      BY <2>2, <3>1 DEF PlugTypeOK, tagVars, Pcs
    <3> QED BY <2>2, <3>2, SqliteTypes
  <2> QED BY <1>18, <2>1, <2>2 DEF Query
<1>19. CASE Scan(i)
  BY <1>19, SqliteTypes, ControlTypes DEF Scan
<1> QED
  BY <1>1, <1>2, <1>3, <1>4, <1>5, <1>6, <1>7, <1>8, <1>9, <1>10, <1>11, <1>12,
     <1>12a, <1>13, <1>14, <1>15, <1>16, <1>17, <1>17a, <1>17b, <1>18, <1>19,
     <1>7a DEF Step

\* So does what the user or the system starts or ends.
LEMMA TypeEvent ==
  ASSUME SqliteTypeOK, PlugTypeOK, NEW i \in Instances, Event(i)
  PROVE  SqliteTypeOK' /\ PlugTypeOK'
<1>1. ASSUME Gone(i), tagsFile' \in {NoTags} \cup Seq(Tags)
      PROVE  SqliteTypeOK' /\ PlugTypeOK'
  <2>1. PlugTypeOK'
    BY <1>1 DEF Gone, PlugTypeOK, Pcs, Ops
  <2> QED BY <1>1, <2>1, SqliteTypes DEF Gone
<1>2. CASE Start(i)
  <2>1. file.present \in BOOLEAN
    BY DEF SqliteTypeOK, Content
  <2>2. PlugTypeOK'
    BY <1>2, <2>1 DEF Start, EnterTree, PlugTypeOK, tagVars, Pcs, Ops
  <2> QED BY <1>2, <2>2, SqliteTypes DEF Start
<1>3. CASE Quit(i)
  BY <1>1, <1>3 DEF Quit, PlugTypeOK
<1>4. CASE Crash(i)
  BY <1>1, <1>4, TagsAssumption DEF Crash, PlugTypeOK
<1>5. CASE BufferActivated(i)
  <2>1. PlugTypeOK'
    BY <1>5 DEF BufferActivated, EnterTree, PlugTypeOK, tagVars, Pcs, Ops
  <2> QED BY <1>5, <2>1, SqliteTypes DEF BufferActivated
<1>6. CASE TagsTree(i)
  <2>1. PlugTypeOK'
    BY <1>6 DEF TagsTree, EnterTree, PlugTypeOK, tagVars, Pcs, Ops
  <2> QED BY <1>6, <2>1, SqliteTypes DEF TagsTree
<1>7. CASE JumpToTag(i)
  <2>1. PlugTypeOK'
    BY <1>7 DEF JumpToTag, PlugTypeOK, tagVars, Pcs, Ops
  <2> QED BY <1>7, <2>1, SqliteTypes DEF JumpToTag
<1>8. CASE Expand(i)
  <2>1. PlugTypeOK'
    BY <1>8 DEF Expand, PlugTypeOK, tagVars, Pcs, Ops
  <2> QED BY <1>8, <2>1, SqliteTypes DEF Expand
<1>9. CASE Generate(i)
  <2>1. PlugTypeOK'
    BY <1>9 DEF Generate, PlugTypeOK, tagVars, Pcs, Ops
  <2> QED BY <1>9, <2>1, SqliteTypes DEF Generate
<1> QED
  BY <1>2, <1>3, <1>4, <1>5, <1>6, <1>7, <1>8, <1>9 DEF Event

-----------------------------------------------------------------------------
(***************************************************************************)
(* The inductive invariant.  It ties together what one instance holds, the *)
(* file they share, and where in its operation the instance is.            *)
(***************************************************************************)
\* The tables come before the version, and both need a file.
FileInv ==
  /\ file.schema => file.present
  /\ file.version # 0 => file.schema

\* Whoever has the file open keeps it from being deleted; locks belong to
\* open connections.
ConnInv ==
  \A i \in Instances :
    /\ conn[i] = "open" => file.present
    /\ lock[i] # "none" => conn[i] = "open"

\* What a writer is about to commit: the tables, or rows on top of those in
\* the file.
WriterDraft(i) ==
  \/ /\ file.version = 0 /\ ~file.schema
     /\ draft[i] = [file EXCEPT !.schema = TRUE]
  \/ /\ file.version = DbVersion
     /\ draft[i] = [file EXCEPT !.rows = draft[i].rows]
     /\ \A t \in Tags : draft[i].rows[t] >= file.rows[t]

\* There is one writer, and what it builds on is what the file still holds.
WriterInv ==
  \A i \in Instances : lock[i] \in WriteLocks =>
    /\ WriterDraft(i)
    /\ \A j \in Others(i) : lock[j] \notin WriteLocks

\* The steps that work on an open database, and what each of them relies on.
Connected == {"version", "versionRead", "init", "initCommit", "setVersion",
              "prepare", "begin", "insert", "commit", "scan"}

PcInv ==
  \A i \in Instances :
    /\ pc[i] \in Connected => conn[i] = "open"
    /\ pc[i] \in {"version", "init", "setVersion", "prepare", "begin"}
         => lock[i] = "none"
    /\ pc[i] = "initCommit" => lock[i] \in WriteLocks /\ ~file.schema
    /\ pc[i] = "setVersion" =>
         /\ file.schema /\ file.version = 0
         /\ \A j \in Others(i) : pc[j] # "setVersion"
    /\ pc[i] \in {"prepare", "begin", "insert", "commit"} => file.version = DbVersion
    /\ pc[i] \in {"insert", "commit"} => lock[i] # "shared"
    /\ pc[i] = "versionRead" => lock[i] = "shared"
    /\ pc[i] = "scan" => lock[i] # "none"

\* A connection starts outside any transaction.
TxnInv ==
  \A i \in Instances :
    conn[i] = "null" \/ pc[i] \in {"version", "versionRead"} => ~txn[i]

IInv ==
  /\ SqliteTypeOK /\ PlugTypeOK
  /\ FileInv /\ ConnInv /\ WriterInv /\ PcInv /\ TxnInv

\* The invariant holds at the start, with any finished file.
LEMMA IInvInit == Init => IInv
<1> SUFFICES ASSUME Init PROVE IInv
  OBVIOUS
<1>1. SqliteTypeOK /\ PlugTypeOK
  BY TypeInit
<1>2. FileInv
  BY DEF Init, FileInv, Absent, Database
<1>3. ConnInv /\ WriterInv /\ PcInv /\ TxnInv
  BY DEF Init, ConnInv, WriterInv, WriteLocks, PcInv, Connected, TxnInv
<1> QED BY <1>1, <1>2, <1>3 DEF IInv

\* A step that only moves instance i to a point where it relies on nothing.
LEMMA KeepsAll ==
  ASSUME IInv, NEW i \in Instances, NEW l \in Pcs \ Connected,
         UNCHANGED <<file, conn, lock, draft>>, pc' = [pc EXCEPT ![i] = l]
  PROVE  FileInv' /\ ConnInv' /\ WriterInv' /\ PcInv'
<1> USE DEF IInv
<1>1. FileInv'
  BY DEF FileInv
<1>2. ConnInv'
  BY DEF ConnInv
<1>3. WriterInv'
  BY DEF WriterInv, WriterDraft, Others
<1>4. PcInv'
  BY DEF PcInv, Connected, Others, PlugTypeOK
<1> QED BY <1>1, <1>2, <1>3, <1>4

\* So does one that also makes instance i give up its lock, or its connection.
LEMMA GivesUp ==
  ASSUME IInv, NEW i \in Instances, NEW l \in Pcs \ Connected,
         CloseConn(i) \/ AutoRollback(i), pc' = [pc EXCEPT ![i] = l]
  PROVE  FileInv' /\ ConnInv' /\ WriterInv' /\ PcInv'
<1> USE DEF IInv
<1>1. UNCHANGED file /\ lock' = [lock EXCEPT ![i] = "none"]
      /\ draft' = [draft EXCEPT ![i] = Absent]
  BY DEF CloseConn, AutoRollback
<1>2. \A j \in Others(i) : conn'[j] = conn[j] /\ lock'[j] = lock[j]
                           /\ draft'[j] = draft[j] /\ pc'[j] = pc[j]
  BY <1>1 DEF CloseConn, AutoRollback, Others, SqliteTypeOK, PlugTypeOK
<1>3. lock'[i] = "none" /\ pc'[i] = l
  BY <1>1 DEF SqliteTypeOK, PlugTypeOK
<1>4. conn'[i] = "open" => conn[i] = "open"
  BY DEF CloseConn, AutoRollback, SqliteTypeOK
<1>5. FileInv'
  BY <1>1 DEF FileInv
<1>6. ConnInv'
  BY <1>1, <1>2, <1>3, <1>4 DEF ConnInv, Others
<1>7. WriterInv'
  <2> SUFFICES ASSUME NEW j \in Instances, lock'[j] \in WriteLocks
               PROVE  WriterDraft(j)' /\ \A k \in Others(j) : lock'[k] \notin WriteLocks
    BY DEF WriterInv, Others
  <2>1. j \in Others(i)
    BY <1>3 DEF Others, WriteLocks
  <2>2. WriterDraft(j) /\ \A k \in Others(j) : lock[k] \notin WriteLocks
    BY <1>2, <2>1 DEF WriterInv
  <2>3. WriterDraft(j)'
    BY <1>1, <1>2, <2>1, <2>2 DEF WriterDraft
  <2>4. \A k \in Others(j) : lock'[k] \notin WriteLocks
    BY <1>2, <1>3, <2>2 DEF Others, WriteLocks
  <2> QED BY <2>3, <2>4
<1>8. PcInv'
  BY <1>1, <1>2, <1>3 DEF PcInv, Connected, Others
<1> QED BY <1>5, <1>6, <1>7, <1>8

\* An operation that stops, with what it holds unchanged, ...
LEMMA Stops ==
  ASSUME IInv, NEW i \in Instances, Throws(i) \/ Escapes(i),
         UNCHANGED <<file, conn, lock, draft>>
  PROVE  FileInv' /\ ConnInv' /\ WriterInv' /\ PcInv'
<1>1. pc' = [pc EXCEPT ![i] = "idle"] /\ "idle" \in Pcs \ Connected
  BY DEF Throws, Escapes, Pcs, Connected
<1> QED BY <1>1, KeepsAll

\* ... rolled back by SQLite, ...
LEMMA StopsRolledBack ==
  ASSUME IInv, NEW i \in Instances, Throws(i) \/ Escapes(i), AutoRollback(i)
  PROVE  FileInv' /\ ConnInv' /\ WriterInv' /\ PcInv'
<1>1. pc' = [pc EXCEPT ![i] = "idle"] /\ "idle" \in Pcs \ Connected
  BY DEF Throws, Escapes, Pcs, Connected
<1> QED BY <1>1, GivesUp

\* ... or with its transaction stuck behind a reader.
LEMMA StopsBusy ==
  ASSUME IInv, NEW i \in Instances, Throws(i) \/ Escapes(i), CommitBusy(i),
         lock[i] \in WriteLocks
  PROVE  FileInv' /\ ConnInv' /\ WriterInv' /\ PcInv'
<1> USE DEF IInv
<1>1. /\ pc' = [pc EXCEPT ![i] = "idle"]
      /\ UNCHANGED <<file, conn, draft>>
      /\ lock' = [lock EXCEPT ![i] = "pending"]
  BY DEF Throws, Escapes, CommitBusy
<1>2. \A j \in Instances : lock'[j] \in WriteLocks <=> lock[j] \in WriteLocks
  BY <1>1 DEF SqliteTypeOK, WriteLocks
<1>3. \A j \in Instances : lock'[j] = "none" <=> lock[j] = "none"
  BY <1>1 DEF SqliteTypeOK, WriteLocks
<1>4. FileInv' /\ ConnInv'
  BY <1>1, <1>3 DEF FileInv, ConnInv
<1>5. WriterInv'
  BY <1>1, <1>2 DEF WriterInv, WriterDraft, Others
<1>6. PcInv'
  BY <1>1, <1>2, <1>3 DEF PcInv, Connected, Others, PlugTypeOK
<1> QED BY <1>4, <1>5, <1>6

-----------------------------------------------------------------------------
\* A step of an operation keeps the invariant, apart from the transactions.
LEMMA IInvStep ==
  ASSUME IInv, NEW i \in Instances, Step(i)
  PROVE  FileInv' /\ ConnInv' /\ WriterInv' /\ PcInv'
<1> USE DEF IInv
<1>1. CASE CtagsOpens(i) \/ CtagsEnds(i) \/ CtagsFails(i) \/ OpenTagsFile(i)
  <2>1. UNCHANGED <<file, conn, lock, draft>>
    BY <1>1 DEF CtagsOpens, CtagsEnds, CtagsFails, OpenTagsFile, sqliteVars
  <2>2. PICK l \in {"writing", "import", "delete", "idle"} :
          pc' = [pc EXCEPT ![i] = l]
    BY <1>1 DEF CtagsOpens, CtagsEnds, CtagsFails, OpenTagsFile
  <2>3. l \in Pcs \ Connected
    BY DEF Pcs, Connected
  <2> QED BY <2>1, <2>2, <2>3, KeepsAll
<1>2. CASE DeleteOld(i)
  <2>1. CASE CanDelete /\ DeleteFile /\ Goto(i, "open")
    <3>1. \A j \in Instances : conn'[j] # "open" /\ lock'[j] = "none"
      BY <2>1 DEF CanDelete, DeleteFile, ConnInv
    <3>2. FileInv' /\ ConnInv' /\ WriterInv'
      BY <2>1, <3>1
      DEF DeleteFile, FileInv, ConnInv, WriterInv, Absent, WriteLocks
    <3>3. \A j \in Instances : pc'[j] \notin Connected
      BY <2>1 DEF CanDelete, Goto, PcInv, Connected, PlugTypeOK
    <3>4. PcInv'
      BY <3>3 DEF PcInv, Connected
    <3> QED BY <3>2, <3>4
  <2>2. CASE UNCHANGED sqliteVars /\ Throws(i)
    BY <2>2, Stops DEF sqliteVars
  <2> QED BY <1>2, <2>1, <2>2 DEF DeleteOld
<1>3. CASE Open(i)
  <2>1. CASE conn[i] = "null" /\ OpenFile(i) /\ Goto(i, "version")
    <3>1. /\ conn' = [conn EXCEPT ![i] = "open"]
          /\ UNCHANGED <<lock, draft>>
          /\ pc' = [pc EXCEPT ![i] = "version"]
      BY <2>1 DEF OpenFile, Goto
    <3>2. lock[i] = "none"
      BY <2>1 DEF ConnInv
    <3>3. CASE file.present
      <4>1. UNCHANGED file
        BY <2>1, <3>3 DEF OpenFile
      <4>2. FileInv' /\ ConnInv'
        BY <3>1, <3>3, <4>1 DEF FileInv, ConnInv, SqliteTypeOK
      <4>3. WriterInv'
        BY <3>1, <4>1 DEF WriterInv, WriterDraft, Others
      <4>4. PcInv'
        BY <3>1, <3>2, <4>1
        DEF PcInv, Connected, Others, SqliteTypeOK, PlugTypeOK
      <4> QED BY <4>2, <4>3, <4>4
    <3>4. CASE ~file.present
      <4>1. file' = Blank
        BY <2>1, <3>4 DEF OpenFile
      <4>2. \A j \in Instances : conn[j] # "open" /\ lock[j] = "none"
                                 /\ pc[j] \notin Connected
        BY <3>4 DEF ConnInv, PcInv
      <4>3. FileInv' /\ ConnInv' /\ WriterInv'
        BY <3>1, <4>1, <4>2
        DEF FileInv, ConnInv, WriterInv, Blank, Absent, SqliteTypeOK, WriteLocks
      <4>4. PcInv'
        BY <3>1, <4>2 DEF PcInv, Connected, SqliteTypeOK, PlugTypeOK
      <4> QED BY <4>3, <4>4
    <3> QED BY <3>3, <3>4
  <2>2. CASE conn[i] = "null" /\ OpenFileFails(i) /\ Throws(i)
    <3>1. /\ conn' = [conn EXCEPT ![i] = "sick"]
          /\ UNCHANGED <<file, lock, draft>>
          /\ pc' = [pc EXCEPT ![i] = "idle"]
      BY <2>2 DEF OpenFileFails, Throws
    <3>2. lock[i] = "none"
      BY <2>2 DEF ConnInv
    <3>3. FileInv' /\ ConnInv'
      BY <3>1, <3>2 DEF FileInv, ConnInv, SqliteTypeOK
    <3>4. WriterInv'
      BY <3>1 DEF WriterInv, WriterDraft, Others
    <3>5. PcInv'
      BY <3>1 DEF PcInv, Connected, Others, SqliteTypeOK, PlugTypeOK
    <3> QED BY <3>3, <3>4, <3>5
  <2>3. CASE UNCHANGED sqliteVars /\ Throws(i)
    BY <2>3, Stops DEF sqliteVars
  <2> QED BY <1>3, <2>1, <2>2, <2>3 DEF Open
<1>4. CASE GetUserVersion(i)
  <2>1. CASE UNCHANGED sqliteVars /\ Throws(i)
    BY <2>1, Stops DEF sqliteVars
  <2>2. CASE CanShare(i) /\ StartRead(i) /\ Goto(i, "versionRead")
    <3>1. conn[i] = "open" /\ lock[i] = "none"
      BY <1>4 DEF GetUserVersion, PcInv, Connected
    <3>2. /\ UNCHANGED <<file, conn, draft>>
          /\ lock' = [lock EXCEPT ![i] = "shared"]
          /\ pc' = [pc EXCEPT ![i] = "versionRead"]
      BY <2>2, <3>1 DEF StartRead, Goto
    <3>3. FileInv' /\ ConnInv'
      BY <3>1, <3>2 DEF FileInv, ConnInv, SqliteTypeOK
    <3>4. WriterInv'
      BY <3>2 DEF WriterInv, WriterDraft, Others, SqliteTypeOK, WriteLocks
    <3>5. PcInv'
      BY <3>1, <3>2 DEF PcInv, Connected, Others, SqliteTypeOK, PlugTypeOK
    <3> QED BY <3>3, <3>4, <3>5
  <2> QED BY <1>4, <2>1, <2>2 DEF GetUserVersion
<1>4a. CASE CheckVersion(i)
  <2>1. conn[i] = "open" /\ lock[i] = "shared" /\ ~txn[i]
    BY <1>4a DEF CheckVersion, PcInv, Connected, TxnInv
  <2>2. UNCHANGED <<file, conn, draft>> /\ lock' = [lock EXCEPT ![i] = "none"]
    BY <1>4a, <2>1 DEF CheckVersion, EndRead
  <2>3. PICK l \in {"prepare", "query", "init", "idle"} :
          /\ pc' = [pc EXCEPT ![i] = l]
          /\ l = "prepare" => file.version = DbVersion
    BY <1>4a DEF CheckVersion, Goto, AfterOpen, Throws, DbVersion
  <2>4. FileInv' /\ ConnInv'
    BY <2>1, <2>2 DEF FileInv, ConnInv, SqliteTypeOK
  <2>5. WriterInv'
    BY <2>2 DEF WriterInv, WriterDraft, Others, SqliteTypeOK, WriteLocks
  <2>6. PcInv'
    BY <2>1, <2>2, <2>3 DEF PcInv, Connected, Others, SqliteTypeOK, PlugTypeOK
  <2> QED BY <2>4, <2>5, <2>6
<1>5. CASE CreateTables(i)
  <2>1. /\ pc[i] = "init" /\ CanReserve(i) /\ ~file.schema
        /\ UNCHANGED <<file, conn>>
        /\ lock' = [lock EXCEPT ![i] = "reserved"]
        /\ draft' = [draft EXCEPT ![i] = [file EXCEPT !.schema = TRUE]]
        /\ pc' = [pc EXCEPT ![i] = "initCommit"]
    BY <1>5 DEF CreateTables, Goto
  <2>2. conn[i] = "open" /\ file.version = 0
    BY <2>1 DEF PcInv, Connected, FileInv
  <2>3. FileInv' /\ ConnInv'
    BY <2>1, <2>2 DEF FileInv, ConnInv, SqliteTypeOK
  <2>4. WriterInv'
    BY <2>1, <2>2 DEF WriterInv, WriterDraft, Others, CanReserve, WriteLocks,
                      SqliteTypeOK
  <2>5. PcInv'
    BY <2>1, <2>2
    DEF PcInv, Connected, Others, WriteLocks, SqliteTypeOK, PlugTypeOK
  <2> QED BY <2>3, <2>4, <2>5
<1>6. CASE CreateTablesFails(i)
  <2>1. CASE Begin(i)
    BY <1>6, <2>1, Stops DEF CreateTablesFails, Begin
  <2>2. CASE AutoRollback(i)
    BY <1>6, <2>2, StopsRolledBack DEF CreateTablesFails
  <2> QED BY <1>6, <2>1, <2>2 DEF CreateTablesFails
<1>7. CASE InitCommit(i)
  <2>1. CASE CanExclude(i) /\ Commit(i) /\ Goto(i, "setVersion")
    <3>1. /\ UNCHANGED conn
          /\ lock' = [lock EXCEPT ![i] = "none"]
          /\ pc' = [pc EXCEPT ![i] = "setVersion"]
      BY <2>1 DEF Commit, Goto
    <3>2. /\ conn[i] = "open" /\ lock[i] \in WriteLocks /\ ~file.schema
          /\ \A j \in Instances : pc[j] # "setVersion"
      BY <1>7 DEF InitCommit, PcInv, Connected
    <3>3. file' = [file EXCEPT !.schema = TRUE] /\ file.version = 0
      <4>1. file' = draft[i]
        BY <2>1, <3>2 DEF Commit, View
      <4>2. WriterDraft(i)
        BY <3>2 DEF WriterInv
      <4>3. file.version = 0
        BY <3>2 DEF FileInv
      <4> QED BY <4>1, <4>2, <4>3 DEF WriterDraft, DbVersion
    <3>4. file'.present = file.present /\ file'.version = 0 /\ file'.schema
      BY <3>3 DEF SqliteTypeOK, Content
    <3>5. file.present
      BY <3>2 DEF ConnInv
    <3>6. \A j \in Instances : lock'[j] = "none"
      BY <2>1, <3>1 DEF CanExclude, Others, SqliteTypeOK
    <3>7. FileInv' /\ ConnInv' /\ WriterInv'
      BY <3>1, <3>4, <3>5, <3>6 DEF FileInv, ConnInv, WriterInv, WriteLocks
    <3>8. \A j \in Others(i) : lock[j] = "none"
      BY <2>1 DEF CanExclude
    <3>9. \A j \in Others(i) :
            /\ pc'[j] = pc[j] /\ conn'[j] = conn[j] /\ lock'[j] = lock[j]
            /\ pc[j] \notin {"initCommit", "setVersion", "versionRead", "scan"}
            /\ pc[j] \notin {"prepare", "begin", "insert", "commit"}
      <4> SUFFICES ASSUME NEW j \in Others(i)
                   PROVE  /\ pc'[j] = pc[j] /\ conn'[j] = conn[j] /\ lock'[j] = lock[j]
                          /\ pc[j] \notin {"initCommit", "setVersion", "versionRead",
                                          "scan"}
                          /\ pc[j] \notin {"prepare", "begin", "insert", "commit"}
        OBVIOUS
      <4>1. j \in Instances /\ j # i
        BY DEF Others
      <4>2. pc'[j] = pc[j] /\ conn'[j] = conn[j] /\ lock'[j] = lock[j]
        BY <3>1, <4>1 DEF PlugTypeOK, SqliteTypeOK
      <4>3. pc[j] \notin {"initCommit", "setVersion", "versionRead", "scan"}
        BY <3>2, <3>8, <4>1 DEF PcInv, WriteLocks
      <4>4. pc[j] \notin {"prepare", "begin", "insert", "commit"}
        BY <3>3, <4>1 DEF PcInv, DbVersion
      <4> QED BY <4>2, <4>3, <4>4
    <3>10. /\ pc'[i] = "setVersion" /\ conn'[i] = "open" /\ lock'[i] = "none"
           /\ \A j \in Others(i) : pc'[j] # "setVersion"
      BY <3>1, <3>2, <3>6, <3>9 DEF PlugTypeOK
    <3>11. PcInv'
      <4> SUFFICES ASSUME NEW k \in Instances
                   PROVE  /\ pc'[k] \in Connected => conn'[k] = "open"
                          /\ pc'[k] = "setVersion" =>
                               \A j \in Others(k) : pc'[j] # "setVersion"
                          /\ pc'[k] \notin {"prepare", "begin", "insert", "commit"}
                          /\ pc'[k] \notin {"initCommit", "versionRead", "scan"}
        BY <3>4, <3>6 DEF PcInv, Others
      <4>1. CASE k = i
        BY <3>10, <4>1
      <4>2. CASE k \in Others(i)
        BY <3>9, <4>2 DEF PcInv
      <4> QED BY <4>1, <4>2 DEF Others
    <3> QED BY <3>7, <3>11
  <2>2. CASE CommitBusy(i) /\ Escapes(i)
    <3>1. lock[i] \in WriteLocks
      BY <1>7 DEF InitCommit, PcInv
    <3> QED BY <2>2, <3>1, StopsBusy
  <2>3. CASE AutoRollback(i) /\ Escapes(i)
    BY <2>3, StopsRolledBack
  <2> QED BY <1>7, <2>1, <2>2, <2>3 DEF InitCommit
<1>8. CASE SetUserVersion(i)
  <2>1. CASE /\ CanExclude(i)
             /\ file' = [file EXCEPT !.version = DbVersion]
             /\ Goto(i, AfterInit(i))
             /\ UNCHANGED <<conn, lock, txn, draft>>
    <3>1. PICK l \in {"begin", "query"} : pc' = [pc EXCEPT ![i] = l]
      BY <2>1 DEF Goto, AfterInit
    <3>2. /\ conn[i] = "open" /\ lock[i] = "none" /\ file.schema
          /\ \A j \in Others(i) : pc[j] # "setVersion"
      BY <1>8 DEF SetUserVersion, PcInv, Connected
    <3>3. file'.present = file.present /\ file'.version = DbVersion
          /\ file'.schema = file.schema
      BY <2>1 DEF SqliteTypeOK, Content
    <3>4. \A j \in Instances : lock[j] = "none"
      BY <2>1, <3>2 DEF CanExclude, Others
    <3>5. FileInv' /\ ConnInv' /\ WriterInv'
      BY <2>1, <3>2, <3>3, <3>4 DEF FileInv, ConnInv, WriterInv, WriteLocks
    <3>6. PcInv'
      BY <2>1, <3>1, <3>2, <3>3, <3>4
      DEF PcInv, Connected, Others, WriteLocks, PlugTypeOK
    <3> QED BY <3>5, <3>6
  <2>2. CASE Escapes(i) /\ UNCHANGED <<file, conn, lock, draft>>
    BY <2>2, Stops
  <2> QED BY <1>8, <2>1, <2>2 DEF SetUserVersion
<1>9. CASE PrepareInsert(i)
  <2>1. CASE file.schema /\ Begin(i) /\ Goto(i, "insert")
    <3>1. pc' = [pc EXCEPT ![i] = "insert"] /\ UNCHANGED <<file, conn, lock, draft>>
      BY <2>1 DEF Begin, Goto
    <3>2. conn[i] = "open" /\ file.version = DbVersion /\ lock[i] = "none"
      BY <1>9 DEF PrepareInsert, PcInv, Connected
    <3>3. FileInv' /\ ConnInv' /\ WriterInv'
      BY <3>1 DEF FileInv, ConnInv, WriterInv, WriterDraft, Others
    <3>4. PcInv'
      BY <3>1, <3>2 DEF PcInv, Connected, Others, PlugTypeOK
    <3> QED BY <3>3, <3>4
  <2>2. CASE UNCHANGED sqliteVars /\ Throws(i)
    BY <2>2, Stops DEF sqliteVars
  <2> QED BY <1>9, <2>1, <2>2 DEF PrepareInsert
<1>9a. CASE BeginInsert(i)
  <2>1. pc' = [pc EXCEPT ![i] = "insert"] /\ UNCHANGED <<file, conn, lock, draft>>
    BY <1>9a DEF BeginInsert, Begin, Goto
  <2>2. conn[i] = "open" /\ file.version = DbVersion /\ lock[i] = "none"
    BY <1>9a DEF BeginInsert, PcInv, Connected
  <2>3. FileInv' /\ ConnInv' /\ WriterInv'
    BY <2>1 DEF FileInv, ConnInv, WriterInv, WriterDraft, Others
  <2>4. PcInv'
    BY <2>1, <2>2 DEF PcInv, Connected, Others, PlugTypeOK
  <2> QED BY <2>3, <2>4
<1>10. CASE SkipTag(i)
  <2>1. UNCHANGED <<file, conn, lock, draft, pc>>
    BY <1>10 DEF SkipTag, sqliteVars
  <2> QED BY <2>1 DEF FileInv, ConnInv, WriterInv, WriterDraft, PcInv, Others
<1>11. CASE SaveToDB(i)
  <2> DEFINE row == [View(i) EXCEPT !.rows[tagsFile[reader[i]]] = @ + 1]
  <2>1. CASE /\ lock[i] # "none" \/ (CanShare(i) /\ CanReserve(i))
             /\ \E l \in LockAfterWrite(i) : Write(i, row, l)
             /\ UNCHANGED pc
    <3>1. PICK l \in LockAfterWrite(i) : Write(i, row, l)
      BY <2>1
    <3>2. /\ UNCHANGED <<file, conn>>
          /\ lock' = [lock EXCEPT ![i] = l]
          /\ draft' = [draft EXCEPT ![i] = row]
      BY <3>1 DEF Write
    <3>3. /\ conn[i] = "open" /\ file.version = DbVersion /\ pc[i] = "insert"
      BY <1>11 DEF SaveToDB, PcInv, Connected
    <3>4. FileInv' /\ ConnInv'
      BY <3>2, <3>3 DEF FileInv, ConnInv, SqliteTypeOK
    <3>5. /\ View(i) = [file EXCEPT !.rows = View(i).rows]
          /\ \A t \in Tags : View(i).rows[t] >= file.rows[t]
          /\ View(i) \in Content
      <4>1. CASE lock[i] \in WriteLocks
        BY <3>3, <4>1 DEF View, WriterInv, WriterDraft, DbVersion, SqliteTypeOK
      <4>2. CASE lock[i] \notin WriteLocks
        BY <4>2 DEF View, SqliteTypeOK, Content
      <4> QED BY <4>1, <4>2
    <3>6. /\ row = [file EXCEPT !.rows = row.rows]
          /\ \A t \in Tags : row.rows[t] >= file.rows[t]
      <4> DEFINE R == View(i).rows
                 Q == [R EXCEPT ![tagsFile[reader[i]]] = @ + 1]
      <4>1. R \in [Tags -> Nat] /\ \A t \in Tags : R[t] >= file.rows[t]
        BY <3>5 DEF Content
      <4>2. file \in Content
        BY DEF SqliteTypeOK
      <4>3. \A t \in Tags : Q[t] >= R[t]
        BY <4>1
      <4>4. \A t \in Tags : Q[t] \in Nat /\ file.rows[t] \in Nat
        BY <4>1, <4>2 DEF Content
      <4>5. row = [View(i) EXCEPT !.rows = Q]
        OBVIOUS
      <4> HIDE DEF Q, R
      <4>6. row = [file EXCEPT !.rows = Q] /\ row.rows = Q
        BY <3>5, <4>2, <4>5 DEF Content
      <4>7. \A t \in Tags : Q[t] >= file.rows[t]
        BY <4>1, <4>3, <4>4
      <4> QED BY <4>6, <4>7
    <3>7. \A j \in Others(i) : lock[j] \notin WriteLocks
      <4>1. CASE lock[i] # "none"
        <5>1. lock[i] \in Locks /\ lock[i] # "shared"
          BY <3>3 DEF PcInv, SqliteTypeOK
        <5>2. lock[i] \in WriteLocks
          BY <4>1, <5>1 DEF Locks
        <5> QED BY <5>2 DEF WriterInv
      <4>2. CASE CanReserve(i)
        BY <4>2 DEF CanReserve
      <4> QED BY <2>1, <4>1, <4>2
    <3>8. WriterInv'
      <4> HIDE DEF row
      <4>1. \A j \in Others(i) : lock'[j] \notin WriteLocks
        BY <3>2, <3>7 DEF Others, SqliteTypeOK
      <4>2. WriterDraft(i)'
        BY <3>2, <3>3, <3>6 DEF WriterDraft, SqliteTypeOK
      <4> QED BY <4>1, <4>2 DEF WriterInv, Others
    <3>9. PcInv'
      <4>1. UNCHANGED <<file, conn, pc>>
        BY <2>1, <3>2
      <4>2. \A j \in Instances : j # i => lock'[j] = lock[j]
        BY <3>2 DEF SqliteTypeOK
      <4>3. lock'[i] # "shared" /\ lock'[i] # "none"
        BY <3>1, <3>2, <3>3 DEF LockAfterWrite, PcInv, SqliteTypeOK
      <4> QED BY <3>3, <4>1, <4>2, <4>3 DEF PcInv, Connected, Others
    <3> QED BY <3>4, <3>8, <3>9
  <2>2. CASE Throws(i) /\ UNCHANGED sqliteVars
    BY <2>2, Stops DEF sqliteVars
  <2>3. CASE Throws(i) /\ AutoRollback(i)
    BY <2>3, StopsRolledBack
  <2> QED BY <1>11, <2>1, <2>2, <2>3 DEF SaveToDB
<1>12. CASE EndOfTags(i)
  <2>1. pc' = [pc EXCEPT ![i] = "commit"] /\ UNCHANGED <<file, conn, lock, draft>>
    BY <1>12 DEF EndOfTags, Goto, sqliteVars
  <2>2. conn[i] = "open" /\ file.version = DbVersion /\ lock[i] # "shared"
    BY <1>12 DEF EndOfTags, PcInv, Connected
  <2>3. FileInv' /\ ConnInv' /\ WriterInv'
    BY <2>1 DEF FileInv, ConnInv, WriterInv, WriterDraft, Others
  <2>4. PcInv'
    BY <2>1, <2>2 DEF PcInv, Connected, Others, PlugTypeOK
  <2> QED BY <2>3, <2>4
<1>13. CASE ImportCommit(i)
  <2>1. CASE (lock[i] = "none" \/ CanExclude(i)) /\ Commit(i) /\ Goto(i, "finish")
    <3>1. /\ UNCHANGED conn
          /\ lock' = [lock EXCEPT ![i] = "none"]
          /\ draft' = [draft EXCEPT ![i] = Absent]
          /\ pc' = [pc EXCEPT ![i] = "finish"] /\ "finish" \in Pcs \ Connected
      BY <2>1 DEF Commit, Goto, Pcs, Connected
    <3>2. CASE lock[i] \notin WriteLocks
      <4>1. UNCHANGED file
        BY <2>1, <3>2 DEF Commit, View
      <4>2. AutoRollback(i)
        BY <2>1, <4>1 DEF Commit, AutoRollback
      <4> QED BY <3>1, <4>2, GivesUp
    <3>3. CASE lock[i] \in WriteLocks
      <4>1. file.version = DbVersion /\ file.present /\ file.schema
        BY <1>13 DEF ImportCommit, PcInv, Connected, ConnInv, FileInv, DbVersion
      <4>2. file' = [file EXCEPT !.rows = draft[i].rows]
        <5>1. file' = draft[i]
          BY <2>1, <3>3 DEF Commit, View
        <5>2. WriterDraft(i)
          BY <3>3 DEF WriterInv
        <5> QED BY <4>1, <5>1, <5>2 DEF WriterDraft, DbVersion
      <4>3. /\ file'.present = file.present /\ file'.schema = file.schema
            /\ file'.version = file.version
        BY <4>2 DEF SqliteTypeOK, Content
      <4>4. \A j \in Instances : lock'[j] = "none"
        BY <2>1, <3>1, <3>3 DEF CanExclude, Others, WriteLocks, SqliteTypeOK
      <4>5. \A j \in Others(i) : lock[j] = "none"
        BY <2>1, <3>3 DEF CanExclude, WriteLocks
      <4>6. FileInv' /\ ConnInv' /\ WriterInv'
        BY <3>1, <4>1, <4>3, <4>4 DEF FileInv, ConnInv, WriterInv, WriteLocks
      <4>7. PcInv'
        BY <3>1, <4>1, <4>3, <4>4, <4>5
        DEF PcInv, Connected, Others, WriteLocks, PlugTypeOK
      <4> QED BY <4>6, <4>7
    <3> QED BY <3>2, <3>3
  <2>2. CASE lock[i] # "none" /\ CommitBusy(i) /\ Escapes(i)
    <3>1. lock[i] \in Locks /\ lock[i] # "shared"
      BY <1>13 DEF ImportCommit, PcInv, SqliteTypeOK
    <3>2. lock[i] \in WriteLocks
      BY <2>2, <3>1 DEF Locks
    <3> QED BY <2>2, <3>2, StopsBusy
  <2>3. CASE AutoRollback(i) /\ Escapes(i)
    BY <2>3, StopsRolledBack
  <2> QED BY <1>13, <2>1, <2>2, <2>3 DEF ImportCommit
<1>14. CASE Finish(i)
  <2>1. CloseConn(i) /\ pc' = [pc EXCEPT ![i] = "closeTags"]
        /\ "closeTags" \in Pcs \ Connected
    BY <1>14 DEF Finish, Goto, Pcs, Connected
  <2> QED BY <2>1, GivesUp
<1>14a. CASE CloseTagsFile(i) \/ DeleteTagsFile(i)
  <2>1. UNCHANGED <<file, conn, lock, draft>>
    BY <1>14a DEF CloseTagsFile, DeleteTagsFile, sqliteVars
  <2>2. PICK l \in {"deleteTags", "open", "idle"} : pc' = [pc EXCEPT ![i] = l]
    BY <1>14a DEF CloseTagsFile, DeleteTagsFile, EnterTree
  <2>3. l \in Pcs \ Connected
    BY DEF Pcs, Connected
  <2> QED BY <2>1, <2>2, <2>3, KeepsAll
<1>15. CASE Query(i)
  <2>1. CASE conn[i] = "open" /\ StartRead(i) /\ pc' = [pc EXCEPT ![i] = "scan"]
    <3>1. UNCHANGED <<file, conn, draft>>
      BY <2>1 DEF StartRead
    <3>2. \A j \in Instances :
            /\ lock'[j] \in WriteLocks <=> lock[j] \in WriteLocks
            /\ j # i => lock'[j] = lock[j]
      BY <2>1 DEF StartRead, SqliteTypeOK, WriteLocks
    <3>3. lock'[i] # "none"
      BY <2>1 DEF StartRead, SqliteTypeOK
    <3>4. FileInv' /\ ConnInv'
      BY <2>1, <3>1, <3>2 DEF FileInv, ConnInv
    <3>5. WriterInv'
      BY <3>1, <3>2 DEF WriterInv, WriterDraft, Others
    <3>6. PcInv'
      BY <2>1, <3>1, <3>2, <3>3 DEF PcInv, Connected, Others, PlugTypeOK
    <3> QED BY <3>4, <3>5, <3>6
  <2>2. CASE Throws(i) /\ UNCHANGED sqliteVars
    BY <2>2, Stops DEF sqliteVars
  <2> QED BY <1>15, <2>1, <2>2 DEF Query
<1>16. CASE Scan(i)
  <2>1. pc' = [pc EXCEPT ![i] = "idle"] /\ "idle" \in Pcs \ Connected
    BY <1>16 DEF Scan, Done, Throws, Pcs, Connected
  <2>2. CASE CloseConn(i)
    BY <2>1, <2>2, GivesUp
  <2>3. CASE EndRead(i)
    <3>1. UNCHANGED <<file, conn, draft>>
      BY <2>3 DEF EndRead
    <3>2. \A j \in Instances :
            /\ lock'[j] \in WriteLocks <=> lock[j] \in WriteLocks
            /\ lock'[j] # "none" => lock[j] # "none"
            /\ j # i => lock'[j] = lock[j]
      BY <2>3 DEF EndRead, SqliteTypeOK, WriteLocks
    <3>3. FileInv' /\ ConnInv'
      BY <3>1, <3>2 DEF FileInv, ConnInv
    <3>4. WriterInv'
      BY <3>1, <3>2 DEF WriterInv, WriterDraft, Others
    <3>5. PcInv'
      BY <2>1, <3>1, <3>2 DEF PcInv, Connected, Others, PlugTypeOK
    <3> QED BY <3>3, <3>4, <3>5
  <2> QED BY <1>16, <2>2, <2>3 DEF Scan
<1> QED
  BY <1>1, <1>2, <1>3, <1>4, <1>4a, <1>5, <1>6, <1>7, <1>8, <1>9, <1>9a, <1>10,
     <1>11, <1>12, <1>13, <1>14, <1>14a, <1>15, <1>16 DEF Step

\* So does what the user or the system starts or ends.
LEMMA IInvEvent ==
  ASSUME IInv, NEW i \in Instances, Event(i)
  PROVE  FileInv' /\ ConnInv' /\ WriterInv' /\ PcInv'
<1>1. CASE Quit(i) \/ Crash(i)
  <2>1. /\ CloseConn(i) /\ pc' = [pc EXCEPT ![i] = "off"]
        /\ "off" \in Pcs \ Connected
    BY <1>1 DEF Quit, Crash, Gone, Pcs, Connected
  <2> QED BY <2>1, GivesUp
<1>2. CASE Start(i)
  <2>1. UNCHANGED <<file, conn, lock, draft>>
    BY <1>2 DEF Start, sqliteVars
  <2>2. PICK l \in {"open", "idle"} : pc' = [pc EXCEPT ![i] = l]
    BY <1>2 DEF Start, EnterTree
  <2>3. l \in Pcs \ Connected
    BY DEF Pcs, Connected
  <2> QED BY <2>1, <2>2, <2>3, KeepsAll
<1>3. CASE BufferActivated(i) \/ TagsTree(i) \/ JumpToTag(i) \/ Generate(i)
  <2>1. UNCHANGED <<file, conn, lock, draft>> /\ pc[i] = "idle"
    BY <1>3 DEF BufferActivated, TagsTree, JumpToTag, Generate, sqliteVars
  <2>2. pc = [pc EXCEPT ![i] = "idle"]
    BY <2>1 DEF IInv, PlugTypeOK
  <2>3. PICK l \in {"open", "idle", "import", "ctags"} : pc' = [pc EXCEPT ![i] = l]
    BY <1>3, <2>2
    DEF BufferActivated, TagsTree, JumpToTag, Generate, EnterTree
  <2>4. l \in Pcs \ Connected
    BY DEF Pcs, Connected
  <2> QED BY <2>1, <2>3, <2>4, KeepsAll
<1>4. CASE Expand(i)
  <2>1. UNCHANGED <<file, conn, lock, draft>>
    BY <1>4 DEF Expand, sqliteVars
  <2>2. PICK l \in {"open", "query"} : pc' = [pc EXCEPT ![i] = l]
    BY <1>4 DEF Expand
  <2>3. l \in Pcs \ Connected
    BY DEF Pcs, Connected
  <2> QED BY <2>1, <2>2, <2>3, KeepsAll
<1> QED
  BY <1>1, <1>2, <1>3, <1>4 DEF Event

\* Instance i is outside any transaction, or has a connection and is past
\* the steps that rely on being outside.
TxnPart(i) ==
  conn'[i] = "null" \/ pc'[i] \in {"version", "versionRead"} => ~txn'[i]

\* A step that touches no transaction, and enters no step that relies on one being absent.
LEMMA TxnKeeps ==
  ASSUME IInv, NEW i \in Instances, UNCHANGED <<conn, txn>>,
         pc'[i] \in {"version", "versionRead"} =>
           pc[i] \in {"version", "versionRead"} \/ conn[i] = "null"
  PROVE  TxnPart(i)
BY DEF IInv, TxnInv, TxnPart

\* A connection starts outside any transaction, and a step keeps it so.
LEMMA TxnStep ==
  ASSUME IInv, NEW i \in Instances, Step(i)
  PROVE  TxnPart(i)
<1> USE DEF IInv, PlugTypeOK, SqliteTypeOK
<1>1. CASE CtagsOpens(i) \/ CtagsEnds(i) \/ CtagsFails(i) \/ OpenTagsFile(i)
           \/ SkipTag(i) \/ EndOfTags(i) \/ Query(i)
           \/ CloseTagsFile(i) \/ DeleteTagsFile(i)
  <2>1. UNCHANGED <<conn, txn>>
    BY <1>1 DEF CtagsOpens, CtagsEnds, CtagsFails, OpenTagsFile, SkipTag,
                EndOfTags, Query, CloseTagsFile, DeleteTagsFile, StartRead, sqliteVars
  <2>2. pc'[i] \notin {"version", "versionRead"}
    BY <1>1 DEF CtagsOpens, CtagsEnds, CtagsFails, OpenTagsFile, SkipTag,
                EndOfTags, Query, CloseTagsFile, DeleteTagsFile, EnterTree, Goto, Throws
  <2> QED BY <2>1, <2>2, TxnKeeps
<1>2. CASE DeleteOld(i) \/ GetUserVersion(i) \/ CheckVersion(i)
  <2>1. UNCHANGED <<conn, txn>>
    BY <1>2 DEF DeleteOld, GetUserVersion, CheckVersion, DeleteFile, StartRead,
                EndRead, sqliteVars
  <2>2. pc'[i] \in {"version", "versionRead"} => pc[i] \in {"version", "versionRead"}
    BY <1>2 DEF DeleteOld, GetUserVersion, CheckVersion, Goto, Throws
  <2> QED BY <2>1, <2>2, TxnKeeps
<1>3. CASE Open(i)
  <2>1. CASE conn[i] = "null"
    BY <1>3, <2>1 DEF Open, OpenFile, OpenFileFails, TxnInv, TxnPart
  <2>2. CASE Throws(i) /\ UNCHANGED sqliteVars
    BY <2>2, TxnKeeps DEF Throws, sqliteVars
  <2> QED BY <1>3, <2>1, <2>2 DEF Open
<1>4. CASE CreateTables(i) \/ CreateTablesFails(i) \/ PrepareInsert(i)
           \/ BeginInsert(i)
  <2>1. conn[i] = "open" /\ pc'[i] \notin {"version", "versionRead"}
    BY <1>4 DEF CreateTables, CreateTablesFails, PrepareInsert, BeginInsert, Goto,
                Throws, Escapes, PcInv, Connected
  <2>2. UNCHANGED conn
    BY <1>4 DEF CreateTables, CreateTablesFails, PrepareInsert, BeginInsert, Begin,
                AutoRollback, sqliteVars
  <2> QED BY <2>1, <2>2 DEF TxnPart
<1>5. CASE InitCommit(i) \/ SetUserVersion(i) \/ SaveToDB(i) \/ ImportCommit(i)
  <2>1. conn[i] = "open" /\ pc'[i] \notin {"version", "versionRead"}
    BY <1>5 DEF InitCommit, SetUserVersion, SaveToDB, ImportCommit, Goto, Throws,
                Escapes, PcInv, Connected, AfterInit
  <2>2. UNCHANGED conn
    BY <1>5 DEF InitCommit, SetUserVersion, SaveToDB, ImportCommit, Commit,
                CommitBusy, Write, AutoRollback, sqliteVars
  <2> QED BY <2>1, <2>2 DEF TxnPart
<1>6. CASE Finish(i)
  BY <1>6 DEF Finish, CloseConn, TxnPart
<1>7. CASE Scan(i)
  <2>1. CASE CloseConn(i)
    BY <2>1 DEF CloseConn, TxnPart
  <2>2. CASE EndRead(i)
    BY <1>7, <2>2, TxnKeeps DEF EndRead, Scan, Done, Throws
  <2> QED BY <1>7, <2>1, <2>2 DEF Scan
<1> QED
  BY <1>1, <1>2, <1>3, <1>4, <1>5, <1>6, <1>7 DEF Step

\* The same for what the user or the system starts or ends.
LEMMA TxnEvent ==
  ASSUME IInv, NEW i \in Instances, Event(i)
  PROVE  TxnPart(i)
<1> USE DEF IInv, PlugTypeOK, SqliteTypeOK
<1>1. CASE Quit(i) \/ Crash(i)
  BY <1>1 DEF Quit, Crash, Gone, CloseConn, TxnPart
<1>2. CASE \/ Start(i) \/ BufferActivated(i) \/ TagsTree(i)
           \/ JumpToTag(i) \/ Expand(i) \/ Generate(i)
  <2>1. UNCHANGED <<conn, txn>>
    BY <1>2 DEF Start, BufferActivated, TagsTree, JumpToTag, Expand, Generate,
                sqliteVars
  <2>2. pc'[i] \notin {"version", "versionRead"}
    BY <1>2 DEF Start, BufferActivated, TagsTree, JumpToTag, Expand, Generate,
                EnterTree
  <2> QED BY <2>1, <2>2, TxnKeeps
<1> QED
  BY <1>1, <1>2 DEF Event

\* The other instances keep their connection, their transaction, their place.
LEMMA OthersStay ==
  ASSUME IInv, NEW i \in Instances, Step(i) \/ Event(i), NEW j \in Others(i)
  PROVE  /\ conn'[j] = conn[j] /\ txn'[j] = txn[j]
         /\ pc'[j] = pc[j] /\ op'[j] = op[j]
<1> USE DEF IInv, PlugTypeOK, SqliteTypeOK, Others
<1>1. pc'[j] = pc[j]
  <2>1. CASE Step(i)
    BY <2>1
    DEF Step, CtagsOpens, CtagsEnds, CtagsFails, OpenTagsFile, DeleteOld, Open,
      GetUserVersion, CheckVersion, CreateTables, CreateTablesFails, InitCommit,
      SetUserVersion, PrepareInsert, BeginInsert, SkipTag, SaveToDB, EndOfTags,
      ImportCommit, CloseTagsFile, DeleteTagsFile,
      Finish, EnterTree, Query, Scan, Goto, Done, Throws, Escapes
  <2>2. CASE Event(i)
    BY <2>2 DEF Event, Start, Quit, Crash, Gone, BufferActivated, TagsTree,
      JumpToTag, Expand, Generate, EnterTree
  <2> QED BY <2>1, <2>2
<1>2. conn'[j] = conn[j] /\ txn'[j] = txn[j]
  <2>1. CASE Step(i)
    BY <2>1
    DEF Step, CtagsOpens, CtagsEnds, CtagsFails, OpenTagsFile, DeleteOld, Open,
      GetUserVersion, CheckVersion, CreateTables, CreateTablesFails, InitCommit,
      SetUserVersion, PrepareInsert, BeginInsert, SkipTag, SaveToDB, EndOfTags,
      ImportCommit, CloseTagsFile, DeleteTagsFile,
      Finish, Query, Scan, sqliteVars, OpenFile, OpenFileFails, CloseConn,
      DeleteFile, Begin, Write, Commit, CommitBusy, AutoRollback, StartRead, EndRead
  <2>2. CASE Event(i)
    BY <2>2 DEF Event, Start, Quit, Crash, Gone, BufferActivated, TagsTree,
      JumpToTag, Expand, Generate, sqliteVars, CloseConn
  <2> QED BY <2>1, <2>2
<1>3. op'[j] = op[j]
  <2>1. CASE Step(i)
    BY <2>1
    DEF Step, CtagsOpens, CtagsEnds, CtagsFails, OpenTagsFile, DeleteOld, Open,
      GetUserVersion, CheckVersion, CreateTables, CreateTablesFails, InitCommit,
      SetUserVersion, PrepareInsert, BeginInsert, SkipTag, SaveToDB, EndOfTags,
      ImportCommit, CloseTagsFile, DeleteTagsFile,
      Finish, EnterTree, Query, Scan, Goto, Done, Throws, Escapes, uiVars
  <2>2. CASE Event(i)
    BY <2>2 DEF Event, Start, Quit, Crash, Gone, BufferActivated, TagsTree,
      JumpToTag, Expand, Generate, EnterTree
  <2> QED BY <2>1, <2>2
<1> QED BY <1>1, <1>2, <1>3

\* Both together.
LEMMA TxnNext ==
  ASSUME IInv, NEW i \in Instances, Step(i) \/ Event(i)
  PROVE  TxnInv'
<1>1. TxnPart(i)
  BY TxnStep, TxnEvent
<1>2. \A j \in Others(i) : TxnPart(j)
  BY OthersStay DEF IInv, TxnInv, TxnPart, Others
<1> QED BY <1>1, <1>2 DEF TxnInv, TxnPart, Others

\* The whole invariant is inductive.
LEMMA IInvNext == IInv /\ [Next]_vars => IInv'
<1> SUFFICES ASSUME IInv, [Next]_vars PROVE IInv'
  OBVIOUS
<1>1. CASE UNCHANGED vars
  BY <1>1
  DEF vars, IInv, SqliteTypeOK, PlugTypeOK, FileInv, ConnInv, WriterInv,
      WriterDraft, PcInv, TxnInv, Others
<1>2. ASSUME NEW i \in Instances, Step(i) \/ Event(i)
      PROVE  IInv'
  <2>1. SqliteTypeOK' /\ PlugTypeOK'
    BY <1>2, TypeStep, TypeEvent DEF IInv
  <2>2. FileInv' /\ ConnInv' /\ WriterInv' /\ PcInv' /\ TxnInv'
    BY <1>2, IInvStep, IInvEvent, TxnNext
  <2> QED BY <2>1, <2>2 DEF IInv
<1> QED BY <1>1, <1>2 DEF Next

\* The inductive invariant: at every step of every instance, which locks it
\* can hold, what its draft was made from, and what the file can look like.
THEOREM Invariance == Spec => []IInv
BY IInvInit, IInvNext, PTL DEF Spec

-----------------------------------------------------------------------------
(***************************************************************************)
(* What follows from the invariant.                                        *)
(***************************************************************************)
\* A database with the version of the plug-in has its tables: the version
\* number Open looks at (TagsDatabase.cpp:155) can be trusted.
THEOREM VersionCorrect == Spec => []VersionImpliesSchema
<1>1. IInv => VersionImpliesSchema
  BY DEF IInv, FileInv, VersionImpliesSchema, DbVersion
<1> QED BY <1>1, Invariance, PTL

\* What one step does to the file.
LEMMA FileStep ==
  ASSUME IInv, NEW i \in Instances, Step(i) \/ Event(i)
  PROVE  \/ UNCHANGED file
         \/ DBF!Remove /\ pc[i] = "delete" /\ CanDelete
         \/ DBF!Create
         \/ DBF!CreateTables /\ CanExclude(i) /\ pc[i] = "initCommit"
         \/ DBF!Stamp /\ CanExclude(i) /\ pc[i] = "setVersion"
         \/ DBF!Import /\ CanExclude(i) /\ pc[i] = "commit"
<1> USE DEF IInv
<1>0. DBF!Nothing = Absent
  BY DEF DBF!Nothing, Absent, DBF!NoRows, NoRows
<1>1. CASE DeleteOld(i)
  <2>1. CASE UNCHANGED sqliteVars
    BY <2>1 DEF sqliteVars
  <2>2. CASE CanDelete /\ DeleteFile
    BY <1>0, <1>1, <2>2 DEF DeleteOld, DeleteFile, DBF!Remove
  <2> QED BY <1>1, <2>1, <2>2 DEF DeleteOld
<1>2. CASE Open(i)
  <2>1. CASE OpenFile(i)
    BY <1>0, <2>1 DEF OpenFile, DBF!Create, Blank
  <2>2. CASE UNCHANGED file
    BY <2>2
  <2> QED BY <1>2, <2>1, <2>2 DEF Open, OpenFileFails, sqliteVars
<1>3. CASE InitCommit(i)
  <2>1. CASE CanExclude(i) /\ Commit(i)
    <3>1. pc[i] = "initCommit" /\ lock[i] \in WriteLocks /\ ~file.schema
          /\ conn[i] = "open"
      BY <1>3 DEF InitCommit, PcInv, Connected
    <3>2. file' = draft[i]
      BY <2>1, <3>1 DEF Commit, View
    <3>3. file.version = 0 /\ file.present
      BY <3>1 DEF FileInv, ConnInv
    <3>4. WriterDraft(i)
      BY <3>1 DEF WriterInv
    <3> QED BY <2>1, <3>1, <3>2, <3>3, <3>4
      DEF WriterDraft, DbVersion, DBF!CreateTables
  <2>2. CASE UNCHANGED file
    BY <2>2
  <2> QED BY <1>3, <2>1, <2>2 DEF InitCommit, CommitBusy, AutoRollback
<1>4. CASE SetUserVersion(i)
  <2>1. file.schema /\ file.version = 0
    BY <1>4 DEF SetUserVersion, PcInv
  <2> QED BY <1>4, <2>1 DEF SetUserVersion, DbVersion, DBF!Stamp
<1>5. CASE ImportCommit(i)
  <2>1. CASE Commit(i) /\ lock[i] \notin WriteLocks
    BY <2>1 DEF Commit, View
  <2>2. CASE Commit(i) /\ lock[i] \in WriteLocks /\ CanExclude(i)
    <3>1. file' = draft[i]
      BY <2>2 DEF Commit, View
    <3>2. pc[i] = "commit" /\ file.version = DbVersion /\ file.schema
      BY <1>5 DEF ImportCommit, PcInv, FileInv, DbVersion
    <3>3. WriterDraft(i)
      BY <2>2 DEF WriterInv
    <3>4. /\ file' = [file EXCEPT !.rows = file'.rows]
          /\ \A t \in Tags : file'.rows[t] >= file.rows[t]
      BY <3>1, <3>2, <3>3 DEF WriterDraft, DbVersion
    <3> QED BY <2>2, <3>2, <3>4 DEF DBF!Import, DbVersion
  <2>3. CASE UNCHANGED file
    BY <2>3
  <2> QED BY <1>5, <2>1, <2>2, <2>3
    DEF ImportCommit, CommitBusy, AutoRollback, WriteLocks
<1>6. CASE \/ CtagsOpens(i) \/ CtagsEnds(i) \/ CtagsFails(i) \/ OpenTagsFile(i)
           \/ GetUserVersion(i) \/ CheckVersion(i)
           \/ CreateTables(i) \/ CreateTablesFails(i)
           \/ PrepareInsert(i) \/ BeginInsert(i) \/ SkipTag(i) \/ SaveToDB(i)
           \/ EndOfTags(i) \/ Finish(i) \/ CloseTagsFile(i) \/ DeleteTagsFile(i)
           \/ Query(i) \/ Scan(i)
  BY <1>6
  DEF CtagsOpens, CtagsEnds, CtagsFails, OpenTagsFile, GetUserVersion, CheckVersion,
      CreateTables, CreateTablesFails, PrepareInsert, BeginInsert, SkipTag, SaveToDB,
      EndOfTags, Finish, CloseTagsFile, DeleteTagsFile, Query, Scan, sqliteVars, Begin, AutoRollback, Write, CloseConn,
      StartRead, EndRead
<1>7. CASE Event(i)
  BY <1>7
  DEF Event, Start, Quit, Crash, Gone, CloseConn, BufferActivated, TagsTree,
      JumpToTag, Expand, Generate, sqliteVars
<1> QED
  BY <1>1, <1>2, <1>3, <1>4, <1>5, <1>6, <1>7 DEF Step

\* The plug-in implements DatabaseFile: whatever the instances do and
\* wherever they fail, the file goes through its states in order and no
\* committed row is lost to another writer.
THEOREM Refinement == Spec => FileKeepsPromises
<1>1. Init => DBF!Init
  BY DEF Init, DBF!Init, Absent, Database, DbVersion, OtherVersion
<1>2. IInv /\ [Next]_vars => [DBF!Next]_file
  <2> SUFFICES ASSUME IInv, [Next]_vars PROVE [DBF!Next]_file
    OBVIOUS
  <2>1. CASE UNCHANGED vars
    BY <2>1 DEF vars
  <2>2. CASE Next
    BY <2>2, FileStep DEF Next, DBF!Next
  <2> QED BY <2>1, <2>2
<1> QED
  BY <1>1, <1>2, Invariance, PTL DEF Spec, FileKeepsPromises, DBF!Spec

\* A lookup or a tree reads one state of the database: its shared lock keeps
\* every writer out until the last row.
THEOREM SnapshotReads == Spec => ScanSeesOneState
<1>1. IInv /\ [Next]_vars =>
        [\A i \in Instances : pc[i] = "scan" => file' = file]_vars
  <2> SUFFICES ASSUME IInv, [Next]_vars, NEW j \in Instances, pc[j] = "scan"
               PROVE  file' = file
    OBVIOUS
  <2>1. CASE UNCHANGED vars
    BY <2>1 DEF vars
  <2>2. ASSUME NEW i \in Instances, Step(i) \/ Event(i)
        PROVE  file' = file
    <3>1. conn[j] = "open" /\ lock[j] # "none" /\ file.present
      BY DEF IInv, PcInv, Connected, ConnInv
    <3>2. ~CanDelete
      BY <3>1 DEF CanDelete
    <3>3. i # j => ~CanExclude(i)
      BY <3>1 DEF CanExclude, Others
    <3>4. ~DBF!Create
      BY <3>1 DEF DBF!Create
    <3> QED BY <2>2, <3>2, <3>3, <3>4, FileStep
  <2> QED BY <2>1, <2>2 DEF Next
<1> QED
  BY <1>1, Invariance, PTL DEF Spec, ScanSeesOneState

-----------------------------------------------------------------------------
(***************************************************************************)
(* Two more invariants, about what an instance keeps open.                 *)
(***************************************************************************)
\* A connection outlives its operation only after a failure, also while the
\* next operation has not come to its own Open yet.
LeakInv ==
  \A i \in Instances :
    \/ op[i] = "borrow"
    \/ /\ conn[i] # "null"
       /\ pc[i] \in {"off", "idle", "ctags", "writing", "import", "delete", "open",
                    "closeTags", "deleteTags"}
    => threw[i]

\* The connection of instance i stays as it is, and any leak is explained.
Excused(i) ==
  /\ UNCHANGED <<conn, threw>>
  /\ conn[i] # "null" \/ op'[i] = "borrow" => threw[i]

\* A failed operation is an explanation for whatever stays open.
LEMMA LeakStops ==
  ASSUME IInv, LeakInv, NEW i \in Instances, Throws(i) \/ Escapes(i),
         \A j \in Others(i) : conn'[j] = conn[j]
  PROVE  LeakInv'
BY DEF IInv, PlugTypeOK, LeakInv, Throws, Escapes, Others

\* So is one that was there before.
LEMMA LeakKeeps ==
  ASSUME IInv, LeakInv, NEW i \in Instances,
         Excused(i),
         \A j \in Others(i) : pc'[j] = pc[j] /\ op'[j] = op[j]
  PROVE  LeakInv'
BY DEF Excused, LeakInv, Others

\* An instance without a connection leaks nothing.
LEMMA LeakCloses ==
  ASSUME IInv, LeakInv, NEW i \in Instances, CloseConn(i), op'[i] # "borrow",
         \A j \in Others(i) : pc'[j] = pc[j] /\ op'[j] = op[j] /\ threw'[j] = threw[j]
  PROVE  LeakInv'
BY DEF IInv, SqliteTypeOK, LeakInv, CloseConn, Others

\* A step in the middle of an operation that has opened the database itself.
LEMMA LeakGoes ==
  ASSUME IInv, LeakInv, NEW i \in Instances, NEW l \in Pcs,
         l \notin {"off", "idle", "ctags", "writing", "import", "delete", "open",
                   "closeTags", "deleteTags"},
         Goto(i, l), \A j \in Others(i) : conn'[j] = conn[j]
  PROVE  LeakInv'
<1>1. pc'[i] = l /\ op' = op /\ threw' = threw
  BY DEF IInv, PlugTypeOK, Goto, uiVars
<1>2. \A j \in Others(i) : pc'[j] = pc[j]
  BY DEF IInv, PlugTypeOK, Goto, Others
<1> QED BY <1>1, <1>2 DEF LeakInv, Others

\* A step that leaves a connection open has failed.
LEMMA LeakStep ==
  ASSUME IInv, LeakInv, NEW i \in Instances, Step(i)
  PROVE  LeakInv'
<1>1. CASE CtagsOpens(i) \/ CtagsEnds(i) \/ CtagsFails(i)
  <2>1. Excused(i)
    BY <1>1
    DEF Excused, CtagsOpens, CtagsEnds, CtagsFails, LeakInv, sqliteVars, uiVars,
        IInv, PlugTypeOK
  <2>2. \A j \in Others(i) : pc'[j] = pc[j] /\ op'[j] = op[j]
    BY <1>1
    DEF CtagsOpens, CtagsEnds, CtagsFails, uiVars, IInv, PlugTypeOK, Others
  <2> QED BY <2>1, <2>2, LeakKeeps
<1>2. CASE OpenTagsFile(i)
  <2>1. Excused(i)
    BY <1>2 DEF Excused, OpenTagsFile, LeakInv, sqliteVars, IInv, PlugTypeOK
  <2>2. \A j \in Others(i) : pc'[j] = pc[j] /\ op'[j] = op[j]
    BY <1>2 DEF OpenTagsFile, IInv, PlugTypeOK, Others
  <2> QED BY <2>1, <2>2, LeakKeeps
<1>3. CASE DeleteOld(i)
  <2>1. CASE DeleteFile /\ Goto(i, "open")
    <3>1. Excused(i)
      BY <1>3, <2>1
      DEF Excused, DeleteOld, DeleteFile, Goto, LeakInv, uiVars, IInv,
          PlugTypeOK
    <3>2. \A j \in Others(i) : pc'[j] = pc[j] /\ op'[j] = op[j]
      BY <2>1 DEF Goto, uiVars, IInv, PlugTypeOK, Others
    <3> QED BY <3>1, <3>2, LeakKeeps
  <2>2. CASE Throws(i) /\ UNCHANGED sqliteVars
    BY <2>2, LeakStops DEF sqliteVars
  <2> QED BY <1>3, <2>1, <2>2 DEF DeleteOld
<1>4. CASE Open(i)
  <2>1. CASE conn[i] = "null" /\ OpenFile(i) /\ Goto(i, "version")
    BY <2>1, LeakGoes DEF OpenFile, IInv, SqliteTypeOK, Others, Pcs
  <2>2. CASE Throws(i) /\ (UNCHANGED sqliteVars \/ OpenFileFails(i))
    BY <2>2, LeakStops DEF sqliteVars, OpenFileFails, IInv, SqliteTypeOK, Others
  <2> QED BY <1>4, <2>1, <2>2 DEF Open
<1>5. CASE \/ GetUserVersion(i) \/ CheckVersion(i)
           \/ CreateTables(i) \/ CreateTablesFails(i)
           \/ InitCommit(i) \/ SetUserVersion(i) \/ PrepareInsert(i)
           \/ BeginInsert(i) \/ EndOfTags(i) \/ ImportCommit(i)
  <2>1. UNCHANGED conn
    BY <1>5
    DEF GetUserVersion, CheckVersion, CreateTables, CreateTablesFails, InitCommit,
        SetUserVersion, PrepareInsert, BeginInsert, EndOfTags, ImportCommit,
        sqliteVars, Begin, Commit, CommitBusy, AutoRollback, StartRead, EndRead
  <2>2. \/ Throws(i) \/ Escapes(i)
        \/ \E l \in {"versionRead", "init", "initCommit", "setVersion",
                     "prepare", "begin", "query", "insert", "commit",
                     "finish"} : Goto(i, l)
    BY <1>5
    DEF GetUserVersion, CheckVersion, CreateTables, CreateTablesFails, InitCommit,
        SetUserVersion, PrepareInsert, BeginInsert, EndOfTags, ImportCommit,
        AfterOpen, AfterInit
  <2> QED BY <2>1, <2>2, LeakStops, LeakGoes DEF Pcs
<1>6. CASE SkipTag(i)
  BY <1>6 DEF SkipTag, LeakInv, sqliteVars, uiVars
<1>7. CASE SaveToDB(i)
  <2>1. UNCHANGED conn
    BY <1>7 DEF SaveToDB, Write, AutoRollback, sqliteVars
  <2>2. Throws(i) \/ UNCHANGED <<pc, op, threw>>
    BY <1>7 DEF SaveToDB, uiVars
  <2>3. CASE UNCHANGED <<pc, op, threw>>
    BY <2>1, <2>3 DEF LeakInv
  <2> QED BY <2>1, <2>2, <2>3, LeakStops
<1>8. CASE Finish(i)
  <2>1. op[i] # "borrow" \/ threw[i]
    BY DEF LeakInv
  <2>2. CASE op[i] # "borrow"
    BY <1>8, <2>2, LeakCloses DEF Finish, Goto, uiVars, IInv, PlugTypeOK, Others
  <2>3. CASE threw[i]
    BY <1>8, <2>3 DEF Finish, CloseConn, Goto, uiVars, LeakInv, IInv, PlugTypeOK,
      SqliteTypeOK, Others
  <2> QED BY <2>1, <2>2, <2>3
<1>8a. CASE CloseTagsFile(i) \/ DeleteTagsFile(i)
  <2>1. Excused(i)
    BY <1>8a
    DEF Excused, CloseTagsFile, DeleteTagsFile, EnterTree, LeakInv, sqliteVars,
        uiVars, IInv, PlugTypeOK
  <2>2. \A j \in Others(i) : pc'[j] = pc[j] /\ op'[j] = op[j]
    BY <1>8a
    DEF CloseTagsFile, DeleteTagsFile, EnterTree, uiVars, IInv, PlugTypeOK, Others
  <2> QED BY <2>1, <2>2, LeakKeeps
<1>9. CASE Query(i)
  <2>1. CASE StartRead(i) /\ pc' = [pc EXCEPT ![i] = "scan"] /\ UNCHANGED <<op, threw>>
    BY <2>1 DEF StartRead, LeakInv, IInv, PlugTypeOK
  <2>2. CASE Throws(i) /\ UNCHANGED sqliteVars
    BY <2>2, LeakStops DEF sqliteVars
  <2> QED BY <1>9, <2>1, <2>2 DEF Query
<1>10. CASE Scan(i)
  <2>1. CASE CloseConn(i) /\ Done(i)
    BY <2>1, LeakCloses DEF Done, IInv, PlugTypeOK, Others
  <2>2. CASE op[i] = "borrow" /\ EndRead(i) /\ Done(i)
    <3>1. Excused(i)
      BY <2>2 DEF Excused, EndRead, Done, LeakInv, IInv, PlugTypeOK
    <3>2. \A j \in Others(i) : pc'[j] = pc[j] /\ op'[j] = op[j]
      BY <2>2 DEF Done, IInv, PlugTypeOK, Others
    <3> QED BY <3>1, <3>2, LeakKeeps
  <2>3. CASE Throws(i) /\ EndRead(i)
    BY <2>3, LeakStops DEF EndRead
  <2> QED BY <1>10, <2>1, <2>2, <2>3 DEF Scan
<1> QED
  BY <1>1, <1>2, <1>3, <1>4, <1>5, <1>6, <1>7, <1>8, <1>8a, <1>9, <1>10
  DEF Step

\* A start or an end leaves none.
LEMMA LeakEvent ==
  ASSUME IInv, LeakInv, NEW i \in Instances, Event(i)
  PROVE  LeakInv'
<1>1. CASE Quit(i) \/ Crash(i)
  BY <1>1, LeakCloses DEF Quit, Crash, Gone, IInv, PlugTypeOK, Others
<1>2. CASE Start(i)
  <2>1. Excused(i)
    BY <1>2 DEF Excused, Start, EnterTree, LeakInv, sqliteVars, IInv, PlugTypeOK
  <2>2. \A j \in Others(i) : pc'[j] = pc[j] /\ op'[j] = op[j]
    BY <1>2 DEF Start, EnterTree, IInv, PlugTypeOK, Others
  <2> QED BY <2>1, <2>2, LeakKeeps
<1>3. CASE BufferActivated(i) \/ TagsTree(i) \/ JumpToTag(i) \/ Expand(i)
  <2>1. Excused(i)
    BY <1>3
    DEF Excused, BufferActivated, TagsTree, JumpToTag, Expand, EnterTree,
        LeakInv, sqliteVars, IInv, PlugTypeOK
  <2>2. \A j \in Others(i) : pc'[j] = pc[j] /\ op'[j] = op[j]
    BY <1>3
    DEF BufferActivated, TagsTree, JumpToTag, Expand, EnterTree, IInv, PlugTypeOK,
        Others
  <2> QED BY <2>1, <2>2, LeakKeeps
<1>4. CASE Generate(i)
  <2>1. /\ UNCHANGED conn
        /\ op[i] = "borrow" \/ conn[i] # "null" => threw'[i]
        /\ op'[i] = "borrow" => op[i] = "borrow"
    BY <1>4 DEF Generate, LeakInv, sqliteVars, IInv, PlugTypeOK
  <2>2. \A j \in Others(i) : pc'[j] = pc[j] /\ op'[j] = op[j] /\ threw'[j] = threw[j]
    BY <1>4 DEF Generate, IInv, PlugTypeOK, Others
  <2> QED BY <2>1, <2>2 DEF LeakInv, Others
<1> QED
  BY <1>1, <1>2, <1>3, <1>4 DEF Event

\* Open and Close are paired in every operation that does not fail.
THEOREM LeaksExplained == Spec => []LeakNeedsFailure
<1>1. Init => LeakInv
  BY DEF Init, LeakInv
<1>2. IInv /\ LeakInv /\ [Next]_vars => LeakInv'
  <2> SUFFICES ASSUME IInv, LeakInv, [Next]_vars PROVE LeakInv'
    OBVIOUS
  <2>1. CASE UNCHANGED vars
    BY <2>1 DEF vars, LeakInv
  <2> QED BY <2>1, LeakStep, LeakEvent DEF Next
<1>3. LeakInv => LeakNeedsFailure
  BY DEF LeakInv, LeakNeedsFailure
<1> QED BY <1>1, <1>2, <1>3, Invariance, PTL DEF Spec

\* The steps of an import that have the tags file not open yet, or no longer.
NoReader == {"ctags", "writing", "import", "deleteTags"}

\* An instance has the tags file open at the other steps of its import, and
\* at no other time.
TagsPlace(i) ==
  /\ op[i] = "generate" /\ pc[i] \notin NoReader <=> reader[i] # 0
  /\ pc[i] \in NoReader \cup {"delete", "prepare", "begin", "insert", "commit",
                             "finish", "closeTags"} => op[i] = "generate"
  /\ pc[i] \in {"off", "idle", "query", "scan"} => op[i] # "generate"

\* Whoever reads the tags file keeps it on the disk, and an import reads it
\* before it deletes the old database.
TagsInv ==
  \A i \in Instances :
    /\ reader[i] # 0 => tagsFile # NoTags
    /\ TagsPlace(i)

\* What a step does to the tags file and to the other instances.
LEMMA TagsKept ==
  ASSUME IInv, TagsInv, NEW i \in Instances, Step(i) \/ Event(i)
  PROVE  /\ tagsFile # NoTags /\ tagsFile' = NoTags
              => DeleteTagsFile(i) /\ CanDeleteTags(i)
         /\ \A j \in Others(i) : reader'[j] = reader[j]
<1> USE DEF IInv, PlugTypeOK
<1>1. CASE CtagsOpens(i) \/ CtagsEnds(i) \/ CtagsFails(i)
  <2>1. UNCHANGED reader
    BY <1>1 DEF CtagsOpens, CtagsEnds, CtagsFails
  <2>2. CASE CtagsOpens(i)
    <3>1. <<>> \in Seq(Tags)
      OBVIOUS
    <3> QED BY <2>1, <2>2, <3>1, TagsAssumption DEF CtagsOpens
  <2>3. CASE CtagsEnds(i)
    BY <2>1, <2>3, TagsAssumption DEF CtagsEnds
  <2>4. CASE CtagsFails(i)
    BY <2>1, <2>4, PrefixType, TagsAssumption DEF CtagsFails
  <2> QED BY <1>1, <2>2, <2>3, <2>4
<1>2. CASE Quit(i) \/ Crash(i)
  BY <1>2, TagsAssumption DEF Quit, Crash, Gone, Others
<1>3. CASE CloseTagsFile(i) \/ DeleteTagsFile(i)
  BY <1>3 DEF CloseTagsFile, DeleteTagsFile, Others
<1>4. CASE \/ Start(i) \/ BufferActivated(i) \/ TagsTree(i)
           \/ JumpToTag(i) \/ Expand(i) \/ Generate(i)
  BY <1>4 DEF Start, BufferActivated, TagsTree, JumpToTag, Expand, Generate, tagVars
<1>5. CASE \/ OpenTagsFile(i) \/ DeleteOld(i) \/ Open(i) \/ GetUserVersion(i)
           \/ CheckVersion(i) \/ CreateTables(i) \/ CreateTablesFails(i)
           \/ InitCommit(i) \/ SetUserVersion(i) \/ PrepareInsert(i)
           \/ BeginInsert(i) \/ SkipTag(i) \/ SaveToDB(i) \/ EndOfTags(i)
           \/ ImportCommit(i) \/ Finish(i) \/ Query(i) \/ Scan(i)
  BY <1>5
  DEF OpenTagsFile, DeleteOld, Open, GetUserVersion, CheckVersion, CreateTables,
      CreateTablesFails, InitCommit, SetUserVersion, PrepareInsert, BeginInsert,
      SkipTag, SaveToDB, EndOfTags, ImportCommit, Finish, Query, Scan, Goto, Done, Throws, Escapes,
      tagVars, Others
<1> QED
  BY <1>1, <1>2, <1>3, <1>4, <1>5 DEF Step, Event

\* The step an operation ends with.
LEMMA TagsEnd ==
  ASSUME IInv, NEW i \in Instances,
         pc' = [pc EXCEPT ![i] = "off"] \/ pc' = [pc EXCEPT ![i] = "idle"],
         op' = [op EXCEPT ![i] = "none"], reader'[i] = 0
  PROVE  TagsPlace(i)'
BY DEF IInv, PlugTypeOK, TagsPlace, NoReader

\* A step in the middle of one.
LEMMA TagsGo ==
  ASSUME IInv, TagsInv, NEW i \in Instances, NEW l \in Pcs, Goto(i, l),
         pc[i] \notin NoReader \cup {"off", "idle"},
         l \notin NoReader \cup {"off", "idle"},
         l \in {"delete", "prepare", "begin", "insert", "commit", "finish", "closeTags"}
           => op[i] = "generate",
         l \in {"query", "scan"} => op[i] # "generate"
  PROVE  TagsPlace(i)' /\ UNCHANGED reader
BY DEF IInv, PlugTypeOK, TagsInv, TagsPlace, NoReader, Goto, uiVars, tagVars

\* What a step does to its own place in the tags file.
LEMMA TagsRead ==
  ASSUME IInv, TagsInv, NEW i \in Instances, Step(i) \/ Event(i)
  PROVE  /\ reader'[i] # 0 => tagsFile # NoTags /\ ~DeleteTagsFile(i)
         /\ TagsPlace(i)'
<1> USE DEF IInv, PlugTypeOK, TagsPlace, NoReader
<1>1. CASE OpenTagsFile(i)
  <2>1. reader'[i] # 0 => tagsFile # NoTags /\ ~DeleteTagsFile(i)
    BY <1>1 DEF OpenTagsFile, TagsInv, DeleteTagsFile
  <2>2. TagsPlace(i)'
    BY <1>1 DEF OpenTagsFile, TagsInv, TagsPlace
  <2> QED BY <2>1, <2>2
<1>2. CASE Quit(i) \/ Crash(i)
  BY <1>2, TagsEnd DEF Quit, Crash, Gone
<1>3. CASE DeleteTagsFile(i)
  BY <1>3 DEF DeleteTagsFile, EnterTree, TagsInv
<1>3a. CASE CloseTagsFile(i)
  BY <1>3a DEF CloseTagsFile, uiVars, TagsInv
<1>4. CASE SkipTag(i) \/ SaveToDB(i)
  <2>1. pc[i] = "insert" /\ reader[i] # 0 /\ tagsFile # NoTags /\ ~DeleteTagsFile(i)
    BY <1>4 DEF SkipTag, SaveToDB, TagsInv, DeleteTagsFile
  <2>2. CASE Throws(i)
    BY <2>1, <2>2, TagsEnd DEF Throws
  <2>3. CASE UNCHANGED <<uiVars, pc>> /\ reader' = [reader EXCEPT ![i] = @ + 1]
    <3>1. reader[i] + 1 # 0
      OBVIOUS
    <3> QED BY <2>1, <2>3, <3>1 DEF uiVars, TagsInv, TagsPlace
  <2> QED BY <1>4, <2>2, <2>3 DEF SkipTag, SaveToDB
<1>5. CASE CtagsOpens(i) \/ CtagsEnds(i) \/ CtagsFails(i)
  <2>1. /\ UNCHANGED <<uiVars, reader>> /\ pc[i] \in {"ctags", "writing"}
        /\ pc' = [pc EXCEPT ![i] = "writing"] \/ pc' = [pc EXCEPT ![i] = "import"]
    BY <1>5 DEF CtagsOpens, CtagsEnds, CtagsFails
  <2> QED BY <2>1 DEF TagsInv, TagsPlace, DeleteTagsFile, uiVars
<1>6. CASE \/ Start(i) \/ BufferActivated(i) \/ TagsTree(i)
           \/ JumpToTag(i) \/ Expand(i) \/ Generate(i)
  <2>1. UNCHANGED reader /\ ~DeleteTagsFile(i)
    BY <1>6
    DEF Start, BufferActivated, TagsTree, JumpToTag, Expand, Generate, DeleteTagsFile,
        tagVars
  <2>2. op[i] # "generate" /\ reader[i] = 0 /\ pc[i] \in {"off", "idle"}
    BY <1>6
    DEF Start, BufferActivated, TagsTree, JumpToTag, Expand, Generate, TagsInv
  <2>3. \/ op'[i] # "generate" /\ pc'[i] \in {"idle", "open", "query"}
        \/ op'[i] = "generate" /\ pc'[i] \in {"ctags", "import"}
    BY <1>6, <2>2
    DEF Start, BufferActivated, TagsTree, JumpToTag, Expand, Generate, EnterTree
  <2> QED BY <2>1, <2>2, <2>3 DEF TagsInv
<1>7. CASE \/ DeleteOld(i) \/ Open(i) \/ GetUserVersion(i)
           \/ CheckVersion(i) \/ CreateTables(i) \/ CreateTablesFails(i)
           \/ InitCommit(i) \/ SetUserVersion(i) \/ PrepareInsert(i)
           \/ BeginInsert(i) \/ EndOfTags(i) \/ ImportCommit(i) \/ Finish(i)
  <2>1. pc[i] \in {"delete", "open", "version", "versionRead", "init", "initCommit",
                  "setVersion", "prepare", "begin", "insert", "commit", "finish"}
    BY <1>7
    DEF DeleteOld, Open, GetUserVersion, CheckVersion, CreateTables,
        CreateTablesFails, InitCommit, SetUserVersion, PrepareInsert, BeginInsert,
        EndOfTags, ImportCommit, Finish
  <2>2. \/ Throws(i) \/ Escapes(i)
        \/ \E l \in {"open", "version", "versionRead", "init", "initCommit",
                     "setVersion", AfterOpen(i), AfterInit(i)} : Goto(i, l)
        \/ /\ pc[i] \in {"prepare", "begin", "insert", "commit", "finish"}
           /\ \E l \in {"insert", "commit", "finish", "closeTags"} : Goto(i, l)
    BY <1>7
    DEF DeleteOld, Open, GetUserVersion, CheckVersion, CreateTables,
        CreateTablesFails, InitCommit, SetUserVersion, PrepareInsert, BeginInsert,
        EndOfTags, ImportCommit, Finish
  <2>3. CASE Throws(i) \/ Escapes(i)
    BY <2>1, <2>3, TagsEnd DEF Throws, Escapes, DeleteTagsFile
  <2>4. CASE \E l \in {"open", "version", "versionRead", "init", "initCommit",
                      "setVersion", AfterOpen(i), AfterInit(i)} : Goto(i, l)
    <3>1. /\ AfterOpen(i) \in {"prepare", "query"}
          /\ AfterInit(i) \in {"begin", "query"}
          /\ AfterOpen(i) = "prepare" \/ AfterInit(i) = "begin" => op[i] = "generate"
          /\ AfterOpen(i) = "query" \/ AfterInit(i) = "query" => op[i] # "generate"
      BY DEF AfterOpen, AfterInit
    <3>2. TagsPlace(i)' /\ UNCHANGED reader
      BY <2>1, <2>4, <3>1, TagsGo DEF Pcs
    <3> QED BY <2>1, <3>2 DEF TagsInv, DeleteTagsFile
  <2>5. CASE /\ pc[i] \in {"prepare", "begin", "insert", "commit", "finish"}
             /\ \E l \in {"insert", "commit", "finish", "closeTags"} : Goto(i, l)
    <3>1. op[i] = "generate"
      BY <2>5 DEF TagsInv
    <3>2. TagsPlace(i)' /\ UNCHANGED reader
      BY <2>5, <3>1, TagsGo DEF Pcs
    <3> QED BY <2>1, <3>2 DEF TagsInv, DeleteTagsFile
  <2> QED BY <2>2, <2>3, <2>4, <2>5
<1>8. CASE Query(i) \/ Scan(i)
  <2>1. CASE Throws(i) \/ Done(i)
    BY <1>8, <2>1, TagsEnd DEF Throws, Done, tagVars, Query, Scan, TagsInv, DeleteTagsFile
  <2>2. CASE /\ pc' = [pc EXCEPT ![i] = "scan"]
             /\ UNCHANGED <<op, reader>>
    <3>1. pc[i] = "query"
      BY <1>8, <2>2 DEF Query, Scan, Done, Throws
    <3> QED BY <2>2, <3>1 DEF TagsInv, TagsPlace, DeleteTagsFile
  <2> QED BY <1>8, <2>1, <2>2 DEF Query, Scan, tagVars
<1> QED
  BY <1>1, <1>2, <1>3, <1>3a, <1>4, <1>5, <1>6, <1>7, <1>8 DEF Step, Event

\* The tags file an import needs stays until the import has it.
LEMMA TagsInvNext == IInv /\ TagsInv /\ [Next]_vars => TagsInv'
<1> SUFFICES ASSUME IInv, TagsInv, [Next]_vars PROVE TagsInv'
  OBVIOUS
<1>1. CASE UNCHANGED vars
  BY <1>1 DEF vars, TagsInv, TagsPlace
<1>2. ASSUME NEW i \in Instances, Step(i) \/ Event(i)
      PROVE  TagsInv'
  <2>1. (reader'[i] # 0 => tagsFile' # NoTags) /\ TagsPlace(i)'
    BY <1>2, TagsKept, TagsRead
  <2>2. ASSUME NEW j \in Others(i)
        PROVE  (reader'[j] # 0 => tagsFile' # NoTags) /\ TagsPlace(j)'
    <3>1. /\ pc'[j] = pc[j] /\ op'[j] = op[j] /\ reader'[j] = reader[j]
      BY <1>2, TagsKept, OthersStay
    <3>2. reader[j] # 0 => tagsFile' # NoTags
      BY <1>2, TagsKept DEF TagsInv, CanDeleteTags, Others
    <3> QED BY <3>1, <3>2 DEF TagsInv, TagsPlace, Others
  <2> QED BY <2>1, <2>2 DEF TagsInv, TagsPlace, Others
<1> QED BY <1>1, <1>2 DEF Next

\* Type correctness: every variable keeps its type whatever fails, and no
\* handler forgets the tags file it has open, other than the char* does.
THEOREM TypeCorrect == Spec => []TypeOK
<1>1. Init => TagsInv
  BY DEF Init, TagsInv, TagsPlace, NoReader
<1>2. IInv /\ TagsInv => TypeOK
  BY DEF IInv, TagsInv, TagsPlace, PlugTypeOK, TypeOK
<1> QED BY <1>1, <1>2, TagsInvNext, Invariance, PTL DEF Spec

\* A run of ctags that leaves no tags file costs the user nothing: the old
\* database is deleted only by an import that holds a tags file open.
THEOREM OldDatabaseOutlivesCtags == Spec => OldOutlivesCtags
<1>1. Init => TagsInv
  BY DEF Init, TagsInv, TagsPlace, NoReader
<1>2. IInv /\ TagsInv /\ [Next]_vars =>
        [file.present /\ ~file'.present => tagsFile # NoTags]_vars
  <2> SUFFICES ASSUME IInv, TagsInv, [Next]_vars, file.present, ~file'.present
               PROVE  tagsFile # NoTags
    OBVIOUS
  <2>1. CASE UNCHANGED vars
    BY <2>1 DEF vars
  <2>2. ASSUME NEW i \in Instances, Step(i) \/ Event(i)
        PROVE  tagsFile # NoTags
    <3>1. CASE pc[i] = "delete"
      BY <3>1 DEF TagsInv, TagsPlace, NoReader
    <3>2. CASE pc[i] # "delete"
      BY <2>2, <3>2, FileStep
      DEF DBF!Create, DBF!CreateTables, DBF!Stamp, DBF!Import, IInv, SqliteTypeOK,
          Content
    <3> QED BY <3>1, <3>2
  <2> QED BY <2>1, <2>2 DEF Next
<1> QED BY <1>1, <1>2, TagsInvNext, Invariance, PTL DEF Spec, OldOutlivesCtags

\* A lookup or a tree that goes by a stale name or a stale version destroys
\* nothing: what it writes is the tables and the version of a new database.
THEOREM ReadersAreHarmless == Spec => ReadersKeepRows
<1>1. Init => TagsInv
  BY DEF Init, TagsInv, TagsPlace, NoReader
<1>2. IInv /\ TagsInv /\ [Next]_vars => [ReadersStep]_vars
  <2> SUFFICES ASSUME IInv, TagsInv, Next, NEW j \in Instances,
                      op[j] # "generate", pc'[j] # pc[j], file.present
               PROVE  file'.present /\ file'.rows = file.rows
    BY DEF ReadersStep
  <2>1. ASSUME NEW i \in Instances, Step(i) \/ Event(i)
        PROVE  file'.present /\ file'.rows = file.rows
    <3>1. i = j
      BY <2>1, OthersStay DEF Others
    <3>2. pc[j] \notin {"delete", "commit"}
      BY DEF TagsInv, TagsPlace, NoReader
    <3> QED
      BY <2>1, <3>1, <3>2, FileStep
      DEF DBF!Create, DBF!CreateTables, DBF!Stamp, IInv, SqliteTypeOK, Content
  <2> QED BY <2>1 DEF Next
<1> QED BY <1>1, <1>2, TagsInvNext, Invariance, PTL DEF Spec, ReadersKeepRows
-----------------------------------------------------------------------------
(***************************************************************************)
(* What an import stores. Two imports at once store everything twice, so   *)
(* this is about one at a time; every other instance may start, crash,     *)
(* look up tags and fill its tree in between, and create the database      *)
(* itself.                                                                 *)
(***************************************************************************)
OneGenerates == \A i, j \in Instances : op[i] = "generate" /\ op[j] = "generate" => i = j

\* The rows after the first r - 1 entries of the tags file.
StoredBefore(s, r, t) == {k \in 1..(r - 1) : s[k] = t /\ Stored(s, k)}
Filled(s, r) == [t \in Tags |-> Cardinality(StoredBefore(s, r, t))]

\* The entries in front of r are finitely many, and r is not one of them.
LEMMA StoredBeforeFinite ==
  ASSUME NEW s, NEW r \in Nat \ {0}, NEW t
  PROVE  /\ IsFiniteSet(StoredBefore(s, r, t))
         /\ r \notin StoredBefore(s, r, t)
<1>1. IsFiniteSet(1..(r - 1))
  BY FS_Interval
<1>2. StoredBefore(s, r, t) \in SUBSET (1..(r - 1))
  BY DEF StoredBefore
<1> QED
  BY <1>1, <1>2, FS_Subset

\* Before the first entry the table is empty.
LEMMA FilledStart == \A s : Filled(s, 1) = NoRows
<1>1. \A s, t : StoredBefore(s, 1, t) = {}
  BY DEF StoredBefore
<1> QED
  BY <1>1, FS_EmptySet DEF Filled, NoRows

\* One entry that is stored adds one row, one that is passed over none.
LEMMA FilledNext ==
  ASSUME NEW s \in Seq(Tags), NEW r \in 1..Len(s),
         \A k \in 1..r : s[k] \notin Malformed
  PROVE  /\ s[r] \in Skipped => Filled(s, r + 1) = Filled(s, r)
         /\ s[r] \notin Skipped =>
              Filled(s, r + 1) = [Filled(s, r) EXCEPT ![s[r]] = @ + 1]
<1>1. r \in Nat \ {0} /\ 1..r = (1..(r - 1)) \cup {r} /\ (r + 1) - 1 = r
  OBVIOUS
<1>2. Stored(s, r) <=> s[r] \notin Skipped
  BY DEF Stored
<1>3. ASSUME NEW t \in Tags
      PROVE  StoredBefore(s, r + 1, t) =
               IF s[r] = t /\ s[r] \notin Skipped
                 THEN StoredBefore(s, r, t) \cup {r} ELSE StoredBefore(s, r, t)
  BY <1>1, <1>2 DEF StoredBefore
<1>4. ASSUME NEW t \in Tags
      PROVE  Cardinality(StoredBefore(s, r + 1, t)) =
               IF s[r] = t /\ s[r] \notin Skipped
                 THEN Cardinality(StoredBefore(s, r, t)) + 1
                 ELSE Cardinality(StoredBefore(s, r, t))
  BY <1>1, <1>3, StoredBeforeFinite, FS_AddElement
<1> QED
  BY <1>4 DEF Filled

\* At the end, or at a line it gives up on, all is stored that ever will be.
LEMMA FilledEnd ==
  ASSUME NEW s \in Seq(Tags), NEW r \in 1..(Len(s) + 1),
         r > Len(s) \/ s[r] \in Malformed
  PROVE  Filled(s, r) = Accepted(s)
<1>1. DOMAIN s = 1..Len(s) /\ Len(s) \in Nat
  OBVIOUS
<1>2. ASSUME NEW k \in 1..Len(s), k >= r
      PROVE  ~Stored(s, k)
  <2>1. r \in 1..k /\ s[r] \in Malformed
    BY <1>1, <1>2
  <2> QED BY <2>1 DEF Stored
<1>3. ASSUME NEW t \in Tags
      PROVE  {k \in DOMAIN s : s[k] = t /\ Stored(s, k)} = StoredBefore(s, r, t)
  BY <1>1, <1>2 DEF StoredBefore
<1> QED
  BY <1>3 DEF Filled, Accepted

\* How far the import of instance i has come: the old database is gone, then
\* the draft holds what has been read, and then the file holds all of it.
ImportPart(i) == op[i] = "generate" =>
  /\ pc[i] = "delete" => reader[i] = 1
  /\ pc[i] \in {"open", "version", "versionRead", "init", "initCommit",
                "setVersion", "prepare", "begin"} => reader[i] = 1 /\ file.rows = NoRows
  /\ pc[i] \in {"insert", "commit"} =>
       /\ reader[i] \in 1..(Len(tagsFile) + 1)
       /\ \A k \in 1..(reader[i] - 1) : tagsFile[k] \notin Malformed
       /\ View(i).rows = Filled(tagsFile, reader[i])
  /\ pc[i] = "commit" => AtEnd(i)
  /\ pc[i] \in {"finish", "closeTags", "deleteTags"} => file.rows = Accepted(tagsFile)

WholeInv ==
  /\ ~file.present => file.rows = NoRows
  /\ \A i \in Instances : ImportPart(i)

\* The tags file that is read is a file.
LEMMA TagsFileIs ==
  ASSUME IInv, TagsInv, NEW i \in Instances, reader[i] # 0
  PROVE  tagsFile \in Seq(Tags)
BY DEF IInv, PlugTypeOK, TagsInv

\* The steps that leave nothing to be shown, or the same.
LEMMA ImportOver ==
  ASSUME IInv, NEW i \in Instances,
         op'[i] # "generate" \/ pc'[i] \in {"off", "idle", "ctags", "writing", "import", "query", "scan"}
  PROVE  ImportPart(i)'
BY DEF ImportPart

\* The import has not yet read a row.
LEMMA ImportBegins ==
  ASSUME IInv, WholeInv, NEW i \in Instances, UNCHANGED <<op, reader>>,
         pc[i] \in {"open", "version", "versionRead", "init", "initCommit", "setVersion"},
         pc'[i] \in {"version", "versionRead", "init", "initCommit", "setVersion",
                     "prepare", "begin"},
         file'.rows = file.rows
  PROVE  ImportPart(i)'
BY DEF WholeInv, ImportPart

\* Writing one entry, or passing over it.
LEMMA ImportGoesOn ==
  ASSUME IInv, TagsInv, WholeInv, NEW i \in Instances, SkipTag(i) \/ SaveToDB(i)
  PROVE  ImportPart(i)'
<1> USE DEF IInv, PlugTypeOK, SqliteTypeOK
<1> DEFINE r == reader[i]
<1>1. /\ pc[i] = "insert" /\ ~AtEnd(i) /\ op[i] = "generate" /\ r # 0
      /\ tagsFile \in Seq(Tags)
  BY TagsFileIs DEF SkipTag, SaveToDB, TagsInv, TagsPlace, NoReader
<1>2. /\ r \in 1..(Len(tagsFile) + 1)
      /\ \A k \in 1..(r - 1) : tagsFile[k] \notin Malformed
      /\ View(i).rows = Filled(tagsFile, r)
  BY <1>1 DEF WholeInv, ImportPart
<1>3. r \in 1..Len(tagsFile) /\ \A k \in 1..r : tagsFile[k] \notin Malformed
  BY <1>1, <1>2 DEF AtEnd
<1>3a. /\ tagsFile[r] \in Skipped => Filled(tagsFile, r + 1) = Filled(tagsFile, r)
       /\ tagsFile[r] \notin Skipped =>
            Filled(tagsFile, r + 1) = [Filled(tagsFile, r) EXCEPT ![tagsFile[r]] = @ + 1]
  <2>1. ASSUME NEW s \in Seq(Tags), NEW n \in 1..Len(s),
               \A k \in 1..n : s[k] \notin Malformed
        PROVE  /\ s[n] \in Skipped => Filled(s, n + 1) = Filled(s, n)
               /\ s[n] \notin Skipped =>
                    Filled(s, n + 1) = [Filled(s, n) EXCEPT ![s[n]] = @ + 1]
    BY <2>1, FilledNext
  <2> HIDE DEF r
  <2> QED BY <1>1, <1>3, <2>1
<1>4. CASE Throws(i)
  BY <1>4, ImportOver DEF Throws
<1>5. ASSUME UNCHANGED <<uiVars, pc, tagsFile, stuck>>, reader' = [reader EXCEPT ![i] = @ + 1],
             View(i)'.rows = Filled(tagsFile, r + 1)
      PROVE  ImportPart(i)'
  <2>1. reader'[i] = r + 1
    BY <1>5
  <2>1a. r + 1 \in 1..(Len(tagsFile) + 1) /\ (r + 1) - 1 = r
    <3> HIDE DEF r
    <3> QED BY <1>1, <1>3
  <2>2. op' = op /\ pc' = pc /\ tagsFile' = tagsFile
    BY <1>5 DEF uiVars
  <2> QED BY <1>1, <1>3, <1>5, <2>1, <2>1a, <2>2 DEF ImportPart
<1>6. CASE SkipTag(i)
  <2>1. tagsFile[r] \in Skipped /\ View(i)' = View(i)
    BY <1>6 DEF SkipTag, View, sqliteVars
  <2>2. View(i)'.rows = Filled(tagsFile, r + 1)
    BY <1>2, <1>3a, <2>1
  <2> QED BY <1>5, <1>6, <2>2 DEF SkipTag
<1>7. CASE SaveToDB(i) /\ ~Throws(i)
  <2>1. PICK l \in LockAfterWrite(i) :
          /\ Write(i, [View(i) EXCEPT !.rows[tagsFile[r]] = @ + 1], l)
          /\ reader' = [reader EXCEPT ![i] = @ + 1]
          /\ UNCHANGED <<uiVars, pc, tagsFile, stuck>>
    BY <1>7 DEF SaveToDB
  <2>2. l \in WriteLocks
    <3>1. lock[i] \in {"none"} \cup WriteLocks
      BY <1>1 DEF PcInv, Locks
    <3> QED BY <3>1 DEF LockAfterWrite, WriteLocks
  <2>3. View(i)' = [View(i) EXCEPT !.rows[tagsFile[r]] = @ + 1]
    BY <2>1, <2>2 DEF Write, View
  <2>4. View(i) \in Content
    BY DEF View
  <2>5. View(i)'.rows = [View(i).rows EXCEPT ![tagsFile[r]] = @ + 1]
    BY <2>3, <2>4 DEF Content
  <2>6. tagsFile[r] \notin Skipped
    BY <1>7 DEF SaveToDB
  <2>7. View(i)'.rows = Filled(tagsFile, r + 1)
    BY <1>2, <1>3a, <2>5, <2>6
  <2> QED BY <1>5, <2>1, <2>7
<1> QED BY <1>4, <1>6, <1>7

\* The end of the tags file, and the commit.
LEMMA ImportEnds ==
  ASSUME IInv, TagsInv, WholeInv, NEW i \in Instances, EndOfTags(i) \/ ImportCommit(i)
  PROVE  /\ ImportPart(i)'
         /\ UNCHANGED file \/ file'.rows = Accepted(tagsFile)
<1> USE DEF IInv, PlugTypeOK, SqliteTypeOK
<1>1. /\ pc[i] \in {"insert", "commit"} /\ op[i] = "generate" /\ reader[i] # 0
      /\ tagsFile \in Seq(Tags)
  BY TagsFileIs DEF EndOfTags, ImportCommit, TagsInv, TagsPlace, NoReader
<1>2. /\ reader[i] \in 1..(Len(tagsFile) + 1)
      /\ View(i).rows = Filled(tagsFile, reader[i])
      /\ pc[i] = "commit" => AtEnd(i)
  BY <1>1 DEF WholeInv, ImportPart
<1>3. CASE EndOfTags(i)
  <2>1. /\ AtEnd(i)' /\ View(i)' = View(i) /\ UNCHANGED <<file, tagsFile, reader, op>>
        /\ pc[i] = "insert" /\ pc'[i] = "commit"
    BY <1>3 DEF EndOfTags, Goto, AtEnd, View, sqliteVars, tagVars, uiVars
  <2> QED BY <1>1, <2>1 DEF WholeInv, ImportPart
<1>4. CASE ImportCommit(i) /\ Escapes(i)
  <2>1. UNCHANGED file
    BY <1>4 DEF ImportCommit, Goto, Escapes, CommitBusy, AutoRollback
  <2> QED BY <1>4, <2>1, ImportOver DEF Escapes
<1>5. CASE ImportCommit(i) /\ ~Escapes(i)
  <2>1. /\ pc[i] = "commit" /\ file' = View(i)
        /\ pc'[i] = "finish" /\ UNCHANGED tagsFile
    BY <1>5 DEF ImportCommit, Commit, Goto, tagVars
  <2>2. Filled(tagsFile, reader[i]) = Accepted(tagsFile)
    BY <1>1, <1>2, <2>1, FilledEnd DEF AtEnd
  <2> QED BY <1>2, <2>1, <2>2 DEF ImportPart
<1> QED BY <1>3, <1>4, <1>5

\* From the deletion of the old database to the first entry.
LEMMA ImportCreates ==
  ASSUME IInv, TagsInv, WholeInv, NEW i \in Instances,
         \/ DeleteOld(i) \/ Open(i) \/ GetUserVersion(i) \/ CheckVersion(i)
         \/ CreateTables(i) \/ CreateTablesFails(i) \/ InitCommit(i)
         \/ SetUserVersion(i) \/ PrepareInsert(i) \/ BeginInsert(i)
  PROVE  ImportPart(i)'
<1> USE DEF IInv, PlugTypeOK, SqliteTypeOK
<1>1. CASE Throws(i) \/ Escapes(i)
  BY <1>1, ImportOver DEF Throws, Escapes
<1>2. CASE op[i] # "generate" /\ UNCHANGED op
  BY <1>2, ImportOver
<1>3. CASE DeleteOld(i) /\ ~Throws(i)
  <2>1. /\ pc'[i] = "open" /\ pc[i] = "delete" /\ UNCHANGED <<reader, op>>
        /\ file'.rows = NoRows
    BY <1>3 DEF DeleteOld, DeleteFile, Goto, uiVars, tagVars, Absent
  <2> QED BY <2>1 DEF WholeInv, ImportPart
<1>4. CASE (PrepareInsert(i) \/ BeginInsert(i)) /\ ~Throws(i) /\ op[i] = "generate"
  <2>1. /\ pc'[i] = "insert" /\ pc[i] \in {"prepare", "begin"} /\ UNCHANGED <<reader, op, tagsFile>>
        /\ UNCHANGED <<file, lock, draft>>
    BY <1>4 DEF PrepareInsert, BeginInsert, Begin, Goto, uiVars, tagVars
  <2>2. reader[i] = 1 /\ file.rows = NoRows /\ lock[i] = "none"
    BY <1>4, <2>1 DEF WholeInv, ImportPart, PcInv
  <2>3. tagsFile \in Seq(Tags)
    BY <2>2, TagsFileIs
  <2>4. View(i)'.rows = Filled(tagsFile, 1)
    BY <2>1, <2>2, FilledStart DEF View, WriteLocks
  <2>5. 1 \in 1..(Len(tagsFile) + 1) /\ 1..(1 - 1) = {}
    BY <2>3
  <2> QED BY <2>1, <2>2, <2>4, <2>5 DEF ImportPart
<1>5. CASE /\ ~Throws(i) /\ ~Escapes(i) /\ op[i] = "generate"
           /\ \/ Open(i) \/ GetUserVersion(i) \/ CheckVersion(i)
              \/ CreateTables(i) \/ InitCommit(i) \/ SetUserVersion(i)
  <2>1. /\ UNCHANGED <<op, reader>>
        /\ pc[i] \in {"open", "version", "versionRead", "init", "initCommit", "setVersion"}
        /\ pc'[i] \in {"version", "versionRead", "init", "initCommit", "setVersion",
                       "prepare", "begin"}
    BY <1>5 DEF Open, GetUserVersion, CheckVersion, CreateTables, InitCommit,
      SetUserVersion, Goto, AfterOpen, AfterInit, uiVars, tagVars
  <2>2. file.rows = NoRows
    BY <1>5, <2>1 DEF WholeInv, ImportPart
  <2>3. pc[i] \notin {"delete", "commit"}
    BY <2>1
  <2>4. file'.rows = file.rows
    BY <1>5, <2>2, <2>3, FileStep
    DEF Step, DBF!Create, DBF!CreateTables, DBF!Stamp, DBF!Nothing, DBF!NoRows,
        NoRows, Content
  <2> QED BY <2>1, <2>4, ImportBegins
<1> QED
  BY <1>1, <1>2, <1>3, <1>4, <1>5 DEF DeleteOld, Open, GetUserVersion, CheckVersion,
    CreateTables, CreateTablesFails, InitCommit, SetUserVersion, PrepareInsert,
    BeginInsert, Goto, uiVars

\* A step of instance i, for its own import.
LEMMA ImportOwn ==
  ASSUME IInv, TagsInv, WholeInv, NEW i \in Instances, Step(i) \/ Event(i)
  PROVE  ImportPart(i)'
<1> USE DEF IInv, PlugTypeOK
<1>1. CASE CtagsOpens(i) \/ CtagsEnds(i) \/ CtagsFails(i)
  BY <1>1, ImportOver DEF CtagsOpens, CtagsEnds, CtagsFails
<1>2. CASE OpenTagsFile(i)
  BY <1>2 DEF OpenTagsFile, ImportPart
<1>3. CASE Quit(i) \/ Crash(i) \/ DeleteTagsFile(i)
  <2>1. op'[i] # "generate"
    BY <1>3 DEF Quit, Crash, Gone, DeleteTagsFile, EnterTree
  <2> QED BY <2>1, ImportOver
<1>3a. CASE Finish(i) \/ CloseTagsFile(i)
  <2>1. /\ UNCHANGED <<file, tagsFile, op>>
        /\ pc[i] \in {"finish", "closeTags"} /\ pc'[i] \in {"closeTags", "deleteTags"}
    BY <1>3a DEF Finish, CloseTagsFile, CloseConn, Goto, sqliteVars, uiVars, tagVars
  <2> QED BY <2>1 DEF WholeInv, ImportPart
<1>4. CASE \/ Start(i) \/ BufferActivated(i) \/ TagsTree(i)
           \/ JumpToTag(i) \/ Expand(i) \/ Generate(i)
  <2>1. pc[i] \in {"off", "idle"} /\ op[i] # "generate"
    BY <1>4 DEF Start, BufferActivated, TagsTree, JumpToTag, Expand, Generate, TagsInv,
      TagsPlace
  <2> QED BY <1>4, <2>1, ImportOver
    DEF Start, BufferActivated, TagsTree, JumpToTag, Expand, Generate, EnterTree
<1>5. CASE Query(i) \/ Scan(i)
  BY <1>5, ImportOver DEF Query, Scan, Throws, Done
<1> QED
  BY <1>1, <1>2, <1>3, <1>3a, <1>4, <1>5, ImportCreates, ImportGoesOn, ImportEnds
  DEF Step, Event

\* A step of instance i, for the import of another: it is not importing, and
\* so leaves the tags file, the rows and the draft of the other alone.
LEMMA ImportOther ==
  ASSUME IInv, TagsInv, WholeInv, OneGenerates,
         NEW i \in Instances, Step(i) \/ Event(i), NEW j \in Others(i)
  PROVE  ImportPart(j)'
<1> USE DEF IInv, PlugTypeOK, SqliteTypeOK, Others
<1>1. SUFFICES ASSUME op[j] = "generate" PROVE ImportPart(j)'
  BY OthersStay DEF ImportPart
<1>2. op[i] # "generate"
  BY <1>1 DEF OneGenerates
<1>3. pc[i] \notin {"ctags", "writing", "import", "delete", "insert", "commit",
                   "deleteTags"}
  BY <1>2 DEF TagsInv, TagsPlace, NoReader
<1>4. UNCHANGED tagsFile
  BY <1>3 DEF Step, Event, Start, Quit, Crash, Gone, BufferActivated, TagsTree,
    JumpToTag, Expand, Generate, CtagsOpens, CtagsEnds, CtagsFails, OpenTagsFile,
    DeleteOld, Open, GetUserVersion, CheckVersion, CreateTables, CreateTablesFails,
    InitCommit, SetUserVersion, PrepareInsert, BeginInsert, SkipTag, SaveToDB,
    EndOfTags, ImportCommit, Finish, CloseTagsFile, DeleteTagsFile, Query, Scan, Goto, Done, Throws, Escapes, tagVars
<1>5. file'.rows = file.rows
  BY <1>3, FileStep
  DEF WholeInv, DBF!Create, DBF!CreateTables, DBF!Stamp, DBF!Nothing, DBF!NoRows,
      NoRows, Content
<1>6. lock'[j] = lock[j] /\ draft'[j] = draft[j]
  <2>1. CASE Step(i)
    BY <2>1
    DEF Step, CtagsOpens, CtagsEnds, CtagsFails, OpenTagsFile, DeleteOld, Open,
      GetUserVersion, CheckVersion, CreateTables, CreateTablesFails, InitCommit,
      SetUserVersion, PrepareInsert, BeginInsert, SkipTag, SaveToDB, EndOfTags,
      ImportCommit, CloseTagsFile, DeleteTagsFile,
      Finish, Query, Scan, sqliteVars, OpenFile, OpenFileFails, CloseConn,
      DeleteFile, Begin, Write, Commit, CommitBusy, AutoRollback, StartRead, EndRead
  <2>2. CASE Event(i)
    BY <2>2 DEF Event, Start, Quit, Crash, Gone, BufferActivated, TagsTree,
      JumpToTag, Expand, Generate, sqliteVars, CloseConn
  <2> QED BY <2>1, <2>2
<1>7. pc'[j] = pc[j] /\ op'[j] = op[j] /\ reader'[j] = reader[j]
  BY OthersStay, TagsKept
<1>8. View(j)'.rows = View(j).rows
  BY <1>5, <1>6 DEF View
<1>9. AtEnd(j)' = AtEnd(j)
  BY <1>4, <1>7 DEF AtEnd
<1> QED
  BY <1>4, <1>5, <1>7, <1>8, <1>9 DEF WholeInv, ImportPart

\* What a step does to the rows of a database that is there after it.
LEMMA RowsStep ==
  ASSUME IInv, TagsInv, WholeInv, NEW i \in Instances, Step(i) \/ Event(i)
  PROVE  /\ file'.present /\ file'.rows # file.rows => file'.rows = Accepted(tagsFile)
         /\ ~file'.present => file'.rows = NoRows
<1> USE DEF IInv, SqliteTypeOK
<1>1. CASE pc[i] = "commit"
  <2>1. UNCHANGED file \/ ImportCommit(i)
    BY <1>1, FileStep DEF Step, Event, Start, Quit, Crash, Gone, BufferActivated,
      TagsTree, JumpToTag, Expand, Generate, CtagsOpens, CtagsEnds, CtagsFails,
      OpenTagsFile, DeleteOld, Open, GetUserVersion, CheckVersion, CreateTables,
      CreateTablesFails, InitCommit, SetUserVersion, PrepareInsert, BeginInsert,
      SkipTag, SaveToDB, EndOfTags, Finish, CloseTagsFile, DeleteTagsFile, Query, Scan, sqliteVars, CloseConn
  <2>2. file.present
    BY <1>1 DEF PcInv, Connected, ConnInv
  <2>3. file'.present
    BY <2>2, <1>1, FileStep
    DEF DBF!Create, DBF!CreateTables, DBF!Stamp, DBF!Import, Content
  <2> QED BY <2>1, <2>3, ImportEnds DEF WholeInv
<1>2. CASE pc[i] # "commit"
  <2>1. CASE DBF!Remove
    BY <2>1 DEF DBF!Remove, DBF!Nothing, DBF!NoRows, NoRows
  <2>2. CASE DBF!Create
    BY <2>2 DEF WholeInv, DBF!Create, DBF!Nothing, DBF!NoRows, NoRows
  <2>3. CASE DBF!CreateTables \/ DBF!Stamp
    BY <2>3 DEF WholeInv, DBF!CreateTables, DBF!Stamp, Content
  <2>4. CASE UNCHANGED file
    BY <2>4 DEF WholeInv
  <2> QED BY <1>2, <2>1, <2>2, <2>3, <2>4, FileStep
<1> QED BY <1>1, <1>2

\* Both parts of the invariant are kept, as long as one instance imports.
LEMMA WholeInvNext == IInv /\ TagsInv /\ WholeInv /\ OneGenerates /\ [Next]_vars => WholeInv'
<1> SUFFICES ASSUME IInv, TagsInv, WholeInv, OneGenerates, [Next]_vars PROVE WholeInv'
  OBVIOUS
<1>1. CASE UNCHANGED vars
  BY <1>1 DEF vars, WholeInv, ImportPart, AtEnd, View
<1>2. ASSUME NEW i \in Instances, Step(i) \/ Event(i)
      PROVE  WholeInv'
  BY <1>2, RowsStep, ImportOwn, ImportOther DEF WholeInv, Others
<1> QED BY <1>1, <1>2 DEF Next

\* The invariant holds at the start.
LEMMA WholeInvInit == Init => WholeInv
<1> SUFFICES ASSUME Init PROVE WholeInv
  OBVIOUS
<1>1. ~file.present => file.rows = NoRows
  BY DEF Init, Absent, Database
<1>2. \A i \in Instances : op[i] # "generate"
  BY DEF Init
<1> QED BY <1>1, <1>2 DEF WholeInv, ImportPart

\* As long as one instance imports at a time: what reaches the disk is all
\* that the tags file offers, or nothing of it, wherever the import is cut
\* off and whatever the others do.
THEOREM ImportsAreWhole == Spec /\ []OneGenerates => ImportIsWhole
<1>1. Init => TagsInv
  BY DEF Init, TagsInv, TagsPlace, NoReader
<1>2. IInv /\ TagsInv /\ WholeInv /\ [Next]_vars =>
        [file'.present /\ file'.rows # file.rows => file'.rows = Accepted(tagsFile)]_vars
  BY RowsStep DEF Next
<1> QED
  BY <1>1, <1>2, WholeInvInit, WholeInvNext, TagsInvNext, Invariance, PTL
  DEF Spec, ImportIsWhole

\* An entry that can be searched for is stored if nothing before it is a
\* line that cannot be read.
LEMMA AcceptedIsWanted ==
  ASSUME NEW s \in Seq(Tags), \A k \in DOMAIN s : s[k] \notin Malformed
  PROVE  Accepted(s) = Wanted(s)
<1>1. \A k \in DOMAIN s : 1..k \subseteq DOMAIN s
  OBVIOUS
<1>2. \A k \in DOMAIN s : Stored(s, k) <=> s[k] \notin Skipped
  BY <1>1 DEF Stored
<1>3. ASSUME NEW t \in Tags
      PROVE  {k \in DOMAIN s : s[k] = t /\ Stored(s, k)}
               = {k \in DOMAIN s : s[k] = t /\ t \notin Skipped}
  BY <1>2
<1> QED BY <1>3 DEF Accepted, Wanted

\* As long as one instance imports at a time: the plug-in deletes the tags
\* file only when the database on the disk has all that the import could
\* read of it, which is everything there is to search for in a file without
\* a line that cannot be read.
THEOREM TagsFileIsImported == Spec /\ []OneGenerates => TagsFileOutlivesImport
<1>1. Init => TagsInv
  BY DEF Init, TagsInv, TagsPlace, NoReader
<1>2. IInv /\ TagsInv /\ WholeInv /\ [Next]_vars =>
        [tagsFile # NoTags /\ tagsFile' = NoTags =>
           /\ file.rows = Accepted(tagsFile)
           /\ (\A k \in DOMAIN tagsFile : tagsFile[k] \notin Malformed)
                => file.rows = Wanted(tagsFile)]_vars
  <2> SUFFICES ASSUME IInv, TagsInv, WholeInv, Next, tagsFile # NoTags, tagsFile' = NoTags
               PROVE  /\ file.rows = Accepted(tagsFile)
                      /\ (\A k \in DOMAIN tagsFile : tagsFile[k] \notin Malformed)
                           => file.rows = Wanted(tagsFile)
    OBVIOUS
  <2>1. PICK i \in Instances : DeleteTagsFile(i)
    BY TagsKept DEF Next
  <2>2. op[i] = "generate"
    BY <2>1 DEF DeleteTagsFile, TagsInv, TagsPlace, NoReader
  <2>3. file.rows = Accepted(tagsFile)
    BY <2>1, <2>2 DEF DeleteTagsFile, WholeInv, ImportPart
  <2>4. tagsFile \in Seq(Tags)
    BY DEF IInv, PlugTypeOK
  <2> QED BY <2>3, <2>4, AcceptedIsWanted
<1> QED
  BY <1>1, <1>2, WholeInvInit, WholeInvNext, TagsInvNext, Invariance, PTL
  DEF Spec, TagsFileOutlivesImport

\* With a single instance nothing else is needed.
THEOREM SingleImportIsWhole ==
  ASSUME \A i, j \in Instances : i = j
  PROVE  Spec => ImportIsWhole /\ TagsFileOutlivesImport
<1>1. OneGenerates
  BY DEF OneGenerates
<1> QED
  BY <1>1, ImportsAreWhole, TagsFileIsImported, PTL

=============================================================================
