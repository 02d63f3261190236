---------------------------- MODULE Pager_proof -----------------------------
(***************************************************************************)
(* For any number of programs, pages and transactions: each place in the   *)
(* pager has the lock it needs, and so no two programs write at once.      *)
(*                                                                         *)
(* And the lemmas on pages, journals and the disk that PagerAtomic_proof   *)
(* needs: which writes, syncs and losses of power keep what a playback     *)
(* would restore.                                                          *)
(***************************************************************************)
EXTENDS Pager, TLAPS, FiniteSetTheorems, WellFoundedInduction

\* The calls of the search for a hot journal (and where it ends when it
\* fails), of a playback, of a commit.
Looking == {"exists", "reserved", "count", "drop", "peek", "hot", "validate", "failed"}
Replaying == {"truncate", "replay", "resync", "delete"}
Flushing == {"header", "sync", "write", "syncdb", "finish"}

\* The types that the proof on locks needs; TypeOK has the others as well.
Types ==
  /\ FL!LockTypeOK
  /\ state \in [Procs -> DOMAIN Rank]
  /\ pc \in [Procs -> Calls]
  /\ dirty \in [Procs -> SUBSET Pages]

\* The lock that a program has, by the state of its pager and its next call.
Closed(i) == state[i] = "closed" /\ pc[i] = "idle" /\ lock[i] = "none"
Starting(i) ==
  /\ state[i] = "open"
  /\ \/ pc[i] = "idle" /\ lock[i] = "none"
     \/ pc[i] \in Looking /\ lock[i] = "shared"
     \/ pc[i] = "dropped" /\ lock[i] = "reserved"
     \/ pc[i] = "wait" /\ lock[i] = "recovering"
     \/ pc[i] \in {"found"} \cup Replaying /\ lock[i] = "exclusive"
     \/ pc[i] = "unlock" /\ lock[i] \in Preparing
Reader(i) == state[i] = "reader" /\ pc[i] = "idle" /\ lock[i] = "shared"
Locked(i) == state[i] = "locked" /\ pc[i] \in {"idle", "unlock"} /\ lock[i] \in Preparing
CacheMod(i) ==
  /\ state[i] = "cachemod"
  /\ \/ pc[i] \in {"idle", "delete", "unlock"} /\ lock[i] \in Preparing
     \/ pc[i] = "excl" /\ lock[i] \in {"reserved", "pending"}
     \/ pc[i] \in {"header", "sync"} /\ lock[i] = "exclusive"
DbMod(i) ==
  /\ state[i] = "dbmod" /\ lock[i] = "exclusive"
  /\ pc[i] \in {"idle", "unlock"} \cup Replaying \cup Flushing

\* Nothing is left to be written where no transaction is, or it is over.
Clean(i) ==
  state[i] \notin {"cachemod", "dbmod"}
    \/ pc[i] \in {"syncdb", "finish", "unlock"} \cup Replaying => dirty[i] = {}

Local(i) ==
  /\ Closed(i) \/ Starting(i) \/ Reader(i) \/ Locked(i) \/ CacheMod(i) \/ DbMod(i)
  /\ Clean(i)

\* The inductive invariant of the locks.
IInv == Types /\ FL!MutualExclusion /\ \A i \in Procs : Local(i)

-----------------------------------------------------------------------------
\* The order of the states of the pager, spelled out.
LEMMA RankValues ==
  /\ DOMAIN Rank = {"closed", "open", "reader", "locked", "cachemod", "dbmod"}
  /\ \A i \in Procs : state[i] \in DOMAIN Rank =>
       /\ Reading(i) <=> state[i] \in {"reader", "locked", "cachemod", "dbmod"}
       /\ Writing(i) <=> state[i] \in {"cachemod", "dbmod"}
BY DEF Rank, Reading, Writing

\* How the lock of a program moves: by the rules of FileLock.
LockMoves(i) ==
  \/ UNCHANGED lock
  \/ FL!Share(i) \/ FL!Reserve(i) \/ FL!Pend(i) \/ FL!Exclude(i)
  \/ Unlock(i, "none")
  \/ lock[i] \in Preparing /\ Unlock(i, "shared")

\* One connection takes or gives a lock as the protocol allows.
LEMMA LocksNext ==
  ASSUME FL!LockTypeOK, FL!MutualExclusion, NEW i \in Procs, LockMoves(i)
  PROVE  FL!LockTypeOK' /\ FL!MutualExclusion'
<1> USE DEF FL!LockTypeOK, FL!MutualExclusion, FL!Levels, FL!Pendings, FL!SetLock, FL!NoneHas
<1>1. CASE UNCHANGED lock
  BY <1>1
<1>2. CASE FL!Share(i)
  BY <1>2 DEF FL!Share
<1>3. CASE FL!Reserve(i)
  BY <1>3 DEF FL!Reserve
<1>4. CASE FL!Pend(i)
  BY <1>4 DEF FL!Pend
<1>5. CASE FL!Exclude(i)
  BY <1>5 DEF FL!Exclude
<1>6. CASE Unlock(i, "none")
  BY <1>6 DEF Unlock, Set
<1>7. CASE lock[i] \in Preparing /\ Unlock(i, "shared")
  BY <1>7 DEF Unlock, Set, Preparing
<1> QED
  BY <1>1, <1>2, <1>3, <1>4, <1>5, <1>6, <1>7 DEF LockMoves

\* What a step of one program is for the locks and the places of all.
Moves(i) ==
  /\ LockMoves(i)
  /\ state' \in [Procs -> DOMAIN Rank]
  /\ pc' \in [Procs -> Calls]
  /\ dirty' \in [Procs -> SUBSET Pages]
  /\ \A j \in Procs \ {i} : state'[j] = state[j] /\ pc'[j] = pc[j] /\ dirty'[j] = dirty[j]

\* A step of one connection that keeps its own part keeps the invariant.
LEMMA MovesNext ==
  ASSUME IInv, NEW i \in Procs, Moves(i), Local(i)'
  PROVE  IInv'
<1>1. FL!LockTypeOK' /\ FL!MutualExclusion'
  BY LocksNext DEF IInv, Types, Moves
<1>2. Types'
  BY <1>1 DEF IInv, Types, Moves
<1>3. \A j \in Procs \ {i} : /\ lock'[j] = lock[j] /\ state'[j] = state[j]
                             /\ pc'[j] = pc[j] /\ dirty'[j] = dirty[j]
  <2>1. \A j \in Procs \ {i} : lock'[j] = lock[j]
    BY DEF IInv, Types, FL!LockTypeOK, Moves, LockMoves, FL!Share, FL!Reserve, FL!Pend,
           FL!Exclude, FL!SetLock, Unlock, Set
  <2> QED
    BY <2>1 DEF IInv, Types, Moves
<1>4. \A j \in Procs \ {i} : Local(j)'
  BY <1>3 DEF IInv, Local, Closed, Starting, Reader, Locked, CacheMod, DbMod, Clean
<1> QED
  BY <1>1, <1>2, <1>4 DEF IInv

\* Towards a SHARED lock, and through a recovery.
LEMMA RecoveringMoves ==
  ASSUME IInv, NEW i \in Procs, Recovering(i)
  PROVE  Moves(i) /\ Local(i)'
<1>1. Types /\ Local(i)
  BY DEF IInv
<1> USE <1>1, RankValues DEF Types, FL!LockTypeOK, Moves, LockMoves, Local, Closed, Starting,
        Reader, Locked, CacheMod, DbMod, Clean, Looking, Replaying, Flushing, Preparing, Calls, Set
<1>2. CASE SharedLock(i)
  BY <1>2 DEF SharedLock, FL!Share, FL!SetLock, Call, memory, pages
<1>3. CASE JournalExists(i)
  BY <1>3 DEF JournalExists, Call, memory, pages
<1>4. CASE CheckReserved(i)
  BY <1>4 DEF CheckReserved, Call, memory, pages
<1>5. CASE CountPages(i)
  BY <1>5 DEF CountPages, Call, memory, pages
<1>6. CASE DropReserve(i)
  BY <1>6 DEF DropReserve, FL!Reserve, FL!SetLock, Call, memory, pages
<1>7. CASE DropJournal(i)
  BY <1>7 DEF DropJournal, Call, memory, pages
<1>8. CASE PeekJournal(i)
  BY <1>8 DEF PeekJournal, Call, memory, pages
<1>9. CASE HotLock(i)
  BY <1>9 DEF HotLock, FL!Pend, FL!SetLock, Call, memory, pages
<1>10. CASE HotExclude(i)
  BY <1>10 DEF HotExclude, FL!Exclude, FL!SetLock, Call, memory, pages
<1>11. CASE SearchFails(i)
  BY <1>11 DEF SearchFails, Leave, GiveUp, Unlock, ForgetTransaction
<1>12. CASE Found(i)
  BY <1>12 DEF Found, Call, pages
<1>13. CASE Validate(i)
  BY <1>13 DEF Validate
<1>14. CASE CannotOpen(i)
  BY <1>14 DEF CannotOpen, StepDown, GiveUp, Unlock, ForgetTransaction
<1> QED
  BY <1>2, <1>3, <1>4, <1>5, <1>6, <1>7, <1>8, <1>9, <1>10, <1>11, <1>12, <1>13, <1>14
  DEF Recovering

\* Back to what the journal has.
LEMMA PlayingBackMoves ==
  ASSUME IInv, NEW i \in Procs, PlayingBack(i)
  PROVE  Moves(i) /\ Local(i)'
<1>1. Types /\ Local(i)
  BY DEF IInv
<1> USE <1>1, RankValues DEF Types, FL!LockTypeOK, Moves, LockMoves, Local, Closed, Starting,
        Reader, Locked, CacheMod, DbMod, Clean, Looking, Replaying, Flushing, Preparing, Calls, Set
<1>2. CASE PagerRollback(i)
  BY <1>2 DEF PagerRollback, GoBack, Idle
<1>3. CASE CommitFails(i)
  BY <1>3 DEF CommitFails, GoBack
<1>4. CASE Truncate(i)
  BY <1>4 DEF Truncate, Call
<1>5. CASE Replay(i)
  BY <1>5 DEF Replay, Call, pages
<1>6. CASE Resync(i)
  BY <1>6 DEF Resync, Call, memory, pages
<1>7. CASE Delete(i)
  BY <1>7 DEF Delete, Call, memory, pages
<1>8. CASE UnlockDb(i)
  BY <1>8 DEF UnlockDb, Unlock
<1>9. CASE PagerError(i)
  BY <1>9 DEF PagerError, Leave, GiveUp, Unlock, ForgetTransaction
<1>10. CASE DeleteFails(i)
  BY <1>10 DEF DeleteFails, StepDown, GiveUp, Unlock, ForgetTransaction
<1> QED
  BY <1>2, <1>3, <1>4, <1>5, <1>6, <1>7, <1>8, <1>9, <1>10 DEF PlayingBack

\* In memory.
LEMMA UsingMoves ==
  ASSUME IInv, NEW i \in Procs, Using(i)
  PROVE  Moves(i) /\ Local(i)'
<1>1. Types /\ Local(i)
  BY DEF IInv
<1> USE <1>1, RankValues DEF Types, FL!LockTypeOK, Moves, LockMoves, Local, Closed, Starting,
        Reader, Locked, CacheMod, DbMod, Clean, Looking, Replaying, Flushing, Preparing, Calls, Set
<1>2. CASE Open(i)
  BY <1>2 DEF Open, memory, pages
<1>3. CASE EndRead(i)
  BY <1>3 DEF EndRead, Idle, Leave, GiveUp, Unlock, ForgetTransaction
<1>4. CASE PagerBegin(i)
  BY <1>4 DEF PagerBegin, FL!Reserve, FL!SetLock
<1>5. CASE PagerClose(i)
  BY <1>5 DEF PagerClose
<1>6. CASE \E p \in Pages : Fetch(i, p)
  BY <1>6 DEF Fetch, progress
<1>7. CASE \E p \in Pages : Write(i, p)
  BY <1>7 DEF Write, PagerWrite, Idle
<1>8. CASE \E p \in Pages : PagerStress(i, p)
  BY <1>8 DEF PagerStress, Idle, WriteFrom, memory, pages
<1> QED
  BY <1>2, <1>3, <1>4, <1>5, <1>6, <1>7, <1>8 DEF Using

\* To the disk.
LEMMA CommittingMoves ==
  ASSUME IInv, NEW i \in Procs, Committing(i)
  PROVE  Moves(i) /\ Local(i)'
<1>1. Types /\ Local(i)
  BY DEF IInv
<1> USE <1>1, RankValues DEF Types, FL!LockTypeOK, Moves, LockMoves, Local, Closed, Starting,
        Reader, Locked, CacheMod, DbMod, Clean, Looking, Replaying, Flushing, Preparing, Calls, Set
<1>2. CASE CommitPhaseOne(i)
  <2>1. 1 \in Pages
    BY PagerAssumption DEF Pages
  <2>2. CASE counted[i]
    BY <1>2, <2>2 DEF CommitPhaseOne, Idle, WriteFrom, pages
  <2>3. CASE ~counted[i]
    BY <1>2, <2>1, <2>3 DEF CommitPhaseOne, PagerWrite, Idle, WriteFrom
  <2> QED
    BY <2>2, <2>3
<1>3. CASE CommitNothing(i)
  BY <1>3 DEF CommitNothing, Call, memory, pages
<1>4. CASE ExclusiveLock(i)
  BY <1>4 DEF ExclusiveLock, FL!Pend, FL!Exclude, FL!SetLock, Call, progress, memory, pages
<1>5. CASE WriteBusy(i)
  BY <1>5 DEF WriteBusy, memory, pages
<1>6. CASE JournalHeader(i)
  BY <1>6 DEF JournalHeader, Call, memory, pages
<1>7. CASE SyncJournal(i)
  BY <1>7 DEF SyncJournal
<1>8. CASE WriteSpilled(i)
  BY <1>8 DEF WriteSpilled
<1>9. CASE WritePage(i)
  BY <1>9 DEF WritePage, Call
<1>10. CASE SyncDb(i)
  BY <1>10 DEF SyncDb, Call, memory, pages
<1>11. CASE CommitPhaseTwo(i)
  BY <1>11 DEF CommitPhaseTwo, Call, memory, pages
<1> QED
  BY <1>2, <1>3, <1>4, <1>5, <1>6, <1>7, <1>8, <1>9, <1>10, <1>11 DEF Committing

-----------------------------------------------------------------------------
\* All that a program has is gone with it.
LEMMA EndNext ==
  ASSUME IInv, NEW gone \in SUBSET Procs, End(gone)
  PROVE  IInv'
<1>1. /\ lock' \in [Procs -> FL!Levels] /\ state' \in [Procs -> DOMAIN Rank]
      /\ pc' \in [Procs -> Calls] /\ dirty' \in [Procs -> SUBSET Pages]
  BY RankValues DEF IInv, Types, FL!LockTypeOK, FL!Levels, End, Calls
<1>2. \A i \in gone : /\ lock'[i] = "none" /\ state'[i] = "closed"
                      /\ pc'[i] = "idle" /\ dirty'[i] = {}
  BY DEF End
<1>3. \A i \in Procs \ gone : /\ lock'[i] = lock[i] /\ state'[i] = state[i]
                              /\ pc'[i] = pc[i] /\ dirty'[i] = dirty[i]
  BY DEF End
<1>4. FL!MutualExclusion'
  BY <1>2, <1>3 DEF IInv, FL!MutualExclusion, FL!Pendings
<1>5. \A i \in gone : Local(i)'
  BY <1>2 DEF Local, Closed, Clean
<1>6. \A i \in Procs \ gone : Local(i)'
  BY <1>3 DEF IInv, Local, Closed, Starting, Reader, Locked, CacheMod, DbMod, Clean
<1> QED
  BY <1>1, <1>4, <1>5, <1>6 DEF IInv, Types, FL!LockTypeOK

\* The invariant holds at the start.
LEMMA InvInit == Init => IInv
<1> SUFFICES ASSUME Init PROVE IInv
  OBVIOUS
<1>1. Types
  BY RankValues DEF Init, Types, FL!Init, FL!LockTypeOK, FL!Levels, Calls
<1>2. FL!MutualExclusion
  BY DEF Init, FL!Init, FL!MutualExclusion, FL!Pendings
<1>3. \A i \in Procs : Local(i)
  BY DEF Init, FL!Init, Local, Closed, Clean
<1> QED
  BY <1>1, <1>2, <1>3 DEF IInv

\* Every step keeps it.
LEMMA InvNext == IInv /\ [Next]_vars => IInv'
<1> SUFFICES ASSUME IInv, [Next]_vars PROVE IInv'
  OBVIOUS
<1>1. ASSUME NEW i \in Procs, Recovering(i) PROVE IInv'
  BY <1>1, RecoveringMoves, MovesNext
<1>2. ASSUME NEW i \in Procs, PlayingBack(i) PROVE IInv'
  BY <1>2, PlayingBackMoves, MovesNext
<1>3. ASSUME NEW i \in Procs, Using(i) PROVE IInv'
  BY <1>3, UsingMoves, MovesNext
<1>4. ASSUME NEW i \in Procs, Committing(i) PROVE IInv'
  BY <1>4, CommittingMoves, MovesNext
<1>5. ASSUME NEW i \in Procs, Crash(i) PROVE IInv'
  BY <1>5, EndNext DEF Crash
<1>6. CASE PowerLoss
  BY <1>6, EndNext DEF PowerLoss
<1>7. CASE DeleteDb \/ UNCHANGED vars
  BY <1>7 DEF DeleteDb, vars, progress, memory, pages, IInv, Types, FL!LockTypeOK,
              FL!MutualExclusion, Local, Closed, Starting, Reader, Locked, CacheMod, DbMod, Clean
<1> QED
  BY <1>1, <1>2, <1>3, <1>4, <1>5, <1>6, <1>7 DEF Next

\* Each place of the pager has its lock, and the locks exclude each other.
THEOREM Invariance == Spec => []IInv
BY InvInit, InvNext, PTL DEF Spec

-----------------------------------------------------------------------------
\* The four steps that write the file, and the six that write the journal.
LEMMA WriterHasLock ==
  ASSUME IInv, NEW i \in Procs,
         Recovering(i) \/ PlayingBack(i) \/ Using(i) \/ Committing(i) \/ Crash(i)
  PROVE  /\ db' = db \/ lock[i] = "exclusive"
         /\ journal' = journal \/ lock[i] \in Preparing
<1>1. Types /\ Local(i)
  BY DEF IInv
<1> USE <1>1, RankValues DEF Types, Local, Closed, Starting, Reader, Locked, CacheMod, DbMod,
        Looking, Replaying, Flushing, Preparing
<1>2. CASE Recovering(i)
  BY <1>2 DEF Recovering, SharedLock, JournalExists, CheckReserved, CountPages, DropReserve,
              DropJournal, DeleteJournal, PeekJournal, HotLock, HotExclude, SearchFails, Leave,
              Found, CannotOpen, StepDown, GiveUp, Validate, disk, file
<1>3. CASE PlayingBack(i)
  BY <1>3 DEF PlayingBack, PagerRollback, CommitFails, GoBack, Truncate, Replay, Store, Resync,
              SyncFile, Delete, DeleteJournal, UnlockDb, PagerError, Leave, DeleteFails,
              StepDown, GiveUp, disk, file
<1>4. CASE Using(i)
  BY <1>4 DEF Using, Open, EndRead, Leave, GiveUp, PagerBegin, PagerClose, Fetch, Write, Idle,
              PagerStress, disk, file
<1>5. CASE Committing(i)
  BY <1>5 DEF Committing, CommitPhaseOne, Idle, CommitNothing, ExclusiveLock, WriteBusy,
              JournalHeader, SyncJournal, WriteSpilled, WritePage, Store, SyncDb, SyncFile,
              CommitPhaseTwo, DeleteJournal, disk, file
<1>6. CASE Crash(i)
  BY <1>6 DEF Crash, disk, file
<1> QED
  BY <1>2, <1>3, <1>4, <1>5, <1>6

\* In every place of the pager that writes the file or the journal, the
\* locks it has reached until then shut the other writers out.
THEOREM WritersAlone == Spec => WritesAreAlone
<1>1. ASSUME IInv, Next
      PROVE  Lone \/ \E i \in Procs :
               /\ db' = db \/ (lock[i] = "exclusive" /\ FL!NoneHas(i, FL!Levels \ {"none"}))
               /\ journal' = journal \/ (lock[i] \in Preparing /\ FL!NoneHas(i, Preparing))
  <2>1. CASE PowerLoss
    BY <1>1, <2>1 DEF PowerLoss, End, Lone
  <2>2. CASE DeleteDb
    BY <1>1, <2>2 DEF DeleteDb, progress, Lone
  <2>3. ASSUME NEW i \in Procs,
               Recovering(i) \/ PlayingBack(i) \/ Using(i) \/ Committing(i) \/ Crash(i)
        PROVE  /\ db' = db \/ (lock[i] = "exclusive" /\ FL!NoneHas(i, FL!Levels \ {"none"}))
               /\ journal' = journal \/ (lock[i] \in Preparing /\ FL!NoneHas(i, Preparing))
    <3>1. lock[i] = "exclusive" => FL!NoneHas(i, FL!Levels \ {"none"})
      BY <1>1 DEF IInv, FL!MutualExclusion, FL!NoneHas
    <3>2. lock[i] \in Preparing => FL!NoneHas(i, Preparing)
      BY <1>1 DEF IInv, FL!MutualExclusion, FL!NoneHas, Preparing
    <3> QED
      BY <1>1, <2>3, <3>1, <3>2, WriterHasLock
  <2> QED
    BY <1>1, <2>1, <2>2, <2>3 DEF Next
<1>2. IInv /\ [Next]_vars =>
        [Lone \/ \E i \in Procs :
           /\ db' = db \/ (lock[i] = "exclusive" /\ FL!NoneHas(i, FL!Levels \ {"none"}))
           /\ journal' = journal \/ (lock[i] \in Preparing /\ FL!NoneHas(i, Preparing))]_vars
  BY <1>1
<1> QED
  BY <1>2, Invariance, PTL DEF Spec, WritesAreAlone

-----------------------------------------------------------------------------
(***************************************************************************)
(* The inductive invariant of the disk. Its operators are of a file d,     *)
(* what it may be on the disk m, a journal j, and the journals h that may  *)
(* be found, so that the lemmas below are of values and not of steps.      *)
(***************************************************************************)
Bytes == Counters \cup Values \cup {None, Torn}
\* An image that is a database: its pages are those up to some number.
Empty(d) == \A p \in Pages : d[p] = None
Full(d, n) == \A p \in Pages : d[p] # None <=> p <= n
Good(d) == d \in Images /\ \E n \in 0..LastPage : Full(d, n)

\* A playback of j makes d of every file that m has.
Restores(j, m, d) ==
  \A p \in Pages : IF p > j.size THEN d[p] = None
                   ELSE IF j.recs[p] # None THEN j.recs[p] = d[p] ELSE m[p] = {d[p]}

\* Image, Outcomes and Possible, for any file and journals.
Img(d, j) == Recovered(d, Findable(j))
Outs(m) == {d \in [Pages -> UNION {m[p] : p \in Pages}] : \A p \in Pages : d[p] \in m[p]}
Poss(m, h) == {Recovered(d, j) : d \in Outs(m), j \in h}
\* All of the file is on the disk.
Sync(d, m) == \A p \in Pages : m[p] = {d[p]}
\* Whichever journal is found after a loss of power, it restores x.
Guard(h, m, x) == \A j \in h : j # None /\ Restores(j, m, x)

\* The journals all have a record of page p, or cut it off; all are of n pages.
Covered(h, p) == \A k \in h : p > k.size \/ k.recs[p] # None
OfSize(h, n) == \A k \in h : k.size = n

\* g is f with v at p, or from behind n on.
Written(f, p, v, g) == g[p] = v /\ \A q \in Pages \ {p} : g[q] = f[q]
Cut(f, n, v, g) == \A p \in Pages : g[p] = IF p > n THEN v ELSE f[p]

\* Types; and where a journal of pages may be found, page 1 is not missing on
\* the disk alone: a playback takes a file without it for empty.
Shape(d, m, j, h) ==
  /\ d \in [Pages -> Bytes] /\ m \in [Pages -> SUBSET Bytes]
  /\ j \in Journals \cup {None}
  /\ \A k \in h : k = None \/ (k \in Journals /\ k.hot /\ k.counted = Recorded(k))
  /\ \A p \in Pages : d[p] \in m[p]
  /\ Findable(j) \in h
  /\ Empty(d) => Sync(d, m)
  /\ \A k \in h : k # None /\ k.size > 0 => Empty(d) \/ None \notin m[1]

\* The write-ahead rule: what is not synced is guarded by a journal that is.
Disk(d, m, j, h) ==
  /\ Shape(d, m, j, h)
  /\ Sync(d, m) \/ Guard(h, m, Img(d, j))
  /\ \A x \in Poss(m, h) : Good(x)

Synced == Sync(db, maybe)
Guarded == Guard(hotOnDisk, maybe, Image)
DiskInv == Disk(db, maybe, journal, hotOnDisk)

\* The file is what it says without a playback, and is on the disk.
Plain == db = Image /\ Synced

\* What a closed-over cache has is of the version it remembers: where that
\* is the version in the file, its pages are those of the file.
Old(i) == \A p \in Pages : cache[i][p] # None =>
  /\ cache[i][1] # None /\ cache[i][1] = vers[i] /\ vers[i] <= Counter(Image)
  /\ vers[i] = Counter(Image) => cache[i][p] = Image[p]

\* What a reader has is of the last commit.
Fresh(i) == \A p \in Pages : cache[i][p] # None =>
  cache[i][1] # None /\ cache[i][1] = vers[i] /\ cache[i][p] = Image[p]

\* Half-way through a playback: what is copied is right, and what is not
\* is in every journal that may be found.
Playback(i) ==
  /\ journal \in Journals /\ Guarded
  /\ todo[i] \subseteq Recorded(journal)
  /\ \A p \in todo[i] : journal.recs[p] = Image[p]
  /\ \A j \in hotOnDisk : j.size = journal.size /\ todo[i] \subseteq Recorded(j)
  /\ \A p \in Pages : p <= journal.size /\ p \notin todo[i] => db[p] = Image[p]
  /\ pc[i] = "replay" => \A p \in Pages : p > journal.size => db[p] = None

\* The change counter is raised once in a transaction, and before its commit.
Count(i) ==
  /\ IF counted[i] /\ 1 \notin dirty[i]
       THEN /\ pc[i] \in {"write", "syncdb", "finish"} /\ spill[i] = None
            /\ cache[i][1] = vers[i] /\ vers[i] > Counter(Image)
            /\ orig[i] > 0 => journal.recs[1] # None
       ELSE /\ vers[i] <= MaxVersion /\ vers[i] >= Counter(Image)
            /\ orig[i] > 0 => vers[i] = Counter(Image)
            /\ counted[i] => cache[i][1] = vers[i] + 1
  /\ pc[i] # "idle" /\ spill[i] = None => counted[i]

\* Half-way through a transaction: what is in the journal, what of it is
\* synced, and so which pages of the file may already differ.
Draft(i) ==
  /\ journal \in Journals /\ journal.size = orig[i]
  /\ Full(Image, orig[i]) /\ orig[i] <= size[i]
  /\ \A p \in Recorded(journal) : p <= orig[i] /\ journal.recs[p] = Image[p]
  /\ Recorded(journal) \ needSync[i] \subseteq journal.counted
  /\ \A p \in dirty[i] : p <= size[i] /\ (p <= orig[i] => journal.recs[p] # None)
  /\ db \in Images
  /\ \A p \in Pages : p > size[i] => cache[i][p] = None /\ db[p] = None
  /\ \A p \in Pages : p <= size[i] /\ p \notin dirty[i] => db[p] # None /\ cache[i][p] \in {None, db[p]}
  /\ \A p \in Pages : p <= orig[i] /\ p \notin Recorded(journal) \ needSync[i] => db[p] = Image[p]
  /\ cache[i][1] # None
  /\ Count(i)
  /\ spill[i] # None => spill[i] \in dirty[i] \ {1} /\ pc[i] \in {"excl", "header", "sync", "write"}
  /\ state[i] = "cachemod" => Plain /\ (pc[i] # "sync" => ~journal.hot)
  /\ state[i] = "dbmod" =>
       /\ journal.hot /\ Guarded
       /\ \A j \in hotOnDisk : j.size = orig[i] /\ Recorded(journal) \ needSync[i] \subseteq Recorded(j)
       /\ pc[i] # "sync" => hotOnDisk = {Findable(journal)}
  /\ pc[i] = "sync" => journal.hot /\ journal.counted = Recorded(journal)
  /\ pc[i] = "write" => IF spill[i] = None THEN needSync[i] = {} ELSE spill[i] \notin needSync[i]
  /\ pc[i] = "finish" => Synced

\* The calls in which what is in memory is the transaction's own.
Own == {"idle", "excl", "header", "sync", "write", "syncdb", "finish"}
InDraft(i) == Writing(i) /\ pc[i] \in Own

\* What program i knows of the file, by where it is.
Memory(i) ==
  /\ ~Writing(i) => counted[i] = FALSE
  /\ ~InDraft(i) => spill[i] = None
  /\ state[i] = "closed" => cache[i] = NoPages
  /\ state[i] = "open" => Old(i)
  /\ pc[i] \in {"drop", "dropped"} => Empty(db)
  /\ pc[i] \in {"peek", "hot", "wait", "found"} => ~Empty(db)
  /\ pc[i] \in {"truncate", "replay"} => Playback(i)
  /\ pc[i] = "resync" => db = Image
  /\ pc[i] \in {"delete", "unlock", "validate"} => Plain
  /\ Reading(i) /\ ~InDraft(i) => Full(Image, size[i]) /\ Fresh(i)
  /\ state[i] \in {"reader", "locked"} => Plain
  /\ state[i] = "locked" => /\ orig[i] = size[i] /\ vers[i] <= MaxVersion
                            /\ size[i] = 0 \/ cache[i][1] # None
  /\ Writing(i) /\ ~InDraft(i) /\ pc[i] # "unlock" =>
       journal \in Journals /\ journal.size = orig[i] /\ (state[i] = "dbmod" => journal.hot)
  /\ InDraft(i) => Draft(i)

MemoryTypes ==
  /\ spill \in [Procs -> Pages \cup {None}]
  /\ size \in [Procs -> 0..LastPage] /\ orig \in [Procs -> 0..LastPage]
  /\ cache \in [Procs -> Images]
  /\ needSync \in [Procs -> SUBSET Pages]
  /\ \A i \in Procs : /\ dirty[i] \subseteq {p \in Pages : cache[i][p] # None}
                      /\ needSync[i] \subseteq dirty[i]
  /\ vers \in [Procs -> Counters]
  /\ counted \in [Procs -> BOOLEAN]
  /\ todo \in [Procs -> SUBSET Pages]

\* The inductive invariant of the pager.
JInv == IInv /\ MemoryTypes /\ DiskInv /\ \A i \in Procs : Memory(i)

-----------------------------------------------------------------------------
(***************************************************************************)
(* The number of pages.                                                    *)
(***************************************************************************)
\* A set of numbers up to n that is not empty has a greatest: of the
\* intervals from one of them to n, all finite, one has no other in it.
LEMMA Greatest ==
  ASSUME NEW n \in Nat, NEW K \in SUBSET (1..n), K # {}
  PROVE  \E k \in K : \A m \in K : m <= k
<1> DEFINE T == {k..n : k \in K}
<1>1. IsWellFoundedOn(StrictSubsetOrdering(Nat), FiniteSubsetsOf(Nat))
  BY FS_StrictSubsetOrderingWellFounded
<1>2. T \subseteq FiniteSubsetsOf(Nat)
  BY FS_Interval DEF FiniteSubsetsOf
<1>3. PICK x \in T : \A y \in T : ~(<<y, x>> \in StrictSubsetOrdering(Nat))
  <2>1. T # {}
    OBVIOUS
  <2> HIDE DEF T
  <2> QED
    BY <1>1, <1>2, <2>1, WFMin
<1>4. PICK k \in K : x = k..n
  BY <1>3
<1>5. ASSUME NEW m \in K, m > k PROVE FALSE
  <2>1. m..n \in T /\ m..n \subseteq k..n /\ k \in k..n /\ k \notin m..n
    BY <1>5
  <2>2. m..n \subseteq Nat /\ k..n \subseteq Nat
    OBVIOUS
  <2>3. <<m..n, k..n>> \in StrictSubsetOrdering(Nat)
    BY <2>1, <2>2 DEF StrictSubsetOrdering
  <2> QED
    BY <1>3, <1>4, <2>1, <2>3
<1> QED
  BY <1>5

\* A file that is full up to page n has n pages.
LEMMA PageCountIs ==
  ASSUME NEW d, NEW n \in 0..LastPage, Full(d, n)
  PROVE  PageCount(d) = n
BY PagerAssumption DEF PageCount, Full, Pages

\* Only the empty file has none.
LEMMA PageCountIsZero ==
  ASSUME NEW d
  PROVE  PageCount(d) = 0 <=> Empty(d)
<1>1. CASE Empty(d)
  <2>1. Full(d, 0)
    BY <1>1 DEF Full, Empty, Pages
  <2> QED
    BY <1>1, <2>1, PageCountIs, PagerAssumption
<1>2. CASE ~Empty(d)
  <2> DEFINE K == {p \in Pages : d[p] # None}
  <2>1. LastPage \in Nat /\ K \in SUBSET (1..LastPage) /\ K # {}
    BY <1>2, PagerAssumption DEF Empty, Pages
  <2> HIDE DEF K
  <2>2. PICK n \in K : \A p \in K : p <= n
    BY <2>1, Greatest
  <2>3. n \in 0..LastPage /\ d[n] # None /\ \A p \in Pages : p > n => d[p] = None
    BY <2>1, <2>2 DEF K, Pages
  <2>4. \A m \in 0..LastPage : (\A p \in Pages : p > m => d[p] = None) => m >= n
    BY <2>1, <2>2, <2>3 DEF Pages
  <2> QED
    BY <1>2, <2>1, <2>2, <2>3, <2>4 DEF PageCount, Empty, Pages
<1> QED
  BY <1>1, <1>2

-----------------------------------------------------------------------------
(***************************************************************************)
(* What a playback finds and makes of it.                                  *)
(***************************************************************************)
LEMMA JournalType ==
  ASSUME NEW j \in Journals
  PROVE  /\ j # None
         /\ j.size \in 0..LastPage /\ j.hot \in BOOLEAN /\ j.recs \in Images
         /\ j.counted \subseteq Recorded(j) /\ Recorded(j) \subseteq Pages
         /\ Recorded(j) \subseteq 1..j.size
         /\ j = [size |-> j.size, hot |-> j.hot, recs |-> j.recs, counted |-> j.counted]
BY NoneAssumption DEF Journals, Recorded

\* What a connection that comes later finds of a journal that is hot.
LEMMA FindableIs ==
  ASSUME NEW j \in Journals, j.hot
  PROVE  /\ Findable(j) \in Journals
         /\ Findable(j).size = j.size /\ Findable(j).hot
         /\ Findable(j).counted = j.counted
         /\ Recorded(Findable(j)) = j.counted
         /\ \A p \in j.counted : Findable(j).recs[p] = j.recs[p]
         /\ \A p \in Pages \ j.counted : Findable(j).recs[p] = None
<1> DEFINE r == [p \in Pages |-> IF p \in j.counted THEN j.recs[p] ELSE None]
<1>1. Findable(j) = [size |-> j.size, hot |-> j.hot, recs |-> r, counted |-> j.counted]
  <2>1. Findable(j) = [j EXCEPT !.recs = r]
    BY JournalType DEF Findable
  <2>2. j \in [size : 0..LastPage, hot : BOOLEAN, recs : Images, counted : SUBSET Pages]
    BY DEF Journals
  <2> HIDE DEF r
  <2> QED
    BY <2>1, <2>2
<1>2. r \in Images
  BY JournalType DEF Images
<1> QED
  BY <1>1, <1>2, JournalType DEF Journals, Recorded

\* It finds no other journal.
LEMMA FindableNone ==
  ASSUME NEW j, j = None \/ ~j.hot
  PROVE  Findable(j) = None
BY DEF Findable

\* It finds all of a journal whose records are all counted.
LEMMA FoundAgain ==
  ASSUME NEW j \in Journals, j.hot, j.counted = Recorded(j)
  PROVE  Findable(j) = j
<1>1. \A p \in Pages : Findable(j).recs[p] = j.recs[p]
  BY FindableIs DEF Recorded
<1>2. Findable(j).recs = j.recs
  BY <1>1, FindableIs, JournalType DEF Images
<1> QED
  BY <1>2, FindableIs, JournalType

\* Without a journal a file stands for itself.
LEMMA RecoveredNone == \A d : Recovered(d, None) = d
BY DEF Recovered

\* So does an empty file.
LEMMA RecoveredEmpty ==
  ASSUME NEW d, NEW j, Empty(d)
  PROVE  Recovered(d, j) = d
BY PageCountIsZero DEF Recovered

\* What a journal makes of any other file.
LEMMA RecoveredFull ==
  ASSUME NEW d, NEW j \in Journals, ~Empty(d)
  PROVE  Recovered(d, j) = [p \in Pages |-> IF p > j.size THEN None
                                           ELSE IF j.recs[p] # None THEN j.recs[p] ELSE d[p]]
BY PageCountIsZero, JournalType DEF Recovered

-----------------------------------------------------------------------------
(***************************************************************************)
(* The disk.                                                               *)
(***************************************************************************)
LEMMA GuardIs ==
  ASSUME NEW d, NEW m, NEW j, NEW h, NEW x, Shape(d, m, j, h), Guard(h, m, x),
         x \in [Pages -> Bytes], Empty(d) => Empty(x),
         NEW e \in Outs(m), NEW k \in h
  PROVE  Recovered(e, k) = x
<1>1. /\ k \in Journals /\ k.size \in 0..LastPage /\ Restores(k, m, x)
      /\ k.size > 0 => Empty(d) \/ None \notin m[1]
  BY JournalType DEF Shape, Guard
<1>2. 1 \in Pages /\ \A p \in Pages : e[p] \in m[p]
  <2>1. 1 \in Pages
    BY PagerAssumption DEF Pages
  <2> QED
    BY <2>1 DEF Outs
<1>3. e = [p \in Pages |-> e[p]] /\ x = [p \in Pages |-> x[p]]
  BY DEF Outs
<1>4. CASE ~Empty(e)
  <2>1. \A p \in Pages : (IF p > k.size THEN None
                          ELSE IF k.recs[p] # None THEN k.recs[p] ELSE e[p]) = x[p]
    BY <1>1, <1>2 DEF Restores
  <2> QED
    BY <1>1, <1>3, <1>4, <2>1, RecoveredFull
<1>5. CASE Empty(e)
  <2>1. Empty(x)
    <3>1. CASE k.size = 0
      BY <1>1, <3>1 DEF Restores, Empty, Pages
    <3>2. CASE k.size > 0
      BY <1>1, <1>2, <1>5, <3>2 DEF Empty
    <3> QED
      BY <1>1, <3>1, <3>2
  <2>2. e = x
    BY <1>3, <1>5, <2>1 DEF Empty
  <2> QED
    BY <1>5, <2>2, RecoveredEmpty
<1> QED
  BY <1>4, <1>5

\* A disk guarded by a journal has that one image.
LEMMA GuardedDisk ==
  ASSUME NEW d, NEW m, NEW j, NEW h, NEW x, Shape(d, m, j, h), Guard(h, m, x),
         Good(x), Empty(d) => Empty(x)
  PROVE  Disk(d, m, j, h) /\ Img(d, j) = x /\ Poss(m, h) = {x}
<1>1. x \in [Pages -> Bytes]
  BY DEF Good, Images, Bytes
<1>2. d \in Outs(m) /\ Findable(j) \in h
  BY DEF Shape, Outs
<1>3. \A e \in Outs(m), k \in h : Recovered(e, k) = x
  BY <1>1, GuardIs
<1>4. Img(d, j) = x
  BY <1>2, <1>3 DEF Img
<1>5. Poss(m, h) = {x}
  BY <1>2, <1>3 DEF Poss
<1> QED
  BY <1>4, <1>5 DEF Disk

\* A file that is synced survives a power loss as it is.
LEMMA SyncedOuts ==
  ASSUME NEW d, NEW m, d \in [Pages -> Bytes], Sync(d, m)
  PROVE  Outs(m) = {d}
<1>1. d \in Outs(m)
  BY DEF Sync, Outs
<1>2. ASSUME NEW e \in Outs(m) PROVE e = d
  BY <1>2 DEF Sync, Outs
<1> QED
  BY <1>1, <1>2

\* The images of such a file are one for each journal there may be.
LEMMA SyncedDisk ==
  ASSUME NEW d, NEW m, NEW j, NEW h, Shape(d, m, j, h), Sync(d, m),
         \A k \in h : Good(Recovered(d, k))
  PROVE  Disk(d, m, j, h) /\ Poss(m, h) = {Recovered(d, k) : k \in h}
<1>1. Outs(m) = {d}
  BY SyncedOuts DEF Shape
<1>2. Poss(m, h) = {Recovered(d, k) : k \in h}
  BY <1>1 DEF Poss
<1> QED
  BY <1>2 DEF Disk

\* What follows for any disk.
LEMMA DiskIs ==
  ASSUME NEW d, NEW m, NEW j, NEW h, Disk(d, m, j, h)
  PROVE  /\ d \in Outs(m) /\ Img(d, j) \in Poss(m, h) /\ Good(Img(d, j))
         /\ Empty(d) => Img(d, j) = d
         /\ Guard(h, m, Img(d, j)) => Poss(m, h) = {Img(d, j)}
         /\ Sync(d, m) => Poss(m, h) = {Recovered(d, k) : k \in h}
         /\ None \in h => Sync(d, m)
<1>1. d \in Outs(m) /\ Findable(j) \in h
  BY DEF Disk, Shape, Outs
<1>2. Img(d, j) \in Poss(m, h)
  BY <1>1 DEF Img, Poss
<1>3. Good(Img(d, j))
  BY <1>2 DEF Disk
<1>4. Empty(d) => Img(d, j) = d
  BY RecoveredEmpty DEF Img
<1>5. Guard(h, m, Img(d, j)) => Poss(m, h) = {Img(d, j)}
  BY <1>3, <1>4, GuardedDisk DEF Disk
<1>6. Sync(d, m) => Poss(m, h) = {Recovered(d, k) : k \in h}
  BY SyncedOuts DEF Disk, Shape, Poss
<1> QED
  BY <1>1, <1>2, <1>3, <1>4, <1>5, <1>6 DEF Disk, Guard

\* The deletion of a journal, or a new one without a header: the file as
\* it is, is what it may be from now on.
LEMMA JournalGone ==
  ASSUME NEW d, NEW m, NEW j, NEW h, Disk(d, m, j, h), Sync(d, m), Good(d),
         NEW jn \in Journals \cup {None}, Findable(jn) = None
  PROVE  /\ Disk(d, m, jn, h \cup {None}) /\ Img(d, jn) = d
         /\ Poss(m, h \cup {None}) = Poss(m, h) \cup {d}
<1>1. Shape(d, m, jn, h \cup {None})
  BY DEF Disk, Shape
<1>2. \A k \in h : Good(Recovered(d, k))
  BY DiskIs DEF Disk
<1>3. \A k \in h \cup {None} : Good(Recovered(d, k))
  BY <1>2, RecoveredNone
<1>4. /\ Disk(d, m, jn, h \cup {None})
      /\ Poss(m, h \cup {None}) = {Recovered(d, k) : k \in h \cup {None}}
  BY <1>1, <1>3, SyncedDisk
<1>5. Poss(m, h) = {Recovered(d, k) : k \in h}
  BY DiskIs
<1>6. Img(d, jn) = d
  BY RecoveredNone DEF Img
<1> QED
  BY <1>4, <1>5, <1>6, RecoveredNone

\* A sync of the journal: what a playback will find is what is there.
LEMMA JournalSynced ==
  ASSUME NEW d, NEW m, NEW j, NEW h, Disk(d, m, j, h)
  PROVE  Disk(d, m, j, {Findable(j)}) /\ Poss(m, {Findable(j)}) \subseteq Poss(m, h)
<1>1. Poss(m, {Findable(j)}) \subseteq Poss(m, h)
  BY DEF Poss, Disk, Shape
<1>2. Shape(d, m, j, {Findable(j)})
  BY DEF Disk, Shape
<1>3. Sync(d, m) \/ Guard({Findable(j)}, m, Img(d, j))
  BY DEF Disk, Shape, Guard
<1> QED
  BY <1>1, <1>2, <1>3 DEF Disk

\* What is found in a hot journal restores the file, if there is one.
LEMMA FoundGuards ==
  ASSUME NEW d, NEW m, NEW j \in Journals, NEW h, Disk(d, m, j, h), j.hot, ~Empty(d)
  PROVE  Guard({Findable(j)}, m, Img(d, j))
<1>1. CASE Guard(h, m, Img(d, j))
  BY <1>1 DEF Guard, Disk, Shape
<1>2. CASE Sync(d, m)
  <2> DEFINE k == Findable(j)
  <2>1. k \in Journals /\ k # None
    BY FindableIs, JournalType
  <2> HIDE DEF k
  <2>2. Img(d, j) = [p \in Pages |-> IF p > k.size THEN None
                                    ELSE IF k.recs[p] # None THEN k.recs[p] ELSE d[p]]
    BY <2>1, RecoveredFull DEF Img, k
  <2>3. Restores(k, m, Img(d, j))
    BY <1>2, <2>2 DEF Restores, Sync
  <2> QED
    BY <2>1, <2>3 DEF Guard, k
<1> QED
  BY <1>1, <1>2 DEF Disk

\* A header that is written and not yet synced: found or not, the file is
\* restored.
LEMMA HeaderWritten ==
  ASSUME NEW d, NEW m, NEW j, NEW h, NEW x, Disk(d, m, j, h), x = Img(d, j),
         NEW jn \in Journals, jn.hot, Restores(Findable(jn), m, x),
         jn.size > 0 => Empty(d) \/ None \notin m[1],
         \/ Findable(j) = None /\ Sync(d, m) /\ d = x
         \/ Guard(h, m, x)
  PROVE  /\ Disk(d, m, jn, {Findable(j), Findable(jn)}) /\ Img(d, jn) = x
         /\ Poss(m, {Findable(j), Findable(jn)}) = {x}
<1>1. /\ Findable(jn) \in Journals /\ Findable(jn).hot /\ Findable(jn).size = jn.size
      /\ Findable(jn).counted = Recorded(Findable(jn)) /\ Findable(jn) # None
  BY FindableIs, JournalType
<1>2. Good(x) /\ (Empty(d) => x = d)
  BY DiskIs
<1>3. /\ Shape(d, m, jn, {Findable(j), Findable(jn)})
      /\ Shape(d, m, jn, {Findable(jn)})
  BY <1>1 DEF Disk, Shape
<1>4. CASE Guard(h, m, x)
  <2>1. Guard({Findable(j), Findable(jn)}, m, x)
    BY <1>1, <1>4 DEF Guard, Disk, Shape
  <2> QED
    BY <1>2, <1>3, <2>1, GuardedDisk
<1>5. CASE Findable(j) = None /\ Sync(d, m) /\ d = x
  <2>1. Guard({Findable(jn)}, m, x)
    BY <1>1 DEF Guard
  <2>2. Img(d, jn) = x
    BY <1>2, <1>3, <2>1, GuardedDisk
  <2>3. Recovered(d, Findable(jn)) = x /\ Recovered(d, None) = x
    BY <1>5, <2>2, RecoveredNone DEF Img
  <2>4. \A k \in {Findable(j), Findable(jn)} : Recovered(d, k) = x
    BY <1>5, <2>3
  <2>5. /\ Disk(d, m, jn, {Findable(j), Findable(jn)})
        /\ Poss(m, {Findable(j), Findable(jn)})
             = {Recovered(d, k) : k \in {Findable(j), Findable(jn)}}
    BY <1>2, <1>3, <1>5, <2>4, SyncedDisk
  <2> QED
    BY <2>2, <2>4, <2>5
<1> QED
  BY <1>4, <1>5

\* A page is written that every journal has a record of, or was not there.
LEMMA PageStored ==
  ASSUME NEW d, NEW m, NEW j, NEW h, NEW x, Disk(d, m, j, h), x = Img(d, j), Guard(h, m, x),
         NEW p \in Pages, NEW c \in Bytes \ {None},
         Covered(h, p), Empty(x) => OfSize(h, 0),
         NEW dn \in [Pages -> Bytes], Written(d, p, c, dn),
         NEW mn \in [Pages -> SUBSET Bytes], Written(m, p, m[p] \cup {c, Torn}, mn)
  PROVE  /\ Disk(dn, mn, j, h) /\ Img(dn, j) = x /\ Guard(h, mn, x)
         /\ Poss(mn, h) = Poss(m, h)
<1> USE DEF Covered, OfSize, Written
<1>2. ~Empty(dn)
  BY DEF Empty
<1>3. \A k \in h : k # None /\ k.size > 0 => None \notin mn[1]
  <2>1. ASSUME NEW k \in h, k.size > 0, k # None PROVE None \notin m[1]
    <3>1. CASE Empty(d)
      <4>1. Empty(x)
        BY <3>1, DiskIs
      <4> QED
        BY <2>1, <4>1
    <3> QED
      BY <2>1, <3>1 DEF Disk, Shape
  <2> QED
    BY <2>1, PagerAssumption DEF Bytes, Pages
<1>4. Shape(dn, mn, j, h)
  BY <1>2, <1>3 DEF Disk, Shape
<1>5. Guard(h, mn, x)
  BY DEF Guard, Restores
<1>6. Good(x) /\ Poss(m, h) = {x}
  BY DiskIs
<1>7. Disk(dn, mn, j, h) /\ Img(dn, j) = x /\ Poss(mn, h) = {x}
  <2>1. Empty(dn) => Empty(x)
    BY <1>2
  <2> QED
    BY <1>4, <1>5, <1>6, <2>1, GuardedDisk
<1> QED
  BY <1>5, <1>6, <1>7

\* A sync of the file.
LEMMA FileSynced ==
  ASSUME NEW d, NEW m, NEW j, NEW h, Disk(d, m, j, h),
         NEW mn, mn = [p \in Pages |-> {d[p]}]
  PROVE  /\ Disk(d, mn, j, h) /\ Sync(d, mn) /\ Poss(mn, h) \subseteq Poss(m, h)
         /\ \A x : Guard(h, m, x) => Guard(h, mn, x)
<1>1. Sync(d, mn)
  BY DEF Sync
<1>2. Shape(d, mn, j, h)
  <2>1. d \in [Pages -> Bytes] /\ 1 \in Pages
    BY PagerAssumption DEF Disk, Shape, Pages
  <2>2. mn \in [Pages -> SUBSET Bytes] /\ \A p \in Pages : d[p] \in mn[p]
    BY <2>1
  <2>3. mn[1] = {d[1]} /\ d[1] \in m[1]
    BY <2>1 DEF Disk, Shape
  <2> QED
    BY <1>1, <2>1, <2>2, <2>3 DEF Disk, Shape
<1>3. Outs(mn) = {d} /\ d \in Outs(m)
  BY <1>1, SyncedOuts, DiskIs DEF Disk, Shape
<1>4. Poss(mn, h) \subseteq Poss(m, h)
  BY <1>3 DEF Poss
<1>5. \A x : Guard(h, m, x) => Guard(h, mn, x)
  <2> SUFFICES ASSUME NEW x, Guard(h, m, x) PROVE Guard(h, mn, x)
    OBVIOUS
  <2>1. \A p \in Pages : d[p] \in m[p]
    BY DEF Disk, Shape
  <2> QED
    BY <2>1 DEF Guard, Restores
<1> QED
  BY <1>1, <1>2, <1>4, <1>5 DEF Disk

\* The file gets the size that the journals have for it.
LEMMA FileTruncated ==
  ASSUME NEW d, NEW m, NEW j, NEW h, NEW x, Disk(d, m, j, h), x = Img(d, j), Guard(h, m, x),
         NEW n \in 0..LastPage, OfSize(h, n),
         NEW dn \in [Pages -> Bytes], Cut(d, n, None, dn),
         NEW mn \in [Pages -> SUBSET Bytes], Cut(m, n, {None}, mn)
  PROVE  /\ Disk(dn, mn, j, h) /\ Img(dn, j) = x /\ Guard(h, mn, x)
         /\ Poss(mn, h) = Poss(m, h)
<1> USE DEF OfSize, Cut
<1>1. 1 \in Pages /\ (n > 0 => ~(1 > n))
  BY PagerAssumption DEF Pages
<1>2. /\ d \in [Pages -> Bytes] /\ m \in [Pages -> SUBSET Bytes] /\ None \in Bytes
      /\ \A p \in Pages : d[p] \in m[p]
  BY DEF Disk, Shape, Bytes
<1>3. /\ dn \in [Pages -> Bytes] /\ mn \in [Pages -> SUBSET Bytes]
      /\ \A p \in Pages : dn[p] \in mn[p]
  BY <1>2
<1>4. n > 0 => dn[1] = d[1] /\ mn[1] = m[1]
  BY <1>1
<1>5. Findable(j) \in h /\ Findable(j) # None
  BY DEF Disk, Shape, Guard
<1>6. n > 0 /\ ~Empty(d) => None \notin mn[1] /\ ~Empty(dn)
  <2>1. n > 0 /\ ~Empty(d) => None \notin m[1]
    BY <1>5 DEF Disk, Shape
  <2> QED
    BY <1>1, <1>2, <1>4, <2>1 DEF Empty
<1>7. Empty(d) => Sync(d, m) /\ x = d
  BY DiskIs DEF Disk, Shape
<1>8. Empty(d) => Empty(dn)
  BY DEF Empty
<1>9. Empty(dn) => Sync(dn, mn) /\ Empty(x)
  <2>1. CASE n = 0
    <3>1. \A p \in Pages : p > n
      BY <2>1 DEF Pages
    <3>2. Restores(Findable(j), m, x) /\ Findable(j).size = n
      BY <1>5 DEF Guard
    <3> QED
      BY <3>1, <3>2 DEF Sync, Empty, Restores
  <2>2. CASE n > 0 /\ Empty(d)
    BY <1>7, <2>2 DEF Sync, Empty
  <2>3. CASE n > 0 /\ ~Empty(d)
    BY <1>6, <2>3
  <2> QED
    BY <2>1, <2>2, <2>3
<1>10. Shape(dn, mn, j, h)
  <2>1. \A k \in h : k # None /\ k.size > 0 => Empty(dn) \/ None \notin mn[1]
    BY <1>6, <1>8
  <2> QED
    BY <1>3, <1>9, <2>1 DEF Disk, Shape
<1>11. Guard(h, mn, x)
  <2>1. \A k \in h : k # None /\ Restores(k, m, x) /\ k.size = n
    BY DEF Guard
  <2>2. \A k \in h : Restores(k, mn, x)
    BY <2>1 DEF Restores
  <2> QED
    BY <2>1, <2>2 DEF Guard
<1>12. Good(x) /\ Poss(m, h) = {x}
  BY DiskIs
<1>13. Disk(dn, mn, j, h) /\ Img(dn, j) = x /\ Poss(mn, h) = {x}
  BY <1>9, <1>10, <1>11, <1>12, GuardedDisk
<1> QED
  BY <1>11, <1>12, <1>13

\* A loss of power.
LEMMA PowerLost ==
  ASSUME NEW d, NEW m, NEW j, NEW h, Disk(d, m, j, h), NEW dn \in Outs(m), NEW jn \in h,
         NEW mn \in [Pages -> SUBSET Bytes], Sync(dn, mn)
  PROVE  /\ Disk(dn, mn, jn, {jn}) /\ Img(dn, jn) \in Poss(m, h)
         /\ Poss(mn, {jn}) = {Img(dn, jn)}
<1>1. jn = None \/ (jn \in Journals /\ jn.hot /\ jn.counted = Recorded(jn))
  BY DEF Disk, Shape
<1>2. Findable(jn) = jn
  BY <1>1, FoundAgain, FindableNone
<1>3. Recovered(dn, jn) \in Poss(m, h)
  BY DEF Poss
<1>5. dn \in [Pages -> Bytes] /\ \A p \in Pages : dn[p] \in m[p]
  <2>1. m \in [Pages -> SUBSET Bytes]
    BY DEF Disk, Shape
  <2>2. dn \in [Pages -> UNION {m[p] : p \in Pages}] /\ \A p \in Pages : dn[p] \in m[p]
    BY DEF Outs
  <2> QED
    BY <2>1, <2>2
<1>6. jn # None /\ jn.size > 0 => Empty(dn) \/ None \notin mn[1]
  <2>1. 1 \in Pages
    BY PagerAssumption DEF Pages
  <2>2. jn # None /\ jn.size > 0 => Empty(d) \/ None \notin m[1]
    BY DEF Disk, Shape
  <2>3. Empty(d) => Empty(dn)
    BY <1>5 DEF Disk, Shape, Sync, Empty
  <2> QED
    BY <1>5, <2>1, <2>2, <2>3 DEF Sync
<1>7. Shape(dn, mn, jn, {jn})
  BY <1>1, <1>2, <1>5, <1>6 DEF Shape, Sync
<1>8. \A k \in {jn} : Good(Recovered(dn, k))
  BY <1>3 DEF Disk
<1>9. Disk(dn, mn, jn, {jn}) /\ Poss(mn, {jn}) = {Recovered(dn, k) : k \in {jn}}
  BY <1>7, <1>8, SyncedDisk
<1> QED
  BY <1>2, <1>3, <1>9 DEF Img

=============================================================================
