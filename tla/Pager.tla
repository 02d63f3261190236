------------------------------- MODULE Pager --------------------------------
(***************************************************************************)
(* The pager of SQLite (sqlite3.c) as the plug-in uses it: a rollback      *)
(* journal that is deleted, synchronous writing, no busy handler.  Every   *)
(* program has a cache of pages of its own; the database file, the journal *)
(* and the locks are shared.                                               *)
(*                                                                         *)
(* A step is one call that reads or changes what is shared.  Between any   *)
(* two of them another program may come, a program may end (what it wrote  *)
(* is still there, as the system keeps it), a call may fail, or the power  *)
(* may (what was not synced is on the disk or not, or half of it).  The    *)
(* locks are those of FileLock.                                            *)
(***************************************************************************)
EXTENDS Naturals, FiniteSets

CONSTANTS
  Procs,               \* the programs that use the database
  LastPage,            \* the number of pages it can have
  Values,              \* what can be in a page other than the first
  MaxVersion,          \* no transaction begins above this change counter
  None,                \* no page, no journal, no draft
  Torn                 \* a page that was being written when the power failed

ASSUME PagerAssumption ==
  /\ LastPage \in Nat \ {0}
  /\ MaxVersion \in Nat
  /\ None \notin Nat /\ None \notin Values /\ None # Torn

VARIABLES
  lock,                \* lock[i]:  the level of FileLock
  db,                  \* db[p]:    page p of the file as the system has it
  maybe,               \* maybe[p]: what page p of the disk may hold
  journal,             \* the journal as the system has it, or None
  hotOnDisk,           \* what a playback may find after a loss of power
  state,               \* state[i]: Pager.eState, or "closed"
  pc,                  \* pc[i]:    the next call of what is under way
  spill,               \* spill[i]: the page that is written early, or None
  size,                \* size[i]:  Pager.dbSize
  orig,                \* orig[i]:  Pager.dbOrigSize
  cache,               \* cache[i][p]: the page in memory, or None
  dirty,               \* dirty[i]: the pages that are to be written
  needSync,            \* needSync[i]: those that wait for a synced journal
  vers,                \* vers[i]:  Pager.dbFileVers, the counter in page 1
  counted,             \* counted[i]: Pager.changeCountDone
  todo                 \* todo[i]:  the records a playback has yet to copy

file == <<db, maybe>>
disk == <<file, journal, hotOnDisk>>
progress == <<state, pc, spill>>
pages == <<size, orig, cache, dirty, needSync>>
memory == <<pages, vers, counted, todo>>
vars == <<lock, disk, progress, memory>>

FL == INSTANCE FileLock WITH Handles <- Procs

-----------------------------------------------------------------------------
(***************************************************************************)
(* Pages.  The first holds the change counter, and nothing else that       *)
(* matters here.                                                           *)
(***************************************************************************)
Pages == 1..LastPage
Counters == 0..(MaxVersion + 1)
Content(p) == IF p = 1 THEN Counters ELSE Values
NoPages == [p \in Pages |-> None]
Images == {d \in [Pages -> Counters \cup Values \cup {None}] :
             \A p \in Pages : d[p] \in Content(p) \cup {None}}

PageCount(d) == CHOOSE n \in 0..LastPage :
                  /\ n = 0 \/ d[n] # None
                  /\ \A p \in Pages : p > n => d[p] = None
Counter(d) == IF d[1] = None THEN 0 ELSE d[1]

(***************************************************************************)
(* The journal: the size of the database before the transaction, whether   *)
(* its first header has been written, the records of pages, and those of   *)
(* them that a header counts.  A playback finds nothing else.              *)
(***************************************************************************)
Recorded(j) == {p \in Pages : j.recs[p] # None}
Journals == {j \in [size : 0..LastPage, hot : BOOLEAN, recs : Images, counted : SUBSET Pages] :
               j.counted \subseteq Recorded(j) /\ Recorded(j) \subseteq 1..j.size}

ASSUME NoneAssumption == None \notin Images \cup Journals

Findable(j) == IF j = None THEN None
               ELSE IF j.hot
                 THEN [j EXCEPT !.recs = [p \in Pages |-> IF p \in j.counted THEN @[p] ELSE None]]
                 ELSE None

\* What a playback makes of the pages d.  An empty file is left empty.
Recovered(d, j) ==
  IF j = None \/ PageCount(d) = 0 THEN d
  ELSE [p \in Pages |-> IF p > j.size THEN None
                        ELSE IF j.recs[p] # None THEN j.recs[p] ELSE d[p]]

Rank == [closed |-> 0, open |-> 1, reader |-> 2, locked |-> 3, cachemod |-> 4, dbmod |-> 5]
Reading(i) == Rank[state[i]] >= Rank["reader"]
Writing(i) == Rank[state[i]] >= Rank["cachemod"]

\* The levels of which only one program can have one.
Preparing == {"reserved", "pending", "exclusive"}

Calls == {"idle", "exists", "reserved", "count", "drop", "dropped", "peek", "hot",
          "wait", "found", "truncate", "replay", "resync", "delete", "unlock",
          "validate", "failed", "excl", "header", "sync", "write", "syncdb", "finish"}

TypeOK ==
  /\ FL!LockTypeOK
  /\ db \in [Pages -> Counters \cup Values \cup {None, Torn}]
  /\ journal \in Journals \cup {None}
  /\ state \in [Procs -> DOMAIN Rank]
  /\ pc \in [Procs -> Calls]
  /\ spill \in [Procs -> Pages \cup {None}]
  /\ size \in [Procs -> 0..LastPage] /\ orig \in [Procs -> 0..LastPage]
  /\ cache \in [Procs -> Images]
  /\ dirty \in [Procs -> SUBSET Pages] /\ needSync \in [Procs -> SUBSET Pages]
  /\ \A i \in Procs : /\ dirty[i] \subseteq {p \in Pages : cache[i][p] # None}
                      /\ needSync[i] \subseteq dirty[i]
  /\ vers \in [Procs -> Counters]
  /\ counted \in [Procs -> BOOLEAN]
  /\ todo \in [Procs -> SUBSET Pages]

Init ==
  /\ FL!Init
  /\ db = NoPages /\ maybe = [p \in Pages |-> {None}]
  /\ journal = None /\ hotOnDisk = {None}
  /\ state = [i \in Procs |-> "closed"]
  /\ pc = [i \in Procs |-> "idle"]
  /\ spill = [i \in Procs |-> None]
  /\ size = [i \in Procs |-> 0] /\ orig = size
  /\ cache = [i \in Procs |-> NoPages]
  /\ dirty = [i \in Procs |-> {}] /\ needSync = dirty /\ todo = dirty
  /\ vers = [i \in Procs |-> 0]
  /\ counted = [i \in Procs |-> FALSE]

-----------------------------------------------------------------------------
\* Parts of steps.
Set(f, i, v) == [f EXCEPT ![i] = v]
Call(i, c) == pc' = Set(pc, i, c) /\ UNCHANGED <<state, spill>>
Unlock(i, level) == lock' = Set(lock, i, level)

\* One call writes one page.
Store(p, content) ==
  /\ db' = [db EXCEPT ![p] = content]
  /\ maybe' = [maybe EXCEPT ![p] = @ \cup {content, Torn}]

\* sqlite3OsSync of the database file.
SyncFile == maybe' = [p \in Pages |-> {db[p]}] /\ UNCHANGED db

\* The directory is not synced: the journal may be there again after a
\* loss of power.
DeleteJournal ==
  /\ journal' = None
  /\ hotOnDisk' = hotOnDisk \cup {None}
  /\ UNCHANGED file

\* What is not read again before it is set is forgotten.
ForgetTransaction(i) ==
  /\ size' = Set(size, i, 0) /\ orig' = Set(orig, i, 0)
  /\ dirty' = Set(dirty, i, {}) /\ needSync' = Set(needSync, i, {})
  /\ counted' = Set(counted, i, FALSE)
  /\ todo' = Set(todo, i, {})

\* The pager goes back to PAGER_OPEN, with the pages that it may keep.
GiveUp(i, level, next, kept) ==
  /\ Unlock(i, level)
  /\ state' = Set(state, i, "open") /\ pc' = Set(pc, i, next)
  /\ spill' = Set(spill, i, None)
  /\ cache' = Set(cache, i, kept)
  /\ ForgetTransaction(i)
  /\ UNCHANGED <<disk, vers>>

\* It leaves without a lock, by way of SHARED in some of the failures.
Leave(i, kept) == GiveUp(i, "none", "idle", kept)
StepDown(i, kept) == GiveUp(i, "shared", "failed", kept)

Open(i) ==
  /\ state[i] = "closed"
  /\ state' = Set(state, i, "open")
  /\ UNCHANGED <<lock, disk, pc, spill, memory>>

-----------------------------------------------------------------------------
(***************************************************************************)
(* sqlite3PagerSharedLock: a SHARED lock, then hasHotJournal, then perhaps *)
(* a playback under an EXCLUSIVE lock, then a look at the change counter.  *)
(***************************************************************************)
SharedLock(i) ==
  /\ state[i] = "open" /\ pc[i] = "idle"
  /\ FL!Share(i)
  /\ Call(i, "exists")
  /\ UNCHANGED <<disk, memory>>

JournalExists(i) ==
  /\ pc[i] = "exists"
  /\ Call(i, IF journal # None THEN "reserved" ELSE "validate")
  /\ UNCHANGED <<lock, disk, memory>>

CheckReserved(i) ==
  /\ pc[i] = "reserved"
  /\ Call(i, IF FL!NoneHas(i, {"reserved", "pending"}) THEN "count" ELSE "validate")
  /\ UNCHANGED <<lock, disk, memory>>

CountPages(i) ==
  /\ pc[i] = "count"
  /\ Call(i, IF PageCount(db) = 0 THEN "drop" ELSE "peek")
  /\ UNCHANGED <<lock, disk, memory>>

\* Variant: without RESERVED the journal may be that of a live writer.
DropReserveNot(i) ==
  /\ pc[i] = "drop"
  /\ Call(i, "dropped")
  /\ UNCHANGED <<lock, disk, memory>>

\* The remnant of a database that is gone is deleted under RESERVED, or
\* ignored.
DropReserve(i) ==
  /\ pc[i] = "drop"
  /\ \/ FL!Reserve(i) /\ Call(i, "dropped")
     \/ UNCHANGED lock /\ Call(i, "validate")
  /\ UNCHANGED <<disk, memory>>

\* No one looks whether the deletion succeeds.
DropJournal(i) ==
  /\ pc[i] = "dropped"
  /\ DeleteJournal \/ UNCHANGED disk
  /\ Call(i, "unlock")
  /\ UNCHANGED <<lock, memory>>

\* A journal that has just gone counts as hot, to be looked at again.
PeekJournal(i) ==
  /\ pc[i] = "peek"
  /\ Call(i, IF journal = None \/ journal.hot THEN "hot" ELSE "validate")
  /\ UNCHANGED <<lock, disk, memory>>

\* Variant: RESERVED is taken on the way to EXCLUSIVE.
HotLockReserves(i) ==
  /\ pc[i] = "hot"
  /\ FL!NoneHas(i, {"reserved"} \cup FL!Pendings)
  /\ lock' = Set(lock, i, "pending")
  /\ Call(i, "wait")
  /\ UNCHANGED <<disk, memory>>

HotLock(i) ==
  /\ pc[i] = "hot"
  /\ FL!Pend(i)
  /\ Call(i, "wait")
  /\ UNCHANGED <<disk, memory>>

HotExclude(i) ==
  /\ pc[i] = "wait"
  /\ FL!Exclude(i)
  /\ Call(i, "found")
  /\ UNCHANGED <<disk, memory>>

\* A call of the search fails, or another has the lock (SQLITE_BUSY): the
\* pages stay, for no one has looked yet whether they are the file's.
SearchFails(i) ==
  /\ pc[i] \in {"exists", "count", "peek", "hot", "wait", "validate", "failed"}
  /\ Leave(i, cache[i])

\* Under EXCLUSIVE the journal is there or not, for good.  It is synced
\* before it is trusted (pagerSyncHotJournal), and its first header is read.
Found(i) ==
  /\ pc[i] = "found"
  /\ IF journal = None
       THEN Call(i, "unlock") /\ UNCHANGED <<hotOnDisk, todo>>
       ELSE /\ hotOnDisk' = {Findable(journal)}
            /\ Call(i, IF journal.hot THEN "truncate" ELSE "resync")
            /\ todo' = Set(todo, i, journal.counted)
  /\ UNCHANGED <<lock, file, journal, pages, vers, counted>>

\* The journal cannot be opened, or not be looked for; only the second is
\* an error of the kind that costs the pages.
CannotOpen(i) ==
  /\ pc[i] = "found"
  /\ \E kept \in {cache[i], NoPages} : StepDown(i, kept)

-----------------------------------------------------------------------------
(***************************************************************************)
(* pager_playback, of a hot journal or of the transaction of this pager.   *)
(***************************************************************************)
\* The size of a file is taken to reach the disk no later than a deletion
\* that follows, so that it can as well be there at once.
Truncate(i) ==
  /\ pc[i] = "truncate"
  /\ db' = [p \in Pages |-> IF p > journal.size THEN None ELSE db[p]]
  /\ maybe' = [p \in Pages |-> IF p > journal.size THEN {None} ELSE maybe[p]]
  /\ Call(i, IF todo[i] = {} THEN "resync" ELSE "replay")
  /\ cache' = IF state[i] = "open" /\ todo[i] # {} THEN Set(cache, i, NoPages) ELSE cache
  /\ UNCHANGED <<lock, journal, hotOnDisk, size, orig, dirty, needSync, vers, counted, todo>>

Replay(i) ==
  /\ pc[i] = "replay"
  /\ \E p \in todo[i] :
       /\ Store(p, journal.recs[p])
       /\ todo' = Set(todo, i, todo[i] \ {p})
       /\ Call(i, IF todo[i] = {p} THEN "resync" ELSE "replay")
  /\ UNCHANGED <<lock, journal, hotOnDisk, pages, vers, counted>>

\* Variant: the journal goes before the database file is synced.
ResyncNot(i) ==
  /\ pc[i] = "resync"
  /\ Call(i, "delete")
  /\ UNCHANGED <<lock, disk, memory>>

Resync(i) ==
  /\ pc[i] = "resync"
  /\ SyncFile
  /\ Call(i, "delete")
  /\ UNCHANGED <<lock, journal, hotOnDisk, memory>>

Delete(i) ==
  /\ pc[i] = "delete"
  /\ DeleteJournal
  /\ Call(i, "unlock")
  /\ UNCHANGED <<lock, memory>>

\* pagerUnlockDb to SHARED_LOCK, at the end of a transaction or a playback.
UnlockDb(i) ==
  /\ pc[i] = "unlock"
  /\ Unlock(i, "shared")
  /\ counted' = Set(counted, i, FALSE)
  /\ pc' = Set(pc, i, IF state[i] = "open" THEN "validate" ELSE "idle")
  /\ state' = IF state[i] = "open" THEN state ELSE Set(state, i, "reader")
  /\ orig' = Set(orig, i, 0)
  /\ UNCHANGED <<spill, disk, size, cache, dirty, needSync, vers, todo>>

\* Variant: the pages in memory are taken for those of the file.
ValidateNot(i) ==
  /\ pc[i] = "validate"
  /\ size' = Set(size, i, PageCount(db))
  /\ state' = Set(state, i, "reader") /\ pc' = Set(pc, i, "idle")
  /\ UNCHANGED <<lock, spill, disk, orig, cache, dirty, needSync, vers, counted, todo>>

Validate(i) ==
  /\ pc[i] = "validate"
  /\ cache' = IF vers[i] = Counter(db) THEN cache ELSE Set(cache, i, NoPages)
  /\ size' = Set(size, i, PageCount(db))
  /\ state' = Set(state, i, "reader") /\ pc' = Set(pc, i, "idle")
  /\ UNCHANGED <<lock, spill, disk, orig, dirty, needSync, vers, counted, todo>>

-----------------------------------------------------------------------------
(***************************************************************************)
(* Reading, and changing pages in memory.                                  *)
(***************************************************************************)
Idle(i) == Reading(i) /\ pc[i] = "idle"

\* readDbPage.  The b-tree holds page 1 from its first read to the end of
\* the transaction.
Fetch(i, p) ==
  /\ Idle(i)
  /\ p <= size[i] /\ cache[i][p] = None
  /\ p = 1 \/ cache[i][1] # None
  /\ cache' = [cache EXCEPT ![i][p] = db[p]]
  /\ vers' = IF p = 1 THEN Set(vers, i, db[1]) ELSE vers
  /\ UNCHANGED <<lock, disk, progress, size, orig, dirty, needSync, counted, todo>>

EndRead(i) == Idle(i) /\ state[i] = "reader" /\ Leave(i, cache[i])

PagerBegin(i) ==
  /\ Idle(i) /\ state[i] = "reader"
  /\ size[i] = 0 \/ cache[i][1] # None
  /\ vers[i] <= MaxVersion
  /\ FL!Reserve(i)
  /\ state' = Set(state, i, "locked")
  /\ orig' = Set(orig, i, size[i])
  /\ UNCHANGED <<disk, pc, spill, size, cache, dirty, needSync, vers, counted, todo>>

\* The page as it was goes into the journal before it is changed, once.
NewJournal(i) == [size |-> orig[i], hot |-> FALSE, recs |-> NoPages, counted |-> {}]
WithRecord(j, i, p) ==
  IF p <= orig[i] /\ j.recs[p] = None THEN [j EXCEPT !.recs[p] = cache[i][p]] ELSE j
Unsynced(j, i, p) ==
  (j.recs[p] = None) /\ (p <= orig[i] \/ state[i] # "dbmod")

\* pager_write, and the change that its caller makes to the page.
PagerWrite(i, p, content) ==
  LET j == IF state[i] = "locked" THEN NewJournal(i) ELSE journal IN
  /\ journal' = WithRecord(j, i, p)
  /\ hotOnDisk' = IF state[i] = "locked" THEN hotOnDisk \cup {None} ELSE hotOnDisk
  /\ state' = IF state[i] = "locked" THEN Set(state, i, "cachemod") ELSE state
  /\ cache' = [cache EXCEPT ![i][p] = content]
  /\ dirty' = Set(dirty, i, dirty[i] \cup {p})
  /\ needSync' = IF Unsynced(j, i, p) THEN Set(needSync, i, needSync[i] \cup {p}) ELSE needSync
  /\ size' = IF p > size[i] THEN Set(size, i, p) ELSE size

Write(i, p) ==
  /\ Idle(i) /\ state[i] # "reader"
  /\ IF p > size[i] THEN p = size[i] + 1 ELSE cache[i][p] # None
  /\ \E content \in Content(p) :
       /\ p = 1 => content = Counter(cache[i])
       /\ PagerWrite(i, p, content)
  /\ UNCHANGED <<lock, file, pc, spill, orig, vers, counted, todo>>

-----------------------------------------------------------------------------
(***************************************************************************)
(* Writing.  syncJournal asks for EXCLUSIVE, counts the records in the     *)
(* header between two syncs of the journal, and then pages may be written: *)
(* one when memory is short (pagerStress), all of them in a commit.        *)
(***************************************************************************)
WriteFrom(i) == IF lock[i] = "exclusive" THEN "header" ELSE "excl"

PagerStress(i, p) ==
  /\ Idle(i) /\ p \in dirty[i] \ {1}
  /\ spill' = Set(spill, i, p)
  /\ pc' = Set(pc, i, IF p \in needSync[i] \/ state[i] = "cachemod" THEN WriteFrom(i) ELSE "write")
  /\ UNCHANGED <<lock, disk, state, memory>>

\* Variant: the counter goes up with every try to commit.
CommitCountsTries(i) ==
  /\ Idle(i) /\ Writing(i)
  /\ PagerWrite(i, 1, cache[i][1] + 1)
  /\ counted' = Set(counted, i, TRUE)
  /\ pc' = Set(pc, i, WriteFrom(i))
  /\ UNCHANGED <<lock, file, spill, orig, vers, todo>>

\* sqlite3PagerCommitPhaseOne as far as the change counter.
CommitPhaseOne(i) ==
  /\ Idle(i) /\ Writing(i)
  /\ IF counted[i]
       THEN UNCHANGED <<journal, hotOnDisk, state, pages>>
       ELSE PagerWrite(i, 1, vers[i] + 1) /\ UNCHANGED orig
  /\ counted' = Set(counted, i, TRUE)
  /\ pc' = Set(pc, i, WriteFrom(i))
  /\ UNCHANGED <<lock, file, spill, vers, todo>>

\* A transaction that changed nothing.
CommitNothing(i) ==
  /\ Idle(i) /\ state[i] = "locked"
  /\ Call(i, "unlock")
  /\ UNCHANGED <<lock, disk, memory>>

\* Variant: the readers are not waited for.
ExclusiveLockOverReaders(i) ==
  /\ pc[i] = "excl"
  /\ IF lock[i] = "reserved"
       THEN FL!Pend(i) /\ UNCHANGED progress
       ELSE UNCHANGED lock /\ Call(i, "header")
  /\ UNCHANGED <<disk, memory>>

ExclusiveLock(i) ==
  /\ pc[i] = "excl"
  /\ IF lock[i] = "reserved"
       THEN FL!Pend(i) /\ UNCHANGED progress
       ELSE FL!Exclude(i) /\ Call(i, "header")
  /\ UNCHANGED <<disk, memory>>

\* SQLITE_BUSY: the transaction goes on, with the lock it has reached.
WriteBusy(i) ==
  /\ pc[i] = "excl"
  /\ pc' = Set(pc, i, "idle") /\ spill' = Set(spill, i, None)
  /\ UNCHANGED <<lock, disk, state, memory>>

JournalHeader(i) ==
  /\ pc[i] = "header"
  /\ journal' = [journal EXCEPT !.hot = TRUE, !.counted = Recorded(journal)]
  /\ hotOnDisk' = {Findable(journal), Findable(journal')}
  /\ Call(i, "sync")
  /\ UNCHANGED <<lock, file, memory>>

\* Variant: one sync of the journal, before its header is written.
SyncJournalOnce(i) ==
  /\ pc[i] = "sync"
  /\ needSync' = Set(needSync, i, {})
  /\ state' = Set(state, i, "dbmod") /\ pc' = Set(pc, i, "write")
  /\ UNCHANGED <<lock, disk, spill, size, orig, cache, dirty, vers, counted, todo>>

SyncJournal(i) ==
  /\ pc[i] = "sync"
  /\ hotOnDisk' = {Findable(journal)}
  /\ needSync' = Set(needSync, i, {})
  /\ state' = Set(state, i, "dbmod") /\ pc' = Set(pc, i, "write")
  /\ UNCHANGED <<lock, file, journal, spill, size, orig, cache, dirty, vers, counted, todo>>

\* pager_write_pagelist, for one page and for all of them in their order.
WriteSpilled(i) ==
  /\ pc[i] = "write" /\ spill[i] # None
  /\ Store(spill[i], cache[i][spill[i]])
  /\ cache' = [cache EXCEPT ![i][spill[i]] = None]
  /\ dirty' = Set(dirty, i, dirty[i] \ {spill[i]})
  /\ pc' = Set(pc, i, "idle") /\ spill' = Set(spill, i, None)
  /\ UNCHANGED <<lock, journal, hotOnDisk, state, size, orig, needSync, vers, counted, todo>>

WritePage(i) ==
  /\ pc[i] = "write" /\ spill[i] = None
  /\ \E p \in dirty[i] :
       /\ \A q \in dirty[i] : p <= q
       /\ Store(p, cache[i][p])
       /\ vers' = IF p = 1 THEN Set(vers, i, cache[i][1]) ELSE vers
       /\ dirty' = Set(dirty, i, dirty[i] \ {p})
       /\ Call(i, IF dirty[i] = {p} THEN "syncdb" ELSE "write")
  /\ UNCHANGED <<lock, journal, hotOnDisk, size, orig, cache, needSync, counted, todo>>

SyncDb(i) ==
  /\ pc[i] = "syncdb"
  /\ SyncFile
  /\ Call(i, "finish")
  /\ UNCHANGED <<lock, journal, hotOnDisk, memory>>

\* sqlite3PagerCommitPhaseTwo: with the journal gone the change is made.
CommitPhaseTwo(i) ==
  /\ pc[i] = "finish"
  /\ DeleteJournal
  /\ Call(i, "unlock")
  /\ UNCHANGED <<lock, memory>>

-----------------------------------------------------------------------------
(***************************************************************************)
(* Going back.  The pages in memory are restored at once; those that were  *)
(* written, from the records that are synced.                              *)
(***************************************************************************)
Restored(i) ==
  [p \in Pages |-> IF p > orig[i] THEN None
                   ELSE IF cache[i][p] # None /\ journal.recs[p] # None
                     THEN journal.recs[p] ELSE cache[i][p]]

GoBack(i) ==
  /\ cache' = Set(cache, i, Restored(i))
  /\ vers' = IF journal.recs[1] # None THEN Set(vers, i, journal.recs[1]) ELSE vers
  /\ size' = Set(size, i, orig[i])
  /\ dirty' = Set(dirty, i, {}) /\ needSync' = Set(needSync, i, {})
  /\ counted' = Set(counted, i, FALSE)
  /\ pc' = Set(pc, i, IF state[i] = "dbmod" THEN "truncate" ELSE "delete")
  /\ todo' = IF state[i] = "dbmod"
               THEN Set(todo, i, Recorded(journal) \ needSync[i]) ELSE todo
  /\ spill' = Set(spill, i, None)
  /\ UNCHANGED <<lock, disk, state, orig>>

PagerRollback(i) == Idle(i) /\ Writing(i) /\ GoBack(i)

\* A failed call of CommitPhaseOne makes its caller roll back.
CommitFails(i) ==
  /\ pc[i] \in {"header", "sync", "write", "syncdb"} /\ spill[i] = None
  /\ GoBack(i)

\* Any other puts the pager in PAGER_ERROR: it gives up its pages and its
\* lock, and leaves the journal to whoever comes next.  (The pages are
\* also gone when what fails is the second call of a validation.)
PagerError(i) ==
  /\ \/ pc[i] \in {"found", "truncate", "replay", "resync", "validate"}
     \/ pc[i] \in {"header", "sync", "write"} /\ spill[i] # None
  /\ Leave(i, NoPages)

\* Variant: the journal is taken for gone, whatever the deletion says.
DeleteFailsUnseen(i) ==
  /\ pc[i] \in {"delete", "finish"}
  /\ Call(i, "unlock")
  /\ UNCHANGED <<lock, disk, memory>>

\* A journal that cannot be deleted stays, too, but the lock has become
\* SHARED by the time that the error is seen.
DeleteFails(i) == pc[i] \in {"delete", "finish"} /\ StepDown(i, NoPages)

PagerClose(i) ==
  /\ state[i] = "open" /\ pc[i] = "idle"
  /\ state' = Set(state, i, "closed")
  /\ cache' = Set(cache, i, NoPages) /\ vers' = Set(vers, i, 0)
  /\ UNCHANGED <<lock, disk, pc, spill, size, orig, dirty, needSync, counted, todo>>

-----------------------------------------------------------------------------
\* The programs of the set gone end, and with them what they have in memory.
End(gone) ==
  LET but(f, v) == [i \in Procs |-> IF i \in gone THEN v ELSE f[i]] IN
  /\ lock' = but(lock, "none")
  /\ state' = but(state, "closed") /\ pc' = but(pc, "idle") /\ spill' = but(spill, None)
  /\ size' = but(size, 0) /\ orig' = but(orig, 0) /\ cache' = but(cache, NoPages)
  /\ dirty' = but(dirty, {}) /\ needSync' = but(needSync, {})
  /\ vers' = but(vers, 0) /\ counted' = but(counted, FALSE) /\ todo' = but(todo, {})

Crash(i) == state[i] # "closed" /\ End({i}) /\ UNCHANGED disk

\* What the disk may hold after a loss of power.
Outcomes == {d \in [Pages -> UNION {maybe[p] : p \in Pages}] : \A p \in Pages : d[p] \in maybe[p]}

PowerLoss ==
  /\ End(Procs)
  /\ db' \in Outcomes
  /\ journal' \in hotOnDisk
  /\ maybe' = [p \in Pages |-> {db'[p]}]
  /\ hotOnDisk' = {journal'}

\* SqliteDatabase::Delete of the plug-in, which leaves the journal alone.
DeleteDb ==
  /\ \A i \in Procs : state[i] = "closed"
  /\ db' = NoPages /\ maybe' = [p \in Pages |-> {None}]
  /\ UNCHANGED <<lock, journal, hotOnDisk, progress, memory>>

Recovering(i) ==
  \/ SharedLock(i) \/ JournalExists(i) \/ CheckReserved(i) \/ CountPages(i)
  \/ DropReserve(i) \/ DropJournal(i) \/ PeekJournal(i) \/ HotLock(i)
  \/ HotExclude(i) \/ SearchFails(i) \/ Found(i) \/ CannotOpen(i) \/ Validate(i)
PlayingBack(i) ==
  \/ PagerRollback(i) \/ CommitFails(i) \/ Truncate(i) \/ Replay(i) \/ Resync(i)
  \/ Delete(i) \/ UnlockDb(i) \/ PagerError(i) \/ DeleteFails(i)
Using(i) ==
  \/ Open(i) \/ EndRead(i) \/ PagerBegin(i) \/ PagerClose(i)
  \/ \E p \in Pages : Fetch(i, p) \/ Write(i, p) \/ PagerStress(i, p)
Committing(i) ==
  \/ CommitPhaseOne(i) \/ CommitNothing(i) \/ ExclusiveLock(i) \/ WriteBusy(i)
  \/ JournalHeader(i) \/ SyncJournal(i) \/ WriteSpilled(i) \/ WritePage(i)
  \/ SyncDb(i) \/ CommitPhaseTwo(i)

Next ==
  \/ \E i \in Procs : \/ Recovering(i) \/ PlayingBack(i) \/ Using(i)
                      \/ Committing(i) \/ Crash(i)
  \/ PowerLoss \/ DeleteDb

Spec == Init /\ [][Next]_vars

-----------------------------------------------------------------------------
\* What the file says to whoever opens it next, now or after a loss of power.
Image == Recovered(db, Findable(journal))
Possible == {Recovered(d, j) : d \in Outcomes, j \in hotOnDisk}

\* The database as a program with an open transaction would commit it.
HasDraft(i) ==
  /\ Rank[state[i]] >= Rank["locked"]
  /\ pc[i] \notin {"truncate", "replay", "resync", "delete", "unlock"}
Seen(i) == [p \in Pages |-> IF p > size[i] THEN None
                            ELSE IF cache[i][p] # None THEN cache[i][p] ELSE db[p]]

AF == INSTANCE AtomicFile WITH
        Empty <- NoPages, image <- Image, possible <- Possible,
        draft <- [i \in Procs |-> IF HasDraft(i) THEN Seen(i) ELSE None]

\* No step but a loss of power, and the deletion of the whole file, writes
\* the database file unless the program that takes it has the file alone,
\* or the journal unless no other may prepare changes: the file is written
\* in commits, spills and playbacks, and the journal made, synced and deleted
\* on the way of each of them.
Lone == \A i \in Procs : state'[i] = "closed"
WritesAreAlone ==
  [][Lone \/ \E i \in Procs :
       /\ db' = db \/ (lock[i] = "exclusive" /\ FL!NoneHas(i, FL!Levels \ {"none"}))
       /\ journal' = journal \/ (lock[i] \in Preparing /\ FL!NoneHas(i, Preparing))]_vars

\* A transaction becomes the content of the file when its journal is
\* deleted, and until then has changed nothing: whatever program ends,
\* call fails or power goes, in the middle of it or of a playback.
FileIsAtomic == AF!Spec

\* No page in the memory of a program is older or newer than the last
\* commit, but for those it has changed itself.
MemoryIsCommitted ==
  \A i \in Procs : Idle(i) =>
    \A p \in 1..size[i] :
      \/ cache[i][p] \in {None, Image[p]}
      \/ Writing(i) /\ (p > orig[i] \/ journal.recs[p] # None)

\* The journal of a writer is never deleted or started again by another,
\* which would leave its changes without a way back.
LiveJournalStays ==
  \A i \in Procs : Writing(i) /\ pc[i] # "unlock" =>
    /\ journal # None /\ journal.size = orig[i]
    /\ \A p \in dirty[i] : p <= orig[i] => journal.recs[p] # None
    /\ state[i] = "dbmod" => journal.hot /\ Findable(journal) \in hotOnDisk
=============================================================================
