# NppTags in TLA+

NppTags is a plug-in for Notepad++. It runs ctags on the files below a
directory, imports the tags file into an SQLite database (`tags.sqlite`), shows
the tags in a tree, looks up the tag under the cursor, and jumps to tags and
back. This directory models it, checks the models with TLC, and proves
theorems about them with TLAPS. All paths below are relative to the repository.

## The system

| Component | Source | State | Operations | Hard because |
|---|---|---|---|---|
| SQLite wrapper | `SqliteDB.cpp/.h` | the handle `_db`, the filename, transactions and locks of the library | Open, Close, Delete, Execute, transactions, statements | paired by hand; two kinds of exception; a handle survives a failed Open |
| Tags database | `TagsDatabase.cpp/.h` | `_dbFile`, `_tagsFile`, `_curDir`; the files on disk | Generate, UpdateFilename, ImportTags, Open, Init | several copies of the plug-in share the files; crashes; each call can fail |
| Tags tree | `DlgTree.cpp/.h` | `s_bTreeVisible`, the items, the Tags they own | TagsTree, UpdateTagsTree, double-click, expand, close | called back by the editor while a Tag is in use; three flags for one window |
| Tree builders | `TreeBuilder*.cpp/.h` | per item: depth, Tag, language, for SQL two flags | Expand, New, InsertItem | six languages; what an item contains is decided a level earlier |
| Lookup | `DlgSelectTag.cpp/.h` | the tags found | JumpToTag, FindTagInDB, the dialog | relies on a filename that may be stale |
| Jumping | `NppTags.cpp:289-387` | the stack `s_JumpBackStack` | JumpToTag, StoreCurrentPosition, JumpBack | lines from 0 and from 1, a limit that changes, files that are gone |
| Options | `Options.cpp`, `NppOptions.cpp`, `DlgOptions.cpp` | `NppTags.ini` and its values in memory | Read, Write, the dialog | written only at the end of the session |
| Plug-in entry | `NppTags.cpp` | the globals `g_DB`, `g_Options` | beNotified, DllMain, menu entries | notifications before the options exist |
| Tag record | `Tag.cpp/.h` | one tag | from a line of the tags file, to and from a row | one object for all lines; ctags' escapes are undone in part |
| Tags file reader | `readtags.c/.h` | position in the tags file, line buffer, list of fields | tagsOpen, tagsNext, tagsClose | a buffer that grows in the middle of a line; end of file and error are the same answer |
| SQLite library | `sqlite3.c/.h` | file locks, journal, pages in memory | lock, read, write, commit, roll back, recover | other programs, crashes and losses of power between any two calls |

How they interact. Everything of one copy of the plug-in runs on the editor's
thread. The editor calls `beNotified` and the menu entries; the plug-in calls
the editor with `SendMessage`, and the editor may call the plug-in back before
that returns (`NPPM_DOOPEN` delivers `NPPN_BUFFERACTIVATED`). `TagsDatabase`
derives from `SqliteDatabase`; the tree, the builders and the lookup use the
one `g_DB`. `Generate` waits for ctags without a time limit. Different copies
of the plug-in meet in the two files of a directory and in `NppTags.ini`. The
SQLite library is compiled into the plug-in; in the database file its copies
meet through byte-range locks, and through a journal beside the file.

What makes it correct: a database is complete or not there; its version number
can be trusted; no step of one copy spoils what another reads; nothing is
deleted before its replacement exists; the database in use is the one nearest
to the current file; the tree, its Tags and the open handle belong to that
database; a Tag in use is not deleted; the tree has every tag it has a place
for; a jump back returns to where the jump started. `PROJECT.json` lists the
hazards at their lines, with the properties that would catch each.

## The modules

| Module | What it models |
|---|---|
| `SqliteDB` | `SqliteDatabase`/`SqliteStatement` on one file, for any number of instances: connections, locks from SHARED to EXCLUSIVE, one draft per transaction, rollback |
| `TagsDatabase` | EXTENDS `SqliteDB`. Generate, lookup, tree, expand as programs with a `pc`; one step per call that touches a file; crashes and failing calls between any two |
| `DatabaseFile` | The abstract specification: what the file promises to whoever opens it. `TagsDatabase` implements it (`DBF == INSTANCE DatabaseFile`) |
| `FileLock` | Abstract: the five levels of SQLite's file lock and who may go from one to the next |
| `WinLock` | `winLock`, `winUnlock`, `winCheckReservedLock` of `sqlite3.c`, one step per call into Windows, with processes that end between any two. It implements `FileLock` |
| `AtomicFile` | Abstract: a file whose content changes by whole commits, of which a loss of power takes back the last at most |
| `Pager` | The pager of `sqlite3.c`, on `FileLock`: cache, journal, syncs, change counter, spilled pages, rollback, hot journals, on a disk that loses what was not synced. It implements `AtomicFile` |
| `TagsFile` | A tags file from its bytes to the rows: the line buffer and the list of fields of `readtags.c`, `Tag::operator=`, `TrimPattern`, `SaveToDB`, `SetFromDB` |
| `TagsTree` | One copy of the plug-in among many directories: which database is used, the tree built from it, the calls that come back from the editor, the end of the session |
| `TreeBuilders` | The items each builder makes, on a database that does not change |
| `JumpBack` | The stack of positions and the jumps |
| `*_proof` | The theorems, each EXTENDS its module and TLAPS; `PagerAtomic_proof` EXTENDS `Pager_proof` |
| `MC*` | The model values for TLC |

`TagsDatabase` and `TagsTree` are two views of the same class. In the first
the directory is fixed and a use of the database is taken apart statement by
statement, because other instances and crashes come between the statements. In
the second a use is one step with a set of outcomes (`Opening`, `Reading`,
`Importing`): what becomes of the file, what handle is left, whether a
`SqliteException` or a `char*` is thrown, and whether rows may have been read.
They are the outcomes the steps of the first allow; that is not proved, it is
kept right by reading the two side by side.

Below `TagsDatabase`, the locks and commits that `SqliteDB` states are taken
apart: `Pager` uses `FileLock` for its locks, and `WinLock` implements
`FileLock`. A commit of `SqliteDB` is one step; that `Pager` implements
`AtomicFile` is what makes that one step true, also when a program ends or the
power goes in the middle of it. `SqliteDB` itself is not derived from `Pager`:
between the two is the b-tree, which is not modelled.

How state corresponds, where the name does not say it:

- `TagsDatabase`: `pc[i]` is the place in the operation `op[i]`; `conn[i]` is
  `_db` (null, open, or "sick": a handle sqlite3 made for a file it could not
  open); `named[i]` says that `_dbFile` is set; `reader[i]` is the `tagFile`;
  `stuck[i]` a `tagFile` that is never closed; `threw[i]` remembers that an
  operation failed. `op[i] = "borrow"` is Expand with a handle that was
  already there. The rows are counted per tag, so that lost and doubled rows
  show. What ends an import are three steps, as in the code: `Finish` closes
  the database, `CloseTagsFile` the tags file, `DeleteTagsFile` removes it.
- `TagsTree`: `dbFile` and `conn` are the directory of `_dbFile` and of the
  open file; `db[d]` the kind of `tags.sqlite` in `d`; `visible` is
  `s_bTreeVisible`, `docked` what is on the screen, `show` the option. `jump`
  is the activation of `JumpToTag(Tag*, bool)` between its first and last
  line; `jump.from` the tree its Tag belongs to, `jump.freed` that the tree
  has deleted it.
- `JumpBack`: three history variables. `trail` is the stack as it would be
  without a limit, `from` the place the last step jumped from, and `most` the
  largest limit since the stack was last empty.
- `WinLock`: `bytes[b][h]` is the lock the handle `h` has on the range `b` (the
  byte PENDING, the byte RESERVED, the 510 bytes SHARED); `locktype` is
  `pFile->locktype`; `pc`, `goal` and `cnt` are the place in `winLock` or
  `winUnlock`, the lock that was asked for, and the tries left for PENDING.
  `Level(h)` is what these make together. `Outsiders` are the ranges in which
  other programs than SQLite's lock a byte for a moment (`Refused`).
- `Pager`: `db` is the file as the system has it, `maybe` what each page on the
  disk may hold, `journal` and `hotOnDisk` the same for the journal. `state`,
  `size`, `orig`, `vers` and `counted` are `eState`, `dbSize`, `dbOrigSize`,
  `dbFileVers` and `changeCountDone`; `cache`, `dirty` and `needSync` are the
  page cache and two flags of its pages. `pc` is the next call to the file
  system; `todo` the records a playback has yet to copy. Page 1 holds the
  change counter and nothing else. Any of these calls may fail: in the search
  for a journal (`SearchFails`), at its opening (`CannotOpen`), in a playback or
  a commit (`PagerError`, `CommitFails`), at its deletion (`DeleteFails`).
  `pc = "failed"` is the moment in which a failure has stepped down to SHARED
  and not yet let go of it. A deletion whose result the code does not look at
  (`sqlite3.c:57259`) may leave the journal without a word (`DropJournal`).
- `TagsFile`: `at` and `off` are the position in the file, `start` is
  `startOfLine`, a line and the place in it; `size` is `line.size`, `max` is
  `fields.max`, `list` the fields found so far; `tag` is the `Tag` of
  `ImportTags`, `bound` what its statement has bound. A line is a record of
  what it says, its length and its line end. `Pattern` and `CutPattern` are
  what ctags writes, and are marked external. `Fails` is every way in which
  `tagsOpen` or `tagsNext` gives up for another reason than a line.
- `TreeBuilders`: an item is the path of labels from the root, with the
  fields of its builder. `OnItemExpanding` makes its children. Types are
  compared with `LowerCase`, a parameter, as `_wcsicmp` does.

Variants (the definitions commented "Variant:") are what plausible mistakes in
the code would look like. No action uses them; replacing the definition after
them by its variant makes the property named in `PROJECT.json` fail.

## The runs

Passing:

| Run | Question | Bounds |
|---|---|---|
| `one_instance` | Is an import whole wherever it is cut off, do the files it replaces outlive it, who leaves the database open? | one instance, all nine faults, four tags files (empty, one tag, a tag passed over between two, a bad line between two): 5,756 states |
| `two_instances` | Can the version be trusted, do readers see one state and leave the rows alone, does the file implement `DatabaseFile`, does every operation end? | two instances, the faults of a use of the database (open, read, write, commit, crash), one tags file, which is kept and reused (OverwriteTags off): 334,062 states |
| `tags_tree` | Is the right database used, do the tree, an open handle and a Tag in use belong to it, do the three flags of the window agree? | three nested directories, a file at each end and one never saved, depths 0 to 2, every kind of database, faults: 945,225 states |
| `tree_items` | What does the fully opened tree contain, how often, and are the (+) right? | seven languages, every subset of 6 to 10 tags of each, with or without a class of another language: 119,588 states |
| `jump_back` | Is the stack the newest part of an unlimited one, does a jump back end on the exact line? | two files of two and three lines, four positions on the trail, limits -1, 0, 1, 3: 13,401 states |
| `win_locks` | Do the byte ranges keep the rules of `FileLock`, does `locktype` say what a handle has, does a read lock that was given up come back? | three processes, two tries for PENDING, outsiders on PENDING and RESERVED: 67,007 states |
| `pager` | Is a commit atomic (`AtomicFile`), is every page in memory that of the last commit, is a journal in use left alone, is a writer alone? | two programs, two pages, two contents, no transaction begins above change counter 2: 385,785 states |
| `tags_file` | Does each line become its row, do the fields fit in their list, is the file read to its end, does the pattern find the line? | files of up to three lines, of lengths around buffers of four and eight bytes, lists of two fields that wrap at twelve, source lines of up to four characters: 66,045 states |

Why these bounds are enough. With two instances each pair of steps of two
actors occurs in every order, and a third would only repeat what one of the two
can do to a lock. `win_locks` has three, since two can read while a third goes
up. One tag suffices where only "all or nothing" counts, four files where the
order of lines does. The faults that `two_instances` leaves out (deleting,
running ctags, the tags file) are those of `one_instance`, and touch no lock;
the theorems about the safety properties hold with all of them. Three
directories are the least in which "the nearest", "one level too far" and
"another than the tree's" differ. The pools of tags share names across files,
have members whose owner is missing, and scopes nested twice. Files are of one
language, as ctags makes them. Four positions and a limit of three make the
stack overflow and shrink. The trail (`MaxTrail`) is the one counter of
`JumpBack` that is capped; the proofs do without the cap's value.

Two pages are the least in which a commit can be half done, and a file can grow
and be cut back; two contents tell an old page from a new one. Each transaction
changes the counter, so `MaxVersion` 2 gives three of them: one that makes the
file, one that is interrupted, one that finds what is left. `Tries` is 3 in the
code; two have a first, a last and a step from one to the other. The code's
buffer has 128 bytes and its list 20 fields; `FirstSize` 4 and `FirstFields` 2
grow in the same way, and the lengths are those below, at and above each size.
`FieldsModulus` 12 stands for the 65536 of an `unsigned short`: as there,
doubling passes it without reaching it. `MaxPath` 3 stands for `MAX_PATH`, and
ctags cuts a pattern off after three characters (`CutAt`).

Violations: runs that check what a document, message or comment says, where TLC
finds a behaviour of the code that contradicts it. None needs a failing call.

| Run | Said | What the code does |
|---|---|---|
| `regenerate` | "Database has wrong version, please regenerate!" | the failed Open keeps the file open, so Delete never works again |
| `import_into_rows` | "First delete the old database", "Create the new database" | another instance fills it in between; every tag is there twice |
| `import_stops_early` | the tags file "is converted to a SQLite database" | a line that is given up on is taken for the end, and the rest is lost |
| `tag_in_use` | double-click "and you will be taken to it" | the file it opens has another database, the tree is rebuilt, and the Tag is deleted while it is used |

Met while modelling, in the models, and with no run of their own: a lookup
after a Generate that failed passes its "Does the database exist?"
(`DlgSelectTag.cpp:284`) and creates an empty database; Generate in a file
without a database rebuilds the one that was set before
(`TagsDatabase.cpp:203`); a handle left on the database of one directory makes
Generate in another delete the database there and create none
(`TagsDatabase.cpp:372`); the tree closed by the button of its own window is
stored as shown (`DlgTree.cpp:553`); a jump from the first line of a file is
not stored (`NppTags.cpp:297`); a C++ function in a namespace, and an SQL index
on a table created elsewhere, are in no item of the tree (`HasPlace` in
`TreeBuilders` says exactly which tags are); a subsection in a
reStructuredText file can have a (+) that `Expand` has no case for
(`TreeBuilderRst.cpp:69`); a limit of the jump stack that is lowered is not
kept, for each store takes one position away and adds one (`NppTags.cpp:315`,
against `docs/options.rst:15`); after a start with the tree hidden, Generate
does not know where the database is (`NppTags.cpp:127`, against
`docs/how-to-use.rst:48`).

Three more things the code does are steps of the models that no property
forbids, as nothing in the repository says what should happen instead. A jump
whose file cannot be opened goes on in the file that is current
(`NppTags.cpp:331`); `BackReturns` speaks only of files that open. A database
that was found for another file stays set while the current one has none
(`TagsDatabase.cpp:203`); `DatabaseChosen` says only what it is exchanged for.
And the deletion of a database before an Open that fails
(`TagsDatabase.cpp:372`), named above; `TreeFromDatabase` says only that no
tree is then read through the wrong handle.

In `TagsFile`: the pattern of a source line with a backslash, or with a dollar
sign at its end, is stored as ctags escaped it and is never found by Jump to
Tag (`Tag.cpp:371-381`), although a double-click should take the user to the
tag (`docs/how-to-use.rst:26`). `PatternFindsLine` says exactly of which lines
that is so, and is a theorem; no run is spent on one of them. Of a pattern that
ctags has cut off, `TrimPattern` takes its last character for the dollar sign,
which leaves a backslash when that was an escaped slash. `growFields` wraps
after 40960 fields of one line: 20 doubled twelve times is 81920, which an
`unsigned short` keeps as 16384 (`readtags.c:361`), so `FieldsFit` is stated
for files whose lines have no more than half of what an `unsigned short`
counts.

Deadlock is checked in every run but `tags_file`, where the program is done when
the file is read, and `pager`, where no transaction begins above `MaxVersion`
and a stop would be one of the bound. In the others someone can always do
something.

## Fairness

`two_instances` checks `OperationsEnd` under `FairSpec`: `WF_vars(Step(i))` for
each instance. The thread of an instance is scheduled by the operating system
and no call in an operation waits for another instance: no busy handler is set,
so a lock that cannot be had is an error at once. `Generate` waits for ctags,
so its step `CtagsEnds` is under fairness too: it is assumed that ctags ends.
What users, crashes, failing calls and file managers do is under no fairness:
an operation ends with them and without.

`tags_file` checks `ReadingEnds` under `WF_vars(Step)`: the import is one
sequential program, and it is only assumed that it goes on. Its failures
(`Fails`) are under no fairness: the reading ends without them.

## What is proved

Every safety property that a passing run checks, the three refinements
included, is also a theorem: it holds for every value of the constants that
satisfies the named assumptions (`ImportIsWhole` and `TagsFileOutlivesImport`,
for more than one instance, under the condition named below). Most assumptions
only say what kind of thing a constant is. Those that say more:

- `OptionsAssumption`: a tags file that is deleted is overwritten too
  (`Options.cpp:87`).
- `PackagesAssumption` (`TreeBuilders`): ctags reads a file with a package in it
  as Java and nothing else.
- `FilesAssumption` (`TagsFile`): only the last line of a tags file may be
  without an end.
- `NullAssumption` (`TagsFile`): what a line says is never what stands for NULL.
- `OutsidersAssumption` (`WinLock`): programs other than SQLite's lock the bytes
  PENDING and RESERVED at most, not the range SHARED.
- `PatternAssumption` (`TagsFile`): a pattern is what ctags writes for the text
  of a line, or for its first characters.

The proofs, by module:

- `TagsDatabase_proof`. `TypeCorrect`; `Invariance` of `IInv`; from it
  `VersionCorrect`, `SnapshotReads`, `Refinement` (`TagsDatabase` implements
  `DatabaseFile`), and with one more invariant each `LeaksExplained`,
  `OldDatabaseOutlivesCtags` and `ReadersAreHarmless`. `IInv` is needed because
  each property depends on who holds which lock where. `WriterInv` says that
  there is at most one writer and that its draft is the file plus what it has
  written; `PcInv` which lock each place in an operation has; `ConnInv` that an
  open file is there; `TxnInv` that no transaction is inherited; `FileInv` the
  order of tables and version. A commit is then a step of `DatabaseFile`, since
  the draft was made from the file as it still is.

  `ImportsAreWhole` and `TagsFileIsImported` have a condition, `[]OneGenerates`:
  no two instances generate at the same time. It is needed: run
  `import_into_rows` shows two imports that store every tag twice.
  `TagsFileIsImported` is about what an import can read: every wanted tag up to
  the first line that the parser gives up on, and so every wanted tag of a
  file without such a line. What is behind such a line is lost, which is what
  run `import_stops_early` shows. With one
  instance nothing has to be assumed (`SingleImportIsWhole`, the case of run
  `one_instance`). Other instances may look up tags, fill their trees, create
  the database and crash at any point. `WholeInv` says that before the import
  the file has no rows, and that what the importing instance sees is exactly
  the rows of the entries its reader has passed (`Filled`); a commit is
  reached only at the end of the tags file or at a line that is given up on.
- `TagsTree_proof`. `TypeCorrect`, `TreeIsOfDatabase`, `ScreenFlags`,
  `JumpKeepsTag`. The invariant adds that a tree with tags has a database, and
  that a jump that has not been called back belongs to the database that is
  set. The lemmas on `Reading` and `Fillings` carry the argument: rows are read
  only when no handle was there before, and so a tree with tags leaves none on
  another file. `SearchFindsNearest` and `DatabaseIsChosen` are about the loop
  over the parents of a file. The loop is a recursive function; the proof shows
  by induction that there is one function as it is defined, and that it ends
  at the first directory with a database.
- `TreeBuilders_proof`. `TypeCorrect`, `TitlesSayWhatIsBelow`,
  `OnePlaceForATag`, `EverythingIsShown`, for every table of tags and every
  order in which items are opened. `TreeInv` says of each item what its builder
  relies on when it is opened (`Shape`), and why the tag it shows is there
  (`Placed`); of the tree, that each item has an opened parent, that everything
  is there below what was opened, that every language has its root, and that no
  place is taken twice. What is shown at the end is then the work of the
  queries alone: an item that a query finds is in the tree, and so, step by
  step from the root, is each tag that has a place.
- `WinLock_proof`. `TypeCorrect`, `LockTypeIsTrue`, `ReadLockReturns`,
  `LocksAreKept` (`WinLock` implements `FileLock`), `WritesAlone`, for any
  number of processes and tries. `HandleOK` says for each place in `winLock`
  and `winUnlock` which ranges the handle has; that a range is written by one
  handle alone is the rest of the invariant. That a read lock comes back where
  no one looks at the result follows, because the handle has PENDING then, or
  the whole range, and no other can have taken a byte of it.
- `Pager_proof`. `Invariance` of its `IInv`, `WritersAlone`, for any number of
  programs and pages. `IInv` gives to each place of the pager the lock it has
  there; with the rules of `FileLock`, whoever writes the file or the journal
  is then alone in it. The module also has the lemmas on pages, journals and
  disks: which writes, syncs and losses of power keep what a playback restores.
- `PagerAtomic_proof`. `DiskInvariance` of `JInv`, and from it `PagerTypeOK`,
  `JournalStays`, `CacheIsCommitted` and `PagerImplementsAtomicFile`. `JInv` is
  `IInv`, the types, `DiskInv` and, for each program, `Memory`. `DiskInv` is
  about every file and journal that a loss of power may leave: played back,
  each pair is a database of some commit, and the journals guard what is not
  synced. `Memory(i)` is what program `i` knows, by the place it is at: that an
  old cache is of the version it remembers, that in a transaction the journal
  restores what the file was, that a playback has copied what is no longer on
  its list. A step is `InMemory`, which leaves the disk alone, or `OnDisk`,
  which has RESERVED or more; in both the others keep what they know
  (`OthersKeep`). In the refinement a transaction is the abstract draft, its
  commit the one step that deletes the journal, and syncs, playbacks, rollbacks
  and crashes leave the content as it was.
- `TagsFile_proof`. `Invariance` of `TInv`, `TypeCorrect`, `NoFieldIsLost`,
  `LinesBecomeRows`, `PatternsAreFound`, for every tags file and every size of
  buffer and list. `TInv` says where the reader stands after each piece it
  reads (`Reader`), that only the head of the file is passed over (`Header`),
  that the first fields of the line in the buffer are in the list (`Parsed`),
  which has room for them (`Fits`), and that the rows are the tags of the lines
  before (`Stored`). What a fold computes is shown by induction: the function
  `FoldLeft` is defined by exists, and takes one element after the other. So
  the Tag that is assigned field by field is the one the line says. That a
  pattern with a kept backslash is never found is a matter of length: ctags
  doubles every backslash, `TrimPattern` keeps both, and of the text between
  the first and the last character that is not a blank more is then looked for
  than there is.
- `JumpBack_proof`. `TypeCorrect`, `NewestKept`, `Bounded`, `JumpBackExact`.
  `Bounded` is about the largest limit on the way (`most`), not the present one:
  a limit that is lowered is not kept.
  That the stack is a suffix of the trail is inductive by itself; the exact
  line of a jump back follows from it, and from the last line being the
  only one a jump can be moved to.

The provers have no rule of induction that takes a formula. Where one is needed
the formula is put into a set of numbers: if a number were missing, there would
be a least one (`SetInduction`, which rests on finite sets being well-founded).

A proof that failed changed a model. `TagsFile` had `startOfLine` as the number
of a line; `Reader` was not inductive, for where the end of a pseudo tag is
split between two calls of `fgets` the first tag starts with the rest of that
end, and `start` is a position now.

Only model-checked: `OperationsEnd` and `ReadingEnds`. They are liveness under
fairness, which is out of the prover's reach.

## What is assumed of the outside

- The operating system does not delete a file that another process or this one
  has open through SQLite (it is opened without sharing deletion).
- `sqlite3_open16` leaves a handle even when it fails; a statement that fails
  leaves the connection open; a commit that finds a reader keeps PENDING.
- An exception that no handler of the plug-in takes is caught by the editor,
  and the session goes on.
- `NPPM_DOOPEN` handles `NPPN_BUFFERACTIVATED` before it returns.
- Notifications before `NPPN_READY` find no options and do nothing.
- A file system that keeps the order of what it does to names and sizes, as
  NTFS does: a file that a playback has cut is short on the disk before a
  later deletion of the journal is. The deletion itself is not synced on
  Windows, so a loss of power may take back the last commit, as a whole;
  `AtomicFile` says so. The deletion of the database is durable at once.
- A write that fails has written nothing; a page that was being written when
  the power failed holds anything (`Torn`).
- Virus scanners and indexers may lock the byte PENDING or RESERVED for a
  moment (`sqlite3.c:45388` says so of PENDING and tries again); a handle that
  has been closed under SQLite gives an error that is not tried again
  (`LockPendingInvalid`). Only SQLite locks the range SHARED:
  `ReadLockComesBack` rests on that, for there the code does not look at the
  result.
- `LockFileEx` answers at once. Two consequences are in `WinLock`: a reader that
  meets another in the moment it has PENDING is told "busy", and a look at
  RESERVED can make another's RESERVED fail. Of two programs that want to play
  back a journal both can be told "busy".
- ctags writes name, file, address and kind in every line, escapes slashes,
  backslashes and a dollar sign at the end in a pattern, and leaves the dollar
  sign out of a pattern it cuts off. A CR is in a tags file only before an LF.
- After a read of a deleted Tag the jump goes anywhere or the editor ends.

## What is not modelled

The toolbar, shortcuts, resources, theme colours, window sizes, the About
dialog, the wait cursor and the online manual: no state the rest depends on.
The context menu and the properties of a tag show what the tree has. The unused
parts of the wrapper (Attach, Detach, Vacuum, TableExists, EnableForeignKeys,
RollbackTransaction) and `InsertPragmas`. The order of the items. A negative
`Depth` in the ini file, with which the search for a database goes through the
whole range of an int. A failure inside Expand, apart from what it leaves of
the handle. Two copies of the plug-in that end and write `NppTags.ini` over each
other. The keyboard focus in a tree that is hidden. In `readtags.c`: the binary
search and the access to fields and pseudo tags by name, which the plug-in
never calls.

Of SQLite: clean pages that are dropped from memory when it is short,
savepoints and statement journals, the write-ahead log, journals of several
databases, memory-mapped files, `locking_mode` and `journal_mode` other than
the defaults (the plug-in sets none), the b-tree, and the compiler and
interpreter of statements. That is nearly all of its 234,229 lines, which are
nine tenths of the lines of this repository: `sqlite3.c` is one vendored file,
of which the plug-in runs CREATE TABLE, INSERT, SELECT and one pragma. The
parts modelled are those on which the plug-in's own promises rest, who may
write and what a crash leaves. So the map covers a small share of the
repository as a whole, and most of the plug-in's own code that has state.

## Plan

1. `Options`: the ini file, the sessions of several copies, and the debug
   options, composed with `TagsTree`; with it the one hazard that no property
   covers yet, a negative `Depth` (`TagsDatabase.cpp:281`).
2. `TagsDatabase` shown to have the outcomes `TagsTree` assumes, as a
   refinement.
3. Proofs: every safety property of a passing run is a theorem. What is left
   follows the modules of 1 and 2: the refinement between `TagsDatabase` and
   `TagsTree`, and the invariants of `Options`.
