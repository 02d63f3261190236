------------------------------ MODULE TagsTree ------------------------------
(***************************************************************************)
(* One running copy of the plug-in whose user goes from directory to       *)
(* directory: which tags.sqlite it works on (TagsDatabase::UpdateFilename),*)
(* the tree of tags built from it (DlgTree.cpp), and the calls of          *)
(* Notepad++ that come back into the plug-in while it is inside one.       *)
(*                                                                         *)
(* TagsDatabase takes the use of one database apart, statement by          *)
(* statement.  Here a use is one step, with the ways it can end, and what  *)
(* counts is which database is used when.  All of it runs on the one       *)
(* thread of the editor; only a jump takes more steps than one, because    *)
(* the plug-in reads the tag again after the editor has called it back.    *)
(***************************************************************************)
EXTENDS Naturals, FiniteSets, FiniteSetsExt

CONSTANTS
  Dirs,          \* the directories
  Parent,        \* Parent[d]: the one above; the root is its own
  Files,         \* the files the user works on
  DirOf,         \* DirOf[f]: where f is; NoDir for one that was never saved
  Depths,        \* Depth as NppTags.ini can have it, not below zero
  Found,         \* the kinds of database that lie around (see Kinds)
  Faults,        \* calls of the system can fail
  NoDir,         \* no directory
  Sick           \* a handle SQLite made for a file it could not open

ASSUME DirsAssumption ==
  /\ Parent \in [Dirs -> Dirs]
  /\ DirOf \in [Files -> Dirs \cup {NoDir}]
  /\ NoDir \notin Dirs /\ Sick \notin Dirs \cup {NoDir}
  /\ Depths \subseteq Nat
  /\ Faults \in BOOLEAN

\* tags.sqlite as TagsDatabase::Open finds it: without a byte in it, with
\* the tables but not the version number, of this version, or of another.
Kinds == {"none", "blank", "unstamped", "ready", "old"}

ASSUME FoundAssumption == Found \subseteq Kinds

VARIABLES
  db,            \* db[d]:    the tags.sqlite in d
  running,       \* NPPN_READY has come, the shutdown has not
  cur,           \* the current file
  depth,         \* g_Options->GetMaxDepth()
  show,          \* g_Options->GetShowTreeDlg()
  dbFile,        \* g_DB->_dbFile: the directory it is in, NoDir when empty
  conn,          \* g_DB->_db:     the directory of the file that is open
  visible,       \* s_bTreeVisible
  docked,        \* the window of the tree is on the screen
  tree,          \* what is in it: from which database, with tags or not
  jump           \* the call of JumpToTag(Tag*, bool) that is under way

editorVars == <<running, cur, depth>>
windowVars == <<visible, docked, show>>
vars == <<db, editorVars, dbFile, conn, windowVars, tree, jump>>

NoTree == [from |-> NoDir, nodes |-> FALSE]

\* from: the database whose tree owns the Tag, NoDir when it is a copy;
\* freed: the tree has deleted it.
Jumps == [file : Files, from : Dirs \cup {NoDir}, opened : BOOLEAN, freed : BOOLEAN]
StartJump(f, d) == [file |-> f, from |-> d, opened |-> FALSE, freed |-> FALSE]
NoJump == StartJump(NoDir, NoDir)

\* Nothing is set, open, shown or under way.
Off ==
  /\ dbFile = NoDir /\ conn = NoDir
  /\ visible = FALSE /\ docked = FALSE
  /\ tree = NoTree
  /\ jump = NoJump

\* The types, and that nothing is there before NPPN_READY has come.
TypeOK ==
  /\ db \in [Dirs -> Kinds]
  /\ running \in BOOLEAN
  /\ cur \in Files
  /\ depth \in Depths
  /\ dbFile \in Dirs \cup {NoDir}
  /\ conn \in Dirs \cup {NoDir, Sick}
  /\ {visible, docked, show} \subseteq BOOLEAN
  /\ tree \in [from : Dirs \cup {NoDir}, nodes : BOOLEAN]
  /\ jump \in Jumps \cup {NoJump}
  /\ running \/ Off

Init ==
  /\ db \in [Dirs -> Found]
  /\ cur \in Files
  /\ depth \in Depths
  /\ show \in BOOLEAN
  /\ running = FALSE
  /\ Off

-----------------------------------------------------------------------------
(***************************************************************************)
(* Which database                                                          *)
(***************************************************************************)
Exists(d) == db[d] # "none"

\* Variant: the last level is not looked at.
SearchStopsShort(f) ==
  LET climb[k \in 0..depth] ==
        [d \in Dirs |-> IF k = 0 THEN NoDir ELSE IF Exists(d) THEN d
                        ELSE climb[k - 1][Parent[d]]]
  IN  IF DirOf[f] = NoDir THEN NoDir ELSE climb[depth][DirOf[f]]

\* GetTagsFilename(true): the loop upwards from the directory of the file.
Search(f) ==
  LET climb[k \in 0..depth] ==
        [d \in Dirs |-> IF Exists(d) THEN d ELSE IF k = 0 THEN NoDir
                        ELSE climb[k - 1][Parent[d]]]
  IN  IF DirOf[f] = NoDir THEN NoDir ELSE climb[depth][DirOf[f]]

\* Variant: the tree is rebuilt for the file that is already set.
AnyFound(f) == Search(f) \in Dirs

\* ... which does nothing when it finds the file that is set already.
AnotherFound(f) == Search(f) \in Dirs \ {dbFile}

\* Variant: Generate always takes the directory of the current file.
CurrentDirectory == DirOf[cur]

\* The directory Generate works in.
Generated == IF dbFile # NoDir THEN dbFile ELSE DirOf[cur]

-----------------------------------------------------------------------------
(***************************************************************************)
(* Using a database.  kind: what becomes of the file; conn: of the handle; *)
(* exit: "throws" a SqliteException or "escapes" with a char* that no      *)
(* handler of the plug-in takes; read: rows may have been read.            *)
(***************************************************************************)
Outcome(kind, c, exit, read) == [kind |-> kind, conn |-> c, exit |-> exit, read |-> read]

Created(kind) == IF kind = "none" THEN "blank" ELSE kind

\* Variant: a handle that is there already is used, whatever it is open on.
OpeningReuses(d, kind, c) ==
  IF c # NoDir THEN {Outcome(kind, c, "ok", FALSE)}
  ELSE {Outcome(kind, d, IF kind = "ready" THEN "ok" ELSE "throws", FALSE)}

\* TagsDatabase::Open on the database of d, the handle being c.  A handle
\* that is there already is kept; so is the new one when Open fails.
Opening(d, kind, c) ==
  IF c # NoDir THEN {Outcome(kind, c, "throws", FALSE)}
  ELSE {CASE kind = "ready" -> Outcome(kind, d, "ok", FALSE)
          [] kind = "old" -> Outcome(kind, d, "throws", FALSE)
          [] kind = "unstamped" -> Outcome(kind, d, "escapes", FALSE)
          [] OTHER -> Outcome("ready", d, "ok", FALSE)}
       \cup (IF ~Faults THEN {}
             ELSE {Outcome(kind, Sick, "throws", FALSE),
                   Outcome(Created(kind), d, "throws", FALSE)}
                  \cup (IF kind \in {"none", "blank"}
                        THEN {Outcome(k, d, "escapes", FALSE) : k \in {"blank", "unstamped"}}
                        ELSE {}))

\* Open, read some rows, Close.  A statement that fails leaves it open.
Reading(d, kind, c) ==
  UNION {IF o.exit # "ok" THEN {o}
         ELSE {[o EXCEPT !.conn = NoDir, !.read = (kind = "ready")]}
              \cup (IF Faults THEN {[o EXCEPT !.exit = "throws", !.read = (kind = "ready")]} ELSE {})
         : o \in Opening(d, kind, c)}

\* UpdateTagsTree while the tree is visible: cleared, then a text when no
\* file is set, else filled.  The outcome of the use comes with the tree.
Fillings(d, kind, c) ==
  IF d = NoDir
  THEN {[use |-> Outcome(kind, c, "ok", FALSE), tree |-> NoTree]}
  ELSE UNION {{[use |-> o, tree |-> [from |-> d, nodes |-> n]] : n \in {FALSE, o.read}}
              : o \in Reading(d, kind, c)}

KindOf(d) == IF d = NoDir THEN "none" ELSE db[d]
Put(d, kind) == IF d = NoDir THEN db ELSE [db EXCEPT ![d] = kind]

\* UpdateTagsTree() on the database of d, the handle being c.
UpdateTagsTree(d, kind, c) ==
  IF visible
  THEN \E o \in Fillings(d, kind, c) :
         /\ db' = Put(d, o.use.kind)
         /\ conn' = o.use.conn
         /\ tree' = o.tree
  ELSE db' = Put(d, kind) /\ conn' = c /\ UNCHANGED tree

\* TagsDatabase::UpdateFilename(), with f the current file.
UpdateFilename(f) ==
  IF AnotherFound(f)
  THEN /\ dbFile' = Search(f)
       /\ UpdateTagsTree(Search(f), db[Search(f)], conn)
  ELSE UNCHANGED <<dbFile, db, conn, tree>>

-----------------------------------------------------------------------------
(***************************************************************************)
(* Notifications and commands                                              *)
(***************************************************************************)
\* Variant: notifications are handled before there are options to follow.
IdleFromTheStart == jump = NoJump

\* The plug-in waits for events, and no jump is under way.  Before NPPN_READY
\* there are no options, and GetTagsFilename returns at once.
Idle == running /\ jump = NoJump

\* Variant: the window first, the flag and the option after the filling.
ShowTreeWindowFirst(d) ==
  \E o \in Fillings(d, KindOf(d), conn) :
    /\ db' = Put(d, o.use.kind)
    /\ conn' = o.use.conn
    /\ tree' = o.tree
    /\ docked' = TRUE
    /\ IF o.use.exit = "escapes"
       THEN UNCHANGED <<visible, show>>
       ELSE visible' = TRUE /\ show' = TRUE

\* The second half of TagsTree(): the flag first, the window and the option
\* only after the tree has been filled.
ShowTree(d) ==
  \E o \in Fillings(d, KindOf(d), conn) :
    /\ db' = Put(d, o.use.kind)
    /\ conn' = o.use.conn
    /\ tree' = o.tree
    /\ visible' = TRUE
    /\ IF o.use.exit = "escapes"
       THEN UNCHANGED <<docked, show>>
       ELSE docked' = TRUE /\ show' = TRUE

\* NPPN_READY.  The notifications before it find no options and do nothing.
Ready ==
  /\ ~running
  /\ running' = TRUE
  /\ IF show
     THEN LET d == IF AnotherFound(cur) THEN Search(cur) ELSE dbFile IN
          /\ dbFile' = d
          /\ ShowTree(d)
     ELSE UNCHANGED <<db, dbFile, conn, tree, windowVars>>
  /\ UNCHANGED <<cur, depth, jump>>

\* NPPN_BUFFERACTIVATED: the user goes to another file.
BufferActivated(f) ==
  /\ Idle
  /\ cur' = f
  /\ UpdateFilename(f)
  /\ UNCHANGED <<running, depth, windowVars, jump>>

\* The directory k levels up.
Ancestor[k \in Nat] == [d \in Dirs |-> IF k = 0 THEN d ELSE Ancestor[k - 1][Parent[d]]]

\* The files ctags -R sees from d.
Under(d) ==
  {f \in Files : /\ DirOf[f] # NoDir
                 /\ \E k \in 0..Cardinality(Dirs) : Ancestor[k][DirOf[f]] = d}

\* OnDblClk_Tree: the Tag belongs to the builder of the selected item.
JumpFromTree(f) ==
  /\ Idle /\ docked
  /\ tree.nodes /\ f \in Under(tree.from)
  /\ jump' = StartJump(f, tree.from)
  /\ UNCHANGED <<db, editorVars, dbFile, conn, windowVars, tree>>

\* JumpToTag(): FindTagInDB, and when it found something the jump, with a
\* copy of the Tag.
Lookup ==
  /\ Idle /\ dbFile # NoDir
  /\ \E o \in Reading(dbFile, db[dbFile], conn) :
       /\ db' = Put(dbFile, o.kind)
       /\ conn' = o.conn
       /\ IF o.exit = "ok" /\ o.read
          THEN jump' \in {NoJump} \cup {StartJump(f, NoDir) : f \in Under(dbFile)}
          ELSE UNCHANGED jump
  /\ UNCHANGED <<editorVars, dbFile, windowVars, tree>>

\* The menu entry "Jump Back": any file, and a copy again.
JumpBack(f) ==
  /\ Idle
  /\ jump' = StartJump(f, NoDir)
  /\ UNCHANGED <<db, editorVars, dbFile, conn, windowVars, tree>>

\* NPPM_DOOPEN inside JumpToTag: the file is opened and its buffer made the
\* current one, and NPPN_BUFFERACTIVATED is handled before it returns; or
\* it is current already, or cannot be opened.
DoOpen ==
  /\ jump # NoJump /\ ~jump.opened
  /\ \/ /\ cur' = jump.file
        /\ UpdateFilename(jump.file)
        /\ jump' = [jump EXCEPT !.opened = TRUE,
                                !.freed = jump.from # NoDir /\ visible /\ AnotherFound(jump.file)]
     \/ /\ jump' = [jump EXCEPT !.opened = TRUE]
        /\ UNCHANGED <<cur, db, dbFile, conn, tree>>
  /\ UNCHANGED <<running, depth, windowVars>>

\* What the end of the process leaves.
Stopped ==
  /\ running' = FALSE /\ visible' = FALSE /\ docked' = FALSE
  /\ dbFile' = NoDir /\ conn' = NoDir
  /\ tree' = NoTree
  /\ jump' = NoJump
  /\ cur' \in Files
  /\ UNCHANGED db

\* The rest of JumpToTag, which reads the line and the pattern of the Tag.
\* From a deleted one it reads anything, if it does not crash; the options
\* are then as they were last written.
GoTo ==
  /\ jump.opened
  /\ \/ /\ jump' = NoJump
        /\ UNCHANGED <<db, editorVars, dbFile, conn, windowVars, tree>>
     \/ /\ jump.freed
        /\ Stopped
        /\ show' \in BOOLEAN /\ depth' \in Depths

\* TVN_ITEMEXPANDING, TreeBuilder::Expand: with the handle that is there,
\* else with its own.
Expand ==
  /\ Idle /\ docked /\ tree.nodes
  /\ IF conn # NoDir
     THEN UNCHANGED <<db, conn>>
     ELSE \E o \in Reading(dbFile, db[dbFile], conn) :
            db' = Put(dbFile, o.kind) /\ conn' = o.conn
  /\ UNCHANGED <<editorVars, dbFile, windowVars, tree, jump>>

\* The menu entry "Show Tags Tree".
ToggleTree ==
  /\ Idle
  /\ IF visible
     THEN /\ visible' = FALSE /\ docked' = FALSE /\ show' = FALSE
          /\ UNCHANGED <<db, conn, tree>>
     ELSE ShowTree(dbFile)
  /\ UNCHANGED <<editorVars, dbFile, jump>>

\* The user closes the window itself.  DlgProc has no case for DMN_CLOSE.
DockClose ==
  /\ Idle /\ docked
  /\ docked' = FALSE
  /\ UNCHANGED <<db, editorVars, dbFile, conn, visible, show, tree, jump>>

\* ImportTags on an empty place: Open, which makes the tables, the rows in
\* one transaction, Close.
Importing(d, c) ==
  Reading(d, "none", c)
  \cup (IF Faults /\ c = NoDir THEN {Outcome("ready", d, "escapes", FALSE)} ELSE {})

\* TagsDatabase::Generate.  Windows does not delete a file the plug-in has
\* open itself.
Generate ==
  LET d == Generated IN
  /\ Idle
  /\ IF d = NoDir THEN UNCHANGED <<db, dbFile, conn, tree>>
     ELSE /\ dbFile' = d
          /\ \/ /\ Faults \/ conn = d
                /\ UNCHANGED <<db, conn, tree>>
             \/ /\ conn # d
                /\ \E o \in Importing(d, conn) :
                     IF o.exit = "ok"
                     THEN UpdateTagsTree(d, o.kind, o.conn)
                     ELSE db' = Put(d, o.kind) /\ conn' = o.conn /\ UNCHANGED tree
  /\ UNCHANGED <<editorVars, windowVars, jump>>

\* The options dialog.
SetMaxDepth ==
  /\ Idle
  /\ depth' \in Depths \cap 1..15
  /\ UNCHANGED <<db, running, cur, dbFile, conn, windowVars, tree, jump>>

\* The shutdown: WM_DESTROY stores the flag, not what is on the screen.
Quit ==
  /\ Idle
  /\ Stopped
  /\ show' = visible
  /\ UNCHANGED depth

\* Another copy of the plug-in, or the user in a file manager.  A file this
\* copy has open is not deleted, but the other can get on with filling it.
Elsewhere(d, kind) ==
  /\ \/ conn # d
     \/ db[d] = "blank" /\ kind \in {"unstamped", "ready"}
     \/ db[d] = "unstamped" /\ kind = "ready"
  /\ kind \in Found
  /\ db' = [db EXCEPT ![d] = kind]
  /\ UNCHANGED <<editorVars, dbFile, conn, windowVars, tree, jump>>

Next ==
  \/ Ready \/ Quit
  \/ \E f \in Files : BufferActivated(f) \/ JumpFromTree(f) \/ JumpBack(f)
  \/ Lookup \/ DoOpen \/ GoTo
  \/ Expand \/ ToggleTree \/ DockClose
  \/ Generate \/ SetMaxDepth
  \/ \E d \in Dirs, kind \in Kinds : Elsewhere(d, kind)

Spec == Init /\ [][Next]_vars
-----------------------------------------------------------------------------
(***************************************************************************)
(* Safety                                                                  *)
(***************************************************************************)
\* What the loop in GetTagsFilename looks for, without the loop: of the
\* directories from that of f upwards, Depth levels at most, the first with
\* a database in it.
Nearest(f) ==
  LET levels == {k \in 0..depth : Exists(Ancestor[k][DirOf[f]])} IN
  IF DirOf[f] = NoDir THEN NoDir
  ELSE IF levels = {} THEN NoDir
  ELSE Ancestor[Min(levels)][DirOf[f]]

\* The search up the directory tree finds the nearest database, the one on
\* the last level included, whatever other databases come and go.
SearchIsNearest == \A f \in Files : Search(f) = Nearest(f)

\* The database that is set is exchanged only for the one nearest to the
\* file that becomes current; a place where there is no database yet is
\* taken only when none was set.
DatabaseChosen ==
  [][dbFile' \notin {dbFile, NoDir} =>
       \/ dbFile' = Nearest(cur)'
       \/ dbFile = NoDir /\ dbFile' = DirOf[cur]]_vars

\* While the plug-in takes the tree for visible, the tags in it come from the
\* database that is set, and a node expanded under them cannot list the tags
\* of another: no handle is open on another, however it got left behind.
TreeFromDatabase ==
  visible /\ tree.nodes => tree.from = dbFile /\ conn \in {NoDir, dbFile, Sick}

\* A tree on the screen is one the plug-in knows of: it follows the current
\* file, the menu entry hides it, and the end of the session stores it as
\* shown.  Three flags stand for the one window, and an exception in the
\* filling, the button of the window and the menu each change some of them.
ScreenIsKnown == docked => visible /\ show

\* The Tag a jump from the tree goes on with is gone only if the file it
\* opened belongs to another database than the tree.
JumpStaysAlive == jump.freed => dbFile # jump.from

-----------------------------------------------------------------------------
(***************************************************************************)
(* What the documentation and the comments say, and the code does not keep.*)
(***************************************************************************)
\* "You can double-click on a tag in the tree and you will be taken to it"
\* (docs/how-to-use.rst:26-27): the Tag JumpToTag goes on with is still there.
TagInUseAlive == ~jump.freed
=============================================================================
