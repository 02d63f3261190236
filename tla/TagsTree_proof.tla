--------------------------- MODULE TagsTree_proof ---------------------------
(***************************************************************************)
(* Proofs about TagsTree, for every tree of directories, every depth and   *)
(* every way a call of the system can fail.                                *)
(*                                                                         *)
(* The inductive invariant adds to the properties what ties the pieces of  *)
(* state together: a window on the screen has its flags set, a tree with   *)
(* tags has a database, and a jump that has not come back from the editor  *)
(* still belongs to the database that is set.                              *)
(*                                                                         *)
(* The search up the directory tree is recursive, so what it returns is    *)
(* proved by induction over the number of levels.  The set of the numbers  *)
(* at which the two functions agree takes the place of an induction rule;  *)
(* that a recursive function is what its definition says needs a function  *)
(* of that kind to exist, and one is built first.                          *)
(***************************************************************************)
EXTENDS TagsTree, TLAPS, FiniteSetTheorems, WellFoundedInduction

TagsHaveDatabase == tree.nodes => tree.from \in Dirs
JumpFromCurrent == ~jump.opened /\ jump.from # NoDir => dbFile = jump.from
JumpOnlyOpened == jump.freed => jump.opened
OffIsIdle == ~running => jump = NoJump

IInv ==
  /\ TypeOK
  /\ ScreenIsKnown
  /\ TagsHaveDatabase
  /\ JumpFromCurrent
  /\ JumpOnlyOpened
  /\ OffIsIdle
  /\ TreeFromDatabase
  /\ JumpStaysAlive

AllOutcomes == [kind : Kinds, conn : Dirs \cup {NoDir, Sick},
                exit : {"ok", "throws", "escapes"}, read : BOOLEAN]

-----------------------------------------------------------------------------
\* However a use of the database of d ends, the handle is the one that was
\* there, none, a dead one, or one on d; and rows were read only if it was
\* none before.
LEMMA ReadingOutcomes ==
  ASSUME NEW d \in Dirs, NEW kind \in Kinds, NEW c \in Dirs \cup {NoDir, Sick},
         NEW o \in Reading(d, kind, c)
  PROVE  /\ o \in AllOutcomes
         /\ o.conn \in {c, NoDir, d, Sick}
         /\ o.read => o.conn \in {NoDir, d}
         /\ c # NoDir => o.conn = c
<1>1. ASSUME NEW p \in Opening(d, kind, c)
      PROVE  /\ p \in AllOutcomes
             /\ p.read = FALSE
             /\ c # NoDir => p.conn = c /\ p.exit # "ok"
             /\ c = NoDir => p.conn \in {d, Sick}
             /\ c = NoDir /\ p.exit = "ok" => p.conn = d
  <2>1. CASE c # NoDir
    <3>1. p = [kind |-> kind, conn |-> c, exit |-> "throws", read |-> FALSE]
      BY <2>1 DEF Opening, Outcome
    <3> QED BY <3>1, <2>1 DEF AllOutcomes
  <2>2. CASE c = NoDir
    <3>1. PICK k \in Kinds, h \in {d, Sick}, x \in {"ok", "throws", "escapes"} :
            /\ p = [kind |-> k, conn |-> h, exit |-> x, read |-> FALSE]
            /\ x = "ok" => h = d
      BY <2>2 DEF Opening, Outcome, Created, Kinds
    <3> QED BY <3>1, <2>2 DEF AllOutcomes
  <2> QED BY <2>1, <2>2
<1>2. PICK p \in Opening(d, kind, c) :
        o \in IF p.exit # "ok" THEN {p}
              ELSE {[p EXCEPT !.conn = NoDir, !.read = (kind = "ready")]}
                   \cup (IF Faults THEN {[p EXCEPT !.exit = "throws", !.read = (kind = "ready")]} ELSE {})
  BY DEF Reading
<1>3. CASE p.exit # "ok"
  BY <1>1, <1>2, <1>3
<1>4. CASE p.exit = "ok" /\ o = [p EXCEPT !.conn = NoDir, !.read = (kind = "ready")]
  BY <1>1, <1>4 DEF AllOutcomes
<1>5. CASE p.exit = "ok" /\ o = [p EXCEPT !.exit = "throws", !.read = (kind = "ready")]
  BY <1>1, <1>5 DEF AllOutcomes
<1> QED BY <1>2, <1>3, <1>4, <1>5

\* UpdateTagsTree on the database of d: a tree with tags in it is one of d,
\* and then no handle is left on another file.
LEMMA FillingOutcomes ==
  ASSUME NEW d \in Dirs \cup {NoDir}, NEW kind \in Kinds,
         NEW c \in Dirs \cup {NoDir, Sick}, NEW o \in Fillings(d, kind, c)
  PROVE  /\ o.use \in AllOutcomes
         /\ o.tree \in [from : Dirs \cup {NoDir}, nodes : BOOLEAN]
         /\ o.tree.nodes => d \in Dirs /\ o.tree.from = d /\ o.use.conn \in {NoDir, d}
<1>1. CASE d = NoDir
  <2>1. o = [use |-> Outcome(kind, c, "ok", FALSE), tree |-> NoTree]
    BY <1>1 DEF Fillings
  <2>2. Outcome(kind, c, "ok", FALSE) \in AllOutcomes
    BY DEF Outcome, AllOutcomes
  <2> QED BY <2>1, <2>2 DEF NoTree
<1>2. CASE d # NoDir
  <2>1. PICK u \in Reading(d, kind, c) : \E n \in {FALSE, u.read} :
          o = [use |-> u, tree |-> [from |-> d, nodes |-> n]]
    BY <1>2 DEF Fillings
  <2>2. PICK n \in {FALSE, u.read} : o = [use |-> u, tree |-> [from |-> d, nodes |-> n]]
    BY <2>1
  <2>3. o.use = u /\ o.tree = [from |-> d, nodes |-> n]
    BY <2>2
  <2>4. u \in AllOutcomes /\ (u.read => u.conn \in {NoDir, d})
    BY <1>2, ReadingOutcomes
  <2>5. n \in BOOLEAN /\ (n => u.read)
    BY <2>2, <2>4 DEF AllOutcomes
  <2>6. o.tree.from = d /\ o.tree.nodes = n
    BY <2>3
  <2> QED BY <1>2, <2>3, <2>4, <2>5, <2>6
<1> QED BY <1>1, <1>2

\* The databases after a use of one of them.
LEMMA PutType ==
  ASSUME db \in [Dirs -> Kinds], NEW d, NEW kind \in Kinds
  PROVE  Put(d, kind) \in [Dirs -> Kinds]
BY DEF Put

-----------------------------------------------------------------------------
\* What a call of UpdateTagsTree leaves, when the database of d is the one
\* that is set by then.
LEMMA UpdateTagsTreeStep ==
  ASSUME TypeOK, TagsHaveDatabase,
         NEW d \in Dirs, NEW kind \in Kinds, NEW c \in Dirs \cup {NoDir, Sick},
         UpdateTagsTree(d, kind, c), dbFile' = d, UNCHANGED visible
  PROVE  /\ db' \in [Dirs -> Kinds]
         /\ conn' \in Dirs \cup {NoDir, Sick}
         /\ tree' \in [from : Dirs \cup {NoDir}, nodes : BOOLEAN]
         /\ TagsHaveDatabase'
         /\ TreeFromDatabase'
<1>1. CASE visible
  <2>1. PICK o \in Fillings(d, kind, c) :
          db' = Put(d, o.use.kind) /\ conn' = o.use.conn /\ tree' = o.tree
    BY <1>1 DEF UpdateTagsTree
  <2>2. /\ o.use \in AllOutcomes
        /\ o.tree \in [from : Dirs \cup {NoDir}, nodes : BOOLEAN]
        /\ o.tree.nodes => o.tree.from = d /\ o.use.conn \in {NoDir, d}
    BY FillingOutcomes
  <2>3. db' \in [Dirs -> Kinds]
    BY <2>1, <2>2, PutType DEF AllOutcomes, TypeOK
  <2> QED BY <2>1, <2>2, <2>3 DEF AllOutcomes, TagsHaveDatabase, TreeFromDatabase
<1>2. CASE ~visible
  BY <1>2, PutType DEF UpdateTagsTree, TypeOK, TagsHaveDatabase, TreeFromDatabase
<1> QED BY <1>1, <1>2

\* The same for a call of UpdateFilename.
LEMMA UpdateFilenameStep ==
  ASSUME TypeOK, TagsHaveDatabase, TreeFromDatabase,
         NEW f \in Files, UpdateFilename(f), UNCHANGED visible
  PROVE  /\ db' \in [Dirs -> Kinds]
         /\ dbFile' \in Dirs \cup {NoDir}
         /\ conn' \in Dirs \cup {NoDir, Sick}
         /\ tree' \in [from : Dirs \cup {NoDir}, nodes : BOOLEAN]
         /\ TagsHaveDatabase'
         /\ TreeFromDatabase'
         /\ dbFile' # dbFile <=> AnotherFound(f)
<1>1. CASE AnotherFound(f)
  <2>1. Search(f) \in Dirs /\ Search(f) # dbFile
    BY <1>1 DEF AnotherFound
  <2>2. dbFile' = Search(f) /\ UpdateTagsTree(Search(f), db[Search(f)], conn)
    BY <1>1 DEF UpdateFilename
  <2>3. db[Search(f)] \in Kinds /\ conn \in Dirs \cup {NoDir, Sick}
    BY <2>1 DEF TypeOK
  <2> HIDE DEF Search
  <2> QED BY <1>1, <2>1, <2>2, <2>3, UpdateTagsTreeStep
<1>2. CASE ~AnotherFound(f)
  BY <1>2 DEF UpdateFilename, TypeOK, TagsHaveDatabase, TreeFromDatabase
<1> QED BY <1>1, <1>2

\* ... and for the show branch of TagsTree().
LEMMA ShowTreeStep ==
  ASSUME TypeOK, NEW d \in Dirs \cup {NoDir}, ShowTree(d), dbFile' = d
  PROVE  /\ db' \in [Dirs -> Kinds]
         /\ conn' \in Dirs \cup {NoDir, Sick}
         /\ tree' \in [from : Dirs \cup {NoDir}, nodes : BOOLEAN]
         /\ docked' \in BOOLEAN /\ show' \in BOOLEAN /\ visible' = TRUE
         /\ (docked => show) => (docked' => show')
         /\ TagsHaveDatabase'
         /\ TreeFromDatabase'
<1>1. KindOf(d) \in Kinds /\ conn \in Dirs \cup {NoDir, Sick}
  BY DEF KindOf, TypeOK, Kinds
<1>2. PICK o \in Fillings(d, KindOf(d), conn) :
        /\ db' = Put(d, o.use.kind)
        /\ conn' = o.use.conn
        /\ tree' = o.tree
        /\ visible' = TRUE
        /\ IF o.use.exit = "escapes"
           THEN UNCHANGED <<docked, show>>
           ELSE docked' = TRUE /\ show' = TRUE
  BY DEF ShowTree
<1>3. /\ o.use \in AllOutcomes
      /\ o.tree \in [from : Dirs \cup {NoDir}, nodes : BOOLEAN]
      /\ o.tree.nodes => d \in Dirs /\ o.tree.from = d /\ o.use.conn \in {NoDir, d}
  BY <1>1, FillingOutcomes
<1>4. db' \in [Dirs -> Kinds]
  BY <1>2, <1>3, PutType DEF AllOutcomes, TypeOK
<1> QED BY <1>2, <1>3, <1>4 DEF AllOutcomes, TypeOK, TagsHaveDatabase, TreeFromDatabase

-----------------------------------------------------------------------------
\* The process starts with no tree, no database and no jump.
LEMMA InitInv == Init => IInv
<1> SUFFICES ASSUME Init PROVE IInv
  OBVIOUS
<1>1. TypeOK
  BY FoundAssumption DEF Init, Off, TypeOK, NoTree
<1>2. jump.opened = FALSE /\ jump.freed = FALSE /\ jump.from = NoDir /\ tree.nodes = FALSE
  BY DEF Init, Off, NoJump, StartJump, NoTree
<1> QED
  BY <1>1, <1>2 DEF Init, Off, IInv, ScreenIsKnown, TagsHaveDatabase, JumpFromCurrent,
     JumpOnlyOpened, OffIsIdle, TreeFromDatabase, JumpStaysAlive

\* The end of the process keeps the invariant, whatever it stores.
LEMMA StoppedInv ==
  ASSUME TypeOK, Stopped, depth' \in Depths, show' \in BOOLEAN
  PROVE  IInv'
<1>1. TypeOK'
  BY DEF Stopped, Off, TypeOK, NoTree
<1>2. jump'.opened = FALSE /\ jump'.freed = FALSE /\ jump'.from = NoDir /\ tree'.nodes = FALSE
  BY DEF Stopped, NoJump, StartJump, NoTree
<1> QED
  BY <1>1, <1>2 DEF Stopped, IInv, ScreenIsKnown, TagsHaveDatabase, JumpFromCurrent,
     JumpOnlyOpened, OffIsIdle, TreeFromDatabase, JumpStaysAlive

\* What a step that starts and ends without a jump need not say about jumps.
LEMMA NoJumpInv ==
  ASSUME jump = NoJump
  PROVE  JumpFromCurrent /\ JumpOnlyOpened /\ JumpStaysAlive
BY DEF NoJump, StartJump, JumpFromCurrent, JumpOnlyOpened, JumpStaysAlive

-----------------------------------------------------------------------------
\* A step that leaves the jump, the window and the notifications alone.
LEMMA QuietStep ==
  ASSUME IInv, UNCHANGED <<running, visible, docked, show, jump>>,
         TypeOK', TagsHaveDatabase', TreeFromDatabase',
         jump = NoJump \/ UNCHANGED dbFile
  PROVE  IInv'
<1>1. CASE jump = NoJump
  BY <1>1, NoJumpInv DEF IInv, ScreenIsKnown, OffIsIdle, JumpFromCurrent, JumpOnlyOpened,
     JumpStaysAlive, NoJump, StartJump
<1>2. CASE UNCHANGED dbFile
  BY <1>2 DEF IInv, ScreenIsKnown, OffIsIdle, JumpFromCurrent, JumpOnlyOpened, JumpStaysAlive
<1> QED BY <1>1, <1>2

\* Every step keeps the invariant.
LEMMA StepInv == IInv /\ [Next]_vars => IInv'
<1> SUFFICES ASSUME IInv, [Next]_vars PROVE IInv'
  OBVIOUS
<1>0. /\ TypeOK /\ ScreenIsKnown /\ TagsHaveDatabase /\ JumpFromCurrent /\ JumpOnlyOpened
      /\ OffIsIdle /\ TreeFromDatabase /\ JumpStaysAlive
  BY DEF IInv
<1>1. CASE Ready
  <2>1. jump = NoJump /\ jump' = NoJump
    BY <1>0, <1>1 DEF Ready, OffIsIdle
  <2>2. CASE show
    <3>1. PICK d \in Dirs \cup {NoDir} : dbFile' = d /\ ShowTree(d)
      <4>1. (IF AnotherFound(cur) THEN Search(cur) ELSE dbFile) \in Dirs \cup {NoDir}
        BY <1>0 DEF AnotherFound, TypeOK
      <4> QED BY <1>1, <2>2, <4>1 DEF Ready
    <3>2. /\ db' \in [Dirs -> Kinds]
          /\ conn' \in Dirs \cup {NoDir, Sick}
          /\ tree' \in [from : Dirs \cup {NoDir}, nodes : BOOLEAN]
          /\ docked' \in BOOLEAN /\ show' \in BOOLEAN /\ visible' = TRUE
          /\ (docked => show) => (docked' => show')
          /\ TagsHaveDatabase' /\ TreeFromDatabase'
      BY <1>0, <3>1, ShowTreeStep
    <3>3. TypeOK'
      BY <1>0, <1>1, <3>1, <3>2 DEF TypeOK, Ready
    <3> QED
      BY <1>1, <2>1, <3>2, <3>3, NoJumpInv DEF IInv, Ready, ScreenIsKnown, OffIsIdle,
         JumpFromCurrent, JumpOnlyOpened, JumpStaysAlive, NoJump, StartJump
  <2>3. CASE ~show
    BY <1>0, <1>1, <2>1, <2>3 DEF IInv, Ready, windowVars, TypeOK, ScreenIsKnown,
       TagsHaveDatabase, OffIsIdle, JumpFromCurrent, JumpOnlyOpened, TreeFromDatabase,
       JumpStaysAlive
  <2> QED BY <2>2, <2>3
<1>2. CASE Quit
  <2>1. show' \in BOOLEAN /\ depth' \in Depths
    BY <1>0, <1>2 DEF Quit, TypeOK
  <2> QED BY <1>0, <1>2, <2>1, StoppedInv DEF Quit
<1>3. ASSUME NEW f \in Files, BufferActivated(f) PROVE IInv'
  <2>1. UpdateFilename(f) /\ UNCHANGED visible
    BY <1>3 DEF BufferActivated, windowVars
  <2>2. /\ db' \in [Dirs -> Kinds]
        /\ dbFile' \in Dirs \cup {NoDir}
        /\ conn' \in Dirs \cup {NoDir, Sick}
        /\ tree' \in [from : Dirs \cup {NoDir}, nodes : BOOLEAN]
        /\ TagsHaveDatabase' /\ TreeFromDatabase'
    BY <1>0, <2>1, UpdateFilenameStep
  <2>3. TypeOK'
    BY <1>0, <1>3, <2>2 DEF TypeOK, BufferActivated, Idle, windowVars
  <2> QED BY <1>3, <2>2, <2>3, QuietStep DEF BufferActivated, windowVars, Idle
<1>4. ASSUME NEW f \in Files, JumpFromTree(f) PROVE IInv'
  <2>1. /\ Idle /\ tree.nodes /\ visible
        /\ jump' = [file |-> f, from |-> tree.from, opened |-> FALSE, freed |-> FALSE]
        /\ UNCHANGED <<db, running, cur, depth, dbFile, conn, visible, docked, show, tree>>
    BY <1>0, <1>4 DEF JumpFromTree, StartJump, ScreenIsKnown, editorVars, windowVars
  <2>2. tree.from = dbFile /\ tree.from \in Dirs
    BY <1>0, <2>1 DEF TreeFromDatabase, TagsHaveDatabase
  <2>3. jump' \in Jumps /\ jump'.from = dbFile /\ ~jump'.freed /\ ~jump'.opened
    BY <2>1, <2>2 DEF Jumps
  <2> QED
    BY <1>0, <2>1, <2>2, <2>3 DEF IInv, TypeOK, Idle, ScreenIsKnown, TagsHaveDatabase,
       OffIsIdle, JumpFromCurrent, JumpOnlyOpened, TreeFromDatabase, JumpStaysAlive
<1>5. ASSUME NEW f \in Files, JumpBack(f) PROVE IInv'
  <2>1. /\ Idle
        /\ jump' = [file |-> f, from |-> NoDir, opened |-> FALSE, freed |-> FALSE]
        /\ UNCHANGED <<db, running, cur, depth, dbFile, conn, visible, docked, show, tree>>
    BY <1>5 DEF JumpBack, StartJump, editorVars, windowVars
  <2>2. jump' \in Jumps /\ jump'.from = NoDir /\ ~jump'.freed /\ ~jump'.opened
    BY <2>1 DEF Jumps
  <2> QED
    BY <1>0, <2>1, <2>2 DEF IInv, TypeOK, Idle, ScreenIsKnown, TagsHaveDatabase,
       OffIsIdle, JumpFromCurrent, JumpOnlyOpened, TreeFromDatabase, JumpStaysAlive
<1>6. CASE Lookup
  <2>1. PICK o \in Reading(dbFile, db[dbFile], conn) :
          /\ db' = Put(dbFile, o.kind)
          /\ conn' = o.conn
          /\ IF o.exit = "ok" /\ o.read
             THEN jump' \in {NoJump} \cup {StartJump(f, NoDir) : f \in Under(dbFile)}
             ELSE UNCHANGED jump
    BY <1>6 DEF Lookup
  <2>2. /\ Idle /\ dbFile \in Dirs /\ db[dbFile] \in Kinds
        /\ UNCHANGED <<running, cur, depth, dbFile, visible, docked, show, tree>>
    BY <1>0, <1>6 DEF Lookup, TypeOK, editorVars, windowVars
  <2>3. o \in AllOutcomes /\ o.conn \in {conn, NoDir, dbFile, Sick}
    BY <1>0, <2>2, ReadingOutcomes DEF TypeOK
  <2>4. db' \in [Dirs -> Kinds] /\ conn' \in Dirs \cup {NoDir, Sick}
    BY <1>0, <2>1, <2>3, PutType DEF AllOutcomes, TypeOK
  <2>5. /\ jump' \in Jumps \cup {NoJump}
        /\ jump'.from = NoDir /\ ~jump'.freed /\ ~jump'.opened
    <3>1. jump' = NoJump \/ \E f \in Under(dbFile) : jump' = StartJump(f, NoDir)
      BY <2>1, <2>2 DEF Idle
    <3>2. CASE jump' = NoJump
      BY <3>2 DEF NoJump, StartJump
    <3>3. CASE \E f \in Under(dbFile) : jump' = StartJump(f, NoDir)
      BY <3>3 DEF StartJump, Jumps, Under
    <3> QED BY <3>1, <3>2, <3>3
  <2> QED
    BY <1>0, <2>1, <2>2, <2>3, <2>4, <2>5 DEF IInv, TypeOK, Idle, ScreenIsKnown,
       TagsHaveDatabase, OffIsIdle, JumpFromCurrent, JumpOnlyOpened, TreeFromDatabase,
       JumpStaysAlive
<1>7. CASE DoOpen
  <2>1. /\ jump \in Jumps /\ ~jump.opened /\ ~jump.freed
        /\ UNCHANGED <<running, depth, visible, docked, show>>
    BY <1>0, <1>7 DEF DoOpen, TypeOK, windowVars, JumpOnlyOpened
  <2>2. running
    BY <1>0, <1>7 DEF DoOpen, OffIsIdle
  <2>3. CASE /\ cur' = jump.file
             /\ UpdateFilename(jump.file)
             /\ jump' = [jump EXCEPT !.opened = TRUE,
                           !.freed = jump.from # NoDir /\ visible /\ AnotherFound(jump.file)]
    <3>1. jump.file \in Files
      BY <2>1 DEF Jumps
    <3>2. /\ db' \in [Dirs -> Kinds]
          /\ dbFile' \in Dirs \cup {NoDir}
          /\ conn' \in Dirs \cup {NoDir, Sick}
          /\ tree' \in [from : Dirs \cup {NoDir}, nodes : BOOLEAN]
          /\ TagsHaveDatabase' /\ TreeFromDatabase'
          /\ dbFile' # dbFile <=> AnotherFound(jump.file)
      BY <1>0, <2>1, <2>3, <3>1, UpdateFilenameStep
    <3>3. /\ jump' \in Jumps /\ jump'.opened /\ jump'.from = jump.from
          /\ jump'.freed => jump.from # NoDir /\ AnotherFound(jump.file)
      BY <2>1, <2>3 DEF Jumps
    <3>4. jump'.freed => dbFile' # jump'.from
      BY <1>0, <2>1, <3>2, <3>3 DEF JumpFromCurrent
    <3> QED
      BY <1>0, <2>1, <2>2, <2>3, <3>1, <3>2, <3>3, <3>4 DEF IInv, TypeOK, ScreenIsKnown,
         OffIsIdle, JumpFromCurrent, JumpOnlyOpened, JumpStaysAlive
  <2>4. CASE /\ jump' = [jump EXCEPT !.opened = TRUE]
             /\ UNCHANGED <<cur, db, dbFile, conn, tree>>
    <3>1. jump' \in Jumps /\ jump'.opened /\ ~jump'.freed
      BY <2>1, <2>4 DEF Jumps
    <3> QED
      BY <1>0, <2>1, <2>2, <2>4, <3>1 DEF IInv, TypeOK, ScreenIsKnown, TagsHaveDatabase,
         OffIsIdle, JumpFromCurrent, JumpOnlyOpened, TreeFromDatabase, JumpStaysAlive
  <2> QED BY <1>7, <2>3, <2>4 DEF DoOpen
<1>8. CASE GoTo
  <2>1. CASE /\ jump' = NoJump
             /\ UNCHANGED <<db, editorVars, dbFile, conn, windowVars, tree>>
    <3>1. jump'.from = NoDir /\ ~jump'.freed /\ ~jump'.opened
      BY <2>1 DEF NoJump, StartJump
    <3>2. running
      BY <1>0, <1>8 DEF GoTo, OffIsIdle, NoJump, StartJump
    <3> QED
      BY <1>0, <2>1, <3>1, <3>2 DEF IInv, TypeOK, editorVars, windowVars, ScreenIsKnown,
         TagsHaveDatabase, OffIsIdle, JumpFromCurrent, JumpOnlyOpened, TreeFromDatabase,
         JumpStaysAlive
  <2>2. CASE Stopped /\ show' \in BOOLEAN /\ depth' \in Depths
    BY <1>0, <2>2, StoppedInv
  <2> QED BY <1>8, <2>1, <2>2 DEF GoTo
<1>9. CASE Expand
  <2>1. /\ Idle /\ docked /\ tree.nodes
        /\ UNCHANGED <<running, cur, depth, dbFile, visible, docked, show, tree, jump>>
    BY <1>9 DEF Expand, editorVars, windowVars
  <2>2. dbFile \in Dirs /\ db[dbFile] \in Kinds
    BY <1>0, <2>1 DEF ScreenIsKnown, TreeFromDatabase, TagsHaveDatabase, TypeOK
  <2>3. /\ db' \in [Dirs -> Kinds]
        /\ conn' \in Dirs \cup {NoDir, Sick}
        /\ conn' \in {conn, NoDir, dbFile, Sick}
    <3>1. CASE conn # NoDir
      BY <1>0, <1>9, <3>1 DEF Expand, TypeOK
    <3>2. CASE conn = NoDir
      <4>1. PICK o \in Reading(dbFile, db[dbFile], conn) :
              db' = Put(dbFile, o.kind) /\ conn' = o.conn
        BY <1>9, <3>2 DEF Expand
      <4>2. o \in AllOutcomes /\ o.conn \in {conn, NoDir, dbFile, Sick}
        BY <2>2, <3>2, ReadingOutcomes
      <4> QED BY <1>0, <4>1, <4>2, PutType DEF AllOutcomes, TypeOK
    <3> QED BY <3>1, <3>2
  <2>4. TypeOK' /\ TagsHaveDatabase' /\ TreeFromDatabase'
    BY <1>0, <2>1, <2>3 DEF TypeOK, Idle, TagsHaveDatabase, TreeFromDatabase
  <2> QED BY <2>1, <2>4, QuietStep
<1>10. CASE ToggleTree
  <2>1. Idle /\ jump' = NoJump /\ UNCHANGED <<running, cur, depth, dbFile>>
    BY <1>10 DEF ToggleTree, Idle, editorVars
  <2>2. CASE visible
    <3>1. /\ visible' = FALSE /\ docked' = FALSE /\ show' = FALSE
          /\ UNCHANGED <<db, conn, tree>>
      BY <1>10, <2>2 DEF ToggleTree
    <3> QED
      BY <1>0, <2>1, <3>1 DEF IInv, TypeOK, Idle, ScreenIsKnown, TagsHaveDatabase, OffIsIdle,
         JumpFromCurrent, JumpOnlyOpened, TreeFromDatabase, JumpStaysAlive
  <2>3. CASE ~visible
    <3>1. ShowTree(dbFile) /\ dbFile \in Dirs \cup {NoDir}
      BY <1>0, <1>10, <2>3 DEF ToggleTree, TypeOK
    <3>2. /\ db' \in [Dirs -> Kinds]
          /\ conn' \in Dirs \cup {NoDir, Sick}
          /\ tree' \in [from : Dirs \cup {NoDir}, nodes : BOOLEAN]
          /\ docked' \in BOOLEAN /\ show' \in BOOLEAN /\ visible' = TRUE
          /\ (docked => show) => (docked' => show')
          /\ TagsHaveDatabase' /\ TreeFromDatabase'
      BY <1>0, <2>1, <3>1, ShowTreeStep
    <3> QED
      BY <1>0, <2>1, <3>2 DEF IInv, TypeOK, Idle, ScreenIsKnown, OffIsIdle,
         JumpFromCurrent, JumpOnlyOpened, JumpStaysAlive
  <2> QED BY <2>2, <2>3
<1>11. CASE DockClose
  BY <1>0, <1>11 DEF IInv, DockClose, Idle, editorVars, TypeOK, ScreenIsKnown,
     TagsHaveDatabase, OffIsIdle, JumpFromCurrent, JumpOnlyOpened, TreeFromDatabase,
     JumpStaysAlive
<1>12. CASE Generate
  <2>1. /\ Idle /\ Generated \in Dirs \cup {NoDir}
        /\ UNCHANGED <<running, cur, depth, visible, docked, show, jump>>
    BY <1>0, <1>12, DirsAssumption DEF Generate, Generated, TypeOK, editorVars, windowVars
  <2>2. CASE Generated = NoDir
    BY <1>0, <1>12, <2>1, <2>2, QuietStep DEF Generate, Idle, TypeOK, TagsHaveDatabase,
       TreeFromDatabase
  <2>3. CASE Generated # NoDir
    <3> DEFINE d == Generated
    <3>1. d \in Dirs /\ dbFile' = d /\ (dbFile = d \/ dbFile = NoDir)
      BY <1>12, <2>1, <2>3 DEF Generate, Generated
    <3>2. visible /\ tree.nodes => tree.from = d /\ dbFile = d /\ conn \in {NoDir, d, Sick}
      BY <1>0, <3>1, DirsAssumption DEF TreeFromDatabase, TagsHaveDatabase
    <3>3. CASE UNCHANGED <<db, conn, tree>>
      BY <1>0, <2>1, <3>1, <3>2, <3>3, QuietStep DEF Idle, TypeOK, TagsHaveDatabase,
         TreeFromDatabase
    <3>4. ASSUME NEW o \in Importing(d, conn),
                 IF o.exit = "ok" THEN UpdateTagsTree(d, o.kind, o.conn)
                 ELSE db' = Put(d, o.kind) /\ conn' = o.conn /\ UNCHANGED tree
          PROVE  IInv'
      <4>1. o \in AllOutcomes /\ o.conn \in {conn, NoDir, d, Sick}
        <5>1. conn \in Dirs \cup {NoDir, Sick} /\ "none" \in Kinds /\ "ready" \in Kinds
          BY <1>0 DEF TypeOK, Kinds
        <5>2. CASE o \in Reading(d, "none", conn)
          BY <3>1, <5>1, <5>2, ReadingOutcomes
        <5>3. CASE o = Outcome("ready", d, "escapes", FALSE)
          BY <3>1, <5>1, <5>3 DEF Outcome, AllOutcomes
        <5> QED BY <3>4, <5>2, <5>3 DEF Importing
      <4>2. CASE o.exit = "ok"
        <5>1. UpdateTagsTree(d, o.kind, o.conn) /\ o.kind \in Kinds
              /\ o.conn \in Dirs \cup {NoDir, Sick}
          BY <3>4, <4>1, <4>2 DEF AllOutcomes
        <5>2. /\ db' \in [Dirs -> Kinds]
              /\ conn' \in Dirs \cup {NoDir, Sick}
              /\ tree' \in [from : Dirs \cup {NoDir}, nodes : BOOLEAN]
              /\ TagsHaveDatabase' /\ TreeFromDatabase'
          BY <1>0, <2>1, <3>1, <5>1, UpdateTagsTreeStep
        <5>3. TypeOK'
          BY <1>0, <2>1, <3>1, <5>2 DEF TypeOK, Idle
        <5> QED BY <2>1, <5>2, <5>3, QuietStep DEF Idle
      <4>3. CASE o.exit # "ok"
        <5>1. db' = Put(d, o.kind) /\ conn' = o.conn /\ UNCHANGED tree
          BY <3>4, <4>3
        <5>2. db' \in [Dirs -> Kinds]
          BY <1>0, <4>1, <5>1, PutType DEF AllOutcomes, TypeOK
        <5>3. TypeOK' /\ TagsHaveDatabase' /\ TreeFromDatabase'
          BY <1>0, <2>1, <3>1, <3>2, <4>1, <5>1, <5>2 DEF TypeOK, Idle, AllOutcomes,
             TagsHaveDatabase, TreeFromDatabase
        <5> QED BY <2>1, <5>3, QuietStep DEF Idle
      <4> QED BY <4>2, <4>3
    <3> QED BY <1>12, <2>3, <3>3, <3>4 DEF Generate
  <2> QED BY <2>2, <2>3
<1>13. CASE SetMaxDepth
  <2>1. TypeOK' /\ TagsHaveDatabase' /\ TreeFromDatabase'
    BY <1>0, <1>13 DEF SetMaxDepth, Idle, windowVars, TypeOK, TagsHaveDatabase, TreeFromDatabase
  <2> QED BY <1>13, <2>1, QuietStep DEF SetMaxDepth, windowVars
<1>14. ASSUME NEW d \in Dirs, NEW kind \in Kinds, Elsewhere(d, kind) PROVE IInv'
  <2>1. TypeOK' /\ TagsHaveDatabase' /\ TreeFromDatabase'
    BY <1>0, <1>14 DEF Elsewhere, Off, editorVars, windowVars, TypeOK, TagsHaveDatabase,
       TreeFromDatabase
  <2> QED BY <1>14, <2>1, QuietStep DEF Elsewhere, editorVars, windowVars
<1>15. CASE UNCHANGED vars
  BY <1>0, <1>15 DEF IInv, vars, Off, editorVars, windowVars, TypeOK, ScreenIsKnown,
     TagsHaveDatabase, OffIsIdle, JumpFromCurrent, JumpOnlyOpened, TreeFromDatabase,
     JumpStaysAlive
<1> QED
  BY <1>1, <1>2, <1>3, <1>4, <1>5, <1>6, <1>7, <1>8, <1>9, <1>10, <1>11, <1>12, <1>13,
     <1>14, <1>15 DEF Next

-----------------------------------------------------------------------------
\* The invariant holds in every session.
LEMMA Invariance == Spec => []IInv
BY InitInv, StepInv, PTL DEF Spec

\* The state the plug-in keeps stays within its type in every session.
THEOREM TypeCorrect == Spec => []TypeOK
<1>1. IInv => TypeOK
  BY DEF IInv
<1> QED BY <1>1, Invariance, PTL

\* The tags in a tree the plug-in takes for visible come from the database
\* that is set, and no handle is left on another file to expand them with.
THEOREM TreeIsOfDatabase == Spec => []TreeFromDatabase
<1>1. IInv => TreeFromDatabase
  BY DEF IInv
<1> QED BY <1>1, Invariance, PTL

\* A tree on the screen has its flag set and is stored as shown, by whichever
\* of the ways to show and to hide it that came last.
THEOREM ScreenFlags == Spec => []ScreenIsKnown
<1>1. IInv => ScreenIsKnown
  BY DEF IInv
<1> QED BY <1>1, Invariance, PTL

\* The tag a jump goes on with is deleted only by a change of database.
THEOREM JumpKeepsTag == Spec => []JumpStaysAlive
<1>1. IInv => JumpStaysAlive
  BY DEF IInv
<1> QED BY <1>1, Invariance, PTL

-----------------------------------------------------------------------------
\* A set of natural numbers has a least element: of the intervals from zero
\* to them, one has no other inside it.
LEMMA LeastNatural ==
  ASSUME NEW K \in SUBSET Nat, K # {}
  PROVE  \E k \in K : \A m \in K : k <= m
<1> DEFINE T == {0..k : k \in K}
<1>1. IsWellFoundedOn(StrictSubsetOrdering(Nat), FiniteSubsetsOf(Nat))
  BY FS_StrictSubsetOrderingWellFounded
<1>2. T \subseteq FiniteSubsetsOf(Nat)
  <2>1. ASSUME NEW k \in K PROVE 0..k \in FiniteSubsetsOf(Nat)
    <3>1. k \in Int /\ 0 \in Int /\ 0..k \subseteq Nat
      OBVIOUS
    <3> QED BY <3>1, FS_Interval DEF FiniteSubsetsOf
  <2> QED BY <2>1
<1>3. PICK x \in T : \A y \in T : ~(<<y, x>> \in StrictSubsetOrdering(Nat))
  <2>1. T # {}
    OBVIOUS
  <2> HIDE DEF T
  <2> QED
    BY <1>1, <1>2, <2>1, WFMin
<1>4. PICK k \in K : x = 0..k
  BY <1>3
<1>5. ASSUME NEW m \in K, m < k PROVE FALSE
  <2>1. 0..m \in T /\ 0..m \subseteq 0..k /\ k \in 0..k /\ k \notin 0..m
    BY <1>5
  <2>2. 0..m \subseteq Nat /\ 0..k \subseteq Nat
    OBVIOUS
  <2>3. <<0..m, 0..k>> \in StrictSubsetOrdering(Nat)
    BY <2>1, <2>2 DEF StrictSubsetOrdering
  <2> QED
    BY <1>3, <1>4, <2>1, <2>3
<1> QED
  BY <1>5

\* What Min returns.
LEMMA MinIs ==
  ASSUME NEW K \in SUBSET Nat, K # {}
  PROVE  Min(K) \in K /\ \A m \in K : Min(K) <= m
BY LeastNatural DEF Min

\* Induction over the numbers a set holds.
LEMMA SetInduction ==
  ASSUME NEW S, 0 \in S, \A n \in Nat : n \in S => n + 1 \in S
  PROVE  \A n \in Nat : n \in S
<1> SUFFICES ASSUME NEW n \in Nat, n \notin S PROVE FALSE
  OBVIOUS
<1>1. PICK k \in Nat \ S : \A m \in Nat \ S : k <= m
  BY LeastNatural
<1>2. k # 0 /\ k - 1 \in Nat /\ (k - 1) + 1 = k
  BY <1>1
<1>3. k - 1 \in S
  BY <1>1, <1>2
<1> QED
  BY <1>1, <1>2, <1>3

\* The first n steps of what Ancestor is to be.
Iterated(n) ==
  {g \in [0..n -> [Dirs -> Dirs]] :
     /\ g[0] = [d \in Dirs |-> d]
     /\ \A k \in 1..n : g[k] = [d \in Dirs |-> g[k - 1][Parent[d]]]}

\* There are such steps, ...
LEMMA IteratedExists == \A n \in Nat : Iterated(n) # {}
<1> DEFINE S == {n \in Nat : Iterated(n) # {}}
<1>1. 0 \in S
  <2>1. [k \in 0..0 |-> [d \in Dirs |-> d]] \in Iterated(0)
    BY DEF Iterated
  <2> QED BY <2>1
<1>2. ASSUME NEW n \in Nat, n \in S PROVE n + 1 \in S
  <2>1. PICK g \in Iterated(n) : TRUE
    BY <1>2
  <2> DEFINE h == [k \in 0..(n + 1) |-> IF k = n + 1 THEN [d \in Dirs |-> g[n][Parent[d]]] ELSE g[k]]
  <2>2. g \in [0..n -> [Dirs -> Dirs]] /\ g[n] \in [Dirs -> Dirs]
    BY <2>1 DEF Iterated
  <2>3. h \in [0..(n + 1) -> [Dirs -> Dirs]]
    BY <2>2, DirsAssumption
  <2>4. h[0] = [d \in Dirs |-> d]
    BY <2>1 DEF Iterated
  <2>5. ASSUME NEW k \in 1..(n + 1)
        PROVE  h[k] = [d \in Dirs |-> h[k - 1][Parent[d]]]
    <3>1. k - 1 \in 0..n /\ h[k - 1] = g[k - 1]
      OBVIOUS
    <3>2. CASE k = n + 1
      <4>1. k - 1 = n /\ h[k] = [d \in Dirs |-> g[n][Parent[d]]]
        BY <3>2
      <4>2. h[k - 1] = g[n]
        BY <3>1, <4>1
      <4> HIDE DEF h
      <4> QED BY <4>1, <4>2, Zenon
    <3>3. CASE k # n + 1
      <4>1. k \in 1..n /\ h[k] = g[k]
        BY <3>3
      <4>2. g[k] = [d \in Dirs |-> g[k - 1][Parent[d]]]
        BY <2>1, <4>1 DEF Iterated
      <4>3. h[k] = g[k] /\ h[k - 1] = g[k - 1]
        BY <3>1, <4>1
      <4> HIDE DEF h
      <4> QED BY <4>2, <4>3, Zenon
    <3> QED BY <3>2, <3>3
  <2>6. h \in Iterated(n + 1)
    BY <2>3, <2>4, <2>5 DEF Iterated
  <2> QED BY <2>6
<1> HIDE DEF S
<1>3. \A n \in Nat : n \in S
  BY <1>1, <1>2, SetInduction
<1> QED BY <1>3 DEF S

\* ... and only one way to take each.
LEMMA IteratedUnique ==
  ASSUME NEW n \in Nat, NEW m \in Nat, NEW g \in Iterated(n), NEW h \in Iterated(m)
  PROVE  \A k \in Nat : k <= n /\ k <= m => g[k] = h[k]
<1> DEFINE S == {k \in Nat : k <= n /\ k <= m => g[k] = h[k]}
<1>1. 0 \in S
  BY DEF Iterated
<1>2. ASSUME NEW k \in Nat, k \in S PROVE k + 1 \in S
  <2> SUFFICES ASSUME k + 1 <= n, k + 1 <= m PROVE g[k + 1] = h[k + 1]
    OBVIOUS
  <2>1. g[k] = h[k] /\ k + 1 \in 1..n /\ k + 1 \in 1..m /\ (k + 1) - 1 = k
    BY <1>2
  <2>2. g[k + 1] = [d \in Dirs |-> g[(k + 1) - 1][Parent[d]]]
    BY <2>1 DEF Iterated
  <2>3. h[k + 1] = [d \in Dirs |-> h[(k + 1) - 1][Parent[d]]]
    BY <2>1 DEF Iterated
  <2> QED BY <2>1, <2>2, <2>3
<1> HIDE DEF S
<1>3. \A k \in Nat : k \in S
  BY <1>1, <1>2, SetInduction
<1> QED BY <1>3 DEF S

\* There is a function as the definition of Ancestor wants it, so it is one.
LEMMA AncestorIs ==
  /\ Ancestor \in [Nat -> [Dirs -> Dirs]]
  /\ \A d \in Dirs : Ancestor[0][d] = d
  /\ \A k \in Nat, d \in Dirs : Ancestor[k + 1][d] = Ancestor[k][Parent[d]]
<1> DEFINE it(n) == CHOOSE g \in Iterated(n) : TRUE
           F == [n \in Nat |-> it(n)[n]]
<1>1. \A n \in Nat : it(n) \in Iterated(n)
  BY IteratedExists
<1>2. \A n \in Nat : F[n] = it(n)[n]
  OBVIOUS
<1> HIDE DEF it
<1>3. F \in [Nat -> [Dirs -> Dirs]]
  <2>1. \A n \in Nat : it(n)[n] \in [Dirs -> Dirs]
    <3> SUFFICES ASSUME NEW n \in Nat PROVE it(n)[n] \in [Dirs -> Dirs]
      OBVIOUS
    <3>1. it(n) \in Iterated(n)
      BY <1>1
    <3>2. it(n) \in [0..n -> [Dirs -> Dirs]]
      BY <3>1 DEF Iterated
    <3>3. n \in 0..n
      OBVIOUS
    <3> QED BY <3>2, <3>3
  <2> QED BY <2>1
<1>4. F[0] = [d \in Dirs |-> d]
  BY <1>1, <1>2 DEF Iterated
<1>5. ASSUME NEW k \in Nat
      PROVE  F[k + 1] = [d \in Dirs |-> F[k][Parent[d]]]
  <2>1. it(k) \in Iterated(k) /\ it(k + 1) \in Iterated(k + 1)
    BY <1>1
  <2>2. it(k + 1)[k] = it(k)[k]
    BY <2>1, IteratedUnique
  <2>3. k + 1 \in 1..(k + 1) /\ (k + 1) - 1 = k
    OBVIOUS
  <2>4. it(k + 1)[k + 1] = [d \in Dirs |-> it(k + 1)[k][Parent[d]]]
    BY <2>1, <2>3 DEF Iterated
  <2> QED BY <1>2, <2>2, <2>4
<1> HIDE DEF F
<1>6. F = [k \in Nat |-> [d \in Dirs |-> IF k = 0 THEN d ELSE F[k - 1][Parent[d]]]]
  <2>1. ASSUME NEW k \in Nat
        PROVE  F[k] = [d \in Dirs |-> IF k = 0 THEN d ELSE F[k - 1][Parent[d]]]
    <3>1. CASE k = 0
      BY <1>4, <3>1
    <3>2. CASE k # 0
      <4>1. k - 1 \in Nat /\ (k - 1) + 1 = k
        BY <3>2
      <4>2. F[k] = [d \in Dirs |-> F[k - 1][Parent[d]]]
        BY <1>5, <4>1
      <4> QED BY <3>2, <4>2
    <3> QED BY <3>1, <3>2
  <2> QED BY <1>3, <2>1
<1>7. Ancestor = [k \in Nat |-> [d \in Dirs |-> IF k = 0 THEN d ELSE Ancestor[k - 1][Parent[d]]]]
  BY <1>6, Zenon DEF Ancestor
<1>8. \A k \in Nat : Ancestor[k] = [d \in Dirs |-> IF k = 0 THEN d ELSE Ancestor[k - 1][Parent[d]]]
  BY <1>7, Zenon
<1>9. Ancestor[0] = [d \in Dirs |-> d]
  BY <1>8
<1>10. \A k \in Nat : Ancestor[k + 1] = [d \in Dirs |-> Ancestor[k][Parent[d]]]
  <2> SUFFICES ASSUME NEW k \in Nat
               PROVE  Ancestor[k + 1] = [d \in Dirs |-> Ancestor[k][Parent[d]]]
    OBVIOUS
  <2>1. k + 1 \in Nat /\ k + 1 # 0 /\ (k + 1) - 1 = k
    OBVIOUS
  <2> QED BY <1>8, <2>1
<1> DEFINE S == {k \in Nat : Ancestor[k] \in [Dirs -> Dirs]}
<1>11. 0 \in S
  BY <1>9
<1>12. ASSUME NEW k \in Nat, k \in S PROVE k + 1 \in S
  <2>1. Ancestor[k + 1] = [d \in Dirs |-> Ancestor[k][Parent[d]]]
    BY <1>10
  <2> QED BY <1>12, <2>1, DirsAssumption
<1>13. \A k \in Nat : k \in S
  <2> HIDE DEF S
  <2> QED BY <1>11, <1>12, SetInduction
<1>14. Ancestor \in [Nat -> [Dirs -> Dirs]]
  <2>1. Ancestor = [k \in Nat |-> Ancestor[k]]
    BY <1>7, <1>8
  <2> QED BY <1>13, <2>1
<1>15. \A d \in Dirs : Ancestor[0][d] = d
  BY <1>9
<1>16. ASSUME NEW k \in Nat, NEW d \in Dirs
       PROVE  Ancestor[k + 1][d] = Ancestor[k][Parent[d]]
  BY <1>10
<1> QED
  BY <1>14, <1>15, <1>16

\* Of the k levels upwards from d, those with a database, and the nearest.
LevelsUp(k, d) == {j \in 0..k : Exists(Ancestor[j][d])}
NearestFrom(k, d) ==
  IF LevelsUp(k, d) = {} THEN NoDir ELSE Ancestor[Min(LevelsUp(k, d))][d]

\* The nearest one seen from d is d, or the nearest seen from above it.
LEMMA NearestStep ==
  ASSUME NEW k \in Nat, NEW d \in Dirs
  PROVE  NearestFrom(k, d) = IF Exists(d) THEN d
                             ELSE IF k = 0 THEN NoDir
                             ELSE NearestFrom(k - 1, Parent[d])
<1>1. \A j \in Nat : Ancestor[j + 1][d] = Ancestor[j][Parent[d]]
  BY AncestorIs
<1>2. Ancestor[0][d] = d
  BY AncestorIs
<1>3. LevelsUp(k, d) \in SUBSET Nat
  BY DEF LevelsUp
<1>4. CASE Exists(d)
  <2>1. 0 \in LevelsUp(k, d)
    BY <1>2, <1>4 DEF LevelsUp
  <2>2. Min(LevelsUp(k, d)) \in Nat /\ Min(LevelsUp(k, d)) <= 0
    BY <1>3, <2>1, MinIs
  <2>3. Min(LevelsUp(k, d)) = 0
    BY <2>2
  <2> QED BY <1>2, <1>4, <2>1, <2>3 DEF NearestFrom
<1>5. CASE ~Exists(d) /\ k = 0
  <2>1. LevelsUp(k, d) = {}
    BY <1>2, <1>5 DEF LevelsUp
  <2> QED BY <1>5, <2>1 DEF NearestFrom
<1>6. CASE ~Exists(d) /\ k # 0
  <2> DEFINE U == LevelsUp(k, d)
             V == LevelsUp(k - 1, Parent[d])
  <2>1. 0 \notin U
    BY <1>2, <1>6 DEF LevelsUp
  <2>2. \A j \in Nat : j + 1 \in U <=> j \in V
    BY <1>1, <1>6 DEF LevelsUp
  <2>3. U \in SUBSET Nat /\ V \in SUBSET Nat
    BY DEF LevelsUp
  <2>4. NearestFrom(k, d) = (IF U = {} THEN NoDir ELSE Ancestor[Min(U)][d])
    BY DEF NearestFrom
  <2>5. NearestFrom(k - 1, Parent[d]) = (IF V = {} THEN NoDir ELSE Ancestor[Min(V)][Parent[d]])
    BY DEF NearestFrom
  <2> HIDE DEF U, V
  <2>6. \A u \in U : u # 0 /\ u - 1 \in Nat /\ (u - 1) + 1 = u /\ u - 1 \in V
    BY <2>1, <2>2, <2>3
  <2>7. CASE V = {}
    BY <1>6, <2>4, <2>5, <2>6, <2>7
  <2>8. CASE V # {}
    <3>1. PICK v \in V : v = Min(V)
      BY <2>3, <2>8, MinIs
    <3>2. v \in Nat /\ \A m \in V : v <= m
      BY <2>3, <2>8, <3>1, MinIs
    <3>3. v + 1 \in U
      BY <2>2, <3>1, <3>2
    <3>4. Min(U) \in U /\ \A m \in U : Min(U) <= m
      BY <2>3, <3>3, MinIs
    <3>5. Min(U) = v + 1
      <4>1. Min(U) \in Nat /\ Min(U) <= v + 1
        BY <2>3, <3>3, <3>4
      <4>2. v <= Min(U) - 1
        BY <2>6, <3>2, <3>4
      <4> QED BY <3>2, <4>1, <4>2
    <3>6. Ancestor[Min(U)][d] = Ancestor[Min(V)][Parent[d]]
      BY <1>1, <3>1, <3>2, <3>5
    <3> QED BY <1>6, <2>4, <2>5, <2>8, <3>3, <3>6
  <2> QED BY <2>7, <2>8
<1> QED BY <1>4, <1>5, <1>6

\* What the loop in Search defines.
Climbs(climb) ==
  climb = [k \in 0..depth |->
             [d \in Dirs |-> IF Exists(d) THEN d ELSE IF k = 0 THEN NoDir
                             ELSE climb[k - 1][Parent[d]]]]

\* There is such a function, ...
LEMMA ClimbExists == depth \in Nat => \E climb : Climbs(climb)
<1> SUFFICES ASSUME depth \in Nat PROVE \E climb : Climbs(climb)
  OBVIOUS
<1> DEFINE g == [k \in 0..depth |-> [d \in Dirs |-> NearestFrom(k, d)]]
           row(k) == [d \in Dirs |-> IF Exists(d) THEN d ELSE IF k = 0 THEN NoDir
                                     ELSE g[k - 1][Parent[d]]]
<1>1. ASSUME NEW k \in 0..depth PROVE g[k] = row(k)
  <2>1. ASSUME NEW d \in Dirs
        PROVE  NearestFrom(k, d) = IF Exists(d) THEN d ELSE IF k = 0 THEN NoDir
                                   ELSE g[k - 1][Parent[d]]
    <3>1. k \in Nat /\ (k # 0 => k - 1 \in 0..depth) /\ Parent[d] \in Dirs
      BY DirsAssumption
    <3>2. k # 0 => g[k - 1][Parent[d]] = NearestFrom(k - 1, Parent[d])
      BY <3>1
    <3> HIDE DEF g
    <3> QED BY <3>1, <3>2, NearestStep
  <2>2. g[k] = [d \in Dirs |-> NearestFrom(k, d)]
    OBVIOUS
  <2> HIDE DEF g
  <2> QED BY <2>1, <2>2
<1>2. g = [k \in 0..depth |-> g[k]]
  OBVIOUS
<1> HIDE DEF g
<1>3. g = [k \in 0..depth |-> row(k)]
  BY <1>1, <1>2
<1>4. Climbs(g)
  BY <1>3 DEF Climbs
<1> QED BY <1>4

\* ... and on every level it is the nearest database.
LEMMA ClimbIs ==
  ASSUME depth \in Nat, NEW climb, Climbs(climb)
  PROVE  \A d \in Dirs : climb[depth][d] = NearestFrom(depth, d)
<1> DEFINE S == {k \in Nat : k <= depth => \A d \in Dirs : climb[k][d] = NearestFrom(k, d)}
<1>1. ASSUME NEW k \in 0..depth, NEW d \in Dirs
      PROVE  climb[k][d] = IF Exists(d) THEN d ELSE IF k = 0 THEN NoDir ELSE climb[k - 1][Parent[d]]
  <2>1. climb[k] = [e \in Dirs |-> IF Exists(e) THEN e ELSE IF k = 0 THEN NoDir
                                   ELSE climb[k - 1][Parent[e]]]
    BY Zenon DEF Climbs
  <2> QED BY <2>1, Zenon
<1>2. 0 \in S
  <2> SUFFICES ASSUME NEW d \in Dirs PROVE climb[0][d] = NearestFrom(0, d)
    OBVIOUS
  <2>1. NearestFrom(0, d) = IF Exists(d) THEN d ELSE NoDir
    BY NearestStep
  <2> QED BY <1>1, <2>1
<1>3. ASSUME NEW k \in Nat, k \in S PROVE k + 1 \in S
  <2> SUFFICES ASSUME k + 1 <= depth, NEW d \in Dirs
               PROVE  climb[k + 1][d] = NearestFrom(k + 1, d)
    OBVIOUS
  <2>1. k + 1 \in 0..depth /\ k + 1 # 0 /\ (k + 1) - 1 = k /\ Parent[d] \in Dirs
    BY DirsAssumption
  <2>2. climb[k][Parent[d]] = NearestFrom(k, Parent[d])
    BY <1>3, <2>1
  <2>3. climb[k + 1][d] = IF Exists(d) THEN d ELSE climb[k][Parent[d]]
    BY <1>1, <2>1
  <2>4. NearestFrom(k + 1, d) = IF Exists(d) THEN d ELSE NearestFrom(k, Parent[d])
    BY <2>1, NearestStep
  <2> QED BY <2>2, <2>3, <2>4
<1> HIDE DEF S
<1>4. \A k \in Nat : k \in S
  BY <1>2, <1>3, SetInduction
<1> QED BY <1>4 DEF S

\* The search finds the nearest database.
LEMMA SearchIs == depth \in Nat => SearchIsNearest
<1> SUFFICES ASSUME depth \in Nat, NEW f \in Files PROVE Search(f) = Nearest(f)
  BY DEF SearchIsNearest
<1>1. CASE DirOf[f] = NoDir
  BY <1>1 DEF Search, Nearest
<1>2. CASE DirOf[f] # NoDir
  <2>1. DirOf[f] \in Dirs
    BY <1>2, DirsAssumption
  <2> DEFINE climb == CHOOSE c : Climbs(c)
  <2>2. Climbs(climb)
    BY ClimbExists
  <2>3. Search(f) = climb[depth][DirOf[f]]
    BY <1>2, Zenon DEF Search, Climbs
  <2>4. Nearest(f) = NearestFrom(depth, DirOf[f])
    BY <1>2 DEF Nearest, NearestFrom, LevelsUp
  <2> HIDE DEF climb
  <2> QED BY <2>1, <2>2, <2>3, <2>4, ClimbIs
<1> QED BY <1>1, <1>2

-----------------------------------------------------------------------------
\* A use of a database that is there leaves it there.
LEMMA ReadingKeeps ==
  ASSUME NEW d \in Dirs, NEW kind \in Kinds \ {"none"}, NEW c, NEW o \in Reading(d, kind, c)
  PROVE  o.kind # "none"
<1>1. ASSUME NEW p \in Opening(d, kind, c)
      PROVE  \E k \in Kinds \ {"none"} : \E h, x : p = [kind |-> k, conn |-> h, exit |-> x, read |-> FALSE]
  <2>1. CASE c # NoDir
    BY <2>1 DEF Opening, Outcome
  <2>2. CASE c = NoDir
    BY <2>2 DEF Opening, Outcome, Created, Kinds
  <2> QED BY <2>1, <2>2
<1>2. PICK p \in Opening(d, kind, c) :
        o \in IF p.exit # "ok" THEN {p}
              ELSE {[p EXCEPT !.conn = NoDir, !.read = (kind = "ready")]}
                   \cup (IF Faults THEN {[p EXCEPT !.exit = "throws", !.read = (kind = "ready")]} ELSE {})
  BY DEF Reading
<1>3. PICK k \in Kinds \ {"none"} : \E h, x : p = [kind |-> k, conn |-> h, exit |-> x, read |-> FALSE]
  BY <1>1, <1>2
<1>4. PICK h, x : p = [kind |-> k, conn |-> h, exit |-> x, read |-> FALSE]
  BY <1>3
<1>5. o.kind = p.kind /\ p.kind = k
  BY <1>2, <1>4
<1> QED BY <1>5

\* Neither does the filling of the tree take a database away.
LEMMA FillingKeeps ==
  ASSUME NEW d \in Dirs, NEW kind \in Kinds \ {"none"}, NEW c, NEW o \in Fillings(d, kind, c)
  PROVE  o.use.kind # "none"
<1>1. PICK u \in Reading(d, kind, c) : \E n \in {FALSE, u.read} :
        o = [use |-> u, tree |-> [from |-> d, nodes |-> n]]
  <2>1. d # NoDir
    BY DirsAssumption
  <2> QED BY <2>1 DEF Fillings
<1>2. o.use = u
  BY <1>1
<1> QED BY <1>2, ReadingKeeps

\* The nearest database depends on where there are databases, not on what is
\* in them.
LEMMA SameNearest ==
  ASSUME depth \in Nat, UNCHANGED depth, NEW f \in Files,
         NEW d \in Dirs, NEW kind \in Kinds \ {"none"},
         db \in [Dirs -> Kinds], Exists(d), db' = Put(d, kind)
  PROVE  \A g \in Files : cur' = g => Nearest(cur)' = Nearest(g)
<1> SUFFICES ASSUME NEW g \in Files, cur' = g PROVE Nearest(cur)' = Nearest(g)
  OBVIOUS
<1>1. \A e \in Dirs : Exists(e)' <=> Exists(e)
  BY DirsAssumption DEF Put, Exists
<1>2. CASE DirOf[g] = NoDir
  BY <1>2 DEF Nearest
<1>3. CASE DirOf[g] # NoDir
  <2>1. \A k \in 0..depth : Ancestor[k][DirOf[g]] \in Dirs
    BY <1>3, AncestorIs, DirsAssumption
  <2>2. {k \in 0..depth : db'[Ancestor[k][DirOf[g]]] # "none"}
        = {k \in 0..depth : db[Ancestor[k][DirOf[g]]] # "none"}
    BY <1>1, <2>1 DEF Exists
  <2> QED BY <2>2 DEF Nearest, Exists
<1> QED BY <1>2, <1>3
\* What the search finds is a database.
LEMMA FoundExists ==
  ASSUME depth \in Nat, NEW f \in Files, Nearest(f) \in Dirs
  PROVE  Exists(Nearest(f))
<1> DEFINE levels == {k \in 0..depth : Exists(Ancestor[k][DirOf[f]])}
<1>1. /\ levels # {}
      /\ Nearest(f) = Ancestor[Min(levels)][DirOf[f]]
  BY DirsAssumption DEF Nearest
<1>2. Min(levels) \in levels
  <2>1. levels \in SUBSET Nat
    OBVIOUS
  <2> HIDE DEF levels
  <2> QED BY <1>1, <2>1, MinIs
<1> QED BY <1>1, <1>2

\* UpdateTagsTree on a database that is there leaves it there.
LEMMA UpdateKeeps ==
  ASSUME NEW d \in Dirs, NEW kind \in Kinds \ {"none"}, NEW c \in Dirs \cup {NoDir, Sick},
         UpdateTagsTree(d, kind, c)
  PROVE  \E k \in Kinds \ {"none"} : db' = Put(d, k)
<1>1. CASE visible
  <2>1. PICK o \in Fillings(d, kind, c) : db' = Put(d, o.use.kind)
    BY <1>1 DEF UpdateTagsTree
  <2>2. o.use.kind # "none"
    BY FillingKeeps
  <2>3. o.use \in AllOutcomes
    BY FillingOutcomes
  <2> QED BY <2>1, <2>2, <2>3 DEF AllOutcomes
<1>2. CASE ~visible
  BY <1>2 DEF UpdateTagsTree
<1> QED BY <1>1, <1>2

\* A call of UpdateFilename that changes the database takes the nearest one.
LEMMA UpdateFilenameChooses ==
  ASSUME TypeOK, NEW f \in Files, UpdateFilename(f), UNCHANGED depth, cur' = f,
         dbFile' # dbFile, UNCHANGED visible
  PROVE  dbFile' = Nearest(cur)'
<1>1. AnotherFound(f)
  BY DEF UpdateFilename
<1>2. Search(f) = Nearest(f)
  BY SearchIs, DirsAssumption DEF TypeOK, SearchIsNearest
<1>3. /\ Search(f) \in Dirs
      /\ dbFile' = Search(f)
      /\ UpdateTagsTree(Search(f), db[Search(f)], conn)
  BY <1>1 DEF AnotherFound, UpdateFilename
<1> DEFINE d == Search(f)
<1>4. d \in Dirs /\ d = Nearest(f) /\ dbFile' = d /\ UpdateTagsTree(d, db[d], conn)
  BY <1>2, <1>3
<1> HIDE DEF d
<1>5. Exists(d)
  <2>1. depth \in Nat
    BY DirsAssumption DEF TypeOK
  <2> QED BY <1>4, <2>1, FoundExists
<1>6. db[d] \in Kinds \ {"none"}
  BY <1>4, <1>5 DEF Exists, TypeOK
<1>7. \E kind \in Kinds \ {"none"} : db' = Put(d, kind)
  BY <1>4, <1>6, UpdateKeeps DEF TypeOK
<1> QED BY <1>4, <1>5, <1>7, SameNearest, DirsAssumption DEF TypeOK

\* ... as the show branch of TagsTree() does at the start.
LEMMA ReadyChooses ==
  ASSUME TypeOK, Ready, dbFile' # dbFile
  PROVE  dbFile' = Nearest(cur)'
<1> DEFINE d == IF AnotherFound(cur) THEN Search(cur) ELSE dbFile
<1>1. dbFile' = d /\ ShowTree(d) /\ UNCHANGED <<cur, depth>>
  BY DEF Ready
<1>2. d = Search(cur) /\ Search(cur) \in Dirs /\ cur \in Files
  BY <1>1 DEF AnotherFound, TypeOK
<1>3. Search(cur) = Nearest(cur)
  BY <1>2, SearchIs, DirsAssumption DEF TypeOK, SearchIsNearest
<1>4. d \in Dirs /\ d = Nearest(cur)
  BY <1>2, <1>3
<1> HIDE DEF d
<1>5. Exists(d)
  <2>1. depth \in Nat
    BY DirsAssumption DEF TypeOK
  <2> QED BY <1>2, <1>4, <2>1, FoundExists
<1>6. KindOf(d) = db[d] /\ db[d] \in Kinds \ {"none"}
  BY <1>4, <1>5, DirsAssumption DEF Exists, KindOf, TypeOK
<1>7. PICK o \in Fillings(d, db[d], conn) : db' = Put(d, o.use.kind)
  BY <1>1, <1>6 DEF ShowTree
<1>8. o.use.kind \in Kinds \ {"none"}
  <2>1. o.use.kind # "none"
    BY <1>4, <1>6, FillingKeeps
  <2>2. o.use \in AllOutcomes
    BY <1>4, <1>6, FillingOutcomes DEF TypeOK
  <2> QED BY <2>1, <2>2 DEF AllOutcomes
<1> QED BY <1>1, <1>2, <1>4, <1>5, <1>7, <1>8, SameNearest, DirsAssumption DEF TypeOK

\* The directory of the database is exchanged only for the nearest one; an
\* empty place only takes that of the current file.
LEMMA DatabaseStep ==
  IInv /\ [Next]_vars =>
    (dbFile' \notin {dbFile, NoDir} =>
       \/ dbFile' = Nearest(cur)'
       \/ dbFile = NoDir /\ dbFile' = DirOf[cur])
<1> SUFFICES ASSUME IInv, [Next]_vars, dbFile' \notin {dbFile, NoDir}
             PROVE  \/ dbFile' = Nearest(cur)'
                    \/ dbFile = NoDir /\ dbFile' = DirOf[cur]
  OBVIOUS
<1>0. TypeOK
  BY DEF IInv
<1>1. CASE Ready
  BY <1>0, <1>1, ReadyChooses
<1>2. ASSUME NEW f \in Files, BufferActivated(f) PROVE dbFile' = Nearest(cur)'
  BY <1>0, <1>2, UpdateFilenameChooses DEF BufferActivated, windowVars
<1>3. CASE DoOpen
  <2>1. cur' = jump.file /\ UpdateFilename(jump.file) /\ UNCHANGED <<depth, visible>>
    BY <1>3 DEF DoOpen, windowVars
  <2>2. jump.file \in Files
    BY <1>0, <1>3 DEF DoOpen, TypeOK, Jumps
  <2> QED BY <1>0, <2>1, <2>2, UpdateFilenameChooses
<1>4. CASE Generate
  BY <1>4 DEF Generate, Generated
<1>5. CASE Quit \/ GoTo
  BY <1>5 DEF Quit, GoTo, Stopped
<1>6. ASSUME NEW f \in Files, JumpFromTree(f) \/ JumpBack(f) PROVE FALSE
  BY <1>6 DEF JumpFromTree, JumpBack
<1>7. CASE Lookup \/ Expand \/ ToggleTree \/ DockClose \/ SetMaxDepth
  BY <1>7 DEF Lookup, Expand, ToggleTree, DockClose, SetMaxDepth
<1>8. ASSUME NEW d \in Dirs, NEW kind \in Kinds, Elsewhere(d, kind) PROVE FALSE
  BY <1>8 DEF Elsewhere
<1>9. CASE UNCHANGED vars
  BY <1>9 DEF vars
<1> QED
  BY <1>1, <1>2, <1>3, <1>4, <1>5, <1>6, <1>7, <1>8, <1>9 DEF Next

\* The search upwards finds the nearest database, whatever the directories
\* are and however far up the options let it go.
THEOREM SearchFindsNearest == Spec => []SearchIsNearest
<1>1. IInv => SearchIsNearest
  BY SearchIs, DirsAssumption DEF IInv, TypeOK
<1> QED BY <1>1, Invariance, PTL

\* The database that is set is exchanged only for the nearest one, and an
\* empty place is taken only where none was set.
THEOREM DatabaseIsChosen == Spec => DatabaseChosen
<1>1. Spec => [][Next]_vars
  BY DEF Spec
<1> QED BY <1>1, DatabaseStep, Invariance, PTL DEF DatabaseChosen
=============================================================================
