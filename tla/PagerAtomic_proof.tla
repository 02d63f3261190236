------------------------- MODULE PagerAtomic_proof --------------------------
(***************************************************************************)
(* For any number of programs, pages and transactions: the pager           *)
(* implements AtomicFile. A commit is one step for all who look at the     *)
(* file, whatever stops a program between two calls, and a loss of power   *)
(* leaves the file of before the transaction or of after it.               *)
(*                                                                         *)
(* The proof is that JInv of Pager_proof is inductive. Every step of a     *)
(* program is one of two kinds: InMemory, which leaves the disk alone, or  *)
(* OnDisk, which writes it under a RESERVED lock or more and keeps what    *)
(* the file says, but for the commit. The locks keep the other programs    *)
(* away, so what they know stays true (OthersKeep, StepKeeps).             *)
(***************************************************************************)
EXTENDS Pager_proof

\* What a step of program i is to the others.
Same(j) ==
  /\ lock'[j] = lock[j] /\ state'[j] = state[j] /\ pc'[j] = pc[j] /\ spill'[j] = spill[j]
  /\ size'[j] = size[j] /\ orig'[j] = orig[j] /\ cache'[j] = cache[j]
  /\ dirty'[j] = dirty[j] /\ needSync'[j] = needSync[j]
  /\ vers'[j] = vers[j] /\ counted'[j] = counted[j] /\ todo'[j] = todo[j]

\* And to the disk: who writes it has the lock for it.
Effect(i) ==
  /\ \A j \in Procs \ {i} : Same(j)
  /\ lock[i] \in Preparing \/ UNCHANGED disk
  /\ lock[i] = "exclusive" \/ UNCHANGED file
  /\ Image' = Image \/ (lock[i] = "exclusive" /\ Counter(Image') > Counter(Image))

\* The places by name, for states after a step as well.
LEMMA RankOf ==
  /\ \A s \in {"closed", "open"} : ~(Rank[s] >= Rank["reader"]) /\ ~(Rank[s] >= Rank["cachemod"])
  /\ \A s \in {"reader", "locked"} : Rank[s] >= Rank["reader"] /\ ~(Rank[s] >= Rank["cachemod"])
  /\ \A s \in {"cachemod", "dbmod"} : Rank[s] >= Rank["reader"] /\ Rank[s] >= Rank["cachemod"]
BY DEF Rank

\* One page in one cache.
Put(f, i, p, v) == [f EXCEPT ![i][p] = v]

\* Setting one page of one connection leaves the others.
LEMMA PageSet ==
  ASSUME NEW f \in [Procs -> Images], NEW i \in Procs, NEW p \in Pages,
         NEW v \in Content(p) \cup {None}, NEW g, g = Put(f, i, p, v)
  PROVE  /\ g \in [Procs -> Images]
         /\ g[i][p] = v /\ \A q \in Pages \ {p} : g[i][q] = f[i][q]
         /\ \A j \in Procs \ {i} : g[j] = f[j]
<1>1. f[i] \in Images /\ f[i] \in [Pages -> Counters \cup Values \cup {None}]
  BY DEF Images
<1>2. v \in Counters \cup Values \cup {None}
  BY DEF Content
<1> DEFINE x == [f[i] EXCEPT ![p] = v]
<1>3. x \in [Pages -> Counters \cup Values \cup {None}]
  BY <1>1, <1>2
<1>4. x[p] = v /\ \A q \in Pages \ {p} : x[q] = f[i][q]
  BY <1>1
<1>5. x \in Images
  BY <1>1, <1>3, <1>4 DEF Images
<1>6. g = [f EXCEPT ![i] = x]
  BY DEF Put
<1> HIDE DEF x
<1> QED
  BY <1>4, <1>5, <1>6

\* A step that leaves the disk alone leaves what is read from it.
LEMMA DiskStays ==
  ASSUME UNCHANGED disk
  PROVE  /\ Image' = Image /\ Possible' = Possible
         /\ Synced' = Synced /\ Guarded' = Guarded /\ (DiskInv => DiskInv')
BY DEF disk, file, Image, Possible, Outcomes, Synced, Guarded, DiskInv

\* The change counter of a good image is a counter.
LEMMA CounterType ==
  ASSUME NEW x, Good(x)
  PROVE  Counter(x) \in Counters /\ Counter(x) \in Nat /\ (x[1] # None => Counter(x) = x[1])
<1>1. 1 \in Pages /\ x \in Images
  BY PagerAssumption DEF Good, Pages
<1>2. x[1] \in Counters \cup {None}
  BY <1>1 DEF Images, Content
<1> QED
  BY <1>2, PagerAssumption DEF Counter, Counters

\* What the file says is a database, and all of Disk in Pager's terms.
LEMMA ImageIs ==
  ASSUME DiskInv
  PROVE  /\ Good(Image) /\ Image \in Possible /\ db \in Outcomes
         /\ Empty(db) => Image = db /\ Synced
         /\ Guarded => Possible = {Image}
         /\ Findable(journal) = None => Image = db /\ Synced
<1>1. Outcomes = Outs(maybe) /\ Possible = Poss(maybe, hotOnDisk) /\ Image = Img(db, journal)
  BY DEF Outcomes, Outs, Possible, Poss, Image, Img
<1>2. Findable(journal) \in hotOnDisk
  BY DEF DiskInv, Disk, Shape
<1>3. Findable(journal) = None => Image = db
  BY RecoveredNone DEF Image
<1> QED
  BY <1>1, <1>2, <1>3, DiskIs DEF DiskInv, Disk, Shape, Synced, Guarded

\* The step of one program leaves what the others know true.
LEMMA OthersKeep ==
  ASSUME JInv, NEW i \in Procs, Effect(i), Good(Image'), NEW j \in Procs \ {i}
  PROVE  Memory(j)'
<1>1. Same(j) /\ Memory(j) /\ Local(j) /\ Types
  BY DEF Effect, JInv, IInv
<1>2. /\ Rank[state[j]]' = Rank[state[j]]
      /\ Reading(j)' = Reading(j) /\ Writing(j)' = Writing(j) /\ InDraft(j)' = InDraft(j)
  BY <1>1 DEF Same, Reading, Writing, InDraft
<1>3. CASE lock[j] \in Preparing
  <2>1. UNCHANGED disk
    BY <1>3 DEF Effect, JInv, IInv, FL!MutualExclusion, FL!Pendings, Preparing
  <2>2. /\ Image' = Image /\ Synced' = Synced /\ Guarded' = Guarded
        /\ db' = db /\ journal' = journal /\ hotOnDisk' = hotOnDisk
    BY <2>1, DiskStays DEF disk, file
  <2>3. /\ Old(j)' = Old(j) /\ Fresh(j)' = Fresh(j) /\ Playback(j)' = Playback(j)
        /\ Count(j)' = Count(j) /\ Plain' = Plain
    BY <1>1, <2>2 DEF Same, Old, Fresh, Playback, Count, Plain
  <2>4. Draft(j)' = Draft(j)
    BY <1>1, <2>2, <2>3 DEF Same, Draft
  <2> QED
    BY <1>1, <1>2, <2>2, <2>3, <2>4 DEF Same, Memory
<1>4. CASE lock[j] \notin Preparing
  <2>1. /\ state[j] \in {"closed", "open", "reader"}
        /\ pc[j] \in {"idle", "wait"} \cup Looking
        /\ lock[j] = "none" => pc[j] = "idle" /\ state[j] # "reader"
    BY <1>1, <1>4 DEF Local, Closed, Starting, Reader, Locked, CacheMod, DbMod, Preparing,
                      Looking, Types, FL!LockTypeOK
  <2>2. ~InDraft(j) /\ ~Writing(j)
    BY <2>1, RankValues DEF InDraft
  <2>3. CASE lock[j] = "none"
    <3>1. ~Reading(j)
      BY <2>1, <2>3, RankValues
    <3>2. Old(j) => Old(j)'
      <4>1. CASE Image' = Image
        BY <1>1, <4>1 DEF Same, Old
      <4>2. CASE Counter(Image') > Counter(Image)
        <5>1. vers[j] \in Nat
          BY PagerAssumption DEF JInv, MemoryTypes, Counters
        <5>2. Counter(Image) \in Nat /\ Counter(Image') \in Nat
          BY ImageIs, CounterType DEF JInv
        <5> QED
          BY <1>1, <4>2, <5>1, <5>2 DEF Same, Old
      <4> QED
        BY <4>1, <4>2 DEF Effect
    <3> QED
      BY <1>1, <1>2, <2>1, <2>2, <2>3, <3>1, <3>2 DEF Same, Memory
  <2>4. CASE lock[j] # "none"
    <3>1. lock[i] # "exclusive"
      BY <2>4 DEF JInv, IInv, FL!MutualExclusion
    <3>2. db' = db /\ maybe' = maybe /\ Image' = Image
      BY <3>1 DEF Effect, file
    <3>3. Old(j)' = Old(j) /\ Fresh(j)' = Fresh(j) /\ Plain' = Plain
      BY <1>1, <3>2 DEF Same, Old, Fresh, Plain, Synced
    <3> QED
      BY <1>1, <1>2, <2>1, <2>2, <3>2, <3>3 DEF Same, Memory, Looking
  <2> QED
    BY <2>3, <2>4
<1> QED
  BY <1>3, <1>4
-----------------------------------------------------------------------------
(***************************************************************************)
(* Steps that leave the disk alone.                                        *)
(***************************************************************************)
\* A step of program i that leaves the disk alone, and what i knows after it.
InMemory(i) ==
  /\ UNCHANGED disk
  /\ MemoryTypes'
  /\ \A j \in Procs \ {i} : Same(j)
  /\ Memory(i)'

\* Steps that look at the file before a transaction begins.
LEMMA LookingMemory ==
  ASSUME JInv, NEW i \in Procs,
         \/ SharedLock(i) \/ JournalExists(i) \/ CheckReserved(i) \/ CountPages(i)
         \/ DropReserve(i) \/ PeekJournal(i) \/ HotLock(i) \/ HotExclude(i)
  PROVE  InMemory(i)
<1>1. Types /\ Local(i) /\ MemoryTypes /\ Memory(i) /\ DiskInv
  BY DEF JInv, IInv
<1>2. UNCHANGED <<disk, memory, state, spill>>
  BY DEF SharedLock, JournalExists, CheckReserved, CountPages, DropReserve, PeekJournal, HotLock,
         HotExclude, Call
<1>3. MemoryTypes'
  <2>1. dirty' = dirty
    BY <1>2 DEF memory, pages
  <2> QED
    BY <1>1, <1>2, <2>1 DEF MemoryTypes, memory, pages
<1>4. \A j \in Procs \ {i} : Same(j)
  <2>1. \A j \in Procs \ {i} : pc'[j] = pc[j]
    BY <1>1 DEF SharedLock, JournalExists, CheckReserved, CountPages, DropReserve, PeekJournal,
           HotLock, HotExclude, Call, Set, Types
  <2>2. \A j \in Procs \ {i} : lock'[j] = lock[j]
    BY <1>1 DEF SharedLock, JournalExists, CheckReserved, CountPages, DropReserve, PeekJournal,
           HotLock, HotExclude, FL!Share, FL!Reserve, FL!Pend, FL!Exclude, FL!SetLock, Types,
           FL!LockTypeOK
  <2>3. /\ state' = state /\ spill' = spill /\ size' = size /\ orig' = orig /\ cache' = cache
        /\ dirty' = dirty /\ needSync' = needSync /\ vers' = vers /\ counted' = counted
        /\ todo' = todo
    BY <1>2 DEF memory, pages
  <2> QED
    BY <2>1, <2>2, <2>3 DEF Same
<1>5. state[i] = "open" /\ pc[i] \in {"idle", "wait"} \cup Looking
  <2>1. \/ state[i] = "open" /\ pc[i] = "idle"
        \/ pc[i] \in {"wait"} \cup Looking
    BY DEF SharedLock, JournalExists, CheckReserved, CountPages, DropReserve, PeekJournal,
           HotLock, HotExclude, Looking
  <2> QED
    BY <1>1, <2>1 DEF Local, Closed, Starting, Reader, Locked, CacheMod, DbMod, Looking, Replaying,
           Flushing
<1>6. /\ pc'[i] \in {"dropped", "wait", "found"} \cup Looking
      /\ pc'[i] = "drop" => Empty(db)
      /\ pc'[i] = "dropped" => Empty(db)
      /\ pc'[i] \in {"peek", "hot", "wait", "found"} => ~Empty(db)
      /\ pc'[i] = "validate" => Plain
  <2> USE <1>1, <1>5 DEF Types, Looking, Call, Set, Memory
  <2>1. CASE SharedLock(i)
    BY <2>1 DEF SharedLock
  <2>2. CASE JournalExists(i)
    BY <2>2, ImageIs, FindableNone DEF JournalExists, Plain
  <2>3. CASE CheckReserved(i)
    <3>1. ASSUME NEW j \in Procs \ {i}, lock[j] \in {"reserved", "pending"} PROVE Plain
      <4>1. Local(j) /\ Memory(j) /\ state[j] \in DOMAIN Rank
        BY DEF JInv, IInv
      <4>2. CASE Starting(j)
        <5>1. Empty(db) \/ pc[j] = "unlock"
          BY <3>1, <4>1, <4>2 DEF Starting
        <5> QED
          BY <4>1, <5>1, ImageIs DEF Plain
      <4>3. CASE Locked(j)
        BY <4>1, <4>3 DEF Locked
      <4>4. CASE CacheMod(j)
        <5>1. pc[j] \in {"idle", "excl", "delete", "unlock"}
          BY <3>1, <4>4 DEF CacheMod
        <5>2. CASE pc[j] \in {"idle", "excl"}
          <6>1. Draft(j)
            BY <4>1, <4>4, <5>2, RankValues DEF InDraft, Own, CacheMod
          <6> QED
            BY <4>4, <6>1 DEF Draft, CacheMod
        <5> QED
          BY <4>1, <5>1, <5>2
      <4> QED
        BY <3>1, <4>1, <4>2, <4>3, <4>4 DEF Local, Closed, Reader, DbMod
    <3> QED
      BY <2>3, <3>1 DEF CheckReserved, FL!NoneHas
  <2>4. CASE CountPages(i)
    BY <2>4, PageCountIsZero DEF CountPages
  <2>5. CASE DropReserve(i)
    BY <2>5, ImageIs DEF DropReserve, Plain
  <2>6. CASE PeekJournal(i)
    BY <2>6, ImageIs, FindableNone DEF PeekJournal, Plain
  <2>7. CASE HotLock(i)
    BY <2>7 DEF HotLock
  <2>8. CASE HotExclude(i)
    BY <2>8 DEF HotExclude
  <2> QED
    BY <2>1, <2>2, <2>3, <2>4, <2>5, <2>6, <2>7, <2>8
<1>7. Memory(i)'
  <2>1. ~Reading(i)' /\ ~Writing(i)' /\ ~InDraft(i)'
    BY <1>2, <1>5, RankValues DEF Reading, Writing, InDraft
  <2>2. Old(i)' = Old(i) /\ Plain' = Plain /\ db' = db
    BY <1>2, DiskStays DEF Old, Plain, memory, pages, disk, file
  <2> QED
    BY <1>1, <1>2, <1>5, <1>6, <2>1, <2>2, RankValues DEF Memory, memory, pages, Looking, InDraft
<1> QED
  BY <1>2, <1>3, <1>4, <1>7 DEF InMemory

\* A connection that has just got its lock has nothing of its own.
LEMMA FreshIsOld ==
  ASSUME JInv, NEW i \in Procs, Fresh(i)
  PROVE  Old(i)
<1>1. 1 \in Pages
  BY PagerAssumption DEF Pages
<1>2. cache[i][1] # None => cache[i][1] = vers[i] /\ cache[i][1] = Image[1]
  BY <1>1 DEF Fresh
<1>3. cache[i][1] # None => Counter(Image) = vers[i] /\ vers[i] \in Nat
  BY <1>2 DEF Counter, JInv, MemoryTypes, Counters
<1> QED
  BY <1>3 DEF Fresh, Old

\* What program i is left with when its pager goes back to PAGER_OPEN.
LEMMA LeaveMemory ==
  ASSUME JInv, NEW i \in Procs, NEW kept \in Images,
         Leave(i, kept) \/ StepDown(i, kept),
         kept = NoPages \/ (kept = cache[i] /\ Old(i))
  PROVE  InMemory(i)
<1>1. Types /\ MemoryTypes /\ DiskInv
  BY DEF JInv, IInv
<1>2. PICK level \in {"none", "shared"}, next \in {"idle", "failed"} : GiveUp(i, level, next, kept)
  BY DEF Leave, StepDown
<1>3. UNCHANGED disk
  BY <1>2 DEF GiveUp
<1>4. MemoryTypes'
  BY <1>1, <1>2, PagerAssumption DEF MemoryTypes, Types, GiveUp, ForgetTransaction, Set
<1>5. \A j \in Procs \ {i} : Same(j)
  BY <1>1, <1>2 DEF Same, GiveUp, ForgetTransaction, Unlock, Set, Types, FL!LockTypeOK, MemoryTypes
<1>6. /\ state'[i] = "open" /\ pc'[i] = next /\ spill'[i] = None /\ counted'[i] = FALSE
      /\ cache'[i] = kept /\ vers'[i] = vers[i]
  BY <1>1, <1>2 DEF GiveUp, ForgetTransaction, Set, Types, MemoryTypes
<1>7. Old(i)'
  BY <1>3, <1>6, DiskStays DEF Old, NoPages
<1>8. ~Reading(i)' /\ ~Writing(i)' /\ ~InDraft(i)'
  BY <1>6, RankOf DEF Reading, Writing, InDraft
<1> QED
  BY <1>3, <1>4, <1>5, <1>6, <1>7, <1>8 DEF InMemory, Memory

\* Steps that give the lock back without a transaction.
LEMMA LeavingMemory ==
  ASSUME JInv, NEW i \in Procs,
         SearchFails(i) \/ CannotOpen(i) \/ EndRead(i) \/ PagerError(i) \/ DeleteFails(i)
  PROVE  InMemory(i)
<1>1. Types /\ Local(i) /\ MemoryTypes /\ Memory(i)
  BY DEF JInv, IInv
<1>2. NoPages \in Images /\ cache[i] \in Images
  BY <1>1 DEF NoPages, Images, MemoryTypes
<1>3. CASE SearchFails(i) \/ CannotOpen(i)
  <2>1. state[i] = "open"
    BY <1>1, <1>3 DEF SearchFails, CannotOpen, Local, Closed, Starting, Reader, Locked, CacheMod,
           DbMod, Looking, Replaying, Flushing
  <2>2. PICK kept \in {cache[i], NoPages} : Leave(i, kept) \/ StepDown(i, kept)
    BY <1>3 DEF SearchFails, CannotOpen
  <2> QED
    BY <1>1, <1>2, <2>1, <2>2, LeaveMemory DEF Memory
<1>4. CASE EndRead(i)
  <2>1. state[i] = "reader"
    BY <1>4 DEF EndRead
  <2>2. Reading(i) /\ ~InDraft(i)
    BY <1>1, <2>1, RankValues DEF Types, InDraft
  <2>3. Old(i)
    BY <1>1, <2>2, FreshIsOld DEF Memory
  <2> QED
    BY <1>2, <1>4, <2>3, LeaveMemory DEF EndRead
<1>5. CASE PagerError(i) \/ DeleteFails(i)
  BY <1>2, <1>5, LeaveMemory DEF PagerError, DeleteFails
<1> QED
  BY <1>3, <1>4, <1>5

\* Opening and closing.
LEMMA OpenMemory ==
  ASSUME JInv, NEW i \in Procs, Open(i) \/ PagerClose(i)
  PROVE  InMemory(i)
<1>1. Types /\ Local(i) /\ MemoryTypes /\ Memory(i)
  BY DEF JInv, IInv
<1>2. UNCHANGED <<disk, lock, pc, spill, size, orig, dirty, needSync, counted, todo>>
  BY DEF Open, PagerClose, memory, pages
<1>3. cache[i] \in Images /\ NoPages \in Images /\ 0 \in Counters
  BY <1>1, PagerAssumption DEF MemoryTypes, NoPages, Images, Counters
<1>4. /\ state'[i] \in {"open", "closed"} /\ pc[i] = "idle"
      /\ dirty[i] = {}
      /\ cache'[i] = NoPages
      /\ spill[i] = None /\ counted[i] = FALSE
  <2>1. /\ state[i] \in {"open", "closed"} /\ pc[i] = "idle" /\ state'[i] \in {"open", "closed"}
        /\ dirty[i] = {} /\ (state[i] = "open" => cache'[i] = NoPages)
        /\ (state[i] = "closed" => cache' = cache)
    BY <1>1 DEF Open, PagerClose, Local, Closed, Starting, Reader, Locked, CacheMod, DbMod, Clean,
           Set, Types, memory, pages, MemoryTypes
  <2>2. ~Writing(i) /\ ~InDraft(i)
    BY <1>1, <2>1, RankValues DEF InDraft, Types
  <2> QED
    BY <1>1, <2>1, <2>2 DEF Memory
<1>5. MemoryTypes'
  BY <1>1, <1>2, <1>3, <1>4 DEF MemoryTypes, Open, PagerClose, memory, pages, Set
<1>6. \A j \in Procs \ {i} : Same(j)
  BY <1>1, <1>2 DEF Same, Open, PagerClose, Set, Types, MemoryTypes, memory, pages
<1>7. ~Reading(i)' /\ ~Writing(i)' /\ ~InDraft(i)'
  BY <1>4, RankOf DEF Reading, Writing, InDraft
<1>8. Old(i)'
  BY <1>4 DEF Old, NoPages
<1> QED
  BY <1>2, <1>4, <1>5, <1>6, <1>7, <1>8 DEF InMemory, Memory

\* A reader begins with what it still has, if that is of the version that
\* is in the file.
LEMMA ValidateMemory ==
  ASSUME JInv, NEW i \in Procs, Validate(i)
  PROVE  InMemory(i)
<1>1. Types /\ Local(i) /\ MemoryTypes /\ Memory(i) /\ Good(Image) /\ db \in [Pages -> Bytes]
  BY ImageIs DEF JInv, IInv, DiskInv, Disk, Shape
<1>2. UNCHANGED <<disk, lock, spill, orig, dirty, needSync, vers, counted, todo>>
  BY DEF Validate
<1>3. state[i] = "open" /\ pc[i] = "validate" /\ dirty[i] = {}
  BY <1>1 DEF Validate, Local, Closed, Starting, Reader, Locked, CacheMod, DbMod, Clean, Looking,
         Replaying, Flushing
<1>4. ~Writing(i) /\ ~InDraft(i)
  BY <1>3, RankOf DEF InDraft, Writing
<1>5. Plain /\ Old(i) /\ spill[i] = None /\ counted[i] = FALSE
  BY <1>1, <1>3, <1>4 DEF Memory
<1>6. PICK n \in 0..LastPage : Full(Image, n)
  BY <1>1 DEF Good
<1>7. size'[i] = n
  BY <1>1, <1>5, <1>6, PageCountIs DEF Plain, Validate, Set, MemoryTypes
<1>8. state'[i] = "reader" /\ pc'[i] = "idle" /\ NoPages \in Images
  BY <1>1 DEF Validate, Set, Types, NoPages, Images
<1>9. cache'[i] = IF vers[i] = Counter(db) THEN cache[i] ELSE NoPages
  BY <1>1 DEF Validate, Set, MemoryTypes
<1>10. MemoryTypes'
  <2>1. size' \in [Procs -> 0..LastPage]
    BY <1>1, <1>7 DEF Validate, Set, MemoryTypes
  <2>2. cache' \in [Procs -> Images]
    BY <1>1, <1>8 DEF Validate, Set, MemoryTypes
  <2>3. \A j \in Procs : dirty[j] \subseteq {p \in Pages : cache'[j][p] # None}
    BY <1>1, <1>3 DEF Validate, Set, MemoryTypes
  <2> QED
    BY <1>1, <1>2, <2>1, <2>2, <2>3 DEF MemoryTypes
<1>11. \A j \in Procs \ {i} : Same(j)
  BY <1>1, <1>2 DEF Same, Validate, Set, Types, MemoryTypes
<1>12. Fresh(i)'
  <2>1. cache'[i] = cache[i] => vers[i] = Counter(Image) \/ cache[i] = NoPages
    BY <1>5, <1>9 DEF Plain
  <2> QED
    BY <1>2, <1>5, <1>9, <2>1, DiskStays DEF Fresh, Old, NoPages, Plain
<1>13. Full(Image, size[i])' /\ Plain'
  BY <1>2, <1>5, <1>6, <1>7, DiskStays DEF Plain, disk, file, Full
<1>14. Reading(i)' /\ ~Writing(i)' /\ ~InDraft(i)'
  BY <1>8, RankOf DEF Reading, Writing, InDraft
<1> QED
  BY <1>2, <1>5, <1>8, <1>10, <1>11, <1>12, <1>13, <1>14 DEF InMemory, Memory

\* What a reader reads is what was committed last.
LEMMA ReaderFetchMemory ==
  ASSUME JInv, NEW i \in Procs, NEW p \in Pages, Fetch(i, p), ~Writing(i)
  PROVE  InMemory(i)
<1>1. Types /\ Local(i) /\ MemoryTypes /\ Memory(i) /\ Good(Image)
  BY ImageIs DEF JInv, IInv
<1>2. UNCHANGED <<disk, lock, state, pc, spill, size, orig, dirty, needSync, counted, todo>>
  BY DEF Fetch, progress
<1>3. state[i] \in {"reader", "locked"} /\ pc[i] = "idle" /\ Reading(i) /\ ~InDraft(i)
  BY <1>1, RankValues DEF Fetch, Idle, InDraft, Types
<1>4. Plain /\ Full(Image, size[i]) /\ Fresh(i)
  BY <1>1, <1>3 DEF Memory
<1>5. 1 \in Pages /\ cache[i] \in Images /\ cache \in [Procs -> Images] /\ vers \in [Procs -> Counters]
  BY <1>1, PagerAssumption DEF Pages, MemoryTypes
<1>6. db[p] \in Content(p) /\ db[p] # None /\ db[p] = Image[p]
  BY <1>1, <1>4 DEF Plain, Good, Images, Full, Fetch
<1>7. /\ cache' \in [Procs -> Images]
      /\ cache'[i][p] = db[p] /\ \A q \in Pages \ {p} : cache'[i][q] = cache[i][q]
      /\ \A j \in Procs \ {i} : cache'[j] = cache[j]
  <2>1. cache' = Put(cache, i, p, db[p])
    BY DEF Fetch, Put
  <2> QED
    BY <1>5, <1>6, <2>1, PageSet
<1>8. /\ vers' \in [Procs -> Counters] /\ (p = 1 => vers'[i] = db[1])
      /\ (p # 1 => vers'[i] = vers[i]) /\ \A j \in Procs \ {i} : vers'[j] = vers[j]
  BY <1>5, <1>6 DEF Fetch, Set, Content
<1>9. MemoryTypes'
  <2>1. \A j \in Procs : dirty[j] \subseteq {q \in Pages : cache'[j][q] # None}
    BY <1>1, <1>6, <1>7 DEF MemoryTypes
  <2> QED
    BY <1>1, <1>2, <1>7, <1>8, <2>1 DEF MemoryTypes
<1>10. \A j \in Procs \ {i} : Same(j)
  BY <1>2, <1>7, <1>8 DEF Same
<1>11. p = 1 \/ (p # 1 /\ cache[i][1] # None)
  BY DEF Fetch
<1>12. Fresh(i)'
  <2>1. Image' = Image
    BY <1>2, DiskStays
  <2>2. CASE p = 1
    <3>1. \A q \in Pages : cache[i][q] = None
      BY <1>4, <2>2 DEF Fresh, Fetch
    <3> QED
      BY <1>5, <1>6, <1>7, <1>8, <2>1, <2>2, <3>1 DEF Fresh
  <2>3. CASE p # 1 /\ cache[i][1] # None
    BY <1>4, <1>5, <1>6, <1>7, <1>8, <2>1, <2>3 DEF Fresh
  <2> QED
    BY <1>11, <2>2, <2>3
<1>13. Full(Image, size[i])' /\ Plain' = Plain
  BY <1>2, <1>4, DiskStays DEF Plain, disk, file, Full
<1>14. state[i] = "locked" => vers'[i] <= MaxVersion /\ (size[i] = 0 \/ cache'[i][1] # None)
  <2>1. state[i] = "locked" => vers[i] <= MaxVersion /\ (size[i] = 0 \/ cache[i][1] # None)
    BY <1>1 DEF Memory
  <2>2. p <= size[i] /\ size[i] # 0 /\ cache[i][p] = None
    BY DEF Fetch, Pages
  <2> QED
    BY <1>5, <1>7, <1>8, <2>1, <2>2
<1>15. Reading(i)' /\ ~Writing(i)' /\ ~InDraft(i)'
  BY <1>2, <1>3 DEF Reading, Writing, InDraft
<1> QED
  BY <1>1, <1>2, <1>3, <1>4, <1>9, <1>10, <1>12, <1>13, <1>14, <1>15 DEF InMemory, Memory

\* The RESERVED lock.
LEMMA BeginMemory ==
  ASSUME JInv, NEW i \in Procs, PagerBegin(i)
  PROVE  InMemory(i)
<1>1. Types /\ Local(i) /\ MemoryTypes /\ Memory(i)
  BY DEF JInv, IInv
<1>2. UNCHANGED <<disk, pc, spill, size, cache, dirty, needSync, vers, counted, todo>>
  BY DEF PagerBegin
<1>3. state[i] = "reader" /\ pc[i] = "idle" /\ ~Writing(i) /\ ~InDraft(i) /\ Reading(i)
  BY <1>1, RankValues DEF PagerBegin, Idle, InDraft, Types
<1>4. /\ Plain /\ Full(Image, size[i]) /\ Fresh(i) /\ counted[i] = FALSE /\ spill[i] = None
  BY <1>1, <1>3 DEF Memory
<1>5. /\ state'[i] = "locked" /\ orig'[i] = size[i] /\ vers[i] <= MaxVersion
      /\ size[i] = 0 \/ cache[i][1] # None
  BY <1>1 DEF PagerBegin, Set, Types, MemoryTypes
<1>6. MemoryTypes'
  <2>1. orig' \in [Procs -> 0..LastPage]
    BY <1>1 DEF PagerBegin, Set, MemoryTypes
  <2> QED
    BY <1>1, <1>2, <2>1 DEF MemoryTypes
<1>7. \A j \in Procs \ {i} : Same(j)
  BY <1>1, <1>2 DEF Same, PagerBegin, Set, Types, MemoryTypes, FL!Reserve, FL!SetLock, FL!LockTypeOK
<1>8. Reading(i)' /\ ~Writing(i)' /\ ~InDraft(i)'
  BY <1>5, RankOf DEF Reading, Writing, InDraft
<1>9. Full(Image, size[i])' /\ Fresh(i)' /\ Plain'
  BY <1>2, <1>4, DiskStays DEF Plain, disk, file, Full, Fresh
<1> QED
  BY <1>2, <1>3, <1>4, <1>5, <1>6, <1>7, <1>8, <1>9 DEF InMemory, Memory

\* Unlocking forgets the cache.
LEMMA UnlockMemory ==
  ASSUME JInv, NEW i \in Procs, UnlockDb(i)
  PROVE  InMemory(i)
<1>1. Types /\ Local(i) /\ MemoryTypes /\ Memory(i)
  BY DEF JInv, IInv
<1>2. UNCHANGED <<spill, disk, size, cache, dirty, needSync, vers, todo>>
  BY DEF UnlockDb
<1>3. pc[i] = "unlock" /\ state[i] \in {"open", "locked", "cachemod", "dbmod"} /\ ~InDraft(i)
  BY <1>1 DEF UnlockDb, InDraft, Own, Local, Closed, Starting, Reader, Locked, CacheMod, DbMod
<1>4. /\ Plain /\ spill[i] = None /\ (state[i] = "open" => Old(i))
      /\ state[i] # "open" => Full(Image, size[i]) /\ Fresh(i)
  BY <1>1, <1>3, RankValues DEF Memory
<1>5. /\ state'[i] = IF state[i] = "open" THEN "open" ELSE "reader"
      /\ pc'[i] = IF state[i] = "open" THEN "validate" ELSE "idle"
      /\ orig'[i] = 0 /\ counted'[i] = FALSE
  BY <1>1 DEF UnlockDb, Set, Types, MemoryTypes
<1>6. MemoryTypes'
  <2>1. orig' \in [Procs -> 0..LastPage] /\ counted' \in [Procs -> BOOLEAN]
    BY <1>1, PagerAssumption DEF UnlockDb, Set, MemoryTypes
  <2> QED
    BY <1>1, <1>2, <2>1 DEF MemoryTypes
<1>7. \A j \in Procs \ {i} : Same(j)
  BY <1>1, <1>2 DEF Same, UnlockDb, Unlock, Set, Types, MemoryTypes, FL!LockTypeOK
<1>8. ~Writing(i)' /\ ~InDraft(i)' /\ (state[i] = "open" => ~Reading(i)')
  BY <1>5, RankOf DEF Reading, Writing, InDraft
<1>9. /\ Plain' /\ (Old(i) => Old(i)') /\ (Fresh(i) => Fresh(i)')
      /\ Full(Image, size[i]) => Full(Image, size[i])'
  BY <1>2, <1>4, DiskStays DEF Plain, disk, file, Full, Fresh, Old
<1> QED
  BY <1>2, <1>3, <1>4, <1>5, <1>6, <1>7, <1>8, <1>9 DEF InMemory, Memory

\* A commit with nothing to write.
LEMMA CommitNothingMemory ==
  ASSUME JInv, NEW i \in Procs, CommitNothing(i)
  PROVE  InMemory(i)
<1>1. Types /\ MemoryTypes /\ Memory(i)
  BY DEF JInv, IInv
<1>2. UNCHANGED <<lock, disk, state, spill, size, orig, cache, dirty, needSync, vers, counted, todo>>
  BY DEF CommitNothing, Call, memory, pages
<1>3. state[i] = "locked" /\ ~Writing(i) /\ Reading(i) /\ ~InDraft(i) /\ pc'[i] = "unlock"
  BY <1>1, RankValues DEF CommitNothing, InDraft, Types, Call, Set
<1>4. MemoryTypes'
  BY <1>1, <1>2 DEF MemoryTypes
<1>5. \A j \in Procs \ {i} : Same(j)
  BY <1>1, <1>2 DEF Same, CommitNothing, Call, Set, Types
<1>6. /\ Plain' = Plain /\ Fresh(i)' = Fresh(i) /\ Full(Image, size[i])' = Full(Image, size[i])
      /\ Reading(i)' /\ ~Writing(i)' /\ ~InDraft(i)'
  BY <1>2, <1>3, DiskStays DEF Plain, disk, file, Full, Fresh, Reading, Writing, InDraft
<1> QED
  BY <1>1, <1>2, <1>3, <1>4, <1>5, <1>6 DEF InMemory, Memory

\* The pages in memory are those of the file before the transaction again.
LEMMA GoBackMemory ==
  ASSUME JInv, NEW i \in Procs, PagerRollback(i) \/ CommitFails(i)
  PROVE  InMemory(i)
<1>1. Types /\ Local(i) /\ MemoryTypes /\ Memory(i) /\ Good(Image)
  BY ImageIs DEF JInv, IInv
<1>2. UNCHANGED <<lock, disk, state, orig>> /\ GoBack(i)
  BY DEF PagerRollback, CommitFails, GoBack
<1>3. state[i] \in {"cachemod", "dbmod"} /\ pc[i] \in {"idle", "header", "sync", "write", "syncdb"}
  <2>1. CASE PagerRollback(i)
    BY <1>1, <2>1, RankValues DEF PagerRollback, Idle, Types
  <2>2. CASE CommitFails(i)
    BY <1>1, <2>2 DEF CommitFails, Local, Closed, Starting, Reader, Locked, CacheMod, DbMod,
           Looking, Replaying, Flushing
  <2> QED
    BY <2>1, <2>2
<1>4. Draft(i) /\ Writing(i)
  BY <1>1, <1>3, RankOf DEF Memory, InDraft, Writing, Own
<1>5. /\ journal \in Journals /\ journal.recs \in Images /\ journal.size = orig[i]
      /\ Recorded(journal) \subseteq Pages
      /\ Full(Image, orig[i]) /\ \A p \in Recorded(journal) : journal.recs[p] = Image[p]
  BY <1>4, JournalType DEF Draft
<1>6. 1 \in Pages /\ orig[i] \in 0..LastPage /\ cache[i] \in Images /\ vers[i] \in Counters
  BY <1>1, PagerAssumption DEF Pages, MemoryTypes
<1> DEFINE r == Restored(i)
<1>7. r \in Images
  BY <1>5, <1>6 DEF Restored, Images
<1>8. \A p \in Pages : /\ p > orig[i] => r[p] = None
                       /\ p <= orig[i] /\ cache[i][p] = None => r[p] = None
                       /\ p <= orig[i] /\ cache[i][p] # None =>
                            r[p] = IF journal.recs[p] # None THEN journal.recs[p] ELSE cache[i][p]
  BY <1>6 DEF Restored, Pages
<1>9. /\ cache' = [cache EXCEPT ![i] = r] /\ size' = [size EXCEPT ![i] = orig[i]]
      /\ vers' = IF journal.recs[1] # None THEN [vers EXCEPT ![i] = journal.recs[1]] ELSE vers
  BY <1>2 DEF GoBack, Set
<1> HIDE DEF r
<1>10. journal.recs[1] # None => journal.recs[1] \in Counters
  BY <1>5, <1>6 DEF Images, Content
<1>11. /\ cache' \in [Procs -> Images] /\ cache'[i] = r /\ size'[i] = orig[i]
       /\ vers'[i] = IF journal.recs[1] # None THEN journal.recs[1] ELSE vers[i]
  BY <1>1, <1>7, <1>9, <1>10 DEF MemoryTypes
<1>12. /\ spill'[i] = None /\ counted'[i] = FALSE /\ dirty'[i] = {} /\ needSync'[i] = {}
       /\ state[i] = "dbmod" => /\ pc'[i] = "truncate"
                                /\ todo'[i] = Recorded(journal) \ needSync[i]
       /\ state[i] = "cachemod" => pc'[i] = "delete"
  BY <1>1, <1>2, <1>3 DEF GoBack, Set, Types, MemoryTypes
<1>13. MemoryTypes'
  <2>1. size' \in [Procs -> 0..LastPage] /\ orig' \in [Procs -> 0..LastPage]
    BY <1>1, <1>2, <1>6, <1>9 DEF MemoryTypes
  <2>2. vers' \in [Procs -> Counters]
    BY <1>1, <1>9, <1>10 DEF MemoryTypes
  <2>3. /\ spill' \in [Procs -> Pages \cup {None}] /\ counted' \in [Procs -> BOOLEAN]
        /\ needSync' \in [Procs -> SUBSET Pages] /\ todo' \in [Procs -> SUBSET Pages]
    BY <1>1, <1>2, <1>5 DEF GoBack, Set, MemoryTypes
  <2>4. \A j \in Procs \ {i} : /\ dirty'[j] = dirty[j] /\ needSync'[j] = needSync[j]
                               /\ cache'[j] = cache[j]
    BY <1>1, <1>2 DEF GoBack, Set, Types, MemoryTypes
  <2>5. \A j \in Procs : /\ dirty'[j] \subseteq {p \in Pages : cache'[j][p] # None}
                         /\ needSync'[j] \subseteq dirty'[j]
    BY <1>1, <1>12, <2>4 DEF MemoryTypes
  <2> QED
    BY <1>11, <2>1, <2>2, <2>3, <2>5 DEF MemoryTypes
<1>14. \A j \in Procs \ {i} : Same(j)
  BY <1>1, <1>2 DEF Same, GoBack, Set, Types, MemoryTypes
<1>15. Fresh(i)'
  <2> SUFFICES ASSUME NEW p \in Pages, r[p] # None
               PROVE  r[1] # None /\ r[1] = vers'[i] /\ r[p] = Image[p]
    BY <1>2, <1>11, DiskStays DEF Fresh
  <2>1. p <= orig[i] /\ cache[i][p] # None /\ orig[i] > 0 /\ 1 <= orig[i]
    BY <1>6, <1>8 DEF Pages
  <2>2. ASSUME NEW q \in Pages, q <= orig[i], cache[i][q] # None
        PROVE  r[q] = Image[q] /\ r[q] # None
    <3>1. CASE journal.recs[q] # None
      BY <1>5, <1>8, <2>2, <3>1 DEF Recorded
    <3>2. CASE journal.recs[q] = None
      <4>1. q \notin dirty[i] /\ q \notin Recorded(journal)
        BY <1>4, <2>2, <3>2 DEF Draft, Recorded
      <4>2. q <= size[i]
        BY <1>1, <1>4, <1>6, <2>2 DEF Draft, MemoryTypes, Pages
      <4>3. cache[i][q] = db[q] /\ db[q] = Image[q]
        BY <1>4, <2>2, <4>1, <4>2 DEF Draft
      <4> QED
        BY <1>8, <2>2, <3>2, <4>3
    <3> QED
      BY <3>1, <3>2
  <2>3. r[1] = Image[1] /\ r[1] # None
    BY <1>4, <1>6, <2>1, <2>2 DEF Draft
  <2>4. vers'[i] = Image[1]
    <3>1. CASE journal.recs[1] # None
      BY <1>5, <1>6, <1>11, <3>1 DEF Recorded
    <3>2. CASE journal.recs[1] = None
      <4>1. vers[i] = Counter(Image)
        BY <1>4, <2>1, <3>2 DEF Draft, Count
      <4> QED
        BY <1>11, <2>3, <3>2, <4>1 DEF Counter
    <3> QED
      BY <3>1, <3>2
  <2> QED
    BY <2>1, <2>2, <2>3, <2>4
<1>16. state[i] = "dbmod" => Playback(i)'
  <2> SUFFICES ASSUME state[i] = "dbmod" PROVE Playback(i)'
    OBVIOUS
  <2>1. journal' = journal /\ hotOnDisk' = hotOnDisk /\ db' = db /\ Image' = Image /\ Guarded' = Guarded
    BY <1>2, DiskStays DEF disk, file
  <2>2. Guarded /\ \A j \in hotOnDisk : j.size = orig[i]
                                       /\ Recorded(journal) \ needSync[i] \subseteq Recorded(j)
    BY <1>4 DEF Draft
  <2>3. \A p \in Pages : p <= orig[i] /\ p \notin Recorded(journal) \ needSync[i] => db[p] = Image[p]
    BY <1>4 DEF Draft
  <2> QED
    BY <1>5, <1>12, <2>1, <2>2, <2>3 DEF Playback
<1>17. state[i] = "cachemod" => Plain'
  BY <1>2, <1>4, DiskStays DEF Plain, Draft, disk, file
<1>18. Writing(i)' /\ Reading(i)' /\ ~InDraft(i)'
  <2>1. state'[i] = state[i]
    BY <1>2
  <2> QED
    BY <1>3, <1>12, <2>1, RankOf DEF InDraft, Own, Writing, Reading
<1>19. Full(Image, size[i])'
  BY <1>2, <1>5, <1>11, DiskStays DEF Full
<1>20. journal' \in Journals /\ journal'.size = orig'[i] /\ (state'[i] = "dbmod" => journal'.hot)
  BY <1>2, <1>4, <1>5 DEF disk, Draft
<1> QED
  BY <1>2, <1>3, <1>12, <1>13, <1>14, <1>15, <1>16, <1>17, <1>18, <1>19, <1>20 DEF InMemory, Memory

\* The parts of a draft that have to do with where the program is in it.
LEMMA DraftMoves ==
  ASSUME JInv, NEW i \in Procs, InDraft(i), UNCHANGED disk, UNCHANGED <<state, memory>>,
         pc' \in [Procs -> Calls], pc'[i] \in {"idle", "excl", "header", "write"},
         spill' \in [Procs -> Pages \cup {None}],
         \A j \in Procs \ {i} : lock'[j] = lock[j] /\ pc'[j] = pc[j] /\ spill'[j] = spill[j],
         spill'[i] # None => spill'[i] \in dirty[i] \ {1} /\ pc'[i] # "idle",
         pc'[i] # "idle" /\ spill'[i] = None => counted[i],
         pc[i] \in {"idle", "excl"},
         pc'[i] = "write" => spill'[i] # None /\ spill'[i] \notin needSync[i]
  PROVE  InMemory(i)
<1>1. Types /\ MemoryTypes /\ Memory(i) /\ Draft(i) /\ Writing(i)
  BY DEF JInv, IInv, Memory, InDraft
<1>2. MemoryTypes'
  BY <1>1 DEF MemoryTypes, memory, pages
<1>3. \A j \in Procs \ {i} : Same(j)
  BY DEF Same, memory, pages
<1>4. Writing(i)' /\ Reading(i)' /\ InDraft(i)' /\ state[i] \in {"cachemod", "dbmod"}
  BY <1>1, RankValues, RankOf DEF InDraft, Own, Writing, Reading, Types
<1>5. /\ Image' = Image /\ Synced' = Synced /\ Guarded' = Guarded /\ Plain' = Plain
      /\ db' = db /\ journal' = journal /\ hotOnDisk' = hotOnDisk
  BY DiskStays DEF Plain, disk, file
<1>6. /\ state' = state /\ size' = size /\ orig' = orig /\ cache' = cache
      /\ dirty' = dirty /\ needSync' = needSync /\ vers' = vers /\ counted' = counted
      /\ todo' = todo
  BY DEF memory, pages
<1>7. Count(i)'
  <2>1. ~(counted[i] /\ 1 \notin dirty[i])
    BY <1>1 DEF Draft, Count
  <2> QED
    BY <1>1, <1>5, <1>6, <2>1 DEF Draft, Count
<1>8. Draft(i)'
  BY <1>1, <1>5, <1>6, <1>7 DEF Draft
<1> QED
  BY <1>2, <1>3, <1>4, <1>6, <1>8 DEF InMemory, Memory

\* Steps of a commit that only move it on.
LEMMA DraftMemory ==
  ASSUME JInv, NEW i \in Procs,
         \/ \E p \in Pages : PagerStress(i, p)
         \/ CommitPhaseOne(i) /\ counted[i]
         \/ ExclusiveLock(i) \/ WriteBusy(i)
  PROVE  InMemory(i)
<1>1. Types /\ Local(i) /\ MemoryTypes /\ Memory(i)
  BY DEF JInv, IInv
<1>2. ASSUME Idle(i), Writing(i) PROVE InDraft(i) /\ spill[i] = None
  BY <1>1, <1>2 DEF Idle, InDraft, Own, Memory, Draft
<1>3. ASSUME pc[i] = "excl"
      PROVE  InDraft(i) /\ (spill[i] # None => spill[i] \in dirty[i] \ {1})
             /\ (spill[i] = None => counted[i])
  <2>1. state[i] = "cachemod"
    BY <1>1, <1>3 DEF Local, Closed, Starting, Reader, Locked, CacheMod, DbMod, Looking, Replaying,
           Flushing
  <2>2. InDraft(i)
    BY <1>3, <2>1, RankOf DEF InDraft, Writing, Own
  <2> QED
    BY <1>1, <1>3, <2>2 DEF Memory, Draft, Count
<1>4. CASE \E p \in Pages : PagerStress(i, p)
  <2> PICK p \in Pages : PagerStress(i, p)
    BY <1>4
  <2>1. Writing(i)
    BY <1>1, RankValues DEF PagerStress, Idle, Types, Local, Clean
  <2>2. InDraft(i) /\ p \in dirty[i] \ {1} /\ pc[i] = "idle"
    BY <1>2, <2>1 DEF PagerStress, Idle
  <2>3. p # None
    BY PagerAssumption DEF Pages
  <2>4. /\ spill' \in [Procs -> Pages \cup {None}] /\ spill'[i] = p
        /\ pc' \in [Procs -> Calls] /\ pc'[i] \in {"excl", "header", "write"}
        /\ pc'[i] = "write" => p \notin needSync[i]
        /\ \A j \in Procs \ {i} : lock'[j] = lock[j] /\ pc'[j] = pc[j] /\ spill'[j] = spill[j]
    BY <1>1 DEF PagerStress, WriteFrom, Set, Calls, Types, MemoryTypes
  <2>5. UNCHANGED disk /\ UNCHANGED <<state, memory>>
    BY DEF PagerStress
  <2> QED
    BY <2>2, <2>3, <2>4, <2>5, DraftMoves
<1>5. CASE CommitPhaseOne(i) /\ counted[i]
  <2>1. InDraft(i) /\ spill[i] = None /\ pc[i] = "idle"
    BY <1>2, <1>5 DEF CommitPhaseOne, Idle
  <2>2. counted' = counted
    BY <1>1, <1>5 DEF CommitPhaseOne, Set, MemoryTypes
  <2>3. /\ spill' = spill /\ lock' = lock
        /\ pc' \in [Procs -> Calls] /\ pc'[i] \in {"excl", "header"}
        /\ \A j \in Procs \ {i} : pc'[j] = pc[j]
    BY <1>1, <1>5 DEF CommitPhaseOne, WriteFrom, Set, Calls, Types
  <2>4. UNCHANGED disk /\ UNCHANGED <<state, memory>>
    BY <1>5, <2>2 DEF CommitPhaseOne, disk, memory
  <2>5. spill' \in [Procs -> Pages \cup {None}]
    BY <1>1, <2>3 DEF MemoryTypes
  <2> QED
    BY <1>5, <2>1, <2>3, <2>4, <2>5, DraftMoves
<1>6. CASE ExclusiveLock(i)
  <2>1. pc[i] = "excl"
    BY <1>6 DEF ExclusiveLock
  <2>2. /\ UNCHANGED disk /\ UNCHANGED <<state, memory>> /\ spill' = spill
        /\ pc' \in [Procs -> Calls] /\ pc'[i] \in {"excl", "header"}
        /\ \A j \in Procs \ {i} : lock'[j] = lock[j] /\ pc'[j] = pc[j]
    BY <1>1, <1>6 DEF ExclusiveLock, Call, Set, Calls, Types, FL!LockTypeOK, FL!Pend, FL!Exclude,
           FL!SetLock, progress
  <2>3. spill' \in [Procs -> Pages \cup {None}]
    BY <1>1, <2>2 DEF MemoryTypes
  <2> QED
    BY <1>3, <2>1, <2>2, <2>3, DraftMoves
<1>7. CASE WriteBusy(i)
  <2>1. pc[i] = "excl"
    BY <1>7 DEF WriteBusy
  <2>2. /\ UNCHANGED disk /\ UNCHANGED <<state, memory>> /\ lock' = lock
        /\ spill'[i] = None /\ pc'[i] = "idle" /\ pc' \in [Procs -> Calls]
        /\ \A j \in Procs \ {i} : pc'[j] = pc[j] /\ spill'[j] = spill[j]
    BY <1>1, <1>7 DEF WriteBusy, Set, Calls, Types, MemoryTypes
  <2>3. spill' \in [Procs -> Pages \cup {None}]
    BY <1>1, <1>7 DEF WriteBusy, Set, MemoryTypes
  <2> QED
    BY <1>3, <2>1, <2>2, <2>3, DraftMoves
<1> QED
  BY <1>4, <1>5, <1>6, <1>7

\* A program that changes the file sees its own pages.
LEMMA DraftFetchMemory ==
  ASSUME JInv, NEW i \in Procs, NEW p \in Pages, Fetch(i, p), Writing(i)
  PROVE  InMemory(i)
<1>1. Types /\ MemoryTypes /\ Memory(i)
  BY DEF JInv, IInv
<1>2. UNCHANGED <<disk, lock, state, pc, spill, size, orig, dirty, needSync, counted, todo>>
  BY DEF Fetch, progress
<1>3. InDraft(i) /\ Draft(i) /\ pc[i] = "idle"
  BY <1>1 DEF Fetch, Idle, InDraft, Own, Memory
<1>4. p <= size[i] /\ cache[i][p] = None /\ p # 1 /\ p \notin dirty[i]
  BY <1>1, <1>3 DEF Fetch, Draft, MemoryTypes
<1>5. db[p] \in Content(p) /\ db[p] # None
  BY <1>3, <1>4 DEF Draft, Images
<1>6. /\ cache' \in [Procs -> Images]
      /\ cache'[i][p] = db[p] /\ \A q \in Pages \ {p} : cache'[i][q] = cache[i][q]
      /\ \A j \in Procs \ {i} : cache'[j] = cache[j]
  <2>1. cache' = Put(cache, i, p, db[p]) /\ cache \in [Procs -> Images]
    BY <1>1 DEF Fetch, Put, MemoryTypes
  <2> QED
    BY <1>5, <2>1, PageSet
<1>7. vers' = vers
  BY <1>4 DEF Fetch
<1>8. MemoryTypes'
  <2>1. \A j \in Procs : dirty[j] \subseteq {q \in Pages : cache'[j][q] # None}
    BY <1>1, <1>5, <1>6 DEF MemoryTypes
  <2> QED
    BY <1>1, <1>2, <1>6, <1>7, <2>1 DEF MemoryTypes
<1>9. \A j \in Procs \ {i} : Same(j)
  BY <1>2, <1>6, <1>7 DEF Same
<1>10. Writing(i)' /\ Reading(i)' /\ InDraft(i)' /\ state[i] \in {"cachemod", "dbmod"}
  BY <1>1, <1>2, <1>3, RankValues, RankOf DEF InDraft, Own, Writing, Reading, Types
<1>11. /\ Image' = Image /\ Synced' = Synced /\ Guarded' = Guarded /\ Plain' = Plain
       /\ db' = db /\ journal' = journal /\ hotOnDisk' = hotOnDisk
  BY <1>2, DiskStays DEF Plain, disk, file
<1>12. 1 \in Pages /\ cache'[i][1] = cache[i][1]
  BY <1>4, <1>6, PagerAssumption DEF Pages
<1>13. Count(i)'
  BY <1>2, <1>3, <1>7, <1>11, <1>12 DEF Draft, Count
<1>14. \A q \in Pages : q > size[i] => cache'[i][q] = None
  BY <1>1, <1>3, <1>4, <1>6 DEF Draft, Pages, MemoryTypes
<1>15. \A q \in Pages : q <= size[i] /\ q \notin dirty[i] => cache'[i][q] \in {None, db[q]}
  BY <1>3, <1>6 DEF Draft
<1>16. Draft(i)'
  BY <1>2, <1>3, <1>11, <1>12, <1>13, <1>14, <1>15 DEF Draft
<1> QED
  BY <1>2, <1>3, <1>8, <1>9, <1>10, <1>16 DEF InMemory, Memory, Draft

-----------------------------------------------------------------------------
(***************************************************************************)
(* Changing a page.                                                        *)
(***************************************************************************)
LEMMA WithRecordIs ==
  ASSUME NEW j \in Journals, NEW i \in Procs, NEW p \in Pages, cache[i] \in Images,
         j.size = orig[i]
  PROVE  /\ WithRecord(j, i, p) \in Journals
         /\ WithRecord(j, i, p).size = j.size /\ WithRecord(j, i, p).hot = j.hot
         /\ WithRecord(j, i, p).counted = j.counted
         /\ \A q \in Pages \ {p} : WithRecord(j, i, p).recs[q] = j.recs[q]
         /\ WithRecord(j, i, p).recs[p] =
              IF p <= orig[i] /\ j.recs[p] = None THEN cache[i][p] ELSE j.recs[p]
         /\ Findable(WithRecord(j, i, p)) = Findable(j)
<1>1. j.recs \in Images /\ j.counted \subseteq Recorded(j)
  BY JournalType
<1>2. CASE p <= orig[i] /\ j.recs[p] = None
  <2> DEFINE r == [j.recs EXCEPT ![p] = cache[i][p]]
             k == [j EXCEPT !.recs = r]
  <2>1. WithRecord(j, i, p) = k
    BY <1>2 DEF WithRecord
  <2>2. r \in Images /\ r[p] = cache[i][p] /\ \A q \in Pages \ {p} : r[q] = j.recs[q]
    BY <1>1 DEF Images
  <2> HIDE DEF r
  <2>3. j \in [size : 0..LastPage, hot : BOOLEAN, recs : Images, counted : SUBSET Pages]
    BY DEF Journals
  <2>4. k = [size |-> j.size, hot |-> j.hot, recs |-> r, counted |-> j.counted]
    BY <2>3
  <2> HIDE DEF k
  <2>5. p \notin j.counted
    BY <1>1, <1>2 DEF Recorded
  <2>6. k \in Journals /\ k.size = j.size /\ k.hot = j.hot /\ k.counted = j.counted /\ k.recs = r
    <3>1. j.counted \subseteq {q \in Pages : r[q] # None}
      BY <1>1, <2>2, <2>5 DEF Recorded
    <3>2. {q \in Pages : r[q] # None} \subseteq 1..j.size
      <4>1. j.size \in Nat /\ \A q \in Pages : j.recs[q] # None => q \in 1..j.size
        BY JournalType DEF Recorded
      <4> QED
        BY <1>2, <2>2, <4>1 DEF Pages
    <3> QED
      BY <2>2, <2>3, <2>4, <3>1, <3>2 DEF Journals, Recorded
  <2>7. Findable(k) = Findable(j)
    <3>1. CASE j.hot
      <4>1. /\ Findable(k) \in Journals /\ Findable(j) \in Journals
            /\ Findable(k).size = Findable(j).size /\ Findable(k).hot = Findable(j).hot
            /\ Findable(k).counted = Findable(j).counted
            /\ \A q \in Pages : Findable(k).recs[q] = Findable(j).recs[q]
        <5>1. /\ Findable(j) \in Journals /\ Findable(j).size = j.size /\ Findable(j).hot
              /\ Findable(j).counted = j.counted
              /\ \A q \in j.counted : Findable(j).recs[q] = j.recs[q]
              /\ \A q \in Pages \ j.counted : Findable(j).recs[q] = None
          BY <3>1, FindableIs
        <5>2. /\ Findable(k) \in Journals /\ Findable(k).size = j.size /\ Findable(k).hot
              /\ Findable(k).counted = j.counted
              /\ \A q \in j.counted : Findable(k).recs[q] = r[q]
              /\ \A q \in Pages \ j.counted : Findable(k).recs[q] = None
          BY <2>6, <3>1, FindableIs
        <5>3. \A q \in j.counted : q \in Pages /\ r[q] = j.recs[q]
          BY <1>1, <2>2, <2>5 DEF Recorded
        <5> QED
          BY <5>1, <5>2, <5>3
      <4>2. Findable(k).recs = Findable(j).recs
        BY <4>1, JournalType DEF Images
      <4> QED
        BY <4>1, <4>2, JournalType
    <3>2. CASE ~j.hot
      BY <2>6, <3>2, FindableNone
    <3> QED
      BY <3>1, <3>2
  <2> QED
    BY <1>2, <2>1, <2>2, <2>6, <2>7
<1>3. CASE ~(p <= orig[i] /\ j.recs[p] = None)
  BY <1>3 DEF WithRecord
<1> QED
  BY <1>2, <1>3

\* The journal before the change, and what is known of it.
Base(i) == IF state[i] = "locked" THEN NewJournal(i) ELSE journal
BaseInv(i, j) ==
  /\ j \in Journals /\ j.size = orig[i]
  /\ Full(Image, orig[i]) /\ orig[i] <= size[i]
  /\ \A p \in Recorded(j) : p <= orig[i] /\ j.recs[p] = Image[p]
  /\ Recorded(j) \ needSync[i] \subseteq j.counted
  /\ \A p \in dirty[i] : p <= size[i] /\ (p <= orig[i] => j.recs[p] # None)
  /\ db \in Images
  /\ \A p \in Pages : p > size[i] => cache[i][p] = None /\ db[p] = None
  /\ \A p \in Pages : p <= size[i] /\ p \notin dirty[i] => db[p] # None /\ cache[i][p] \in {None, db[p]}
  /\ \A p \in Pages : p <= orig[i] /\ p \notin Recorded(j) \ needSync[i] => db[p] = Image[p]
  /\ size[i] = 0 \/ cache[i][1] # None
  /\ vers[i] <= MaxVersion /\ vers[i] >= Counter(Image)
  /\ orig[i] > 0 => vers[i] = Counter(Image)
  /\ counted[i] => cache[i][1] = vers[i] + 1 /\ 1 \in dirty[i]
  /\ state[i] # "dbmod" => Plain /\ ~j.hot
  /\ spill[i] = None

\* The journal a write adds to, new or already there, is one.
LEMMA BaseHolds ==
  ASSUME JInv, NEW i \in Procs, pc[i] = "idle", state[i] \in {"locked", "cachemod", "dbmod"}
  PROVE  BaseInv(i, Base(i)) /\ (state[i] # "locked" => Draft(i))
<1>1. Types /\ Local(i) /\ MemoryTypes /\ Memory(i) /\ Good(Image)
  BY ImageIs DEF JInv, IInv
<1>2. CASE state[i] = "locked"
  <2>1. ~Writing(i) /\ Reading(i) /\ ~InDraft(i)
    BY <1>2, RankOf DEF Writing, Reading, InDraft
  <2>2. /\ Plain /\ Full(Image, size[i]) /\ Fresh(i) /\ orig[i] = size[i] /\ vers[i] <= MaxVersion
        /\ size[i] = 0 \/ cache[i][1] # None
        /\ counted[i] = FALSE /\ spill[i] = None
    BY <1>1, <1>2, <2>1 DEF Memory
  <2>3. dirty[i] = {} /\ needSync[i] = {}
    BY <1>1, <1>2 DEF Local, Clean, MemoryTypes
  <2>4. 1 \in Pages /\ size[i] \in 0..LastPage /\ vers[i] \in Nat
    BY <1>1, PagerAssumption DEF Pages, MemoryTypes, Counters
  <2> DEFINE j == NewJournal(i)
  <2>5. j \in Journals /\ j.size = orig[i] /\ ~j.hot /\ Recorded(j) = {}
    BY <2>2, <2>4 DEF NewJournal, Journals, Recorded, NoPages, Images
  <2>6. db = Image /\ db \in Images
    BY <1>1, <2>2 DEF Plain, Good
  <2>7. \A p \in Pages : /\ p > size[i] => cache[i][p] = None /\ db[p] = None
                         /\ p <= size[i] => db[p] # None /\ cache[i][p] \in {None, db[p]}
    BY <2>2, <2>4, <2>6 DEF Fresh, Full, Pages
  <2>8. vers[i] >= Counter(Image) /\ (orig[i] > 0 => vers[i] = Counter(Image))
    <3>1. CASE size[i] = 0
      <4>1. Image[1] = None
        BY <2>2, <2>4, <3>1 DEF Full
      <4> QED
        BY <2>2, <2>4, <3>1, <4>1 DEF Counter
    <3>2. CASE size[i] # 0
      <4>1. cache[i][1] = vers[i] /\ cache[i][1] = Image[1] /\ Image[1] # None
        BY <2>2, <2>4, <3>2 DEF Fresh
      <4> QED
        BY <2>4, <4>1 DEF Counter
    <3> QED
      BY <3>1, <3>2
  <2> HIDE DEF j
  <2>9. BaseInv(i, j)
    BY <1>2, <2>2, <2>3, <2>4, <2>5, <2>6, <2>7, <2>8 DEF BaseInv
  <2> QED
    BY <1>2, <2>9 DEF Base, j
<1>3. CASE state[i] \in {"cachemod", "dbmod"}
  <2>1. InDraft(i) /\ Draft(i)
    BY <1>1, <1>3, RankOf DEF Writing, InDraft, Own, Memory
  <2>2. spill[i] = None /\ ~(counted[i] /\ 1 \notin dirty[i])
    BY <2>1 DEF Draft, Count
  <2>3. BaseInv(i, journal)
    BY <1>3, <2>1, <2>2 DEF BaseInv, Draft, Count
  <2> QED
    BY <1>3, <2>1, <2>3 DEF Base
<1> QED
  BY <1>2, <1>3

\* What else a step is: to the disk, and to what the file says.
OnDisk(i) ==
  /\ DiskInv' /\ MemoryTypes' /\ Memory(i)'
  /\ \A j \in Procs \ {i} : Same(j)
  /\ lock[i] \in Preparing
  /\ lock[i] = "exclusive" \/ UNCHANGED file
Saying == Image' = Image /\ Possible' \subseteq Possible

\* A page is in the journal, if it has to be, before it changes in the cache.
LEMMA PagerWriteDisk ==
  ASSUME JInv, NEW i \in Procs, NEW p \in Pages, NEW content, PagerWrite(i, p, content),
         UNCHANGED file, BaseInv(i, Base(i)), state[i] \in {"locked", "cachemod", "dbmod"},
         state[i] # "locked" => Draft(i)
  PROVE  /\ DiskInv' /\ Image' = Image /\ Possible' = Possible
         /\ Synced' = Synced /\ (Guarded /\ state[i] # "locked" => Guarded')
         /\ journal' = WithRecord(Base(i), i, p) /\ Findable(journal') = Findable(Base(i))
         /\ state[i] # "locked" => hotOnDisk' = hotOnDisk
<1>1. MemoryTypes /\ DiskInv /\ cache[i] \in Images /\ db' = db /\ maybe' = maybe
  BY DEF JInv, MemoryTypes, file
<1>2. /\ Base(i) \in Journals /\ journal' = WithRecord(Base(i), i, p)
      /\ hotOnDisk' = IF state[i] = "locked" THEN hotOnDisk \cup {None} ELSE hotOnDisk
  BY DEF PagerWrite, Base, BaseInv
<1>3. journal' \in Journals /\ Findable(journal') = Findable(Base(i))
  BY <1>1, <1>2, WithRecordIs DEF BaseInv
<1>4. Synced' = Synced
  BY <1>1 DEF Synced
<1>5. CASE state[i] = "locked"
  <2>1. Findable(journal') = None /\ Plain /\ Good(db)
    BY <1>1, <1>3, <1>5, FindableNone, ImageIs DEF BaseInv, Plain
  <2>7. Disk(db, maybe, journal, hotOnDisk) /\ Sync(db, maybe)
    BY <1>1, <2>1 DEF DiskInv, Plain, Synced
  <2>8. journal' \in Journals \cup {None}
    BY <1>3
  <2>2. /\ Disk(db, maybe, journal', hotOnDisk \cup {None}) /\ Img(db, journal') = db
        /\ Poss(maybe, hotOnDisk \cup {None}) = Poss(maybe, hotOnDisk) \cup {db}
    <3>1. \A jn \in Journals \cup {None} : Findable(jn) = None =>
            /\ Disk(db, maybe, jn, hotOnDisk \cup {None}) /\ Img(db, jn) = db
            /\ Poss(maybe, hotOnDisk \cup {None}) = Poss(maybe, hotOnDisk) \cup {db}
      BY <2>1, <2>7, JournalGone
    <3> QED
      BY <2>1, <2>8, <3>1
  <2>3. DiskInv'
    BY <1>1, <1>2, <1>5, <2>2 DEF DiskInv
  <2>4. Image' = Image
    BY <1>1, <2>1, <2>2 DEF Image, Img, Plain
  <2>5. Possible' = Poss(maybe', hotOnDisk') /\ Possible = Poss(maybe, hotOnDisk)
    BY DEF Possible, Poss, Outcomes, Outs
  <2>6. Possible' = Possible
    BY <1>1, <1>2, <1>5, <2>1, <2>2, <2>5, ImageIs DEF Plain
  <2> QED
    BY <1>2, <1>3, <1>4, <1>5, <2>3, <2>4, <2>6
<1>6. CASE state[i] # "locked"
  <2>1. Base(i) = journal /\ hotOnDisk' = hotOnDisk /\ Findable(journal') = Findable(journal)
    BY <1>2, <1>3, <1>6 DEF Base
  <2>2. Image' = Image
    BY <1>1, <2>1 DEF Image
  <2>3. Img(db, journal') = Img(db, journal)
    BY <2>1 DEF Img
  <2>4. DiskInv'
    BY <1>1, <1>3, <2>1, <2>3 DEF DiskInv, Disk, Shape
  <2>5. Guarded' = Guarded /\ Possible' = Possible
    BY <1>1, <2>1, <2>2 DEF Guarded, Possible, Outcomes
  <2> QED
    BY <1>2, <1>3, <1>4, <1>6, <2>1, <2>2, <2>4, <2>5
<1> QED
  BY <1>5, <1>6

\* What the connection knows after a write is as it should be.
LEMMA PagerWriteMemory ==
  ASSUME JInv, NEW i \in Procs, NEW p \in Pages, NEW content \in Content(p),
         PagerWrite(i, p, content), UNCHANGED <<lock, file, spill, orig, vers, todo>>,
         pc[i] = "idle", state[i] \in {"locked", "cachemod", "dbmod"},
         IF p > size[i] THEN p = size[i] + 1 ELSE cache[i][p] # None,
         \/ /\ UNCHANGED <<pc, counted>>
            /\ p = 1 => content = Counter(cache[i])
         \/ /\ p = 1 /\ content = vers[i] + 1
            /\ pc' \in [Procs -> Calls] /\ pc'[i] \in {"excl", "header"}
            /\ \A j \in Procs \ {i} : pc'[j] = pc[j]
            /\ counted' = Set(counted, i, TRUE)
  PROVE  OnDisk(i) /\ Image' = Image /\ Possible' = Possible
<1> DEFINE b == Base(i)
           R == Recorded(b) \ needSync[i]
<1>1. Types /\ Local(i) /\ MemoryTypes /\ Memory(i)
  BY DEF JInv, IInv
<1>2. BaseInv(i, b) /\ (state[i] # "locked" => Draft(i))
  BY BaseHolds
<1>3. /\ DiskInv' /\ Image' = Image /\ Possible' = Possible
      /\ Synced' = Synced /\ (Guarded /\ state[i] # "locked" => Guarded')
      /\ journal' = WithRecord(b, i, p) /\ Findable(journal') = Findable(b)
      /\ state[i] # "locked" => hotOnDisk' = hotOnDisk
  BY <1>2, PagerWriteDisk
<1>4. cache[i] \in Images /\ b \in Journals /\ b.size = orig[i] /\ 1 \in Pages
      /\ orig[i] \in 0..LastPage /\ size[i] \in 0..LastPage /\ vers[i] \in Nat
  BY <1>1, <1>2, PagerAssumption DEF BaseInv, MemoryTypes, Pages, Counters
<1>5. /\ journal' \in Journals /\ journal'.size = orig[i] /\ journal'.hot = b.hot
      /\ journal'.counted = b.counted
      /\ \A q \in Pages \ {p} : journal'.recs[q] = b.recs[q]
      /\ journal'.recs[p] = IF p <= orig[i] /\ b.recs[p] = None THEN cache[i][p] ELSE b.recs[p]
  BY <1>3, <1>4, WithRecordIs
<1>6. content # None
  BY PagerAssumption DEF Content, Counters
<1>7. /\ cache' \in [Procs -> Images]
      /\ cache'[i][p] = content /\ \A q \in Pages \ {p} : cache'[i][q] = cache[i][q]
      /\ \A j \in Procs \ {i} : cache'[j] = cache[j]
  <2>1. cache' = Put(cache, i, p, content) /\ cache \in [Procs -> Images]
    BY <1>1 DEF PagerWrite, Put, MemoryTypes
  <2> QED
    BY <2>1, PageSet
<1>8. /\ dirty'[i] = dirty[i] \cup {p} /\ \A j \in Procs \ {i} : dirty'[j] = dirty[j]
      /\ needSync' \in [Procs -> SUBSET Pages]
      /\ needSync'[i] = IF Unsynced(b, i, p) THEN needSync[i] \cup {p} ELSE needSync[i]
      /\ \A j \in Procs \ {i} : needSync'[j] = needSync[j]
  BY <1>1 DEF PagerWrite, Set, Types, MemoryTypes, Base
<1>9. /\ size' \in [Procs -> 0..LastPage] /\ size'[i] = (IF p > size[i] THEN p ELSE size[i])
      /\ \A j \in Procs \ {i} : size'[j] = size[j]
  BY <1>1 DEF PagerWrite, Set, MemoryTypes, Pages
<1>10. /\ state'[i] = IF state[i] = "locked" THEN "cachemod" ELSE state[i]
       /\ \A j \in Procs \ {i} : state'[j] = state[j]
  BY <1>1 DEF PagerWrite, Set, Types
<1>11. /\ counted' \in [Procs -> BOOLEAN] /\ \A j \in Procs \ {i} : counted'[j] = counted[j]
       /\ counted'[i] = counted[i] \/ (counted'[i] = TRUE /\ p = 1 /\ content = vers[i] + 1)
       /\ \A j \in Procs \ {i} : pc'[j] = pc[j]
       /\ pc'[i] \in {"idle", "excl", "header"} /\ (pc'[i] # "idle" => counted'[i] = TRUE)
  BY <1>1 DEF Set, MemoryTypes
<1> HIDE DEF b
<1>12. MemoryTypes'
  <2>1. needSync[i] \subseteq dirty[i] /\ dirty[i] \subseteq {q \in Pages : cache[i][q] # None}
    BY <1>1 DEF MemoryTypes
  <2>2. needSync'[i] \subseteq dirty'[i] /\ dirty'[i] \subseteq {q \in Pages : cache'[i][q] # None}
    BY <1>6, <1>7, <1>8, <2>1
  <2>3. \A j \in Procs : /\ dirty'[j] \subseteq {q \in Pages : cache'[j][q] # None}
                         /\ needSync'[j] \subseteq dirty'[j]
    BY <1>1, <1>7, <1>8, <2>2 DEF MemoryTypes
  <2> QED
    BY <1>1, <1>7, <1>8, <1>9, <1>11, <2>3 DEF MemoryTypes
<1>13. \A j \in Procs \ {i} : Same(j)
  BY <1>7, <1>8, <1>9, <1>10, <1>11 DEF Same
<1>14. lock[i] \in Preparing
  BY <1>1 DEF Local, Closed, Starting, Reader, Locked, CacheMod, DbMod, Preparing
<1>15. p <= orig[i] /\ b.recs[p] = None =>
         /\ p \notin dirty[i] /\ p <= size[i] /\ cache[i][p] # None /\ cache[i][p] = db[p]
         /\ db[p] = Image[p] /\ Unsynced(b, i, p)
  <2> SUFFICES ASSUME p <= orig[i], b.recs[p] = None
               PROVE  /\ p \notin dirty[i] /\ p <= size[i] /\ cache[i][p] # None
                      /\ cache[i][p] = db[p] /\ db[p] = Image[p] /\ Unsynced(b, i, p)
    OBVIOUS
  <2>1. p \notin dirty[i] /\ p <= size[i]
    BY <1>2, <1>4 DEF BaseInv, Pages
  <2>2. cache[i][p] # None
    BY <1>4, <2>1 DEF Pages
  <2>3. cache[i][p] = db[p] /\ db[p] = Image[p]
    BY <1>2, <2>1, <2>2 DEF BaseInv, Recorded
  <2> QED
    BY <2>1, <2>2, <2>3 DEF Unsynced
<1>16. \A q \in Recorded(journal') : q <= orig[i] /\ journal'.recs[q] = Image[q]
  <2> SUFFICES ASSUME NEW q \in Pages, journal'.recs[q] # None
               PROVE  q <= orig[i] /\ journal'.recs[q] = Image[q]
    BY DEF Recorded
  <2>1. CASE q # p \/ ~(p <= orig[i] /\ b.recs[p] = None)
    <3>1. journal'.recs[q] = b.recs[q] /\ q \in Recorded(b)
      BY <1>5, <2>1 DEF Recorded
    <3> QED
      BY <1>2, <3>1 DEF BaseInv
  <2>2. CASE q = p /\ p <= orig[i] /\ b.recs[p] = None
    BY <1>5, <1>15, <2>2
  <2> QED
    BY <2>1, <2>2
<1>17. Recorded(journal') \ needSync'[i] = R
  <2>1. CASE p <= orig[i] /\ b.recs[p] = None
    BY <1>5, <1>8, <1>15, <2>1 DEF Recorded
  <2>2. CASE ~(p <= orig[i] /\ b.recs[p] = None)
    <3>1. Recorded(journal') = Recorded(b)
      BY <1>5, <2>2 DEF Recorded
    <3>2. p \in Recorded(b) => ~Unsynced(b, i, p)
      BY DEF Unsynced, Recorded
    <3> QED
      BY <1>8, <3>1, <3>2
  <2> QED
    BY <2>1, <2>2
<1>18. \A q \in dirty'[i] : q <= size'[i] /\ (q <= orig[i] => journal'.recs[q] # None)
  <2> SUFFICES ASSUME NEW q \in dirty'[i]
               PROVE  q <= size'[i] /\ (q <= orig[i] => journal'.recs[q] # None)
    OBVIOUS
  <2>1. CASE q = p
    <3>1. p <= size'[i]
      BY <1>4, <1>9 DEF Pages
    <3>2. p <= orig[i] => journal'.recs[p] # None
      BY <1>5, <1>15
    <3> QED
      BY <2>1, <3>1, <3>2
  <2>2. CASE q # p /\ q \in dirty[i]
    <3>1. q \in Pages /\ q <= size[i] /\ (q <= orig[i] => b.recs[q] # None)
      BY <1>1, <1>2, <2>2 DEF BaseInv, MemoryTypes
    <3> QED
      BY <1>4, <1>5, <1>9, <2>2, <3>1 DEF Pages
  <2> QED
    BY <1>8, <2>1, <2>2
<1>19. \A q \in Pages : q > size'[i] => cache'[i][q] = None /\ db[q] = None
  <2>1. \A q \in Pages : q > size'[i] => q # p /\ q > size[i]
    BY <1>4, <1>9 DEF Pages
  <2> QED
    BY <1>2, <1>7, <2>1 DEF BaseInv
<1>20. \A q \in Pages : q <= size'[i] /\ q \notin dirty'[i] =>
         db[q] # None /\ cache'[i][q] \in {None, db[q]}
  <2>1. \A q \in Pages : q <= size'[i] /\ q \notin dirty'[i] =>
          q # p /\ q <= size[i] /\ q \notin dirty[i]
    BY <1>4, <1>8, <1>9 DEF Pages
  <2> QED
    BY <1>2, <1>7, <2>1 DEF BaseInv
<1>21. cache'[i][1] # None
  <2>1. p # 1 => size[i] # 0
    BY <1>4 DEF Pages
  <2> QED
    BY <1>2, <1>4, <1>6, <1>7, <2>1 DEF BaseInv
<1>22. orig[i] <= size'[i]
  BY <1>2, <1>4, <1>9 DEF BaseInv, Pages
<1>23. Count(i)'
  <2>1. counted'[i] => cache'[i][1] = vers[i] + 1 /\ 1 \in dirty'[i]
    <3>1. CASE counted'[i] = TRUE /\ p = 1 /\ content = vers[i] + 1
      BY <1>7, <1>8, <3>1
    <3>2. CASE UNCHANGED <<pc, counted>> /\ (p = 1 => content = Counter(cache[i]))
      <4>1. counted[i] => cache[i][1] = vers[i] + 1 /\ 1 \in dirty[i]
        BY <1>2 DEF BaseInv
      <4>2. cache[i][1] # None => Counter(cache[i]) = cache[i][1]
        BY DEF Counter
      <4>3. vers[i] + 1 # None
        BY <1>4, PagerAssumption
      <4> QED
        BY <1>4, <1>7, <1>8, <3>2, <4>1, <4>2, <4>3
    <3> QED
      BY <1>11, <3>1, <3>2
  <2>2. vers[i] <= MaxVersion /\ vers[i] >= Counter(Image) /\ (orig[i] > 0 => vers[i] = Counter(Image))
    BY <1>2 DEF BaseInv
  <2> QED
    BY <1>3, <1>11, <2>1, <2>2 DEF Count
<1>24. state'[i] \in {"cachemod", "dbmod"} /\ Writing(i)' /\ Reading(i)' /\ InDraft(i)'
  <2>1. state'[i] \in {"cachemod", "dbmod"}
    BY <1>10
  <2> QED
    BY <1>11, <2>1, RankOf DEF Writing, Reading, InDraft, Own
<1>25. state'[i] = "cachemod" => Plain' /\ ~journal'.hot
  <2>1. state'[i] = "cachemod" => Plain /\ ~b.hot
    BY <1>2, <1>10 DEF BaseInv
  <2> QED
    BY <1>3, <1>5, <2>1 DEF Plain, file
<1>26. state'[i] = "dbmod" =>
         /\ journal'.hot /\ Guarded'
         /\ \A j \in hotOnDisk' : j.size = orig[i] /\ R \subseteq Recorded(j)
         /\ hotOnDisk' = {Findable(journal')}
  <2> SUFFICES ASSUME state'[i] = "dbmod"
               PROVE  /\ journal'.hot /\ Guarded'
                      /\ \A j \in hotOnDisk' : j.size = orig[i] /\ R \subseteq Recorded(j)
                      /\ hotOnDisk' = {Findable(journal')}
    OBVIOUS
  <2>1. state[i] = "dbmod" /\ b = journal
    BY <1>10 DEF b, Base
  <2>2. /\ journal.hot /\ Guarded
        /\ \A j \in hotOnDisk : j.size = orig[i] /\ R \subseteq Recorded(j)
        /\ hotOnDisk = {Findable(journal)}
    BY <1>2, <2>1 DEF Draft
  <2> QED
    BY <1>3, <1>5, <2>1, <2>2
<1>27. /\ Full(Image', orig[i]) /\ db \in Images
       /\ \A q \in Pages : q <= orig[i] /\ q \notin R => db[q] = Image[q]
       /\ R \subseteq journal'.counted
  BY <1>2, <1>3, <1>5 DEF BaseInv
<1>28. spill'[i] = None /\ orig' = orig /\ db' = db
  BY <1>2 DEF BaseInv, file
<1> HIDE DEF R
<1>29. Draft(i)'
  <2>1. pc'[i] \notin {"sync", "write", "finish"}
    BY <1>11
  <2>2. /\ journal' \in Journals /\ journal'.size = orig'[i]
        /\ Full(Image', orig'[i]) /\ orig'[i] <= size'[i] /\ db' \in Images
        /\ spill'[i] = None /\ cache'[i][1] # None /\ Count(i)'
    BY <1>3, <1>5, <1>21, <1>22, <1>23, <1>27, <1>28
  <2>3. \A q \in Recorded(journal') : q <= orig'[i] /\ journal'.recs[q] = Image'[q]
    BY <1>3, <1>16, <1>28
  <2>4. \A q \in dirty'[i] : q <= size'[i] /\ (q <= orig'[i] => journal'.recs[q] # None)
    BY <1>18, <1>28
  <2>5. /\ \A q \in Pages : q > size'[i] => cache'[i][q] = None /\ db'[q] = None
        /\ \A q \in Pages : q <= size'[i] /\ q \notin dirty'[i] =>
             db'[q] # None /\ cache'[i][q] \in {None, db'[q]}
    BY <1>19, <1>20, <1>28
  <2>6. /\ Recorded(journal') \ needSync'[i] \subseteq journal'.counted
        /\ \A q \in Pages : q <= orig'[i] /\ q \notin Recorded(journal') \ needSync'[i] =>
             db'[q] = Image'[q]
    <3>1. db' = db /\ Image' = Image /\ orig' = orig
      BY <1>3, <1>28
    <3>2. R \subseteq journal'.counted
          /\ \A q \in Pages : q <= orig'[i] /\ q \notin R => db'[q] = Image'[q]
      BY <1>27, <3>1
    <3> QED
      BY <1>17, <3>2
  <2>7. state'[i] = "dbmod" =>
          /\ journal'.hot /\ Guarded'
          /\ \A j \in hotOnDisk' : /\ j.size = orig'[i]
                                   /\ Recorded(journal') \ needSync'[i] \subseteq Recorded(j)
          /\ hotOnDisk' = {Findable(journal')}
    BY <1>17, <1>26, <1>28
  <2> QED
    BY <1>25, <2>1, <2>2, <2>3, <2>4, <2>5, <2>6, <2>7 DEF Draft
<1>30. Memory(i)'
  BY <1>11, <1>24, <1>29 DEF Memory
<1> QED
  BY <1>3, <1>12, <1>13, <1>14, <1>30 DEF OnDisk

\* Writing a page, and the change counter before a commit.
LEMMA ChangeMemory ==
  ASSUME JInv, NEW i \in Procs,
         (\E p \in Pages : Write(i, p)) \/ (CommitPhaseOne(i) /\ ~counted[i])
  PROVE  OnDisk(i) /\ Image' = Image /\ Possible' = Possible
<1>1. Types /\ MemoryTypes
  BY DEF JInv, IInv
<1>2. CASE \E p \in Pages : Write(i, p)
  <2>1. PICK p \in Pages : Write(i, p)
    BY <1>2
  <2>2. PICK content \in Content(p) : (p = 1 => content = Counter(cache[i])) /\ PagerWrite(i, p, content)
    BY <2>1 DEF Write
  <2>3. state[i] \in {"locked", "cachemod", "dbmod"} /\ pc[i] = "idle"
    BY <1>1, <2>1, RankValues DEF Write, Idle, Types
  <2>4. /\ UNCHANGED <<lock, file, pc, spill, orig, vers, counted, todo>>
        /\ IF p > size[i] THEN p = size[i] + 1 ELSE cache[i][p] # None
    BY <2>1 DEF Write
  <2> QED
    BY <2>2, <2>3, <2>4, PagerWriteMemory
<1>3. CASE CommitPhaseOne(i) /\ ~counted[i]
  <2>1. state[i] \in {"cachemod", "dbmod"} /\ pc[i] = "idle" /\ Draft(i)
    <3>1. state[i] \in {"cachemod", "dbmod"} /\ pc[i] = "idle"
      BY <1>1, <1>3, RankValues DEF CommitPhaseOne, Idle, Types
    <3> QED
      BY <3>1, BaseHolds
  <2>2. /\ PagerWrite(i, 1, vers[i] + 1) /\ UNCHANGED <<lock, file, spill, orig, vers, todo>>
        /\ counted' = Set(counted, i, TRUE) /\ pc' = Set(pc, i, WriteFrom(i))
    BY <1>3 DEF CommitPhaseOne
  <2>3. 1 \in Pages /\ size[i] \in 0..LastPage /\ vers[i] \in Nat
    BY <1>1, PagerAssumption DEF Pages, MemoryTypes, Counters
  <2>4. vers[i] + 1 \in Content(1)
    BY <1>3, <2>1, <2>3, PagerAssumption DEF Draft, Count, Content, Counters
  <2>5. ~(1 > size[i]) /\ cache[i][1] # None
    BY <2>1, <2>3 DEF Draft
  <2>6. /\ pc' \in [Procs -> Calls] /\ pc'[i] \in {"excl", "header"}
        /\ \A j \in Procs \ {i} : pc'[j] = pc[j]
    BY <1>1, <2>2 DEF Set, WriteFrom, Types, Calls
  <2> QED
    BY <2>1, <2>2, <2>3, <2>4, <2>5, <2>6, PagerWriteMemory
<1> QED
  BY <1>2, <1>3

-----------------------------------------------------------------------------
(***************************************************************************)
(* Steps that write the disk.                                              *)
(***************************************************************************)
LEMMA PossibleIs == /\ Outcomes = Outs(maybe) /\ Possible = Poss(maybe, hotOnDisk)
                    /\ Image = Img(db, journal)
BY DEF Outcomes, Outs, Possible, Poss, Image, Img

\* What is read from the disk, in terms of its next state.
LEMMA PossibleAfter == Possible' = Poss(maybe', hotOnDisk') /\ Image' = Img(db', journal')
BY DEF Outcomes, Outs, Possible, Poss, Image, Img

\* Deleting the journal is the commit: the file stands for itself.
LEMMA DeletingDisk ==
  ASSUME DiskInv, DeleteJournal, Synced, Good(db)
  PROVE  DiskInv' /\ Image' = db /\ Plain' /\ Possible' = Possible \cup {db}
<1>1. /\ db' = db /\ maybe' = maybe /\ journal' = None
      /\ hotOnDisk' = hotOnDisk \cup {None}
  BY DEF DeleteJournal, file
<1>2. Findable(None) = None /\ None \in Journals \cup {None}
  BY FindableNone
<1>3. /\ Disk(db, maybe, None, hotOnDisk \cup {None}) /\ Img(db, None) = db
      /\ Poss(maybe, hotOnDisk \cup {None}) = Poss(maybe, hotOnDisk) \cup {db}
  BY <1>2, JournalGone DEF DiskInv, Synced
<1>4. DiskInv' /\ Image' = db
  BY <1>1, <1>3, PossibleIs DEF DiskInv, Image, Img
<1>5. Possible' = Poss(maybe', hotOnDisk')
  BY DEF Possible, Poss, Outcomes, Outs
<1> QED
  BY <1>1, <1>3, <1>4, <1>5, PossibleIs DEF Plain, Synced

\* What program i knows stays as it is while it writes the disk.
LEMMA KeptMemory ==
  ASSUME JInv, NEW i \in Procs, UNCHANGED <<lock, state, spill>>, UNCHANGED memory,
         pc' \in [Procs -> Calls], \A j \in Procs \ {i} : pc'[j] = pc[j]
  PROVE  MemoryTypes' /\ \A j \in Procs \ {i} : Same(j)
<1>1. MemoryTypes
  BY DEF JInv
<1> QED
  BY <1>1 DEF MemoryTypes, memory, pages, Same

\* The journal is deleted after a playback, or as a remnant if it can be.
LEMMA DeleteMemory ==
  ASSUME JInv, NEW i \in Procs, DropJournal(i) \/ Delete(i)
  PROVE  OnDisk(i) /\ Saying
<1>1. Types /\ Local(i) /\ MemoryTypes /\ Memory(i) /\ DiskInv
  BY DEF JInv, IInv
<1>2. /\ DeleteJournal \/ UNCHANGED disk
      /\ UNCHANGED <<lock, state, spill>> /\ UNCHANGED memory /\ UNCHANGED file
      /\ pc' = Set(pc, i, "unlock") /\ pc[i] \in {"dropped", "delete"}
  BY DEF DropJournal, Delete, DeleteJournal, Call, disk
<1>3. /\ pc' \in [Procs -> Calls] /\ pc'[i] = "unlock" /\ \A j \in Procs \ {i} : pc'[j] = pc[j]
  BY <1>1, <1>2 DEF Types, Set, Calls
<1>4. state[i] \in {"open", "cachemod", "dbmod"} /\ lock[i] \in Preparing /\ ~InDraft(i)
  BY <1>1, <1>2 DEF Local, Closed, Starting, Reader, Locked, CacheMod, DbMod, Preparing, Looking,
     Replaying, Flushing, InDraft, Own
<1>5. Plain /\ Good(db)
  BY <1>1, <1>2, ImageIs DEF Memory, Plain
<1>6. DiskInv' /\ Image' = Image /\ Plain' /\ Possible' = Possible
  <2>1. CASE DeleteJournal
    BY <1>1, <1>5, <2>1, DeletingDisk, ImageIs DEF Plain
  <2>2. CASE UNCHANGED disk
    BY <1>1, <1>2, <1>5, <2>2, DiskStays DEF Plain, file
  <2> QED
    BY <1>2, <2>1, <2>2
<1>7. MemoryTypes' /\ \A j \in Procs \ {i} : Same(j)
  BY <1>2, <1>3, KeptMemory
<1>8. /\ Writing(i)' = Writing(i) /\ Reading(i)' = Reading(i) /\ ~InDraft(i)'
      /\ Old(i)' = Old(i) /\ Fresh(i)' = Fresh(i) /\ Full(Image, size[i])' = Full(Image, size[i])
  BY <1>2, <1>3, <1>6 DEF Writing, Reading, InDraft, Own, Old, Fresh, Full, memory, pages
<1>9. Memory(i)'
  BY <1>1, <1>2, <1>3, <1>4, <1>6, <1>8 DEF Memory, memory, pages
<1> QED
  BY <1>2, <1>4, <1>6, <1>7, <1>9 DEF OnDisk, Saying

\* A hot journal was found, and is played back or deleted.
LEMMA FoundMemory ==
  ASSUME JInv, NEW i \in Procs, Found(i)
  PROVE  OnDisk(i) /\ Saying
<1>1. Types /\ Local(i) /\ MemoryTypes /\ Memory(i) /\ DiskInv
  BY DEF JInv, IInv
<1>2. /\ UNCHANGED <<lock, file, journal, size, orig, cache, dirty, needSync, vers, counted>>
      /\ UNCHANGED <<state, spill>> /\ pc[i] = "found"
  BY DEF Found, Call, pages
<1>3. state[i] = "open" /\ lock[i] = "exclusive" /\ ~Writing(i) /\ ~Reading(i) /\ ~InDraft(i)
  BY <1>1, <1>2, RankValues DEF Types, Local, Closed, Starting, Reader, Locked, CacheMod, DbMod,
     Looking, Replaying, Flushing, InDraft
<1>4. ~Empty(db) /\ Old(i) /\ spill[i] = None /\ counted[i] = FALSE
  BY <1>1, <1>2, <1>3 DEF Memory
<1>5. db' = db /\ maybe' = maybe /\ Image' = Image /\ Old(i)' = Old(i)
      /\ ~Writing(i)' /\ ~Reading(i)' /\ ~InDraft(i)'
  BY <1>2, <1>3 DEF file, Image, Old, Writing, Reading, InDraft
<1>6. CASE journal = None
  <2>1. hotOnDisk' = hotOnDisk /\ todo' = todo /\ pc' = Set(pc, i, "unlock")
    BY <1>6 DEF Found, Call
  <2>2. UNCHANGED disk /\ UNCHANGED memory
    BY <1>2, <2>1 DEF disk, memory, pages
  <2>3. pc' \in [Procs -> Calls] /\ pc'[i] = "unlock" /\ \A j \in Procs \ {i} : pc'[j] = pc[j]
    BY <1>1, <2>1 DEF Types, Set, Calls
  <2>4. MemoryTypes' /\ \A j \in Procs \ {i} : Same(j)
    BY <1>2, <2>2, <2>3, KeptMemory
  <2>5. DiskInv' /\ Plain' /\ Possible' = Possible
    BY <1>1, <1>6, <2>2, ImageIs, FindableNone, DiskStays DEF Plain, disk, file
  <2>6. Memory(i)'
    BY <1>2, <1>3, <1>4, <1>5, <2>3, <2>5 DEF Memory
  <2> QED
    BY <1>3, <1>5, <2>4, <2>5, <2>6 DEF OnDisk, Saying, Preparing
<1>7. CASE journal # None
  <2>1. /\ journal \in Journals /\ hotOnDisk' = {Findable(journal)}
        /\ pc' = Set(pc, i, IF journal.hot THEN "truncate" ELSE "resync")
        /\ todo' = Set(todo, i, journal.counted)
    BY <1>1, <1>7 DEF Found, Call, DiskInv, Disk, Shape
  <2>2. /\ pc'[i] = (IF journal.hot THEN "truncate" ELSE "resync")
        /\ \A j \in Procs \ {i} : pc'[j] = pc[j]
    BY <1>1, <2>1 DEF Types, Set
  <2>3. todo' \in [Procs -> SUBSET Pages] /\ todo'[i] = journal.counted
        /\ \A j \in Procs \ {i} : todo'[j] = todo[j]
    BY <1>1, <2>1, JournalType DEF MemoryTypes, Set
  <2>4. MemoryTypes'
    BY <1>1, <1>2, <2>3 DEF MemoryTypes
  <2>5. \A j \in Procs \ {i} : Same(j)
    BY <1>2, <2>2, <2>3 DEF Same
  <2>6. /\ Disk(db, maybe, journal, {Findable(journal)})
        /\ Poss(maybe, {Findable(journal)}) \subseteq Poss(maybe, hotOnDisk)
    BY <1>1, JournalSynced DEF DiskInv
  <2>7. DiskInv' /\ Possible' \subseteq Possible
    BY <1>2, <1>5, <2>1, <2>6, PossibleIs DEF DiskInv, Possible, Outcomes, Poss, Outs
  <2>8. CASE journal.hot
    <3>1. Guarded'
      BY <1>1, <1>2, <1>4, <1>5, <2>1, <2>8, FoundGuards, PossibleIs DEF DiskInv, Guarded
    <3>2. /\ Findable(journal) \in Journals /\ Findable(journal).size = journal.size
          /\ Recorded(Findable(journal)) = journal.counted
          /\ \A p \in journal.counted : Findable(journal).recs[p] = journal.recs[p]
          /\ \A p \in Pages \ journal.counted : Findable(journal).recs[p] = None
      BY <2>1, <2>8, FindableIs
    <3>3. Image = [p \in Pages |-> IF p > journal.size THEN None
                     ELSE IF Findable(journal).recs[p] # None THEN Findable(journal).recs[p]
                     ELSE db[p]]
      BY <1>4, <3>2, RecoveredFull DEF Image
    <3>4. \A p \in journal.counted : p \in Pages /\ ~(p > journal.size) /\ journal.recs[p] # None
      BY <2>1, JournalType DEF Recorded
    <3>5. \A p \in journal.counted : journal.recs[p] = Image[p]
      BY <3>2, <3>3, <3>4
    <3>6. \A p \in Pages : p <= journal.size /\ p \notin journal.counted => db[p] = Image[p]
      <4>1. journal.size \in Nat
        BY <2>1, JournalType
      <4> QED
        BY <3>2, <3>3, <4>1 DEF Pages
    <3>7. Playback(i)'
      BY <1>2, <1>5, <2>1, <2>2, <2>3, <2>8, <3>1, <3>2, <3>5, <3>6, JournalType DEF Playback
    <3>8. Memory(i)'
      BY <1>2, <1>3, <1>4, <1>5, <2>2, <2>8, <3>7 DEF Memory
    <3> QED
      BY <1>2, <1>3, <1>5, <2>4, <2>5, <2>7, <3>8 DEF OnDisk, Saying, Preparing
  <2>9. CASE ~journal.hot
    <3>1. db' = Image'
      BY <1>1, <1>5, <2>9, ImageIs, FindableNone
    <3>2. Memory(i)'
      BY <1>2, <1>3, <1>4, <1>5, <2>2, <2>9, <3>1 DEF Memory
    <3> QED
      BY <1>2, <1>3, <1>5, <2>4, <2>5, <2>7, <3>2 DEF OnDisk, Saying, Preparing
  <2> QED
    BY <2>8, <2>9
<1> QED
  BY <1>6, <1>7

\* A playback: who does it, and what stays.
LEMMA PlaybackPlace ==
  ASSUME JInv, NEW i \in Procs, pc[i] \in {"truncate", "replay", "resync"}
  PROVE  /\ state[i] \in {"open", "dbmod"} /\ lock[i] = "exclusive" /\ ~InDraft(i)
         /\ dirty[i] = {} /\ spill[i] = None
         /\ state[i] = "open" => ~Writing(i) /\ ~Reading(i) /\ Old(i) /\ counted[i] = FALSE
         /\ state[i] = "dbmod" => /\ Writing(i) /\ Reading(i)
                                  /\ Full(Image, size[i]) /\ Fresh(i)
                                  /\ journal \in Journals /\ journal.size = orig[i] /\ journal.hot
<1>1. Types /\ Local(i) /\ Memory(i)
  BY DEF JInv, IInv
<1>2. state[i] \in {"open", "dbmod"} /\ lock[i] = "exclusive" /\ ~InDraft(i) /\ dirty[i] = {}
  BY <1>1 DEF Local, Closed, Starting, Reader, Locked, CacheMod, DbMod, Clean, Looking, Replaying,
     Flushing, InDraft, Own
<1> QED
  BY <1>1, <1>2, RankOf DEF Memory, Writing, Reading

\* And what is left of it to show when the file is written.
LEMMA PlaybackMemory ==
  ASSUME JInv, NEW i \in Procs, pc[i] \in {"truncate", "replay", "resync"},
         UNCHANGED <<lock, state, spill, journal, size, orig, vers, counted>>,
         pc'[i] \in {"replay", "resync", "delete"}, Image' = Image,
         state[i] = "open" => Old(i)',
         state[i] = "dbmod" => cache' = cache,
         pc'[i] = "replay" => Playback(i)',
         pc'[i] = "resync" => db' = Image,
         pc'[i] = "delete" => Plain'
  PROVE  Memory(i)'
<1>1. /\ state[i] \in {"open", "dbmod"} /\ ~InDraft(i) /\ spill[i] = None
      /\ state[i] = "open" => ~Writing(i) /\ ~Reading(i) /\ counted[i] = FALSE
      /\ state[i] = "dbmod" => /\ Writing(i) /\ Reading(i)
                               /\ Full(Image, size[i]) /\ Fresh(i)
                               /\ journal \in Journals /\ journal.size = orig[i] /\ journal.hot
  BY PlaybackPlace
<1>2. Writing(i)' = Writing(i) /\ Reading(i)' = Reading(i) /\ ~InDraft(i)'
  BY DEF Writing, Reading, InDraft, Own
<1>3. state[i] = "dbmod" => Fresh(i)' /\ Full(Image, size[i])'
  BY <1>1 DEF Fresh, Full
<1> QED
  BY <1>1, <1>2, <1>3 DEF Memory

\* The file gets the size the journal says, before its pages.
LEMMA TruncateMemory ==
  ASSUME JInv, NEW i \in Procs, Truncate(i)
  PROVE  OnDisk(i) /\ Saying
<1>1. Types /\ MemoryTypes /\ DiskInv /\ Playback(i) /\ pc[i] = "truncate" /\ Good(Image)
  BY ImageIs DEF JInv, IInv, Truncate, Memory
<1>2. /\ state[i] \in {"open", "dbmod"} /\ lock[i] = "exclusive" /\ dirty[i] = {}
      /\ state[i] = "open" => Old(i)
  BY <1>1, PlaybackPlace
<1>3. /\ UNCHANGED <<lock, state, spill, journal, hotOnDisk, size, orig, dirty, needSync>>
      /\ UNCHANGED <<vers, counted, todo>>
      /\ pc' = Set(pc, i, IF todo[i] = {} THEN "resync" ELSE "replay")
      /\ cache' = IF state[i] = "open" /\ todo[i] # {} THEN Set(cache, i, NoPages) ELSE cache
  BY DEF Truncate, Call
<1>4. /\ journal \in Journals /\ journal.size \in 0..LastPage /\ Guarded
      /\ \A j \in hotOnDisk : j.size = journal.size
      /\ db \in [Pages -> Bytes] /\ maybe \in [Pages -> SUBSET Bytes]
  BY <1>1, JournalType DEF Playback, DiskInv, Disk, Shape
<1>5. None \in Bytes
  BY DEF Bytes
<1>6. /\ db' = [p \in Pages |-> IF p > journal.size THEN None ELSE db[p]]
      /\ maybe' = [p \in Pages |-> IF p > journal.size THEN {None} ELSE maybe[p]]
  BY DEF Truncate
<1>7. /\ db' \in [Pages -> Bytes] /\ maybe' \in [Pages -> SUBSET Bytes]
      /\ \A p \in Pages : /\ db'[p] = IF p > journal.size THEN None ELSE db[p]
                          /\ maybe'[p] = IF p > journal.size THEN {None} ELSE maybe[p]
  BY <1>4, <1>5, <1>6
<1>8. Disk(db, maybe, journal, hotOnDisk) /\ Guard(hotOnDisk, maybe, Image) /\ Image = Img(db, journal)
  BY <1>1, <1>4, PossibleIs DEF DiskInv, Guarded
<1>9. /\ Disk(db', maybe', journal, hotOnDisk) /\ Img(db', journal) = Image
      /\ Guard(hotOnDisk, maybe', Image) /\ Poss(maybe', hotOnDisk) = Poss(maybe, hotOnDisk)
  <2> DEFINE dn == db'
             mn == maybe'
             n == journal.size
  <2>1. /\ n \in 0..LastPage /\ OfSize(hotOnDisk, n)
        /\ dn \in [Pages -> Bytes] /\ mn \in [Pages -> SUBSET Bytes]
    BY <1>4, <1>7 DEF OfSize
  <2>2. Cut(db, n, None, dn) /\ Cut(maybe, n, {None}, mn)
    BY <1>7 DEF Cut
  <2> HIDE DEF dn, mn, n
  <2>4. /\ Disk(dn, mn, journal, hotOnDisk) /\ Img(dn, journal) = Image
        /\ Guard(hotOnDisk, mn, Image) /\ Poss(mn, hotOnDisk) = Poss(maybe, hotOnDisk)
    BY <1>8, <2>1, <2>2, FileTruncated
  <2> QED
    BY <2>4 DEF dn, mn
<1>10. DiskInv' /\ Image' = Image /\ Guarded' /\ Possible' = Possible
  BY <1>3, <1>9, PossibleIs, PossibleAfter DEF DiskInv, Guarded
<1>11. /\ pc'[i] = (IF todo[i] = {} THEN "resync" ELSE "replay")
       /\ \A j \in Procs \ {i} : pc'[j] = pc[j] /\ cache'[j] = cache[j]
       /\ cache' = cache \/ (state[i] = "open" /\ cache'[i] = NoPages)
       /\ cache' \in [Procs -> Images]
  <2>1. NoPages \in Images
    BY DEF NoPages, Images
  <2> QED
    BY <1>1, <1>3, <2>1 DEF Types, MemoryTypes, Set
<1>12. MemoryTypes'
  <2>1. \A j \in Procs : dirty[j] \subseteq {p \in Pages : cache'[j][p] # None}
    BY <1>1, <1>2, <1>11 DEF MemoryTypes
  <2> QED
    BY <1>1, <1>3, <1>11, <2>1 DEF MemoryTypes
<1>13. \A j \in Procs \ {i} : Same(j)
  BY <1>3, <1>11 DEF Same
<1>14. state[i] = "open" => Old(i)'
  BY <1>2, <1>3, <1>10, <1>11 DEF Old, NoPages
<1>15. Findable(journal) \in hotOnDisk /\ \A p \in Pages : p > journal.size => Image[p] = None
  <2>1. Findable(journal) \in hotOnDisk
    BY <1>1 DEF DiskInv, Disk, Shape
  <2> QED
    BY <1>4, <2>1 DEF Guarded, Guard, Restores
<1>16. \A p \in Pages : ~(p > journal.size) => p <= journal.size
  BY <1>4 DEF Pages
<1>17. pc'[i] = "resync" => db' = Image
  <2> SUFFICES ASSUME todo[i] = {} PROVE db' = Image
    BY <1>11
  <2>1. \A p \in Pages : db'[p] = Image[p]
    BY <1>1, <1>7, <1>15, <1>16 DEF Playback
  <2> QED
    BY <1>1, <1>7, <2>1 DEF Good, Images
<1>18. pc'[i] = "replay" => Playback(i)'
  <2>1. \A p \in Pages : p <= journal.size /\ p \notin todo[i] => db'[p] = Image[p]
    BY <1>1, <1>4, <1>7 DEF Playback, Pages
  <2> QED
    BY <1>1, <1>3, <1>7, <1>10, <2>1 DEF Playback
<1>19. Memory(i)'
  BY <1>1, <1>3, <1>10, <1>11, <1>14, <1>17, <1>18, PlaybackMemory
<1> QED
  BY <1>2, <1>10, <1>12, <1>13, <1>19 DEF OnDisk, Saying, Preparing

\* One page written that the journals have a record of.
LEMMA StoreDisk ==
  ASSUME DiskInv, Guarded, NEW p \in Pages, NEW c \in Bytes \ {None}, Store(p, c),
         UNCHANGED <<journal, hotOnDisk>>, Covered(hotOnDisk, p), Empty(Image) => OfSize(hotOnDisk, 0)
  PROVE  /\ DiskInv' /\ Image' = Image /\ Guarded' /\ Possible' = Possible
         /\ db' \in [Pages -> Bytes] /\ db'[p] = c /\ \A q \in Pages \ {p} : db'[q] = db[q]
<1>1. /\ Disk(db, maybe, journal, hotOnDisk) /\ Guard(hotOnDisk, maybe, Image)
      /\ Image = Img(db, journal)
      /\ db \in [Pages -> Bytes] /\ maybe \in [Pages -> SUBSET Bytes] /\ Torn \in Bytes
  BY PossibleIs DEF DiskInv, Guarded, Disk, Shape, Bytes
<1> DEFINE dn == db'
           mn == maybe'
           r == maybe[p] \cup {c, Torn}
<1>2. r \in SUBSET Bytes /\ c \in Bytes
  BY <1>1
<1>3. dn = [db EXCEPT ![p] = c] /\ mn = [maybe EXCEPT ![p] = r]
  BY DEF Store
<1>4. dn \in [Pages -> Bytes] /\ Written(db, p, c, dn)
  BY <1>1, <1>2, <1>3 DEF Written
<1>5. mn \in [Pages -> SUBSET Bytes] /\ Written(maybe, p, maybe[p] \cup {c, Torn}, mn)
  <2> HIDE DEF r
  <2>1. mn \in [Pages -> SUBSET Bytes] /\ Written(maybe, p, r, mn)
    BY <1>1, <1>2, <1>3 DEF Written
  <2> QED
    BY <2>1 DEF r
<1> HIDE DEF dn, mn
<1>6. /\ Disk(dn, mn, journal, hotOnDisk) /\ Img(dn, journal) = Image
      /\ Guard(hotOnDisk, mn, Image) /\ Poss(mn, hotOnDisk) = Poss(maybe, hotOnDisk)
  BY <1>1, <1>4, <1>5, PageStored
<1>7. /\ Disk(db', maybe', journal, hotOnDisk) /\ Img(db', journal) = Image
      /\ Guard(hotOnDisk, maybe', Image) /\ Poss(maybe', hotOnDisk) = Poss(maybe, hotOnDisk)
  BY <1>6 DEF dn, mn
<1>8. DiskInv' /\ Image' = Image /\ Guarded' /\ Possible' = Possible
  BY <1>7, PossibleIs, PossibleAfter DEF DiskInv, Guarded
<1> QED
  BY <1>4, <1>8 DEF dn, Written

\* Syncing the file leaves fewer images a power loss can bring.
LEMMA SyncFileDisk ==
  ASSUME DiskInv, SyncFile, UNCHANGED <<journal, hotOnDisk>>
  PROVE  /\ DiskInv' /\ Image' = Image /\ Synced' /\ (Guarded => Guarded')
         /\ db' = db /\ Possible' \subseteq Possible
<1> DEFINE mn == maybe'
<1>1. db' = db /\ mn = [p \in Pages |-> {db[p]}]
  BY DEF SyncFile
<1>2. Disk(db, maybe, journal, hotOnDisk)
  BY DEF DiskInv
<1> HIDE DEF mn
<1>3. /\ Disk(db, mn, journal, hotOnDisk) /\ Sync(db, mn)
      /\ Poss(mn, hotOnDisk) \subseteq Poss(maybe, hotOnDisk)
      /\ Guard(hotOnDisk, maybe, Image) => Guard(hotOnDisk, mn, Image)
  BY <1>1, <1>2, FileSynced
<1>4. Image' = Image
  BY <1>1 DEF Image
<1> QED
  BY <1>1, <1>3, <1>4, PossibleIs, PossibleAfter DEF mn, DiskInv, Synced, Guarded

\* One page is played back.
LEMMA ReplayMemory ==
  ASSUME JInv, NEW i \in Procs, Replay(i)
  PROVE  OnDisk(i) /\ Saying
<1>1. Types /\ MemoryTypes /\ DiskInv /\ Playback(i) /\ pc[i] = "replay" /\ Good(Image)
  BY ImageIs DEF JInv, IInv, Replay, Memory
<1>2. /\ state[i] \in {"open", "dbmod"} /\ lock[i] = "exclusive"
      /\ state[i] = "open" => Old(i)
  BY <1>1, PlaybackPlace
<1>3. PICK p \in todo[i] : /\ Store(p, journal.recs[p])
                           /\ todo' = Set(todo, i, todo[i] \ {p})
                           /\ Call(i, IF todo[i] = {p} THEN "resync" ELSE "replay")
  BY DEF Replay
<1>4. /\ UNCHANGED <<lock, state, spill, journal, hotOnDisk, size, orig, cache, dirty, needSync>>
      /\ UNCHANGED <<vers, counted>>
      /\ pc' = Set(pc, i, IF todo[i] = {p} THEN "resync" ELSE "replay")
  BY <1>3 DEF Replay, Call, pages
<1>5. /\ p \in Pages /\ journal \in Journals /\ journal.recs \in Images
      /\ journal.recs[p] # None /\ journal.recs[p] = Image[p] /\ journal.size \in 0..LastPage
  BY <1>1, <1>3, JournalType DEF Playback, MemoryTypes, Recorded
<1>6. journal.recs[p] \in Bytes \ {None}
  BY <1>5 DEF Images, Bytes
<1>7. Covered(hotOnDisk, p) /\ ~Empty(Image) /\ Guarded
  BY <1>1, <1>3, <1>5 DEF Playback, Covered, Recorded, Empty
<1>8. /\ DiskInv' /\ Image' = Image /\ Guarded' /\ Possible' = Possible
      /\ db' \in [Pages -> Bytes] /\ db'[p] = Image[p] /\ \A q \in Pages \ {p} : db'[q] = db[q]
  BY <1>1, <1>3, <1>4, <1>5, <1>6, <1>7, StoreDisk
<1>9. /\ pc'[i] = (IF todo[i] = {p} THEN "resync" ELSE "replay")
      /\ todo'[i] = todo[i] \ {p} /\ todo' \in [Procs -> SUBSET Pages]
      /\ \A j \in Procs \ {i} : pc'[j] = pc[j] /\ todo'[j] = todo[j]
  BY <1>1, <1>3, <1>4 DEF Types, MemoryTypes, Set
<1>10. MemoryTypes'
  BY <1>1, <1>4, <1>9 DEF MemoryTypes
<1>11. \A j \in Procs \ {i} : Same(j)
  BY <1>4, <1>9 DEF Same
<1>12. state[i] = "open" => Old(i)'
  BY <1>2, <1>4, <1>8 DEF Old
<1>13. /\ \A q \in Pages : q <= journal.size /\ q \notin todo'[i] => db'[q] = Image[q]
       /\ \A q \in Pages : q > journal.size => db'[q] = None /\ q # p
  <2>1. ~(p > journal.size)
    BY <1>5, JournalType DEF Recorded
  <2> QED
    BY <1>1, <1>8, <1>9, <2>1 DEF Playback
<1>14. pc'[i] = "resync" => db' = Image
  <2> SUFFICES ASSUME todo[i] = {p} PROVE db' = Image
    BY <1>9
  <2>1. Findable(journal) \in hotOnDisk /\ \A q \in Pages : q > journal.size => Image[q] = None
    <3>1. Findable(journal) \in hotOnDisk
      BY <1>1 DEF DiskInv, Disk, Shape
    <3> QED
      BY <1>1, <3>1 DEF Playback, Guarded, Guard, Restores
  <2>2. \A q \in Pages : q <= journal.size \/ q > journal.size
    BY <1>5 DEF Pages
  <2>3. \A q \in Pages : db'[q] = Image[q]
    BY <1>9, <1>13, <2>1, <2>2
  <2> QED
    BY <1>1, <1>8, <2>3 DEF Good, Images
<1>15. pc'[i] = "replay" => Playback(i)'
  BY <1>1, <1>4, <1>8, <1>9, <1>13 DEF Playback
<1>16. Memory(i)'
  BY <1>1, <1>4, <1>8, <1>9, <1>12, <1>14, <1>15, PlaybackMemory
<1> QED
  BY <1>2, <1>8, <1>10, <1>11, <1>16 DEF OnDisk, Saying, Preparing

\* What was played back is synced.
LEMMA ResyncMemory ==
  ASSUME JInv, NEW i \in Procs, Resync(i)
  PROVE  OnDisk(i) /\ Saying
<1>1. Types /\ MemoryTypes /\ DiskInv /\ pc[i] = "resync" /\ db = Image
  BY DEF JInv, IInv, Resync, Memory
<1>2. /\ state[i] \in {"open", "dbmod"} /\ lock[i] = "exclusive"
      /\ state[i] = "open" => Old(i)
  BY <1>1, PlaybackPlace
<1>3. /\ SyncFile /\ UNCHANGED <<journal, hotOnDisk, lock, state, spill>> /\ UNCHANGED memory
      /\ pc' = Set(pc, i, "delete")
  BY DEF Resync, Call
<1>4. /\ DiskInv' /\ Image' = Image /\ Plain' /\ Possible' \subseteq Possible
  BY <1>1, <1>3, SyncFileDisk DEF Plain
<1>5. pc' \in [Procs -> Calls] /\ pc'[i] = "delete" /\ \A j \in Procs \ {i} : pc'[j] = pc[j]
  BY <1>1, <1>3 DEF Types, Set, Calls
<1>6. MemoryTypes' /\ \A j \in Procs \ {i} : Same(j)
  BY <1>3, <1>5, KeptMemory
<1>7. UNCHANGED <<size, orig, cache, vers, counted>>
  BY <1>3 DEF memory, pages
<1>8. Old(i)' = Old(i)
  BY <1>4, <1>7 DEF Old
<1>9. Memory(i)'
  BY <1>1, <1>2, <1>3, <1>4, <1>5, <1>7, <1>8, PlaybackMemory
<1> QED
  BY <1>2, <1>4, <1>6, <1>9 DEF OnDisk, Saying, Preparing

\* A program that flushes has the file alone.
LEMMA FlushingPlace ==
  ASSUME JInv, NEW i \in Procs, pc[i] \in Flushing
  PROVE  /\ lock[i] = "exclusive" /\ state[i] \in {"cachemod", "dbmod"} /\ Draft(i)
         /\ pc[i] \in {"write", "syncdb", "finish"} => state[i] = "dbmod"
         /\ pc[i] \in {"syncdb", "finish"} => dirty[i] = {} /\ spill[i] = None
         /\ spill[i] = None => counted[i]
         /\ 1 \in Pages /\ orig[i] \in 0..LastPage /\ size[i] \in 0..LastPage
         /\ cache[i] \in Images /\ vers[i] \in Nat
         /\ journal \in Journals /\ journal.recs \in Images
<1>1. Types /\ Local(i) /\ MemoryTypes /\ Memory(i)
  BY DEF JInv, IInv
<1>2. /\ lock[i] = "exclusive" /\ state[i] \in {"cachemod", "dbmod"}
      /\ pc[i] \in {"write", "syncdb", "finish"} => state[i] = "dbmod"
      /\ pc[i] \in {"syncdb", "finish"} => dirty[i] = {}
  BY <1>1 DEF Local, Closed, Starting, Reader, Locked, CacheMod, DbMod, Clean, Looking, Replaying,
     Flushing
<1>3. Draft(i)
  BY <1>1, <1>2, RankOf DEF Memory, InDraft, Writing, Own, Flushing
<1>4. (spill[i] = None => counted[i]) /\ (pc[i] \in {"syncdb", "finish"} => spill[i] = None)
  BY <1>3 DEF Draft, Count, Flushing
<1>5. journal \in Journals /\ journal.recs \in Images
  BY <1>3, JournalType DEF Draft
<1> QED
  BY <1>1, <1>2, <1>3, <1>4, <1>5, PagerAssumption DEF MemoryTypes, Pages, Counters

\* A connection on its way through a commit keeps its draft.
LEMMA FlushingMemory ==
  ASSUME JInv, NEW i \in Procs, state'[i] \in {"cachemod", "dbmod"},
         pc'[i] \in {"idle", "sync", "write", "syncdb", "finish"}, Draft(i)'
  PROVE  Memory(i)'
<1>1. Writing(i)' /\ Reading(i)' /\ InDraft(i)'
  BY RankOf DEF Writing, Reading, InDraft, Own
<1> QED
  BY <1>1 DEF Memory

\* The records of a transaction, all of them, restore the file.
LEMMA DraftRestores ==
  ASSUME JInv, NEW i \in Procs, pc[i] \in Flushing, NEW jn,
         jn.size = orig[i], \A p \in Pages : jn.recs[p] = journal.recs[p]
  PROVE  Restores(jn, maybe, Image)
<1>1. Draft(i) /\ state[i] \in {"cachemod", "dbmod"} /\ orig[i] \in 0..LastPage /\ journal \in Journals
  BY FlushingPlace
<1>2. \A p \in Pages : p > orig[i] => Image[p] = None
  BY <1>1 DEF Draft, Full, Pages
<1>3. \A p \in Pages : journal.recs[p] # None => journal.recs[p] = Image[p]
  BY <1>1 DEF Draft, Recorded
<1>4. \A p \in Pages : p <= orig[i] /\ journal.recs[p] = None => maybe[p] = {Image[p]}
  <2>1. CASE state[i] = "cachemod"
    BY <1>1, <2>1 DEF Draft, Plain, Synced, Sync
  <2>2. CASE state[i] = "dbmod"
    <3> DEFINE k == Findable(journal)
    <3>1. k \in hotOnDisk /\ Guard(hotOnDisk, maybe, Image) /\ journal.hot
      BY <1>1, <2>2 DEF Draft, Guarded, JInv, DiskInv, Disk, Shape
    <3>2. /\ k.size = orig[i] /\ \A p \in Pages : journal.recs[p] = None => k.recs[p] = None
      <4>1. /\ k.size = journal.size
            /\ \A p \in journal.counted : k.recs[p] = journal.recs[p]
            /\ \A p \in Pages \ journal.counted : k.recs[p] = None
        BY <1>1, <3>1, FindableIs
      <4>2. journal.size = orig[i]
        BY <1>1 DEF Draft
      <4> QED
        BY <4>1, <4>2
    <3>3. Restores(k, maybe, Image)
      BY <3>1 DEF Guard
    <3> HIDE DEF k
    <3> QED
      BY <1>1, <3>2, <3>3 DEF Restores, Pages
  <2> QED
    BY <1>1, <2>1, <2>2
<1>5. \A p \in Pages : p > orig[i] \/ p <= orig[i]
  BY <1>1 DEF Pages
<1> QED
  BY <1>2, <1>3, <1>4, <1>5 DEF Restores

\* The number of records goes into the header of the journal.
LEMMA JournalHeaderMemory ==
  ASSUME JInv, NEW i \in Procs, JournalHeader(i)
  PROVE  OnDisk(i) /\ Saying
<1>1. Types /\ MemoryTypes /\ DiskInv /\ pc[i] = "header"
  BY DEF JInv, IInv, JournalHeader
<1>2. /\ lock[i] = "exclusive" /\ state[i] \in {"cachemod", "dbmod"} /\ Draft(i)
      /\ spill[i] = None => counted[i]
      /\ 1 \in Pages /\ orig[i] \in 0..LastPage /\ journal \in Journals /\ journal.recs \in Images
  BY <1>1, FlushingPlace DEF Flushing
<1> DEFINE jn == journal'
<1>3. /\ jn = [journal EXCEPT !.hot = TRUE, !.counted = Recorded(journal)]
      /\ hotOnDisk' = {Findable(journal), Findable(jn)}
      /\ UNCHANGED <<lock, file, state, spill>> /\ UNCHANGED memory
      /\ pc' = Set(pc, i, "sync")
  BY DEF JournalHeader, Call
<1>4. /\ jn \in Journals /\ jn.size = journal.size /\ jn.hot /\ jn.recs = journal.recs
      /\ jn.counted = Recorded(journal) /\ Recorded(jn) = Recorded(journal)
  <2>1. /\ journal \in [size : 0..LastPage, hot : BOOLEAN, recs : Images, counted : SUBSET Pages]
        /\ Recorded(journal) \subseteq Pages
    BY <1>2, JournalType DEF Journals
  <2>2. jn = [size |-> journal.size, hot |-> TRUE, recs |-> journal.recs,
              counted |-> Recorded(journal)]
    BY <1>3, <2>1
  <2> HIDE DEF jn
  <2>3. Recorded(jn) = Recorded(journal)
    BY <2>2 DEF Recorded
  <2>4. Recorded(journal) \subseteq 1..journal.size
    BY <1>2, JournalType
  <2> QED
    BY <2>1, <2>2, <2>3, <2>4 DEF Journals
<1> HIDE DEF jn
<1>5. Findable(jn) = jn /\ jn # None
  BY <1>4, FoundAgain, JournalType
<1>6. Restores(jn, maybe, Image)
  BY <1>1, <1>2, <1>4, DraftRestores DEF Flushing, Draft
<1>7. /\ jn.size = orig[i]
      /\ state[i] = "cachemod" => Findable(journal) = None /\ Synced /\ db = Image
      /\ state[i] = "dbmod" => /\ Guarded /\ journal.hot
                               /\ Findable(journal) \in hotOnDisk /\ Findable(journal) # None
                               /\ Findable(journal).size = orig[i]
                               /\ Recorded(Findable(journal)) = journal.counted
  <2>1. jn.size = orig[i]
    BY <1>2, <1>4 DEF Draft
  <2>2. CASE state[i] = "cachemod"
    BY <1>1, <1>2, <2>1, <2>2, FindableNone DEF Draft, Plain
  <2>3. CASE state[i] = "dbmod"
    <3>1. Guarded /\ journal.hot /\ journal.size = orig[i]
      BY <1>2, <2>3 DEF Draft
    <3>2. Findable(journal) \in hotOnDisk
      BY <1>1 DEF DiskInv, Disk, Shape
    <3> QED
      BY <1>2, <2>1, <2>3, <3>1, <3>2, FindableIs, JournalType
  <2> QED
    BY <1>2, <2>2, <2>3
<1>8. jn.size > 0 => Empty(db) \/ None \notin maybe[1]
  <2>1. CASE state[i] = "cachemod"
    <3>1. orig[i] > 0 => Image[1] # None
      BY <1>2 DEF Draft, Full
    <3> QED
      BY <1>2, <1>7, <2>1, <3>1 DEF Synced, Sync
  <2>2. CASE state[i] = "dbmod"
    BY <1>1, <1>7, <2>2 DEF DiskInv, Disk, Shape
  <2> QED
    BY <1>2, <2>1, <2>2
<1>9. /\ Disk(db, maybe, jn, {Findable(journal), Findable(jn)}) /\ Img(db, jn) = Image
      /\ Poss(maybe, {Findable(journal), Findable(jn)}) = {Image}
  <2>1. Disk(db, maybe, journal, hotOnDisk) /\ Image = Img(db, journal)
    BY <1>1, PossibleIs DEF DiskInv
  <2>2. Restores(Findable(jn), maybe, Image)
    BY <1>5, <1>6
  <2>3. (Findable(journal) = None /\ Sync(db, maybe) /\ db = Image) \/ Guard(hotOnDisk, maybe, Image)
    BY <1>2, <1>7 DEF Synced, Guarded
  <2> QED
    BY <1>4, <1>8, <2>1, <2>2, <2>3, HeaderWritten
<1>10. DiskInv' /\ Image' = Image /\ Possible' = {Image} /\ db' = db /\ maybe' = maybe
  <2>1. db' = db /\ maybe' = maybe /\ journal' = jn
    BY <1>3 DEF file, jn
  <2> QED
    BY <1>3, <1>9, <2>1, PossibleAfter DEF DiskInv
<1>11. Saying
  BY <1>1, <1>10, ImageIs DEF Saying
<1>12. pc' \in [Procs -> Calls] /\ pc'[i] = "sync" /\ \A j \in Procs \ {i} : pc'[j] = pc[j]
  BY <1>1, <1>3 DEF Types, Set, Calls
<1>13. MemoryTypes' /\ \A j \in Procs \ {i} : Same(j)
  BY <1>3, <1>12, KeptMemory
<1>14. /\ UNCHANGED <<state, spill, size, orig, cache, dirty, needSync, vers, counted>>
       /\ journal' = jn
  BY <1>3 DEF memory, pages, jn
<1>15. state[i] = "cachemod" => Plain'
  BY <1>7, <1>10 DEF Plain, Synced
<1>16. state[i] = "dbmod" =>
         /\ Guarded'
         /\ \A j \in hotOnDisk' : j.size = orig[i] /\ Recorded(journal) \ needSync[i] \subseteq Recorded(j)
  <2> SUFFICES ASSUME state[i] = "dbmod"
               PROVE  /\ Guarded'
                      /\ \A j \in hotOnDisk' : /\ j.size = orig[i]
                                               /\ Recorded(journal) \ needSync[i] \subseteq Recorded(j)
    OBVIOUS
  <2>1. Restores(Findable(journal), maybe, Image)
    BY <1>7 DEF Guarded, Guard
  <2>2. Guarded'
    BY <1>3, <1>5, <1>6, <1>7, <1>10, <2>1 DEF Guarded, Guard
  <2>3. Recorded(journal) \ needSync[i] \subseteq journal.counted
    BY <1>2 DEF Draft
  <2> QED
    BY <1>3, <1>4, <1>5, <1>7, <2>2, <2>3
<1>17. Draft(i)'
  <2>1. Count(i)'
    BY <1>1, <1>2, <1>4, <1>10, <1>12, <1>14 DEF Draft, Count
  <2>2. /\ jn \in Journals /\ jn.size = orig[i] /\ Full(Image, orig[i]) /\ orig[i] <= size[i]
        /\ db \in Images /\ cache[i][1] # None /\ jn.hot /\ jn.counted = Recorded(jn)
        /\ Recorded(jn) \ needSync[i] \subseteq jn.counted
    BY <1>2, <1>4, <1>7 DEF Draft
  <2>3. /\ \A p \in Recorded(jn) : p <= orig[i] /\ jn.recs[p] = Image[p]
        /\ \A p \in dirty[i] : p <= size[i] /\ (p <= orig[i] => jn.recs[p] # None)
        /\ \A p \in Pages : p > size[i] => cache[i][p] = None /\ db[p] = None
        /\ \A p \in Pages : p <= size[i] /\ p \notin dirty[i] =>
             db[p] # None /\ cache[i][p] \in {None, db[p]}
        /\ \A p \in Pages : p <= orig[i] /\ p \notin Recorded(jn) \ needSync[i] => db[p] = Image[p]
    BY <1>2, <1>4 DEF Draft
  <2>4. spill[i] # None => spill[i] \in dirty[i] \ {1}
    BY <1>2 DEF Draft
  <2>5. state[i] = "dbmod" =>
         /\ Guarded'
         /\ \A j \in hotOnDisk' : j.size = orig[i] /\ Recorded(jn) \ needSync[i] \subseteq Recorded(j)
    BY <1>4, <1>16
  <2> QED
    BY <1>10, <1>12, <1>14, <1>15, <2>1, <2>2, <2>3, <2>4, <2>5 DEF Draft
<1>18. Memory(i)'
  BY <1>2, <1>12, <1>14, <1>17, FlushingMemory
<1> QED
  BY <1>2, <1>10, <1>11, <1>13, <1>18 DEF OnDisk, Preparing

\* The journal is synced.
LEMMA SyncJournalMemory ==
  ASSUME JInv, NEW i \in Procs, SyncJournal(i)
  PROVE  OnDisk(i) /\ Saying
<1>1. Types /\ MemoryTypes /\ DiskInv /\ pc[i] = "sync"
  BY DEF JInv, IInv, SyncJournal
<1>2. /\ lock[i] = "exclusive" /\ state[i] \in {"cachemod", "dbmod"} /\ Draft(i)
      /\ spill[i] = None => counted[i]
      /\ journal \in Journals /\ journal.hot /\ journal.counted = Recorded(journal)
      /\ journal.size = orig[i]
  BY <1>1, FlushingPlace DEF Flushing, Draft
<1>3. /\ UNCHANGED <<lock, file, journal, spill, size, orig, cache, dirty, vers, counted, todo>>
      /\ hotOnDisk' = {Findable(journal)}
  BY DEF SyncJournal
<1>4. /\ state'[i] = "dbmod" /\ pc'[i] = "write" /\ needSync'[i] = {}
      /\ needSync' \in [Procs -> SUBSET Pages]
      /\ \A j \in Procs \ {i} : state'[j] = state[j] /\ pc'[j] = pc[j] /\ needSync'[j] = needSync[j]
  BY <1>1 DEF SyncJournal, Set, Types, MemoryTypes
<1>5. Findable(journal) = journal /\ journal # None
  BY <1>2, FoundAgain, JournalType
<1>6. Restores(journal, maybe, Image)
  BY <1>1, <1>2, DraftRestores DEF Flushing
<1>7. DiskInv' /\ Image' = Image /\ Possible' \subseteq Possible /\ db' = db /\ maybe' = maybe
  <2>1. db' = db /\ maybe' = maybe /\ journal' = journal
    BY <1>3 DEF file
  <2>2. /\ Disk(db, maybe, journal, {Findable(journal)})
        /\ Poss(maybe, {Findable(journal)}) \subseteq Poss(maybe, hotOnDisk)
    BY <1>1, JournalSynced DEF DiskInv
  <2> QED
    BY <1>3, <2>1, <2>2, PossibleIs, PossibleAfter DEF DiskInv
<1>8. Guarded'
  BY <1>3, <1>5, <1>6, <1>7 DEF Guarded, Guard
<1>9. MemoryTypes'
  <2>1. \A j \in Procs : needSync'[j] \subseteq dirty[j]
    BY <1>1, <1>4 DEF MemoryTypes
  <2> QED
    BY <1>1, <1>3, <1>4, <2>1 DEF MemoryTypes
<1>10. \A j \in Procs \ {i} : Same(j)
  BY <1>3, <1>4 DEF Same
<1>11. Draft(i)'
  <2>1. Count(i)'
    BY <1>1, <1>2, <1>3, <1>4, <1>7 DEF Draft, Count
  <2>2. /\ Full(Image, orig[i]) /\ orig[i] <= size[i] /\ db \in Images /\ cache[i][1] # None
        /\ \A p \in Recorded(journal) : p <= orig[i] /\ journal.recs[p] = Image[p]
        /\ \A p \in dirty[i] : p <= size[i] /\ (p <= orig[i] => journal.recs[p] # None)
        /\ \A p \in Pages : p > size[i] => cache[i][p] = None /\ db[p] = None
        /\ \A p \in Pages : p <= size[i] /\ p \notin dirty[i] =>
             db[p] # None /\ cache[i][p] \in {None, db[p]}
        /\ \A p \in Pages : p <= orig[i] /\ p \notin Recorded(journal) => db[p] = Image[p]
        /\ spill[i] # None => spill[i] \in dirty[i] \ {1}
    BY <1>2 DEF Draft
  <2>3. /\ \A j \in hotOnDisk' : j.size = orig[i] /\ Recorded(journal) \ needSync'[i] \subseteq Recorded(j)
        /\ Recorded(journal) \ needSync'[i] \subseteq journal.counted
        /\ \A p \in Pages : p <= orig[i] /\ p \notin Recorded(journal) \ needSync'[i] => db[p] = Image[p]
    BY <1>2, <1>3, <1>4, <1>5, <2>2
  <2> QED
    BY <1>2, <1>3, <1>4, <1>7, <1>8, <2>1, <2>2, <2>3 DEF Draft
<1>12. Memory(i)'
  BY <1>4, <1>11, FlushingMemory
<1> QED
  BY <1>2, <1>7, <1>9, <1>10, <1>12 DEF OnDisk, Saying, Preparing

\* A page of a draft that may be written: the synced journal has it.
LEMMA DraftStored ==
  ASSUME JInv, NEW i \in Procs, pc[i] = "write", NEW p \in dirty[i], p \notin needSync[i],
         Store(p, cache[i][p]), UNCHANGED <<journal, hotOnDisk>>
  PROVE  /\ DiskInv' /\ Image' = Image /\ Guarded' /\ Possible' = Possible
         /\ p \in Pages /\ p <= size[i] /\ cache[i][p] # None /\ db' \in Images
         /\ db'[p] = cache[i][p] /\ \A q \in Pages \ {p} : db'[q] = db[q]
         /\ p <= orig[i] => p \in Recorded(journal) \ needSync[i]
<1>1. MemoryTypes /\ DiskInv
  BY DEF JInv
<1>2. /\ lock[i] = "exclusive" /\ state[i] = "dbmod" /\ Draft(i)
      /\ orig[i] \in 0..LastPage /\ cache[i] \in Images /\ 1 \in Pages
  BY FlushingPlace DEF Flushing
<1>3. p \in Pages /\ cache[i][p] # None /\ p <= size[i]
  BY <1>1, <1>2 DEF MemoryTypes, Draft
<1>4. cache[i][p] \in Bytes \ {None} /\ cache[i][p] \in Content(p)
  BY <1>2, <1>3 DEF Images, Bytes
<1>5. p <= orig[i] => p \in Recorded(journal) \ needSync[i]
  BY <1>2, <1>3 DEF Draft, Recorded
<1>6. \A j \in hotOnDisk : j.size = orig[i] /\ Recorded(journal) \ needSync[i] \subseteq Recorded(j)
  BY <1>2 DEF Draft
<1>7. Covered(hotOnDisk, p) /\ Guarded
  <2>1. p <= orig[i] \/ p > orig[i]
    BY <1>2, <1>3 DEF Pages
  <2> QED
    BY <1>2, <1>5, <1>6, <2>1 DEF Covered, Recorded, Draft
<1>8. Empty(Image) => OfSize(hotOnDisk, 0)
  <2>1. Empty(Image) => orig[i] = 0
    <3>1. Image[1] # None <=> 1 <= orig[i]
      BY <1>2 DEF Draft, Full
    <3> QED
      BY <1>2, <3>1 DEF Empty
  <2> QED
    BY <1>6, <2>1 DEF OfSize
<1>9. /\ DiskInv' /\ Image' = Image /\ Guarded' /\ Possible' = Possible
      /\ db' \in [Pages -> Bytes]
      /\ db'[p] = cache[i][p] /\ \A q \in Pages \ {p} : db'[q] = db[q]
  BY <1>1, <1>3, <1>4, <1>7, <1>8, StoreDisk
<1>10. db' \in Images
  <2>1. db \in Images
    BY <1>2 DEF Draft
  <2>2. \A q \in Pages : db'[q] \in Content(q) \cup {None} /\ db'[q] \in Counters \cup Values \cup {None}
    BY <1>4, <1>9, <2>1 DEF Images, Content
  <2> QED
    BY <1>9, <2>2 DEF Images
<1> QED
  BY <1>3, <1>5, <1>9, <1>10

\* A page that left the cache goes to the file.
LEMMA WriteSpilledMemory ==
  ASSUME JInv, NEW i \in Procs, WriteSpilled(i)
  PROVE  OnDisk(i) /\ Saying
<1> DEFINE p == spill[i]
<1>1. Types /\ MemoryTypes /\ DiskInv /\ pc[i] = "write"
  BY DEF JInv, IInv, WriteSpilled
<1>2. /\ lock[i] = "exclusive" /\ state[i] = "dbmod" /\ Draft(i)
      /\ cache[i] \in Images /\ 1 \in Pages
  BY <1>1, FlushingPlace DEF Flushing
<1>3. p \in dirty[i] \ {1} /\ p \notin needSync[i] /\ p # None
  BY <1>1, <1>2 DEF WriteSpilled, Draft
<1>4. /\ UNCHANGED <<lock, journal, hotOnDisk, state, size, orig, needSync, vers, counted, todo>>
      /\ Store(p, cache[i][p])
  BY DEF WriteSpilled
<1>5. /\ DiskInv' /\ Image' = Image /\ Guarded' /\ Possible' = Possible
      /\ p \in Pages /\ p <= size[i] /\ cache[i][p] # None /\ db' \in Images
      /\ db'[p] = cache[i][p] /\ \A q \in Pages \ {p} : db'[q] = db[q]
      /\ p <= orig[i] => p \in Recorded(journal) \ needSync[i]
  BY <1>1, <1>3, <1>4, DraftStored
<1>6. /\ cache' \in [Procs -> Images]
      /\ cache'[i][p] = None /\ \A q \in Pages \ {p} : cache'[i][q] = cache[i][q]
      /\ \A j \in Procs \ {i} : cache'[j] = cache[j]
  <2>1. cache' = Put(cache, i, p, None) /\ cache \in [Procs -> Images]
    BY <1>1 DEF WriteSpilled, Put, MemoryTypes
  <2>2. None \in Content(p) \cup {None}
    OBVIOUS
  <2> QED
    BY <1>5, <2>1, <2>2, PageSet
<1>7. /\ dirty'[i] = dirty[i] \ {p} /\ pc'[i] = "idle" /\ spill'[i] = None
      /\ spill' \in [Procs -> Pages \cup {None}]
      /\ \A j \in Procs \ {i} : dirty'[j] = dirty[j] /\ pc'[j] = pc[j] /\ spill'[j] = spill[j]
  BY <1>1 DEF WriteSpilled, Set, Types, MemoryTypes
<1> HIDE DEF p
<1>8. MemoryTypes'
  <2>1. needSync[i] \subseteq dirty[i] /\ dirty[i] \subseteq {q \in Pages : cache[i][q] # None}
    BY <1>1 DEF MemoryTypes
  <2>2. needSync[i] \subseteq dirty'[i] /\ dirty'[i] \subseteq {q \in Pages : cache'[i][q] # None}
    BY <1>3, <1>6, <1>7, <2>1
  <2>3. \A j \in Procs : /\ dirty'[j] \subseteq {q \in Pages : cache'[j][q] # None}
                         /\ needSync[j] \subseteq dirty'[j]
    BY <1>1, <1>6, <1>7, <2>2 DEF MemoryTypes
  <2> QED
    BY <1>1, <1>4, <1>6, <1>7, <2>3 DEF MemoryTypes
<1>9. \A j \in Procs \ {i} : Same(j)
  BY <1>4, <1>6, <1>7 DEF Same
<1>10. cache'[i][1] = cache[i][1]
  BY <1>2, <1>3, <1>6
<1>11. Draft(i)'
  <2>1. Count(i)'
    <3>1. (counted[i] /\ 1 \notin dirty[i]) => p = None
      BY <1>2 DEF Draft, Count, p
    <3>2. 1 \in dirty'[i] <=> 1 \in dirty[i]
      BY <1>3, <1>7
    <3> QED
      BY <1>2, <1>3, <1>4, <1>5, <1>7, <1>10, <3>1, <3>2 DEF Draft, Count
  <2>2. /\ journal \in Journals /\ journal.size = orig[i] /\ Full(Image, orig[i])
        /\ orig[i] <= size[i] /\ cache[i][1] # None /\ journal.hot
        /\ Recorded(journal) \ needSync[i] \subseteq journal.counted
        /\ \A q \in Recorded(journal) : q <= orig[i] /\ journal.recs[q] = Image[q]
        /\ \A j \in hotOnDisk : j.size = orig[i] /\ Recorded(journal) \ needSync[i] \subseteq Recorded(j)
        /\ hotOnDisk = {Findable(journal)}
    BY <1>1, <1>2 DEF Draft
  <2>3. \A q \in dirty'[i] : q <= size[i] /\ (q <= orig[i] => journal.recs[q] # None)
    BY <1>2, <1>7 DEF Draft
  <2>4. \A q \in Pages : q > size[i] => cache'[i][q] = None /\ db'[q] = None
    <3>1. \A q \in Pages : q > size[i] => q # p /\ cache[i][q] = None /\ db[q] = None
      BY <1>1, <1>2, <1>5 DEF Draft, MemoryTypes, Pages
    <3> QED
      BY <1>5, <1>6, <3>1
  <2>5. \A q \in Pages : q <= size[i] /\ q \notin dirty'[i] =>
          db'[q] # None /\ cache'[i][q] \in {None, db'[q]}
    BY <1>2, <1>5, <1>6, <1>7 DEF Draft
  <2>6. \A q \in Pages : q <= orig[i] /\ q \notin Recorded(journal) \ needSync[i] => db'[q] = Image[q]
    BY <1>2, <1>5 DEF Draft
  <2> QED
    BY <1>2, <1>4, <1>5, <1>7, <1>10, <2>1, <2>2, <2>3, <2>4, <2>5, <2>6 DEF Draft
<1>12. Memory(i)'
  BY <1>2, <1>4, <1>7, <1>11, FlushingMemory
<1> QED
  BY <1>2, <1>5, <1>8, <1>9, <1>12 DEF OnDisk, Saying, Preparing

\* A page of the commit goes to the file.
LEMMA WritePageMemory ==
  ASSUME JInv, NEW i \in Procs, WritePage(i)
  PROVE  OnDisk(i) /\ Saying
<1>1. Types /\ MemoryTypes /\ DiskInv /\ pc[i] = "write" /\ spill[i] = None
  BY DEF JInv, IInv, WritePage
<1>2. /\ lock[i] = "exclusive" /\ state[i] = "dbmod" /\ Draft(i) /\ counted[i]
      /\ cache[i] \in Images /\ 1 \in Pages /\ needSync[i] = {}
      /\ vers[i] \in Nat
  BY <1>1, FlushingPlace DEF Flushing, Draft
<1>3. PICK p \in dirty[i] : /\ Store(p, cache[i][p])
                            /\ vers' = IF p = 1 THEN Set(vers, i, cache[i][1]) ELSE vers
                            /\ dirty' = Set(dirty, i, dirty[i] \ {p})
                            /\ Call(i, IF dirty[i] = {p} THEN "syncdb" ELSE "write")
  BY DEF WritePage
<1>4. UNCHANGED <<lock, journal, hotOnDisk, state, spill, size, orig, cache, needSync, counted, todo>>
  BY <1>3 DEF WritePage, Call
<1>5. /\ DiskInv' /\ Image' = Image /\ Guarded' /\ Possible' = Possible
      /\ p \in Pages /\ p <= size[i] /\ cache[i][p] # None /\ db' \in Images
      /\ db'[p] = cache[i][p] /\ \A q \in Pages \ {p} : db'[q] = db[q]
      /\ p <= orig[i] => p \in Recorded(journal) \ needSync[i]
  BY <1>1, <1>2, <1>3, <1>4, DraftStored
<1>6. /\ vers' \in [Procs -> Counters] /\ vers'[i] = (IF p = 1 THEN cache[i][1] ELSE vers[i])
      /\ \A j \in Procs \ {i} : vers'[j] = vers[j]
  <2>1. p = 1 => cache[i][1] \in Counters
    BY <1>2, <1>5 DEF Images, Content
  <2> QED
    BY <1>1, <1>3, <2>1 DEF MemoryTypes, Set
<1>7. /\ dirty'[i] = dirty[i] \ {p} /\ pc'[i] \in {"write", "syncdb"}
      /\ \A j \in Procs \ {i} : dirty'[j] = dirty[j] /\ pc'[j] = pc[j]
  BY <1>1, <1>3 DEF Call, Set, Types
<1>8. MemoryTypes'
  <2>1. \A j \in Procs : /\ dirty'[j] \subseteq {q \in Pages : cache[j][q] # None}
                         /\ needSync[j] \subseteq dirty'[j]
    BY <1>1, <1>2, <1>7 DEF MemoryTypes
  <2> QED
    BY <1>1, <1>4, <1>6, <1>7, <2>1 DEF MemoryTypes
<1>9. \A j \in Procs \ {i} : Same(j)
  BY <1>4, <1>6, <1>7 DEF Same
<1>10. Draft(i)'
  <2>1. Count(i)'
    <3>1. CASE p = 1
      <4>1. /\ vers[i] >= Counter(Image) /\ cache[i][1] = vers[i] + 1
            /\ orig[i] > 0 => journal.recs[1] # None
        <5>1. orig[i] > 0 => 1 <= orig[i]
          BY <1>1 DEF MemoryTypes
        <5>2. 1 \in dirty[i]
          BY <3>1
        <5> QED
          BY <1>2, <5>1, <5>2 DEF Draft, Count
      <4>2. Counter(Image) \in Nat
        BY <1>1, ImageIs, CounterType
      <4>3. cache[i][1] > Counter(Image)
        BY <1>2, <4>1, <4>2
      <4> QED
        BY <1>1, <1>2, <1>4, <1>5, <1>6, <1>7, <3>1, <4>1, <4>3 DEF Count
    <3>2. CASE p # 1
      <4>1. 1 \in dirty'[i] <=> 1 \in dirty[i]
        BY <1>7, <3>2
      <4> QED
        BY <1>1, <1>2, <1>4, <1>5, <1>6, <1>7, <3>2, <4>1 DEF Draft, Count
    <3> QED
      BY <3>1, <3>2
  <2>2. /\ journal \in Journals /\ journal.size = orig[i] /\ Full(Image, orig[i])
        /\ orig[i] <= size[i] /\ cache[i][1] # None /\ journal.hot
        /\ Recorded(journal) \ needSync[i] \subseteq journal.counted
        /\ \A q \in Recorded(journal) : q <= orig[i] /\ journal.recs[q] = Image[q]
        /\ \A j \in hotOnDisk : j.size = orig[i] /\ Recorded(journal) \ needSync[i] \subseteq Recorded(j)
        /\ hotOnDisk = {Findable(journal)}
    BY <1>1, <1>2 DEF Draft
  <2>3. \A q \in dirty'[i] : q <= size[i] /\ (q <= orig[i] => journal.recs[q] # None)
    BY <1>2, <1>7 DEF Draft
  <2>4. \A q \in Pages : q > size[i] => cache[i][q] = None /\ db'[q] = None
    <3>1. \A q \in Pages : q > size[i] => q # p /\ cache[i][q] = None /\ db[q] = None
      BY <1>1, <1>2, <1>5 DEF Draft, MemoryTypes, Pages
    <3> QED
      BY <1>5, <3>1
  <2>5. \A q \in Pages : q <= size[i] /\ q \notin dirty'[i] =>
          db'[q] # None /\ cache[i][q] \in {None, db'[q]}
    BY <1>2, <1>5, <1>7 DEF Draft
  <2>6. \A q \in Pages : q <= orig[i] /\ q \notin Recorded(journal) \ needSync[i] => db'[q] = Image[q]
    BY <1>2, <1>5 DEF Draft
  <2> QED
    BY <1>1, <1>2, <1>4, <1>5, <1>7, <2>1, <2>2, <2>3, <2>4, <2>5, <2>6 DEF Draft
<1>11. Memory(i)'
  BY <1>2, <1>4, <1>7, <1>10, FlushingMemory
<1> QED
  BY <1>2, <1>5, <1>8, <1>9, <1>11 DEF OnDisk, Saying, Preparing

\* The file is synced before the journal may go.
LEMMA SyncDbMemory ==
  ASSUME JInv, NEW i \in Procs, SyncDb(i)
  PROVE  OnDisk(i) /\ Saying
<1>1. Types /\ MemoryTypes /\ DiskInv /\ pc[i] = "syncdb"
  BY DEF JInv, IInv, SyncDb
<1>2. /\ lock[i] = "exclusive" /\ state[i] = "dbmod" /\ Draft(i) /\ counted[i] /\ spill[i] = None
  BY <1>1, FlushingPlace DEF Flushing
<1>3. /\ SyncFile /\ UNCHANGED <<journal, hotOnDisk, lock, state, spill>> /\ UNCHANGED memory
      /\ pc' = Set(pc, i, "finish")
  BY DEF SyncDb, Call
<1>4. /\ DiskInv' /\ Image' = Image /\ Synced' /\ Guarded' /\ Possible' \subseteq Possible /\ db' = db
  BY <1>1, <1>2, <1>3, SyncFileDisk DEF Draft
<1>5. pc' \in [Procs -> Calls] /\ pc'[i] = "finish" /\ \A j \in Procs \ {i} : pc'[j] = pc[j]
  BY <1>1, <1>3 DEF Types, Set, Calls
<1>6. MemoryTypes' /\ \A j \in Procs \ {i} : Same(j)
  BY <1>3, <1>5, KeptMemory
<1>7. UNCHANGED <<size, orig, cache, dirty, needSync, vers, counted>>
  BY <1>3 DEF memory, pages
<1>8. Count(i)'
  BY <1>1, <1>2, <1>3, <1>4, <1>5, <1>7 DEF Draft, Count
<1>9. Draft(i)'
  BY <1>1, <1>2, <1>3, <1>4, <1>5, <1>7, <1>8 DEF Draft
<1>10. Memory(i)'
  BY <1>2, <1>3, <1>5, <1>9, FlushingMemory
<1> QED
  BY <1>2, <1>4, <1>6, <1>10 DEF OnDisk, Saying, Preparing

\* The commit: what the program sees is what the file says.
LEMMA CommitMemory ==
  ASSUME JInv, NEW i \in Procs, CommitPhaseTwo(i)
  PROVE  /\ OnDisk(i) /\ lock[i] = "exclusive" /\ HasDraft(i) /\ ~HasDraft(i)'
         /\ Image' = Seen(i) /\ Possible' = {Image, Image'} /\ Counter(Image') > Counter(Image)
<1>1. Types /\ MemoryTypes /\ DiskInv /\ Good(Image) /\ pc[i] = "finish"
  BY ImageIs DEF JInv, IInv, CommitPhaseTwo
<1>2. /\ lock[i] = "exclusive" /\ state[i] = "dbmod" /\ Draft(i) /\ counted[i] /\ spill[i] = None
      /\ dirty[i] = {} /\ 1 \in Pages /\ size[i] \in 0..LastPage /\ cache[i] \in Images
      /\ vers[i] \in Nat
  BY <1>1, FlushingPlace DEF Flushing
<1>3. /\ DeleteJournal /\ UNCHANGED <<lock, state, spill>> /\ UNCHANGED memory /\ db' = db
      /\ pc' = Set(pc, i, "unlock")
  BY DEF CommitPhaseTwo, DeleteJournal, Call, file
<1>4. /\ db \in Images /\ Synced /\ Guarded
      /\ \A p \in Pages : p > size[i] => cache[i][p] = None /\ db[p] = None
      /\ \A p \in Pages : p <= size[i] => db[p] # None /\ cache[i][p] \in {None, db[p]}
  BY <1>1, <1>2 DEF Draft
<1>5. \A p \in Pages : p <= size[i] \/ p > size[i]
  BY <1>2 DEF Pages
<1>6. Full(db, size[i])
  BY <1>2, <1>4 DEF Full, Pages
<1>7. Good(db)
  BY <1>2, <1>4, <1>6 DEF Good
<1>8. DiskInv' /\ Image' = db /\ Plain' /\ Possible' = Possible \cup {db}
  BY <1>1, <1>3, <1>4, <1>7, DeletingDisk
<1>9. Possible' = {Image, Image'}
  BY <1>1, <1>4, <1>8, ImageIs
<1>10. Image' = Seen(i)
  <2>1. \A p \in Pages : db[p] = Seen(i)[p]
    BY <1>4, <1>5 DEF Seen
  <2>2. db \in [Pages -> Counters \cup Values \cup {None}]
    BY <1>4 DEF Images
  <2>3. Seen(i) = [p \in Pages |-> Seen(i)[p]]
    BY DEF Seen
  <2> QED
    BY <1>8, <2>1, <2>2, <2>3
<1>11. cache[i][1] = vers[i] /\ vers[i] > Counter(Image)
  BY <1>1, <1>2 DEF Draft, Count
<1>12. db[1] = vers[i] /\ Counter(db) = vers[i]
  <2>1. cache[i][1] # None
    BY <1>2 DEF Draft
  <2>2. db[1] = vers[i]
    BY <1>2, <1>4, <1>5, <1>11, <2>1
  <2> QED
    BY <1>11, <2>1, <2>2 DEF Counter
<1>13. pc' \in [Procs -> Calls] /\ pc'[i] = "unlock" /\ \A j \in Procs \ {i} : pc'[j] = pc[j]
  BY <1>1, <1>3 DEF Types, Set, Calls
<1>14. MemoryTypes' /\ \A j \in Procs \ {i} : Same(j)
  BY <1>3, <1>13, KeptMemory
<1>15. UNCHANGED <<size, orig, cache, dirty, needSync, vers, counted>>
  BY <1>3 DEF memory, pages
<1>16. Fresh(i)' /\ Full(Image, size[i])'
  <2>1. \A p \in Pages : cache[i][p] # None => cache[i][p] = db[p]
    BY <1>4, <1>5
  <2>2. cache[i][1] # None
    BY <1>2 DEF Draft
  <2>3. Fresh(i)'
    BY <1>8, <1>11, <1>15, <2>1, <2>2 DEF Fresh
  <2>4. Full(Image, size[i])'
    BY <1>6, <1>8, <1>15 DEF Full
  <2> QED
    BY <2>3, <2>4
<1>17. /\ Writing(i)' /\ Reading(i)' /\ ~InDraft(i)' /\ spill'[i] = None /\ state'[i] = "dbmod"
  BY <1>2, <1>3, <1>13, RankOf DEF Writing, Reading, InDraft, Own
<1>18. Memory(i)'
  BY <1>8, <1>13, <1>16, <1>17 DEF Memory
<1>19. HasDraft(i) /\ ~HasDraft(i)'
  BY <1>1, <1>2, <1>13 DEF HasDraft, Rank
<1> QED
  BY <1>2, <1>8, <1>9, <1>10, <1>11, <1>12, <1>14, <1>18, <1>19 DEF OnDisk, Preparing

\* A program that ends in any state.
LEMMA CrashMemory ==
  ASSUME JInv, NEW i \in Procs, Crash(i)
  PROVE  InMemory(i)
<1>1. Types /\ MemoryTypes
  BY DEF JInv, IInv
<1>2. End({i}) /\ UNCHANGED disk
  BY DEF Crash
<1>3. NoPages \in Images /\ 0 \in Counters /\ 0 \in 0..LastPage
  BY PagerAssumption DEF NoPages, Images, Counters
<1>4. /\ state'[i] = "closed" /\ pc'[i] = "idle" /\ spill'[i] = None /\ counted'[i] = FALSE
      /\ cache'[i] = NoPages /\ dirty'[i] = {} /\ needSync'[i] = {}
  BY <1>2 DEF End
<1>5. \A j \in Procs \ {i} : Same(j)
  BY <1>2 DEF End, Same
<1>6. MemoryTypes'
  BY <1>1, <1>2, <1>3 DEF MemoryTypes, Types, End
<1>7. ~Writing(i)' /\ ~Reading(i)' /\ ~InDraft(i)'
  BY <1>4, RankOf DEF Writing, Reading, InDraft
<1> QED
  BY <1>2, <1>4, <1>5, <1>6, <1>7 DEF InMemory, Memory

-----------------------------------------------------------------------------
(***************************************************************************)
(* All steps.                                                              *)
(***************************************************************************)
LEMMA Steps ==
  ASSUME JInv, NEW i \in Procs,
         Recovering(i) \/ PlayingBack(i) \/ Using(i) \/ Committing(i) \/ Crash(i)
  PROVE  InMemory(i) \/ (OnDisk(i) /\ Saying) \/ CommitPhaseTwo(i)
<1>1. CASE Recovering(i)
  BY <1>1, LookingMemory, LeavingMemory, DeleteMemory, FoundMemory, ValidateMemory DEF Recovering
<1>2. CASE PlayingBack(i)
  BY <1>2, GoBackMemory, TruncateMemory, ReplayMemory, ResyncMemory, DeleteMemory, UnlockMemory,
     LeavingMemory DEF PlayingBack
<1>3. CASE Using(i)
  <2>1. CASE \E p \in Pages : Fetch(i, p)
    BY <2>1, ReaderFetchMemory, DraftFetchMemory
  <2>2. CASE \E p \in Pages : Write(i, p)
    BY <2>2, ChangeMemory DEF Saying
  <2>3. CASE \E p \in Pages : PagerStress(i, p)
    BY <2>3, DraftMemory
  <2> QED
    BY <1>3, <2>1, <2>2, <2>3, OpenMemory, LeavingMemory, BeginMemory DEF Using
<1>4. CASE Committing(i)
  <2>1. CASE CommitPhaseOne(i)
    BY <2>1, ChangeMemory, DraftMemory DEF Saying
  <2> QED
    BY <1>4, <2>1, CommitNothingMemory, DraftMemory, JournalHeaderMemory, SyncJournalMemory,
       WriteSpilledMemory, WritePageMemory, SyncDbMemory DEF Committing
<1>5. CASE Crash(i)
  BY <1>5, CrashMemory
<1> QED
  BY <1>1, <1>2, <1>3, <1>4, <1>5

\* With the disk as it should be, what every program knows is as it should be.
LEMMA StepKeeps ==
  ASSUME JInv, NEW i \in Procs,
         Recovering(i) \/ PlayingBack(i) \/ Using(i) \/ Committing(i) \/ Crash(i)
  PROVE  JInv'
<1>1. IInv'
  BY InvNext DEF JInv, Next
<1>2. /\ DiskInv' /\ MemoryTypes' /\ Memory(i)' /\ Effect(i)
  <2>1. CASE InMemory(i)
    BY <2>1, DiskStays DEF InMemory, Effect, JInv, disk
  <2>2. CASE OnDisk(i) /\ Saying
    BY <2>2 DEF OnDisk, Saying, Effect
  <2>3. CASE CommitPhaseTwo(i)
    BY <2>3, CommitMemory DEF OnDisk, Effect
  <2> QED
    BY <2>1, <2>2, <2>3, Steps
<1>3. Good(Image')
  <2>1. Img(db', journal') = Image'
    BY PossibleAfter
  <2> QED
    BY <1>2, <2>1, DiskIs DEF DiskInv
<1>4. \A j \in Procs : Memory(j)'
  BY <1>2, <1>3, OthersKeep
<1> QED
  BY <1>1, <1>2, <1>4 DEF JInv

\* Connections that are closed know nothing.
LEMMA AllClosed ==
  ASSUME JInv, \A i \in Procs : state'[i] = "closed" /\ spill'[i] = None /\ pc'[i] = "idle"
                                /\ counted'[i] = FALSE /\ cache'[i] = NoPages
  PROVE  \A i \in Procs : Memory(i)'
<1> SUFFICES ASSUME NEW i \in Procs PROVE Memory(i)'
  OBVIOUS
<1>1. ~Writing(i)' /\ ~Reading(i)' /\ ~InDraft(i)'
  BY RankOf DEF Writing, Reading, InDraft
<1> QED
  BY <1>1 DEF Memory

\* A power loss leaves one of the images that were possible.
LEMMA PowerLossKeeps ==
  ASSUME JInv, PowerLoss
  PROVE  JInv' /\ Image' \in Possible /\ Possible' = {Image'}
<1>1. IInv'
  BY InvNext DEF JInv, Next
<1>2. Types /\ MemoryTypes /\ DiskInv
  BY DEF JInv, IInv
<1>3. NoPages \in Images /\ 0 \in Counters /\ 0 \in 0..LastPage
  BY PagerAssumption DEF NoPages, Images, Counters
<1>4. MemoryTypes'
  BY <1>2, <1>3 DEF MemoryTypes, Types, PowerLoss, End
<1>5. \A i \in Procs : Memory(i)'
  BY AllClosed DEF PowerLoss, End
<1> DEFINE dn == db'
           mn == maybe'
           jn == journal'
<1>6. dn \in Outs(maybe) /\ jn \in hotOnDisk /\ hotOnDisk' = {jn} /\ mn = [p \in Pages |-> {dn[p]}]
  BY PossibleIs DEF PowerLoss
<1>7. mn \in [Pages -> SUBSET Bytes] /\ Sync(dn, mn)
  <2>1. \A p \in Pages : dn[p] \in maybe[p] /\ maybe[p] \in SUBSET Bytes
    BY <1>2, <1>6 DEF Outs, DiskInv, Disk, Shape
  <2> HIDE DEF dn, mn
  <2> QED
    BY <1>6, <2>1 DEF Sync
<1> HIDE DEF dn, mn, jn
<1>8. /\ Disk(dn, mn, jn, {jn}) /\ Img(dn, jn) \in Poss(maybe, hotOnDisk)
      /\ Poss(mn, {jn}) = {Img(dn, jn)}
  <2>1. dn \in Outs(maybe) /\ jn \in hotOnDisk /\ Disk(db, maybe, journal, hotOnDisk)
    BY <1>2, <1>6 DEF DiskInv
  <2> QED
    BY <1>7, <2>1, PowerLost
<1>9. DiskInv' /\ Image' \in Possible /\ Possible' = {Image'}
  BY <1>6, <1>8, PossibleIs, PossibleAfter DEF dn, mn, jn, DiskInv
<1> QED
  BY <1>1, <1>4, <1>5, <1>9 DEF JInv

\* The empty file is a database.
LEMMA EmptyIsGood == Empty(NoPages) /\ Good(NoPages)
<1>1. Empty(NoPages) /\ NoPages \in Images
  BY DEF Empty, NoPages, Images
<1>2. Full(NoPages, 0) /\ 0 \in 0..LastPage
  BY PagerAssumption DEF Full, NoPages, Pages
<1> QED
  BY <1>1, <1>2 DEF Good

\* The database is deleted and made again.
LEMMA DeleteDbKeeps ==
  ASSUME JInv, DeleteDb
  PROVE  JInv' /\ Image' = NoPages /\ Possible' = {NoPages}
<1>1. IInv'
  BY InvNext DEF JInv, Next
<1>2. Types /\ MemoryTypes /\ DiskInv /\ \A i \in Procs : Memory(i) /\ Local(i)
  BY DEF JInv, IInv
<1>3. MemoryTypes'
  BY <1>2 DEF DeleteDb, MemoryTypes, memory, pages, progress
<1>4. \A i \in Procs : Memory(i)'
  <2>1. \A i \in Procs : /\ state[i] = "closed" /\ pc[i] = "idle"
                         /\ spill[i] = None /\ counted[i] = FALSE /\ cache[i] = NoPages
    <3> SUFFICES ASSUME NEW i \in Procs
                 PROVE  /\ state[i] = "closed" /\ pc[i] = "idle"
                        /\ spill[i] = None /\ counted[i] = FALSE /\ cache[i] = NoPages
      OBVIOUS
    <3>1. state[i] = "closed" /\ Local(i) /\ Memory(i)
      BY <1>2 DEF DeleteDb
    <3>2. pc[i] = "idle" /\ ~Writing(i) /\ ~InDraft(i)
      BY <3>1, RankOf DEF Local, Closed, Starting, Reader, Locked, CacheMod, DbMod, Writing, InDraft
    <3> QED
      BY <3>1, <3>2 DEF Memory
  <2> QED
    BY <2>1, AllClosed DEF DeleteDb, progress, memory, pages
<1> DEFINE mn == [p \in Pages |-> {None}]
<1>5. /\ db' = NoPages /\ maybe' = mn /\ journal' = journal /\ hotOnDisk' = hotOnDisk
  BY DEF DeleteDb
<1>6. /\ NoPages \in [Pages -> Bytes] /\ mn \in [Pages -> SUBSET Bytes]
      /\ Sync(NoPages, mn) /\ \A p \in Pages : NoPages[p] \in mn[p]
  <2>1. None \in Bytes
    BY DEF Bytes
  <2> QED
    BY <2>1 DEF NoPages, Sync
<1> HIDE DEF mn
<1>7. Shape(NoPages, mn, journal, hotOnDisk)
  BY <1>2, <1>6, EmptyIsGood DEF DiskInv, Disk, Shape
<1>8. \A k \in hotOnDisk : Recovered(NoPages, k) = NoPages
  BY RecoveredEmpty, EmptyIsGood
<1>9. /\ Disk(NoPages, mn, journal, hotOnDisk)
      /\ Poss(mn, hotOnDisk) = {Recovered(NoPages, k) : k \in hotOnDisk}
  BY <1>6, <1>7, <1>8, EmptyIsGood, SyncedDisk
<1>10. Img(NoPages, journal) = NoPages /\ Findable(journal) \in hotOnDisk
  BY <1>7, <1>8 DEF Img, Shape
<1>11. {Recovered(NoPages, k) : k \in hotOnDisk} = {NoPages}
  BY <1>8, <1>10
<1>12. DiskInv' /\ Image' = NoPages /\ Possible' = {NoPages}
  BY <1>5, <1>9, <1>10, <1>11, PossibleAfter DEF DiskInv
<1> QED
  BY <1>1, <1>3, <1>4, <1>12 DEF JInv

\* The invariant holds at the start, on an empty file.
LEMMA JInvInit == Init => JInv /\ Image = NoPages /\ Possible = {NoPages}
<1> SUFFICES ASSUME Init PROVE JInv /\ Image = NoPages /\ Possible = {NoPages}
  OBVIOUS
<1>1. IInv
  BY InvInit
<1>2. NoPages \in Images /\ 0 \in Counters /\ 0 \in 0..LastPage
  BY PagerAssumption DEF NoPages, Images, Counters
<1>3. MemoryTypes
  BY <1>2 DEF Init, MemoryTypes
<1>4. \A i \in Procs : Memory(i)
  <2> SUFFICES ASSUME NEW i \in Procs PROVE Memory(i)
    OBVIOUS
  <2>1. /\ state[i] = "closed" /\ pc[i] = "idle" /\ spill[i] = None /\ counted[i] = FALSE
        /\ cache[i] = NoPages
    BY DEF Init
  <2>2. ~Writing(i) /\ ~Reading(i) /\ ~InDraft(i)
    BY <2>1, RankOf DEF Writing, Reading, InDraft
  <2> QED
    BY <2>1, <2>2 DEF Memory
<1>5. /\ db = NoPages /\ maybe = [p \in Pages |-> {None}] /\ journal = None /\ hotOnDisk = {None}
  BY DEF Init
<1>6. None \in Bytes /\ Findable(None) = None
  BY FindableNone DEF Bytes
<1>7. Shape(db, maybe, journal, hotOnDisk) /\ Sync(db, maybe)
  BY <1>5, <1>6 DEF Shape, Sync, NoPages
<1>8. \A k \in hotOnDisk : Recovered(db, k) = NoPages
  BY <1>5, RecoveredNone
<1>9. /\ Disk(db, maybe, journal, hotOnDisk)
      /\ Poss(maybe, hotOnDisk) = {Recovered(db, k) : k \in hotOnDisk}
  BY <1>7, <1>8, EmptyIsGood, SyncedDisk
<1>10. {Recovered(db, k) : k \in hotOnDisk} = {NoPages}
  BY <1>5, <1>8
<1>11. Image = NoPages /\ Possible = {NoPages}
  BY <1>5, <1>6, <1>9, <1>10, RecoveredNone, PossibleIs DEF Image
<1> QED
  BY <1>1, <1>3, <1>4, <1>9, <1>11 DEF JInv, DiskInv

\* So it does when nothing moves.
LEMMA Stutters ==
  ASSUME JInv, UNCHANGED vars
  PROVE  JInv' /\ Image' = Image /\ Possible' = Possible
<1>1. IInv'
  BY InvNext DEF JInv
<1>2. UNCHANGED disk /\ UNCHANGED memory /\ UNCHANGED progress /\ lock' = lock
  BY DEF vars
<1>3. MemoryTypes'
  BY <1>2 DEF JInv, MemoryTypes, memory, pages, progress
<1>4. DiskInv' /\ Image' = Image /\ Possible' = Possible
  BY <1>2, DiskStays DEF JInv
<1>5. ASSUME NEW i \in Procs PROVE Memory(i)'
  <2>1. Same(i) /\ Memory(i)
    BY <1>2 DEF Same, JInv, memory, pages, progress
  <2>2. /\ Image' = Image /\ Synced' = Synced /\ Guarded' = Guarded
        /\ db' = db /\ journal' = journal /\ hotOnDisk' = hotOnDisk
    BY <1>2, DiskStays DEF disk, file
  <2>3. /\ Old(i)' = Old(i) /\ Fresh(i)' = Fresh(i) /\ Playback(i)' = Playback(i)
        /\ Count(i)' = Count(i) /\ Plain' = Plain
        /\ Reading(i)' = Reading(i) /\ Writing(i)' = Writing(i) /\ InDraft(i)' = InDraft(i)
    BY <2>1, <2>2 DEF Same, Old, Fresh, Playback, Count, Plain, Reading, Writing, InDraft
  <2>4. Draft(i)' = Draft(i)
    BY <2>1, <2>2, <2>3 DEF Same, Draft
  <2> QED
    BY <2>1, <2>2, <2>3, <2>4 DEF Same, Memory
<1> QED
  BY <1>1, <1>3, <1>4, <1>5 DEF JInv

\* Every step keeps the invariant.
LEMMA JInvNext == JInv /\ [Next]_vars => JInv'
BY StepKeeps, PowerLossKeeps, DeleteDbKeeps, Stutters DEF Next

\* What the disk may hold, and what every program has of it in memory.
THEOREM DiskInvariance == Spec => []JInv
BY JInvInit, JInvNext, PTL DEF Spec

\* Every variable of the pager has its type: a journal counts records it has,
\* of pages the database had, and what is to be written is in memory.
THEOREM PagerTypeOK == Spec => []TypeOK
<1>1. JInv => TypeOK
  BY DEF JInv, IInv, Types, MemoryTypes, DiskInv, Disk, Shape, Bytes, TypeOK
<1> QED
  BY <1>1, DiskInvariance, PTL

\* A journal that a live transaction depends on is not deleted by another
\* program that takes it for the journal of a crash.
THEOREM JournalStays == Spec => []LiveJournalStays
<1>1. ASSUME JInv, NEW i \in Procs, Writing(i), pc[i] # "unlock"
      PROVE  /\ journal # None /\ journal.size = orig[i]
             /\ \A p \in dirty[i] : p <= orig[i] => journal.recs[p] # None
             /\ state[i] = "dbmod" => journal.hot /\ Findable(journal) \in hotOnDisk
  <2>1. Types /\ Local(i) /\ Memory(i) /\ Findable(journal) \in hotOnDisk
    BY <1>1 DEF JInv, IInv, DiskInv, Disk, Shape
  <2>2. CASE InDraft(i)
    BY <2>1, <2>2, JournalType DEF Memory, Draft
  <2>3. CASE ~InDraft(i)
    <3>1. state[i] \in {"cachemod", "dbmod"} /\ pc[i] \in Replaying
      BY <1>1, <2>1, <2>3, RankValues DEF Types, Local, Closed, Starting, Reader, Locked, CacheMod,
         DbMod, InDraft, Own, Replaying, Flushing
    <3>2. dirty[i] = {}
      BY <2>1, <3>1 DEF Local, Clean
    <3> QED
      BY <1>1, <2>1, <2>3, <3>2, JournalType DEF Memory
  <2> QED
    BY <2>2, <2>3
<1>2. JInv => LiveJournalStays
  BY <1>1 DEF LiveJournalStays
<1> QED
  BY <1>2, DiskInvariance, PTL

\* Between two calls, a page in the memory of a program is that of the last
\* commit, or one that it has changed itself in its transaction.
THEOREM CacheIsCommitted == Spec => []MemoryIsCommitted
<1>1. ASSUME JInv, NEW i \in Procs, Idle(i), NEW p \in 1..size[i]
      PROVE  \/ cache[i][p] \in {None, Image[p]}
             \/ Writing(i) /\ (p > orig[i] \/ journal.recs[p] # None)
  <2>1. MemoryTypes /\ Memory(i) /\ Reading(i) /\ pc[i] = "idle"
    BY <1>1 DEF JInv, Idle
  <2>2. p \in Pages /\ p <= size[i] /\ orig[i] \in 0..LastPage
    BY <1>1, <2>1, PagerAssumption DEF MemoryTypes, Pages
  <2>3. CASE ~Writing(i)
    BY <2>1, <2>2, <2>3 DEF Memory, InDraft, Fresh
  <2>4. CASE Writing(i) /\ p <= orig[i] /\ journal.recs[p] = None
    <3>1. Draft(i)
      BY <2>1, <2>4 DEF Memory, InDraft, Own
    <3>2. p \notin dirty[i] /\ p \notin Recorded(journal)
      BY <2>2, <2>4, <3>1 DEF Draft, Recorded
    <3> QED
      BY <2>2, <2>4, <3>1, <3>2 DEF Draft
  <2>5. p <= orig[i] \/ p > orig[i]
    BY <2>2 DEF Pages
  <2> QED
    BY <2>3, <2>4, <2>5
<1>2. JInv => MemoryIsCommitted
  BY <1>1 DEF MemoryIsCommitted
<1> QED
  BY <1>2, DiskInvariance, PTL

-----------------------------------------------------------------------------
(***************************************************************************)
(* The pager implements AtomicFile.                                        *)
(***************************************************************************)
\* What AtomicFile calls drafts; and the calls that end a transaction.
Drafts == [i \in Procs |-> IF HasDraft(i) THEN Seen(i) ELSE None]
Past == {"truncate", "replay", "resync", "delete", "unlock"}

\* When a connection has something of its own to write.
LEMMA HasDraftIs ==
  /\ \A i \in Procs : state[i] \in DOMAIN Rank =>
       (HasDraft(i) <=> state[i] \in {"locked", "cachemod", "dbmod"} /\ pc[i] \notin Past)
  /\ \A i \in Procs : state'[i] \in DOMAIN Rank =>
       (HasDraft(i)' <=> state'[i] \in {"locked", "cachemod", "dbmod"} /\ pc'[i] \notin Past)
BY DEF HasDraft, Rank, Past

\* Only under a lock that keeps other writers out.
LEMMA DraftHasLock ==
  ASSUME JInv, NEW i \in Procs, HasDraft(i)
  PROVE  lock[i] \in Preparing
<1>1. Types /\ Local(i)
  BY DEF JInv, IInv
<1> QED
  BY <1>1, HasDraftIs DEF Types, Local, Closed, Starting, Reader, Locked, CacheMod, DbMod, Preparing

\* A draft is of pages that can be written.
LEMMA SeenIsImage ==
  ASSUME JInv, NEW i \in Procs, HasDraft(i)
  PROVE  Seen(i) \in Images /\ Seen(i) # None
<1>1. Types /\ MemoryTypes /\ Memory(i) /\ Local(i) /\ Good(Image) /\ cache[i] \in Images
  BY ImageIs DEF JInv, IInv, MemoryTypes
<1>2. db \in Images
  <2>1. CASE state[i] = "locked"
    BY <1>1, <2>1 DEF Memory, Plain, Good
  <2>2. CASE state[i] \in {"cachemod", "dbmod"}
    <3>1. Writing(i)
      BY <2>2, RankOf DEF Writing
    <3>2. pc[i] \in Own
      BY <1>1, <2>2, HasDraftIs DEF Types, Past, Own, Local, Closed, Starting, Reader, Locked,
         CacheMod, DbMod, Flushing, Replaying
    <3> QED
      BY <1>1, <3>1, <3>2 DEF Memory, InDraft, Draft
  <2> QED
    BY <1>1, <2>1, <2>2, HasDraftIs DEF Types
<1>3. Seen(i) \in Images
  BY <1>1, <1>2 DEF Seen, Images
<1> QED
  BY <1>3, NoneAssumption

SeenAll == \A i \in Procs : HasDraft(i) => Seen(i) \in Images /\ Seen(i) # None

\* After a step, what each connection sees is the image on the disk.
LEMMA SeenIsImageNext == JInv' => SeenAll'
<1>1. JInv => SeenAll
  BY SeenIsImage DEF SeenAll
<1> QED
  BY <1>1, PTL

ImageIsPossible == Image \in Possible

\* After a step, that image is one a power loss can leave.
LEMMA ImageIsPossibleNext == JInv' => ImageIsPossible'
<1>1. JInv => ImageIsPossible
  BY ImageIs DEF JInv, ImageIsPossible
<1> QED
  BY <1>1, PTL

\* The drafts of the other programs stay as they are.
LEMMA OthersDrafts ==
  ASSUME JInv, NEW i \in Procs, \A j \in Procs \ {i} : Same(j),
         lock[i] = "exclusive" \/ UNCHANGED file, NEW j \in Procs \ {i}
  PROVE  Drafts'[j] = Drafts[j]
<1>1. HasDraft(j)' = HasDraft(j)
  BY DEF Same, HasDraft
<1>2. HasDraft(j) => db' = db
  <2>1. HasDraft(j) => lock[j] # "none"
    BY DraftHasLock DEF Preparing
  <2> QED
    BY <2>1 DEF JInv, IInv, FL!MutualExclusion, file
<1>3. HasDraft(j) => Seen(j)' = Seen(j)
  BY <1>2 DEF Same, Seen
<1> QED
  BY <1>1, <1>3 DEF Drafts

\* How a step that is neither the begin nor the end of a transaction changes
\* its draft, and what the file may be.
Goes(i) ==
  /\ Image' = Image
  /\ \A j \in Procs \ {i} : Drafts'[j] = Drafts[j]
  /\ \/ Possible' = Possible /\ (HasDraft(i)' => HasDraft(i))
     \/ Possible' \subseteq Possible /\ Drafts'[i] = Drafts[i]

\* A step in memory is one of AtomicFile, or none.
LEMMA InMemoryGoes ==
  ASSUME JInv, NEW i \in Procs, InMemory(i), HasDraft(i)' => HasDraft(i)
  PROVE  Goes(i)
BY DiskStays, OthersDrafts DEF InMemory, Goes, disk

\* So is one on the disk that commits nothing.
LEMMA OnDiskGoes ==
  ASSUME JInv, NEW i \in Procs, OnDisk(i), Saying,
         \/ Possible' = Possible /\ (HasDraft(i)' => HasDraft(i))
         \/ ~HasDraft(i) /\ ~HasDraft(i)'
         \/ HasDraft(i) /\ HasDraft(i)' /\ UNCHANGED <<db, size, cache>>
  PROVE  Goes(i)
<1>1. UNCHANGED <<db, size, cache>> => Seen(i)' = Seen(i)
  BY DEF Seen
<1> QED
  BY <1>1, OthersDrafts DEF OnDisk, Saying, Goes, Drafts

\* So is each step towards a hot journal.
LEMMA RecoveringGoes ==
  ASSUME JInv, NEW i \in Procs, Recovering(i)
  PROVE  Goes(i)
<1>1. Types /\ Local(i)
  BY DEF JInv, IInv
<1>2. Moves(i) /\ Local(i)'
  BY RecoveringMoves DEF JInv
<1>3. state[i] = "open"
  BY <1>1 DEF Recovering, SharedLock, JournalExists, CheckReserved, CountPages, DropReserve,
     DropJournal, PeekJournal, HotLock, HotExclude, SearchFails, Found, CannotOpen, Validate, Types,
     Local, Closed, Starting, Reader, Locked, CacheMod, DbMod, Looking, Replaying, Flushing
<1>4. state'[i] \in {"open", "reader"}
  BY <1>1, <1>3 DEF Recovering, SharedLock, JournalExists, CheckReserved, CountPages, DropReserve,
     DropJournal, PeekJournal, HotLock, HotExclude, SearchFails, Leave, Found, CannotOpen, StepDown,
     GiveUp, Validate, Call, Set, Types
<1>5. ~HasDraft(i) /\ ~HasDraft(i)'
  BY <1>3, <1>4 DEF HasDraft, Rank
<1>6. CASE DropJournal(i) \/ Found(i)
  BY <1>5, <1>6, DeleteMemory, FoundMemory, OnDiskGoes
<1>7. CASE ~(DropJournal(i) \/ Found(i))
  BY <1>5, <1>7, LookingMemory, LeavingMemory, ValidateMemory, InMemoryGoes DEF Recovering
<1> QED
  BY <1>6, <1>7

\* So is each step of a playback.
LEMMA PlayingBackGoes ==
  ASSUME JInv, NEW i \in Procs, PlayingBack(i)
  PROVE  Goes(i)
<1>1. Types /\ Local(i) /\ state[i] \in DOMAIN Rank
  BY DEF JInv, IInv, Types
<1>2. CASE Truncate(i) \/ Replay(i) \/ Resync(i) \/ Delete(i)
  <2>1. ~HasDraft(i) /\ ~HasDraft(i)'
    BY <1>1, <1>2 DEF Truncate, Replay, Resync, Delete, Call, Set, Types, HasDraft
  <2> QED
    BY <1>2, <2>1, TruncateMemory, ReplayMemory, ResyncMemory, DeleteMemory, OnDiskGoes
<1>3. CASE UnlockDb(i)
  <2>1. ~HasDraft(i)'
    <3>1. state'[i] \in {"open", "reader"}
      BY <1>1, <1>3 DEF UnlockDb, Set, Types
    <3> QED
      BY <3>1 DEF HasDraft, Rank
  <2> QED
    BY <1>3, <2>1, UnlockMemory, InMemoryGoes
<1>4. CASE PagerError(i) \/ DeleteFails(i)
  <2>1. ~HasDraft(i)'
    <3>1. state'[i] = "open"
      BY <1>1, <1>4 DEF PagerError, DeleteFails, Leave, StepDown, GiveUp, Set, Types
    <3> QED
      BY <3>1 DEF HasDraft, Rank
  <2> QED
    BY <1>4, <2>1, LeavingMemory, InMemoryGoes
<1>5. CASE PagerRollback(i) \/ CommitFails(i)
  <2>1. ~HasDraft(i)'
    BY <1>1, <1>5 DEF PagerRollback, CommitFails, GoBack, Set, Types, HasDraft
  <2> QED
    BY <1>5, <2>1, GoBackMemory, InMemoryGoes
<1> QED
  BY <1>2, <1>3, <1>4, <1>5 DEF PlayingBack

\* So is each use but the beginning of a transaction.
LEMMA UsingGoes ==
  ASSUME JInv, NEW i \in Procs, Using(i), ~PagerBegin(i)
  PROVE  Goes(i)
<1>1. Types /\ Local(i) /\ state[i] \in DOMAIN Rank
  BY DEF JInv, IInv, Types
<1>2. CASE Open(i) \/ PagerClose(i) \/ EndRead(i)
  <2>1. ~HasDraft(i)'
    <3>1. state'[i] \in {"open", "closed"}
      BY <1>1, <1>2 DEF Open, PagerClose, EndRead, Leave, GiveUp, Set, Types
    <3> QED
      BY <3>1 DEF HasDraft, Rank
  <2> QED
    BY <1>2, <2>1, OpenMemory, LeavingMemory, InMemoryGoes
<1>3. CASE \E p \in Pages : Fetch(i, p)
  <2>1. HasDraft(i)' => HasDraft(i)
    BY <1>3 DEF Fetch, progress, HasDraft
  <2> QED
    BY <1>3, <2>1, ReaderFetchMemory, DraftFetchMemory, InMemoryGoes
<1>4. CASE \E p \in Pages : PagerStress(i, p)
  <2>1. HasDraft(i)' => HasDraft(i)
    BY <1>4 DEF PagerStress, Idle, HasDraft
  <2> QED
    BY <1>4, <2>1, DraftMemory, InMemoryGoes
<1>5. CASE \E p \in Pages : Write(i, p)
  <2>1. HasDraft(i)
    <3>1. state[i] \in {"locked", "cachemod", "dbmod"} /\ pc[i] = "idle"
      BY <1>1, <1>5, RankValues DEF Write, Idle
    <3> QED
      BY <1>1, <3>1, HasDraftIs DEF Past
  <2> QED
    BY <1>5, <2>1, ChangeMemory, OnDiskGoes DEF Saying
<1> QED
  BY <1>2, <1>3, <1>4, <1>5 DEF Using

\* So is each step of a commit but the last.
LEMMA CommittingGoes ==
  ASSUME JInv, NEW i \in Procs, Committing(i), ~CommitPhaseTwo(i)
  PROVE  Goes(i)
<1>1. Types /\ Local(i) /\ state[i] \in DOMAIN Rank
  BY DEF JInv, IInv, Types
<1>2. CASE CommitPhaseOne(i)
  <2>1. HasDraft(i)
    <3>1. state[i] \in {"cachemod", "dbmod"} /\ pc[i] = "idle"
      BY <1>1, <1>2, RankValues DEF CommitPhaseOne, Idle
    <3> QED
      BY <1>1, <3>1, HasDraftIs DEF Past
  <2> QED
    BY <1>2, <2>1, ChangeMemory, DraftMemory, OnDiskGoes, InMemoryGoes DEF Saying
<1>3. CASE CommitNothing(i)
  <2>1. ~HasDraft(i)'
    BY <1>1, <1>3 DEF CommitNothing, Call, Set, Types, HasDraft
  <2> QED
    BY <1>3, <2>1, CommitNothingMemory, InMemoryGoes
<1>4. CASE ExclusiveLock(i) \/ WriteBusy(i)
  <2>1. HasDraft(i)
    <3>1. state[i] = "cachemod" /\ pc[i] = "excl"
      BY <1>1, <1>4 DEF ExclusiveLock, WriteBusy, Local, Closed, Starting, Reader, Locked, CacheMod,
         DbMod, Looking, Replaying, Flushing
    <3> QED
      BY <1>1, <3>1, HasDraftIs DEF Past
  <2> QED
    BY <1>4, <2>1, DraftMemory, InMemoryGoes
<1>5. CASE JournalHeader(i) \/ SyncJournal(i) \/ SyncDb(i)
  <2>1. pc[i] \in Flushing /\ pc'[i] \in Flushing /\ state'[i] \in {state[i], "dbmod"}
    BY <1>1, <1>5 DEF JournalHeader, SyncJournal, SyncDb, Call, Set, Types, Flushing
  <2>2. HasDraft(i) /\ HasDraft(i)'
    <3>1. state[i] \in {"cachemod", "dbmod"}
      BY <2>1, FlushingPlace
    <3> QED
      BY <2>1, <3>1 DEF HasDraft, Rank, Flushing
  <2>3. UNCHANGED <<db, size, cache>>
    BY <1>5 DEF JournalHeader, SyncJournal, SyncDb, SyncFile, file, memory, pages
  <2> QED
    BY <1>5, <2>2, <2>3, JournalHeaderMemory, SyncJournalMemory, SyncDbMemory, OnDiskGoes
<1>6. CASE WriteSpilled(i) \/ WritePage(i)
  <2>1. pc[i] = "write" /\ MemoryTypes
    BY <1>6 DEF WriteSpilled, WritePage, JInv
  <2>2. HasDraft(i)
    <3>1. state[i] \in {"cachemod", "dbmod"}
      BY <2>1, FlushingPlace DEF Flushing
    <3> QED
      BY <2>1, <3>1 DEF HasDraft, Rank
  <2>3. PICK p \in dirty[i] : /\ p \notin needSync[i] /\ Store(p, cache[i][p])
                              /\ UNCHANGED <<journal, hotOnDisk>>
    <3>1. Draft(i)
      BY <2>1, FlushingPlace DEF Flushing
    <3> QED
      BY <1>6, <2>1, <3>1 DEF Draft, WriteSpilled, WritePage
  <2>4. Possible' = Possible
    BY <2>1, <2>3, DraftStored
  <2> QED
    BY <1>6, <2>2, <2>4, WriteSpilledMemory, WritePageMemory, OnDiskGoes
<1> QED
  BY <1>2, <1>3, <1>4, <1>5, <1>6 DEF Committing

\* So is a crash.
LEMMA CrashGoes ==
  ASSUME JInv, NEW i \in Procs, Crash(i)
  PROVE  Goes(i)
<1>1. ~HasDraft(i)'
  <2>1. state'[i] = "closed"
    BY DEF Crash, End
  <2> QED
    BY <2>1 DEF HasDraft, Rank
<1> QED
  BY <1>1, CrashMemory, InMemoryGoes

-----------------------------------------------------------------------------
\* Drafts as a function: one value changes, or all go.
LEMMA DraftsChange ==
  ASSUME NEW i \in Procs, \A j \in Procs \ {i} : Drafts'[j] = Drafts[j]
  PROVE  /\ Drafts' = [Drafts EXCEPT ![i] = Drafts'[i]]
         /\ ~HasDraft(i)' => Drafts' = [Drafts EXCEPT ![i] = None]
         /\ Drafts'[i] = Drafts[i] => Drafts' = Drafts
<1>1. Drafts = [j \in Procs |-> Drafts[j]] /\ Drafts' = [j \in Procs |-> Drafts'[j]]
  BY DEF Drafts
<1>2. ~HasDraft(i)' => Drafts'[i] = None
  BY DEF Drafts
<1> HIDE DEF Drafts
<1> QED
  BY <1>1, <1>2

\* A step of AtomicFile, or none.
Step == AF!Next \/ (Image' = Image /\ Possible' = Possible /\ Drafts' = Drafts)

\* Such a step is a step of AtomicFile.
LEMMA GoesRefines ==
  ASSUME JInv, JInv', NEW i \in Procs, Goes(i)
  PROVE  Step
<1>1. /\ Image' = Image /\ \A j \in Procs \ {i} : Drafts'[j] = Drafts[j]
      /\ \/ Possible' = Possible /\ (HasDraft(i)' => HasDraft(i))
         \/ Possible' \subseteq Possible /\ Drafts'[i] = Drafts[i]
  BY DEF Goes
<1>2. CASE Possible' \subseteq Possible /\ Drafts'[i] = Drafts[i]
  <2>1. Image' \in Possible'
    BY ImageIsPossibleNext DEF ImageIsPossible
  <2>2. Drafts' = Drafts
    BY <1>1, <1>2, DraftsChange
  <2>3. AF!Settle
    BY <1>1, <1>2, <2>1, <2>2 DEF AF!Settle, Drafts
  <2> QED
    BY <2>3 DEF Step, AF!Next
<1>3. CASE Possible' = Possible /\ HasDraft(i) /\ HasDraft(i)'
  <2>1. Drafts[i] # None
    BY <1>3, SeenIsImage DEF Drafts
  <2>2. Drafts'[i] \in Images
    BY <1>3, SeenIsImageNext DEF SeenAll, Drafts
  <2>3. Drafts' = [Drafts EXCEPT ![i] = Drafts'[i]]
    BY <1>1, DraftsChange
  <2>4. AF!Change(i)
    BY <1>1, <1>3, <2>1, <2>2, <2>3 DEF AF!Change, Drafts
  <2> QED
    BY <2>4 DEF Step, AF!Next
<1>4. CASE Possible' = Possible /\ ~HasDraft(i)'
  <2>1. Drafts' = [Drafts EXCEPT ![i] = None]
    BY <1>1, <1>4, DraftsChange
  <2>2. AF!Abandon(i)
    BY <1>1, <1>4, <2>1 DEF AF!Abandon, Drafts
  <2> QED
    BY <2>2 DEF Step, AF!Next
<1> QED
  BY <1>1, <1>2, <1>3, <1>4

\* PagerBegin is its Begin.
LEMMA BeginRefines ==
  ASSUME JInv, NEW i \in Procs, PagerBegin(i)
  PROVE  AF!Begin(i)
<1>1. Types /\ MemoryTypes /\ Memory(i) /\ InMemory(i) /\ Good(Image)
  BY BeginMemory, ImageIs DEF JInv, IInv
<1>2. state[i] = "reader" /\ pc[i] = "idle" /\ state'[i] = "locked" /\ pc'[i] = "idle"
  BY <1>1 DEF PagerBegin, Idle, Set, Types
<1>3. ~HasDraft(i) /\ HasDraft(i)'
  BY <1>2 DEF HasDraft, Rank
<1>4. \A j \in Procs \ {i} : ~HasDraft(j)
  <2>1. \A j \in Procs \ {i} : lock[j] \notin Preparing
    <3>1. lock'[i] = "reserved" /\ FL!MutualExclusion' /\ \A j \in Procs \ {i} : lock'[j] = lock[j]
      <4>1. FL!MutualExclusion'
        BY InvNext DEF JInv, IInv, Next, Using
      <4> QED
        BY <1>1, <4>1 DEF PagerBegin, FL!Reserve, FL!SetLock, Types, FL!LockTypeOK
    <3> QED
      BY <3>1 DEF FL!MutualExclusion, FL!Pendings, Preparing
  <2> QED
    BY <2>1, DraftHasLock
<1>5. Drafts = [j \in Procs |-> None]
  BY <1>3, <1>4 DEF Drafts
<1>6. Seen(i)' = Image
  <2>1. UNCHANGED <<db, size, cache>>
    BY DEF PagerBegin, disk, file
  <2>2. Reading(i) /\ ~InDraft(i)
    BY <1>2, RankOf DEF Reading, InDraft, Writing
  <2>3. db = Image /\ Full(Image, size[i]) /\ \A p \in Pages : cache[i][p] # None => cache[i][p] = Image[p]
    BY <1>1, <1>2, <2>2 DEF Memory, Plain, Fresh
  <2>4. \A p \in Pages : p > size[i] => Image[p] = None
    BY <1>1, <2>3 DEF Full, MemoryTypes, Pages
  <2>5. Seen(i) = [p \in Pages |-> Image[p]]
    BY <2>3, <2>4 DEF Seen
  <2>6. Image = [p \in Pages |-> Image[p]]
    BY <1>1 DEF Good, Images
  <2> QED
    BY <2>1, <2>5, <2>6 DEF Seen
<1>7. Image' = Image /\ Possible' = Possible
  BY <1>1, DiskStays DEF InMemory
<1>8. \A j \in Procs \ {i} : Drafts'[j] = Drafts[j]
  BY <1>1, OthersDrafts DEF InMemory, disk
<1>9. Drafts' = [Drafts EXCEPT ![i] = Image]
  <2>1. Drafts'[i] = Image
    BY <1>3, <1>6 DEF Drafts
  <2> QED
    BY <1>8, <2>1, DraftsChange
<1> QED
  BY <1>5, <1>7, <1>9 DEF AF!Begin, AF!NoDrafts, Drafts

\* CommitPhaseTwo is its Commit: the draft becomes the file at once.
LEMMA CommitRefines ==
  ASSUME JInv, NEW i \in Procs, CommitPhaseTwo(i)
  PROVE  AF!Commit(i)
<1>1. /\ OnDisk(i) /\ lock[i] = "exclusive" /\ HasDraft(i) /\ ~HasDraft(i)'
      /\ Image' = Seen(i) /\ Possible' = {Image, Image'}
  BY CommitMemory
<1>2. Drafts[i] = Seen(i) /\ Seen(i) # None
  BY <1>1, SeenIsImage DEF Drafts
<1>3. Drafts' = [Drafts EXCEPT ![i] = None]
  BY <1>1, OthersDrafts, DraftsChange DEF OnDisk
<1> QED
  BY <1>1, <1>2, <1>3 DEF AF!Commit, Drafts

\* Every step of the pager is a step of AtomicFile, or none of it.
LEMMA NextRefines == JInv /\ JInv' /\ [Next]_vars => Step
<1> SUFFICES ASSUME JInv, JInv', [Next]_vars PROVE Step
  OBVIOUS
<1>1. ASSUME NEW i \in Procs, Recovering(i) \/ PlayingBack(i) \/ Using(i) \/ Committing(i) \/ Crash(i)
      PROVE  Step
  <2>1. CASE PagerBegin(i)
    BY <2>1, BeginRefines DEF Step, AF!Next
  <2>2. CASE CommitPhaseTwo(i)
    BY <2>2, CommitRefines DEF Step, AF!Next
  <2>3. CASE ~PagerBegin(i) /\ ~CommitPhaseTwo(i)
    BY <1>1, <2>3, RecoveringGoes, PlayingBackGoes, UsingGoes, CommittingGoes, CrashGoes, GoesRefines
  <2> QED
    BY <2>1, <2>2, <2>3
<1>2. CASE PowerLoss
  <2>1. \A i \in Procs : ~HasDraft(i)'
    <3>1. \A i \in Procs : state'[i] = "closed"
      BY <1>2 DEF PowerLoss, End
    <3> QED
      BY <3>1 DEF HasDraft, Rank
  <2>2. Drafts' = [i \in Procs |-> None]
    BY <2>1 DEF Drafts
  <2>3. AF!PowerLoss
    BY <1>2, <2>2, PowerLossKeeps DEF AF!PowerLoss, AF!NoDrafts, Drafts
  <2> QED
    BY <2>3 DEF Step, AF!Next
<1>3. CASE DeleteDb
  <2>1. \A i \in Procs : ~HasDraft(i) /\ ~HasDraft(i)'
    <3>1. \A i \in Procs : state[i] = "closed" /\ state' = state
      BY <1>3 DEF DeleteDb, progress
    <3> QED
      BY <3>1 DEF HasDraft, Rank
  <2>2. Drafts' = [i \in Procs |-> None] /\ Drafts = [i \in Procs |-> None]
    BY <2>1 DEF Drafts
  <2>3. AF!Remove
    BY <1>3, <2>2, DeleteDbKeeps DEF AF!Remove, AF!NoDrafts, Drafts
  <2> QED
    BY <2>3 DEF Step, AF!Next
<1>4. CASE UNCHANGED vars
  <2>1. Image' = Image /\ Possible' = Possible
    BY <1>4, Stutters
  <2>2. UNCHANGED <<state, pc, size, cache, db>>
    BY <1>4 DEF vars, progress, memory, pages, disk, file
  <2>3. \A i \in Procs : HasDraft(i)' = HasDraft(i) /\ Seen(i)' = Seen(i)
    BY <2>2 DEF HasDraft, Seen
  <2>4. Drafts' = Drafts
    BY <2>3 DEF Drafts
  <2> QED
    BY <2>1, <2>4 DEF Step
<1> QED
  BY <1>1, <1>2, <1>3, <1>4 DEF Next

\* The pager implements AtomicFile.
THEOREM PagerImplementsAtomicFile == Spec => FileIsAtomic
<1>1. Init => AF!Init
  <2> SUFFICES ASSUME Init PROVE AF!Init
    OBVIOUS
  <2>1. \A i \in Procs : ~HasDraft(i)
    <3>1. \A i \in Procs : state[i] = "closed"
      BY DEF Init
    <3> QED
      BY <3>1 DEF HasDraft, Rank
  <2> QED
    BY <2>1, JInvInit DEF AF!Init, AF!NoDrafts
<1>2. JInv /\ JInv' /\ [Next]_vars =>
        [AF!Next]_<<Image, Possible, [i \in Procs |-> IF HasDraft(i) THEN Seen(i) ELSE None]>>
  BY NextRefines DEF Step, Drafts
<1> QED
  BY <1>1, <1>2, DiskInvariance, PTL DEF Spec, FileIsAtomic, AF!Spec

=============================================================================
