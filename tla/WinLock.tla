------------------------------ MODULE WinLock -------------------------------
(***************************************************************************)
(* How SQLite makes the five levels of FileLock on Windows, out of locks   *)
(* on ranges of bytes of the database file (winLock, winUnlock,            *)
(* winCheckReservedLock of sqlite3.c).  Between any two calls into Windows *)
(* another process may come, or this one may end.  Virus scanners and      *)
(* indexers may lock the two single bytes for a moment, too, but no one    *)
(* other than SQLite locks the bytes that its readers share.               *)
(***************************************************************************)
EXTENDS Naturals

CONSTANTS
  Handles,             \* the winFile of each process that has the file open
  Tries,               \* how often winLock asks for PENDING_BYTE
  Outsiders            \* the ranges that programs without SQLite may lock

ASSUME TriesAssumption == Tries \in Nat \ {0}
ASSUME OutsidersAssumption == Outsiders \subseteq {"PENDING", "RESERVED"}

VARIABLES
  pc,                  \* pc[h]: the call into Windows that comes next
  goal,                \* goal[h]: the level that winLock or winUnlock is after
  cnt,                 \* cnt[h]: the tries that are left
  locktype,            \* locktype[h]: pFile->locktype
  bytes                \* bytes[b][h]: the lock h has on the range b

vars == <<pc, goal, cnt, locktype, bytes>>

\* PENDING_BYTE, RESERVED_BYTE, and the SHARED_SIZE bytes at SHARED_FIRST.
Ranges == {"PENDING", "RESERVED", "SHARED"}
Modes == {"free", "read", "write"}

Rank == [none |-> 0, shared |-> 1, reserved |-> 2, pending |-> 3, exclusive |-> 4]
LockTypes == DOMAIN Rank

Places == {"idle", "lockPending", "getRead", "dropPending", "lockReserved",
           "dropRead", "lockShared", "regainRead", "dropExclusive", "keepRead",
           "dropReserved", "unlockRead", "unlockPending", "unprobe"}

\* At most one handle writes to a range, and then no other reads it.
Solo(b, h) == \A j \in Handles \ {h} : bytes[b][j] = "free"

TypeOK ==
  /\ pc \in [Handles -> Places]
  /\ goal \in [Handles -> LockTypes]
  /\ cnt \in [Handles -> 0..Tries]
  /\ locktype \in [Handles -> LockTypes]
  /\ bytes \in [Ranges -> [Handles -> Modes]]
  /\ \A b \in Ranges, h \in Handles : bytes[b][h] = "write" => Solo(b, h)

Init ==
  /\ pc = [h \in Handles |-> "idle"]
  /\ goal = [h \in Handles |-> "none"]
  /\ cnt = [h \in Handles |-> 0]
  /\ locktype = [h \in Handles |-> "none"]
  /\ bytes = [b \in Ranges |-> [h \in Handles |-> "free"]]

-----------------------------------------------------------------------------
(***************************************************************************)
(* LockFileEx with LOCKFILE_FAIL_IMMEDIATELY, and UnlockFileEx.  A handle  *)
(* is in its own way, too: it has to drop a read lock before it can write. *)
(***************************************************************************)
CanLock(h, b, mode) ==
  \A j \in Handles : /\ bytes[b][j] # "write"
                     /\ mode = "write" => bytes[b][j] = "free"

SetByte(h, b, mode) == bytes' = [bytes EXCEPT ![b][h] = mode]

Refused(h, b, mode) == ~CanLock(h, b, mode) \/ b \in Outsiders

LockBytes(h, b, mode) == CanLock(h, b, mode) /\ SetByte(h, b, mode)
UnlockBytes(h, b) == SetByte(h, b, "free")

\* The call may fail, and it is for its caller to see that.
winGetReadLock(h) ==
  IF CanLock(h, "SHARED", "read") THEN SetByte(h, "SHARED", "read") ELSE UNCHANGED bytes

Goto(h, p) == pc' = [pc EXCEPT ![h] = p]
SetType(h, t) == locktype' = [locktype EXCEPT ![h] = t]

\* What the call wanted is forgotten with it.
Return(h, t) ==
  /\ Goto(h, "idle") /\ SetType(h, t)
  /\ goal' = [goal EXCEPT ![h] = "none"] /\ cnt' = [cnt EXCEPT ![h] = 0]

-----------------------------------------------------------------------------
(***************************************************************************)
(* winLock.  The pager asks for SHARED first, for RESERVED from SHARED,    *)
(* for EXCLUSIVE from any other.                                           *)
(***************************************************************************)
MayAsk(h, t) ==
  /\ pc[h] = "idle"
  /\ Rank[locktype[h]] < Rank[t]
  /\ \/ t = "shared"
     \/ t = "reserved" /\ locktype[h] = "shared"
     \/ t = "exclusive" /\ locktype[h] # "none"

\* Variant: who has RESERVED does not announce that it wants to write alone.
FirstCallUnannounced(h, t) ==
  IF t = "reserved" THEN "lockReserved"
  ELSE IF locktype[h] \in {"reserved", "pending"} THEN "dropRead" ELSE "lockPending"

FirstCall(h, t) ==
  CASE t = "reserved" -> "lockReserved"
    [] t = "exclusive" /\ locktype[h] = "pending" -> "dropRead"
    [] OTHER -> "lockPending"

winLock(h, t) ==
  /\ MayAsk(h, t)
  /\ Goto(h, FirstCall(h, t))
  /\ goal' = [goal EXCEPT ![h] = t]
  /\ cnt' = [cnt EXCEPT ![h] = Tries]
  /\ UNCHANGED <<locktype, bytes>>

LockPending(h) ==
  /\ pc[h] = "lockPending"
  /\ LockBytes(h, "PENDING", "write")
  /\ Goto(h, IF goal[h] = "shared" THEN "getRead" ELSE "dropRead")
  /\ UNCHANGED <<goal, cnt, locktype>>

\* SQLITE_BUSY after the last try, with nothing gained.
LockPendingFails(h) ==
  /\ pc[h] = "lockPending"
  /\ Refused(h, "PENDING", "write")
  /\ \/ /\ cnt[h] > 1
        /\ cnt' = [cnt EXCEPT ![h] = @ - 1]
        /\ UNCHANGED <<pc, goal, locktype>>
     \/ cnt[h] = 1 /\ Return(h, locktype[h])
  /\ UNCHANGED bytes

\* ERROR_INVALID_HANDLE is not a lock of another: no second try, no BUSY.
LockPendingInvalid(h) ==
  /\ pc[h] = "lockPending"
  /\ Return(h, locktype[h])
  /\ UNCHANGED bytes

\* The read lock of a SHARED lock, got or not; PENDING_BYTE was for the
\* time of this call only.
GetRead(h) ==
  /\ pc[h] = "getRead"
  /\ winGetReadLock(h)
  /\ Goto(h, "dropPending")
  /\ UNCHANGED <<goal, cnt, locktype>>

\* Variant: PENDING_BYTE stays, as it does in an attempt at EXCLUSIVE.
DropPendingForgets(h) ==
  /\ pc[h] = "dropPending"
  /\ UNCHANGED bytes
  /\ Return(h, IF bytes["SHARED"][h] = "read" THEN "shared" ELSE "none")

DropPending(h) ==
  /\ pc[h] = "dropPending"
  /\ UnlockBytes(h, "PENDING")
  /\ Return(h, IF bytes["SHARED"][h] = "read" THEN "shared" ELSE "none")

LockReserved(h) ==
  /\ pc[h] = "lockReserved"
  /\ \/ LockBytes(h, "RESERVED", "write") /\ Return(h, "reserved")
     \/ /\ Refused(h, "RESERVED", "write")
        /\ Return(h, "shared") /\ UNCHANGED bytes

\* On the way to EXCLUSIVE the read lock is given up,
DropRead(h) ==
  /\ pc[h] = "dropRead"
  /\ UnlockBytes(h, "SHARED")
  /\ Goto(h, "lockShared")
  /\ UNCHANGED <<goal, cnt, locktype>>

\* Variant: it asks for one byte of the range, which is not that of another.
LockSharedOneByte(h) ==
  /\ pc[h] = "lockShared"
  /\ SetByte(h, "SHARED", "write")
  /\ Return(h, "exclusive")

LockShared(h) ==
  /\ pc[h] = "lockShared"
  /\ LockBytes(h, "SHARED", "write")
  /\ Return(h, "exclusive")

LockSharedFails(h) ==
  /\ pc[h] = "lockShared"
  /\ ~CanLock(h, "SHARED", "write")
  /\ Goto(h, "regainRead")
  /\ UNCHANGED <<goal, cnt, locktype, bytes>>

\* and taken back when there are readers.  SQLite does not look whether
\* that succeeds.
RegainRead(h) ==
  /\ pc[h] = "regainRead"
  /\ winGetReadLock(h)
  /\ Return(h, "pending")

-----------------------------------------------------------------------------
(***************************************************************************)
(* winUnlock, to SHARED or to nothing, in the order of its calls.          *)
(***************************************************************************)
winUnlock(h, t) ==
  /\ pc[h] = "idle"
  /\ t \in {"none", "shared"} /\ Rank[locktype[h]] > Rank[t]
  /\ goal' = [goal EXCEPT ![h] = t]
  /\ Goto(h, "dropExclusive")
  /\ UNCHANGED <<cnt, locktype, bytes>>

Holds(h, t) == Rank[locktype[h]] >= Rank[t]

UnlockIf(need, h, b) == IF need THEN UnlockBytes(h, b) ELSE UNCHANGED bytes

DropExclusive(h) ==
  /\ pc[h] = "dropExclusive"
  /\ UnlockIf(Holds(h, "exclusive"), h, "SHARED")
  /\ Goto(h, "keepRead")
  /\ UNCHANGED <<goal, cnt, locktype>>

\* Variant: the step down from EXCLUSIVE to SHARED gives up everything.
KeepReadNot(h) ==
  /\ pc[h] = "keepRead"
  /\ UNCHANGED bytes
  /\ Goto(h, "dropReserved")
  /\ UNCHANGED <<goal, cnt, locktype>>

KeepRead(h) ==
  /\ pc[h] = "keepRead"
  /\ IF Holds(h, "exclusive") /\ goal[h] = "shared" THEN winGetReadLock(h) ELSE UNCHANGED bytes
  /\ Goto(h, "dropReserved")
  /\ UNCHANGED <<goal, cnt, locktype>>

DropReserved(h) ==
  /\ pc[h] = "dropReserved"
  /\ UnlockIf(Holds(h, "reserved"), h, "RESERVED")
  /\ Goto(h, "unlockRead")
  /\ UNCHANGED <<goal, cnt, locktype>>

UnlockRead(h) ==
  /\ pc[h] = "unlockRead"
  /\ UnlockIf(goal[h] = "none", h, "SHARED")
  /\ Goto(h, "unlockPending")
  /\ UNCHANGED <<goal, cnt, locktype>>

UnlockPending(h) ==
  /\ pc[h] = "unlockPending"
  /\ UnlockIf(Holds(h, "pending"), h, "PENDING")
  /\ Return(h, goal[h])

-----------------------------------------------------------------------------
(***************************************************************************)
(* winCheckReservedLock asks by taking a read lock, which it gives back.   *)
(***************************************************************************)
winCheckReservedLock(h) ==
  /\ pc[h] = "idle" /\ locktype[h] = "shared"
  /\ LockBytes(h, "RESERVED", "read")
  /\ Goto(h, "unprobe")
  /\ UNCHANGED <<goal, cnt, locktype>>

EndProbe(h) ==
  /\ pc[h] = "unprobe"
  /\ UnlockBytes(h, "RESERVED")
  /\ Return(h, "shared")

\* Windows gives back what a process held that ended, and another begins.
Crash(h) ==
  /\ Return(h, "none")
  /\ bytes' = [b \in Ranges |-> [bytes[b] EXCEPT ![h] = "free"]]

Step(h) ==
  \/ LockPending(h) \/ LockPendingFails(h) \/ LockPendingInvalid(h)
  \/ GetRead(h) \/ DropPending(h)
  \/ LockReserved(h) \/ DropRead(h) \/ LockShared(h) \/ LockSharedFails(h)
  \/ RegainRead(h) \/ DropExclusive(h) \/ KeepRead(h) \/ DropReserved(h)
  \/ UnlockRead(h) \/ UnlockPending(h) \/ EndProbe(h)

Next ==
  \E h \in Handles :
    \/ \E t \in LockTypes : winLock(h, t) \/ winUnlock(h, t)
    \/ winCheckReservedLock(h)
    \/ Step(h)
    \/ Crash(h)

Spec == Init /\ [][Next]_vars

-----------------------------------------------------------------------------
(***************************************************************************)
(* The level that the ranges give a handle.  PENDING_BYTE counts when it   *)
(* is there to stay, not while a SHARED lock is being taken.               *)
(***************************************************************************)
Staying(h) == bytes["PENDING"][h] = "write" /\ pc[h] \notin {"getRead", "dropPending"}

Level(h) ==
  IF bytes["SHARED"][h] = "write" THEN "exclusive"
  ELSE IF bytes["RESERVED"][h] = "write"
    THEN IF Staying(h) THEN "pending" ELSE "reserved"
    ELSE IF Staying(h) THEN "recovering"
         ELSE IF bytes["SHARED"][h] = "read" THEN "shared" ELSE "none"

FL == INSTANCE FileLock WITH lock <- [h \in Handles |-> Level(h)]

\* Whatever comes between two calls of winLock, winUnlock and
\* winCheckReservedLock, the ranges keep the rules of the five levels.
LocksKeepPromises == FL!Spec

\* Who writes to the file is alone with it, one process at a time prepares
\* changes, and one at a time waits for the readers to go: whatever part of
\* a lock another has just gained, given back, or left behind by ending.
OneWritesAlone == FL!MutualExclusion

\* Between two calls of the pager a handle has the lock that its locktype
\* says it has, also where no one looked whether the read lock came back.
LockTypeTrue ==
  \A h \in Handles : pc[h] = "idle" =>
    \/ Level(h) = locktype[h]
    \/ Level(h) = "recovering" /\ locktype[h] = "pending"

\* While a process waits to write alone, it still counts as a reader.
\* No one can come and write in the moment in which it has no read lock.
ReadLockComesBack ==
  \A h \in Handles : pc[h] = "idle" /\ locktype[h] # "none" => bytes["SHARED"][h] # "free"
=============================================================================
