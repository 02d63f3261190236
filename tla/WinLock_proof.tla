--------------------------- MODULE WinLock_proof ----------------------------
(***************************************************************************)
(* For any number of processes: the byte ranges of WinLock implement the   *)
(* five levels of FileLock, and locktype says which of them was reached.   *)
(***************************************************************************)
EXTENDS WinLock, TLAPS

Passing(h) == pc[h] \in {"getRead", "dropPending"}

P(h) == bytes["PENDING"][h]
R(h) == bytes["RESERVED"][h]
S(h) == bytes["SHARED"][h]

\* What a handle holds of each range between two calls.
Steady(h) ==
  /\ P(h) = IF locktype[h] \in {"pending", "exclusive"} THEN "write" ELSE "free"
  /\ S(h) = CASE locktype[h] = "none" -> "free"
              [] locktype[h] = "exclusive" -> "write"
              [] OTHER -> "read"
  /\ locktype[h] \in {"none", "shared"} => R(h) = "free"
  /\ locktype[h] = "reserved" => R(h) = "write"
  /\ R(h) # "read"

Waiting(h) ==
  /\ pc[h] \in {"lockPending", "lockReserved"}
  /\ Steady(h)
  /\ pc[h] = "lockReserved" => locktype[h] = "shared"
  /\ pc[h] = "lockPending" =>
       \/ goal[h] = "shared" /\ locktype[h] = "none"
       \/ goal[h] = "exclusive" /\ locktype[h] \in {"shared", "reserved"}

Sharing(h) ==
  /\ Passing(h) /\ goal[h] = "shared" /\ locktype[h] = "none"
  /\ P(h) = "write" /\ R(h) = "free"
  /\ S(h) = IF pc[h] = "getRead" THEN "free" ELSE "read"

Excluding(h) ==
  /\ pc[h] \in {"dropRead", "lockShared", "regainRead"}
  /\ P(h) = "write" /\ R(h) # "read"
  /\ S(h) = IF pc[h] = "dropRead" THEN "read" ELSE "free"

Probing(h) ==
  /\ pc[h] = "unprobe" /\ locktype[h] = "shared"
  /\ P(h) = "free" /\ S(h) = "read" /\ R(h) = "read"

Leaving(h) ==
  /\ pc[h] \in {"dropExclusive", "keepRead", "dropReserved", "unlockRead", "unlockPending"}
  /\ goal[h] \in {"none", "shared"} /\ locktype[h] # "none"
  /\ goal[h] = "shared" => locktype[h] # "shared"
  /\ P(h) = IF locktype[h] \in {"pending", "exclusive"} THEN "write" ELSE "free"
  /\ pc[h] = "dropExclusive" => Steady(h)
  /\ pc[h] = "keepRead" => S(h) = IF locktype[h] = "exclusive" THEN "free" ELSE "read"
  /\ pc[h] \in {"dropReserved", "unlockRead"} =>
       S(h) = IF locktype[h] = "exclusive" /\ goal[h] = "none" THEN "free" ELSE "read"
  /\ pc[h] = "unlockPending" => S(h) = IF goal[h] = "none" THEN "free" ELSE "read"
  /\ R(h) # "read"
  /\ locktype[h] = "shared" => R(h) = "free"
  /\ pc[h] \in {"unlockRead", "unlockPending"} => R(h) = "free"

HandleOK(h) ==
  \/ pc[h] = "idle" /\ Steady(h)
  \/ Waiting(h) \/ Sharing(h) \/ Excluding(h) \/ Probing(h) \/ Leaving(h)

IInv == TypeOK /\ \A h \in Handles : HandleOK(h)

-----------------------------------------------------------------------------
\* What a step of h leaves alone of the other handles.
Frame(h) ==
  \A j \in Handles \ {h} :
    /\ pc'[j] = pc[j] /\ goal'[j] = goal[j] /\ locktype'[j] = locktype[j]
    /\ \A b \in Ranges : bytes'[b][j] = bytes[b][j]

BytesOK ==
  /\ bytes \in [Ranges -> [Handles -> Modes]]
  /\ \A b \in Ranges, h \in Handles : bytes[b][h] = "write" => Solo(b, h)

\* The order of the locks, spelled out.
LEMMA RankValues ==
  /\ LockTypes = {"none", "shared", "reserved", "pending", "exclusive"}
  /\ Rank["none"] = 0 /\ Rank["shared"] = 1 /\ Rank["reserved"] = 2
  /\ Rank["pending"] = 3 /\ Rank["exclusive"] = 4
BY DEF LockTypes, Rank

\* What it is to hold a lock.
LEMMA RankOrder ==
  ASSUME NEW h \in Handles, locktype[h] \in LockTypes
  PROVE  /\ Holds(h, "exclusive") <=> locktype[h] = "exclusive"
         /\ Holds(h, "pending") <=> locktype[h] \in {"pending", "exclusive"}
         /\ Holds(h, "reserved") <=> locktype[h] \in {"reserved", "pending", "exclusive"}
         /\ Rank[locktype[h]] > Rank["none"] <=> locktype[h] # "none"
         /\ Rank[locktype[h]] > Rank["shared"] <=> locktype[h] \notin {"none", "shared"}
BY RankValues DEF Holds

\* A lock that may be had, or is given back, keeps the ranges consistent.
LEMMA SetByteOK ==
  ASSUME BytesOK, NEW h \in Handles, NEW b \in Ranges, NEW m \in Modes,
         SetByte(h, b, m), m = "free" \/ CanLock(h, b, m)
  PROVE  /\ BytesOK'
         /\ bytes'[b][h] = m
         /\ \A c \in Ranges, j \in Handles : c # b \/ j # h => bytes'[c][j] = bytes[c][j]
<1>1. /\ bytes' \in [Ranges -> [Handles -> Modes]]
      /\ bytes'[b][h] = m
      /\ \A c \in Ranges, j \in Handles : c # b \/ j # h => bytes'[c][j] = bytes[c][j]
  BY DEF BytesOK, SetByte
<1>2. ASSUME NEW c \in Ranges, NEW k \in Handles, bytes'[c][k] = "write",
             NEW j \in Handles, j # k
      PROVE  bytes'[c][j] = "free"
  BY <1>1, <1>2 DEF BytesOK, Solo, CanLock, Modes
<1> QED
  BY <1>1, <1>2 DEF BytesOK, Solo

\* The invariant holds at the start.
LEMMA TypeInit == Init => IInv
<1> SUFFICES ASSUME Init PROVE IInv
  OBVIOUS
<1>1. TypeOK
  BY TriesAssumption, RankValues DEF Init, TypeOK, Places, Ranges, Modes, Solo
<1>2. ASSUME NEW h \in Handles PROVE pc[h] = "idle" /\ Steady(h)
  BY DEF Init, Steady, P, R, S, Ranges
<1> QED
  BY <1>1, <1>2 DEF IInv, HandleOK

\* Who writes all the SHARED bytes has PENDING_BYTE, and so on: what the
\* levels need to know of a handle wherever it is.
LEMMA HandleFacts ==
  ASSUME NEW h \in Handles, HandleOK(h)
  PROVE  /\ P(h) # "read"
         /\ S(h) = "write" => P(h) = "write"
         /\ R(h) = "write" => S(h) # "free" \/ (P(h) = "write" /\ ~Passing(h))
BY DEF HandleOK, Steady, Waiting, Sharing, Excluding, Probing, Leaving, Passing

\* A step of one handle keeps what is true of the others.
LEMMA OthersStay ==
  ASSUME \A j \in Handles : HandleOK(j), NEW h \in Handles, Frame(h), HandleOK(h)'
  PROVE  \A j \in Handles : HandleOK(j)'
<1> SUFFICES ASSUME NEW j \in Handles, j # h PROVE HandleOK(j)'
  OBVIOUS
<1>1. pc'[j] = pc[j] /\ goal'[j] = goal[j] /\ locktype'[j] = locktype[j]
  BY DEF Frame
<1>2. P(j)' = P(j) /\ R(j)' = R(j) /\ S(j)' = S(j)
  BY DEF Frame, P, R, S, Ranges
<1>3. Steady(j)' = Steady(j)
  BY <1>1, <1>2 DEF Steady
<1> QED
  BY <1>1, <1>2, <1>3
  DEF HandleOK, Waiting, Sharing, Excluding, Probing, Leaving, Passing

-----------------------------------------------------------------------------
\* What is not about the ranges has its type after every step, and the
\* other handles keep what they have.
Plain ==
  /\ pc \in [Handles -> Places]
  /\ goal \in [Handles -> LockTypes]
  /\ cnt \in [Handles -> 0..Tries]
  /\ locktype \in [Handles -> LockTypes]

Moves(h) ==
  \A j \in Handles \ {h} : pc'[j] = pc[j] /\ goal'[j] = goal[j] /\ locktype'[j] = locktype[j]

HandleNext(h) ==
  \/ \E t \in LockTypes : winLock(h, t) \/ winUnlock(h, t)
  \/ winCheckReservedLock(h)
  \/ Step(h)
  \/ Crash(h)

\* A step of a handle keeps the invariant, one level at a time.
LEMMA PlainStep ==
  ASSUME Plain, NEW h \in Handles, HandleNext(h)
  PROVE  Plain' /\ Moves(h)
<1>1. ASSUME NEW t \in LockTypes, Return(h, t) PROVE Plain' /\ Moves(h)
  BY <1>1, TriesAssumption, RankValues DEF Plain, Moves, Return, Goto, SetType, Places
<1>2. ASSUME NEW p \in Places, Goto(h, p), UNCHANGED <<goal, cnt, locktype>>
      PROVE  Plain' /\ Moves(h)
  BY <1>2 DEF Plain, Moves, Goto
<1>3. ASSUME NEW t \in LockTypes, winLock(h, t) PROVE Plain' /\ Moves(h)
  <2>1. FirstCall(h, t) \in Places
    BY DEF FirstCall, Places
  <2> QED
    BY <1>3, <2>1, TriesAssumption DEF winLock, Plain, Moves, Goto
<1>4. ASSUME NEW t \in LockTypes, winUnlock(h, t) PROVE Plain' /\ Moves(h)
  BY <1>4 DEF winUnlock, Plain, Moves, Goto, Places
<1>5. CASE LockPendingFails(h) \/ LockPendingInvalid(h)
  BY <1>5, <1>1, TriesAssumption DEF LockPendingFails, LockPendingInvalid, Plain, Moves
<1>6. CASE LockPending(h) \/ GetRead(h) \/ DropRead(h) \/ LockSharedFails(h)
  BY <1>6, <1>2 DEF LockPending, GetRead, DropRead, LockSharedFails, Places
<1>7. CASE DropExclusive(h) \/ KeepRead(h) \/ DropReserved(h) \/ UnlockRead(h)
           \/ winCheckReservedLock(h)
  BY <1>7, <1>2 DEF DropExclusive, KeepRead, DropReserved, UnlockRead, winCheckReservedLock, Places
<1>8. CASE DropPending(h) \/ LockReserved(h) \/ LockShared(h) \/ RegainRead(h)
  BY <1>8, <1>1, RankValues DEF DropPending, LockReserved, LockShared, RegainRead
<1>9. CASE UnlockPending(h) \/ EndProbe(h) \/ Crash(h)
  BY <1>9, <1>1, RankValues DEF UnlockPending, EndProbe, Crash, Plain
<1> QED
  BY <1>3, <1>4, <1>5, <1>6, <1>7, <1>8, <1>9 DEF HandleNext, Step

\* A read lock can be had by whoever has PENDING_BYTE.
LEMMA ReadersComeBack ==
  ASSUME IInv, NEW h \in Handles, P(h) = "write", S(h) # "write"
  PROVE  CanLock(h, "SHARED", "read")
<1> SUFFICES ASSUME NEW j \in Handles, S(j) = "write" PROVE FALSE
  BY DEF CanLock, S
<1>1. j # h /\ P(j) = "write"
  BY HandleFacts DEF IInv
<1> QED
  BY <1>1 DEF IInv, TypeOK, Solo, P, Ranges

\* The ranges stay consistent, and only those of h change.
LEMMA BytesStep ==
  ASSUME IInv, NEW h \in Handles, HandleNext(h)
  PROVE  BytesOK' /\ \A j \in Handles \ {h}, b \in Ranges : bytes'[b][j] = bytes[b][j]
<1> DEFINE Good == /\ BytesOK'
                   /\ \A j \in Handles \ {h}, b \in Ranges : bytes'[b][j] = bytes[b][j]
<1> SUFFICES Good
  OBVIOUS
<1>1. BytesOK
  BY DEF IInv, TypeOK, BytesOK
<1>2. ASSUME UNCHANGED bytes PROVE Good
  BY <1>1, <1>2 DEF BytesOK, Solo
<1>3. ASSUME NEW b \in Ranges, NEW m \in Modes, LockBytes(h, b, m) PROVE Good
  BY <1>1, <1>3, SetByteOK DEF LockBytes
<1>4. ASSUME NEW b \in Ranges, UnlockBytes(h, b) PROVE Good
  BY <1>1, <1>4, SetByteOK DEF UnlockBytes, Modes
<1>5. ASSUME winGetReadLock(h) PROVE Good
  BY <1>2, <1>3, <1>5 DEF winGetReadLock, LockBytes, Ranges, Modes
<1>6. CASE \E t \in LockTypes : winLock(h, t) \/ winUnlock(h, t)
  BY <1>2, <1>6 DEF winLock, winUnlock
<1>7. CASE LockPending(h) \/ LockReserved(h) \/ LockShared(h) \/ winCheckReservedLock(h)
  BY <1>2, <1>3, <1>7
  DEF LockPending, LockReserved, LockShared, winCheckReservedLock, Ranges, Modes
<1>8. CASE LockPendingFails(h) \/ LockPendingInvalid(h) \/ LockSharedFails(h)
  BY <1>2, <1>8 DEF LockPendingFails, LockPendingInvalid, LockSharedFails
<1>9. CASE GetRead(h) \/ RegainRead(h) \/ KeepRead(h)
  BY <1>2, <1>5, <1>9 DEF GetRead, RegainRead, KeepRead
<1>10. CASE DropPending(h) \/ DropRead(h) \/ EndProbe(h)
  BY <1>4, <1>10 DEF DropPending, DropRead, EndProbe, Ranges
<1>11. CASE DropExclusive(h) \/ DropReserved(h) \/ UnlockRead(h) \/ UnlockPending(h)
  BY <1>2, <1>4, <1>11
  DEF DropExclusive, DropReserved, UnlockRead, UnlockPending, UnlockIf, Ranges
<1>12. CASE Crash(h)
  <2>1. \A b \in Ranges, j \in Handles :
          bytes'[b][j] = IF j = h THEN "free" ELSE bytes[b][j]
    BY <1>1, <1>12 DEF Crash, BytesOK
  <2>2. bytes' \in [Ranges -> [Handles -> Modes]]
    BY <1>1, <1>12 DEF Crash, BytesOK, Modes
  <2> QED
    BY <1>1, <2>1, <2>2 DEF BytesOK, Solo
<1> QED
  BY <1>6, <1>7, <1>8, <1>9, <1>10, <1>11, <1>12 DEF HandleNext, Step

\* Where a handle stands after each of its steps.
LEMMA HandleStep ==
  ASSUME IInv, NEW h \in Handles, HandleNext(h)
  PROVE  HandleOK(h)'
<1> USE DEF P, R, S
<1>1. HandleOK(h) /\ locktype[h] \in LockTypes /\ goal[h] \in LockTypes
  BY DEF IInv, TypeOK
<1>2. /\ pc \in [Handles -> Places] /\ goal \in [Handles -> LockTypes]
      /\ cnt \in [Handles -> 0..Tries]
      /\ locktype \in [Handles -> LockTypes] /\ bytes \in [Ranges -> [Handles -> Modes]]
  BY DEF IInv, TypeOK
<1>3. ASSUME NEW b \in Ranges, NEW m \in Modes, SetByte(h, b, m)
      PROVE  /\ bytes'[b][h] = m
             /\ \A c \in Ranges : c # b => bytes'[c][h] = bytes[c][h]
  BY <1>2, <1>3 DEF SetByte
<1>4. ASSUME NEW b \in Ranges, NEW m \in Modes, LockBytes(h, b, m)
      PROVE  /\ bytes'[b][h] = m
             /\ \A c \in Ranges : c # b => bytes'[c][h] = bytes[c][h]
             /\ m = "write" => bytes[b][h] = "free"
  BY <1>3, <1>4 DEF LockBytes, CanLock
<1>5. ASSUME NEW b \in Ranges, UnlockBytes(h, b)
      PROVE  /\ bytes'[b][h] = "free"
             /\ \A c \in Ranges : c # b => bytes'[c][h] = bytes[c][h]
  BY <1>3, <1>5 DEF UnlockBytes, Modes
<1>6. ASSUME winGetReadLock(h), P(h) = "write", S(h) # "write"
      PROVE  /\ S(h)' = "read"
             /\ \A c \in Ranges : c # "SHARED" => bytes'[c][h] = bytes[c][h]
  BY <1>3, <1>6, ReadersComeBack DEF winGetReadLock, Ranges, Modes
<1>7. ASSUME NEW t \in LockTypes, Return(h, t)
      PROVE  pc'[h] = "idle" /\ locktype'[h] = t
  BY <1>2, <1>7 DEF Return, Goto, SetType
<1>8. ASSUME NEW p \in Places, Goto(h, p) PROVE pc'[h] = p
  BY <1>2, <1>8 DEF Goto
<1>9. "PENDING" \in Ranges /\ "RESERVED" \in Ranges /\ "SHARED" \in Ranges
  BY DEF Ranges
<1>10. ASSUME NEW t \in LockTypes, winLock(h, t) PROVE HandleOK(h)'
  <2>1. Steady(h) /\ pc[h] = "idle"
    BY <1>1, <1>10
    DEF winLock, MayAsk, HandleOK, Waiting, Sharing, Excluding, Probing, Leaving, Passing
  <2>2. pc'[h] = FirstCall(h, t) /\ goal'[h] = t /\ locktype' = locktype /\ bytes' = bytes
    BY <1>2, <1>10 DEF winLock, Goto
  <2>3. \/ t = "shared" /\ locktype[h] = "none" /\ pc'[h] = "lockPending"
        \/ t = "reserved" /\ locktype[h] = "shared" /\ pc'[h] = "lockReserved"
        \/ t = "exclusive" /\ locktype[h] \in {"shared", "reserved"} /\ pc'[h] = "lockPending"
        \/ t = "exclusive" /\ locktype[h] = "pending" /\ pc'[h] = "dropRead"
    BY <1>1, <1>10, <2>2, RankValues DEF winLock, MayAsk, FirstCall
  <2> QED
    BY <2>1, <2>2, <2>3 DEF HandleOK, Waiting, Excluding, Steady
<1>11. ASSUME NEW t \in LockTypes, winUnlock(h, t) PROVE HandleOK(h)'
  <2>1. Steady(h) /\ pc[h] = "idle"
    BY <1>1, <1>11
    DEF winUnlock, HandleOK, Waiting, Sharing, Excluding, Probing, Leaving, Passing
  <2>2. /\ pc'[h] = "dropExclusive" /\ goal'[h] = t /\ locktype' = locktype /\ bytes' = bytes
        /\ t = "none" \/ (t = "shared" /\ locktype[h] # "shared")
        /\ locktype[h] # "none"
    BY <1>1, <1>2, <1>11, RankOrder DEF winUnlock, Goto
  <2> QED
    BY <2>1, <2>2 DEF HandleOK, Leaving, Steady
<1> USE <1>1, <1>9 DEF HandleOK, Waiting, Sharing, Excluding, Probing, Leaving, Passing, Steady
<1>12. CASE LockPending(h)
  <2>1. /\ pc'[h] = IF goal[h] = "shared" THEN "getRead" ELSE "dropRead"
        /\ UNCHANGED <<goal, locktype>>
    BY <1>12, <1>8 DEF LockPending, Places
  <2>2. P(h)' = "write" /\ R(h)' = R(h) /\ S(h)' = S(h)
    BY <1>12, <1>4 DEF LockPending, Modes
  <2> QED
    BY <1>12, <2>1, <2>2 DEF LockPending
<1>13. CASE LockPendingFails(h) \/ LockPendingInvalid(h)
  <2>1. /\ bytes' = bytes
        /\ \/ UNCHANGED <<pc, goal, locktype>>
           \/ pc'[h] = "idle" /\ locktype'[h] = locktype[h]
    BY <1>13, <1>7 DEF LockPendingFails, LockPendingInvalid
  <2> QED
    BY <1>13, <2>1 DEF LockPendingFails, LockPendingInvalid
<1>14. CASE GetRead(h)
  <2>1. pc'[h] = "dropPending" /\ UNCHANGED <<goal, locktype>>
    BY <1>14, <1>8 DEF GetRead, Places
  <2>2. S(h)' = "read" /\ P(h)' = P(h) /\ R(h)' = R(h)
    BY <1>14, <1>6 DEF GetRead
  <2> QED
    BY <1>14, <2>1, <2>2 DEF GetRead
<1>15. CASE DropPending(h)
  <2>1. P(h)' = "free" /\ S(h)' = S(h) /\ R(h)' = R(h)
    BY <1>15, <1>5 DEF DropPending
  <2>2. pc'[h] = "idle" /\ locktype'[h] = "shared"
    BY <1>15, <1>7, RankValues DEF DropPending
  <2> QED
    BY <1>15, <2>1, <2>2 DEF DropPending
<1>16. CASE LockReserved(h)
  <2>1. CASE LockBytes(h, "RESERVED", "write") /\ Return(h, "reserved")
    <3>1. R(h)' = "write" /\ S(h)' = S(h) /\ P(h)' = P(h)
      BY <2>1, <1>4 DEF Modes
    <3>2. pc'[h] = "idle" /\ locktype'[h] = "reserved"
      BY <2>1, <1>7, RankValues
    <3> QED
      BY <1>16, <3>1, <3>2 DEF LockReserved
  <2>2. CASE Return(h, "shared") /\ UNCHANGED bytes
    <3>1. pc'[h] = "idle" /\ locktype'[h] = "shared"
      BY <2>2, <1>7, RankValues
    <3> QED
      BY <1>16, <2>2, <3>1 DEF LockReserved
  <2> QED
    BY <1>16, <2>1, <2>2 DEF LockReserved
<1>17. CASE DropRead(h)
  <2>1. pc'[h] = "lockShared" /\ S(h)' = "free" /\ P(h)' = P(h) /\ R(h)' = R(h)
    BY <1>17, <1>5, <1>8 DEF DropRead, Places
  <2> QED
    BY <1>17, <2>1 DEF DropRead
<1>18. CASE LockShared(h)
  <2>1. S(h)' = "write" /\ P(h)' = P(h) /\ R(h)' = R(h)
    BY <1>18, <1>4 DEF LockShared, Modes
  <2>2. pc'[h] = "idle" /\ locktype'[h] = "exclusive"
    BY <1>18, <1>7, RankValues DEF LockShared
  <2> QED
    BY <1>18, <2>1, <2>2 DEF LockShared
<1>19. CASE LockSharedFails(h)
  <2>1. pc'[h] = "regainRead" /\ UNCHANGED <<goal, locktype, bytes>>
    BY <1>19, <1>8 DEF LockSharedFails, Places
  <2> QED
    BY <1>19, <2>1 DEF LockSharedFails
<1>20. CASE RegainRead(h)
  <2>1. S(h)' = "read" /\ P(h)' = P(h) /\ R(h)' = R(h)
    BY <1>20, <1>6 DEF RegainRead
  <2>2. pc'[h] = "idle" /\ locktype'[h] = "pending"
    BY <1>20, <1>7, RankValues DEF RegainRead
  <2> QED
    BY <1>20, <2>1, <2>2 DEF RegainRead
<1>21. CASE DropExclusive(h)
  <2>1. pc'[h] = "keepRead" /\ UNCHANGED <<goal, locktype>>
    BY <1>21, <1>8 DEF DropExclusive, Places
  <2>2. /\ S(h)' = IF locktype[h] = "exclusive" THEN "free" ELSE S(h)
        /\ P(h)' = P(h) /\ R(h)' = R(h)
    BY <1>21, <1>5, RankOrder DEF DropExclusive, UnlockIf
  <2> QED
    BY <1>21, <2>1, <2>2 DEF DropExclusive
<1>22. CASE KeepRead(h)
  <2>1. pc'[h] = "dropReserved" /\ UNCHANGED <<goal, locktype>>
    BY <1>22, <1>8 DEF KeepRead, Places
  <2>2. /\ P(h)' = P(h) /\ R(h)' = R(h)
        /\ S(h)' = IF locktype[h] = "exclusive" /\ goal[h] = "shared" THEN "read" ELSE S(h)
    BY <1>22, <1>6, RankOrder DEF KeepRead
  <2> QED
    BY <1>22, <2>1, <2>2 DEF KeepRead
<1>23. CASE DropReserved(h)
  <2>1. pc'[h] = "unlockRead" /\ UNCHANGED <<goal, locktype>>
    BY <1>23, <1>8 DEF DropReserved, Places
  <2>2. /\ P(h)' = P(h) /\ S(h)' = S(h)
        /\ R(h)' = IF locktype[h] = "shared" THEN R(h) ELSE "free"
    BY <1>23, <1>5, RankOrder, RankValues DEF DropReserved, UnlockIf
  <2> QED
    BY <1>23, <2>1, <2>2 DEF DropReserved
<1>24. CASE UnlockRead(h)
  <2>1. pc'[h] = "unlockPending" /\ UNCHANGED <<goal, locktype>>
    BY <1>24, <1>8 DEF UnlockRead, Places
  <2>2. /\ P(h)' = P(h) /\ R(h)' = R(h)
        /\ S(h)' = IF goal[h] = "none" THEN "free" ELSE S(h)
    BY <1>24, <1>5 DEF UnlockRead, UnlockIf
  <2> QED
    BY <1>24, <2>1, <2>2 DEF UnlockRead
<1>25. CASE UnlockPending(h)
  <2>1. pc'[h] = "idle" /\ locktype'[h] = goal[h]
    BY <1>25, <1>7 DEF UnlockPending
  <2>2. P(h)' = "free" /\ S(h)' = S(h) /\ R(h)' = R(h)
    BY <1>25, <1>5, RankOrder DEF UnlockPending, UnlockIf
  <2> QED
    BY <1>25, <2>1, <2>2 DEF UnlockPending
<1>26. CASE winCheckReservedLock(h)
  <2>1. pc'[h] = "unprobe" /\ UNCHANGED <<goal, locktype>>
    BY <1>26, <1>8 DEF winCheckReservedLock, Places
  <2>2. R(h)' = "read" /\ S(h)' = S(h) /\ P(h)' = P(h)
    BY <1>26, <1>4 DEF winCheckReservedLock, Modes
  <2> QED
    BY <1>26, <2>1, <2>2 DEF winCheckReservedLock
<1>27. CASE EndProbe(h)
  <2>1. pc'[h] = "idle" /\ locktype'[h] = "shared"
    BY <1>27, <1>7, RankValues DEF EndProbe
  <2>2. R(h)' = "free" /\ S(h)' = S(h) /\ P(h)' = P(h)
    BY <1>27, <1>5 DEF EndProbe
  <2> QED
    BY <1>27, <2>1, <2>2 DEF EndProbe
<1>28. CASE Crash(h)
  <2>1. pc'[h] = "idle" /\ locktype'[h] = "none"
    BY <1>28, <1>7, RankValues DEF Crash
  <2>2. P(h)' = "free" /\ S(h)' = "free" /\ R(h)' = "free"
    BY <1>28, <1>2 DEF Crash
  <2> QED
    BY <2>1, <2>2
<1> QED
  BY <1>10, <1>11, <1>12, <1>13, <1>14, <1>15, <1>16, <1>17, <1>18, <1>19, <1>20, <1>21,
     <1>22, <1>23, <1>24, <1>25, <1>26, <1>27, <1>28 DEF HandleNext, Step

\* Every step is a step of some handle.
LEMMA NextIsAStep ==
  Next <=> \E h \in Handles : HandleNext(h)
BY DEF Next, HandleNext

\* It changes nothing of another handle, and keeps the invariant.
LEMMA FrameStep ==
  ASSUME IInv, NEW h \in Handles, HandleNext(h)
  PROVE  Frame(h) /\ IInv'
<1>1. Plain
  BY DEF IInv, TypeOK, Plain
<1>2. Plain' /\ Moves(h)
  BY <1>1, PlainStep
<1>3. Frame(h)
  BY <1>2, BytesStep DEF Frame, Moves
<1>4. \A j \in Handles : HandleOK(j)'
  BY <1>3, HandleStep, OthersStay DEF IInv
<1>5. TypeOK'
  BY <1>2, BytesStep DEF TypeOK, Plain, BytesOK
<1> QED
  BY <1>3, <1>4, <1>5 DEF IInv

\* Every step keeps the invariant.
LEMMA StepInv == IInv /\ [Next]_vars => IInv'
<1> SUFFICES ASSUME IInv, [Next]_vars PROVE IInv'
  OBVIOUS
<1>1. CASE Next
  BY <1>1, NextIsAStep, FrameStep
<1>2. CASE UNCHANGED vars
  BY <1>2 DEF vars, IInv, TypeOK, HandleOK, Waiting, Sharing, Excluding, Probing, Leaving,
     Passing, Steady, Solo, P, R, S
<1> QED
  BY <1>1, <1>2

\* The inductive invariant holds in every state: wherever a handle is in its
\* calls, it has the ranges that go with its lock there.
THEOREM Invariance == Spec => []IInv
  BY TypeInit, StepInv, PTL DEF Spec

\* The types, and that a range that is written is no one else's.
THEOREM TypeCorrect == Spec => []TypeOK
<1>1. IInv => TypeOK
  BY DEF IInv
<1> QED
  BY <1>1, Invariance, PTL

\* Between two calls locktype is the lock that the ranges give.
THEOREM LockTypeIsTrue == Spec => []LockTypeTrue
<1>1. IInv => LockTypeTrue
  BY DEF IInv, TypeOK, HandleOK, Steady, Waiting, Sharing, Excluding, Probing, Leaving, Passing,
     LockTypeTrue, Level, Staying, P, R, S, LockTypes, Rank
<1> QED
  BY <1>1, Invariance, PTL

\* Between two calls who has any lock reads, or writes alone: the read lock
\* that was given up on the way to EXCLUSIVE came back.
THEOREM ReadLockReturns == Spec => []ReadLockComesBack
<1>1. IInv => ReadLockComesBack
  BY DEF IInv, HandleOK, Steady, Waiting, Sharing, Excluding, Probing, Leaving, Passing,
     ReadLockComesBack, P, R, S
<1> QED
  BY <1>1, Invariance, PTL

-----------------------------------------------------------------------------
\* What each level says of the ranges.
LEMMA LevelFacts ==
  ASSUME IInv, NEW h \in Handles
  PROVE  /\ Level(h) \in {"none", "shared", "reserved", "pending", "recovering", "exclusive"}
         /\ Level(h) = "exclusive" <=> S(h) = "write"
         /\ Level(h) \in {"pending", "recovering"} => P(h) = "write"
         /\ Level(h) \in {"reserved", "pending"} => R(h) = "write"
         /\ Level(h) = "none" => S(h) = "free" /\ R(h) # "write" /\ ~Staying(h)
         /\ S(h) = "free" /\ R(h) # "write" /\ ~Staying(h) => Level(h) = "none"
<1>1. HandleOK(h)
  BY DEF IInv
<1>2. S(h) \in Modes /\ P(h) \in Modes /\ R(h) \in Modes
  BY DEF IInv, TypeOK, Ranges, S, P, R
<1> QED
  BY <1>1, <1>2, HandleFacts DEF Level, Staying, Passing, Modes, S, P, R

\* One process at a time writes to a range.
LEMMA OneWriter ==
  ASSUME IInv, NEW h \in Handles, NEW j \in Handles, h # j
  PROVE  /\ S(h) = "write" => S(j) = "free"
         /\ P(h) = "write" => P(j) = "free"
         /\ R(h) = "write" => R(j) = "free"
BY DEF IInv, TypeOK, Solo, Ranges, S, P, R

\* The levels of the others stay.
LEMMA OthersLevel ==
  ASSUME NEW h \in Handles, Frame(h)
  PROVE  \A j \in Handles \ {h} : Level(j)' = Level(j)
BY DEF Frame, Level, Staying, Ranges

-----------------------------------------------------------------------------
\* The levels of all handles, and a step of one of them.
LevelOf == [h \in Handles |-> Level(h)]

\* The levels after a step of one handle.
LEMMA LevelStep ==
  ASSUME IInv, NEW h \in Handles, HandleNext(h)
  PROVE  /\ LevelOf' = [LevelOf EXCEPT ![h] = Level(h)']
         /\ LevelOf[h] = Level(h)
         /\ \A j \in Handles : LevelOf[j] = Level(j)
         /\ Level(h)' = Level(h) => LevelOf' = LevelOf
BY FrameStep, OthersLevel DEF LevelOf

\* Giving up a level.
LEMMA LowerStep ==
  ASSUME IInv, NEW h \in Handles, HandleNext(h), Level(h)' \in FL!Below(Level(h))
  PROVE  FL!Next
<1>1. FL!Lower(h)
  BY LevelStep DEF FL!Lower, FL!SetLock, LevelOf
<1> QED
  BY <1>1 DEF FL!Next

\* The levels below a level, spelled out.
LEMMA BelowValues ==
  /\ FL!Below("none") = {}
  /\ FL!Below("shared") = {"none"}
  /\ FL!Below("reserved") = {"none", "shared"}
  /\ FL!Below("recovering") = {"none", "shared"}
  /\ FL!Below("pending") = {"none", "shared", "recovering"}
  /\ FL!Below("exclusive") = {"none", "shared", "pending", "recovering"}
BY DEF FL!Below, FL!Pendings

\* What a step of winLock, winUnlock or winCheckReservedLock is to the
\* levels: nothing, giving up some of them, or gaining one by the rules.
LEMMA Refines ==
  ASSUME IInv, NEW h \in Handles, HandleNext(h)
  PROVE  FL!Next \/ LevelOf' = LevelOf
<1> USE DEF P, R, S
<1>1. HandleOK(h) /\ IInv' /\ HandleOK(h)'
  BY FrameStep DEF IInv
<1>2. /\ pc \in [Handles -> Places] /\ goal \in [Handles -> LockTypes]
      /\ locktype \in [Handles -> LockTypes] /\ bytes \in [Ranges -> [Handles -> Modes]]
  BY DEF IInv, TypeOK
<1>3. ASSUME Level(h)' = Level(h) PROVE LevelOf' = LevelOf
  BY <1>3, LevelStep
<1>4. ASSUME UNCHANGED bytes, Staying(h)' = Staying(h) PROVE LevelOf' = LevelOf
  BY <1>3, <1>4 DEF Level
<1>5. ASSUME NEW b \in Ranges, NEW m \in Modes, SetByte(h, b, m)
      PROVE  /\ bytes'[b][h] = m
             /\ \A c \in Ranges : c # b => bytes'[c][h] = bytes[c][h]
  BY <1>2, <1>5 DEF SetByte
<1>6. "PENDING" \in Ranges /\ "RESERVED" \in Ranges /\ "SHARED" \in Ranges
      /\ "free" \in Modes /\ "read" \in Modes /\ "write" \in Modes
  BY DEF Ranges, Modes
<1>7. ASSUME NEW t \in LockTypes, Return(h, t) PROVE pc'[h] = "idle"
  BY <1>2, <1>7 DEF Return, Goto
<1>8. ASSUME NEW p \in Places, Goto(h, p) PROVE pc'[h] = p
  BY <1>2, <1>8 DEF Goto
<1>9. CASE \E t \in LockTypes : winLock(h, t) \/ winUnlock(h, t)
  <2>1. pc[h] = "idle" /\ pc'[h] \notin {"getRead", "dropPending"} /\ bytes' = bytes
    BY <1>2, <1>9 DEF winLock, winUnlock, MayAsk, FirstCall, Goto
  <2> QED
    BY <1>4, <2>1 DEF Staying
<1>10. CASE LockPendingFails(h) \/ LockPendingInvalid(h) \/ LockSharedFails(h)
  <2>1. /\ bytes' = bytes /\ pc[h] \notin {"getRead", "dropPending"}
        /\ pc'[h] \notin {"getRead", "dropPending"}
    BY <1>2, <1>7, <1>8, <1>10 DEF LockPendingFails, LockPendingInvalid, LockSharedFails, Places
  <2> QED
    BY <1>4, <2>1 DEF Staying
<1>11. CASE winCheckReservedLock(h) \/ EndProbe(h)
  <2>1. /\ R(h) # "write" /\ R(h)' # "write" /\ P(h)' = P(h) /\ S(h)' = S(h)
        /\ P(h) = "free"
    BY <1>1, <1>5, <1>6, <1>11
    DEF winCheckReservedLock, EndProbe, LockBytes, CanLock, UnlockBytes,
        HandleOK, Waiting, Sharing, Excluding, Probing, Leaving, Passing, Steady
  <2> QED
    BY <1>3, <2>1 DEF Level, Staying
<1>12. CASE LockPending(h)
  <2>1. /\ P(h) = "free" /\ P(h)' = "write" /\ R(h)' = R(h) /\ S(h)' = S(h)
        /\ \A j \in Handles : P(j) # "write"
    BY <1>5, <1>6, <1>12 DEF LockPending, LockBytes, CanLock
  <2>2. CASE goal[h] = "shared"
    <3>1. pc'[h] = "getRead"
      BY <1>8, <1>12, <2>2 DEF LockPending, Places
    <3> QED
      BY <1>3, <2>1, <3>1 DEF Level, Staying
  <2>3. CASE goal[h] # "shared"
    <3>1. pc'[h] = "dropRead"
      BY <1>8, <1>12, <2>3 DEF LockPending, Places
    <3>2. S(h) = "read" /\ R(h) # "read"
      BY <1>1, <1>12, <2>3
      DEF LockPending, HandleOK, Waiting, Sharing, Excluding, Probing, Leaving, Passing, Steady
    <3>3. /\ Level(h) = IF R(h) = "write" THEN "reserved" ELSE "shared"
          /\ Level(h)' = IF R(h) = "write" THEN "pending" ELSE "recovering"
      BY <2>1, <3>1, <3>2 DEF Level, Staying
    <3>4. \A j \in Handles \ {h} : LevelOf[j] \notin {"pending", "recovering"}
      BY <2>1, LevelFacts, LevelStep
    <3>5. FL!Pend(h)
      BY <3>3, <3>4, LevelStep DEF FL!Pend, FL!NoneHas, FL!Pendings, FL!SetLock, LevelOf
    <3> QED
      BY <3>5 DEF FL!Next
  <2> QED
    BY <2>2, <2>3
<1>13. CASE GetRead(h)
  <2>1. S(h) = "free" /\ P(h) = "write" /\ R(h) = "free" /\ pc[h] = "getRead"
    BY <1>1, <1>13
    DEF GetRead, HandleOK, Waiting, Sharing, Excluding, Probing, Leaving, Passing
  <2>2. pc'[h] = "dropPending"
    BY <1>8, <1>13 DEF GetRead, Places
  <2>3. CASE bytes' = bytes
    BY <1>3, <2>1, <2>2, <2>3 DEF Level, Staying
  <2>4. CASE LockBytes(h, "SHARED", "read")
    <3>1. S(h)' = "read" /\ P(h)' = P(h) /\ R(h)' = R(h)
      BY <1>5, <1>6, <2>4 DEF LockBytes
    <3>2. Level(h) = "none" /\ Level(h)' = "shared"
      BY <2>1, <2>2, <3>1 DEF Level, Staying
    <3>3. ASSUME NEW j \in Handles \ {h}
          PROVE  LevelOf[j] \notin {"pending", "recovering", "exclusive"}
      <4>1. P(j) # "write"
        BY <2>1, OneWriter
      <4>2. S(j) # "write"
        BY <2>4 DEF LockBytes, CanLock
      <4> QED
        BY <4>1, <4>2, LevelFacts, LevelStep
    <3>4. FL!Share(h)
      BY <3>2, <3>3, LevelStep DEF FL!Share, FL!NoneHas, FL!Pendings, FL!SetLock, LevelOf
    <3> QED
      BY <3>4 DEF FL!Next
  <2> QED
    BY <1>13, <2>3, <2>4 DEF GetRead, winGetReadLock, LockBytes
<1>14. CASE DropPending(h)
  <2>1. pc[h] = "dropPending" /\ P(h)' = "free" /\ R(h)' = R(h) /\ S(h)' = S(h)
    BY <1>5, <1>6, <1>14 DEF DropPending, UnlockBytes
  <2> QED
    BY <1>3, <2>1 DEF Level, Staying
<1>15. CASE LockReserved(h)
  <2>1. pc[h] = "lockReserved" /\ pc'[h] = "idle"
    BY <1>7, <1>15, RankValues DEF LockReserved
  <2>2. CASE bytes' = bytes
    BY <1>4, <2>1, <2>2 DEF Staying
  <2>3. CASE LockBytes(h, "RESERVED", "write")
    <3>1. R(h)' = "write" /\ P(h)' = P(h) /\ S(h)' = S(h)
      BY <1>5, <1>6, <2>3 DEF LockBytes
    <3>2. S(h) = "read" /\ P(h) = "free" /\ R(h) = "free"
      BY <1>1, <2>1 DEF HandleOK, Waiting, Sharing, Excluding, Probing, Leaving, Passing, Steady
    <3>3. Level(h) = "shared" /\ Level(h)' = "reserved"
      BY <3>1, <3>2 DEF Level, Staying
    <3>4. \A j \in Handles \ {h} : LevelOf[j] \notin {"reserved", "pending"}
      BY <2>3, LevelFacts, LevelStep DEF LockBytes, CanLock
    <3>5. FL!Reserve(h)
      BY <3>3, <3>4, LevelStep DEF FL!Reserve, FL!NoneHas, FL!SetLock, LevelOf
    <3> QED
      BY <3>5 DEF FL!Next
  <2> QED
    BY <1>15, <2>2, <2>3 DEF LockReserved
<1>16. CASE DropRead(h)
  <2>1. pc[h] = "dropRead" /\ pc'[h] = "lockShared" /\ S(h) = "read" /\ P(h) = "write"
    BY <1>1, <1>8, <1>16
    DEF DropRead, Places, HandleOK, Waiting, Sharing, Excluding, Probing, Leaving, Passing
  <2>2. S(h)' = "free" /\ P(h)' = P(h) /\ R(h)' = R(h)
    BY <1>5, <1>6, <1>16 DEF DropRead, UnlockBytes
  <2> QED
    BY <1>3, <2>1, <2>2 DEF Level, Staying
<1>17. CASE LockShared(h)
  <2>1. pc[h] = "lockShared" /\ pc'[h] = "idle" /\ S(h) = "free" /\ P(h) = "write"
    BY <1>1, <1>7, <1>17, RankValues
    DEF LockShared, HandleOK, Waiting, Sharing, Excluding, Probing, Leaving, Passing
  <2>2. /\ S(h)' = "write" /\ P(h)' = P(h) /\ R(h)' = R(h)
        /\ \A j \in Handles : S(j) = "free"
    BY <1>5, <1>6, <1>17 DEF LockShared, LockBytes, CanLock
  <2>3. Level(h) \in {"pending", "recovering"} /\ Level(h)' = "exclusive"
    BY <2>1, <2>2 DEF Level, Staying
  <2>4. ASSUME NEW j \in Handles \ {h} PROVE LevelOf[j] = "none"
    <3>1. P(j) = "free" /\ S(j) = "free" /\ HandleOK(j)
      BY <2>1, <2>2, OneWriter DEF IInv
    <3>2. R(j) # "write"
      BY <3>1, HandleFacts
    <3> QED
      BY <3>1, <3>2, LevelFacts, LevelStep DEF Staying
  <2>5. FL!Exclude(h)
    BY <2>3, <2>4, LevelStep
    DEF FL!Exclude, FL!NoneHas, FL!Levels, FL!Pendings, FL!SetLock, LevelOf
  <2> QED
    BY <2>5 DEF FL!Next
<1>18. CASE RegainRead(h)
  <2>1. pc[h] = "regainRead" /\ pc'[h] = "idle" /\ S(h) = "free" /\ P(h) = "write"
    BY <1>1, <1>7, <1>18, RankValues
    DEF RegainRead, HandleOK, Waiting, Sharing, Excluding, Probing, Leaving, Passing
  <2>2. S(h)' \in {"free", "read"} /\ P(h)' = P(h) /\ R(h)' = R(h)
    BY <1>5, <1>6, <1>18, <2>1 DEF RegainRead, winGetReadLock
  <2> QED
    BY <1>3, <2>1, <2>2 DEF Level, Staying
<1>19. ASSUME NEW b \in Ranges, NEW need \in BOOLEAN, UnlockIf(need, h, b)
       PROVE  /\ bytes'[b][h] = IF need THEN "free" ELSE bytes[b][h]
              /\ \A c \in Ranges : c # b => bytes'[c][h] = bytes[c][h]
  BY <1>5, <1>6, <1>19 DEF UnlockIf, UnlockBytes
<1>20. ASSUME NEW t \in LockTypes PROVE Holds(h, t) \in BOOLEAN
  BY DEF Holds
<1>21. ASSUME pc[h] \in {"dropExclusive", "keepRead", "dropReserved", "unlockRead", "unlockPending"}
       PROVE  Leaving(h)
  BY <1>1, <1>21 DEF HandleOK, Waiting, Sharing, Excluding, Probing, Passing
<1>22. CASE DropExclusive(h)
  <2>1. pc[h] = "dropExclusive" /\ pc'[h] = "keepRead" /\ Leaving(h)
    BY <1>8, <1>21, <1>22 DEF DropExclusive, Places
  <2>2. /\ S(h)' = IF locktype[h] = "exclusive" THEN "free" ELSE S(h)
        /\ P(h)' = P(h) /\ R(h)' = R(h)
    BY <1>6, <1>2, <1>19, <1>20, <1>22, RankOrder, RankValues DEF DropExclusive
  <2>3. CASE locktype[h] = "exclusive"
    <3>1. Level(h) = "exclusive" /\ Level(h)' \in {"pending", "recovering"}
      BY <2>1, <2>2, <2>3 DEF Level, Staying, Leaving, Steady
    <3> QED
      BY <3>1, LowerStep, BelowValues
  <2>4. CASE locktype[h] # "exclusive"
    BY <1>3, <2>1, <2>2, <2>4 DEF Level, Staying
  <2> QED
    BY <2>3, <2>4
<1>23. CASE KeepRead(h)
  <2>1. pc[h] = "keepRead" /\ pc'[h] = "dropReserved" /\ Leaving(h)
    BY <1>8, <1>21, <1>23 DEF KeepRead, Places
  <2>2. /\ P(h)' = P(h) /\ R(h)' = R(h)
        /\ S(h)' = S(h) \/ (locktype[h] = "exclusive" /\ S(h)' = "read")
    BY <1>2, <1>5, <1>6, <1>23, RankOrder DEF KeepRead, winGetReadLock
  <2> QED
    BY <1>3, <2>1, <2>2 DEF Level, Staying, Leaving
<1>24. CASE DropReserved(h)
  <2>1. pc[h] = "dropReserved" /\ pc'[h] = "unlockRead" /\ Leaving(h)
    BY <1>8, <1>21, <1>24 DEF DropReserved, Places
  <2>2. S(h)' = S(h) /\ P(h)' = P(h) /\ (R(h)' = R(h) \/ R(h)' = "free")
    BY <1>6, <1>19, <1>20, <1>24, RankValues DEF DropReserved
  <2>3. CASE R(h) = "write" /\ R(h)' = "free"
    <3>1. \/ Level(h) = "reserved" /\ Level(h)' = "shared"
          \/ Level(h) = "pending" /\ Level(h)' = "recovering"
      BY <2>1, <2>2, <2>3 DEF Level, Staying, Leaving
    <3> QED
      BY <3>1, LowerStep, BelowValues
  <2>4. CASE ~(R(h) = "write" /\ R(h)' = "free")
    BY <1>3, <2>1, <2>2, <2>4 DEF Level, Staying
  <2> QED
    BY <2>3, <2>4
<1>25. CASE UnlockRead(h)
  <2>1. pc[h] = "unlockRead" /\ pc'[h] = "unlockPending" /\ Leaving(h)
    BY <1>8, <1>21, <1>25 DEF UnlockRead, Places
  <2>2. (S(h)' = S(h) \/ S(h)' = "free") /\ P(h)' = P(h) /\ R(h)' = R(h)
    <3>1. UnlockIf(goal[h] = "none", h, "SHARED")
      BY <1>25 DEF UnlockRead
    <3> QED
      BY <3>1, <1>5, <1>6 DEF UnlockIf, UnlockBytes
  <2>3. CASE Level(h) = "shared" /\ S(h)' = "free"
    <3>1. Level(h)' = "none"
      BY <2>1, <2>2, <2>3 DEF Level, Staying, Leaving
    <3> QED
      BY <2>3, <3>1, LowerStep, BelowValues
  <2>4. CASE ~(Level(h) = "shared" /\ S(h)' = "free")
    BY <1>3, <2>1, <2>2, <2>4 DEF Level, Staying, Leaving
  <2> QED
    BY <2>3, <2>4
<1>26. CASE UnlockPending(h)
  <2>1. pc[h] = "unlockPending" /\ pc'[h] = "idle" /\ Leaving(h)
    BY <1>2, <1>7, <1>21, <1>26 DEF UnlockPending
  <2>2. S(h)' = S(h) /\ (P(h)' = P(h) \/ P(h)' = "free") /\ R(h)' = R(h)
    BY <1>6, <1>19, <1>20, <1>26, RankValues DEF UnlockPending
  <2>3. CASE P(h) = "write" /\ P(h)' = "free"
    <3>1. Level(h) = "recovering" /\ Level(h)' \in {"none", "shared"}
      BY <2>1, <2>2, <2>3 DEF Level, Staying, Leaving
    <3> QED
      BY <3>1, LowerStep, BelowValues
  <2>4. CASE ~(P(h) = "write" /\ P(h)' = "free")
    BY <1>3, <2>1, <2>2, <2>4 DEF Level, Staying
  <2> QED
    BY <2>3, <2>4
<1>27. CASE Crash(h)
  <2>1. Level(h)' = "none"
    BY <1>2, <1>6, <1>27 DEF Crash, Level, Staying
  <2>2. CASE Level(h) = "none"
    BY <1>3, <2>1, <2>2
  <2>3. CASE Level(h) # "none"
    BY <2>1, <2>3, LevelFacts, LowerStep, BelowValues
  <2> QED
    BY <2>2, <2>3
<1> QED
  BY <1>9, <1>10, <1>11, <1>12, <1>13, <1>14, <1>15, <1>16, <1>17, <1>18, <1>22, <1>23,
     <1>24, <1>25, <1>26, <1>27 DEF HandleNext, Step

\* Whatever comes between the calls into Windows, the byte ranges keep the
\* rules of the five levels: each step of winLock, winUnlock and
\* winCheckReservedLock is one of FileLock or changes no level.
THEOREM LocksAreKept == Spec => LocksKeepPromises
<1>1. Init => FL!Init
  <2> SUFFICES ASSUME Init, NEW h \in Handles PROVE Level(h) = "none"
    BY DEF FL!Init
  <2> QED
    BY DEF Init, Level, Staying, Ranges
<1>2. IInv /\ [Next]_vars => [FL!Next]_LevelOf
  <2>1. CASE IInv /\ UNCHANGED vars
    BY <2>1 DEF vars, LevelOf, Level, Staying
  <2> QED
    BY <2>1, NextIsAStep, Refines
<1>3. IInv /\ [Next]_vars => [FL!Next]_([h \in Handles |-> Level(h)])
  BY <1>2 DEF LevelOf
<1> QED
  BY <1>1, <1>3, Invariance, PTL DEF Spec, LocksKeepPromises, FL!Spec

\* Who writes to the file is alone with it, and one at a time is on the way.
THEOREM WritesAlone == Spec => []OneWritesAlone
<1>1. IInv => OneWritesAlone
  <2> SUFFICES ASSUME IInv, NEW h \in Handles, NEW j \in Handles, h # j
               PROVE  /\ Level(h) = "exclusive" => Level(j) = "none"
                      /\ Level(h) \in {"reserved", "pending"} =>
                           Level(j) \notin {"reserved", "pending"}
                      /\ Level(h) \in {"pending", "recovering"} =>
                           Level(j) \notin {"pending", "recovering", "exclusive"}
    BY DEF OneWritesAlone, FL!MutualExclusion, FL!Pendings
  <2>1. HandleOK(h) /\ HandleOK(j)
    BY DEF IInv
  <2>2. CASE Level(h) = "exclusive"
    <3>1. S(j) = "free" /\ P(j) = "free"
      BY <2>1, <2>2, HandleFacts, LevelFacts, OneWriter
    <3> QED
      BY <2>1, <2>2, <3>1, HandleFacts, LevelFacts DEF Staying, P
  <2>3. CASE Level(h) \in {"reserved", "pending", "recovering"}
    BY <2>1, <2>3, HandleFacts, LevelFacts, OneWriter
  <2> QED
    BY <2>2, <2>3
<1> QED
  BY <1>1, Invariance, PTL
=============================================================================
