------------------------------ MODULE FileLock ------------------------------
(***************************************************************************)
(* What the lock on a database file promises to the connections that have  *)
(* it open, whatever way it is made of: the five levels of SQLite, and who *)
(* may go from one to the next while the others hold what they hold.       *)
(*                                                                         *)
(* "recovering" is PENDING that was reached without RESERVED, on the way   *)
(* to play a journal back: it does not keep another from RESERVED.         *)
(***************************************************************************)
CONSTANT Handles       \* the connections, one for each copy of the plug-in

VARIABLE lock          \* lock[h]: the level h has reached

Pendings == {"pending", "recovering"}
Levels == {"none", "shared", "reserved", "exclusive"} \cup Pendings

LockTypeOK == lock \in [Handles -> Levels]

NoneHas(h, levels) == \A j \in Handles \ {h} : lock[j] \notin levels

SetLock(h, level) == lock' = [lock EXCEPT ![h] = level]

-----------------------------------------------------------------------------
\* Readers share the file, until one of them wants it alone.
Share(h) ==
  /\ lock[h] = "none"
  /\ NoneHas(h, Pendings \cup {"exclusive"})
  /\ SetLock(h, "shared")

\* One of the readers may prepare changes.
Reserve(h) ==
  /\ lock[h] = "shared"
  /\ NoneHas(h, {"reserved", "pending"})
  /\ SetLock(h, "reserved")

\* From here on no one starts to read.
Pend(h) ==
  /\ NoneHas(h, Pendings)
  /\ \/ lock[h] = "reserved" /\ SetLock(h, "pending")
     \/ lock[h] = "shared" /\ SetLock(h, "recovering")

\* The last of the other readers has gone.
Exclude(h) ==
  /\ lock[h] \in Pendings
  /\ NoneHas(h, Levels \ {"none"})
  /\ SetLock(h, "exclusive")

\* Giving up a level, or a part of what makes it, needs no one's leave.
Below(level) ==
  CASE level = "none" -> {}
    [] level = "shared" -> {"none"}
    [] level \in {"reserved", "recovering"} -> {"none", "shared"}
    [] level = "pending" -> {"none", "shared", "recovering"}
    [] level = "exclusive" -> {"none", "shared"} \cup Pendings

Lower(h) == \E level \in Below(lock[h]) : SetLock(h, level)

Init == lock = [h \in Handles |-> "none"]

Next == \E h \in Handles :
          Share(h) \/ Reserve(h) \/ Pend(h) \/ Exclude(h) \/ Lower(h)

Spec == Init /\ [][Next]_lock

-----------------------------------------------------------------------------
\* Who changes the file is alone with it; one at a time prepares changes;
\* one at a time waits for the readers to go.
MutualExclusion ==
  \A h, j \in Handles : h # j =>
    /\ lock[h] = "exclusive" => lock[j] = "none"
    /\ lock[h] \in {"reserved", "pending"} => lock[j] \notin {"reserved", "pending"}
    /\ lock[h] \in Pendings => lock[j] \notin Pendings \cup {"exclusive"}
=============================================================================
