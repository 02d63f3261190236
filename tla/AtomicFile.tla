----------------------------- MODULE AtomicFile -----------------------------
(***************************************************************************)
(* What the SQLite library promises of a database file to the programs     *)
(* that have it open: one of them at a time changes a draft of its own,    *)
(* and the draft becomes the content of the file at once or not at all,    *)
(* whatever ends in between.  A loss of power may take back the commit     *)
(* made last, as a whole, and nothing else.                                *)
(***************************************************************************)
CONSTANTS
  Procs,               \* the programs
  Images,              \* what the file can contain
  Empty,               \* a file without pages
  None                 \* no draft

VARIABLES
  image,               \* the content that was committed last
  possible,            \* what the content may be after a loss of power
  draft                \* draft[i]: what program i would commit, or None

NoDrafts == [i \in Procs |-> None]

Init ==
  /\ image = Empty
  /\ possible = {Empty}
  /\ draft = NoDrafts

Begin(i) ==
  /\ draft = NoDrafts
  /\ draft' = [draft EXCEPT ![i] = image]
  /\ UNCHANGED <<image, possible>>

Change(i) ==
  /\ draft[i] # None
  /\ draft'[i] \in Images
  /\ draft' = [draft EXCEPT ![i] = draft'[i]]
  /\ UNCHANGED <<image, possible>>

Commit(i) ==
  /\ draft[i] # None
  /\ image' = draft[i]
  /\ image' \in possible' /\ possible' \subseteq {image, image'}
  /\ draft' = [draft EXCEPT ![i] = None]

Abandon(i) ==
  /\ draft' = [draft EXCEPT ![i] = None]
  /\ UNCHANGED <<image, possible>>

\* The commit made last has reached the disk.
Settle ==
  /\ image \in possible' /\ possible' \subseteq possible
  /\ UNCHANGED <<image, draft>>

PowerLoss ==
  /\ image' \in possible
  /\ possible' = {image'}
  /\ draft' = NoDrafts

Remove ==
  /\ image' = Empty /\ possible' = {Empty}
  /\ draft = NoDrafts /\ UNCHANGED draft

Next ==
  \/ \E i \in Procs : Begin(i) \/ Change(i) \/ Commit(i) \/ Abandon(i)
  \/ Settle \/ PowerLoss \/ Remove

Spec == Init /\ [][Next]_<<image, possible, draft>>
=============================================================================
