------------------------------ MODULE JumpBack ------------------------------
(***************************************************************************)
(* Jumping to a tag and back again (NppTags.cpp).                          *)
(*                                                                         *)
(* JumpToTag(Tag*, bool) stores the position it leaves on s_JumpBackStack  *)
(* and moves the caret; JumpBack takes the last one off and goes there.    *)
(* The stack is bounded by an option the user can change at any time.      *)
(* Everything runs on the one thread of the editor, so a jump is a single  *)
(* step; where the tag comes from is of no interest here.                  *)
(*                                                                         *)
(* Two numberings of lines meet: Scintilla counts from 0, a Tag from 1,    *)
(* and a Tag with line 0 has a search pattern instead.                     *)
(***************************************************************************)
EXTENDS Integers, Sequences

CONSTANTS
  Files,         \* the files the user works on
  LastLine,      \* the number of the last line of each, counted from 0
  Plain,         \* those whose name survives the code page (see Opens)
  Removable,     \* those that can be gone when somebody jumps to them
  IniLimits,     \* JumpBackStack as NppTags.ini can have it: any integer
  DialogLimits,  \* ... and as the options dialog lets it pass
  None,          \* no position
  MaxTrail       \* the length at which the history stops

ASSUME FilesAssumption ==
  /\ LastLine \in [Files -> Nat]
  /\ Plain \subseteq Files
  /\ Removable \subseteq Files

ASSUME LimitsAssumption ==
  /\ IniLimits \subseteq Int
  /\ DialogLimits \subseteq IniLimits \cap 1..15
  /\ MaxTrail \in Nat

VARIABLES
  cur,           \* the current file and the line of the caret in it
  stack,         \* s_JumpBackStack
  limit,         \* g_Options->GetJumpBackStack()
  trail,         \* history: every position stored and not yet returned to
  from,          \* history: where the jump just made started, or None
  most           \* history: the largest limit since the stack was empty

vars == <<cur, stack, limit, trail, from, most>>

PositionsIn(f) == [file : {f}, line : 0..LastLine[f]]
Positions == UNION {PositionsIn(f) : f \in Files}

\* Variant: the line is stored as Scintilla counts it.
PlaceFromZero(p) == p

\* What a Tag holds of a position: its line counts from 1.
Place(p) == [file |-> p.file, line |-> p.line + 1]

TypeOK ==
  /\ cur \in Positions
  /\ stack \in Seq([file : Files, line : Nat \ {0}])
  /\ limit \in IniLimits
  /\ trail \in Seq(Positions)
  /\ from \in Positions \cup {None}
  /\ most \in IniLimits

Init ==
  /\ cur \in Positions
  /\ stack = <<>>
  /\ limit \in IniLimits
  /\ trail = <<>>
  /\ from = None
  /\ most = limit

-----------------------------------------------------------------------------
\* NPPM_DOOPEN: a file may be gone.  A name that is converted to the code
\* page and widened again byte by byte names no file any more.
CanOpen(f) == IF f \notin Plain THEN {FALSE}
              ELSE IF f \in Removable THEN BOOLEAN ELSE {TRUE}

\* Variant: a line behind the last one is taken as it is.
Unclamped(f, n) == n

\* Scintilla goes to the last line when asked for one behind it.
Clamped(f, n) == IF n > LastLine[f] THEN LastLine[f] ELSE n

\* Where JumpToTag(tag, ...) can end up.  It does not look whether the file
\* was opened: it goes to the line, or looks for the pattern, in whatever
\* file is current then.
Targets(tag) ==
  LET files == {IF opened THEN tag.file ELSE cur.file : opened \in CanOpen(tag.file)}
  IN  UNION {IF tag.line = 0
             THEN PositionsIn(f)
             ELSE {[file |-> f, line |-> Clamped(f, tag.line - 1)]} : f \in files}

\* Variant: the newest position goes.
PushedDropsNewest(s, p) ==
  LET longer == Append(s, Place(p)) IN
  IF Len(longer) > limit THEN SubSeq(longer, 1, Len(longer) - 1) ELSE longer

\* Variant: the size is taken before the position is stored.
PushedOneMore(s, p) ==
  LET longer == Append(s, Place(p)) IN
  IF Len(s) > limit THEN Tail(longer) ELSE longer

\* StoreCurrentPosition: nothing is stored on the first line.  A position
\* that makes the stack too big costs the oldest one, and only that one.
Pushed(s, p) ==
  LET longer == Append(s, Place(p)) IN
  IF Len(longer) > limit THEN Tail(longer) ELSE longer

StoreCurrentPosition ==
  IF cur.line = 0
  THEN UNCHANGED <<stack, trail>>
  ELSE /\ stack' = Pushed(stack, cur)
       /\ trail' = Append(trail, cur)

\* JumpToTag(tag, true), from the tree, a lookup or the dialog.
JumpToTag(tag) ==
  /\ Len(trail) < MaxTrail
  /\ StoreCurrentPosition
  /\ cur' \in Targets(tag)
  /\ from' = cur
  /\ UNCHANGED limit

\* The menu entry "Jump Back".
JumpBack ==
  /\ IF stack = <<>>
     THEN UNCHANGED <<cur, stack, trail>>
     ELSE LET k == Len(stack) IN
          /\ cur' \in Targets(stack[k])
          /\ stack' = SubSeq(stack, 1, k - 1)
          /\ trail' = SubSeq(trail, 1, Len(trail) - 1)
  /\ from' = None
  /\ UNCHANGED limit

\* The user moves the caret or goes to another file.
Move ==
  /\ cur' \in Positions
  /\ from' = None
  /\ UNCHANGED <<stack, limit, trail>>

\* The options dialog.  Nobody shortens the stack.
SetJumpBackStack ==
  /\ limit' \in DialogLimits
  /\ from' = None
  /\ UNCHANGED <<cur, stack, trail>>

TagPlaces == {Place(p) : p \in Positions} \cup [file : Files, line : {0}]

\* What every step adds to the history of the limits.
Remember == most' = IF stack' = <<>> \/ limit' > most THEN limit' ELSE most

Next ==
  /\ \/ \E tag \in TagPlaces : JumpToTag(tag)
     \/ JumpBack
     \/ Move
     \/ SetJumpBackStack
  /\ Remember

Spec == Init /\ [][Next]_vars
-----------------------------------------------------------------------------
(***************************************************************************)
(* Safety                                                                  *)
(***************************************************************************)
\* The stack is what the limit has left of an unlimited one: the newest
\* positions, in their order, whatever the limit was when each was stored.
StackIsTrail ==
  /\ Len(stack) <= Len(trail)
  /\ \A k \in DOMAIN stack :
       stack[k] = Place(trail[Len(trail) - Len(stack) + k])

\* A jump back that gets into the file ends on the very line of the last
\* position stored and not returned to, off by none, however many jumps,
\* jumps back and changes of the limit came between.
BackReturns ==
  [][LET p == trail[Len(trail)] IN
     Len(stack') < Len(stack) =>
       /\ cur'.file \in {p.file, cur.file}
       /\ cur'.file = p.file => cur' = p]_vars

\* The stack never outgrows the largest limit there has been since it was
\* last empty.  It can outgrow the present one, against "the size of the
\* stack" of docs/options.rst:15: a limit that is lowered shortens nothing,
\* and from then on every store takes one position off and puts one on.
StackBounded == stack = <<>> \/ Len(stack) <= most
=============================================================================
