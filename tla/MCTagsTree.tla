----------------------------- MODULE MCTagsTree -----------------------------
(***************************************************************************)
(* Small instances of TagsTree for TLC: a root, a directory in it, and one *)
(* in that; a file in each end and one that was never saved.               *)
(***************************************************************************)
EXTENDS TagsTree, TLC

CONSTANTS r, s, t, fr, fs, ft, new

ThreeLevels == r :> r @@ s :> r @@ t :> s
TwoLevels == r :> r @@ s :> r

DirsOfThree == fr :> r @@ ft :> t @@ new :> NoDir
DirsOfTwo == fr :> r @@ fs :> s

UpToTwo == {0, 1, 2}
UpToOne == {1}

AnyKind == Kinds
SomeKinds == {"none", "ready"}
=============================================================================
