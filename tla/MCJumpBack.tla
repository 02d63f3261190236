----------------------------- MODULE MCJumpBack -----------------------------
(***************************************************************************)
(* Small instances of JumpBack for TLC.                                    *)
(***************************************************************************)
EXTENDS JumpBack, TLC

CONSTANTS f, g          \* a file of three lines, one of two

LastLineOf == f :> 2 @@ g :> 1

SomeIniLimits == {-1, 0, 1, 3}
SomeDialogLimits == {1, 3}
=============================================================================
