----------------------------- MODULE MCEditList -----------------------------
(***************************************************************************)
(* Instances of EditList for TLC.  Samples of one and three time units;    *)
(* edits that begin at samples and between, and end in the middle of       *)
(* samples, at their ends and beyond the media.                            *)
(***************************************************************************)
EXTENDS EditList

SomeDurations     == {1, 3}
SomeEditStarts    == {0, 2, 3}
SomeEditDurations == {0, 1, 4}
=============================================================================
