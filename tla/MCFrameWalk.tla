---------------------------- MODULE MCFrameWalk ----------------------------
(***************************************************************************)
(* Values of the constants of FrameWalk for model checking.                *)
(***************************************************************************)
EXTENDS FrameWalk_proofs

\* Line widths either side of a multiple of the chunk: a line ends in a whole
\* and in a short chunk, and consecutive frames differ by one cycle per line.
MCWidths == {3, 4}
\* One more line than the slack lets the CPUs run ahead, and two more.
MCCounts == {3, 4}
OneCommand == {"CKCHG"}
NoSignals == {}
BothSignals == {"MINIT", "SINIT"}
BothReaders == {"master", "secondary"}

\* Nothing is claimed of what follows: the run stops at the overtaking step.
NotOvertaken == ~overtaken
=============================================================================
