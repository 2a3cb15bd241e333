----------------------------- MODULE FrameClock -----------------------------
(***************************************************************************)
(* What the frame walk of the core promises, without saying how: while a   *)
(* frame runs, the two SH-2 clocks and the VDP walker's line count advance *)
(* over the frame so that                                                  *)
(*   - a CPU clock advances by at most Chunk cycles, and only from a       *)
(*     position the other CPU has already reached;                         *)
(*   - a line is walked only after both CPUs have completed it;            *)
(*   - no clock leaves the walker more than Slack lines behind (the        *)
(*     secondary, bounded only through the master, one chunk more);        *)
(* and a frame ends when all three have covered it.  All of that holds     *)
(* until a frame overtakes a goroutine that is still in a shorter one: the *)
(* clock says nothing of what follows (Overtake).  FrameWalk implements    *)
(* this with atomics, spin waits and channels (timing-model comment of     *)
(* src/core/frame.go).                                                     *)
(***************************************************************************)
EXTENDS Integers

CONSTANTS Chunk,        \* syncChunkCycles
          Slack,        \* vdpSlackLines
          LineWidths,   \* the widths recalcTiming may give a line
          LineCounts    \* the scanline counts of the display modes

VARIABLES running,      \* a frame is being walked
          width, lines, \* the frame's geometry
          m, s,         \* cycles the master and the secondary completed
          walked,       \* lines the VDP walker completed
          overtaken     \* a frame has overtaken a goroutine in the last

vars == <<running, width, lines, m, s, walked, overtaken>>

Total == width * lines

Init ==
  /\ running = FALSE
  /\ width = 0 /\ lines = 0
  /\ m = 0 /\ s = 0 /\ walked = 0
  /\ overtaken = FALSE

StartFrame ==
  /\ ~running
  /\ running' = TRUE
  /\ width' \in LineWidths /\ lines' \in LineCounts
  /\ m' = 0 /\ s' = 0 /\ walked' = 0
  /\ UNCHANGED overtaken

\* The master moves on from a rendezvous it shares with the secondary.
MasterAdvance ==
  /\ running
  /\ m < Total /\ m <= s
  /\ \E to \in (m + 1)..(m + Chunk) :
        /\ to <= Total
        /\ to <= (walked + Slack) * width
        /\ m' = to
  /\ UNCHANGED <<running, width, lines, s, walked, overtaken>>

SecondaryAdvance ==
  /\ running
  /\ s < Total /\ s <= m
  /\ \E to \in (s + 1)..(s + Chunk) :
        /\ to <= Total
        /\ s' = to
  /\ UNCHANGED <<running, width, lines, m, walked, overtaken>>

WalkLine ==
  /\ running
  /\ walked < lines
  /\ (walked + 1) * width <= m /\ (walked + 1) * width <= s
  /\ walked' = walked + 1
  /\ UNCHANGED <<running, width, lines, m, s, overtaken>>

EndFrame ==
  /\ running
  /\ m = Total /\ s = Total /\ walked = lines
  /\ running' = FALSE
  /\ UNCHANGED <<width, lines, m, s, walked, overtaken>>

\* From a frame that overtakes on, anything goes.
Overtake == overtaken'

Next == \/ StartFrame \/ MasterAdvance \/ SecondaryAdvance \/ WalkLine
        \/ EndFrame \/ Overtake

Spec == Init /\ [][Next]_vars
=============================================================================
