------------------------------- MODULE Raster -------------------------------
(***************************************************************************)
(* The raster timebase and what it drives: the VDP2 line counter with its  *)
(* H-Blank-IN, V-Blank-IN and V-Blank-OUT (src/core/vdp2.go), advanced by  *)
(* the main goroutine, and the SCU's Timer 0, which counts H-Blank-INs,    *)
(* and Timer 1, whose countdown a H-Blank-IN loads on the main goroutine   *)
(* and the secondary goroutine decrements, up to a chunk ahead or behind   *)
(* (src/core/scu.go).  The barrier between the two is the one FrameClock   *)
(* states.  Programs write TVMD and the timer registers at any time.       *)
(*                                                                         *)
(* Positions are in cycles; a timer register holds the cycles it stands    *)
(* for.  Interrupt delivery is SCUInterrupts, the DMA start factors are    *)
(* SCUDma.                                                                 *)
(***************************************************************************)
EXTENDS Integers

CONSTANTS LineCycles,    \* frameCyclesPerScanline
          SyncChunk,     \* syncChunkCycles
          Lines,         \* linesPerFrame, 263 or 313
          RasterLines,   \* the region's largest display, 240 or 256
          ActiveLines,   \* the vertical resolutions VRESO selects
          ActiveCycles,  \* activeSystemCycles of the horizontal modes
          Compares,      \* Timer 0 compare values programs write
          Delays,        \* cycles Timer 1 set data stand for
          T0Mod,         \* 1024: Timer 0 counts in ten bits
          MaxWrites      \* bound: register writes in a frame

ASSUME GeometryAssumption ==
  /\ LineCycles \in Nat \ {0} /\ SyncChunk \in Nat \ {0}
  /\ Lines \in Nat /\ RasterLines \in Nat /\ RasterLines < Lines
  /\ ActiveLines # {} /\ ActiveLines \subseteq 1..(Lines - 1)
  /\ ActiveCycles # {} /\ ActiveCycles \subseteq 1..LineCycles
  /\ T0Mod \in Nat /\ \A a \in ActiveLines : a < T0Mod

ASSUME RegisterAssumption ==
  /\ Compares # {} /\ Compares \subseteq Nat
  /\ Delays # {} /\ Delays \subseteq Nat
  /\ MaxWrites \in Nat

VARIABLES
  running,             \* the main goroutine is walking a frame's lines
  vLine, lineCycle,    \* its position: VDP2's line and cycle counters
  hblankRaised,        \* H-Blank-IN was raised on this line
  raising,             \* where it is in RaiseHBlankIN: about to take the
                       \* timers, Timer 0 raised, or not in it
  activeLines, activeSystemCycles,   \* the display mode in force
  secondaryCycles,     \* the secondary's position
  t0cnt, t0c,          \* Timer 0: counter, compare value
  t1md,                \* "enable" (bit 0), "mode1" (bit 8)
  t1s, t1Delay, t1Gate,  \* Timer 1: set data, countdown or -1, gate
  writes,              \* register writes in this frame
  \* Observers; no action reads them.
  ins, outs,           \* V-Blank-IN and V-Blank-OUT raised this frame, to 2
  calm,                \* no mode change this frame outside the safe window
  track,               \* Timer 0 has been counting since a V-Blank-OUT
  due                  \* master position at which Timer 1 is due, 0 if not

vdp2 == <<running, vLine, lineCycle, hblankRaised, raising>>
mode == <<activeLines, activeSystemCycles>>
timers == <<t0cnt, t0c, t1md, t1s, t1Delay, t1Gate>>
observers == <<ins, outs, calm, track, due>>
rasterVars == <<vdp2, mode, secondaryCycles, timers, writes, observers>>

TimerModes == SUBSET {"enable", "mode1"}

RasterTypeOK ==
  /\ running \in BOOLEAN /\ hblankRaised \in BOOLEAN
  /\ raising \in {"no", "timers", "raised0"}
  /\ vLine \in 0..(Lines - 1) /\ lineCycle \in 0..LineCycles
  /\ activeLines \in ActiveLines /\ activeSystemCycles \in ActiveCycles
  /\ secondaryCycles \in Nat
  /\ t0cnt \in 0..(T0Mod - 1) /\ t0c \in Nat
  /\ t1md \in TimerModes
  /\ t1s \in Nat /\ t1Delay \in Nat \cup {-1} /\ t1Gate \in BOOLEAN
  /\ writes \in 0..MaxWrites
  /\ ins \in 0..2 /\ outs \in 0..2
  /\ calm \in BOOLEAN /\ track \in BOOLEAN /\ due \in Int

-----------------------------------------------------------------------------

Total == Lines * LineCycles

\* masterCycles: at the frame end it stays at the total until the next frame.
MasterPos == IF running THEN vLine * LineCycles + lineCycle ELSE Total

\* A chunk stops at the end of its line.
ChunkFrom(cycle) ==
  IF LineCycles - cycle < SyncChunk THEN LineCycles - cycle ELSE SyncChunk

\* The line at which the vertical blank ends in a mode of a lines: the top
\* border begins there; without a border it is the end of the frame.
VBlankOutLine(a) ==
  IF a >= RasterLines THEN Lines ELSE Lines - (RasterLines - a) \div 2

UpToTwo(n) == IF n < 2 THEN n + 1 ELSE 2

RasterInit ==
  /\ running = TRUE
  /\ vLine = 0 /\ lineCycle = 0 /\ hblankRaised = FALSE /\ raising = "no"
  /\ activeLines \in ActiveLines /\ activeSystemCycles \in ActiveCycles
  /\ secondaryCycles = 0
  /\ t0cnt = 0 /\ t0c \in Compares /\ t1md = {}
  /\ t1s \in Delays /\ t1Delay = -1 /\ t1Gate = FALSE
  /\ writes = 0
  /\ ins = 0 /\ outs = 0 /\ calm = TRUE /\ track = FALSE /\ due = 0

-----------------------------------------------------------------------------
(* The main goroutine.                                                     *)

Raises0 == t0cnt = t0c % T0Mod

HBlankBegins(cycle) ==
  cycle >= activeSystemCycles /\ ~hblankRaised /\ vLine < activeLines

NextPos == lineCycle + ChunkFrom(lineCycle)

\* The line's H-Blank-IN.  The transfer a start factor begins lets the SCU's
\* lock go, so the other goroutine comes in after the H-Blank's interrupt and
\* again after Timer 0's (checkDMATrigger).
RaiseHBlankIN ==
  /\ hblankRaised' = TRUE /\ raising' = "timers"
  /\ UNCHANGED lineCycle

\* One chunk of the line, once the secondary has reached its start: the
\* master runs (its register writes are WriteTVMD, WriteT0C and the others), the raster
\* advances, the line's H-Blank-IN is raised, and the position is published.
MasterChunk ==
  /\ running /\ lineCycle < LineCycles /\ raising = "no"
  /\ secondaryCycles >= MasterPos
  /\ IF HBlankBegins(NextPos)
     THEN RaiseHBlankIN
     ELSE lineCycle' = NextPos /\ UNCHANGED <<hblankRaised, raising>>
  /\ UNCHANGED <<running, vLine, mode, secondaryCycles, timers, writes, observers>>

Return == raising' = "no" /\ lineCycle' = NextPos

\* Timer 1 takes the H-Blank at the position about to be published.
LoadTimer1(t0Fire) ==
  /\ t1Gate' = ("mode1" \notin t1md \/ t0Fire)
  /\ t1Delay' = IF t1s = 0 THEN -1 ELSE t1s
  /\ due' = IF t1s = 0 THEN 0 ELSE vLine * LineCycles + NextPos + t1s
  /\ Return

CountTimer0 == t0cnt' = (t0cnt + 1) % T0Mod

TakeTimers ==
  /\ raising = "timers"
  /\ \/ /\ "enable" \notin t1md
        /\ Return /\ UNCHANGED <<t0cnt, t1Gate, t1Delay, due>>
     \/ /\ "enable" \in t1md /\ ~Raises0
        /\ CountTimer0 /\ LoadTimer1(FALSE)
     \/ /\ "enable" \in t1md /\ Raises0
        /\ CountTimer0 /\ raising' = "raised0"
        /\ UNCHANGED <<lineCycle, t1Gate, t1Delay, due>>
  /\ UNCHANGED <<running, vLine, hblankRaised, mode, secondaryCycles, t0c, t1md, t1s, writes,
                 ins, outs, calm, track>>

AfterTimer0 ==
  /\ raising = "raised0"
  /\ LoadTimer1(TRUE)
  /\ UNCHANGED <<running, vLine, hblankRaised, mode, secondaryCycles, t0cnt, t0c, t1md, t1s, writes,
                 ins, outs, calm, track>>

\* Mutant: the counter runs on over the blanking.
RaiseVBlankOUT_KeepsCount ==
  /\ t0cnt' = t0cnt
  /\ outs' = UpToTwo(outs)
  /\ track' = ("enable" \in t1md)

\* SCU.RaiseVBlankOUT: Timer 0 counts the next display from zero.
RaiseVBlankOUT ==
  /\ t0cnt' = 0
  /\ outs' = UpToTwo(outs)
  /\ track' = ("enable" \in t1md)

\* Mutant: every blanked line counts as the first.
BlankBegins_Within(line) == line >= activeLines

\* The line that begins is the first blanked one.
BlankBegins(line) == line = activeLines

\* The end of a line that is not the frame's last.
EndLine ==
  /\ running /\ lineCycle = LineCycles /\ vLine + 1 < Lines
  /\ secondaryCycles >= MasterPos
  /\ lineCycle' = 0 /\ hblankRaised' = FALSE
  /\ vLine' = vLine + 1
  /\ ins' = IF BlankBegins(vLine') THEN UpToTwo(ins) ELSE ins
  /\ IF vLine' = VBlankOutLine(activeLines)
     THEN RaiseVBlankOUT
     ELSE UNCHANGED <<t0cnt, outs, track>>
  /\ UNCHANGED <<running, raising, mode, secondaryCycles, t0c, t1md, t1s, t1Delay, t1Gate,
                 writes, calm, due>>

\* The end of the frame; the barrier does not wait here.
EndFrame ==
  /\ running /\ lineCycle = LineCycles /\ vLine + 1 = Lines
  /\ running' = FALSE
  /\ lineCycle' = 0 /\ hblankRaised' = FALSE /\ vLine' = 0
  /\ IF VBlankOutLine(activeLines) >= Lines
     THEN RaiseVBlankOUT
     ELSE UNCHANGED <<t0cnt, outs, track>>
  /\ UNCHANGED <<raising, mode, secondaryCycles, t0c, t1md, t1s, t1Delay, t1Gate, writes,
                 ins, calm, due>>

\* RunFrame once both goroutines have completed the frame, without or with a
\* deferred systemReset: VDP2.Reset clears TVMD, SCU.Reset the countdown, and
\* neither touches the timer registers or the Timer 0 counter.
BeginFrame ==
  /\ running' = TRUE
  /\ secondaryCycles' = 0 /\ writes' = 0
  /\ ins' = 0 /\ outs' = 0 /\ calm' = TRUE
  /\ UNCHANGED <<vLine, lineCycle, hblankRaised, raising, t0cnt, t0c, t1md, t1s, track>>

Parked == ~running /\ secondaryCycles = Total

NextFrame ==
  /\ Parked
  /\ BeginFrame
  /\ due' = IF t1Delay >= 0 THEN due - Total ELSE 0
  /\ UNCHANGED <<mode, t1Delay, t1Gate>>

SystemReset ==
  /\ Parked
  /\ BeginFrame
  /\ activeLines' \in {a \in ActiveLines : \A b \in ActiveLines : a <= b}
  /\ activeSystemCycles' \in
       {a \in ActiveCycles : \A b \in ActiveCycles : a <= b}
  /\ t1Delay' = -1 /\ t1Gate' = FALSE /\ due' = 0

-----------------------------------------------------------------------------
(* The secondary goroutine.                                                *)

\* The countdown of Timer 1 has run out and its line is let through.
Fires1 ==
  /\ t1Delay >= 0
  /\ t1Delay <= ChunkFrom(secondaryCycles % LineCycles)
  /\ t1Gate

\* Mutant: the secondary does not wait for the master.
SecondaryMay_Free == secondaryCycles < Total

\* The secondary may tick a chunk: it has not finished the frame and the
\* master has reached the chunk's start.
SecondaryMay == secondaryCycles < Total /\ MasterPos >= secondaryCycles

\* Mutant: a countdown whose line is not let through is left standing.
TickTimer1_Held(cycles) ==
  t1Delay' = IF t1Delay > cycles THEN t1Delay - cycles
             ELSE IF t1Gate THEN -1 ELSE t1Delay

\* SCU.TickSystemCycles, its Timer 1 part: the countdown ends with or without
\* an interrupt.
TickTimer1(cycles) ==
  t1Delay' = IF t1Delay > cycles THEN t1Delay - cycles ELSE -1

SecondaryChunk ==
  LET chunk == ChunkFrom(secondaryCycles % LineCycles) IN
  /\ SecondaryMay
  /\ secondaryCycles' = secondaryCycles + chunk
  /\ TickTimer1(chunk)
  /\ due' = IF t1Delay' >= 0 THEN due ELSE 0
  /\ UNCHANGED <<vdp2, mode, t0cnt, t0c, t1md, t1s, t1Gate, writes,
                 ins, outs, calm, track>>

-----------------------------------------------------------------------------
(* Programs.                                                               *)

\* A change of vertical resolution that loses or repeats no blanking
\* interrupt: the line is blanked, and not yet past the blank, in both modes.
SafeChange(a) ==
  \/ a = activeLines
  \/ /\ vLine >= activeLines /\ vLine < VBlankOutLine(activeLines)
     /\ vLine >= a /\ vLine < VBlankOutLine(a)

MayWrite == ~Parked /\ writes < MaxWrites /\ writes' = writes + 1

\* A write to TVMD takes effect at once.
WriteTVMD(a, c) ==
  /\ MayWrite
  /\ activeLines' = a /\ activeSystemCycles' = c
  /\ calm' = (calm /\ SafeChange(a))
  /\ track' = (track /\ SafeChange(a))
  /\ UNCHANGED <<vdp2, secondaryCycles, timers, ins, outs, due>>

WriteT0C(v) ==
  /\ MayWrite
  /\ t0c' = v
  /\ UNCHANGED <<vdp2, mode, secondaryCycles, t0cnt, t1md, t1s, t1Delay, t1Gate, observers>>

WriteT1S(v) ==
  /\ MayWrite
  /\ t1s' = v
  /\ UNCHANGED <<vdp2, mode, secondaryCycles, t0cnt, t0c, t1md, t1Delay, t1Gate, observers>>

\* Clearing the enable bit also stops a countdown.
WriteT1MD(v) ==
  /\ MayWrite
  /\ t1md' = v
  /\ t1Delay' = IF "enable" \in v THEN t1Delay ELSE -1
  /\ track' = (track /\ "enable" \in v)
  /\ due' = IF t1Delay' >= 0 THEN due ELSE 0
  /\ UNCHANGED <<vdp2, mode, secondaryCycles, t0cnt, t0c, t1s, t1Gate, ins, outs, calm>>

Main == MasterChunk \/ TakeTimers \/ AfterTimer0 \/ EndLine \/ EndFrame \/ NextFrame \/ SystemReset

Program ==
  \/ \E a \in ActiveLines, c \in ActiveCycles : WriteTVMD(a, c)
  \/ \E v \in Compares : WriteT0C(v)
  \/ \E v \in Delays : WriteT1S(v)
  \/ \E v \in TimerModes : WriteT1MD(v)

RasterNext == Main \/ SecondaryChunk \/ Program

RasterSpec == RasterInit /\ [][RasterNext]_rasterVars

\* Both goroutines are scheduled for ever.
RasterFairSpec == RasterSpec /\ WF_rasterVars(Main) /\ WF_rasterVars(SecondaryChunk)

-----------------------------------------------------------------------------
(* Properties.                                                             *)

\* A frame whose vertical resolution changes, if at all, only where both modes
\* blank raises V-Blank-IN once and V-Blank-OUT once, whichever mode it began
\* in, and the second not before the first (EndLine, EndFrame: an equality of
\* the line with a limit that TVMD moves).
BlanksPaired ==
  calm => /\ outs <= ins
          /\ ~running => ins = 1 /\ outs = 1

\* Once a V-Blank-OUT has passed with the timers enabled, Timer 0 is raised on
\* the H-Blank of the display line its compare value names and on no other,
\* whenever that value was written (RaiseHBlankIN counts what RaiseVBlankOUT
\* reset, up to a border before the frame in which it counts), though others
\* come in between the H-Blank and the timers.
TimerLine ==
  [][track /\ raising = "timers" /\ raising' # "timers"
       => (Raises0 <=> vLine = t0c % T0Mod)]_rasterVars

\* Timer 1 fires less than a chunk of cycles late and at most a chunk early,
\* though the H-Blank that loads it and the ticks that count it run on
\* different goroutines.
TimerOnTime ==
  [][SecondaryChunk /\ Fires1 =>
       /\ secondaryCycles' >= due - SyncChunk
       /\ secondaryCycles' < due + SyncChunk]_rasterVars

\* A countdown ends, even one longer than a line, which every H-Blank of the
\* display loads anew before it can run out.
CountdownEnds == (t1Delay >= 0) ~> (t1Delay < 0)
=============================================================================
