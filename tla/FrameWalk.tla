------------------------------ MODULE FrameWalk ------------------------------
(***************************************************************************)
(* The three goroutines that walk one frame of emulation together          *)
(* (src/core/frame.go, src/core/emulator.go):                              *)
(*   - the main goroutine (RunFrame) steps the master SH-2;                *)
(*   - the secondary worker steps the slave SH-2, SCU, SCSP, CD block and  *)
(*     dispatches SMPC commands;                                           *)
(*   - the VDP worker walks whole lines behind both CPUs.                  *)
(* They share three progress counters, the frame's parameters, the         *)
(* capture flags and the frame buffer pair handshake; every access to an   *)
(* atomic is a step of its own, plain work between two of them is not.     *)
(*                                                                         *)
(* The CPUs' programs are inputs: any chunk may write MINIT/SINIT, read    *)
(* the frame buffer or make the SMPC dispatch a reset command.             *)
(***************************************************************************)
EXTENDS Integers

CONSTANTS
  Chunk,        \* syncChunkCycles
  Slack,        \* vdpSlackLines
  LineWidths,   \* widths recalcTiming may give the lines of a frame
  LineCounts,   \* scanlines of a frame
  Signals,      \* capture signals the programs use: subset of {"MINIT", "SINIT"}
  Readers,      \* CPUs that read the frame buffer: subset of {"master", "secondary"}
  Commands      \* SMPC commands dispatched: subset of {"SYSRES", "CKCHG"}

ASSUME ChunkAssumption == Chunk \in Nat \ {0}
ASSUME SlackAssumption == Slack \in Nat \ {0}
ASSUME WidthAssumption == LineWidths \subseteq Nat \ {0} /\ LineWidths # {}
ASSUME CountAssumption == LineCounts \subseteq Nat \ {0} /\ LineCounts # {}
ASSUME InputAssumption == /\ Signals \subseteq {"MINIT", "SINIT"}
                          /\ Readers \subseteq {"master", "secondary"}
                          /\ Commands \subseteq {"SYSRES", "CKCHG"}

VARIABLES
  main, line, cyc, pos,      \* RunFrame: control point and locals
  sec, swidth, spos, slineEnd,  \* walkSecondaryFrame: control point and locals
  vdp, vline,                \* walkVDPFrame: control point and line
  masterCycles, secondaryCycles, vdpLinesWalked,   \* progress counters
  width, lines, total,       \* frameCyclesPerScanline, frameScanlines, frameTotalCycles
  overtaken,                 \* history: see StartFrame
  vdpJobChBegin, vdpJobChFinished, secondaryJobCh, \* messages in each channel
  closed,                    \* Close ran
  minitPending, sinitPending,   \* capture flags between the CPUs
  minitAt, sinitAt,          \* history: position of the oldest undelivered write
  pendingSystemReset, pendingMasterNMI,
  pairKept, pairRequest,     \* frame buffer pair handshake
  reader                     \* the CPU inside waitPair, holding the B-Bus area

mainVars == <<main, line, cyc, pos>>
secVars == <<sec, swidth, spos, slineEnd>>
vdpVars == <<vdp, vline>>
counters == <<masterCycles, secondaryCycles, vdpLinesWalked>>
params == <<width, lines, total, overtaken>>
channels == <<vdpJobChBegin, vdpJobChFinished, secondaryJobCh, closed>>
captures == <<minitPending, sinitPending, minitAt, sinitAt>>
deferred == <<pendingSystemReset, pendingMasterNMI>>
pair == <<pairKept, pairRequest, reader>>
vars == <<mainVars, secVars, vdpVars, counters, params, channels, captures,
          deferred, pair>>

NoTime == -1

NextChunk(rest) == IF rest > Chunk THEN Chunk ELSE rest

Init ==
  /\ main = "host" /\ line = 0 /\ cyc = 0 /\ pos = 0
  /\ sec = "parked" /\ swidth = 0 /\ spos = 0 /\ slineEnd = 0
  /\ vdp = "parked" /\ vline = 0
  /\ masterCycles = 0 /\ secondaryCycles = 0 /\ vdpLinesWalked = 0
  /\ width = 0 /\ lines = 0 /\ total = 0 /\ overtaken = FALSE
  /\ vdpJobChBegin = 0 /\ vdpJobChFinished = 0 /\ secondaryJobCh = 0
  /\ closed = FALSE
  /\ minitPending = FALSE /\ sinitPending = FALSE
  /\ minitAt = NoTime /\ sinitAt = NoTime
  /\ pendingSystemReset = FALSE /\ pendingMasterNMI = FALSE
  /\ pairKept \in BOOLEAN /\ pairRequest = FALSE /\ reader = "none"

-----------------------------------------------------------------------------
(* The host, between two frames.                                           *)

CallRunFrame ==
  /\ main = "host" /\ ~closed
  /\ main' = "boundary"
  /\ UNCHANGED <<line, cyc, pos, secVars, vdpVars, counters, params, channels,
                 captures, deferred, pair>>

\* openRenderer: an accurate GPU renderer leaves the pair on the device.
OpenRenderer ==
  /\ main = "host" /\ ~closed
  /\ pairKept' \in BOOLEAN
  /\ UNCHANGED <<mainVars, secVars, vdpVars, counters, params, channels,
                 captures, deferred, pairRequest, reader>>

Close ==
  /\ main = "host" /\ ~closed
  /\ closed' = TRUE
  /\ UNCHANGED <<mainVars, secVars, vdpVars, counters, params, vdpJobChBegin,
                 vdpJobChFinished, secondaryJobCh, captures, deferred, pair>>

-----------------------------------------------------------------------------
(* The main goroutine: RunFrame.                                           *)

\* The frame boundary: the deferred system reset, and after it the deferred
\* NMI.  The reset drops the captures under way on either CPU.
Boundary ==
  /\ main = "boundary"
  /\ main' = "start"
  /\ pendingSystemReset' = FALSE /\ pendingMasterNMI' = FALSE
  /\ IF pendingSystemReset
       THEN /\ minitPending' = FALSE /\ sinitPending' = FALSE
            /\ minitAt' = NoTime /\ sinitAt' = NoTime
       ELSE UNCHANGED captures
  /\ UNCHANGED <<line, cyc, pos, secVars, vdpVars, counters, params, channels, pair>>

\* Counters to zero, the frame's parameters taken from the live timing.
\* Positions restart at zero (frameStart moved up by the last frame's total),
\* so the writes still pending have negative positions in the new frame.
\* The secondary may still be on its way back from the last frame, to compare
\* its old position with the new total: a longer frame overtakes it.
StartFrame ==
  /\ main = "start"
  /\ masterCycles' = 0 /\ secondaryCycles' = 0 /\ vdpLinesWalked' = 0
  /\ \E w \in LineWidths, n \in LineCounts :
        /\ width' = w /\ lines' = n /\ total' = w * n
        /\ overtaken' = (overtaken \/ (sec # "parked" /\ w * n > total))
  /\ minitAt' = IF minitPending THEN minitAt - total ELSE NoTime
  /\ sinitAt' = IF sinitPending THEN sinitAt - total ELSE NoTime
  /\ main' = "kickVDP"
  /\ UNCHANGED <<line, cyc, pos, secVars, vdpVars, channels, minitPending,
                 sinitPending, deferred, pair>>

KickVDP ==
  /\ main = "kickVDP"
  /\ vdpJobChBegin = 0
  /\ vdpJobChBegin' = 1
  /\ main' = "kickSecondary"
  /\ UNCHANGED <<line, cyc, pos, secVars, vdpVars, counters, params,
                 vdpJobChFinished, secondaryJobCh, closed, captures, deferred, pair>>

KickSecondary ==
  /\ main = "kickSecondary"
  /\ secondaryJobCh = 0
  /\ secondaryJobCh' = 1
  /\ main' = "lineStart"
  /\ UNCHANGED <<line, cyc, pos, secVars, vdpVars, counters, params, vdpJobChBegin,
                 vdpJobChFinished, closed, captures, deferred, pair>>

\* spinWait on the walker before a line.
WalkerNear_NoSlack == vdpLinesWalked >= line + 1
WalkerNear == vdpLinesWalked >= line + 1 - Slack

LineStart ==
  /\ main = "lineStart"
  /\ WalkerNear
  /\ main' = "chunk"
  /\ UNCHANGED <<line, cyc, pos, secVars, vdpVars, counters, params, channels,
                 captures, deferred, pair>>

\* A frame buffer read by the master while the walk does not keep the pair.
MasterReadsFB ==
  /\ main = "chunk" /\ "master" \in Readers
  /\ reader = "none" /\ ~pairKept
  /\ pairRequest' = TRUE /\ reader' = "master"
  /\ main' = "waitPair"
  /\ UNCHANGED <<line, cyc, pos, secVars, vdpVars, counters, params, channels,
                 captures, deferred, pairKept>>

MasterReadDone ==
  /\ main = "waitPair" /\ pairKept
  /\ reader' = "none" /\ main' = "chunk"
  /\ UNCHANGED <<line, cyc, pos, secVars, vdpVars, counters, params, channels,
                 captures, deferred, pairKept, pairRequest>>

\* master.RunUntil(target): the chunk's work, a MINIT write among it or not.
MasterChunk ==
  /\ main = "chunk"
  /\ cyc' = cyc + NextChunk(width - cyc)
  /\ \/ UNCHANGED <<minitPending, minitAt>>
     \/ /\ "MINIT" \in Signals
        /\ minitPending' = TRUE
        /\ IF minitPending THEN UNCHANGED minitAt
                           ELSE minitAt' \in (pos + cyc)..(pos + cyc' - 1)
  /\ main' = "publish"
  /\ UNCHANGED <<line, pos, secVars, vdpVars, counters, params, channels,
                 sinitPending, sinitAt, deferred, pair>>

\* sh2Barrier on the master: publish, ...
MasterPublish ==
  /\ main = "publish"
  /\ masterCycles' = pos + cyc
  /\ main' = "capture"
  /\ UNCHANGED <<line, cyc, pos, secVars, vdpVars, secondaryCycles,
                 vdpLinesWalked, params, channels, captures, deferred, pair>>

\* ... latch the FRT for a pending SINIT, and skip the wait at the frame end.
MasterCapture_AfterSkip ==
  /\ main = "capture"
  /\ IF pos + cyc >= total
       THEN /\ main' = "lineEnd"
            /\ UNCHANGED captures
       ELSE /\ main' = "rendezvous"
            /\ sinitPending' = FALSE /\ sinitAt' = NoTime
            /\ UNCHANGED <<minitPending, minitAt>>
  /\ UNCHANGED <<line, cyc, pos, secVars, vdpVars, counters, params, channels,
                 deferred, pair>>
MasterCapture ==
  /\ main = "capture"
  /\ sinitPending' = FALSE /\ sinitAt' = NoTime
  /\ main' = IF pos + cyc >= total THEN "lineEnd" ELSE "rendezvous"
  /\ UNCHANGED <<line, cyc, pos, secVars, vdpVars, counters, params, channels,
                 minitPending, minitAt, deferred, pair>>

SecondaryReached == secondaryCycles >= pos + cyc

MasterRendezvous ==
  /\ main = "rendezvous"
  /\ SecondaryReached
  /\ main' = IF cyc < width THEN "chunk" ELSE "lineEnd"
  /\ UNCHANGED <<line, cyc, pos, secVars, vdpVars, counters, params, channels,
                 captures, deferred, pair>>

LineEnd ==
  /\ main = "lineEnd"
  /\ pos' = pos + width /\ line' = line + 1 /\ cyc' = 0
  /\ main' = IF line + 1 < lines THEN "lineStart" ELSE "joinSecondary"
  /\ UNCHANGED <<secVars, vdpVars, counters, params, channels, captures,
                 deferred, pair>>

JoinSecondary ==
  /\ main = "joinSecondary"
  /\ secondaryCycles >= total
  /\ main' = "joinVDP"
  /\ UNCHANGED <<line, cyc, pos, secVars, vdpVars, counters, params, channels,
                 captures, deferred, pair>>

WalkerDone_ByCounter == vdpLinesWalked >= lines
WalkerDone == vdpJobChFinished = 1

\* The walker's finished message; a renderer that failed is replaced by the
\* software renderer, which keeps the pair.
JoinVDP ==
  /\ main = "joinVDP"
  /\ WalkerDone
  /\ vdpJobChFinished' = 0
  /\ pairKept' \in {pairKept, TRUE}
  /\ main' = "host" /\ line' = 0 /\ cyc' = 0 /\ pos' = 0
  /\ UNCHANGED <<secVars, vdpVars, counters, params, vdpJobChBegin, secondaryJobCh, closed, captures, deferred,
                 pairRequest, reader>>

Main == \/ Boundary \/ StartFrame \/ KickVDP \/ KickSecondary \/ LineStart
        \/ MasterReadsFB \/ MasterReadDone \/ MasterChunk \/ MasterPublish
        \/ MasterCapture \/ MasterRendezvous \/ LineEnd \/ JoinSecondary \/ JoinVDP

-----------------------------------------------------------------------------
(* The secondary worker.                                                   *)

SecondaryKicked ==
  /\ sec = "parked" /\ secondaryJobCh = 1
  /\ secondaryJobCh' = 0
  /\ swidth' = width /\ spos' = 0
  /\ sec' = "frame"
  /\ UNCHANGED <<mainVars, slineEnd, vdpVars, counters, params, vdpJobChBegin,
                 vdpJobChFinished, closed, captures, deferred, pair>>

\* The frame loop's condition reads frameTotalCycles afresh each line.
SecondaryFrame ==
  /\ sec = "frame"
  /\ IF spos < total
       THEN sec' = "scanline" /\ UNCHANGED <<swidth, spos, slineEnd>>
       ELSE sec' = "parked" /\ swidth' = 0 /\ spos' = 0 /\ slineEnd' = 0
  /\ UNCHANGED <<mainVars, vdpVars, counters, params,
                 channels, captures, deferred, pair>>

\* TickScanline: the SMPC may dispatch a command that asks for a reset.
SecondaryScanline ==
  /\ sec = "scanline"
  /\ slineEnd' = spos + swidth
  /\ \/ UNCHANGED deferred
     \/ \E cmd \in Commands :
          /\ pendingSystemReset' = TRUE
          /\ pendingMasterNMI' = (pendingMasterNMI \/ cmd = "CKCHG")
  /\ sec' = "chunk"
  /\ UNCHANGED <<mainVars, swidth, spos, vdpVars, counters, params, channels,
                 captures, pair>>

SecondaryReadsFB ==
  /\ sec = "chunk" /\ "secondary" \in Readers
  /\ reader = "none" /\ ~pairKept
  /\ pairRequest' = TRUE /\ reader' = "secondary"
  /\ sec' = "waitPair"
  /\ UNCHANGED <<mainVars, swidth, spos, slineEnd, vdpVars, counters, params,
                 channels, captures, deferred, pairKept>>

SecondaryReadDone ==
  /\ sec = "waitPair" /\ pairKept
  /\ reader' = "none" /\ sec' = "chunk"
  /\ UNCHANGED <<mainVars, swidth, spos, slineEnd, vdpVars, counters, params,
                 channels, captures, deferred, pairKept, pairRequest>>

SecondaryChunk ==
  /\ sec = "chunk"
  /\ spos' = spos + NextChunk(slineEnd - spos)
  /\ \/ UNCHANGED <<sinitPending, sinitAt>>
     \/ /\ "SINIT" \in Signals
        /\ sinitPending' = TRUE
        /\ IF sinitPending THEN UNCHANGED sinitAt
                           ELSE sinitAt' \in spos..(spos' - 1)
  /\ sec' = "publish"
  /\ UNCHANGED <<mainVars, swidth, slineEnd, vdpVars, counters, params, channels,
                 minitPending, minitAt, deferred, pair>>

SecondaryPublish ==
  /\ sec = "publish"
  /\ secondaryCycles' = spos
  /\ sec' = "capture"
  /\ UNCHANGED <<mainVars, swidth, spos, slineEnd, vdpVars, masterCycles,
                 vdpLinesWalked, params, channels, captures, deferred, pair>>

SecondaryCapture ==
  /\ sec = "capture"
  /\ minitPending' = FALSE /\ minitAt' = NoTime
  /\ sec' = "check"
  /\ UNCHANGED <<mainVars, swidth, spos, slineEnd, vdpVars, counters, params,
                 channels, sinitPending, sinitAt, deferred, pair>>

\* Where the loops over chunks and lines go after a barrier.
AfterBarrier == IF spos < slineEnd THEN "chunk" ELSE "frame"

\* The barrier is skipped only where the frame-end wait stands in for it.
SkipsWait_LineEnd == spos >= slineEnd
SkipsWait == spos >= total

SecondaryCheck ==
  /\ sec = "check"
  /\ sec' = IF SkipsWait THEN AfterBarrier ELSE "rendezvous"
  /\ UNCHANGED <<mainVars, swidth, spos, slineEnd, vdpVars, counters, params,
                 channels, captures, deferred, pair>>

SecondaryRendezvous ==
  /\ sec = "rendezvous"
  /\ masterCycles >= spos
  /\ sec' = AfterBarrier
  /\ UNCHANGED <<mainVars, swidth, spos, slineEnd, vdpVars, counters, params,
                 channels, captures, deferred, pair>>

SecondaryExit ==
  /\ sec = "parked" /\ closed /\ secondaryJobCh = 0
  /\ sec' = "exited"
  /\ UNCHANGED <<mainVars, swidth, spos, slineEnd, vdpVars, counters, params,
                 channels, captures, deferred, pair>>

Secondary == \/ SecondaryKicked \/ SecondaryFrame \/ SecondaryScanline
             \/ SecondaryReadsFB \/ SecondaryReadDone \/ SecondaryChunk
             \/ SecondaryPublish \/ SecondaryCapture \/ SecondaryCheck
             \/ SecondaryRendezvous \/ SecondaryExit

-----------------------------------------------------------------------------
(* The VDP worker.                                                         *)

WalkerKicked ==
  /\ vdp = "parked" /\ vdpJobChBegin = 1
  /\ vdpJobChBegin' = 0
  /\ vline' = 0
  /\ vdp' = "waitLine"
  /\ UNCHANGED <<mainVars, secVars, counters, params, vdpJobChFinished,
                 secondaryJobCh, closed, captures, deferred, pair>>

LineCompleted == /\ masterCycles >= (vline + 1) * width
                 /\ secondaryCycles >= (vline + 1) * width

\* waitLineEnd while a CPU asks for the pair.
ServicePair_RequestOnly ==
  /\ vdp = "waitLine" /\ ~LineCompleted /\ pairRequest
  /\ pairRequest' = FALSE
  /\ UNCHANGED <<mainVars, secVars, vdpVars, counters, params, channels,
                 captures, deferred, pairKept, reader>>
ServicePair ==
  /\ vdp = "waitLine" /\ ~LineCompleted /\ pairRequest
  /\ pairKept' = TRUE /\ pairRequest' = FALSE
  /\ UNCHANGED <<mainVars, secVars, vdpVars, counters, params, channels,
                 captures, deferred, reader>>

WalkerStartsLine ==
  /\ vdp = "waitLine" /\ LineCompleted
  /\ vdp' = "walk"
  /\ UNCHANGED <<mainVars, secVars, vline, counters, params, channels, captures,
                 deferred, pair>>

\* The line's events, VDP1 cycles and row render; then the line is published.
WalkLine ==
  /\ vdp = "walk"
  /\ vdpLinesWalked' = vline + 1 /\ vline' = vline + 1
  /\ vdp' = IF vline + 1 < lines THEN "waitLine" ELSE "finish"
  /\ UNCHANGED <<mainVars, secVars, masterCycles, secondaryCycles, params,
                 channels, captures, deferred, pair>>

WalkerFinishes ==
  /\ vdp = "finish" /\ vdpJobChFinished = 0
  /\ vdpJobChFinished' = 1
  /\ vdp' = "parked" /\ vline' = 0
  /\ UNCHANGED <<mainVars, secVars, counters, params, vdpJobChBegin,
                 secondaryJobCh, closed, captures, deferred, pair>>

WalkerExit ==
  /\ vdp = "parked" /\ closed /\ vdpJobChBegin = 0
  /\ vdp' = "exited"
  /\ UNCHANGED <<mainVars, secVars, vline, counters, params, channels, captures,
                 deferred, pair>>

Walker == \/ WalkerKicked \/ ServicePair \/ WalkerStartsLine \/ WalkLine
          \/ WalkerFinishes \/ WalkerExit

-----------------------------------------------------------------------------
Host == CallRunFrame \/ OpenRenderer \/ Close

\* Everything stopped after Close: the one state the system may stay in.
Stopped == /\ closed /\ sec = "exited" /\ vdp = "exited"
           /\ UNCHANGED vars

Next == Host \/ Main \/ Secondary \/ Walker \/ Stopped

\* The Go scheduler runs every runnable goroutine: the waits spin but yield
\* with Gosched after barrierSpinLimit iterations.  The host owes no call.
Fairness == WF_vars(Main) /\ WF_vars(Secondary) /\ WF_vars(Walker)

Spec == Init /\ [][Next]_vars /\ Fairness
-----------------------------------------------------------------------------
(* Properties.                                                             *)

InFrame == main \notin {"host", "boundary", "start"}

ControlOK ==
  /\ main \in {"host", "boundary", "start", "kickVDP", "kickSecondary",
               "lineStart", "chunk", "waitPair", "publish", "capture",
               "rendezvous", "lineEnd", "joinSecondary", "joinVDP"}
  /\ sec \in {"parked", "frame", "scanline", "chunk", "waitPair", "publish",
              "capture", "check", "rendezvous", "exited"}
  /\ vdp \in {"parked", "waitLine", "walk", "finish", "exited"}
  /\ reader \in {"none", "master", "secondary"}

PositionsOK ==
  /\ width \in Nat /\ lines \in Nat /\ total \in Nat
  /\ line \in 0..lines /\ cyc \in 0..width /\ pos \in 0..total
  /\ swidth \in Nat /\ spos \in Nat /\ slineEnd \in Nat /\ vline \in Nat
  /\ masterCycles \in Nat /\ secondaryCycles \in Nat /\ vdpLinesWalked \in Nat
  /\ minitAt \in Int /\ sinitAt \in Int
  /\ vdpJobChBegin \in 0..1 /\ vdpJobChFinished \in 0..1 /\ secondaryJobCh \in 0..1

FlagsOK ==
  /\ closed \in BOOLEAN
  /\ minitPending \in BOOLEAN /\ sinitPending \in BOOLEAN
  /\ pendingSystemReset \in BOOLEAN /\ pendingMasterNMI \in BOOLEAN
  /\ pairKept \in BOOLEAN /\ pairRequest \in BOOLEAN
  /\ overtaken \in BOOLEAN

TypeOK == ControlOK /\ PositionsOK /\ FlagsOK

\* The secondary is on its way back from the last frame, with the next begun.
Trailing == /\ sec \notin {"parked", "exited"}
            /\ main \in {"kickVDP", "kickSecondary"} \/ secondaryJobCh = 1

\* All it has left to do then: its capture, the end-of-frame check and the
\* frame loop's condition.
OnTheWayBack == sec \in {"capture", "check", "frame"}

\* At the frame boundary the VDP worker is parked and no message is in flight;
\* the secondary is parked or has published the whole frame, so that a capture
\* is all it may still do to what a reset or a new frame's parameters rewrite
\* (RunFrame calls both workers parked there).
QuietBoundary ==
  main \in {"boundary", "start"} /\ ~overtaken =>
    /\ vdp = "parked"
    /\ vdpJobChBegin = 0 /\ vdpJobChFinished = 0 /\ secondaryJobCh = 0
    /\ sec = "parked" \/ (OnTheWayBack /\ spos = total)

\* The published SH-2 clocks never drift more than a chunk apart.
ChunkSkew ==
  InFrame /\ ~overtaken =>
             /\ masterCycles <= secondaryCycles + Chunk
             /\ secondaryCycles <= masterCycles + Chunk

\* The VDP walker trails the master by no more than Slack lines, and the
\* secondary, which never waits for it, by no more than a chunk beyond that.
SlackBound ==
  InFrame /\ ~overtaken =>
             /\ masterCycles <= (vdpLinesWalked + Slack) * width
             /\ secondaryCycles <= (vdpLinesWalked + Slack) * width + Chunk

\* While a line is being walked both CPUs have completed it: VDP1 never
\* processes a cycle before the CPUs' writes for that line have landed.
WalkerBehind ==
  vdp = "walk" /\ ~overtaken =>
                  /\ InFrame
                  /\ masterCycles >= (vline + 1) * width
                  /\ secondaryCycles >= (vline + 1) * width

\* The secondary's position in the frame the master is in.
SecondaryNow == IF Trailing THEN 0 ELSE spos

\* A capture the peer asked for is latched within two chunks of the write,
\* across the frame boundary as well, unless a system reset drops it.
CaptureWithinTwoChunks ==
  [][/\ (sec = "capture" /\ sec' = "check" /\ minitPending /\ ~overtaken)
          => SecondaryNow - minitAt <= 2 * Chunk
     /\ (main = "capture" /\ main' # "capture" /\ sinitPending /\ ~overtaken)
          => pos + cyc - sinitAt <= 2 * Chunk]_vars

\* A CPU inside a frame buffer read waits with its request raised, or the pair
\* is already there for it: no request is lost.
RequestStands ==
  reader # "none" => pairRequest \/ pairKept

\* RunFrame executes one complete frame: a frame begun is finished, and both
\* workers come back to wait for the next, unless a longer frame overtakes the
\* secondary.
FrameCompletes ==
  /\ InFrame ~> (main = "host" /\ vdp \in {"parked", "exited"}) \/ overtaken
  /\ sec # "parked" ~> sec \in {"parked", "exited"} \/ overtaken

\* The same without the exception, as the comment of RunFrame has it.
EveryFrameCompletes == InFrame ~> main = "host"

\* A CPU spinning in waitPair is answered and goes on.
ReadAnswered == /\ main = "waitPair" ~> main # "waitPair" \/ overtaken
                /\ sec = "waitPair" ~> sec # "waitPair" \/ overtaken

\* The walk implements the frame clock.
Clock == INSTANCE FrameClock WITH running <- InFrame,
                                  m <- masterCycles, s <- secondaryCycles,
                                  walked <- vdpLinesWalked
ImplementsClock == Clock!Spec
=============================================================================
