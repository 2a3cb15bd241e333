-------------------------------- MODULE SMPC --------------------------------
(***************************************************************************)
(* The system manager (src/core/smpc.go), the goroutine that ticks it once *)
(* a scanline and applies its sound switch every chunk (walkSecondaryFrame *)
(* in src/core/frame.go), the frame boundary that applies its resets       *)
(* (RunFrame), and a CPU that runs the command handshake.                  *)
(*                                                                         *)
(* Register writes and ticks are critical sections of the areaSMPC lock,   *)
(* one step each; the tick raises its interrupt after it has let go.       *)
(* Clock, backup memory and pad data are left out, and the output          *)
(* registers: which phase of an INTBACK is answered is what is kept.       *)
(***************************************************************************)
EXTENDS Integers, Sequences

CONSTANTS
  Commands,   \* the commands software issues
  Delay,      \* cmdScanlines of each
  Lines,      \* scanlines of a frame
  MaxOps      \* bound on the operations in the queue

ASSUME SMPCAssumption ==
  /\ Commands \subseteq {"INTBACK", "SNDON", "SNDOFF", "SYSRES", "CKCHG", "OTHER"}
  /\ Delay \in [Commands -> Nat \ {0}]
  /\ Lines \in Nat \ {0}
  /\ MaxOps \in Nat \ {0}

VARIABLES
  \* the registers and the queue
  sf, ireg, comreg, cmdDelay, pendingOps, intbackActive,
  \* what the commands switch
  soundEnabled, inReset, pendingSystemReset, pendingMasterNMI,
  \* the frame walk
  place, line,
  \* the CPU: where it is in the handshake, the command with its parameters,
  \* whether a continue or break for it may still be written
  cpu, request, mayContinue,
  \* history: the commands issued and not yet dispatched; what was dispatched
  \* in this scanline; the last INTBACK asked for a second phase; a continue
  \* was written for it and is not answered yet; SF was set after the command
  \* it was meant for had run
  issued, dispatched, open, promised, late

registers == <<sf, ireg, comreg, cmdDelay, pendingOps, intbackActive>>
switches == <<soundEnabled, inReset, pendingSystemReset, pendingMasterNMI>>
walk == <<place, line>>
client == <<cpu, request, mayContinue>>
history == <<issued, dispatched, open, promised, late>>
vars == <<registers, switches, walk, client, history>>

(* IREG0 holds 0 or 1 as a parameter, bit 7 as a continue, bit 6 as a break. *)
Params == [ireg0 : {"zero", "system"}, pen : BOOLEAN]
NoParams == [ireg0 |-> "zero", pen |-> FALSE]
Requests == {[cmd |-> c, ireg |-> p] : c \in Commands \cap {"INTBACK"}, p \in Params}
            \cup {[cmd |-> c, ireg |-> NoParams] : c \in Commands \ {"INTBACK"}}
NoRequest == [cmd |-> "none", ireg |-> NoParams]

Init ==
  /\ sf = 0 /\ ireg = NoParams /\ comreg = "none" /\ cmdDelay = 0
  /\ pendingOps = <<>> /\ intbackActive = FALSE
  /\ soundEnabled = FALSE /\ inReset = TRUE
  /\ pendingSystemReset = FALSE /\ pendingMasterNMI = FALSE
  /\ place = "boundary" /\ line = 0
  /\ cpu = "idle" /\ request = NoRequest /\ mayContinue = FALSE
  /\ issued = <<>> /\ dispatched = NoRequest /\ open = FALSE /\ promised = FALSE
  /\ late = FALSE

-----------------------------------------------------------------------------
(* The CPU's register writes                                                 *)

Command(cmd, params) == [cont |-> FALSE, val |-> cmd, ireg |-> params]
Continue(val) == [cont |-> TRUE, val |-> val, ireg |-> NoParams]

(* Software sets SF before it writes COMREG, or right after it.              *)
Prepare ==
  /\ cpu = "idle"
  /\ request' \in Requests
  /\ ireg' = request'.ireg
  /\ cpu' \in {"setSF", "issueFirst"}
  /\ UNCHANGED <<sf, comreg, cmdDelay, pendingOps, intbackActive, switches, walk,
                 mayContinue, history>>

WriteSF ==
  /\ cpu \in {"setSF", "setSFLast"}
  /\ sf' = 1
  /\ cpu' = IF cpu = "setSF" THEN "issue" ELSE "poll"
  /\ late' = (cpu = "setSFLast" /\ issued = <<>>)
  /\ UNCHANGED <<ireg, comreg, cmdDelay, pendingOps, intbackActive, switches, walk,
                 request, mayContinue, issued, dispatched, open, promised>>

(* A COMREG write queues the command with the input registers as they are,   *)
(* and starts its delay if it is the first in the queue.                     *)
WriteCOMREG ==
  /\ cpu \in {"issue", "issueFirst"}
  /\ Len(pendingOps) < MaxOps
  /\ pendingOps' = Append(pendingOps, Command(request.cmd, ireg))
  /\ IF pendingOps = <<>>
     THEN comreg' = request.cmd /\ cmdDelay' = Delay[request.cmd]
     ELSE UNCHANGED <<comreg, cmdDelay>>
  /\ cpu' = IF cpu = "issue" THEN "poll" ELSE "setSFLast"
  /\ mayContinue' = (request.cmd = "INTBACK")
  /\ issued' = Append(issued, request)
  /\ open' = IF request.cmd = "INTBACK" THEN request.ireg = [ireg0 |-> "system", pen |-> TRUE] ELSE open
  /\ UNCHANGED <<sf, ireg, intbackActive, switches, walk, request, dispatched, promised, late>>

Poll ==
  /\ cpu = "poll"
  /\ sf = 0
  /\ cpu' = "idle"
  /\ request' = NoRequest
  /\ late' = FALSE
  /\ UNCHANGED <<registers, switches, walk, mayContinue, issued, dispatched, open, promised>>

(* Mutant: a continue is taken only while an INTBACK waits for it.           *)
Captured_ActiveOnly == intbackActive
Captured == intbackActive \/ pendingOps # <<>>

(* A continue or a break, from an interrupt handler or right after COMREG:   *)
(* queued behind what was issued before it.                                  *)
WriteIREG0 ==
  /\ mayContinue /\ cpu \in {"idle", "poll"}
  /\ Len(pendingOps) < MaxOps
  /\ \E val \in {"continue", "break"} :
       /\ ireg' = [ireg EXCEPT !.ireg0 = val]
       /\ pendingOps' = IF Captured THEN Append(pendingOps, Continue(val)) ELSE pendingOps
       /\ promised' = (promised \/ (val = "continue" /\ open))
  /\ mayContinue' = FALSE
  /\ UNCHANGED <<sf, comreg, cmdDelay, intbackActive, switches, walk, cpu, request,
                 issued, dispatched, open, late>>

-----------------------------------------------------------------------------
(* TickScanline                                                              *)

(* primeNextDispatch, of the queue left.                                     *)
Prime(ops) ==
  IF ops # <<>> /\ ~Head(ops).cont
  THEN comreg' = Head(ops).val /\ cmdDelay' = Delay[Head(ops).val]
  ELSE UNCHANGED comreg /\ cmdDelay' = 0

Collect == intbackActive' = FALSE /\ open' = FALSE /\ promised' = FALSE

(* processINTBACKStep: a break ends the INTBACK, a continue is answered with *)
(* the peripheral data and an interrupt, either without an INTBACK is        *)
(* drained.                                                                  *)
ServiceContinue ==
  /\ place = "scanline"
  /\ pendingOps # <<>> /\ Head(pendingOps).cont
  /\ pendingOps' = Tail(pendingOps)
  /\ Prime(Tail(pendingOps))
  /\ IF intbackActive
     THEN Collect /\ sf' = 0
     ELSE UNCHANGED <<intbackActive, open, promised, sf>>
  /\ place' = IF intbackActive /\ Head(pendingOps).val = "continue" THEN "raise" ELSE "chunk"
  /\ UNCHANGED <<ireg, switches, line, client, issued, dispatched, late>>

NothingQueued ==
  /\ place = "scanline"
  /\ pendingOps = <<>>
  /\ place' = "chunk"
  /\ UNCHANGED <<registers, switches, line, client, history>>

CountDown ==
  /\ place = "scanline"
  /\ pendingOps # <<>> /\ ~Head(pendingOps).cont /\ cmdDelay > 1
  /\ cmdDelay' = cmdDelay - 1
  /\ place' = "chunk"
  /\ UNCHANGED <<sf, ireg, comreg, pendingOps, intbackActive, switches, line, client, history>>

(* cmdINTBACK: the system data with a second phase to come or not, or the    *)
(* peripheral data at once.                                                  *)
Intback(params) ==
  \/ /\ params.ireg0 = "system"
     /\ intbackActive' = (intbackActive \/ params.pen)
     /\ UNCHANGED <<open, promised>>
  \/ /\ params.ireg0 # "system" /\ params.pen
     /\ Collect
  \/ /\ params.ireg0 # "system" /\ ~params.pen
     /\ UNCHANGED <<intbackActive, open, promised>>

(* Mutant: the parameters are read when the command is dispatched.           *)
Parameters_Live == ireg
Parameters == Head(pendingOps).ireg

(* Mutant: an INTBACK that has nothing to answer leaves SF set.              *)
Cleared_Answered(cmd, answers) == IF cmd = "INTBACK" /\ ~answers THEN sf ELSE 0

(* SF after a command: every command clears it.                              *)
Cleared(cmd, answers) == 0

(* The delay is over: the command runs with the parameters it was issued     *)
(* with, and SF is cleared.                                                  *)
Dispatch ==
  LET cmd == Head(pendingOps).val
      answers == cmd = "INTBACK" /\ (Parameters.ireg0 = "system" \/ Parameters.pen)
  IN  /\ place = "scanline"
      /\ pendingOps # <<>> /\ ~Head(pendingOps).cont /\ cmdDelay <= 1
      /\ pendingOps' = Tail(pendingOps)
      /\ Prime(Tail(pendingOps))
      /\ sf' = Cleared(cmd, answers)
      /\ issued' = Tail(issued)
      /\ dispatched' = [cmd |-> cmd, ireg |-> Parameters]
      /\ IF cmd = "INTBACK" THEN Intback(Parameters) ELSE UNCHANGED <<intbackActive, open, promised>>
      /\ soundEnabled' = IF cmd \in {"SNDOFF", "SYSRES", "CKCHG"} THEN FALSE
                         ELSE soundEnabled \/ cmd = "SNDON"
      /\ pendingSystemReset' = (pendingSystemReset \/ cmd \in {"SYSRES", "CKCHG"})
      /\ pendingMasterNMI' = (pendingMasterNMI \/ cmd = "CKCHG")
      /\ place' = IF answers THEN "raise" ELSE "chunk"
      /\ UNCHANGED <<ireg, inReset, line, client, late>>

(* RaiseSystemManager, after the lock is released.                           *)
Raise ==
  /\ place = "raise"
  /\ place' = "chunk"
  /\ UNCHANGED <<registers, switches, line, client, history>>

(* Mutant: the switch is looked at once a frame.                             *)
Chunk_LastLine ==
  /\ place = "chunk"
  /\ inReset' = (inReset \/ (~soundEnabled /\ line + 1 = Lines))
  /\ line' = (line + 1) % Lines
  /\ place' = IF line + 1 = Lines THEN "frameEnd" ELSE "scanline"
  /\ dispatched' = NoRequest
  /\ UNCHANGED <<registers, soundEnabled, pendingSystemReset, pendingMasterNMI, client,
                 issued, open, promised, late>>

(* The rest of the scanline: a sound CPU that is switched off is held in     *)
(* reset.  One step stands for the chunks of a line.                         *)
Chunk ==
  /\ place = "chunk"
  /\ inReset' = (inReset \/ ~soundEnabled)
  /\ line' = (line + 1) % Lines
  /\ place' = IF line + 1 = Lines THEN "frameEnd" ELSE "scanline"
  /\ dispatched' = NoRequest
  /\ UNCHANGED <<registers, soundEnabled, pendingSystemReset, pendingMasterNMI, client,
                 issued, open, promised, late>>

-----------------------------------------------------------------------------
(* The frame boundary                                                        *)

(* The end of RunFrame: a sound CPU that is switched on leaves its reset.    *)
FrameEnd ==
  /\ place = "frameEnd"
  /\ inReset' = (inReset /\ ~soundEnabled)
  /\ place' = "boundary"
  /\ UNCHANGED <<registers, soundEnabled, pendingSystemReset, pendingMasterNMI, line, client, history>>

(* The start of RunFrame: the system reset, then the NMI of a clock change.  *)
(* Neither touches the SMPC nor the sound CPU's switch.                      *)
Boundary ==
  /\ place = "boundary"
  /\ pendingSystemReset' = FALSE /\ pendingMasterNMI' = FALSE
  /\ place' = "scanline"
  /\ UNCHANGED <<registers, soundEnabled, inReset, line, client, history>>

InFrame == place \notin {"frameEnd", "boundary"}

Cpu == InFrame /\ (Prepare \/ WriteSF \/ WriteCOMREG
                   \/ Poll \/ WriteIREG0)
Walk == ServiceContinue \/ NothingQueued \/ CountDown \/ Dispatch \/ Raise
        \/ Chunk \/ FrameEnd \/ Boundary

Next == Cpu \/ Walk

(* Frames are run for ever, and a CPU that polls gets to poll in some frame. *)
Fairness == WF_vars(Walk) /\ SF_vars(InFrame /\ Poll)

Spec == Init /\ [][Next]_vars /\ Fairness

-----------------------------------------------------------------------------
(* Properties                                                                *)

Places == {"scanline", "raise", "chunk", "frameEnd", "boundary"}

TypeOK ==
  /\ sf \in 0 .. 1 /\ intbackActive \in BOOLEAN
  /\ comreg \in Commands \cup {"none"} /\ cmdDelay \in Nat
  /\ ireg.ireg0 \in {"zero", "system", "continue", "break"} /\ ireg.pen \in BOOLEAN
  /\ Len(pendingOps) <= MaxOps
  /\ <<soundEnabled, inReset, pendingSystemReset, pendingMasterNMI>> \in
       BOOLEAN \X BOOLEAN \X BOOLEAN \X BOOLEAN
  /\ place \in Places /\ line \in 0 .. Lines - 1
  /\ cpu \in {"idle", "setSF", "issue", "issueFirst", "setSFLast", "poll"}
  /\ late \in BOOLEAN
  /\ request \in Requests \cup {NoRequest} /\ mayContinue \in BOOLEAN

(* A command at the head of the queue is the one COMREG shows, and its delay *)
(* is its own, whatever was serviced before it ("continue/break ops carry no *)
(* delay", primeNextDispatch).                                               *)
HeadPrimed ==
  pendingOps # <<>> /\ ~Head(pendingOps).cont =>
    comreg = Head(pendingOps).val /\ cmdDelay \in 1 .. Delay[Head(pendingOps).val]

(* Commands run once each, in the order they were issued and with the        *)
(* parameters they were issued with, however software rewrites the input     *)
(* registers meanwhile (the cmdIREG comment).                                *)
AsIssued == [][issued' # issued /\ Len(issued') < Len(issued) => dispatched' = Head(issued)]_vars

(* Sound that is switched off and on again passes through its reset, even if *)
(* both commands were queued at once (cmdSNDOFF, SYSRES and CKCHG).          *)
OffIsSeen == [][~soundEnabled /\ soundEnabled' => inReset]_vars

(* Between frames the sound CPU is in reset exactly if it is switched off.   *)
SoundAtBoundary == place = "boundary" => (inReset <=> ~soundEnabled)

(* A continue that software writes for its INTBACK is answered, were it      *)
(* written before the command is dispatched.                                 *)
ContinueAnswered == promised ~> ~promised

(* Software that polls SF for its command gets to the end of it, in either   *)
(* order of the two writes and whatever is queued before it, unless a tick   *)
(* ran the command between COMREG and an SF that follows it ("Games rely on  *)
(* this: typical pattern is to write SF=1 after COMREG and poll").           *)
PollEnds == cpu = "poll" ~> cpu = "idle" \/ late
=============================================================================
