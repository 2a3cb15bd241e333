------------------------------ MODULE CDDrive ------------------------------
(***************************************************************************)
(* The drive and the host interface of the CD block (src/core/cdblock.go,  *)
(* cdblock_cmd_playback.go, _filesystem.go, _status.go, _auth.go).  The    *)
(* secondary goroutine ticks it every chunk; one tick is the numbered      *)
(* steps of TickSystemCycles, here one action each.  The CPUs reach its    *)
(* registers from either goroutine.                                        *)
(*                                                                         *)
(* Cycle counters are left out: a countdown of one cycle ends in the next  *)
(* step that looks at it, a longer one in any.  A tick reads at most one   *)
(* sector (a chunk is far shorter than a sector).  The partitions are      *)
(* the number of sectors in them; CDBuffer has what is inside.  A disc is  *)
(* in the drive.                                                           *)
(***************************************************************************)
EXTENDS Integers, FiniteSets

CONSTANTS
  FirstFAD, Leadout,     \* the disc: FADs FirstFAD .. Leadout - 1
  AudioFADs, BadFADs,    \* audio sectors; sectors the reader fails on
  Room,                  \* cdMaxSectors
  Endless,               \* the repeat count 0x0F
  Commands,              \* what the host writes in CR1-CR4
  MaxCommands,           \* bound on the commands it issues
  Flags,                 \* the HIRQ bits followed
  Masks,                 \* the values it gives the HIRQ mask
  Overlap                \* a register access may land inside a tick

Keep == -1               \* position or repeat 0xFFFFFF, 0x7F: as it was
FADs == FirstFAD .. Leadout

ASSUME CDDriveAssumption ==
  /\ FirstFAD \in Nat \ {0} /\ Leadout \in Nat /\ FirstFAD < Leadout
  /\ AudioFADs \subseteq FADs /\ BadFADs \subseteq FADs
  /\ Room \in Nat \ {0} /\ Endless \in Nat \ {0} /\ MaxCommands \in Nat
  /\ Flags \subseteq {"CMOK", "CSCT", "BFUL", "PEND", "EFLS", "SCDQ"}
  /\ Masks \subseteq SUBSET Flags
  /\ Overlap \in BOOLEAN
  /\ \A c \in Commands :
       /\ c.op = "Play" => /\ c.start \in FADs \cup {Keep} /\ c.end \in FADs \cup {0, Keep}
                           /\ c.repeat \in 0 .. Endless \cup {Keep} /\ c.stay \in BOOLEAN
       /\ c.op = "SeekFAD" => c.fad \in FADs
       /\ c.op = "ReadFile" => c.start \in FADs /\ c.end \in FADs /\ c.on \in BOOLEAN

VARIABLES
  \* where the tick is; the sequence of the boot
  step, booting, initialized,
  \* the registers: a command written and not executed, HIRQ and its mask,
  \* what CR1-CR4 hold and whether the host has read CR4, an HIRQ write in
  \* progress, the last look at HIRQ raised the interrupt
  queued, hirq, mask, res, resultsRead, clearing, irq,
  \* the drive
  status, busy, pending, playing, fileRead, stall,
  playFAD, seekFAD, seeking, seekTarget, startFAD, endFAD, repeat,
  \* the buffer: sectors in the partitions, a filter is connected
  total, connected,
  \* history: commands issued, an answer nobody has read, the last command
  \* executed, where this round of the play began and what it has passed, an
  \* authentication came in the middle of the play
  sent, unread, last, from, passed, disturbed

motion == <<status, busy, pending>>
flow == <<playing, fileRead, stall>>
seek == <<seekFAD, seeking, seekTarget>>
range == <<startFAD, endFAD, repeat>>
drive == <<motion, flow, seek, range, playFAD>>
buffer == <<total, connected>>
answer == <<res, resultsRead, unread>>
lines == <<hirq, mask, clearing, irq>>
round == <<from, passed, disturbed>>
boot == <<booting, initialized>>
vars == <<step, boot, queued, answer, lines, drive, buffer, sent, last, round>>

NoCommand == [op |-> "none"]
NoClear == [val |-> {}, seen |-> {}, on |-> FALSE]

Init ==
  /\ step = "idle" /\ booting = TRUE /\ initialized = FALSE
  /\ queued = NoCommand /\ hirq = {} /\ mask = {} /\ res = "signature"
  /\ resultsRead = FALSE /\ clearing = NoClear /\ irq = FALSE
  /\ status = "PAUSE" /\ busy = "none" /\ pending = "BUSY"
  /\ playing = FALSE /\ fileRead = FALSE /\ stall = FALSE
  /\ playFAD = 0 /\ seekFAD = 0 /\ seeking = FALSE /\ seekTarget = "BUSY"
  /\ startFAD = 0 /\ endFAD = 0 /\ repeat = 0
  /\ total = 0 /\ connected = FALSE
  /\ sent = 0 /\ unread = FALSE /\ last = "none" /\ from = 0 /\ passed = {} /\ disturbed = FALSE

Raise(fs) == hirq' = hirq \cup (fs \cap Flags)
checkIRQ == irq' = (hirq' \cap mask # {})

-----------------------------------------------------------------------------
(* The host's accesses                                                       *)

MayAccess == Overlap \/ step = "idle"

(* CR4 is the last of the four and queues the command; one still queued is   *)
(* replaced.                                                                 *)
QueueCommand ==
  /\ MayAccess
  /\ sent < MaxCommands
  /\ queued' \in Commands
  /\ sent' = sent + 1
  /\ UNCHANGED <<step, boot, answer, lines, drive, buffer, last, round>>

ReadCR4 ==
  /\ MayAccess
  /\ resultsRead' = TRUE
  /\ unread' = FALSE
  /\ UNCHANGED <<step, boot, queued, res, lines, drive, buffer, sent, last, round>>

(* HIRQ is written with a 0 in the bit to clear: a read, an AND and a store. *)
BeginClear ==
  /\ MayAccess
  /\ ~clearing.on
  /\ \E f \in hirq : clearing' = [val |-> Flags \ {f}, seen |-> hirq, on |-> TRUE]
  /\ UNCHANGED <<step, boot, queued, answer, hirq, mask, irq, drive, buffer, sent, last, round>>

(* No lock orders it with the tick's own read-modify-writes: with one of     *)
(* those in between either store may be the last.                            *)
EndClear ==
  /\ clearing.on
  /\ hirq' \in {hirq \cap clearing.val, clearing.seen \cap clearing.val}
               \cup (IF hirq = clearing.seen THEN {} ELSE {hirq})
  /\ clearing' = NoClear
  /\ UNCHANGED <<step, boot, queued, answer, mask, irq, drive, buffer, sent, last, round>>

WriteMask ==
  /\ MayAccess
  /\ mask' \in Masks \ {mask}
  /\ UNCHANGED <<step, boot, queued, answer, hirq, clearing, irq, drive, buffer, sent, last, round>>

Host == QueueCommand \/ ReadCR4 \/ BeginClear \/ EndClear \/ WriteMask

-----------------------------------------------------------------------------
(* Step 0: the boot                                                          *)

MayTick == step = "idle" /\ (Overlap \/ ~clearing.on)

(* The boot's countdown ends.  Until it does a tick does nothing else.       *)
BootEnds ==
  /\ MayTick /\ booting
  /\ booting' = FALSE /\ initialized' = TRUE
  /\ status' = "BUSY" /\ busy' = "long" /\ pending' = "PAUSE"
  /\ Raise({"CMOK"}) /\ checkIRQ
  /\ res' = "status" /\ resultsRead' = TRUE
  /\ UNCHANGED <<step, queued, unread, mask, clearing, flow, seek, range, playFAD, buffer, sent, last, round>>

-----------------------------------------------------------------------------
(* Step 1: the queued command                                                *)

NoCommandQueued ==
  /\ MayTick /\ ~booting
  /\ queued = NoCommand
  /\ step' = "busy"
  /\ UNCHANGED <<boot, queued, answer, lines, drive, buffer, sent, last, round>>

(* Mutant: a command waits until the last answer has been read.              *)
ExecuteCommand_WhenRead(op, fs) ==
  /\ MayTick /\ ~booting /\ ~unread
  /\ queued.op = op
  /\ step' = "busy" /\ queued' = NoCommand /\ last' = op
  /\ Raise({"CMOK"} \cup fs) /\ checkIRQ
  /\ UNCHANGED <<boot, mask, clearing, sent>>

(* What every command does: it leaves the queue, raises CMOK and its own     *)
(* flags, and has the interrupt looked at.                                   *)
ExecuteCommand(op, fs) ==
  /\ MayTick /\ ~booting
  /\ queued.op = op
  /\ step' = "busy" /\ queued' = NoCommand /\ last' = op
  /\ Raise({"CMOK"} \cup fs) /\ checkIRQ
  /\ UNCHANGED <<boot, mask, clearing, sent>>

(* Most answers stand until the host has read them; those of PlayDisc and    *)
(* of an authentication leave the periodic report free to replace them.      *)
Answer == res' = "answer" /\ resultsRead' = FALSE /\ unread' = TRUE
FleetingAnswer(read) == res' = "answer" /\ resultsRead' = read /\ unread' = TRUE

(* BUSY, and at the next step the status s.                                  *)
BusyThen(s) == status' = "BUSY" /\ busy' = "short" /\ pending' = s
SeekTo(f, s) == seekFAD' = f /\ seeking' = TRUE /\ seekTarget' = s
(* A play starts: nothing of it has been passed yet.                         *)
NewRound == from' = seekFAD' /\ passed' = {} /\ disturbed' = FALSE

cmdPlayDisc ==
  /\ ExecuteCommand("Play", {})
  /\ FleetingAnswer(resultsRead)
  /\ startFAD' = IF queued.start = Keep THEN startFAD ELSE queued.start
  /\ repeat' = IF queued.repeat = Keep THEN repeat ELSE queued.repeat
  /\ endFAD' = IF queued.end = Keep THEN endFAD ELSE queued.end
  /\ playing' = TRUE /\ fileRead' = FALSE /\ stall' = FALSE
  /\ BusyThen("SEEK")
  /\ SeekTo(CASE ~queued.stay -> startFAD' [] queued.stay /\ seeking -> seekFAD [] OTHER -> playFAD, "PLAY")
  /\ NewRound
  /\ UNCHANGED <<playFAD, buffer>>

(* Track 0 as the start: ignored.                                            *)
cmdPlayDiscIgnored ==
  /\ ExecuteCommand("PlayTrack0", {})
  /\ FleetingAnswer(resultsRead)
  /\ UNCHANGED <<drive, buffer, round>>

(* SeekDisc: to a FAD, a pause where it is, a stop, a track that is not      *)
(* there.                                                                    *)
cmdSeekDisc ==
  /\ \/ /\ ExecuteCommand("SeekFAD", {})
        /\ BusyThen("SEEK") /\ SeekTo(queued.fad, "PAUSE")
        /\ UNCHANGED playFAD
     \/ /\ ExecuteCommand("SeekPause", {})
        /\ BusyThen("PAUSE")
        /\ UNCHANGED <<seek, playFAD>>
     \/ /\ ExecuteCommand("Stop", {})
        /\ BusyThen("STANDBY")
        /\ playFAD' = FirstFAD /\ seekFAD' = FirstFAD /\ seeking' = FALSE
        /\ UNCHANGED seekTarget
     \/ /\ ExecuteCommand("SeekUnknown", {})
        /\ BusyThen("STANDBY")
        /\ UNCHANGED <<seek, playFAD>>
  /\ Answer
  /\ playing' = FALSE /\ stall' = FALSE
  /\ UNCHANGED <<fileRead, range, buffer, round>>

(* Mutant: the answer leaves the periodic report free.                       *)
cmdScanDisc_Fleeting ==
  /\ ExecuteCommand("Scan", {})
  /\ FleetingAnswer(resultsRead)
  /\ playing' = FALSE
  /\ UNCHANGED <<motion, fileRead, stall, seek, range, playFAD, buffer, round>>

cmdScanDisc ==
  /\ ExecuteCommand("Scan", {})
  /\ Answer
  /\ playing' = FALSE
  /\ UNCHANGED <<motion, fileRead, stall, seek, range, playFAD, buffer, round>>

(* A file of the directory is a range; the filter to route it is given too,  *)
(* and may be none.                                                          *)
cmdReadFile ==
  /\ ExecuteCommand("ReadFile", {})
  /\ Answer
  /\ connected' = queued.on
  /\ startFAD' = queued.start /\ endFAD' = queued.end /\ repeat' = 0
  /\ playing' = TRUE /\ fileRead' = TRUE
  /\ BusyThen("SEEK") /\ SeekTo(queued.start, "PLAY")
  /\ NewRound
  /\ UNCHANGED <<stall, playFAD, total>>

cmdAbortFile ==
  /\ ExecuteCommand("Abort", {"EFLS"})
  /\ Answer
  /\ playing' = FALSE /\ status' = "PAUSE"
  /\ UNCHANGED <<busy, pending, fileRead, stall, seek, range, playFAD, buffer, round>>

cmdInitCDSystem ==
  /\ MayTick /\ ~booting /\ queued.op = "Init"
  /\ step' = "busy" /\ queued' = NoCommand /\ last' = "Init"
  /\ hirq' = (hirq \ {"BFUL", "PEND"}) \cup ({"CMOK", "EFLS"} \cap Flags)
  /\ checkIRQ
  /\ Answer
  /\ playing' = FALSE /\ stall' = FALSE /\ seeking' = FALSE
  /\ BusyThen("PAUSE")
  /\ playFAD' = FirstFAD /\ startFAD' = 0 /\ endFAD' = 0 /\ repeat' = 0
  /\ total' = 0 /\ connected' = FALSE
  /\ UNCHANGED <<boot, mask, clearing, sent, fileRead, seekFAD, seekTarget, round>>

(* The status is BUSY only for the answer.                                   *)
cmdAuthenticateDisc ==
  /\ ExecuteCommand("Authenticate", {"CSCT", "EFLS", "SCDQ"})
  /\ FleetingAnswer(TRUE)
  /\ status' = "PAUSE"
  /\ disturbed' = (disturbed \/ playing)
  /\ UNCHANGED <<busy, pending, flow, seek, range, playFAD, buffer, from, passed>>

(* The same command for the MPEG card (MPED is not followed).                *)
cmdAuthenticateMpeg ==
  /\ ExecuteCommand("AuthenticateMpeg", {})
  /\ FleetingAnswer(resultsRead)
  /\ UNCHANGED <<drive, buffer, round>>

cmdSetCDDeviceConnection ==
  /\ ExecuteCommand("Connect", {})
  /\ Answer
  /\ connected' = queued.on
  /\ UNCHANGED <<drive, total, round>>

(* The commands of the buffer, of the files and the reports: sectors go or   *)
(* are copied; those of the files raise EFLS, a copy or a move that leaves   *)
(* the buffer full BFUL.                                                     *)
OtherCommand ==
  /\ queued.op = "Other"
  /\ total' \in 0 .. Room /\ (total' > total => ~queued.frees) /\ (total' < total => queued.frees)
  /\ \E fs \in {{}, {"EFLS"}} \cup (IF total' >= Room THEN {{"BFUL"}} ELSE {}) : ExecuteCommand("Other", fs)
  /\ Answer
  /\ UNCHANGED <<drive, connected, round>>

Command ==
  \/ NoCommandQueued \/ cmdPlayDisc \/ cmdPlayDiscIgnored \/ cmdSeekDisc \/ cmdScanDisc
  \/ cmdReadFile \/ cmdAbortFile \/ cmdInitCDSystem \/ cmdAuthenticateDisc
  \/ cmdAuthenticateMpeg \/ cmdSetCDDeviceConnection \/ OtherCommand

-----------------------------------------------------------------------------
(* Steps 2 to 4: BUSY, the resume of a stalled play, the seek                *)

(* ended: the countdown is over.                                             *)
BusyStep(ended) ==
  /\ step = "busy"
  /\ step' = "resume"
  /\ IF busy # "none" /\ (busy = "short" \/ ended)
     THEN status' = pending /\ pending' = "BUSY" /\ busy' = "none"
     ELSE UNCHANGED motion
  /\ UNCHANGED <<boot, queued, answer, lines, flow, seek, range, playFAD, buffer, sent, last, round>>

Resume == stall /\ playing /\ status = "PAUSE" /\ busy = "none" /\ total < Room

ResumeStep ==
  /\ step = "resume"
  /\ step' = "seek"
  /\ IF Resume
     THEN stall' = FALSE /\ status' = "SEEK" /\ busy' = "long" /\ pending' = "PLAY"
     ELSE UNCHANGED <<stall, motion>>
  /\ UNCHANGED <<boot, queued, answer, lines, playing, fileRead, seek, range, playFAD, buffer, sent, last, round>>

(* The pickup gets somewhere between where it is and where it goes.          *)
Between(f, a, b) == (a <= f /\ f <= b) \/ (b <= f /\ f <= a)

SeekStep(f) ==
  /\ step = "seek"
  /\ step' = "read"
  /\ IF seeking /\ status = "SEEK"
     THEN /\ Between(f, playFAD, seekFAD)
          /\ playFAD' = f
          /\ IF f = seekFAD THEN seeking' = FALSE /\ status' = seekTarget
                            ELSE UNCHANGED <<seeking, status>>
     ELSE f = playFAD /\ UNCHANGED <<playFAD, seeking, status>>
  /\ UNCHANGED <<boot, queued, answer, lines, busy, pending, flow, seekFAD, seekTarget, range,
                 buffer, sent, last, round>>

-----------------------------------------------------------------------------
(* Step 5: a sector                                                          *)

EndOfRange == IF endFAD > 0 THEN endFAD ELSE Leadout
Ended(f) == f >= EndOfRange

StopPlaying(fs) ==
  /\ playing' = FALSE /\ status' = "PAUSE" /\ fileRead' = FALSE
  /\ Raise(fs \cup {"PEND"} \cup (IF fileRead THEN {"EFLS"} ELSE {}))

(* Mutant: the count of repeats is not taken down.                           *)
Wrap_Again(f, r) == IF Ended(f) THEN [fad |-> startFAD, repeat |-> r]
                                ELSE [fad |-> f, repeat |-> r]

(* The position and the repeats left once the end of the range is seen.      *)
Wrap(f, r) == IF Ended(f) THEN [fad |-> startFAD, repeat |-> IF r = Endless THEN r ELSE r - 1]
                          ELSE [fad |-> f, repeat |-> r]

(* Mutant: the end of the range is left to the next sector's period.         *)
Advance_Late(h, fs) ==
  /\ Raise(fs)
  /\ playFAD' = h.fad + 1 /\ repeat' = h.repeat
  /\ passed' = (IF h.fad = playFAD THEN passed ELSE {}) \cup {h.fad}
  /\ from' = IF h.fad = playFAD THEN from ELSE startFAD
  /\ UNCHANGED <<playing, status, fileRead, stall, disturbed>>

(* advancePlay: the head moves on from f, and the play ends with the last    *)
(* sector of its range rather than a sector later.                           *)
Advance(h, fs) ==
  LET n == Wrap(h.fad + 1, h.repeat)
      all == (IF h.fad = playFAD THEN passed ELSE {}) \cup {h.fad} IN
  IF Ended(h.fad + 1) /\ h.repeat = 0
  THEN /\ StopPlaying(fs)
       /\ playFAD' = h.fad + 1 /\ repeat' = 0
       /\ passed' = all /\ from' = IF h.fad = playFAD THEN from ELSE startFAD
       /\ UNCHANGED <<stall, disturbed>>
  ELSE /\ Raise(fs)
       /\ playFAD' = n.fad /\ repeat' = n.repeat
       /\ IF Ended(h.fad + 1) THEN passed' = {} /\ from' = startFAD
                              ELSE passed' = all /\ from' = IF h.fad = playFAD THEN from ELSE startFAD
       /\ UNCHANGED <<playing, status, fileRead, stall, disturbed>>

(* A sector of data with nowhere to go, or that cannot be read, is passed    *)
(* over; an audio sector goes to the sound queue; a data sector through the  *)
(* filters, which may drop it.                                               *)
readOneSector ==
  LET h == Wrap(playFAD, repeat)
      data == h.fad \notin AudioFADs IN
  IF Ended(playFAD) /\ repeat = 0
  THEN StopPlaying({}) /\ UNCHANGED <<playFAD, repeat, total, stall, round>>
  ELSE \/ /\ data /\ ~connected
          /\ Advance(h, {}) /\ UNCHANGED total
       \/ /\ data /\ connected /\ total >= Room
          /\ Raise({"BFUL"}) /\ status' = "PAUSE" /\ stall' = TRUE
          /\ playFAD' = h.fad /\ repeat' = h.repeat
          /\ IF h.fad = playFAD THEN UNCHANGED <<from, passed>> ELSE passed' = {} /\ from' = startFAD
          /\ UNCHANGED <<playing, fileRead, total, disturbed>>
       \/ /\ h.fad \in BadFADs /\ (data => connected /\ total < Room)
          /\ Advance(h, {}) /\ UNCHANGED total
       \/ /\ h.fad \notin BadFADs /\ (data => connected /\ total < Room)
          /\ Advance(h, {"CSCT"})
          /\ total' \in IF data THEN {total, total + 1} ELSE {total}

(* due: a sector period has passed.                                          *)
ReadStep(due) ==
  /\ step = "read"
  /\ step' = "report"
  /\ IF playing /\ status = "PLAY" /\ due
     THEN readOneSector
     ELSE UNCHANGED <<hirq, status, flow, playFAD, repeat, total, round>>
  /\ UNCHANGED <<boot, queued, answer, mask, clearing, irq, busy, pending, seek, startFAD, endFAD,
                 connected, sent, last>>

-----------------------------------------------------------------------------
(* Steps 6 to 8: the MPEG card takes sectors, a subcode frame passes, the    *)
(* periodic report, and the interrupt                                        *)

PeriodicDue == initialized /\ resultsRead /\ queued = NoCommand

(* Mutant: the mask is looked at only with a new report.                     *)
ReportStep_NoIRQ(drained, frame, periodic) ==
  /\ step = "report"
  /\ step' = "idle"
  /\ drained \in 0 .. total /\ total' = total - drained
  /\ Raise(IF frame /\ initialized THEN {"SCDQ"} ELSE {})
  /\ IF periodic /\ PeriodicDue THEN res' = "status" /\ checkIRQ ELSE UNCHANGED <<res, irq>>
  /\ UNCHANGED <<boot, queued, resultsRead, unread, mask, clearing, drive, connected, sent, last, round>>

(* drained: sectors the card took; frame, periodic: those counters ran out.  *)
ReportStep(drained, frame, periodic) ==
  /\ step = "report"
  /\ step' = "idle"
  /\ drained \in 0 .. total /\ total' = total - drained
  /\ Raise(IF frame /\ initialized THEN {"SCDQ"} ELSE {}) /\ checkIRQ
  /\ IF periodic /\ PeriodicDue THEN res' = "status" ELSE UNCHANGED res
  /\ UNCHANGED <<boot, queued, resultsRead, unread, mask, clearing, drive, connected, sent, last, round>>

Tick ==
  \/ BootEnds \/ Command
  \/ \E ended \in BOOLEAN : BusyStep(ended)
  \/ ResumeStep
  \/ \E f \in 0 .. Leadout : SeekStep(f)
  \/ \E due \in BOOLEAN : ReadStep(due)
  \/ \E drained \in 0 .. total, frame, periodic \in BOOLEAN : ReportStep(drained, frame, periodic)

Next == Host \/ Tick

(* Every countdown ends: ticks go on, and each of the things a tick may find *)
(* due is due again and again.  The host finishes an access it began.        *)
Fairness ==
  /\ WF_vars(Tick)
  /\ SF_vars(BusyStep(TRUE)) /\ SF_vars(SeekStep(seekFAD)) /\ SF_vars(ReadStep(TRUE))
  /\ WF_vars(EndClear)

Spec == Init /\ [][Next]_vars /\ Fairness

-----------------------------------------------------------------------------
(* Properties                                                                *)

(* A play that ends by itself has passed every sector of its range, each     *)
(* once and in order since it last began, whatever stalls, seeks and other   *)
(* commands came between: PEND comes with the last sector, neither before it *)
(* nor a sector period later (advancePlay).  An authentication in the middle *)
(* is left out: it pauses the drive under the play.                          *)
PlayComplete ==
  [][(step = "read" /\ playing /\ startFAD < EndOfRange /\ ~disturbed)
       => LET whole == from' .. (EndOfRange - 1) IN
          /\ ~playing' => /\ passed' = whole /\ status' = "PAUSE"
                          /\ "PEND" \in Flags => "PEND" \in hirq'
          /\ playing' /\ passed' # passed => passed' # whole]_vars

(* The periodic report does not replace an answer the host has not read,     *)
(* other than those of PlayDisc and of an authentication (resultsRead).      *)
AnswerKept ==
  unread /\ last \notin {"Play", "PlayTrack0", "Authenticate", "AuthenticateMpeg"} => res = "answer"

(* An authentication in the middle of a play pauses the drive under it.      *)
Held == playing /\ status = "PAUSE" /\ busy = "none" /\ ~stall

(* A play without endless repeat stops, unless it waits for the host to make *)
(* room; a play that waited goes on once there is room.                      *)
PlayEnds ==
  (playing /\ repeat # Endless)
    ~> (~playing \/ repeat = Endless \/ Held \/ (stall /\ total >= Room))

(* A flag that the host has unmasked raises the interrupt, also when the     *)
(* mask was written after the flag (Write leaves it to the tick).            *)
IrqFollows == (hirq \cap mask # {}) ~> (irq \/ hirq \cap mask = {})

(* A command written during the boot or behind an unread answer is executed. *)
CommandAnswered == (queued # NoCommand) ~> (queued = NoCommand)
=============================================================================
