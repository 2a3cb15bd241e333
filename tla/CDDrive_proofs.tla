--------------------------- MODULE CDDrive_proofs ---------------------------
(***************************************************************************)
(* Proofs about CDDrive: the play's range and the answers that stand.      *)
(***************************************************************************)
EXTENDS CDDrive, TLAPS

USE DEF FADs, Keep

Fleeting == {"Play", "PlayTrack0", "Authenticate", "AuthenticateMpeg"}

Positions ==
  /\ playFAD \in Int /\ seekFAD \in Int /\ startFAD \in Int /\ endFAD \in Int
  /\ repeat \in Int /\ from \in Int
  /\ queued \in Commands \cup {NoCommand}

(* The way to where the play begins: BUSY, then the seek.                    *)
OnTheWay ==
  \/ status = "BUSY" /\ busy = "short" /\ pending = "SEEK"
  \/ status = "SEEK" /\ busy = "none"

(* What a play has passed is what lies behind the head.                      *)
Behind ==
  /\ from <= playFAD /\ passed = from .. (playFAD - 1)
  /\ playFAD < EndOfRange \/ playFAD = from

RoundHolds ==
  playing /\ ~disturbed =>
    /\ seeking => passed = {} /\ from = seekFAD /\ OnTheWay
    /\ ~seeking => Behind

(* An unread answer keeps the periodic report away.                          *)
AnswerHolds == unread /\ last \notin Fleeting => ~resultsRead /\ res = "answer"

BootHolds == booting => ~playing /\ ~unread

IInv == Positions /\ RoundHolds /\ AnswerHolds /\ BootHolds

-----------------------------------------------------------------------------
(* Facts about the disc's positions                                          *)

(* An interval grows by its next element (the head moves on by one).         *)
LEMMA Grown ==
  ASSUME NEW a \in Int, NEW b \in Int, a <= b
  PROVE  (a .. (b - 1)) \cup {b} = a .. b
OBVIOUS

(* A command gives positions on the disc, or leaves them (cmdPlayDisc).      *)
LEMMA Given ==
  ASSUME Positions, NEW op, queued.op = op, op # "none"
  PROVE  /\ queued \in Commands
         /\ op = "Play" => queued.start \in Int /\ queued.end \in Int /\ queued.repeat \in Int
         /\ op = "SeekFAD" => queued.fad \in Int
         /\ op = "ReadFile" => queued.start \in Int /\ queued.end \in Int
<1>1. queued \in Commands
  BY DEF Positions, NoCommand
<1>2. /\ FirstFAD \in Int /\ Leadout \in Int /\ Endless \in Int
      /\ FirstFAD .. Leadout \subseteq Int
  BY CDDriveAssumption
<1>3. op = "Play" => queued.start \in (FirstFAD .. Leadout) \cup {-1} /\ queued.end \in (FirstFAD .. Leadout) \cup {0, -1}
                       /\ queued.repeat \in (0 .. Endless) \cup {-1}
  BY <1>1, CDDriveAssumption
<1>4. op = "SeekFAD" => queued.fad \in FirstFAD .. Leadout
  BY <1>1, CDDriveAssumption
<1>5. op = "ReadFile" => queued.start \in FirstFAD .. Leadout /\ queued.end \in FirstFAD .. Leadout
  BY <1>1, CDDriveAssumption
<1>6. op = "Play" => queued.start \in Int /\ queued.end \in Int /\ queued.repeat \in Int
  BY <1>2, <1>3
<1>. QED BY <1>1, <1>2, <1>4, <1>5, <1>6

-----------------------------------------------------------------------------
(* The steps of a sector                                                     *)

(* What a sector at h leaves behind the head, from what was behind it.       *)
Reached(h) ==
  \/ h.fad = playFAD /\ h.repeat = repeat /\ playFAD < EndOfRange /\ Behind
  \/ h.fad = startFAD /\ EndOfRange <= playFAD

SectorPasses ==
  /\ playing' => Behind'
  /\ startFAD < EndOfRange =>
       LET whole == from' .. (EndOfRange - 1) IN
         /\ ~playing' => passed' = whole /\ status' = "PAUSE" /\ ("PEND" \in Flags => "PEND" \in hirq')
         /\ playing' /\ passed' # passed => passed' # whole

(* StopPlaying pauses the drive and raises PEND.                             *)
LEMMA Stopped ==
  ASSUME NEW fs, StopPlaying(fs)
  PROVE  ~playing' /\ status' = "PAUSE" /\ ("PEND" \in Flags => "PEND" \in hirq')
BY Zenon DEF StopPlaying, Raise

(* The head moves on from a sector of the range (advancePlay).               *)
LEMMA Advanced ==
  ASSUME Positions, NEW h, h.fad \in Int, h.repeat \in Int, Reached(h), NEW fs,
         Advance(h, fs), UNCHANGED <<startFAD, endFAD>>, playing
  PROVE  /\ playFAD' \in Int /\ repeat' \in Int /\ from' \in Int
         /\ disturbed' = disturbed
         /\ SectorPasses
<1> DEFINE all == (IF h.fad = playFAD THEN passed ELSE {}) \cup {h.fad}
           first == IF h.fad = playFAD THEN from ELSE startFAD
<1>1. EndOfRange' = EndOfRange /\ EndOfRange \in Int
  BY CDDriveAssumption DEF EndOfRange, Positions
<1>2. disturbed' = disturbed
  BY Zenon DEF Advance
<1>3. first \in Int
  BY DEF Positions
<1>4. h.fad < EndOfRange => first <= h.fad /\ all = first .. h.fad
  <2>1. CASE h.fad = playFAD /\ playFAD < EndOfRange /\ Behind
    <3>1. from <= playFAD /\ passed = from .. (playFAD - 1)
      BY <2>1 DEF Behind
    <3>2. passed \cup {playFAD} = from .. playFAD
      BY <3>1, Grown DEF Positions
    <3>. QED BY <2>1, <3>1, <3>2
  <2>2. CASE h.fad = startFAD /\ EndOfRange <= playFAD
    <3>1. h.fad < EndOfRange => h.fad # playFAD
      BY <1>1, <2>2 DEF Positions
    <3>2. {startFAD} = startFAD .. startFAD
      BY DEF Positions
    <3>. QED BY <2>2, <3>1, <3>2 DEF Positions
  <2>. QED BY <2>1, <2>2 DEF Reached
<1>5. CASE Ended(h.fad + 1) /\ h.repeat = 0
  <2>1. /\ StopPlaying(fs)
        /\ playFAD' = h.fad + 1 /\ repeat' = 0
        /\ passed' = all /\ from' = first
    BY <1>5, Zenon DEF Advance
  <2>2. ~playing' /\ status' = "PAUSE" /\ ("PEND" \in Flags => "PEND" \in hirq')
    BY <2>1, Stopped, Zenon
  <2>3. startFAD < EndOfRange => h.fad = EndOfRange - 1
    <3>1. EndOfRange <= h.fad + 1
      BY <1>1, <1>5 DEF Ended
    <3>2. startFAD < EndOfRange => h.fad < EndOfRange
      BY <1>1 DEF Reached, Positions
    <3>. QED BY <1>1, <3>1, <3>2
  <2>4. startFAD < EndOfRange => passed' = from' .. (EndOfRange - 1)
    <3>1. startFAD < EndOfRange => h.fad < EndOfRange
      BY <1>1, <2>3
    <3>. QED BY <1>4, <2>1, <2>3, <3>1, Zenon
  <2>. QED BY <1>2, <1>3, <2>1, <2>2, <2>4 DEF SectorPasses
<1>6. CASE ~(Ended(h.fad + 1) /\ h.repeat = 0)
  <2> DEFINE n == Wrap(h.fad + 1, h.repeat)
  <2>1. /\ playFAD' = n.fad /\ repeat' = n.repeat
        /\ playing' = playing
        /\ Ended(h.fad + 1) => passed' = {} /\ from' = startFAD
        /\ ~Ended(h.fad + 1) => passed' = all /\ from' = first
    BY <1>6, Zenon DEF Advance
  <2>2. CASE Ended(h.fad + 1)
    <3>1. n.fad = startFAD /\ n.repeat \in Int
      BY <2>2 DEF Wrap
    <3>2. playFAD' = startFAD /\ from' = startFAD /\ passed' = {}
      BY <2>1, <2>2, <3>1, Zenon
    <3>3. startFAD .. (startFAD - 1) = {}
      BY DEF Positions
    <3>4. Behind'
      BY <3>2, <3>3, <1>1 DEF Behind, Positions
    <3>5. startFAD < EndOfRange => from' .. (EndOfRange - 1) # {}
      BY <1>1, <3>2 DEF Positions
    <3>6. SectorPasses
      BY <2>1, <3>2, <3>4, <3>5, Zenon DEF SectorPasses
    <3>. QED BY <1>2, <2>1, <3>1, <3>2, <3>6 DEF Positions
  <2>3. CASE ~Ended(h.fad + 1)
    <3>1. n.fad = h.fad + 1 /\ n.repeat = h.repeat
      BY <2>3 DEF Wrap
    <3>2. h.fad + 1 < EndOfRange
      BY <1>1, <2>3 DEF Ended
    <3>3. playFAD' = h.fad + 1 /\ from' = first /\ passed' = all
      BY <2>1, <2>3, <3>1, Zenon
    <3>4. first <= h.fad /\ passed' = first .. h.fad
      BY <1>1, <1>4, <3>2, <3>3
    <3>5. Behind'
      <4>1. from' <= playFAD' /\ playFAD' < EndOfRange'
        BY <1>1, <1>3, <3>2, <3>3, <3>4
      <4>2. passed' = from' .. (playFAD' - 1)
        BY <3>3, <3>4
      <4>. QED BY <4>1, <4>2, Zenon DEF Behind
    <3>6. passed' # from' .. (EndOfRange - 1)
      <4>1. EndOfRange - 1 \in from' .. (EndOfRange - 1)
        BY <1>1, <1>3, <3>2, <3>3, <3>4
      <4>2. EndOfRange - 1 \notin first .. h.fad
        BY <1>1, <3>2
      <4>. QED BY <3>4, <4>1, <4>2
    <3>7. SectorPasses
      BY <2>1, <3>5, <3>6, Zenon DEF SectorPasses
    <3>. QED BY <1>2, <1>3, <2>1, <3>1, <3>3, <3>7
  <2>. QED BY <2>2, <2>3
<1>. QED BY <1>5, <1>6

(* One sector keeps the round, whichever way it goes (readOneSector).        *)
LEMMA Sector ==
  ASSUME Positions, playing, Behind, readOneSector, UNCHANGED <<startFAD, endFAD>>
  PROVE  /\ playFAD' \in Int /\ repeat' \in Int /\ from' \in Int
         /\ disturbed' = disturbed
         /\ SectorPasses
<1> DEFINE h == Wrap(playFAD, repeat)
<1>1. EndOfRange' = EndOfRange /\ EndOfRange \in Int
  BY CDDriveAssumption DEF EndOfRange, Positions
<1>2. h.fad \in Int /\ h.repeat \in Int
  BY DEF Wrap, Positions
<1>3. Reached(h)
  <2>1. CASE Ended(playFAD)
    BY <1>1, <2>1 DEF Reached, Wrap, Ended, Positions
  <2>2. CASE ~Ended(playFAD)
    BY <1>1, <2>2 DEF Reached, Wrap, Ended, Positions
  <2>. QED BY <2>1, <2>2
<1>4. CASE Ended(playFAD) /\ repeat = 0
  <2>1. StopPlaying({}) /\ UNCHANGED <<playFAD, repeat, round>>
    BY <1>4, Zenon DEF readOneSector
  <2>2. ~playing' /\ status' = "PAUSE" /\ ("PEND" \in Flags => "PEND" \in hirq')
    BY <2>1, Stopped, Zenon
  <2>3. playFAD' = playFAD /\ repeat' = repeat /\ from' = from /\ passed' = passed /\ disturbed' = disturbed
    BY <2>1, Zenon DEF round
  <2>4. passed = from .. (EndOfRange - 1)
    <3>1. EndOfRange <= playFAD /\ playFAD = from /\ passed = from .. (playFAD - 1)
      BY <1>1, <1>4 DEF Ended, Behind, Positions
    <3>2. from .. (playFAD - 1) = {} /\ from .. (EndOfRange - 1) = {}
      BY <1>1, <3>1 DEF Positions
    <3>. QED BY <3>1, <3>2
  <2>. QED BY <2>2, <2>3, <2>4 DEF SectorPasses, Positions
<1>5. ASSUME NEW fs, Advance(h, fs)
      PROVE  /\ playFAD' \in Int /\ repeat' \in Int /\ from' \in Int
             /\ disturbed' = disturbed
             /\ SectorPasses
  <2>. HIDE DEF h
  <2>. QED BY <1>2, <1>3, <1>5, Advanced
<1>6. CASE /\ status' = "PAUSE"
           /\ playFAD' = h.fad /\ repeat' = h.repeat
           /\ IF h.fad = playFAD THEN UNCHANGED <<from, passed>> ELSE passed' = {} /\ from' = startFAD
           /\ UNCHANGED <<playing, fileRead, total, disturbed>>
  <2>. HIDE DEF h
  <2>1. CASE h.fad = playFAD
    <3>1. playFAD' = playFAD /\ from' = from /\ passed' = passed /\ playing' = playing /\ disturbed' = disturbed
      BY <1>6, <2>1, Zenon
    <3>2. Behind'
      BY <1>1, <3>1 DEF Behind
    <3>. QED BY <1>2, <1>6, <3>1, <3>2 DEF SectorPasses, Positions
  <2>2. CASE h.fad # playFAD
    <3>1. playFAD' = h.fad /\ from' = startFAD /\ passed' = {} /\ playing' = playing /\ disturbed' = disturbed
      BY <1>6, <2>2, Zenon
    <3>2. h.fad = startFAD
      BY <1>3, <2>2 DEF Reached
    <3>3. startFAD .. (startFAD - 1) = {}
      BY DEF Positions
    <3>4. Behind'
      BY <1>1, <3>1, <3>2, <3>3 DEF Behind, Positions
    <3>5. startFAD < EndOfRange => from' .. (EndOfRange - 1) # {}
      <4>1. startFAD < EndOfRange => startFAD \in startFAD .. (EndOfRange - 1)
        BY <1>1 DEF Positions
      <4>. QED BY <3>1, <4>1
    <3>6. SectorPasses
      BY <3>1, <3>4, <3>5, Zenon DEF SectorPasses
    <3>. QED BY <1>2, <1>6, <3>1, <3>6 DEF Positions
  <2>. QED BY <2>1, <2>2
<1>7. CASE ~(Ended(playFAD) /\ repeat = 0)
  <2>1. \/ Advance(h, {}) \/ Advance(h, {"CSCT"})
        \/ /\ status' = "PAUSE"
           /\ playFAD' = h.fad /\ repeat' = h.repeat
           /\ IF h.fad = playFAD THEN UNCHANGED <<from, passed>> ELSE passed' = {} /\ from' = startFAD
           /\ UNCHANGED <<playing, fileRead, total, disturbed>>
    BY <1>7, Zenon DEF readOneSector
  <2>. QED BY <2>1, <1>5, <1>6, Zenon
<1>. QED BY <1>4, <1>7

-----------------------------------------------------------------------------
(* Every step                                                                *)

Places == playFAD \in Int /\ seekFAD \in Int /\ startFAD \in Int /\ endFAD \in Int /\ repeat \in Int /\ from \in Int

(* Nothing of the drive moves.                                               *)
LEMMA Unmoved ==
  ASSUME Positions, RoundHolds, UNCHANGED <<drive, round>>
  PROVE  Places' /\ RoundHolds' /\ (playing' <=> playing)
<1>1. /\ playFAD' = playFAD /\ seekFAD' = seekFAD /\ seeking' = seeking /\ startFAD' = startFAD
      /\ endFAD' = endFAD /\ repeat' = repeat /\ from' = from /\ passed' = passed
      /\ disturbed' = disturbed /\ playing' = playing
      /\ status' = status /\ busy' = busy /\ pending' = pending
  BY Zenon DEF drive, motion, flow, seek, range, round
<1>2. Places'
  BY <1>1 DEF Places, Positions
<1>3. RoundHolds'
  BY <1>1, Zenon DEF RoundHolds, OnTheWay, Behind, EndOfRange
<1>. QED BY <1>1, <1>2, <1>3, Zenon

(* A play that is not playing, or was disturbed, promises nothing.           *)
LEMMA NoRound == ~playing' \/ disturbed' => RoundHolds'
BY Zenon DEF RoundHolds

(* A play starts with the head on its way to the start (NewRound).           *)
LEMMA Begun ==
  ASSUME NEW s, NEW f, BusyThen("SEEK"), SeekTo(f, s), NewRound
  PROVE  RoundHolds'
<1>1. status' = "BUSY" /\ busy' = "short" /\ pending' = "SEEK" /\ seeking' = TRUE
  BY Zenon DEF BusyThen, SeekTo
<1>2. from' = seekFAD' /\ passed' = {}
  BY Zenon DEF NewRound
<1>. QED BY <1>1, <1>2, Zenon DEF RoundHolds, OnTheWay

(* The accesses of the host move nothing.                                    *)
LEMMA HostStep ==
  ASSUME IInv, Host
  PROVE  IInv' /\ UNCHANGED <<drive, round>>
<1>1. UNCHANGED <<drive, round>> /\ (booting' <=> booting) /\ last' = last /\ res' = res
  <2>1. CASE QueueCommand
    BY <2>1, Zenon DEF QueueCommand, boot, answer
  <2>2. CASE ReadCR4
    BY <2>2, Zenon DEF ReadCR4, boot
  <2>3. CASE BeginClear
    BY <2>3, Zenon DEF BeginClear, boot, answer
  <2>4. CASE EndClear
    BY <2>4, Zenon DEF EndClear, boot, answer
  <2>5. CASE WriteMask
    BY <2>5, Zenon DEF WriteMask, boot, answer
  <2>. QED BY <2>1, <2>2, <2>3, <2>4, <2>5, Zenon DEF Host
<1>2. Places' /\ RoundHolds' /\ (playing' <=> playing)
  BY <1>1, Unmoved DEF IInv
<1>3. queued' \in Commands \cup {NoCommand}
  BY DEF Host, QueueCommand, ReadCR4, BeginClear, EndClear, WriteMask, IInv, Positions
<1>4. \/ ~unread'
      \/ (unread' <=> unread) /\ (resultsRead' <=> resultsRead)
  BY Zenon DEF Host, QueueCommand, ReadCR4, BeginClear, EndClear, WriteMask, answer
<1>5. AnswerHolds'
  BY <1>1, <1>4, Zenon DEF AnswerHolds, IInv
<1>6. BootHolds'
  BY <1>1, <1>2, <1>4, Zenon DEF BootHolds, IInv
<1>. QED BY <1>1, <1>2, <1>3, <1>5, <1>6 DEF IInv, Positions, Places

(* What every command leaves behind.                                         *)
LEMMA Executed ==
  ASSUME NEW op, NEW fs, ExecuteCommand(op, fs)
  PROVE  ~booting /\ queued.op = op /\ queued' = NoCommand /\ last' = op /\ (booting' <=> booting) /\ step = "idle"
BY Zenon DEF ExecuteCommand, MayTick, boot

(* An answer that stands, and one that does not.                             *)
LEMMA Answered ==
  ASSUME ~booting, booting' <=> booting, NEW op, last' = op,
         Answer \/ op \in Fleeting
  PROVE  AnswerHolds' /\ BootHolds'
<1>1. BootHolds'
  BY Zenon DEF BootHolds
<1>2. AnswerHolds'
  BY Zenon DEF Answer, AnswerHolds
<1>. QED BY <1>1, <1>2

(* The commands.                                                             *)
LEMMA CommandStep ==
  ASSUME IInv, Command
  PROVE  IInv' /\ step = "idle"
<1> USE DEF IInv
<1> DEFINE Ran(op) == /\ ~booting /\ queued.op = op /\ queued' = NoCommand /\ last' = op
                      /\ (booting' <=> booting) /\ step = "idle"
<1> HIDE DEF Ran
<1>0. ASSUME NEW op, Ran(op), Answer \/ op \in Fleeting, Places', RoundHolds'
      PROVE  IInv' /\ step = "idle"
  <2>1. ~booting /\ (booting' <=> booting) /\ last' = op /\ queued' = NoCommand /\ step = "idle"
    BY <1>0 DEF Ran
  <2>2. AnswerHolds' /\ BootHolds'
    BY <1>0, <2>1, Answered
  <2>. QED BY <1>0, <2>1, <2>2 DEF Positions, Places
<1>1. CASE NoCommandQueued
  <2>1. UNCHANGED <<drive, round>> /\ (booting' <=> booting) /\ last' = last /\ res' = res
    BY <1>1, Zenon DEF NoCommandQueued, boot, answer
  <2>2. (unread' <=> unread) /\ (resultsRead' <=> resultsRead) /\ queued' = queued /\ step = "idle"
    BY <1>1, Zenon DEF NoCommandQueued, answer, MayTick
  <2>3. Places' /\ RoundHolds' /\ (playing' <=> playing)
    BY <2>1, Unmoved
  <2>4. AnswerHolds' /\ BootHolds'
    BY <2>1, <2>2, <2>3, Zenon DEF AnswerHolds, BootHolds
  <2>. QED BY <2>2, <2>3, <2>4 DEF Positions, Places
<1>2. CASE cmdPlayDisc
  <2>1. Ran("Play")
    BY <1>2, Executed, Zenon DEF cmdPlayDisc, Ran
  <2>2. queued.start \in Int /\ queued.end \in Int /\ queued.repeat \in Int
    BY <2>1, Given DEF Ran
  <2>3. BusyThen("SEEK") /\ NewRound
    BY <1>2, Zenon DEF cmdPlayDisc
  <2>4. PICK f : f \in {startFAD', seekFAD, playFAD} /\ SeekTo(f, "PLAY")
    BY <1>2 DEF cmdPlayDisc
  <2>5. RoundHolds'
    BY <2>3, <2>4, Begun
  <2>6. /\ startFAD' \in {startFAD, queued.start} /\ endFAD' \in {endFAD, queued.end}
        /\ repeat' \in {repeat, queued.repeat} /\ playFAD' = playFAD
    BY <1>2 DEF cmdPlayDisc
  <2>7. seekFAD' = f /\ from' = seekFAD'
    BY <2>3, <2>4, Zenon DEF SeekTo, NewRound
  <2>8. Places'
    BY <2>2, <2>4, <2>6, <2>7 DEF Places, Positions
  <2>. QED BY <1>0, <2>1, <2>5, <2>8 DEF Fleeting
<1>3. CASE cmdPlayDiscIgnored
  <2>1. Ran("PlayTrack0") /\ UNCHANGED <<drive, round>>
    BY <1>3, Executed, Zenon DEF cmdPlayDiscIgnored, Ran
  <2>2. Places' /\ RoundHolds'
    BY <2>1, Unmoved
  <2>. QED BY <1>0, <2>1, <2>2 DEF Fleeting
<1>4. CASE cmdSeekDisc
  <2>1. PICK op \in {"SeekFAD", "SeekPause", "Stop", "SeekUnknown"} : ExecuteCommand(op, {})
    BY <1>4 DEF cmdSeekDisc
  <2>2. Ran(op)
    BY <2>1, Executed, Zenon DEF Ran
  <2>3. Answer /\ ~playing' /\ UNCHANGED <<range, round>>
    BY <1>4, Zenon DEF cmdSeekDisc
  <2>4. playFAD' \in {playFAD, FirstFAD} /\ seekFAD' \in Int
    <3>1. CASE ExecuteCommand("SeekFAD", {}) /\ SeekTo(queued.fad, "PAUSE") /\ UNCHANGED playFAD
      <4>1. queued.op = "SeekFAD"
        BY <3>1, Executed, Zenon
      <4>. QED BY <3>1, <4>1, Given DEF SeekTo
    <3>2. CASE UNCHANGED <<seek, playFAD>>
      BY <3>2 DEF seek, Positions
    <3>3. CASE playFAD' = FirstFAD /\ seekFAD' = FirstFAD
      BY <3>3, CDDriveAssumption
    <3>. QED BY <1>4, <3>1, <3>2, <3>3, Zenon DEF cmdSeekDisc
  <2>5. Places'
    BY <2>3, <2>4, CDDriveAssumption DEF Places, Positions, range, round
  <2>6. RoundHolds'
    BY <2>3, NoRound
  <2>. QED BY <1>0, <2>2, <2>3, <2>5, <2>6
<1>5. CASE cmdScanDisc
  <2>1. Ran("Scan")
    BY <1>5, Executed, Zenon DEF cmdScanDisc, Ran
  <2>2. Answer /\ ~playing' /\ UNCHANGED <<seek, range, playFAD, round>>
    BY <1>5, Zenon DEF cmdScanDisc
  <2>3. Places' /\ RoundHolds'
    BY <2>2, NoRound DEF Places, Positions, seek, range, round
  <2>. QED BY <1>0, <2>1, <2>2, <2>3
<1>6. CASE cmdReadFile
  <2>1. Ran("ReadFile")
    BY <1>6, Executed, Zenon DEF cmdReadFile, Ran
  <2>2. queued.start \in Int /\ queued.end \in Int
    BY <2>1, Given DEF Ran
  <2>3. Answer /\ BusyThen("SEEK") /\ SeekTo(queued.start, "PLAY") /\ NewRound
    BY <1>6, Zenon DEF cmdReadFile
  <2>4. startFAD' = queued.start /\ endFAD' = queued.end /\ repeat' = 0 /\ playFAD' = playFAD
    BY <1>6, Zenon DEF cmdReadFile
  <2>5. seekFAD' = queued.start /\ from' = seekFAD'
    BY <2>3, Zenon DEF SeekTo, NewRound
  <2>6. Places'
    BY <2>2, <2>4, <2>5 DEF Places, Positions
  <2>7. RoundHolds'
    BY <2>3, Begun
  <2>. QED BY <1>0, <2>1, <2>3, <2>6, <2>7
<1>7. CASE cmdAbortFile
  <2>1. Ran("Abort")
    BY <1>7, Executed, Zenon DEF cmdAbortFile, Ran
  <2>2. Answer /\ ~playing' /\ UNCHANGED <<seek, range, playFAD, round>>
    BY <1>7, Zenon DEF cmdAbortFile
  <2>3. Places' /\ RoundHolds'
    BY <2>2, NoRound DEF Places, Positions, seek, range, round
  <2>. QED BY <1>0, <2>1, <2>2, <2>3
<1>8. CASE cmdInitCDSystem
  <2>1. Ran("Init")
    BY <1>8, Zenon DEF cmdInitCDSystem, MayTick, Ran, boot
  <2>2. Answer /\ ~playing'
    BY <1>8, Zenon DEF cmdInitCDSystem
  <2>3. playFAD' = FirstFAD /\ startFAD' = 0 /\ endFAD' = 0 /\ repeat' = 0 /\ seekFAD' = seekFAD /\ from' = from
    BY <1>8, Zenon DEF cmdInitCDSystem, round
  <2>4. Places'
    BY <2>3, CDDriveAssumption DEF Places, Positions
  <2>5. RoundHolds'
    BY <2>2, NoRound
  <2>. QED BY <1>0, <2>1, <2>2, <2>4, <2>5
<1>9. CASE cmdAuthenticateDisc
  <2>1. Ran("Authenticate")
    BY <1>9, Executed, Zenon DEF cmdAuthenticateDisc, Ran
  <2>2. playing' = playing /\ (disturbed' <=> disturbed \/ playing)
    BY <1>9, Zenon DEF cmdAuthenticateDisc, flow
  <2>3. UNCHANGED <<seek, range, playFAD, from>>
    BY <1>9, Zenon DEF cmdAuthenticateDisc
  <2>4. Places'
    BY <2>3 DEF Places, Positions, seek, range
  <2>5. RoundHolds'
    BY <2>2, NoRound, Zenon
  <2>. QED BY <1>0, <2>1, <2>4, <2>5 DEF Fleeting
<1>10. CASE cmdSetCDDeviceConnection \/ OtherCommand
  <2>1. PICK op, fs : ExecuteCommand(op, fs) /\ Answer /\ UNCHANGED <<drive, round>>
    BY <1>10, Zenon DEF cmdSetCDDeviceConnection, OtherCommand
  <2>2. Ran(op)
    BY <2>1, Executed, Zenon DEF Ran
  <2>3. Places' /\ RoundHolds'
    BY <2>1, Unmoved
  <2>. QED BY <1>0, <2>1, <2>2, <2>3
<1>11. CASE cmdAuthenticateMpeg
  <2>1. Ran("AuthenticateMpeg") /\ UNCHANGED <<drive, round>>
    BY <1>11, Executed, Zenon DEF cmdAuthenticateMpeg, Ran
  <2>2. Places' /\ RoundHolds'
    BY <2>1, Unmoved
  <2>. QED BY <1>0, <2>1, <2>2 DEF Fleeting
<1>. QED BY <1>1, <1>2, <1>3, <1>4, <1>5, <1>6, <1>7, <1>8, <1>9, <1>10, <1>11, Zenon DEF Command

(* The steps of a tick that leave the answer and the boot alone.             *)
LEMMA Aside ==
  ASSUME IInv, UNCHANGED <<boot, answer, queued, last>>, playing' => playing, Places'
  PROVE  AnswerHolds' /\ BootHolds' /\ Positions'
<1>1. /\ (booting' <=> booting) /\ (unread' <=> unread) /\ (resultsRead' <=> resultsRead)
      /\ last' = last /\ res' = res /\ queued' = queued
  BY Zenon DEF boot, answer
<1>2. AnswerHolds' /\ BootHolds'
  BY <1>1, Zenon DEF AnswerHolds, BootHolds, IInv
<1>. QED BY <1>1, <1>2 DEF Positions, Places, IInv

LEMMA BootStep ==
  ASSUME IInv, BootEnds
  PROVE  IInv' /\ step = "idle"
<1>1. booting /\ booting' = FALSE /\ unread' = unread /\ queued' = queued /\ step = "idle"
  BY Zenon DEF BootEnds, MayTick
<1>2. UNCHANGED <<flow, seek, range, playFAD, round>>
  BY Zenon DEF BootEnds
<1>3. Places'
  BY <1>2 DEF Places, Positions, IInv, seek, range, round
<1>4. ~playing' /\ ~unread'
  BY <1>1, <1>2, Zenon DEF BootHolds, IInv, flow
<1>5. RoundHolds' /\ AnswerHolds' /\ BootHolds'
  BY <1>4, NoRound, Zenon DEF AnswerHolds, BootHolds
<1>. QED BY <1>1, <1>3, <1>5 DEF IInv, Positions, Places

(* BUSY ends: on the way to the start the seek begins.                       *)
LEMMA BusyKeeps ==
  ASSUME IInv, NEW ended, BusyStep(ended)
  PROVE  IInv' /\ step = "busy"
<1>1. /\ UNCHANGED <<boot, answer, queued, last>> /\ UNCHANGED <<flow, seek, range, playFAD, round>>
      /\ step = "busy"
  BY Zenon DEF BusyStep
<1>2. \/ status' = pending /\ busy' = "none"
      \/ status' = status /\ busy' = busy /\ pending' = pending
  BY Zenon DEF BusyStep, motion
<1>3. /\ playing' = playing /\ disturbed' = disturbed /\ seeking' = seeking
      /\ passed' = passed /\ from' = from /\ seekFAD' = seekFAD /\ playFAD' = playFAD /\ endFAD' = endFAD
  BY <1>1, Zenon DEF flow, seek, range, round
<1>4. Places'
  BY <1>1 DEF Places, Positions, IInv, seek, range, round
<1>5. busy = "none" => status' = status /\ busy' = busy /\ pending' = pending
  BY Zenon DEF BusyStep, motion
<1>6. OnTheWay => OnTheWay'
  BY <1>2, <1>5 DEF OnTheWay
<1>7. RoundHolds'
  BY <1>3, <1>6, Zenon DEF RoundHolds, Behind, EndOfRange, IInv
<1>. QED BY <1>1, <1>3, <1>4, <1>7, Aside, Zenon DEF IInv

LEMMA ResumeKeeps ==
  ASSUME IInv, ResumeStep
  PROVE  IInv' /\ step = "resume"
<1>1. /\ UNCHANGED <<boot, answer, queued, last>> /\ UNCHANGED <<playing, seek, range, playFAD, round>>
      /\ step = "resume"
  BY Zenon DEF ResumeStep
<1>2. \/ status = "PAUSE"
      \/ status' = status /\ busy' = busy /\ pending' = pending
  BY Zenon DEF ResumeStep, Resume, motion
<1>3. /\ playing' = playing /\ disturbed' = disturbed /\ seeking' = seeking
      /\ passed' = passed /\ from' = from /\ seekFAD' = seekFAD /\ playFAD' = playFAD /\ endFAD' = endFAD
  BY <1>1, Zenon DEF seek, range, round
<1>4. Places'
  BY <1>1 DEF Places, Positions, IInv, seek, range, round
<1>5. OnTheWay => OnTheWay'
  BY <1>2 DEF OnTheWay
<1>6. RoundHolds'
  BY <1>3, <1>5, Zenon DEF RoundHolds, Behind, EndOfRange, IInv
<1>7. AnswerHolds' /\ BootHolds' /\ Positions'
  <2>1. playing' => playing
    BY <1>3
  <2>2. UNCHANGED <<boot, answer, queued, last>>
    BY <1>1, Zenon
  <2>. QED BY <1>4, <2>1, <2>2, Aside, Zenon
<1>. QED BY <1>1, <1>6, <1>7, Zenon DEF IInv

(* The pickup moves, and has passed nothing when it arrives.                 *)
LEMMA SeekKeeps ==
  ASSUME IInv, NEW f \in 0 .. Leadout, SeekStep(f)
  PROVE  IInv' /\ step = "seek"
<1>1. /\ UNCHANGED <<boot, answer, queued, last>> /\ UNCHANGED <<busy, pending, flow, range, round, seekFAD>>
      /\ step = "seek"
  BY Zenon DEF SeekStep
<1>2. /\ playing' = playing /\ disturbed' = disturbed
      /\ passed' = passed /\ from' = from /\ seekFAD' = seekFAD /\ endFAD' = endFAD
      /\ busy' = busy /\ pending' = pending
  BY <1>1, Zenon DEF flow, range, round
<1>3. playFAD' \in Int
  BY CDDriveAssumption DEF SeekStep, IInv, Positions
<1>4. Places'
  BY <1>1, <1>3 DEF Places, Positions, IInv, range, round
<1>5. RoundHolds'
  <2>1. CASE playFAD' = playFAD /\ seeking' = seeking /\ status' = status
    BY <1>2, <2>1, Zenon DEF RoundHolds, Behind, EndOfRange, OnTheWay, IInv
  <2>2. CASE seeking /\ status = "SEEK" /\ seeking' = seeking /\ status' = status
    BY <1>2, <2>2, Zenon DEF RoundHolds, OnTheWay, IInv
  <2>3. CASE seeking /\ playFAD' = seekFAD /\ ~seeking'
    <3>1. SUFFICES ASSUME playing', ~disturbed'  PROVE Behind'
      BY <2>3, Zenon DEF RoundHolds
    <3>2. passed = {} /\ from = seekFAD
      BY <1>2, <2>3, <3>1, Zenon DEF RoundHolds, IInv
    <3>3. seekFAD \in Int /\ seekFAD .. (seekFAD - 1) = {}
      BY DEF IInv, Positions
    <3>. QED BY <1>2, <2>3, <3>2, <3>3 DEF Behind
  <2>. QED BY <2>1, <2>2, <2>3, Zenon DEF SeekStep
<1>. QED BY <1>1, <1>2, <1>4, <1>5, Aside, Zenon DEF IInv

(* A sector, if one is due.                                                  *)
LEMMA ReadKeeps ==
  ASSUME IInv, NEW due, ReadStep(due)
  PROVE  /\ IInv'
         /\ playing /\ ~disturbed /\ (passed' # passed \/ ~playing') => SectorPasses
<1>1. /\ UNCHANGED <<boot, answer, queued, last>> /\ UNCHANGED <<busy, pending, seek, startFAD, endFAD>>
  <2>1. UNCHANGED boot /\ UNCHANGED <<queued, answer, last>> /\ UNCHANGED <<busy, pending, seek, startFAD, endFAD>>
    BY Zenon DEF ReadStep
  <2>. QED BY <2>1, Zenon
<1>2. CASE ~(playing /\ status = "PLAY" /\ due)
  <2>1. UNCHANGED <<status, flow, playFAD, repeat, round>>
    BY <1>2, Zenon DEF ReadStep
  <2>2. UNCHANGED <<drive, round>>
    BY <1>1, <2>1, Zenon DEF drive, motion, range, flow, round
  <2>3. Places' /\ RoundHolds' /\ (playing' <=> playing)
    BY <2>2, Unmoved DEF IInv
  <2>4. passed' = passed
    BY <2>1, Zenon DEF round
  <2>. QED BY <1>1, <2>3, <2>4, Aside, Zenon DEF IInv
<1>3. CASE playing /\ status = "PLAY" /\ due
  <2>1. readOneSector
    BY <1>3, Zenon DEF ReadStep
  <2>2. UNCHANGED <<startFAD, endFAD>> /\ seekFAD' = seekFAD /\ seeking' = seeking
    BY <1>1, Zenon DEF seek
  <2>3. CASE ~disturbed
    <3>1. ~seeking /\ Behind
      BY <1>3, <2>3 DEF RoundHolds, OnTheWay, IInv
    <3>2. /\ playFAD' \in Int /\ repeat' \in Int /\ from' \in Int /\ disturbed' = disturbed
          /\ SectorPasses
      BY <1>3, <2>1, <2>2, <3>1, Sector DEF IInv
    <3>3. Places'
      BY <2>2, <3>2 DEF Places, Positions, IInv
    <3>4. RoundHolds'
      BY <2>2, <3>1, <3>2, Zenon DEF RoundHolds, SectorPasses
    <3>. QED BY <1>1, <1>3, <3>2, <3>3, <3>4, Aside, Zenon DEF IInv
  <2>4. CASE disturbed
    <3>1. disturbed' = disturbed /\ playFAD' \in Int /\ repeat' \in Int /\ from' \in Int
      <4> DEFINE h == Wrap(playFAD, repeat)
      <4>1. h.fad \in Int /\ h.repeat \in Int
        BY DEF Wrap, IInv, Positions
      <4>2. ASSUME NEW fs, Advance(h, fs)
            PROVE  disturbed' = disturbed /\ playFAD' \in Int /\ repeat' \in Int /\ from' \in Int
        <5>1. Wrap(h.fad + 1, h.repeat).fad \in Int /\ Wrap(h.fad + 1, h.repeat).repeat \in Int
          BY <4>1 DEF Wrap, IInv, Positions
        <5>. HIDE DEF h
        <5>2. disturbed' = disturbed /\ from' \in {from, startFAD}
              /\ playFAD' \in {h.fad + 1, Wrap(h.fad + 1, h.repeat).fad}
              /\ repeat' \in {0, Wrap(h.fad + 1, h.repeat).repeat}
          BY <4>2 DEF Advance
        <5>. QED BY <4>1, <5>1, <5>2 DEF IInv, Positions
      <4>3. CASE UNCHANGED <<playFAD, repeat, round>>
        BY <4>3 DEF round, IInv, Positions
      <4>4. CASE /\ playFAD' = h.fad /\ repeat' = h.repeat
                 /\ from' \in {from, startFAD} /\ disturbed' = disturbed
        <5>. HIDE DEF h
        <5>. QED BY <4>1, <4>4 DEF IInv, Positions
      <4>5. \/ UNCHANGED <<playFAD, repeat, round>>
            \/ Advance(h, {}) \/ Advance(h, {"CSCT"})
            \/ /\ playFAD' = h.fad /\ repeat' = h.repeat
               /\ IF h.fad = playFAD THEN UNCHANGED <<from, passed>> ELSE passed' = {} /\ from' = startFAD
               /\ UNCHANGED <<playing, fileRead, total, disturbed>>
        BY <2>1, Zenon DEF readOneSector
      <4>6. (/\ playFAD' = h.fad /\ repeat' = h.repeat
             /\ IF h.fad = playFAD THEN UNCHANGED <<from, passed>> ELSE passed' = {} /\ from' = startFAD
             /\ UNCHANGED <<playing, fileRead, total, disturbed>>)
              => disturbed' = disturbed /\ playFAD' = h.fad /\ repeat' = h.repeat /\ from' \in {from, startFAD}
        <5>. HIDE DEF h
        <5>. QED OBVIOUS
      <4>. QED BY <4>2, <4>3, <4>4, <4>5, <4>6, Zenon
    <3>2. Places'
      BY <2>2, <3>1 DEF Places, Positions, IInv
    <3>3. RoundHolds'
      BY <2>4, <3>1, NoRound, Zenon
    <3>. QED BY <1>1, <1>3, <2>4, <3>2, <3>3, Aside, Zenon DEF IInv
  <2>. QED BY <2>3, <2>4
<1>. QED BY <1>2, <1>3

(* The report comes only when the host has read the answer (PeriodicDue).    *)
LEMMA ReportKeeps ==
  ASSUME IInv, NEW drained, NEW frame, NEW periodic, ReportStep(drained, frame, periodic)
  PROVE  IInv' /\ step = "report"
<1>1. /\ UNCHANGED <<drive, round>> /\ (booting' <=> booting) /\ last' = last /\ queued' = queued
      /\ (unread' <=> unread) /\ (resultsRead' <=> resultsRead) /\ step = "report"
  BY Zenon DEF ReportStep, boot
<1>2. res' = res \/ resultsRead
  BY Zenon DEF ReportStep, PeriodicDue
<1>3. Places' /\ RoundHolds' /\ (playing' <=> playing)
  BY <1>1, Unmoved DEF IInv
<1>4. AnswerHolds' /\ BootHolds'
  BY <1>1, <1>2, <1>3, Zenon DEF AnswerHolds, BootHolds, IInv
<1>. QED BY <1>1, <1>3, <1>4 DEF IInv, Positions, Places

-----------------------------------------------------------------------------
(* The invariant, and what follows from it                                   *)

THEOREM Inductive == Spec => []IInv
<1>1. Init => IInv
  BY DEF Init, IInv, Positions, RoundHolds, AnswerHolds, BootHolds
<1>2. IInv /\ [Next]_vars => IInv'
  <2>1. ASSUME IInv, UNCHANGED vars  PROVE IInv'
    <3>1. UNCHANGED <<drive, round>> /\ UNCHANGED <<boot, answer, queued, last>>
      BY <2>1, Zenon DEF vars
    <3>2. Places' /\ RoundHolds' /\ (playing' <=> playing)
      BY <2>1, <3>1, Unmoved DEF IInv
    <3>. QED BY <2>1, <3>1, <3>2, Aside, Zenon DEF IInv
  <2>2. ASSUME IInv, Tick  PROVE IInv'
    BY <2>2, BootStep, CommandStep, BusyKeeps, ResumeKeeps, SeekKeeps, ReadKeeps, ReportKeeps, Zenon DEF Tick
  <2>. QED BY <2>1, <2>2, HostStep, Zenon DEF Next
<1>. QED BY <1>1, <1>2, PTL DEF Spec

(* The periodic report leaves an unread answer in the registers, whatever    *)
(* the host writes and whenever it reads (resultsRead).                      *)
THEOREM AnswersStand == Spec => []AnswerKept
<1>1. IInv => AnswerKept
  BY Zenon DEF IInv, AnswerHolds, AnswerKept, Fleeting
<1>. QED BY <1>1, Inductive, PTL

(* A play ends with the last sector of its range, having passed all of it,   *)
(* on every disc and for every range, repeat and stall (advancePlay).        *)
THEOREM PlaysWhole == Spec => PlayComplete
<1> DEFINE Whole == (step = "read" /\ playing /\ startFAD < EndOfRange /\ ~disturbed)
                      => LET whole == from' .. (EndOfRange - 1) IN
                           /\ ~playing' => /\ passed' = whole /\ status' = "PAUSE"
                                           /\ "PEND" \in Flags => "PEND" \in hirq'
                           /\ playing' /\ passed' # passed => passed' # whole
<1>1. IInv /\ [Next]_vars => [Whole]_vars
  <2> SUFFICES ASSUME IInv, Next, step = "read", playing, startFAD < EndOfRange, ~disturbed
               PROVE  LET whole == from' .. (EndOfRange - 1) IN
                           /\ ~playing' => /\ passed' = whole /\ status' = "PAUSE"
                                           /\ "PEND" \in Flags => "PEND" \in hirq'
                           /\ playing' /\ passed' # passed => passed' # whole
    BY Zenon
  <2>1. CASE Host
    <3>1. playing' = playing /\ passed' = passed
      BY <2>1, HostStep, Zenon DEF drive, flow, round
    <3>. QED BY <3>1, Zenon
  <2>2. ASSUME NEW due, ReadStep(due)
        PROVE  (passed' # passed \/ ~playing') => SectorPasses
    BY <2>2, ReadKeeps, Zenon
  <2>3. CASE Tick
    <3>1. PICK due : ReadStep(due)
      BY <2>3, BootStep, CommandStep, BusyKeeps, ResumeKeeps, SeekKeeps, ReportKeeps DEF Tick
    <3>2. (passed' # passed \/ ~playing') => SectorPasses
      BY <2>2, <3>1, Zenon
    <3>. QED BY <3>2, Zenon DEF SectorPasses
  <2>. QED BY <2>1, <2>3, Zenon DEF Next
<1>. QED BY <1>1, Inductive, PTL DEF PlayComplete, Spec

=============================================================================
