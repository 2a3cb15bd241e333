# A TLA+ model of the erings core

erings is a Sega Saturn emulator written in Go.  Its core runs one frame of the
console on three goroutines that step different chips, share registers under
spin locks and meet at barriers.  This directory models the parts of it whose
correctness depends on the order in which things happen: how the goroutines walk
a frame together, how they claim the bus, how interrupts, DMA, the system
manager, the raster timers and the VDP1's frame change come out right under
every interleaving of those goroutines and of what the games' software does, how
the CD block's drive and buffer serve a host, how written memory reaches the GPU
renderer, and how the backup library lays save files out in its blocks.

What a chip computes (instructions, pixels, samples) is left to the
repository's unit tests; what several actors, or a long sequence of legal
calls, make of shared state is here.

## 1. The system

### 1.1 Goroutines and what they share

| goroutine | code | steps | talks to the others through |
|---|---|---|---|
| main | `RunFrame`, core/frame.go | master SH-2, VDP2 line counter, frame boundary (deferred reset, NMI) | `masterCycles`; channels that kick and join the workers; `sinitPending`/`minitPending` |
| secondary worker | `walkSecondaryFrame`, core/frame.go | SMPC, slave SH-2, SCU tick, SCSP, CD block | `secondaryCycles` |
| VDP walker | `walkVDPFrame`, core/frame.go | VDP1 draw and frame change, VDP2 rows, renderer | `vdpLinesWalked`; `pairRequest`/`pairKept` |

Both CPUs advance in chunks (`syncChunkCycles`) and rendezvous after each; the
main goroutine also stays within `vdpSlackLines` of the walker.  A memory
access claims the spin lock of its bus area; the SCU's register file has a lock
of its own.  A read of the VDP1 frame buffer while a GPU renderer owns the
drawn pair waits, inside its B-Bus access, for the walker to bring the pair back.

### 1.2 Components

| component | state | operations | hard behaviour | correct means | module |
|---|---|---|---|---|---|
| frame walk (core/frame.go, emulator.go) | control points, three counters, frame geometry, channels, capture and reset flags | start, chunk, barrier, line end, join, service of a pair request, reset at the boundary, Close | three goroutines, spin waits, plain fields that rely on everyone being parked | bounded skew; the walker behind both CPUs; frames end; nobody inside at the boundary but the secondary's last check | `FrameClock`, `FrameWalk` |
| bus (core/bus.go) | lock per area, lock of the SCU | access, register access, raise, DMA copy, DSP DMA | lock order; a wait inside a lock; software names the areas of a transfer | which circular waits there are, and no others; a copy leaves the registers free | `BusLocks` |
| SCU interrupts (core/scu.go, sh2/interrupt.go) | IMS, IST, committed requests, the asserted source, the withheld flag | raise, mask, clear, sample, acknowledge, reset | raises from three goroutines; sample and acknowledge are apart | nothing lost, nothing left waiting, the acknowledge hits the source sampled | `SCUInterrupts` |
| SCU DMA (core/scu.go) | enable bits, factor, pending, countdown per level | register writes, start factors, copy, write-back, tick | the lock is dropped for the copy in the middle of a handler | one transfer at a time, one end interrupt per countdown | `SCUDma` |
| SMPC (core/smpc.go) | SF, COMREG, IREG, queue, delay, INTBACK phase, sound switch | register writes, scanline tick, dispatch, continue, deferred reset | writes and ticks in any order; commands queued behind each other | issued once, in order, as written; SF ends; SNDOFF passes through reset | `SMPC` |
| raster and timers (core/vdp2.go, scu.go) | line and cycle, mode, Timer 0 and 1 | chunk, line end, H-Blank, V-Blank, register writes, reset | mode moves the limits; Timer 1 is loaded on one goroutine and counted on another | one V-Blank pair a frame; timers on their line and time | `Raster` |
| VDP1 (core/vdp1.go, vdp1_draw.go) | two buffers, late erase, FBCR/PTMR/EDSR, latches, draw flags | register writes, frame change, draw, ENDR, late erase, reset | the walker takes no lock; shadow registers; requests that outlive their field | the displayed picture holds; erased before drawn; one change per request | `FrameChange` |
| CD block, drive (core/cdblock.go, cdblock_cmd_playback.go, _filesystem.go, _status.go, _auth.go) | status, play range, head, seek, stall, the command written, HIRQ and mask, the answer | tick (boot, interrupt, command, busy, seek, read, report), every command that moves the drive, register accesses | commands between any two steps of a play; full buffer; answers against periodic reports | a play passes its whole range once; it goes on when there is room; answers stand until read | `CDDrive` |
| CD block, buffer (core/cdblock.go, cdblock_cmd_sector.go, _selector.go, _status.go) | partitions, filters, device connection, transfer in progress, deferred deletion | read in, get, get and delete, put, copy, move, delete, reset, filter commands, take by the MPEG card, end of transfer | sectors move by position while others come and go; filters in loops | routed to the filter that accepts; moved once; the end of a transfer deletes what it sent | `CDBuffer` |
| delivery to the renderer (core/vdp2_delta.go, vdp1.go, renderer_gpu.go, renderer_gpu_vdp1.go, frame.go, savestate.go) | memory and its dirty marks, CPU pair, shadow pair and mask, staging regions, submissions, device memory | CPU write and read, take, copy, submit, device run, frame change, synchronisation of the pair, save, load | pages are copied while they are written; regions are reused; two copies of the frame buffers | a row sees every write complete when it was taken; nothing written is lost | `Delivery` |
| backup library (core/hlebios_bup.go) | the backup RAM's blocks, a working buffer | format, write, read, delete, verify, directory, statistics | block lists that overflow into pages; lists, pages and payload look alike | named files that read back what was written; no block in two files | `SaveFiles`, `BackupRAM` |
| SCU DSP, VDP2 and VDP1 drawing, SCSP, MPEG card, on-chip SH-2 devices, the rest of the HLE BIOS, the state codec, RAM cartridge, debug server, replay, front ends, GPU back ends, compute kernels | | | | | not modelled, see 6 |

### 1.3 How the modules relate to each other

`FrameClock` is the abstract specification of the walk; `FrameWalk` implements
it (refinement, checked and proved).  The others stand on what it establishes:
`Raster` uses its chunk barrier between the main and the secondary goroutine,
`SMPC` and `FrameChange` its quiet boundary (a reset happens with nobody else
inside, or with the secondary in a check that touches no chip), `FrameChange` and `Delivery` its walker that walks whole lines while the
CPUs run, and `Delivery` its boundary for saves and loads.  `BusLocks` justifies
modelling a register access as one step in `SCUInterrupts`, `SCUDma` and
`SMPC`: those are critical sections of one lock, and `SCUDma` splits exactly the
one that gives its lock up.  It also gives `Delivery` its one access at a time on
the B-Bus.

`CDDrive` and `CDBuffer` are two views of one component: the first has the
drive's motion, the commands and the interrupt with the partitions as a number of
sectors; the second has what is in the partitions, with a step for each moment
the first one reads a sector or runs a command.  `SaveFiles` is the abstract
specification of the backup library; `BackupRAM` implements it.

## 2. Modules and how they correspond to the code

**FrameClock** has three clocks (`m`, `s`, `walked`) and five actions: start,
advance either CPU by a chunk from a position the other has reached, walk a
line both have completed, end.

**FrameWalk**: `main`, `sec` and `vdp` are the control points of the three
goroutines; between two of them lies one access to an atomic or a channel.
`secondaryCycles` etc. are the atomics, `width`/`lines`/`total` the plain frame
fields that RunFrame rewrites between frames.  `sh2Barrier` is three steps
(publish, capture, rendezvous); `waitPair` and `servicePair` are the frame
buffer handshake.  Programs are inputs: any chunk may raise a capture, read the
frame buffer, or dispatch a reset command.  RunFrame compares nothing but the
published counter (frame.go:158-166, 260), so it may end a frame and begin others
while the secondary still has its capture and its end-of-frame check to run.  The
boundary is *quiet* then, not parked: what the secondary has left to do touches no
chip (`QuietBoundary`).  A frame that is no longer than the last does the secondary
no harm; a longer one sets the history variable `overtaken`, and nothing but that
boundary and what `walk_late` shows is claimed from there on (5).

**BusLocks**: `busLocks[d]` is the holder of each spin lock, `pc[g]` where each
goroutine is.  An access claims an area and may turn into a wait for the
pair; a raise, register access or tick is inside the SCU; a transfer drops it,
copies area by area, and claims it again; the DSP's D0 DMA keeps it.  The areas of a
transfer are what software names: the end of drawing may start one on the B-Bus, and
the DSP may address the B-Bus or the SCU's own registers.  `Waits` is who waits for
whom, over locks and over the pair.

**SCUInterrupts**: `ims`, `ist`, `reqPending`, `pendingBit`, `irlWithheld` are
the SCU's fields; `irl` is the line; `sampled` is what the master read of it
without a lock.  `Raise` is `raise` with its whole output stage; `WriteIMS` and
`WriteIST` the register writes; `Acknowledge` is `AcknowledgeInterrupt`.

**SCUDma**: `todo[g]` is what a goroutine still has to do inside the SCU
(check a factor, count, drain, write a register, write back); `holder` its lock.
A level has its factor, enable bits, `dmaPending` and `dmaDelay`.

**SMPC**: the register file, the queue with the parameters snapshot
(`cmdIREG`), the tick of a scanline split where it lets go of the lock
(`Raise`), the sound switch applied per chunk and at the frame's end, and one
CPU running the handshake: SF and COMREG in either order, poll, continue.  The
history variable `late` says that a command was over before its SF was set.

**Raster**: `AdvanceLine`'s effects as `MasterChunk`, `EndLine`, `EndFrame`;
`RaiseHBlankIN` in three steps (the H-Blank's own raise, Timer 0, Timer 1), since a
start factor between them may drop the SCU's lock for a copy: `raising` says which
is left, and a register write or the secondary's chunk may come in between.
`SecondaryChunk` is `SCU.Tick`'s Timer 1 countdown.

**FrameChange**: `place` is the walker's place in a line of `walkVDPFrame`:
at line 1 VBlankIn, VBlankOut and the automatic draw's gate, at the first
blanking line the late erase, on every line a tick of the command processor.
Each handler of the frame change is the load of FBCR in `latchPending` (`LatchIn`,
`LatchOut`), the store with the loads behind it (`StoreIn`), what it decides and
does to the buffers (`VBlankIn`, `VBlankOut`), and the stores that end it
(`EndChange`, `EndField`), since a CPU may write a register between any two; register
writes of two stores are two steps.  A frame buffer is clean or drawn into.

**CDDrive**: `step` is where `TickSystemCycles` is; each of its numbered steps is
an action (`BootEnds`, `Command`, `BusyStep`, `ResumeStep`, `SeekStep`, `ReadStep`,
`ReportStep`).  Cycle counters are nondeterministic: a countdown longer than a
chunk may or may not have ended when a step looks at it.  `queued` is the command
in CR1-CR4; `Command` has a disjunct for each command that moves the drive, and
`OtherCommand` for those that only answer, or copy or free sectors, with the flags
each raises.  ReadFile connects the drive to the filter it names, which may be none.
`resultsRead` is the code's flag; `unread` is history, what the flag is to mean.
`from`, `passed` and `disturbed` are the history of a round of a play.  With
`Overlap` a register access may land between two steps of a tick.

**CDBuffer**: a sector is the number it was made with; a copy has its original's.
`routeSector` walks the filters; every sector and selector command is an action,
`cmdEndDataTransfer` ends a transfer of any kind; the drive's read and the MPEG
card's take are the other two actors.

**Delivery**: `place` is where the walker is in a line: the wait, where it may serve
a pair request, the frame change with the renderer's begin, the tick of the
drawing, the takes of the frame buffers (`TakeFB`, `TakeOps`) and of memory
(`TakePage`), the row, the submission and the advance to the next region.  A CPU's
write to memory is store, test of the mark, mark; one to the frame buffer is the
look-up of its target, the store, and the note in three stores.  The device runs
submitted regions' records in order, and a region holds the records it has not yet
applied.  Contents are version numbers; `latest`, `complete` and `due` are history.
`disp` is whether the display is on in the frame: a row then takes its pages, a blank
one does not (`BlankRow`), and from the first blanking line on (`Active`) every row is
blank.  A take that finds its region too full submits it and goes on in the next
(`MakeRoom`).

**BackupRAM** and **SaveFiles**: a block is its status bit, name, size and words;
`bupEntryBlocks` and `bupWalkOverflow` read an entry's block list, `Layout` writes
one, and each service is one step, as it runs in the place of one instruction.
`SaveFiles` has a function from names to contents and knows only how many blocks a
size takes.

`MC*.tla` give the constants their values; `*_proofs.tla` hold the proofs.  A
definition named `X_Y` above a definition `X`, marked "Mutant", is a faulty
variant of `X` kept as a test of the properties: with it in the place of `X` the
named property fails.

## 3. Runs

| run | configuration | question | distinct states |
|---|---|---|---|
| walk | `MCFrameWalk.cfg` | do frames end, reads get answered, captures arrive, and is it the frame clock | 228 thousand |
| walk_late (violation) | `MCFrameWalk_late.cfg` | does a frame end if RunFrame overtakes the secondary's tail with a longer frame | - |
| bus | `MCBusLocks.cfg` | lock order, which circles of waits there are, every operation ends that is not behind one | 3.4 thousand |
| scu | `MCSCUInterrupts.cfg` | are interrupts delivered, in every order of raises, masks, clears | 39 thousand |
| dma | `MCSCUDma.cfg` | one transfer and one end per countdown over the unlocked copy | 2.0 million |
| smpc | `MCSMPC.cfg` | the command handshake, SF before or after COMREG, with queued commands and continues | 1.3 million |
| raster | `MCRaster.cfg` | blanking interrupts and timers under mode and timer writes | 881 thousand |
| frame_change | `MCFrameChange.cfg` | VDP1 registers, frame change, draw, reset | 7.5 million |
| cd_drive | `MCCDDrive.cfg` | plays, seeks, stalls, answers and the interrupt against commands at any time | 54 thousand |
| cd_buffer | `MCCDBuffer.cfg` | where sectors go, how many fit, what a transfer's end deletes | 264 thousand |
| delivery | `MCDelivery.cfg` | does the renderer see what the CPUs wrote, and do they see what it drew | 1.2 million |
| backup | `MCBackupRAM.cfg` | are the backup RAM's blocks named files | 7 thousand |

### 3.1 Bounds, and why they are enough

* **walk**: `Chunk` 2, line widths 3 and 4 (a line that ends in a short chunk
  and one that does not, and consecutive frames of different widths, which is
  what recalcTiming's fractional carry produces); 3 and 4 lines with `Slack` 2,
  so the slack binds before the frame ends.  Both captures, both CPUs as frame
  buffer readers, one reset command.  The proofs take any value of each.  The
  constraint `NotOvertaken` stops the search behind an overtaking, of which the
  properties say nothing; `walk_late` goes on from there.
* **bus**: three goroutines is the real number; an area stands for its class.
  Nothing software may name is left out: the CPUs and the sprite-end DMA have
  another area and the B-Bus, the DSP these two and the SCU's registers.
  `KeptAtStart` covers CPU and GPU renderers.  Deadlock is not checked, because the
  goroutines may really stop; `NoDeadlock` says in which circles.
* **scu**: sources 0, 7 and 8 (different and equal levels, lowest bit first)
  and one of the A-Bus (16, which the mask does not withhold); three raises, one reset; mask
  levels that stop all, some, none.  `MaxRaises` is there for `Delivered`, as
  a source that is raised for ever starves those below.
* **dma**: two levels, one whose software waits for the end interrupt and one
  programmed at any moment; factors H-Blank-IN (2, with Timer 1 behind it),
  end of drawing (6) and immediate (7).
* **smpc**: one command of each kind of effect (INTBACK, a switch, a reset),
  delays of one tick, of two and of more than a frame; a queue of three
  (`MaxOps`), one more than a command and its continue.  Every command may have its
  SF before or after its COMREG.
* **raster**: seven lines of two and a half chunks, two resolutions with and
  without a border, two line widths, Timer 0 on and off a display line,
  Timer 1 of none, less than a line and more than a line.  `T0Mod` 5 makes the
  ten-bit wrap happen; `MaxWrites` 2 register writes in a frame.
* **frame_change**: four lines: one before the change, the change and first
  row, one more row's worth of blanking start, one line of blanking.  Every
  register value that a branch tells apart.  No bound on frames or writes.
* **cd_drive**: three sectors, one of audio and one the reader fails on, and a
  buffer of one, so that a play stalls, passes over a sector and sends one to the
  sound queue; plays with no, one, and endless repeat, to the lead-out, and from
  where the head is; every kind of command.  `MaxCommands` 2: a command and one in
  the middle of what it began, on top of what the boot leaves; the proofs take any
  number.  `Flags` has one bit, since every bit goes through the same raise.
* **cd_buffer**: two partitions and filters (a chain as long as there are filters,
  and a loop), a room of two, three sectors, four commands: a GetThenDelete, two
  commands that disturb it, and its end.
* **delivery**: frames of three lines (one before the frame change, one row, one of
  blanking), the smallest number of regions that are in turn filled and in use, two
  versions: two writes, a write and an operation, or one of them and a load.  A page
  of memory has two cells because a copy may be torn.  `Active` is the last line here
  (`Active = Last = 2`), so the blank row behind the display is one the frame change
  turned off; the theorems take any number of blanking lines.
* **backup**: eight blocks for files, lists of two and four words, so that a file
  needs no list, a list in its entry, one page and two pages (sizes 2, 8, 17, 29);
  words that look like block numbers, and words that look like the end of a list.
  The driver's working buffer takes two records of three blocks here, fewer than there
  may be of each.

### 3.2 Fairness

* Goroutines: weak fairness of each.  The Go scheduler runs every runnable
  goroutine and the spin waits call `runtime.Gosched` after a bound of
  iterations.  The host owes no call of RunFrame.
* Locks: a spin lock is decided by a race of compare-and-swaps; strong fairness
  of each claim says nobody loses it for ever.  A copy moves a finite count, the
  DSP has a budget per tick, and the walker raises at most once a line:
  each is left after finitely many steps.
* SMPC: frames run for ever, and a CPU that polls SF polls in some frame.
* SCU (`ServedSpec`, only for `Delivered`): software comes back to an open mask
  register and to interrupt level 0; without that no interrupt has to arrive.
* CDDrive: ticks go on with the frames, and a countdown is a finite number of
  cycles: strong fairness of the steps that find one ended.  A host that began a
  register access finishes it; it owes no command and no read.
* Delivery: the walker and the device go on, a CPU finishes the access it is in;
  strong fairness of `BeginFrame`, since frames keep following however many
  states are saved between two.  No CPU has to start an access.
* SCUDma, FrameChange, CDBuffer and BackupRAM state safety only and assume no
  fairness.

### 3.3 Assumptions on software, and on what is outside

* walk, bus and smpc assume nothing of software.  What they claim stops where
  another part of the model shows that it fails: behind `overtaken`, behind a circle
  of waits, behind a `late` SF (5).
* BlanksPaired: the vertical resolution changes only on lines that both modes
  blank.
* OneTransfer: of the levels in `Waits`, software programs one only when its last
  transfer has ended.
* cd_drive: a disc is in the drive; a tick reads at most one sector (a chunk is
  far shorter than a sector); `Overlap = FALSE` in the run, TRUE or FALSE in the
  theorems.
* delivery: the accurate GPU renderer; one access at a time on the B-Bus
  (`BusLocks`); a CPU write that a frame change falls into is left out (`raced`,
  see 5); the renderer is opened before the first frame, as its interface says, and
  the device does not fail.
* backup: the memory is one these services wrote, not an image from elsewhere.

## 4. What is proved

For every value of the constants that satisfies the modules' assumptions:

**FrameWalk_proofs.**  `IInv` says where each counter stands at each control
point: that a published position is the walker's own or a chunk behind,
that messages in a channel match the control points of both ends, that a
frame's width and total are the ones the workers copied, or that a secondary behind
the frame it was kicked for is at its capture or its last check with a total no frame
since has passed.  None of the properties is inductive without it: the skew, say, needs
that a CPU past its rendezvous has seen the other's position.  It holds until
`overtaken` (`SafeInv`).  From it: `QuietBoundary`, the skew of the two CPUs (`ChunkSkew`), the lead over the walker (`SlackBound`),
the walker behind both CPUs (`WalkerBehind`), type correctness, and the
refinement of FrameClock's safety, step by step (`Refinement`).  `CaptureInv`
adds how old a capture not yet taken can be: no older than a chunk of its writer,
two until its reader passes the latch, counted from where the reader is; from it
the bound of two chunks (`CapturesInTime`).

**BusLocks_proofs.**  `IInv` lists at every place of a goroutine's program the
locks it holds, exactly.  From it the acquisition order and the open register
file; and, for any areas, that the circles of waits are those `NoDeadlock` names and
no others.  For the locks alone, the order of acquisition ranks whoever holds one
above whoever wants it, but for the DSP on its own lock.  A circle with a reader in it
is followed edge by edge: what the walker wants, who holds it, what that one wants.

**SCU_proofs** is about the SCU's three modules, `SCUDma`, `SCUInterrupts` and
`Raster` (which is why the definitions of the last two carry `output` or `raster` in
names that would be the same).

* The DMA: `OneTransfer` needs four facts beside it.  `Lists`: a goroutine's steps are
  checks and counts, or the steps of a register write at one level, and a transfer
  that copies is the first of them.  `Locked`: the lock is held by exactly the
  goroutine that is inside and not copying.  `AtRest`: a register write under way to
  a level whose software waits has the lock and finds the level neither moving nor
  copied; it is preserved because everything that could start the level needs the
  lock.  `Disarmed`: a level that is being copied is not pending unless it starts at
  once, so no start factor raised meanwhile starts it again.  From them
  `OneTransfer`; and from the types alone `EndPerCountdown`.
* The interrupt output: the run's invariants together are inductive.  `AckMatches`
  needs that the line shows what the SCU remembers (`LineMatches`), which needs that
  nothing is asserted while withheld, and `NothingLeftWaiting` that.  From them the
  acknowledge, the withholding, that an assertion stands until its acknowledge and
  that a committed request is not lost.
* The timers: `RasterInv` has the phase of the frame (which of the two blanking
  interrupts have been raised at which line under which mode); from it one pair of
  blanking interrupts per calm frame, and Timer 0 on its line.  Between two steps of
  `RaiseHBlankIN` the line is in its H-Blank (`InHBlank`).  `TimerInv` puts both
  goroutines on the grid of chunks (`Grid`) and says that a countdown runs out within
  a chunk of where the H-Blank that loaded it makes it due (`Counting`); from it
  Timer 1 on time, to a chunk early or late.

**SMPC_proofs.**  The sound CPU's reset line follows the switch, at every place
of the chunk and frame walk (`SoundInv`), and the head of the queue is primed.
`RunAsIssued`: the invariant is a monotone map from the commands issued to their
places in the queue, onto all its commands (`InOrder`; continues and breaks lie
between them), with the input registers as the CPU last wrote them until its COMREG
(`AsWritten`).  An append extends the map; taking the head shifts it, and if the
head is a command, it is where the map's first is.

**FrameChange_proofs.**  Two invariants.  The first ties the late erase, the
displayed buffer and the picture first shown to the walker's place, and gives
`DisplayHeld` and `ErasedBeforeDrawn`; the second counts the swaps of a frame
change against FBCR's bits as loaded and as stored and gives `OneChange`.  That CEF
does not read as ended while a draw goes on follows from the place where it was
loaded (`NotEnded`).

**CDDrive_proofs.**  `RoundHolds` is what `PlayComplete` needs: while a play seeks,
its round has passed nothing and begins where it seeks to, and the way there is
either BUSY or the seek; after that it has passed exactly what lies between its
first position and the head, which has not come to the end of the range.  It takes
in the stall on a full buffer, whose way back goes through a seek that is not the
play's.  `AnswerHolds`: an unread answer of a command other than PlayDisc and
authentication (of the disc or of the MPEG card) keeps `resultsRead` FALSE;
`BootHolds` keeps both through the boot.  Of the answers of those commands nothing is
claimed: the code lets the periodic report replace them (5).
From them `PlayComplete` and `AnswerKept`, for every disc, buffer and sequence of
commands, and with register accesses inside ticks.

**Storage_proofs** is about `CDBuffer` and `BackupRAM` (whose definitions carry
`Backup` in names that would be the same), which share the lemmas about induction and
sums.  For any number of partitions and filters:

* `Routing`.  By induction over the filters a sector may still try, what it leaves by
  is the true connection of the first of the chain that accepts it; and as many tries
  as there are filters are enough, because a set of filters that grows with every
  connection followed runs out of filters (`ChainCloses`, by cardinality), so a longer
  chain, or a loop, adds none.
* `RoomIsKept`.  `Fits`: what is there and what a put has still to write fit together.
  `RoomKept` alone is not inductive, since a put's room is checked once, for sectors
  that come later.
* `EndDeletesSent`.  `Deferred`: the range a deferred deletion names lies in its
  partition and holds what was sent, until the partition loses sectors.
* `MoveKeeps`: taking out and routing change the number of times a sector is there by
  what is taken and what is kept.

Totals over all partitions are sums over a finite set; `SumUpdate` (by induction over
its subsets) says how one term changes them, and everything else about sums is that.

For any number of blocks, any set of names and contents over block words:

* `NoBlockTwice`.  `FilesInv` is inductive: every entry can be followed (`Sound`) to
  blocks of its own, as many as its size takes, no two of them the same, and to a chain
  of words that its size does not run out of; and no block belongs to two (`Apart`).
  The step that matters is a write.  `ReadsBack`: the list that `Layout` spreads over the
  entry and up to `Slots` pages, and the payload behind its terminator and in the data
  blocks, are what `bupEntryBlocks` and `bupBuildReadChain` read back, in the one-block
  case, with a single page, and with full pages before the last.  It rests on how many
  pages a list takes (`PagesFit`) and on that the pieces of a sequence, flattened by the
  library's fold, are the sequence again (`Joined`).  No word of the payload is looked
  at: the place in the walk decides.  The blocks come from the free ones, each once
  (`Allocated`), and what no write or erasure touches is read as before (`KeptEntry`).
* `NamedFiles`: the refinement of `SaveFiles` with the files read back from the blocks.
  `Balanced` is what it needs beside `FilesInv`: the blocks in use are as many as the
  sizes of the files take.  Each service is then the abstract one of its name: a write
  that is too long for the entry's list or finds too few blocks is refused in both, with
  the old file erased in the second case; the directory counts the names that hold a
  file; the statistics are a function of the sizes.  The run checks the same refinement
  with a variable that keeps the files, since TLC takes too long to read them back for
  every place where the abstract specification mentions them.

**Delivery_proofs.**  The regions in the order of their submission, and behind them
the one being filled, are one queue of records (`Chain`), and the device's memory is
what it has applied of it.  Of that queue `Holds` says: before a row lies a copy of the
page as new as the row needs, or the device has one (`Rows`); an unmarked page is on
its way in its latest complete form (`Clean`), and so is one that is being taken
(`Taken`); applied to the end, the queue leaves the latest bytes the CPUs stored,
unless they are still to be taken (`CPUBytes`), and the latest the command processor
drew, unless its operation still waits (`Drawn`).  A take that makes room in the middle of
its work lengthens the queue and changes nothing it has taken (`ChainRoom`).  `State` has what the queue rests
on: no region is submitted twice or empty, how far a take has come, that a
write's mark follows its store (`Stored`), and what holds once the CPUs have the pair
(`Kept`).  From them the CPU pair is current when it is read (`PairCurrent`), and a row
sees every write complete when its page was taken (`RowCurrent`).

Induction is over sets here: that a set of numbers with 0 and every successor has all
of them (`Numbers`), and the same for the subsets of a finite set (`Subsets`), both
from the library's theorem that the naturals are well-founded.  What a recursive
function computes is then proved by the set of the arguments where it is so.

Only model-checked: all liveness (`FrameCompletes`, `ReadAnswered`,
`OperationsEnd`, `Delivered`, `PollEnds`, `ContinueAnswered`, `CountdownEnds`,
`PlayEnds`, `IrqFollows`, `CommandAnswered`, `EverythingArrives`), which the proof
system does not reach.  Every safety property of the runs is a theorem.

## 5. Where the code and its comments part

Shown by a run (PROJECT.json has the lines):

* **walk_late**: `frame.go:260` waits for the secondary's counter, which the
  secondary publishes before its end-of-frame check.  If the main goroutine runs
  far ahead there, the check reads the next frame's total, and if that frame is the
  longer one, both wait for ever.  The comments that claim it parked are frame.go:164,
  191 and 257.

Shown by what a passing run has to leave open (its property names the case, and fails
without it):

* **bus**: `waitPair` relies on the walker being free ("which it does at its line
  wait", vdp1.go:347-352), but the walker itself runs the DMA that the end of drawing
  starts, which may want the B-Bus the reader holds, or may read the frame buffer and
  so wait for itself.  A DSP D0 DMA can close a circle (the DSP or the main goroutine
  in a frame buffer read, the walker on the SCU's lock to raise the end of drawing):
  `ReaderCaught`.  A DSP that addresses the SCU's registers claims its own lock again
  (scu_dsp.go:665): `DspOnItsOwnLock`.
* **smpc**: the comment at smpc.go:103-104 has games write SF after COMREG and poll.
  A command with a delay of one scanline may end between the two writes; SF then
  stays set and the poll does not end: `late` in `PollEnds`.

Met while modelling, in the model as the code has it, without a run:

* frame walk: at the boundary the secondary may still be at its capture or its last
  check, so that nobody else is inside is not so; a reset there meets no access of
  its (`QuietBoundary`).  A capture may take up to two chunks (`CaptureWithinTwoChunks`), the comment at
  emulator.go:155 says one.  A reset runs recalcTiming twice.
* bus: the flags that say only the master or only the slave triggers a region rely on
  software (bus.go:161), and whether drawing is active is read before the area is
  claimed and decides a charge made after it (bus_timing.go:365).
* DMA: a trigger armed before an immediate start survives it and runs the
  transfer a second time (scu.go:253, 262); one that lands during a transfer is
  not held (scu.go:716, 728); DSTA shows a copying level idle (scu.go:278); a
  register write's drain does not see a level in the middle of its copy
  (scu.go:451); in update mode the write-back overwrites an address that software
  wrote during the copy (scu.go:992).
* SMPC: a continue served while a command
  waits behind it clears the SF set for that command (smpc.go:186);
  `intbackActive` outlives a later INTBACK without a second phase.
* raster: TVMD from 224 to 240 lines at line 224 or later repeats V-Blank-IN, and
  240 to 224 in the last lines loses V-Blank-OUT and with it Timer 0's reset.
  `SCU.Reset` leaves Timer 0's count.  A Timer 1 delay longer than a line fires
  only in the blanking.  The VDP1's blanking follows the line count sampled at the
  frame's start, not the live one (frame.go:387).
* VDP1: an FBCR write during the frame change may be lost or make a second swap
  in the field (hence `raced` in `OneChange`).  The CPUs may be up to the slack
  ahead of the walker, so writes of lines 2 and 3 can be such writes.  The swap
  flag is consumed only when PTM is 10, so a swap of an earlier field starts an
  automatic draw in a field without one (frame.go:382).  The VDP1's reset leaves an
  active draw and a pending trigger standing; the list is drawn again from its top
  after it (vdp1.go:468).
* CD block: HIRQ is read, masked and stored without a lock by the tick and by a
  host's write, so a flag set in between can be lost (reachable with `Overlap`; the
  comment at frame.go:16-19 says every shared access claims its bus).  AbortFile while BUSY
  or in the seek of a resume leaves the pending status PLAY to come true later.  The
  comment of cmdInitCDSystem says CSCT is cleared, its mask 0xFFE5 keeps it.
  The branch at cdblock.go:725 for a completed boot is not reached.  The comment
  on resultsRead promises that an answer stands until read; those of PlayDisc and
  authentication do not (`AnswerKept` leaves them out).  ReadFile does not clear a
  stall.  An authentication in the middle of a play leaves it playing with status
  PAUSE for good (`Held`).
* CD buffer: the total can exceed 200 when the drive or a copy takes the room a put
  was promised; GetBufferSize then wraps at 16 bits, and decodeCDBuffers
  (savestate.go:2495) refuses a state saved like that.  A deferred deletion goes by
  position, so it hits other sectors if the host deletes or moves some first.
  GetTOC, GetSubcode and GetFileInfo overwrite the kind of transfer under way, and
  its deletion is then never made.
* Delivery: a CPU write that a frame change falls into is stored in one half and
  noted for the other (`fbWriteTarget`, `noteFBWrite`), so the renderer does not get
  it.  A device failure at run time leaves the CPU pair stale, as
  useSoftwareRenderer says.
* Save states: all chunks are decoded before anything is changed, except the
  68000's blob, whose format is checked only as it is applied (savestate.go:2972).
* HLE BIOS: the semaphore service reads and writes its byte in two bus accesses,
  where its comment speaks of TAS's one (hlebios_services.go:190).  An overwrite with
  too little memory has erased the old file (in `SaveFiles` as the library's
  promise).  BUP_Stat's free size may exceed the longest single file; the driver's
  working buffer is as old as the last service (hlebios_bup.go:658).  The comment at
  561-563 says that the serial device finds no format and answers BUP_UNFORMAT; the
  code answers BUP_NON.  The comment at 1269-1271 has the sense of the overwrite flag
  the other way round than 1163 and the code (a file is kept if the flag is not 0).

## 6. What is not modelled, and why

* Pure functions of memory: SH-2 and 68000 instructions, VDP1 rasterisation and
  its cycle costs, VDP2 composition, synthesis, shaders.  No interleaving in them.
* In the modelled components: the SMPC's ports, clock and backup memory; the DMA's
  address arithmetic; bus decode, contention charges and the write buffer; VDP2's
  latch and status registers; the VDP1's data-only registers; the CD block's
  reports, table of contents, subcode and directory (words of answers), its cycle
  counts (nondeterministic) and a drive without a disc; the renderer's encoding of
  dispatches, its bands and spans; the enhanced renderers; the dates of save files.
* The line width's fractional carry (timing.go:91) is arithmetic over frames; the
  model's frames take any of the widths it produces.
* Host calls (SetDisc, SetInput) run between frames at a boundary that is quiet
  (`QuietBoundary`).
* `Delivery` gives the CPUs and the command processor bytes of their own, so the order
  in which a take has a CPU's write and an operation on the same byte
  (renderer_gpu_vdp1.go:628-637) is not looked at.  A CPU write that a frame change
  falls into is `raced` there and left out.
* The stores of one write of PTMR come in two steps, not four.
* The backup library's file names, comments and dates, the contents of the directory
  list, and records of earlier services that stay in the working buffer.
* MPEG card: three slots are exchanged between decoder and walker by one swap each,
  so that each party owns one; decoding is a library.  SCSP: a sound request is noted
  under one lock and raised to the SCU by the next tick; synthesis is arithmetic.
  Both hand over a single value and are small beside what is modelled.
* The SH-2's on-chip devices run on their CPU's own goroutine, apart from the
  captures of `FrameWalk`; the other HLE services run in place of an instruction.
* The state codec is field by field, and an all-or-nothing load needs the state of
  every component in one module.  `Delivery` has what a save and a load owe to the
  renderer.
* Debug server and client (the client's reply matching, debugger client.go:141),
  front ends (the audio ring, dev_runner/audio.go:183), replay, GPU back ends: I/O and
  host toolkits around the core.

## 7. How it was built, and what could follow

In this order: `FrameClock`, `FrameWalk`, `BusLocks`, `SCUInterrupts`, `SCUDma`,
`SMPC`, `Raster`, `FrameChange`, `CDDrive`, `CDBuffer`, `SaveFiles`, `BackupRAM`,
`Delivery`; each with its runs first and its proofs where the prover reaches.

Left, by what it would add:

1. A composition of `CDDrive` and `CDBuffer`, with the room a put is promised.
2. The MPEG card's picture exchange and the SCSP's interrupt registers, each with
   the component it feeds (`Delivery`, `SCUInterrupts`).
3. SH-2 on-chip devices: DMAC, the free-running timer's capture flag, watchdog.
4. The debug server's command queue against a run that is stopped and detached.
