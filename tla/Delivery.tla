------------------------------ MODULE Delivery ------------------------------
(***************************************************************************)
(* How memory written by the CPUs reaches the GPU renderer, and the frame  *)
(* buffer pair comes back from it (src/core/vdp2_delta.go, vdp1.go,        *)
(* renderer_gpu.go, renderer_gpu_vdp1.go, frame.go, savestate.go).  The    *)
(* walker takes marked pages while they are written, copies them into      *)
(* staging regions and submits those; the device applies them later.       *)
(*                                                                         *)
(* A page of memory and a page of each frame buffer stand for all: every   *)
(* page has its own bit.  The page of memory has the cells of one word;    *)
(* in a frame buffer byte "c" is the CPUs' and byte "o" the drawing's.     *)
(* Contents are versions, numbered as they are made.  The B-Bus lets one   *)
(* access through at a time; the renderer is the accurate one.             *)
(***************************************************************************)
EXTENDS Integers, Sequences, FiniteSets

CONSTANTS
  Last,                  \* the last line of a frame
  Active,                \* ActiveLines: the first blank line
  Regions,               \* gpuStagingRegions
  MaxVersions            \* bound on the writes, operations and loads

ASSUME DeliveryAssumption ==
  /\ Last \in Nat /\ Active \in 2 .. Last
  /\ Regions \in Nat /\ Regions >= 2
  /\ MaxVersions \in Nat

Cells == {1, 2}
Halves == {0, 1}
Bytes == {"c", "o"}
Versions == 0 .. MaxVersions

VARIABLES
  \* memory and the mark of its page
  mem, dirty,
  \* the CPU pair by physical buffer, which is drawn to; the CPUs' writes
  pair, drawFB, shadow, fbMask, fbDirty, pairKept, pairRequest,
  \* the access that holds the B-Bus: where it is, its buffer and version
  cpu,
  disp,                  \* the frame's rows are displayed; FALSE when there are none left
  \* the walker: its place, its line, what it takes for, the half it takes
  place, line, call, half, got,
  due,                   \* history: complete when the last take of the page began
  ops,                   \* completed and not taken
  staging, cur,          \* what the device has not applied of each region; the one being filled
  queue,                 \* regions submitted
  device,                \* the device's memory and pair
  \* history: versions made; the newest that is written and marked; what the
  \* frame buffers should hold; a frame change came into a write to the half
  version, complete, latest, raced

memory == <<mem, dirty>>
writes == <<shadow, fbMask, fbDirty>>
pairs == <<pair, pairKept, pairRequest>>
walker == <<place, line, call, half, got, due>>
regions == <<staging, cur>>
gpu == <<queue, device>>
history == <<version, complete, latest, raced>>
vars == <<memory, pairs, drawFB, disp, writes, cpu, walker, ops, regions, gpu, history>>

Idle == [pc |-> "idle", to |-> 0, v |-> 0]
Blank == [b \in Bytes |-> 0]
Nothing == [c \in Cells |-> 0]

(* Both renderers' setup leaves the device as the CPUs' memory is.           *)
Init ==
  /\ mem = Nothing /\ dirty = TRUE
  /\ pair = [h \in Halves |-> Blank] /\ drawFB = 0 /\ disp = FALSE /\ pairKept = FALSE /\ pairRequest = FALSE
  /\ shadow = [h \in Halves |-> Blank] /\ fbMask = [h \in Halves |-> {}] /\ fbDirty = [h \in Halves |-> FALSE]
  /\ cpu = Idle
  /\ place = "boundary" /\ line = Last /\ call = "line" /\ half = 0 /\ got = {} /\ due = 0
  /\ ops = <<>>
  /\ staging = [r \in 1 .. Regions |-> <<>>] /\ cur = 1
  /\ queue = <<>>
  /\ device = [mem |-> Nothing, pair |-> [h \in Halves |-> Blank]]
  /\ version = 0 /\ complete = 0
  /\ latest = [h \in Halves |-> Blank] /\ raced = [h \in Halves |-> FALSE]

-----------------------------------------------------------------------------
(* The CPUs                                                                  *)

(* A CPU that has completed the frame's last line makes no access before the *)
(* next frame.                                                               *)
CpuMay == cpu = Idle /\ (line < Last \/ place = "wait")
Made == version < MaxVersions /\ version' = version + 1

Cpu(pc) == cpu' = [cpu EXCEPT !.pc = pc]

(* A word is stored byte by byte, then its page is marked: the bit is        *)
(* loaded, and set only if it was clear.                                     *)
WriteVRAM ==
  /\ CpuMay /\ Made
  /\ mem' = [mem EXCEPT ![1] = version']
  /\ cpu' = [pc |-> "store", to |-> 0, v |-> version']
  /\ UNCHANGED <<dirty, complete, latest, raced>>

StoreRest ==
  /\ cpu.pc = "store"
  /\ mem' = [mem EXCEPT ![2] = cpu.v]
  /\ Cpu("test")
  /\ UNCHANGED <<dirty, history>>

Marked == cpu' = Idle /\ complete' = cpu.v

TestPage ==
  /\ cpu.pc = "test"
  /\ IF dirty THEN Marked ELSE Cpu("mark") /\ UNCHANGED complete
  /\ UNCHANGED memory

MarkPage ==
  /\ cpu.pc = "mark"
  /\ dirty' = TRUE /\ Marked
  /\ UNCHANGED mem

(* A frame buffer write: where it goes is looked up, and looked up again for *)
(* the note that is taken of it.                                             *)
WriteFB ==
  /\ CpuMay /\ Made
  /\ cpu' = [pc |-> "fb", to |-> drawFB, v |-> version']
  /\ UNCHANGED <<pair, writes, complete, latest, raced>>

fbWriteTarget ==
  /\ cpu.pc = "fb"
  /\ IF pairKept THEN pair' = [pair EXCEPT ![cpu.to]["c"] = cpu.v] /\ UNCHANGED shadow
                 ELSE shadow' = [shadow EXCEPT ![cpu.to]["c"] = cpu.v] /\ UNCHANGED pair
  /\ latest' = [latest EXCEPT ![cpu.to]["c"] = cpu.v]
  /\ Cpu("note")
  /\ UNCHANGED <<fbMask, fbDirty, version, complete, raced>>

(* noteFBWrite: the byte to the shadow, its bit to the mask, its page.       *)
NoteByte ==
  /\ cpu.pc = "note"
  /\ shadow' = IF pairKept THEN [shadow EXCEPT ![drawFB]["c"] = pair[drawFB]["c"]] ELSE shadow
  /\ cpu' = [cpu EXCEPT !.pc = "mask", !.to = drawFB]
  /\ raced' = [raced EXCEPT ![cpu.to] = cpu.to # drawFB]
  /\ UNCHANGED <<pair, fbMask, fbDirty, version, complete, latest>>

NoteMask ==
  /\ cpu.pc = "mask"
  /\ fbMask' = [fbMask EXCEPT ![cpu.to] = @ \cup {"c"}]
  /\ Cpu("page")
  /\ UNCHANGED <<pair, shadow, fbDirty, history>>

NotePage ==
  /\ cpu.pc = "page"
  /\ fbDirty' = [fbDirty EXCEPT ![cpu.to] = TRUE]
  /\ cpu' = Idle
  /\ UNCHANGED <<pair, shadow, fbMask, history>>

(* A frame buffer read: waitPair.                                            *)
ReadFB ==
  /\ CpuMay
  /\ IF pairKept THEN UNCHANGED <<cpu, pairRequest>>
                 ELSE pairRequest' = TRUE /\ Cpu("spin")

waitPair ==
  /\ cpu.pc = "spin" /\ pairKept
  /\ cpu' = Idle
  /\ UNCHANGED pairRequest

CpuContinues ==
  \/ (StoreRest \/ TestPage \/ MarkPage)
       /\ UNCHANGED <<pair, writes, pairRequest, version, latest, raced>>
  \/ (fbWriteTarget \/ NoteByte \/ NoteMask \/ NotePage) /\ UNCHANGED <<memory, pairRequest>>
  \/ waitPair /\ UNCHANGED <<memory, pair, writes, history>>

CpuStarts ==
  \/ WriteVRAM /\ UNCHANGED <<pair, writes, pairRequest>>
  \/ WriteFB /\ UNCHANGED <<memory, pairRequest>>
  \/ ReadFB /\ UNCHANGED <<memory, pair, writes, history>>

CPU == (CpuStarts \/ CpuContinues) /\ UNCHANGED <<pairKept, drawFB, disp, walker, ops, regions, gpu>>

-----------------------------------------------------------------------------
(* The walker's takes                                                        *)

Go(p) == place' = p /\ UNCHANGED <<line, call, half, got, due>>
Call(c, p) == call' = c /\ place' = p /\ UNCHANGED <<line, half, got, due>>
Put(rec) == staging' = [staging EXCEPT ![cur] = Append(@, rec)] /\ UNCHANGED cur

(* Mutant: the page is copied before its bit is cleared.                     *)
TakePage_CopyFirst ==
  \/ /\ place = "page"
     /\ got' = IF dirty THEN {<<c, mem[c]>> : c \in Cells} ELSE {}
     /\ due' = complete
     /\ place' = IF dirty THEN "copy" ELSE "row"
     /\ UNCHANGED <<dirty, line, call, half>>
  \/ /\ place = "copy"
     /\ place' = "row" /\ dirty' = FALSE
     /\ UNCHANGED <<line, call, half, got, due>>

(* takePages: the bit is swapped for zero, then the page is copied, which    *)
(* may be torn.                                                              *)
TakePage ==
  \/ /\ place = "page"
     /\ dirty' = FALSE /\ got' = {} /\ due' = complete
     /\ place' = IF dirty THEN "copy" ELSE "row"
     /\ UNCHANGED <<line, call, half>>
  \/ /\ place = "copy"
     /\ LET c == 1 + Cardinality(got) IN
          /\ got' = got \cup {<<c, mem[c]>>}
          /\ place' = IF c = 2 THEN "row" ELSE "copy"
     /\ UNCHANGED <<dirty, line, call, half, due>>

(* The batch is submitted once it holds so many rows.                        *)
RowEnds ==
  \/ place' = "submit" /\ call' = IF call = "begin" THEN "row0" ELSE "row"
  \/ place' = (IF call = "begin" THEN "tick" ELSE "next") /\ UNCHANGED call

(* The row is put with its page; a blank one has none.                       *)
RenderLine ==
  /\ place = "row" /\ RowEnds
  /\ Put([kind |-> "row", page |-> got, least |-> due])
  /\ got' = {} /\ due' = 0
  /\ UNCHANGED <<dirty, line, half>>

BlankRow == place = "blank" /\ RowEnds /\ UNCHANGED <<line, half, got, due>>

(* takeFBPages, one half after the other: the page's bit, the mask, then the *)
(* shadow's bytes.                                                           *)
TakeFB ==
  \/ /\ place = "dirty"
     /\ fbDirty' = [fbDirty EXCEPT ![half] = FALSE]
     /\ IF fbDirty[half] THEN place' = "mask" /\ UNCHANGED half
        ELSE IF half = 0 THEN half' = 1 /\ UNCHANGED place ELSE place' = "ops" /\ UNCHANGED half
     /\ UNCHANGED <<line, call, got, due, shadow, fbMask, regions>>
  \/ /\ place = "mask"
     /\ got' = fbMask[half] /\ fbMask' = [fbMask EXCEPT ![half] = {}]
     /\ place' = "shadow"
     /\ UNCHANGED <<line, call, half, due, shadow, fbDirty, regions>>
  \/ /\ place = "shadow"
     /\ Put([kind |-> "fb", half |-> half, mask |-> got, bytes |-> shadow[half]])
     /\ place' = IF half = 0 THEN "dirty" ELSE "ops"
     /\ half' = 1 /\ got' = {}
     /\ UNCHANGED <<line, call, due, writes>>

(* A row takes the pages if the display is on for the frame (lineActive).    *)
RowPlace == IF disp THEN "page" ELSE "blank"
Row == 1 <= line /\ line < Active

(* The operations completed follow the writes.                               *)
TakeOps ==
  /\ place = "ops"
  /\ staging' = [staging EXCEPT ![cur] = @ \o ops] /\ UNCHANGED cur
  /\ ops' = <<>>
  /\ place' = IF call = "line" THEN IF Row THEN RowPlace ELSE "next" ELSE "submit"
  /\ half' = 0
  /\ UNCHANGED <<line, call, got, due>>

AfterSubmit ==
  CASE call = "begin" -> RowPlace [] call \in {"row0", "end"} -> "tick"
    [] call = "row" -> "next" [] call \in {"sync", "save"} -> "flush"

submitBatch ==
  /\ place = "submit"
  /\ IF staging[cur] = <<>> THEN Go(AfterSubmit) /\ UNCHANGED <<queue, cur>>
     ELSE Go("advance") /\ queue' = Append(queue, cur) /\ cur' = 1 + (cur % Regions)
  /\ UNCHANGED staging

InUse == cur \in {queue[i] : i \in DOMAIN queue}

advanceStaging ==
  /\ place = "advance" /\ ~InUse
  /\ staging' = [staging EXCEPT ![cur] = <<>>]
  /\ Go(AfterSubmit)
  /\ UNCHANGED <<queue, cur>>

(* A region too full for a whole take is submitted ahead of the take.  The   *)
(* next one is waited for in the same step: the device runs in order.        *)
MakeRoom ==
  /\ place = "page" \/ (place = "dirty" /\ half = 0)
  /\ staging[cur] # <<>>
  /\ cur' = 1 + (cur % Regions) /\ \A i \in DOMAIN queue : queue[i] # cur'
  /\ queue' = Append(queue, cur)
  /\ staging' = [staging EXCEPT ![cur'] = <<>>]

Takes ==
  \/ TakePage /\ UNCHANGED <<mem, writes, ops, queue, regions>>
  \/ RenderLine /\ UNCHANGED <<mem, writes, ops, queue>>
  \/ BlankRow /\ UNCHANGED <<memory, writes, ops, queue, regions>>
  \/ TakeFB /\ UNCHANGED <<memory, ops, queue>>
  \/ TakeOps /\ UNCHANGED <<memory, writes, queue>>
  \/ (submitBatch \/ advanceStaging) /\ UNCHANGED <<memory, writes, ops>>
  \/ MakeRoom /\ UNCHANGED <<memory, writes, walker, ops>>

-----------------------------------------------------------------------------
(* The walker's lines                                                        *)

(* The wait for the CPUs ends, for the last line when their frame is over.   *)
WaitEnds ==
  /\ place = "wait"
  /\ line = Last => cpu = Idle
  /\ IF line = Active THEN Call("end", "dirty") /\ disp' = FALSE
     ELSE Go(IF line = 1 THEN "change" ELSE "tick") /\ UNCHANGED disp
  /\ UNCHANGED <<pairs, drawFB, ops, latest, version>>

(* Mutant: what was drawn and written since the last take is not taken.      *)
servicePair_NoTake ==
  /\ place = "wait" /\ pairRequest
  /\ Call("sync", "submit")
  /\ UNCHANGED <<pairs, drawFB, disp, ops, latest, version>>

(* syncPair takes what is left, submits it and waits for it, then copies the *)
(* device's pair.                                                            *)
servicePair ==
  /\ place = "wait" /\ pairRequest
  /\ Call("sync", "dirty")
  /\ UNCHANGED <<pairs, drawFB, disp, ops, latest, version>>

Flush ==
  /\ place = "flush" /\ queue = <<>>
  /\ pair' = device.pair
  /\ IF call = "sync" THEN pairKept' = TRUE /\ pairRequest' = FALSE /\ Go("wait")
                      ELSE UNCHANGED <<pairKept, pairRequest>> /\ Go("saved")
  /\ UNCHANGED <<drawFB, disp, ops, latest, version>>

(* The frame change, and the frame begins for the renderer.                  *)
Change ==
  /\ place = "change"
  /\ drawFB' \in Halves /\ disp' \in BOOLEAN
  /\ Call("begin", "submit")
  /\ UNCHANGED <<pairs, ops, latest, version>>

(* A tick completes an operation or none; it draws if the pair is kept.      *)
Tick ==
  /\ place = "tick"
  /\ \/ /\ Made
        /\ ops' = Append(ops, [kind |-> "op", half |-> drawFB, v |-> version'])
        /\ latest' = [latest EXCEPT ![drawFB]["o"] = version']
        /\ pair' = IF pairKept THEN [pair EXCEPT ![drawFB]["o"] = version'] ELSE pair
     \/ UNCHANGED <<ops, latest, pair, version>>
  /\ Call("line", "dirty")
  /\ UNCHANGED <<pairKept, pairRequest, drawFB, disp>>

NextLine ==
  /\ place = "next"
  /\ IF line < Last THEN line' = line + 1 /\ place' = "wait" /\ UNCHANGED <<call, half, got, due>>
     ELSE queue = <<>> /\ Go("boundary")
  /\ UNCHANGED <<pairs, drawFB, disp, ops, latest, version>>

BeginFrame ==
  /\ place = "boundary"
  /\ line' = 0 /\ place' = "wait"
  /\ UNCHANGED <<call, half, got, due, pairs, drawFB, disp, ops, latest, version>>

(* Serialize captures the pair, brought up to date first.                    *)
Serialize ==
  /\ \/ place = "boundary" /\ ~pairKept /\ Call("save", "dirty")
     \/ place = "saved" /\ Go("boundary")
  /\ UNCHANGED <<pairs, drawFB, disp, ops, latest, version>>

Lines == WaitEnds \/ servicePair \/ Flush \/ Change \/ Tick \/ NextLine \/ BeginFrame \/ Serialize

(* Mutant: only the pages of memory are marked.                              *)
Deserialize_MemoryOnly ==
  /\ place = "boundary" /\ Made
  /\ mem' = [c \in Cells |-> version'] /\ dirty' = TRUE
  /\ pair' = [h \in Halves |-> [b \in Bytes |-> version']]
  /\ latest' = pair' /\ raced' = [h \in Halves |-> FALSE] /\ complete' = version'
  /\ UNCHANGED <<writes, pairKept, pairRequest, drawFB, disp, cpu, walker, ops, regions, gpu>>

(* A load replaces everything and marks all of it (resyncFB).                *)
Deserialize ==
  /\ place = "boundary" /\ Made
  /\ mem' = [c \in Cells |-> version'] /\ dirty' = TRUE
  /\ pair' = [h \in Halves |-> [b \in Bytes |-> version']]
  /\ shadow' = pair' /\ fbMask' = [h \in Halves |-> Bytes] /\ fbDirty' = [h \in Halves |-> TRUE]
  /\ latest' = pair' /\ raced' = [h \in Halves |-> FALSE] /\ complete' = version'
  /\ UNCHANGED <<pairKept, pairRequest, drawFB, disp, cpu, walker, ops, regions, gpu>>

Walker ==
  \/ Takes /\ UNCHANGED <<pairs, drawFB, disp, cpu, device, history>>
  \/ Lines /\ UNCHANGED <<memory, writes, cpu, regions, gpu, complete, raced>>

-----------------------------------------------------------------------------
(* The device                                                                *)

Running == Head(staging[Head(queue)])

Applied(d, rec) ==
  CASE rec.kind = "row" -> [d EXCEPT !.mem = [c \in Cells |-> IF rec.page = {} THEN d.mem[c] ELSE
                                                    CHOOSE v \in Versions : <<c, v>> \in rec.page]]
    [] rec.kind = "fb" -> [d EXCEPT !.pair[rec.half] = [b \in Bytes |-> IF b \in rec.mask THEN rec.bytes[b] ELSE @[b]]]
    [] rec.kind = "op" -> [d EXCEPT !.pair[rec.half]["o"] = rec.v]

(* Submissions run in their order and read their region while they run.     *)
Device ==
  /\ queue # <<>>
  /\ IF staging[Head(queue)] = <<>> THEN UNCHANGED <<staging, device>> /\ queue' = Tail(queue)
     ELSE /\ device' = Applied(device, Running)
          /\ staging' = [staging EXCEPT ![Head(queue)] = Tail(@)]
          /\ queue' = IF Len(staging[Head(queue)]) = 1 THEN Tail(queue) ELSE queue
  /\ UNCHANGED <<memory, pairs, drawFB, disp, writes, cpu, walker, ops, cur, history>>

Next == CPU \/ Walker \/ Deserialize \/ Device

(* Frames follow each other however many states are saved between them, a    *)
(* CPU finishes the access it is in, and the device what it was given.       *)
Fairness ==
  /\ WF_vars(Walker) /\ WF_vars(Device)
  /\ SF_vars(Walker /\ BeginFrame)
  /\ WF_vars(CpuContinues /\ UNCHANGED <<pairKept, drawFB, disp, walker, ops, regions, gpu>>)

Spec == Init /\ [][Next]_vars /\ Fairness

-----------------------------------------------------------------------------
(* Properties                                                                *)

(* A row is rendered from memory at least as new as every write that was     *)
(* complete when the row was taken, however writes, takes, torn copies and   *)
(* submissions fall together (page delivery).                                *)
RowIsCurrent ==
  [][Device /\ staging[Head(queue)] # <<>> /\ Running.kind = "row" => \A c \in Cells : device'.mem[c] >= Running.least]_vars

(* The CPU pair holds every write and every completed operation whenever it  *)
(* is read: once it is kept, and when a state is saved (waitPair, syncPair). *)
(* A write that a frame change falls into is left out.                       *)
PairIsCurrent ==
  pairKept \/ place = "saved" => \A h \in Halves : raced[h] \/ pair[h] = latest[h]

(* Everything written arrives: once writes cease the device has what the     *)
(* CPUs and the drawing left, also after a load (markAllPages, resyncFB);    *)
(* memory if the display is on again and again.                              *)
EverythingArrives ==
  /\ <>[](\A h \in Halves : raced[h] \/ device.pair[h] = latest[h])
  /\ []<>(place = "page") => <>[](device.mem = mem)
=============================================================================
