------------------------------ MODULE BusLocks ------------------------------
(***************************************************************************)
(* The access locks of the bus (src/core/bus.go) as the three goroutines     *)
(* of the core take them: one spin lock per bus area, one for the SCU's      *)
(* register file, and one wait that is not a lock, the wait of a frame       *)
(* buffer read for the VDP walker to bring the CPU pair up to date.          *)
(*                                                                           *)
(* A goroutine is inside the SCU's domain for a raise, a register access     *)
(* or a tick.  A DMA drops that lock while it copies and takes it again to   *)
(* write back; a DMA of the SCU's DSP keeps it.  The copy and the DSP        *)
(* access the areas the registers name, which software chooses: those an     *)
(* operation may touch are constants.                                        *)
(***************************************************************************)
EXTENDS FiniteSets

CONSTANTS
  CpuAreas,        \* the areas the CPUs (and their SCU DMAs) access
  WalkerAreas,     \* the areas a DMA started by the end of drawing touches
  DspAreas,        \* the areas the DSP's D0 bus addresses
  FrameBufferRead, \* an access to the B-Bus may read the frame buffer
  KeptAtStart      \* the values the walk's pairKept has when a frame starts

Areas == {"CPUBus", "ABus", "BBus", "SMPC"}
Domains == Areas \cup {"SCU"}

ASSUME AreasAssumption ==
  /\ CpuAreas \subseteq Areas
  /\ WalkerAreas \subseteq Areas
  /\ DspAreas \subseteq Domains
  /\ FrameBufferRead \in BOOLEAN
  /\ KeptAtStart \in SUBSET BOOLEAN

Goroutines == {"main", "secondary", "walker"}
Free == "free"

VARIABLES
  busLocks,     \* who holds each lock
  pairKept, pairRequest,
  pc,           \* where each goroutine is
  area,         \* the area of the access it is in, if it is in one
  within        \* what the access is part of: "cpu", "copy" or "dsp"

vars == <<busLocks, pairKept, pairRequest, pc, area, within>>

Init ==
  /\ busLocks = [d \in Domains |-> Free]
  /\ pairKept \in KeptAtStart
  /\ pairRequest = FALSE
  /\ pc = [g \in Goroutines |-> "idle"]
  /\ area = [g \in Goroutines |-> "none"]
  /\ within = [g \in Goroutines |-> "none"]

Goto(g, place) == pc' = [pc EXCEPT ![g] = place]
Take(g, d) == busLocks[d] = Free /\ busLocks' = [busLocks EXCEPT ![d] = g]
Drop(d) == busLocks' = [busLocks EXCEPT ![d] = Free]
Leave(g) ==
  /\ area' = [area EXCEPT ![g] = "none"]
  /\ within' = [within EXCEPT ![g] = "none"]

-----------------------------------------------------------------------------
(* Accesses to a bus area                                                    *)

(* lockArea spins on the area's lock; g is in claimArea until it has it.     *)
ClaimArea(g, a, part) ==
  /\ Goto(g, "claimArea")
  /\ area' = [area EXCEPT ![g] = a]
  /\ within' = [within EXCEPT ![g] = part]
  /\ UNCHANGED <<busLocks, pairKept, pairRequest>>

CpuAccess(g) ==
  /\ g # "walker"
  /\ pc[g] = "idle"
  /\ \E a \in CpuAreas : ClaimArea(g, a, "cpu")

(* With the lock held the access is performed.  A frame buffer read finds    *)
(* the pair kept or waits for it with the area still claimed (waitPair).     *)
LockArea(g) ==
  /\ pc[g] = "claimArea"
  /\ Take(g, area[g])
  /\ \/ Goto(g, "inArea") /\ UNCHANGED pairRequest
     \/ /\ area[g] = "BBus" /\ FrameBufferRead /\ ~pairKept
        /\ pairRequest' = TRUE
        /\ Goto(g, "waitPair")
  /\ UNCHANGED <<pairKept, area, within>>

PairIsKept(g) ==
  /\ pc[g] = "waitPair"
  /\ pairKept
  /\ Goto(g, "inArea")
  /\ UNCHANGED <<busLocks, pairKept, pairRequest, area, within>>

AfterAccess(g) ==
  CASE within[g] = "copy" -> "copy"
    [] within[g] = "dsp" -> "inSCU"
    [] OTHER -> "idle"

(* Mutant: a raise made from a register-write path, with the area still claimed.     *)
UnlockArea_RaiseFirst(g) ==
  /\ pc[g] = "inArea"
  /\ \/ /\ within[g] = "cpu" /\ g = "secondary"
        /\ Goto(g, "claimSCU")
        /\ UNCHANGED busLocks
     \/ /\ Drop(area[g])
        /\ Goto(g, AfterAccess(g))
  /\ Leave(g)
  /\ UNCHANGED <<pairKept, pairRequest>>

(* A read-modify-write performs a second access before it lets go.           *)
UnlockArea(g) ==
  /\ pc[g] = "inArea"
  /\ Drop(area[g])
  /\ Goto(g, AfterAccess(g))
  /\ Leave(g)
  /\ UNCHANGED <<pairKept, pairRequest>>

-----------------------------------------------------------------------------
(* The SCU's domain                                                          *)

(* A register access of a CPU, a raise of any goroutine, the tick of the     *)
(* secondary: none of them holds a bus area.                                 *)
EnterSCU(g) ==
  /\ pc[g] = "idle"
  /\ Goto(g, "claimSCU")
  /\ UNCHANGED <<busLocks, pairKept, pairRequest, area, within>>

LockIRQ(g) ==
  /\ pc[g] = "claimSCU"
  /\ Take(g, "SCU")
  /\ Goto(g, "inSCU")
  /\ UNCHANGED <<pairKept, pairRequest, area, within>>

UnlockIRQ(g) ==
  /\ pc[g] = "inSCU"
  /\ Drop("SCU")
  /\ Goto(g, "idle")
  /\ UNCHANGED <<pairKept, pairRequest, area, within>>

(* Mutant: a transfer that keeps the register file locked while it copies.   *)
StartCopy_KeepLock(g) ==
  /\ pc[g] = "inSCU"
  /\ Goto(g, "copy")
  /\ UNCHANGED <<busLocks, pairKept, pairRequest, area, within>>

(* executeDMA and executeIndirectDMA drop the domain for the copy.           *)
StartCopy(g) ==
  /\ pc[g] = "inSCU"
  /\ Drop("SCU")
  /\ Goto(g, "copy")
  /\ UNCHANGED <<pairKept, pairRequest, area, within>>

CopyAccess(g) ==
  /\ pc[g] = "copy"
  /\ \E a \in IF g = "walker" THEN WalkerAreas ELSE CpuAreas : ClaimArea(g, a, "copy")

EndCopy(g) ==
  /\ pc[g] = "copy"
  /\ Goto(g, "claimSCU")
  /\ UNCHANGED <<busLocks, pairKept, pairRequest, area, within>>

(* The DSP is stepped inside the tick, with the domain held; so is its DMA.  *)
DspAccess ==
  /\ pc["secondary"] = "inSCU"
  /\ \E a \in DspAreas : ClaimArea("secondary", a, "dsp")

-----------------------------------------------------------------------------
(* Mutant: the request is answered by clearing it before the pair is marked kept.    *)
ServicePair_NotKept ==
  /\ pc["walker"] = "idle"
  /\ pairRequest
  /\ pairRequest' = FALSE
  /\ UNCHANGED <<busLocks, pairKept, pc, area, within>>

(* Between ticks the walker answers a request for the pair (servicePair).    *)
ServicePair ==
  /\ pc["walker"] = "idle"
  /\ pairRequest
  /\ pairKept' = TRUE
  /\ pairRequest' = FALSE
  /\ UNCHANGED <<busLocks, pc, area, within>>

(* What a goroutine that has begun an operation does next.                   *)
Proceed(g) ==
  \/ LockArea(g) \/ PairIsKept(g) \/ UnlockArea(g)
  \/ LockIRQ(g) \/ UnlockIRQ(g) \/ EndCopy(g)

Begin(g) ==
  \/ CpuAccess(g) \/ EnterSCU(g) \/ StartCopy(g) \/ CopyAccess(g)
  \/ g = "secondary" /\ DspAccess

Next == ServicePair \/ \E g \in Goroutines : Proceed(g) \/ Begin(g)

(* The scheduler runs every goroutine.  Which of two spinning goroutines     *)
(* takes a lock that comes free is decided by the race of their compare and  *)
(* swap; strong fairness says that neither loses it for ever.  A copy moves  *)
(* a finite count, a tick gives the DSP a finite budget and a line a finite  *)
(* number of raises to the walker: each is left after finitely many steps.   *)
Fairness ==
  /\ SF_vars(ServicePair)
  /\ \A g \in Goroutines :
       /\ WF_vars(PairIsKept(g) \/ UnlockArea(g))
       /\ SF_vars(LockArea(g) \/ LockIRQ(g))
       /\ SF_vars(UnlockIRQ(g))
       /\ SF_vars(EndCopy(g))

Spec == Init /\ [][Next]_vars
FairSpec == Spec /\ Fairness

-----------------------------------------------------------------------------
(* Properties                                                                *)

PCs == {"idle", "claimArea", "waitPair", "inArea", "claimSCU", "inSCU", "copy"}

TypeOK ==
  /\ busLocks \in [Domains -> Goroutines \cup {Free}]
  /\ pairKept \in BOOLEAN /\ pairRequest \in BOOLEAN
  /\ pc \in [Goroutines -> PCs]
  /\ area \in [Goroutines -> Domains \cup {"none"}]
  /\ within \in [Goroutines -> {"cpu", "copy", "dsp", "none"}]

Holds(g, d) == busLocks[d] = g

(* The lock g spins on.                                                      *)
Wants(g, d) ==
  \/ pc[g] = "claimSCU" /\ d = "SCU"
  \/ pc[g] = "claimArea" /\ d = area[g]

(* Who cannot go on without whom: for the holder of a lock it spins on, and  *)
(* as a reader of the frame buffer for the walker that is not back at its    *)
(* line wait.                                                                *)
LockWaits ==
  {e \in Goroutines \X Goroutines : \E d \in Domains : Wants(e[1], d) /\ Holds(e[2], d)}
ReaderWaits ==
  {e \in Goroutines \X Goroutines :
     pc[e[1]] = "waitPair" /\ ~pairKept /\ e[2] = "walker" /\ pc["walker"] # "idle"}
Waits == LockWaits \cup ReaderWaits

(* g waits for itself, at up to three removes, which is every circle that    *)
(* three goroutines can form.  Nobody in a circle ever moves again.          *)
InCircle(g, edges) ==
  \E h, k \in Goroutines :
    /\ <<g, h>> \in edges
    /\ h = g \/ (<<h, k>> \in edges /\ (k = g \/ <<k, g>> \in edges))

(* The DSP addresses the SCU's own registers, under whose lock it is         *)
(* stepped.                                                                  *)
DspOnItsOwnLock(g) ==
  g = "secondary" /\ within[g] = "dsp" /\ area[g] = "SCU"

(* A reader that the walker cannot come back to answer: it is the walker     *)
(* itself that reads, or the DMA it started needs the B-Bus the reader       *)
(* holds, or it wants to raise while the DSP keeps the SCU, and the DSP is   *)
(* the reader or wants the B-Bus in its turn.                                *)
ReaderCaught(g) ==
  /\ pc[g] = "waitPair" /\ ~pairKept
  /\ \/ g = "walker"
     \/ Wants("walker", "BBus")
     \/ /\ Wants("walker", "SCU") /\ within["secondary"] = "dsp"
        /\ g = "secondary" \/ Wants("secondary", "BBus")

(* The locks by themselves are always given back ("a bus access is far       *)
(* shorter than a goroutine park", bus.go), whatever software addresses, but *)
(* for the DSP on its own lock; and a frame buffer read is answered ("which  *)
(* it does at its line wait", waitPair in vdp1.go) unless it is caught.      *)
NoDeadlock ==
  \A g \in Goroutines :
    /\ InCircle(g, LockWaits) => DspOnItsOwnLock(g)
    /\ pc[g] = "waitPair" /\ InCircle(g, Waits) => ReaderCaught(g)

(* "The acquisition order is SCU -> bus areas and never the reverse"         *)
(* (bus.go): whoever spins on the register file holds no bus area, and no    *)
(* goroutine claims a second area from inside another.                       *)
AcquisitionOrder ==
  \A g \in Goroutines, d \in Domains, a \in Areas : Wants(g, d) => ~Holds(g, a)

(* While a transfer copies, the register file stays open to the other        *)
(* goroutines: only the DSP's own DMA keeps it (the domain comment of        *)
(* scu.go).                                                                  *)
CopyLeavesRegisters ==
  \A g \in Goroutines :
    Holds(g, "SCU") => pc[g] = "inSCU" \/ (within[g] = "dsp" /\ g = "secondary")

(* Every access, register access, raise and transfer that has begun ends,    *)
(* whatever the other goroutines do with the locks meanwhile, unless some    *)
(* are caught in a circle.                                                   *)
OperationsEnd ==
  \A g \in Goroutines :
    pc[g] # "idle" ~> pc[g] = "idle" \/ \E h \in Goroutines : InCircle(h, Waits)
=============================================================================
