---------------------------- MODULE SCUInterrupts ----------------------------
(***************************************************************************)
(* The interrupt output of the SCU (src/core/scu.go) and the master SH-2's *)
(* acceptance of it (src/core/sh2/interrupt.go).                           *)
(*                                                                         *)
(* Sources are raised by every goroutine, and either CPU may write the     *)
(* mask and status registers; each of those is one critical section of the *)
(* SCU's lock, so one step.  The master samples the request line without   *)
(* the lock and acknowledges later, with it: two steps, and anything may   *)
(* happen in between.                                                      *)
(*                                                                         *)
(* A source is its bit in the status register.  Its vector is its name and *)
(* is left out: vecToBit takes it back to the bit.                         *)
(*                                                                         *)
(* SCU_proofs extends this module and SCUDma, two parts of the same chip,  *)
(* so the specification's own names are its alone (OutputInit, ...).       *)
(***************************************************************************)
EXTENDS Integers, FiniteSets

CONSTANTS
  Bits,        \* the sources in use
  IMasks       \* the interrupt mask levels the master's software sets

(* bitToLevelVec: the level of each source, internal then external. *)
Level(b) ==
  IF b < 16
  THEN <<15, 14, 13, 12, 11, 10, 9, 8, 8, 6, 6, 5, 3, 2, 0, 0>>[b + 1]
  ELSE <<7, 4, 1, 1>>[(b - 16) \div 4 + 1]

AllBits == (0 .. 13) \cup (16 .. 31)
Maskable == {b \in Bits : b < 16}
None == -1

ASSUME BitsAssumption ==
  /\ Bits \subseteq AllBits
  /\ IMasks \subseteq 0 .. 15

VARIABLES
  ims,         \* the masked sources
  ist,         \* the status register
  reqPending,  \* requests committed to delivery
  pendingBit,  \* the source asserted on the line, as the SCU remembers it
  irlWithheld, \* nothing is asserted between an acknowledge and a mask write
  irl,         \* the line, as the master reads it
  sampled,     \* the line's value the master is about to accept
  imask        \* the interrupt mask level of the master

outputVars == <<ims, ist, reqPending, pendingBit, irlWithheld, irl, sampled, imask>>

OutputInit ==
  /\ ims = Maskable
  /\ ist = {} /\ reqPending = {}
  /\ pendingBit = None /\ irlWithheld = FALSE /\ irl = None
  /\ sampled = None /\ imask = 15

(* Mutant: an interrupt already asserted gives way to a higher one.          *)
CheckInterrupts_Preempt(status, requests, mask, held, withheld) ==
  LET pending == (status \cup requests) \ mask
  IN  IF withheld \/ pending = {}
      THEN /\ reqPending' = requests
           /\ UNCHANGED <<pendingBit, irl>>
      ELSE \E b \in pending :
             /\ \A c \in pending : Level(c) < Level(b) \/ (Level(c) = Level(b) /\ b <= c)
             /\ pendingBit' = b /\ irl' = b
             /\ reqPending' = requests \ {b}

(* Drives the line from the given register values: the highest unmasked      *)
(* pending source, the lowest bit of a tie, unless one is asserted or the    *)
(* line is withheld.                                                         *)
CheckInterrupts(status, requests, mask, held, withheld) ==
  LET pending == (status \cup requests) \ mask
  IN  IF withheld \/ held # None \/ pending = {}
      THEN /\ reqPending' = requests
           /\ irl' = IF withheld \/ held # None THEN irl ELSE None
           /\ pendingBit' = held
      ELSE \E b \in pending :
             /\ \A c \in pending : Level(c) < Level(b) \/ (Level(c) = Level(b) /\ b <= c)
             /\ pendingBit' = b /\ irl' = b
             /\ reqPending' = requests \ {b}

(* raiseInterrupt: an unmasked source joins the committed requests.          *)
Raise(b) ==
  /\ ist' = ist \cup {b}
  /\ CheckInterrupts(ist \cup {b}, IF b \in ims THEN reqPending ELSE reqPending \cup {b},
                     ims, pendingBit, irlWithheld)
  /\ UNCHANGED <<ims, irlWithheld, sampled, imask>>

(* Mutant: the new mask is stored but the line is not driven again.          *)
WriteIMS_NoCheck(mask) ==
  /\ ims' = mask
  /\ irlWithheld' = FALSE
  /\ UNCHANGED <<ist, reqPending, pendingBit, irl, sampled, imask>>

(* A write of the mask register by either CPU ends the withholding.          *)
WriteIMS(mask) ==
  /\ ims' = mask
  /\ irlWithheld' = FALSE
  /\ CheckInterrupts(ist, reqPending, mask, pendingBit, FALSE)
  /\ UNCHANGED <<ist, sampled, imask>>

(* Mutant: clearing the status also cancels the requests.                    *)
WriteIST_CancelRequests(kept) ==
  /\ ist' = ist \cap kept
  /\ CheckInterrupts(ist \cap kept, reqPending \cap kept, ims, pendingBit, irlWithheld)
  /\ UNCHANGED <<ims, irlWithheld, sampled, imask>>

(* A write of the status register clears the bits written as zero.           *)
WriteIST(kept) ==
  /\ ist' = ist \cap kept
  /\ CheckInterrupts(ist \cap kept, reqPending, ims, pendingBit, irlWithheld)
  /\ UNCHANGED <<ims, irlWithheld, sampled, imask>>

(* processInterrupt reads level and vector of the line at once.              *)
Sample ==
  /\ sampled = None
  /\ irl # None
  /\ Level(irl) > imask
  /\ sampled' = irl
  /\ UNCHANGED <<ims, ist, reqPending, pendingBit, irlWithheld, irl, imask>>

(* acceptInterrupt raises the master's mask level to the interrupt's and     *)
(* acknowledges by the sampled vector (AcknowledgeInterrupt).                *)
Acknowledge ==
  /\ sampled # None
  /\ ist' = ist \ {sampled}
  /\ reqPending' = reqPending \ {sampled}
  /\ pendingBit' = None /\ irl' = None
  /\ irlWithheld' = TRUE
  /\ imask' = Level(sampled)
  /\ sampled' = None
  /\ UNCHANGED ims

(* The master's software sets its mask level, or restores it with RTE.       *)
SetIMask ==
  /\ sampled = None
  /\ imask' \in IMasks
  /\ UNCHANGED <<ims, ist, reqPending, pendingBit, irlWithheld, irl, sampled>>

(* A clock change resets the SCU between frames, on the master's goroutine.  *)
OutputReset ==
  /\ sampled = None
  /\ ims' = Maskable
  /\ ist' = {} /\ reqPending' = {}
  /\ pendingBit' = None /\ irlWithheld' = FALSE /\ irl' = None
  /\ UNCHANGED <<sampled, imask>>

OutputNext ==
  \/ \E b \in Bits : Raise(b)
  \/ \E mask \in SUBSET Maskable : WriteIMS(mask)
  \/ \E kept \in SUBSET Bits : WriteIST(kept)
  \/ Sample \/ Acknowledge \/ SetIMask \/ OutputReset

OutputSpec == OutputInit /\ [][OutputNext]_outputVars

-----------------------------------------------------------------------------
(* Properties *)

OutputTypeOK ==
  /\ ims \subseteq Maskable
  /\ ist \subseteq Bits /\ reqPending \subseteq Bits
  /\ pendingBit \in Bits \cup {None} /\ irl \in Bits \cup {None}
  /\ irlWithheld \in BOOLEAN
  /\ sampled \in Bits \cup {None}
  /\ imask \in 0 .. 15

(* What the master is about to acknowledge is still what the SCU asserts:    *)
(* the acknowledge clears the source that was accepted, whatever was raised, *)
(* masked or cleared since the line was sampled.                             *)
AckMatches == sampled # None => sampled = irl /\ sampled = pendingBit

(* The master sees the line as the SCU remembers driving it.                 *)
LineMatches == irl = pendingBit

(* Nothing is asserted from an acknowledge to the next mask write, the       *)
(* behaviour the X-MEN comment of scu.go asks for.                           *)
Withheld == irlWithheld => irl = None

(* No request is left behind: while the line is free and not withheld there  *)
(* is no source pending that the mask lets through.                          *)
NothingLeftWaiting ==
  ~irlWithheld /\ irl = None => (ist \cup reqPending) \subseteq ims

(* An assertion holds its source until the master acknowledges it or the SCU *)
(* is reset.                                                                 *)
AssertionHolds ==
  [][irl # None /\ irl' # irl => irl' = None /\ irl \notin reqPending' /\ irl \notin ist']_outputVars

(* A committed request leaves only by being asserted or acknowledged, or by  *)
(* a reset: no mask or status write cancels it (the reqPending comment).     *)
Committed ==
  [][\A b \in reqPending :
       b \in reqPending' \/ irl' = b \/ sampled = b \/ (ims' = Maskable /\ irl' = None)]_outputVars
=============================================================================
