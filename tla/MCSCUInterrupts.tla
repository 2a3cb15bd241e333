--------------------------- MODULE MCSCUInterrupts ---------------------------
(* The interrupt output under software that serves its interrupts: whatever *)
(* it writes, it comes back to an open mask register and to mask level 0.   *)
(* Sources are raised a bounded number of times, or one could starve those  *)
(* below it for ever, and the clock is changed at most once.                *)
EXTENDS SCUInterrupts

CONSTANT MaxRaises \* bound on the number of raises

VARIABLES raises, wasReset

served == <<raises, wasReset>>

ServedInit == OutputInit /\ raises = 0 /\ wasReset = FALSE

ServedNext ==
  \/ /\ raises < MaxRaises
     /\ \E b \in Bits : Raise(b)
     /\ raises' = raises + 1 /\ UNCHANGED wasReset
  \/ ~wasReset /\ OutputReset /\ wasReset' = TRUE /\ UNCHANGED raises
  \/ /\ \/ \E mask \in SUBSET Maskable : WriteIMS(mask)
        \/ \E kept \in SUBSET Bits : WriteIST(kept)
        \/ Sample \/ Acknowledge \/ SetIMask
     /\ UNCHANGED served

ServedSpec ==
  /\ ServedInit /\ [][ServedNext]_<<outputVars, served>>
  /\ SF_<<outputVars, served>>(Sample /\ UNCHANGED served)
  /\ WF_<<outputVars, served>>(Acknowledge /\ UNCHANGED served)
  /\ SF_<<outputVars, served>>(WriteIMS({}) /\ UNCHANGED served)
  /\ SF_<<outputVars, served>>(SetIMask /\ imask' = 0 /\ UNCHANGED served)

(* A committed request is accepted by the master in the end unless the clock *)
(* is changed (the comment of reqPending in scu.go: it "stays committed to   *)
(* delivery").                                                               *)
Delivered ==
  \A b \in Bits : b \in reqPending /\ ~wasReset ~> sampled = b \/ wasReset
=============================================================================
