--------------------------- MODULE BusLocks_proofs ---------------------------
(***************************************************************************)
(* What the bus locks guarantee for every choice of areas.  The inductive  *)
(* invariant says which locks a goroutine holds at each place of its       *)
(* program.  The places can then be ranked so that a goroutine only ever   *)
(* waits for a lock whose holder has a lower rank; what circles remain go  *)
(* through a frame buffer reader, and are followed edge by edge.           *)
(***************************************************************************)
EXTENDS BusLocks, Integers, TLAPS

(* What an access of g may touch, by what it is part of. *)
AccessInv ==
  \A g \in Goroutines :
    /\ within[g] = "none" <=> pc[g] \notin {"claimArea", "waitPair", "inArea"}
    /\ within[g] = "cpu" => g # "walker" /\ area[g] \in CpuAreas
    /\ within[g] = "copy" => area[g] \in IF g = "walker" THEN WalkerAreas ELSE CpuAreas
    /\ within[g] = "dsp" => g = "secondary" /\ area[g] \in DspAreas
    /\ pc[g] = "waitPair" => area[g] = "BBus"

InSCU(g) == pc[g] = "inSCU" \/ within[g] = "dsp"
InArea(g, d) == pc[g] \in {"waitPair", "inArea"} /\ area[g] = d

(* Exactly who holds each lock.  The DSP gets no further than claiming the   *)
(* SCU's own.                                                                *)
HoldsInv ==
  \A g \in Goroutines :
    /\ \A d \in Domains : Holds(g, d) <=> (d = "SCU" /\ InSCU(g)) \/ InArea(g, d)
    /\ ~InArea(g, "SCU")

IInv == TypeOK /\ AccessInv /\ HoldsInv

-----------------------------------------------------------------------------
LEMMA InitInv == Init => IInv
<1> SUFFICES ASSUME Init PROVE IInv
  OBVIOUS
<1> USE AreasAssumption DEF Init
<1>1. TypeOK
  BY DEF TypeOK, PCs
<1>2. AccessInv
  BY DEF AccessInv
<1>3. HoldsInv
  BY DEF HoldsInv, Holds, InSCU, InArea, Goroutines, Free
<1> QED
  BY <1>1, <1>2, <1>3 DEF IInv

(* One lemma per conjunct, one case per action. *)
LEMMA TypeStep == IInv /\ [Next]_vars => TypeOK'
<1> SUFFICES ASSUME IInv, [Next]_vars PROVE TypeOK'
  OBVIOUS
<1> USE AreasAssumption DEF IInv, TypeOK, PCs, Goroutines, Domains, Areas, Free
<1>1. CASE UNCHANGED vars
  BY <1>1 DEF vars
<1>2. CASE ServicePair
  BY <1>2 DEF ServicePair
<1>3. ASSUME NEW g \in Goroutines, CpuAccess(g) PROVE TypeOK'
  BY <1>3 DEF CpuAccess, ClaimArea, Goto
<1>4. ASSUME NEW g \in Goroutines, LockArea(g) PROVE TypeOK'
  <2> USE <1>4 DEF LockArea
  <2>1. busLocks' \in [Domains -> Goroutines \cup {Free}]
    BY DEF Take
  <2>2. PICK p \in {"inArea", "waitPair"} : Goto(g, p)
    OBVIOUS
  <2>3. pc' \in [Goroutines -> PCs]
    BY <2>2 DEF Goto
  <2>4. pairRequest' \in BOOLEAN
    OBVIOUS
  <2> QED
    BY <2>1, <2>3, <2>4
<1>5. ASSUME NEW g \in Goroutines, PairIsKept(g) PROVE TypeOK'
  BY <1>5 DEF PairIsKept, Goto
<1>6. ASSUME NEW g \in Goroutines, UnlockArea(g) PROVE TypeOK'
  BY <1>6 DEF UnlockArea, AfterAccess, Drop, Goto, Leave
<1>7. ASSUME NEW g \in Goroutines, EnterSCU(g) \/ EndCopy(g) PROVE TypeOK'
  BY <1>7 DEF EnterSCU, EndCopy, Goto
<1>8. ASSUME NEW g \in Goroutines, LockIRQ(g) PROVE TypeOK'
  BY <1>8 DEF LockIRQ, Take, Goto
<1>9. ASSUME NEW g \in Goroutines, UnlockIRQ(g) \/ StartCopy(g) PROVE TypeOK'
  BY <1>9 DEF UnlockIRQ, StartCopy, Drop, Goto
<1>10. ASSUME NEW g \in Goroutines, CopyAccess(g) PROVE TypeOK'
  BY <1>10 DEF CopyAccess, ClaimArea, Goto
<1>11. CASE DspAccess
  BY <1>11 DEF DspAccess, ClaimArea, Goto
<1> QED
  BY <1>1, <1>2, <1>3, <1>4, <1>5, <1>6, <1>7, <1>8, <1>9, <1>10, <1>11
  DEF Next, Proceed, Begin

LEMMA AccessStep == IInv /\ [Next]_vars => AccessInv'
<1> SUFFICES ASSUME IInv, [Next]_vars PROVE AccessInv'
  OBVIOUS
<1> USE AreasAssumption DEF IInv, TypeOK, AccessInv, PCs, Goroutines
<1>1. CASE UNCHANGED vars
  BY <1>1 DEF vars
<1>2. CASE ServicePair
  BY <1>2 DEF ServicePair
<1>3. ASSUME NEW g \in Goroutines, CpuAccess(g) PROVE AccessInv'
  BY <1>3 DEF CpuAccess, ClaimArea, Goto
<1>4. ASSUME NEW g \in Goroutines, LockArea(g) PROVE AccessInv'
  BY <1>4 DEF LockArea, Goto
<1>5. ASSUME NEW g \in Goroutines, PairIsKept(g) PROVE AccessInv'
  BY <1>5 DEF PairIsKept, Goto
<1>6. ASSUME NEW g \in Goroutines, UnlockArea(g) PROVE AccessInv'
  BY <1>6 DEF UnlockArea, AfterAccess, Goto, Leave
<1>7. ASSUME NEW g \in Goroutines, EnterSCU(g) \/ EndCopy(g) PROVE AccessInv'
  BY <1>7 DEF EnterSCU, EndCopy, Goto
<1>8. ASSUME NEW g \in Goroutines, LockIRQ(g) PROVE AccessInv'
  BY <1>8 DEF LockIRQ, Goto
<1>9. ASSUME NEW g \in Goroutines, UnlockIRQ(g) \/ StartCopy(g) PROVE AccessInv'
  BY <1>9 DEF UnlockIRQ, StartCopy, Goto
<1>10. ASSUME NEW g \in Goroutines, CopyAccess(g) PROVE AccessInv'
  BY <1>10 DEF CopyAccess, ClaimArea, Goto
<1>11. CASE DspAccess
  BY <1>11 DEF DspAccess, ClaimArea, Goto
<1> QED
  BY <1>1, <1>2, <1>3, <1>4, <1>5, <1>6, <1>7, <1>8, <1>9, <1>10, <1>11
  DEF Next, Proceed, Begin

(* Only the DSP can name the SCU's domain as an area, and it is inside that  *)
(* domain already: a goroutine inside it stays its holder.                   *)
LEMMA HoldsStep == IInv /\ [Next]_vars => HoldsInv'
<1> SUFFICES ASSUME IInv, [Next]_vars PROVE HoldsInv'
  OBVIOUS
<1> USE AreasAssumption
    DEF IInv, TypeOK, AccessInv, HoldsInv, Holds, InSCU, InArea, PCs, Goroutines, Domains,
        Areas, Free
<1>1. CASE UNCHANGED vars
  BY <1>1 DEF vars
<1>2. CASE ServicePair
  BY <1>2 DEF ServicePair
<1>3. ASSUME NEW g \in Goroutines, CpuAccess(g) PROVE HoldsInv'
  BY <1>3 DEF CpuAccess, ClaimArea, Goto
<1>4. ASSUME NEW g \in Goroutines, LockArea(g) PROVE HoldsInv'
  BY <1>4 DEF LockArea, Take, Goto
<1>5. ASSUME NEW g \in Goroutines, PairIsKept(g) PROVE HoldsInv'
  BY <1>5 DEF PairIsKept, Goto
<1>6. ASSUME NEW g \in Goroutines, UnlockArea(g) PROVE HoldsInv'
  BY <1>6 DEF UnlockArea, AfterAccess, Drop, Goto, Leave
<1>7. ASSUME NEW g \in Goroutines, EnterSCU(g) \/ EndCopy(g) PROVE HoldsInv'
  BY <1>7 DEF EnterSCU, EndCopy, Goto
<1>8. ASSUME NEW g \in Goroutines, LockIRQ(g) PROVE HoldsInv'
  BY <1>8 DEF LockIRQ, Take, Goto
<1>9. ASSUME NEW g \in Goroutines, UnlockIRQ(g) \/ StartCopy(g) PROVE HoldsInv'
  BY <1>9 DEF UnlockIRQ, StartCopy, Drop, Goto
<1>10. ASSUME NEW g \in Goroutines, CopyAccess(g) PROVE HoldsInv'
  BY <1>10 DEF CopyAccess, ClaimArea, Goto
<1>11. CASE DspAccess
  BY <1>11 DEF DspAccess, ClaimArea, Goto
<1> QED
  BY <1>1, <1>2, <1>3, <1>4, <1>5, <1>6, <1>7, <1>8, <1>9, <1>10, <1>11
  DEF Next, Proceed, Begin

(* The locks are held exactly where the program holds them, whatever areas   *)
(* software names.                                                           *)
THEOREM Inductive == Spec => []IInv
<1>1. Init => IInv
  BY InitInv
<1>2. IInv /\ [Next]_vars => IInv'
  BY TypeStep, AccessStep, HoldsStep DEF IInv
<1> QED
  BY <1>1, <1>2, PTL DEF Spec

-----------------------------------------------------------------------------
(* The SCU's lock is taken with no area held, and areas are taken one at a   *)
(* time: the order bus.go states.                                            *)
THEOREM Ordered == Spec => []AcquisitionOrder
<1>1. IInv => AcquisitionOrder
  BY AreasAssumption
  DEF IInv, TypeOK, AccessInv, HoldsInv, InSCU, InArea, AcquisitionOrder, Wants, PCs,
      Goroutines, Domains, Areas
<1> QED
  BY <1>1, Inductive, PTL

(* A transfer of the SCU leaves its register file free while it copies.      *)
THEOREM RegistersOpen == Spec => []CopyLeavesRegisters
<1>1. IInv => CopyLeavesRegisters
  BY AreasAssumption
  DEF IInv, TypeOK, AccessInv, HoldsInv, InSCU, InArea, CopyLeavesRegisters, PCs,
      Goroutines, Domains, Areas
<1> QED
  BY <1>1, Inductive, PTL

-----------------------------------------------------------------------------
(* Absence of deadlock *)

(* How far a goroutine is from being able to go on by itself, as far as the  *)
(* locks decide.                                                             *)
Rank(g) ==
  CASE pc[g] = "claimSCU" -> 2
    [] pc[g] = "claimArea" -> 1
    [] OTHER -> 0

LEMMA RankNat ==
  ASSUME NEW g
  PROVE  Rank(g) \in 0 .. 2
  BY DEF Rank

(* A lock is waited for by a goroutine of a higher rank than its holder's:   *)
(* inside the SCU's domain the DSP only ever waits for an area, and inside   *)
(* an area nobody waits for a lock.                                          *)
LEMMA LockWaitsDown ==
  ASSUME IInv, NEW g \in Goroutines, NEW h \in Goroutines, <<g, h>> \in LockWaits
  PROVE  Rank(h) < Rank(g) \/ (h = g /\ DspOnItsOwnLock(g))
<1> USE AreasAssumption DEF IInv, TypeOK, AccessInv, PCs
<1>1. PICK d \in Domains : Wants(g, d) /\ Holds(h, d)
  BY DEF LockWaits
<1>2. (d = "SCU" /\ InSCU(h)) \/ InArea(h, d)
  BY <1>1 DEF HoldsInv
<1>3. CASE pc[g] = "claimSCU" /\ d = "SCU"
  <2>1. InSCU(h)
    BY <1>2, <1>3 DEF HoldsInv
  <2>2. pc[h] \in {"inSCU", "claimArea", "waitPair", "inArea"}
    BY <2>1 DEF InSCU
  <2> QED
    BY <1>3, <2>2 DEF Rank
<1>4. CASE pc[g] = "claimArea" /\ d = area[g] /\ d # "SCU"
  <2>1. pc[h] \in {"waitPair", "inArea"}
    BY <1>2, <1>4 DEF InArea
  <2> QED
    BY <1>4, <2>1 DEF Rank
<1>5. CASE pc[g] = "claimArea" /\ d = area[g] /\ d = "SCU"
  <2>1. g = "secondary" /\ within[g] = "dsp"
    BY <1>5 DEF Areas
  <2>2. Holds(g, d)
    BY <1>5, <2>1 DEF HoldsInv, InSCU
  <2>3. h = g
    BY <1>1, <2>2 DEF Holds
  <2> QED
    BY <1>5, <2>1, <2>3 DEF DspOnItsOwnLock
<1> QED
  BY <1>1, <1>3, <1>4, <1>5 DEF Wants

(* No circle of locks: ranks fall along it.                                  *)
LEMMA LocksGivenBack ==
  ASSUME IInv, NEW g \in Goroutines, InCircle(g, LockWaits)
  PROVE  DspOnItsOwnLock(g)
<1>1. PICK h \in Goroutines, k \in Goroutines :
        /\ <<g, h>> \in LockWaits
        /\ h = g \/ (<<h, k>> \in LockWaits /\ (k = g \/ <<k, g>> \in LockWaits))
  BY DEF InCircle
<1>2. Rank(g) \in 0 .. 2 /\ Rank(h) \in 0 .. 2 /\ Rank(k) \in 0 .. 2
  BY RankNat
<1>3. Rank(h) < Rank(g) \/ DspOnItsOwnLock(g)
  BY <1>1, LockWaitsDown
<1>4. <<h, k>> \in LockWaits => Rank(k) < Rank(h) \/ k = h
  BY LockWaitsDown
<1>5. <<k, g>> \in LockWaits => Rank(g) < Rank(k) \/ g = k
  BY LockWaitsDown
<1> QED
  BY <1>1, <1>2, <1>3, <1>4, <1>5

(* The ways in which the walker can be behind a reader.                      *)
LEMMA CircleOfReader ==
  ASSUME IInv, NEW g \in Goroutines, pc[g] = "waitPair", InCircle(g, Waits)
  PROVE  ReaderCaught(g)
<1> USE AreasAssumption DEF IInv, TypeOK, AccessInv, PCs
<1>1. PICK h \in Goroutines, k \in Goroutines :
        /\ <<g, h>> \in Waits
        /\ h = g \/ (<<h, k>> \in Waits /\ (k = g \/ <<k, g>> \in Waits))
  BY DEF InCircle
<1>2. h = "walker" /\ ~pairKept
  BY <1>1 DEF Waits, LockWaits, ReaderWaits, Wants
<1>3. Holds(g, "BBus")
  BY DEF HoldsInv, InArea, Domains, Areas
<1>4. CASE g = "walker"
  BY <1>2, <1>4 DEF ReaderCaught
<1>5. CASE g # "walker"
  <2>1. pc["walker"] # "waitPair"
    BY <1>3, <1>5 DEF HoldsInv, InArea, Holds, Domains, Areas, Goroutines
  <2>2. <<"walker", k>> \in LockWaits /\ (k = g \/ <<k, g>> \in Waits)
    BY <1>1, <1>2, <1>5, <2>1 DEF Waits, ReaderWaits
  <2>3. PICK d \in Domains : Wants("walker", d) /\ Holds(k, d)
    BY <2>2 DEF LockWaits
  <2>4. CASE k = g
    <3>1. d = "BBus" \/ (d = "SCU" /\ InSCU(g))
      BY <2>3, <2>4 DEF HoldsInv, InArea
    <3>2. InSCU(g) => g = "secondary" /\ within["secondary"] = "dsp"
      BY DEF InSCU
    <3> QED
      BY <1>2, <2>3, <3>1, <3>2 DEF ReaderCaught
  <2>5. CASE k # g
    <3>1. <<k, g>> \in LockWaits
      BY <1>5, <2>2, <2>5 DEF Waits, ReaderWaits
    <3>2. PICK e \in Domains : Wants(k, e) /\ Holds(g, e)
      BY <3>1 DEF LockWaits
    <3>3. d = "SCU" /\ InSCU(k)
      BY <2>3, <3>2 DEF HoldsInv, InArea, Wants
    <3>4. k = "secondary" /\ within[k] = "dsp"
      BY <3>2, <3>3 DEF InSCU, Wants
    <3>5. e = "BBus"
      BY <2>5, <3>2, <3>4 DEF HoldsInv, InArea, InSCU
    <3> QED
      BY <1>2, <2>3, <3>2, <3>3, <3>4, <3>5 DEF ReaderCaught
  <2> QED
    BY <2>4, <2>5
<1> QED
  BY <1>4, <1>5

(* Whatever areas software names: no goroutine of the three waits for itself *)
(* by the locks alone, directly or through others, but for a DSP that        *)
(* addresses the SCU; and a frame buffer reader waits for itself only in the *)
(* ways that ReaderCaught lists.                                             *)
THEOREM DeadlockFree == Spec => []NoDeadlock
<1>1. IInv => NoDeadlock
  BY LocksGivenBack, CircleOfReader DEF NoDeadlock
<1> QED
  BY <1>1, Inductive, PTL
=============================================================================
