------------------------------- MODULE SCUDma -------------------------------
(***************************************************************************)
(* The DMA levels of the SCU (src/core/scu.go) as three goroutines drive   *)
(* them: register writes of either CPU, start factors raised by all three, *)
(* the secondary's countdown tick.  Each is a critical section of the      *)
(* SCU's lock, except that a transfer drops the lock while it copies.      *)
(*                                                                         *)
(* A goroutine inside the SCU has a list of steps left to do.  It holds    *)
(* the lock unless the first of them is the write-back of a transfer, when *)
(* it is copying.  A level's data and addresses are left out: what matters *)
(* here is which transfers run, when they end and what the status shows.   *)
(***************************************************************************)
EXTENDS Integers, Sequences, FiniteSets

CONSTANTS
  Levels,    \* DMA levels, 0 .. 2 in the hardware
  Events,    \* [goroutine -> the sequences of start factors it raises at once]
  Modes,     \* the start factors software programs, 7 for an immediate start
  Cost,      \* ticks from the end of the copy to the end interrupt
  Waits      \* the levels whose software waits for the end interrupt of what
             \* it started before it programs them again

Goroutines == {"main", "secondary", "walker"}

ASSUME DmaAssumption ==
  /\ Levels \in {0 .. 0, 0 .. 1, 0 .. 2}
  /\ Modes \subseteq 0 .. 7
  /\ Cost \in Nat \ {0}
  /\ Waits \subseteq Levels
  /\ \A g \in Goroutines : \A fs \in Events[g] : fs \in Seq(0 .. 6) /\ fs # <<>>

Cpus == {"main", "secondary"}
Free == "free"

VARIABLES
  holder,     \* who holds areaSCU
  todo,       \* what each goroutine has left to do inside the SCU
  factor, en, \* D*MD's start factor and D*EN's two bits, of each level
  dmaPending, \* armed, waiting for its start factor
  dmaDelay,   \* ticks left to the end interrupt, -1 when there is none
  ended       \* the level whose end interrupt was raised by this step

vars == <<holder, todo, factor, en, dmaPending, dmaDelay, ended>>

NoLevel == -1

Init ==
  /\ holder = Free
  /\ todo = [g \in Goroutines |-> <<>>]
  /\ factor = [l \in Levels |-> 7]
  /\ en = [l \in Levels |-> {}]
  /\ dmaPending = [l \in Levels |-> FALSE]
  /\ dmaDelay = [l \in Levels |-> -1]
  /\ ended = NoLevel

-----------------------------------------------------------------------------
Step(op, l, arg) == [op |-> op, level |-> l, arg |-> arg]

(* checkDMATrigger for each factor in turn, over the levels in turn.         *)
Checks(factors) ==
  LET n == Cardinality(Levels)
  IN  [i \in 1 .. n * Len(factors) |->
         Step("check", (i - 1) % n, factors[(i - 1) \div n + 1])]

(* TickSystemCycles counts every level down, then may find Timer 1 expired.  *)
Ticks(timer1) ==
  [i \in 1 .. Cardinality(Levels) |-> Step("count", i - 1, 0)]
    \o (IF timer1 THEN Checks(<<4>>) ELSE <<>>)

(* A transfer that has dropped the lock.                                     *)
Copying(g, l) == todo[g] # <<>> /\ Head(todo[g]) = Step("writeBack", l, 0)
Operating(l) == dmaDelay[l] >= 0 \/ \E g \in Goroutines : Copying(g, l)

(* readDSTA: the level's in-operation bit.                                   *)
Moving(l) == dmaDelay[l] >= 0

-----------------------------------------------------------------------------
(* Entering the SCU                                                          *)

Enter(g, program) ==
  /\ todo[g] = <<>>
  /\ holder = Free
  /\ holder' = g
  /\ todo' = [todo EXCEPT ![g] = program]
  /\ ended' = NoLevel
  /\ UNCHANGED <<factor, en, dmaPending, dmaDelay>>

RaiseEvent(g) == \E factors \in Events[g] : Enter(g, Checks(factors))

Tick == \E timer1 \in BOOLEAN : Enter("secondary", Ticks(timer1))

MayProgram(l) == l \in Waits => ~Operating(l)

(* The address, count and increment registers.                               *)
WriteAddress(g, l) ==
  /\ MayProgram(l)
  /\ Enter(g, <<Step("drain", l, 0)>>)

WriteMode(g, l) ==
  /\ MayProgram(l)
  /\ \E f \in Modes : Enter(g, <<Step("drain", l, 0), Step("mode", l, f)>>)

WriteEnable(g, l) ==
  /\ MayProgram(l)
  /\ \E bits \in SUBSET {"enable", "go"} :
       Enter(g, <<Step("drain", l, 0), Step("enable", l, bits)>>)

-----------------------------------------------------------------------------
(* One step inside the SCU                                                   *)

(* Takes the first step off g's list; the last one releases the lock.        *)
Done(g) ==
  /\ todo' = [todo EXCEPT ![g] = Tail(@)]
  /\ holder' = IF Len(todo[g]) = 1 THEN Free ELSE g

(* executeDMA and executeIndirectDMA: the lock is dropped for the copy.      *)
StartCopy(g, l) ==
  /\ todo' = [todo EXCEPT ![g] = <<Step("writeBack", l, 0)>> \o Tail(@)]
  /\ holder' = Free

At(g, op) == holder = g /\ Head(todo[g]).op = op

(* checkDMATrigger at one level: a pending level that has been disabled is   *)
(* disarmed, one in operation stays armed, the others start on their factor. *)
Check(g) ==
  /\ At(g, "check")
  /\ LET l == Head(todo[g]).level
         f == Head(todo[g]).arg
         fires == dmaPending[l] /\ "enable" \in en[l] /\ factor[l] = f /\ dmaDelay[l] < 0
     IN  /\ dmaPending' = [dmaPending EXCEPT ![l] = @ /\ "enable" \in en[l] /\ ~fires]
         /\ IF fires THEN StartCopy(g, l) ELSE Done(g)
  /\ ended' = NoLevel
  /\ UNCHANGED <<factor, en, dmaDelay>>

(* Mutant: a level that ends forgets to clear its countdown.                 *)
Finish_NotCleared(g, l) ==
  /\ dmaDelay' = [dmaDelay EXCEPT ![l] = 0]
  /\ ended' = l
  /\ IF dmaPending[l] /\ "enable" \in en[l]
     THEN dmaPending' = [dmaPending EXCEPT ![l] = FALSE] /\ StartCopy(g, l)
     ELSE Done(g) /\ UNCHANGED dmaPending

(* finishDMA: the end interrupt, and the transfer a held trigger starts.     *)
Finish(g, l) ==
  /\ dmaDelay' = [dmaDelay EXCEPT ![l] = -1]
  /\ ended' = l
  /\ IF dmaPending[l] /\ "enable" \in en[l]
     THEN dmaPending' = [dmaPending EXCEPT ![l] = FALSE] /\ StartCopy(g, l)
     ELSE Done(g) /\ UNCHANGED dmaPending

(* The countdown of one level; the length of a tick is one.                  *)
Count(g) ==
  /\ At(g, "count")
  /\ LET l == Head(todo[g]).level
     IN  IF dmaDelay[l] \in {0, 1}
         THEN Finish(g, l)
         ELSE /\ dmaDelay' = [dmaDelay EXCEPT ![l] = IF @ < 0 THEN @ ELSE @ - 1]
              /\ Done(g)
              /\ ended' = NoLevel
              /\ UNCHANGED dmaPending
  /\ UNCHANGED <<factor, en>>

(* Mutant: a register write abandons the transfer in flight.                 *)
Drain_Abandons(g) ==
  /\ At(g, "drain")
  /\ dmaDelay' = [dmaDelay EXCEPT ![Head(todo[g]).level] = -1]
  /\ Done(g)
  /\ ended' = NoLevel
  /\ UNCHANGED <<factor, en, dmaPending>>

(* A register write first drains the level it goes to.                       *)
Drain(g) ==
  /\ At(g, "drain")
  /\ LET l == Head(todo[g]).level
     IN  IF dmaDelay[l] >= 0
         THEN Finish(g, l)
         ELSE Done(g) /\ ended' = NoLevel /\ UNCHANGED <<dmaDelay, dmaPending>>
  /\ UNCHANGED <<factor, en>>

SetMode(g) ==
  /\ At(g, "mode")
  /\ factor' = [factor EXCEPT ![Head(todo[g]).level] = Head(todo[g]).arg]
  /\ Done(g)
  /\ ended' = NoLevel
  /\ UNCHANGED <<en, dmaPending, dmaDelay>>

(* A write of D*EN starts an immediate transfer by its go bit and arms the   *)
(* others by their enable bit (triggerDMA).                                  *)
SetEnable(g) ==
  /\ At(g, "enable")
  /\ LET l == Head(todo[g]).level
         bits == Head(todo[g]).arg
     IN  /\ en' = [en EXCEPT ![l] = bits]
         /\ \/ /\ factor[l] = 7 /\ "go" \in bits
               /\ StartCopy(g, l)
               /\ UNCHANGED dmaPending
            \/ /\ factor[l] # 7 /\ "enable" \in bits
               /\ dmaPending' = [dmaPending EXCEPT ![l] = TRUE]
               /\ Done(g)
            \/ /\ IF factor[l] = 7 THEN "go" \notin bits ELSE "enable" \notin bits
               /\ Done(g)
               /\ UNCHANGED dmaPending
  /\ ended' = NoLevel
  /\ UNCHANGED <<factor, dmaDelay>>

(* The copy is over: the lock is taken again and the countdown set.          *)
WriteBack(g) ==
  /\ todo[g] # <<>> /\ Head(todo[g]).op = "writeBack"
  /\ holder = Free
  /\ dmaDelay' = [dmaDelay EXCEPT ![Head(todo[g]).level] = Cost]
  /\ Done(g)
  /\ ended' = NoLevel
  /\ UNCHANGED <<factor, en, dmaPending>>

(* A clock change resets the levels between frames, with nobody inside.      *)
Reset ==
  /\ \A g \in Goroutines : todo[g] = <<>>
  /\ en' = [l \in Levels |-> {}]
  /\ factor' = [l \in Levels |-> 7]
  /\ dmaPending' = [l \in Levels |-> FALSE]
  /\ dmaDelay' = [l \in Levels |-> -1]
  /\ ended' = NoLevel
  /\ UNCHANGED <<holder, todo>>

Proceed(g) ==
  Check(g) \/ Count(g) \/ Drain(g) \/ SetMode(g) \/ SetEnable(g) \/ WriteBack(g)

Next ==
  \/ \E g \in Goroutines : RaiseEvent(g) \/ Proceed(g)
  \/ Tick
  \/ \E g \in Cpus, l \in Levels : WriteAddress(g, l) \/ WriteMode(g, l) \/ WriteEnable(g, l)
  \/ Reset

Spec == Init /\ [][Next]_vars

-----------------------------------------------------------------------------
(* Properties *)

TypeOK ==
  /\ holder \in Goroutines \cup {Free}
  /\ \A g \in Goroutines : \A i \in 1 .. Len(todo[g]) : todo[g][i].level \in Levels
  /\ factor \in [Levels -> 0 .. 7]
  /\ en \in [Levels -> SUBSET {"enable", "go"}]
  /\ dmaPending \in [Levels -> BOOLEAN]
  /\ dmaDelay \in [Levels -> -1 .. Cost]
  /\ ended \in Levels \cup {NoLevel}

(* Where software waits for its transfers, a level has one at a time, though *)
(* any goroutine's event may start one, and the copy leaves the SCU open.    *)
OneTransfer ==
  \A l \in Waits :
    /\ Moving(l) => \A g \in Goroutines : ~Copying(g, l)
    /\ \A g, h \in Goroutines : Copying(g, l) /\ Copying(h, l) => g = h

(* A countdown closes with its level's one end interrupt, and no other step  *)
(* takes it away but a reset with nobody inside, however software programs.  *)
EndPerCountdown ==
  [][\A l \in Levels :
       /\ ended' = l => Moving(l) /\ dmaDelay'[l] < 0
       /\ Moving(l) /\ dmaDelay'[l] < 0
            => ended' = l \/ \A g \in Goroutines : todo[g] = <<>>]_vars
=============================================================================
