----------------------------- MODULE SMPC_proofs -----------------------------
(* Proofs about the system manager, for every set of commands, every delay, *)
(* frame length and queue bound.                                            *)
EXTENDS SMPC, SequenceTheorems, TLAPS

(* Where a scanline starts or the frame has ended, a sound CPU that is       *)
(* switched off is held: what makes SNDOFF stick until the next SNDON.       *)
OffIsHeld ==
  place \in {"scanline", "frameEnd", "boundary"} => soundEnabled \/ inReset

(* The inductive invariant behind the sound switch.                          *)
SoundInv == OffIsHeld /\ SoundAtBoundary

(* What runs between two scanlines leaves the sound switch alone.            *)
LEMMA CpuKeepsSwitches == ASSUME Cpu PROVE UNCHANGED <<switches, walk>>
BY DEF Cpu, Prepare, WriteSF, WriteCOMREG, Poll, WriteIREG0, switches, walk

(* Every step keeps the invariant of the sound switch.                       *)
LEMMA SoundStep == ASSUME SoundInv, [Next]_vars PROVE SoundInv'
<1> USE DEF SoundInv, OffIsHeld, SoundAtBoundary
<1>1. CASE Cpu BY <1>1, CpuKeepsSwitches DEF switches, walk
<1>2. CASE ServiceContinue BY <1>2 DEF ServiceContinue, switches
<1>3. CASE NothingQueued BY <1>3 DEF NothingQueued, switches
<1>4. CASE CountDown BY <1>4 DEF CountDown, switches
<1>5. CASE Dispatch BY <1>5 DEF Dispatch
<1>6. CASE Raise BY <1>6 DEF Raise, switches
<1>7. CASE Chunk BY <1>7 DEF Chunk
<1>8. CASE FrameEnd BY <1>8 DEF FrameEnd
<1>9. CASE Boundary BY <1>9 DEF Boundary
<1>10. CASE UNCHANGED vars BY <1>10 DEF vars, switches, walk
<1> QED
  BY <1>1, <1>2, <1>3, <1>4, <1>5, <1>6, <1>7, <1>8, <1>9, <1>10 DEF Next, Walk

(* Between frames the sound CPU is in reset exactly if it is switched off    *)
(* (the chunk's and RunFrame's SetInReset).                                  *)
THEOREM SoundSettled == Spec => []SoundInv
<1>1. Init => SoundInv BY DEF Init, SoundInv, OffIsHeld, SoundAtBoundary
<1> QED BY <1>1, SoundStep, PTL DEF Spec

THEOREM SoundIsSettled == Spec => []SoundAtBoundary
BY SoundSettled, PTL DEF SoundInv

(* A step that switches the sound on finds the sound CPU in reset: only      *)
(* Dispatch does, at a scanline's start.                                     *)
LEMMA OffSeenStep ==
  ASSUME SoundInv, [Next]_vars PROVE ~soundEnabled /\ soundEnabled' => inReset
<1>1. CASE Dispatch BY <1>1 DEF Dispatch, SoundInv, OffIsHeld
<1>2. CASE Cpu BY <1>2, CpuKeepsSwitches DEF switches
<1>3. CASE ServiceContinue BY <1>3 DEF ServiceContinue, switches
<1>4. CASE NothingQueued \/ CountDown \/ Raise
  BY <1>4 DEF NothingQueued, CountDown, Raise, switches
<1>5. CASE Chunk \/ FrameEnd \/ Boundary BY <1>5 DEF Chunk, FrameEnd, Boundary
<1>6. CASE UNCHANGED vars BY <1>6 DEF vars, switches
<1> QED BY <1>1, <1>2, <1>3, <1>4, <1>5, <1>6 DEF Next, Walk

(* Sound that is switched off and on again passes through its reset.         *)
THEOREM SoundOffSeen == Spec => OffIsSeen
<1>1. SoundInv /\ [Next]_vars => [~soundEnabled /\ soundEnabled' => inReset]_vars
  BY OffSeenStep
<1> QED BY <1>1, SoundSettled, PTL DEF Spec, OffIsSeen
-----------------------------------------------------------------------------
(* The queue                                                                 *)

Iregs == [ireg0 : {"zero", "system", "continue", "break"}, pen : BOOLEAN]
Ops == [cont : {FALSE}, val : Commands, ireg : Iregs]
         \cup [cont : {TRUE}, val : {"continue", "break"}, ireg : Iregs]

(* What the queue holds, and what the CPU is about to put into it.           *)
QueueOK ==
  /\ pendingOps \in Seq(Ops)
  /\ ireg \in Iregs
  /\ cpu # "idle" => request \in Requests

QueueInv == QueueOK /\ HeadPrimed

LEMMA ParamsAreIregs == Params \subseteq Iregs /\ NoParams \in Params
<1>1. Params \subseteq Iregs BY SMTT(20) DEF Params, Iregs
<1>2. NoParams \in Params BY DEF Params, NoParams
<1> QED BY <1>1, <1>2

LEMMA QueueInit == ASSUME Init PROVE QueueInv
BY DEF Init, QueueInv, QueueOK, HeadPrimed, Iregs, NoParams

(* A command of the queue has a delay of at least a scanline.                *)
LEMMA DelayPositive ==
  ASSUME NEW op \in Ops, ~op.cont PROVE op.val \in Commands /\ Delay[op.val] \in Nat \ {0}
BY SMPCAssumption DEF Ops

(* Priming the queue left by a service makes its head's delay its own.       *)
LEMMA PrimeStep ==
  ASSUME QueueOK, pendingOps # <<>>, pendingOps' = Tail(pendingOps), Prime(Tail(pendingOps))
  PROVE  pendingOps' \in Seq(Ops) /\ HeadPrimed'
<1>1. Tail(pendingOps) \in Seq(Ops) BY DEF QueueOK
<1>2. CASE pendingOps' # <<>> /\ ~Head(pendingOps').cont
  <2>1. Head(pendingOps') \in Ops BY <1>1, <1>2
  <2>2. Delay[Head(pendingOps').val] \in Nat \ {0} BY <1>2, <2>1, DelayPositive
  <2>3. comreg' = Head(pendingOps').val /\ cmdDelay' = Delay[Head(pendingOps').val]
    BY <1>2 DEF Prime
  <2> QED BY <1>1, <2>2, <2>3 DEF HeadPrimed
<1>3. CASE ~(pendingOps' # <<>> /\ ~Head(pendingOps').cont) BY <1>1, <1>3 DEF HeadPrimed
<1> QED BY <1>2, <1>3

(* An operation put behind others leaves the head; a command put into an     *)
(* empty queue is the head with its delay.                                   *)
LEMMA AppendStep ==
  ASSUME QueueInv, NEW op \in Ops, pendingOps' = Append(pendingOps, op),
         pendingOps # <<>> => UNCHANGED <<comreg, cmdDelay>>,
         pendingOps = <<>> /\ ~op.cont => comreg' = op.val /\ cmdDelay' = Delay[op.val]
  PROVE  pendingOps' \in Seq(Ops) /\ HeadPrimed'
<1>1. pendingOps \in Seq(Ops) BY DEF QueueInv, QueueOK
<1>2. pendingOps' \in Seq(Ops) /\ pendingOps' # <<>> BY <1>1
<1>3. CASE pendingOps = <<>>
  <2>1. Head(pendingOps') = op BY <1>1, <1>3
  <2> QED BY <1>2, <1>3, <2>1, DelayPositive DEF HeadPrimed
<1>4. CASE pendingOps # <<>>
  <2>1. Head(pendingOps') = Head(pendingOps) BY <1>1, <1>4
  <2> QED BY <1>2, <1>4, <2>1 DEF HeadPrimed, QueueInv
<1> QED BY <1>3, <1>4

(* Every step keeps the invariant of the queue.                              *)
LEMMA QueueStep == ASSUME QueueInv, [Next]_vars PROVE QueueInv'
<1> USE DEF QueueInv
<1>1. CASE Prepare
  <2>1. request' \in Requests BY <1>1 DEF Prepare
  <2>2. request'.ireg \in Params \cup {NoParams} BY <2>1 DEF Requests
  <2>3. request'.ireg \in Iregs BY <2>2, ParamsAreIregs
  <2> QED BY <1>1, <2>1, <2>3 DEF Prepare, QueueOK, HeadPrimed
<1>2. CASE WriteSF \/ Poll BY <1>2 DEF WriteSF, Poll, QueueOK, HeadPrimed, registers
<1>3. CASE WriteCOMREG
  <2>1. request.cmd \in Commands BY <1>3 DEF WriteCOMREG, QueueOK, Requests
  <2>2. Command(request.cmd, ireg) \in Ops BY <2>1 DEF Command, Ops, QueueOK
  <2>3. /\ ~Command(request.cmd, ireg).cont
        /\ Command(request.cmd, ireg).val = request.cmd BY DEF Command
  <2>4. pendingOps' \in Seq(Ops) /\ HeadPrimed'
    BY <1>3, <2>2, <2>3, AppendStep DEF WriteCOMREG
  <2> QED BY <1>3, <2>4 DEF WriteCOMREG, QueueOK
<1>4. CASE WriteIREG0
  <2>1. PICK val \in {"continue", "break"} :
          /\ ireg' = [ireg EXCEPT !.ireg0 = val]
          /\ pendingOps' = IF Captured THEN Append(pendingOps, Continue(val)) ELSE pendingOps
    BY <1>4 DEF WriteIREG0
  <2>2. Continue(val) \in Ops /\ Continue(val).cont BY DEF Continue, Ops, Iregs, NoParams
  <2>3. UNCHANGED <<comreg, cmdDelay, cpu, request>> BY <1>4 DEF WriteIREG0
  <2>4. pendingOps' \in Seq(Ops) /\ HeadPrimed'
    <3>1. CASE Captured BY <2>1, <2>2, <2>3, <3>1, AppendStep
    <3>2. CASE ~Captured BY <2>1, <2>3, <3>2 DEF QueueOK, HeadPrimed
    <3> QED BY <3>1, <3>2
  <2>5. ireg' \in Iregs BY <2>1 DEF QueueOK, Iregs
  <2> QED BY <2>3, <2>4, <2>5 DEF QueueOK
<1>5. CASE ServiceContinue
  BY <1>5, PrimeStep DEF ServiceContinue, QueueOK, client
<1>6. CASE CountDown
  <2>1. Head(pendingOps) \in Ops /\ ~Head(pendingOps).cont BY <1>6 DEF CountDown, QueueOK
  <2>2. Delay[Head(pendingOps).val] \in Nat BY <2>1, DelayPositive
  <2> QED BY <1>6, <2>1, <2>2 DEF CountDown, QueueOK, HeadPrimed, client
<1>7. CASE Dispatch
  BY <1>7, PrimeStep DEF Dispatch, QueueOK, client
<1>8. CASE NothingQueued \/ Raise \/ Chunk \/ FrameEnd \/ Boundary
  BY <1>8 DEF NothingQueued, Raise, Chunk, FrameEnd, Boundary, QueueOK, HeadPrimed, registers, client
<1>9. CASE UNCHANGED vars BY <1>9 DEF vars, registers, client, QueueOK, HeadPrimed
<1> QED
  BY <1>1, <1>2, <1>3, <1>4, <1>5, <1>6, <1>7, <1>8, <1>9 DEF Next, Cpu, Walk

(* A command at the head of the queue is the one COMREG shows, with a delay  *)
(* of its own (primeNextDispatch).                                           *)
THEOREM QueuePrimed == Spec => []HeadPrimed
<1>1. QueueInv => HeadPrimed BY DEF QueueInv
<1> QED BY <1>1, QueueInit, QueueStep, PTL DEF Spec
-----------------------------------------------------------------------------
(* The order of the commands                                                 *)

(* From Prepare to the COMREG write the input registers hold the parameters  *)
(* of the request.                                                           *)
AsWritten == cpu \in {"setSF", "issue", "issueFirst"} => ireg = request.ireg

(* The commands in the queue are those issued, in their order: f is where    *)
(* each of them is.                                                          *)
Spots == [1 .. Len(issued) -> 1 .. Len(pendingOps)]
Ordered(f) ==
  /\ \A i, j \in 1 .. Len(issued) : i < j => f[i] < f[j]
  /\ \A k \in 1 .. Len(pendingOps) : ~pendingOps[k].cont => \E i \in 1 .. Len(issued) : f[i] = k
  /\ \A i \in 1 .. Len(issued) : pendingOps[f[i]] = Command(issued[i].cmd, issued[i].ireg)
InOrder == \E f \in Spots : Ordered(f)

IssuedInv == QueueOK /\ issued \in Seq(Requests) /\ AsWritten /\ InOrder

LEMMA RequestIs ==
  ASSUME NEW r \in Requests PROVE r = [cmd |-> r.cmd, ireg |-> r.ireg]
BY DEF Requests

(* A command goes to the end of the queue (WriteCOMREG).                     *)
LEMMA CommandAppended ==
  ASSUME IssuedInv, NEW r \in Requests,
         pendingOps' = Append(pendingOps, Command(r.cmd, r.ireg)), issued' = Append(issued, r)
  PROVE  InOrder'
<1>0. PICK n \in Nat, m \in Nat : n = Len(pendingOps) /\ m = Len(issued)
  BY DEF IssuedInv, QueueOK
<1>1. pendingOps \in Seq(Ops) /\ issued \in Seq(Requests)
  BY DEF IssuedInv, QueueOK
<1>2. PICK f \in [1 .. m -> 1 .. n] : Ordered(f)
  BY <1>0 DEF IssuedInv, InOrder, Spots
<1>3. /\ Len(pendingOps') = n + 1 /\ Len(issued') = m + 1
      /\ \A k \in 1 .. n : pendingOps'[k] = pendingOps[k]
      /\ \A i \in 1 .. m : issued'[i] = issued[i]
      /\ pendingOps'[n + 1] = Command(r.cmd, r.ireg) /\ issued'[m + 1] = r
  BY <1>0, <1>1
<1> DEFINE g == [i \in 1 .. (m + 1) |-> IF i = m + 1 THEN n + 1 ELSE f[i]]
<1>4. g \in Spots' /\ g[m + 1] = n + 1 /\ \A i \in 1 .. m : g[i] = f[i] /\ f[i] \in 1 .. n
  <2>1. \A i \in 1 .. (m + 1) : i # m + 1 => i \in 1 .. m
    BY <1>0, <1>1
  <2>2. \A i \in 1 .. m : f[i] \in 1 .. n /\ f[i] \in 1 .. (n + 1)
    BY <1>0, <1>1, <1>2
  <2>3. g \in [1 .. (m + 1) -> 1 .. (n + 1)]
    BY <1>0, <1>1, <2>1, <2>2
  <2>4. m + 1 \in 1 .. (m + 1) /\ \A i \in 1 .. m : i \in 1 .. (m + 1) /\ i # m + 1
    BY <1>0, <1>1
  <2>. QED BY <1>0, <1>3, <2>2, <2>3, <2>4 DEF Spots
<1> HIDE DEF g
<1>5. Ordered(f)
  BY <1>0, <1>2
<1>6. \A i, j \in 1 .. (m + 1) : i < j => g[i] < g[j]
  <2>1. SUFFICES ASSUME NEW i \in 1 .. (m + 1), NEW j \in 1 .. (m + 1), i < j  PROVE g[i] < g[j]
    OBVIOUS
  <2>2. i \in 1 .. m /\ (j \in 1 .. m \/ j = m + 1)
    <3>1. i \in Int /\ j \in Int /\ 1 <= i /\ 1 <= j /\ i <= m + 1 /\ j <= m + 1
      BY <1>0, <2>1
    <3>2. i < m + 1 BY <1>0, <2>1, <3>1
    <3>3. i \in 1 .. m BY <1>0, <3>1, <3>2
    <3>4. j \in 1 .. m \/ j = m + 1 BY <1>0, <3>1
    <3>. QED BY <3>3, <3>4
  <2>3. CASE j \in 1 .. m
    <3>1. f[i] < f[j] BY <1>0, <1>5, <2>1, <2>2, <2>3 DEF Ordered
    <3>. QED BY <1>4, <2>2, <2>3, <3>1
  <2>4. CASE j = m + 1 BY <1>0, <1>4, <2>2, <2>4
  <2>. QED BY <2>2, <2>3, <2>4
<1>7. \A k \in 1 .. (n + 1) : ~pendingOps'[k].cont => \E i \in 1 .. (m + 1) : g[i] = k
  <2>1. SUFFICES ASSUME NEW k \in 1 .. (n + 1), ~pendingOps'[k].cont  PROVE \E i \in 1 .. (m + 1) : g[i] = k
    OBVIOUS
  <2>2. CASE k = n + 1
    BY <1>0, <1>1, <1>4, <2>2
  <2>3. CASE k # n + 1
    <3>1. k \in 1 .. n
      BY <1>0, <1>1, <2>1, <2>3
    <3>2. PICK i \in 1 .. m : f[i] = k
      BY <1>0, <1>3, <1>5, <2>1, <3>1 DEF Ordered
    <3>3. i \in 1 .. (m + 1)
      BY <1>0, <1>1, <3>2
    <3>. QED BY <1>0, <1>4, <3>2, <3>3
  <2>. QED BY <2>2, <2>3
<1>8. \A i \in 1 .. (m + 1) : pendingOps'[g[i]] = Command(issued'[i].cmd, issued'[i].ireg)
  <2>1. \A i \in 1 .. m : pendingOps'[g[i]] = Command(issued'[i].cmd, issued'[i].ireg)
    BY <1>0, <1>3, <1>4, <1>5 DEF Ordered
  <2>2. \A i \in 1 .. (m + 1) : i \in 1 .. m \/ i = m + 1
    BY <1>0, <1>1
  <2>. QED BY <1>0, <1>3, <1>4, <2>1, <2>2
<1>9. Ordered(g)'
  BY <1>0, <1>3, <1>6, <1>7, <1>8 DEF Ordered
<1>. QED BY <1>0, <1>4, <1>9 DEF InOrder

(* A continue goes to the end of the queue (WriteIREG0).                     *)
LEMMA ContinueAppended ==
  ASSUME IssuedInv, NEW op \in Ops, op.cont, pendingOps' = Append(pendingOps, op), issued' = issued
  PROVE  InOrder'
<1>0. PICK n \in Nat, m \in Nat : n = Len(pendingOps) /\ m = Len(issued)
  BY DEF IssuedInv, QueueOK
<1>1. pendingOps \in Seq(Ops) /\ issued \in Seq(Requests)
  BY DEF IssuedInv, QueueOK
<1>2. PICK f \in [1 .. m -> 1 .. n] : Ordered(f)
  BY <1>0 DEF IssuedInv, InOrder, Spots
<1>3. /\ Len(pendingOps') = n + 1 /\ Len(issued') = m
      /\ \A k \in 1 .. n : pendingOps'[k] = pendingOps[k]
      /\ pendingOps'[n + 1] = op
      /\ \A k \in 1 .. (n + 1) : k \in 1 .. n \/ k = n + 1
  BY <1>0, <1>1
<1>4. f \in Spots'
  <2>1. 1 .. n \subseteq 1 .. (n + 1)
    BY <1>0, <1>1
  <2>. QED BY <1>0, <1>2, <1>3, <2>1 DEF Spots
<1>5. Ordered(f)'
  BY <1>0, <1>2, <1>3 DEF Ordered
<1>. QED BY <1>0, <1>4, <1>5 DEF InOrder

(* The head of the queue is taken: a continue leaves the commands behind it, *)
(* a command is the first that was issued.                                   *)
LEMMA HeadTaken ==
  ASSUME IssuedInv, pendingOps # <<>>, pendingOps' = Tail(pendingOps),
         issued' = IF Head(pendingOps).cont THEN issued ELSE Tail(issued)
  PROVE  /\ InOrder' /\ issued' \in Seq(Requests)
         /\ ~Head(pendingOps).cont =>
              issued # <<>> /\ Head(issued) = [cmd |-> Head(pendingOps).val, ireg |-> Head(pendingOps).ireg]
<1>0. PICK n \in Nat, m \in Nat : n = Len(pendingOps) /\ m = Len(issued)
  BY DEF IssuedInv, QueueOK
<1>1. /\ pendingOps \in Seq(Ops) /\ issued \in Seq(Requests) /\ n # 0
      /\ Head(pendingOps) = pendingOps[1] /\ 1 \in 1 .. n
  BY <1>0 DEF IssuedInv, QueueOK
<1>2. PICK f \in [1 .. m -> 1 .. n] : Ordered(f)
  BY <1>0 DEF IssuedInv, InOrder, Spots
<1>3. /\ Len(pendingOps') = n - 1
      /\ \A k \in 1 .. (n - 1) : pendingOps'[k] = pendingOps[k + 1]
  BY <1>0, <1>1
<1>4. /\ \A i \in 1 .. m : f[i] \in Nat \ {0} /\ f[i] <= n
      /\ \A i \in 1 .. m : pendingOps[f[i]] = Command(issued[i].cmd, issued[i].ireg) /\ ~pendingOps[f[i]].cont
      /\ \A i, j \in 1 .. m : i < j => f[i] < f[j]
      /\ \A k \in 1 .. n : ~pendingOps[k].cont => \E i \in 1 .. m : f[i] = k
  <2>1. \A i \in 1 .. m : f[i] \in 1 .. n BY <1>2
  <2>2. \A i \in 1 .. m : f[i] \in Nat \ {0} /\ f[i] <= n BY <1>0, <2>1
  <2>3. \A i \in 1 .. m : pendingOps[f[i]] = Command(issued[i].cmd, issued[i].ireg)
    BY <1>0, <1>2 DEF Ordered
  <2>4. \A i \in 1 .. m : ~Command(issued[i].cmd, issued[i].ireg).cont BY DEF Command
  <2>5. /\ \A i, j \in 1 .. m : i < j => f[i] < f[j]
        /\ \A k \in 1 .. n : ~pendingOps[k].cont => \E i \in 1 .. m : f[i] = k
    BY <1>0, <1>2 DEF Ordered
  <2>. QED BY <2>2, <2>3, <2>4, <2>5
<1>5. CASE Head(pendingOps).cont
  <2> DEFINE g == [i \in 1 .. m |-> f[i] - 1]
  <2>1. ASSUME NEW i \in 1 .. m  PROVE f[i] - 1 \in 1 .. (n - 1)
    <3>1. f[i] # 1
      BY <1>0, <1>1, <1>4, <1>5
    <3>. QED BY <1>0, <1>1, <1>4, <3>1
  <2>2. Len(issued') = m /\ issued' = issued
    BY <1>0, <1>5
  <2>3. g \in Spots'
    BY <1>0, <1>3, <2>1, <2>2 DEF Spots
  <2>4. \A i, j \in 1 .. m : i < j => g[i] < g[j]
    BY <1>0, <1>4
  <2>5. \A k \in 1 .. (n - 1) : ~pendingOps'[k].cont => \E i \in 1 .. m : g[i] = k
    <3>1. SUFFICES ASSUME NEW k \in 1 .. (n - 1), ~pendingOps'[k].cont  PROVE \E i \in 1 .. m : g[i] = k
      OBVIOUS
    <3>2. k + 1 \in 1 .. n /\ ~pendingOps[k + 1].cont
      BY <1>0, <1>1, <1>3, <3>1
    <3>3. PICK i \in 1 .. m : f[i] = k + 1
      BY <1>0, <1>4, <3>2
    <3>4. g[i] = k
      BY <3>1, <3>3
    <3>. QED BY <3>4
  <2>6. \A i \in 1 .. m : pendingOps'[g[i]] = pendingOps[f[i]]
    BY <1>0, <1>3, <1>4, <2>1
  <2>. HIDE DEF g
  <2>7. Ordered(g)'
    BY <1>0, <1>3, <1>4, <2>2, <2>4, <2>5, <2>6 DEF Ordered
  <2>. QED BY <1>0, <1>1, <1>5, <2>2, <2>3, <2>7 DEF InOrder
<1>6. CASE ~Head(pendingOps).cont
  <2>1. PICK a \in 1 .. m : f[a] = 1
    BY <1>0, <1>1, <1>4, <1>6
  <2>2. a = 1
    <3>1. a \in Nat /\ a >= 1 /\ a <= m /\ (a > 1 => 1 \in 1 .. m /\ 1 < a)
      BY <1>0, <1>1, <2>1
    <3>2. a > 1 => f[1] < 1 /\ f[1] \in Nat \ {0}
      BY <1>0, <1>4, <2>1, <3>1
    <3>. QED BY <3>1, <3>2
  <2>3. /\ m >= 1 /\ issued # <<>> /\ Head(issued) = issued[1] /\ issued[1] \in Requests
        /\ Tail(issued) \in Seq(Requests) /\ Len(Tail(issued)) = m - 1
        /\ \A i \in 1 .. (m - 1) : Tail(issued)[i] = issued[i + 1]
    <3>1. m >= 1
      BY <1>0, <1>1, <2>1
    <3>. QED BY <1>0, <1>1, <3>1
  <2>4. Head(issued) = [cmd |-> Head(pendingOps).val, ireg |-> Head(pendingOps).ireg]
    <3>1. pendingOps[1] = Command(issued[1].cmd, issued[1].ireg)
      BY <1>0, <1>4, <2>1, <2>2
    <3>2. pendingOps[1].val = issued[1].cmd /\ pendingOps[1].ireg = issued[1].ireg
      BY <3>1 DEF Command
    <3>. QED BY <1>0, <1>1, <2>3, <3>2, RequestIs
  <2> DEFINE g == [i \in 1 .. (m - 1) |-> f[i + 1] - 1]
  <2>5. ASSUME NEW i \in 1 .. (m - 1)
        PROVE  i + 1 \in 1 .. m /\ f[i + 1] - 1 \in 1 .. (n - 1)
    <3>1. i + 1 \in 1 .. m /\ 1 \in 1 .. m /\ 1 < i + 1
      BY <1>0, <1>1, <2>3
    <3>2. f[1] < f[i + 1] /\ f[1] = 1
      BY <1>0, <1>4, <2>1, <2>2, <3>1
    <3>. QED BY <1>0, <1>1, <1>4, <3>1, <3>2
  <2>6. issued' = Tail(issued) /\ Len(issued') = m - 1
    BY <1>0, <1>6, <2>3
  <2>7. g \in Spots'
    BY <1>0, <1>3, <2>5, <2>6 DEF Spots
  <2>8. \A i, j \in 1 .. (m - 1) : i < j => g[i] < g[j]
    <3>1. SUFFICES ASSUME NEW i \in 1 .. (m - 1), NEW j \in 1 .. (m - 1), i < j  PROVE g[i] < g[j]
      OBVIOUS
    <3>2. i + 1 < j + 1 /\ i + 1 \in 1 .. m /\ j + 1 \in 1 .. m
      BY <2>5, <3>1
    <3>3. f[i + 1] < f[j + 1] /\ f[i + 1] \in Nat /\ f[j + 1] \in Nat
      BY <1>0, <1>4, <3>2
    <3>. QED BY <3>1, <3>3
  <2>9. \A k \in 1 .. (n - 1) : ~pendingOps'[k].cont => \E i \in 1 .. (m - 1) : g[i] = k
    <3>1. SUFFICES ASSUME NEW k \in 1 .. (n - 1), ~pendingOps'[k].cont
                   PROVE  \E i \in 1 .. (m - 1) : g[i] = k
      OBVIOUS
    <3>2. k + 1 \in 1 .. n /\ ~pendingOps[k + 1].cont
      BY <1>0, <1>1, <1>3, <3>1
    <3>3. PICK j \in 1 .. m : f[j] = k + 1
      BY <1>0, <1>4, <3>2
    <3>4. j # 1 /\ j - 1 \in 1 .. (m - 1) /\ (j - 1) + 1 = j
      BY <1>0, <1>1, <2>1, <2>2, <3>1, <3>3
    <3>5. g[j - 1] = k
      BY <3>1, <3>3, <3>4
    <3>. QED BY <3>4, <3>5
  <2>10. \A i \in 1 .. (m - 1) : pendingOps'[g[i]] = Command(issued'[i].cmd, issued'[i].ireg)
    <3>1. SUFFICES ASSUME NEW i \in 1 .. (m - 1)
                   PROVE  pendingOps'[g[i]] = Command(issued'[i].cmd, issued'[i].ireg)
      OBVIOUS
    <3>2. issued'[i] = issued[i + 1] /\ i + 1 \in 1 .. m
      BY <2>3, <2>5, <2>6
    <3>3. g[i] \in 1 .. (n - 1) /\ g[i] + 1 = f[i + 1]
      BY <1>0, <1>4, <2>5, <3>2
    <3>4. pendingOps'[g[i]] = pendingOps[f[i + 1]]
      BY <1>0, <1>3, <3>3
    <3>. QED BY <1>0, <1>4, <3>2, <3>4
  <2>. HIDE DEF g
  <2>11. Ordered(g)'
    BY <1>0, <1>3, <2>6, <2>8, <2>9, <2>10 DEF Ordered
  <2>. QED BY <2>3, <2>4, <2>6, <2>7, <2>11 DEF InOrder
<1>. QED BY <1>0, <1>5, <1>6

LEMMA IssuedInit == ASSUME Init PROVE IssuedInv
<1>1. QueueOK BY QueueInit DEF QueueInv
<1>2. pendingOps = <<>> /\ issued = <<>> /\ issued \in Seq(Requests) /\ AsWritten
  BY DEF Init, AsWritten
<1>3. 1 .. Len(pendingOps) = {} /\ 1 .. Len(issued) = {} BY <1>2
<1>4. [i \in 1 .. Len(issued) |-> i] \in Spots BY <1>3 DEF Spots
<1>5. Ordered([i \in 1 .. Len(issued) |-> i]) BY <1>3 DEF Ordered
<1> QED BY <1>1, <1>2, <1>4, <1>5 DEF IssuedInv, InOrder

(* A step that leaves the queue and the commands issued keeps their order.   *)
LEMMA OrderKept ==
  ASSUME IssuedInv, pendingOps' = pendingOps, issued' = issued
  PROVE  InOrder' /\ issued' \in Seq(Requests)
BY DEF IssuedInv, InOrder, Spots, Ordered

(* Every step keeps the invariant of the order.                              *)
LEMMA IssuedStep ==
  ASSUME QueueInv, IssuedInv, [Next]_vars PROVE IssuedInv'
<1>1. QueueOK' BY QueueStep DEF QueueInv
<1>2. CASE Prepare
  <2>1. AsWritten' BY <1>2 DEF Prepare, AsWritten
  <2> QED BY <1>1, <1>2, <2>1, OrderKept DEF Prepare, history, IssuedInv
<1>3. CASE WriteSF
  <2>1. AsWritten' BY <1>3 DEF WriteSF, IssuedInv, AsWritten
  <2> QED BY <1>1, <1>3, <2>1, OrderKept DEF WriteSF, history, IssuedInv
<1>4. CASE WriteCOMREG
  <2>1. request \in Requests /\ ireg = request.ireg
    BY <1>4 DEF WriteCOMREG, IssuedInv, QueueOK, AsWritten
  <2>2. /\ pendingOps' = Append(pendingOps, Command(request.cmd, request.ireg))
        /\ issued' = Append(issued, request)
    BY <1>4, <2>1 DEF WriteCOMREG
  <2>3. InOrder' BY <2>1, <2>2, CommandAppended
  <2>4. issued' \in Seq(Requests) BY <2>1, <2>2 DEF IssuedInv
  <2>5. AsWritten' BY <1>4 DEF WriteCOMREG, AsWritten
  <2> QED BY <1>1, <2>3, <2>4, <2>5 DEF IssuedInv
<1>5. CASE Poll
  <2>1. AsWritten' BY <1>5 DEF Poll, AsWritten
  <2> QED BY <1>1, <1>5, <2>1, OrderKept DEF Poll, registers, history, IssuedInv
<1>6. CASE WriteIREG0
  <2>1. PICK val \in {"continue", "break"} :
          pendingOps' = IF Captured THEN Append(pendingOps, Continue(val)) ELSE pendingOps
    BY <1>6 DEF WriteIREG0
  <2>2. Continue(val) \in Ops /\ Continue(val).cont BY DEF Continue, Ops, Iregs, NoParams
  <2>3. issued' = issued /\ cpu' = cpu /\ cpu \in {"idle", "poll"} BY <1>6 DEF WriteIREG0
  <2>4. InOrder'
    <3>1. CASE Captured BY <2>1, <2>2, <2>3, <3>1, ContinueAppended
    <3>2. CASE ~Captured BY <2>1, <2>3, <3>2, OrderKept
    <3> QED BY <3>1, <3>2
  <2> QED BY <1>1, <2>3, <2>4 DEF IssuedInv, AsWritten
<1>7. CASE ServiceContinue
  <2>1. /\ pendingOps # <<>> /\ Head(pendingOps).cont /\ pendingOps' = Tail(pendingOps)
        /\ issued' = issued /\ UNCHANGED <<ireg, client>>
    BY <1>7 DEF ServiceContinue
  <2> QED BY <1>1, <2>1, HeadTaken DEF IssuedInv, AsWritten, client
<1>8. CASE Dispatch
  <2>1. /\ pendingOps # <<>> /\ ~Head(pendingOps).cont /\ pendingOps' = Tail(pendingOps)
        /\ issued' = Tail(issued) /\ UNCHANGED <<ireg, client>>
    BY <1>8 DEF Dispatch
  <2> QED BY <1>1, <2>1, HeadTaken DEF IssuedInv, AsWritten, client
<1>9. CASE NothingQueued \/ CountDown \/ Raise \/ Chunk \/ FrameEnd \/ Boundary \/ UNCHANGED vars
  <2>1. UNCHANGED <<pendingOps, issued, ireg, client>>
    BY <1>9 DEF NothingQueued, CountDown, Raise, Chunk, FrameEnd, Boundary, registers, history, vars
  <2> QED BY <1>1, <2>1, OrderKept DEF IssuedInv, AsWritten, client
<1> QED
  BY <1>2, <1>3, <1>4, <1>5, <1>6, <1>7, <1>8, <1>9 DEF Next, Cpu, Walk

(* A step that takes a command off those issued dispatches the first of them *)
(* with its own parameters.                                                  *)
LEMMA DispatchedStep ==
  ASSUME QueueInv, IssuedInv, [Next]_vars,
         issued' # issued, Len(issued') < Len(issued)
  PROVE  dispatched' = Head(issued)
<1>1. CASE Dispatch
  <2>1. /\ pendingOps # <<>> /\ ~Head(pendingOps).cont /\ pendingOps' = Tail(pendingOps)
        /\ issued' = Tail(issued)
        /\ dispatched' = [cmd |-> Head(pendingOps).val, ireg |-> Head(pendingOps).ireg]
    BY <1>1 DEF Dispatch, Parameters
  <2> QED BY <2>1, HeadTaken
<1>2. CASE WriteCOMREG
  <2>1. issued \in Seq(Requests) /\ request \in Requests /\ issued' = Append(issued, request)
    BY <1>2 DEF WriteCOMREG, IssuedInv, QueueOK
  <2> QED BY <2>1
<1>3. CASE Prepare \/ WriteSF \/ Poll \/ WriteIREG0 \/ ServiceContinue
  BY <1>3 DEF Prepare, WriteSF, Poll, WriteIREG0, ServiceContinue, history
<1>4. CASE NothingQueued \/ CountDown \/ Raise \/ Chunk \/ FrameEnd \/ Boundary \/ UNCHANGED vars
  BY <1>4 DEF NothingQueued, CountDown, Raise, Chunk, FrameEnd, Boundary, history, vars
<1> QED BY <1>1, <1>2, <1>3, <1>4 DEF Next, Cpu, Walk

(* Commands run once each, in the order they were issued and with the        *)
(* parameters they were issued with.                                         *)
THEOREM RunAsIssued == Spec => AsIssued
<1>1. Init => QueueInv /\ IssuedInv BY QueueInit, IssuedInit
<1>2. QueueInv /\ IssuedInv /\ [Next]_vars => (QueueInv /\ IssuedInv)'
  BY QueueStep, IssuedStep
<1>3. QueueInv /\ IssuedInv /\ [Next]_vars
        => [issued' # issued /\ Len(issued') < Len(issued) => dispatched' = Head(issued)]_vars
  BY DispatchedStep
<1> QED BY <1>1, <1>2, <1>3, PTL DEF Spec, AsIssued
=============================================================================
