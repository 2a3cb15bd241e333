----------------------------- MODULE SCU_proofs -----------------------------
(***************************************************************************)
(* Proofs about the SCU: one transfer of a DMA level at a time (SCUDma),   *)
(* and then the interrupt output (SCUInterrupts).                          *)
(***************************************************************************)
EXTENDS SCUDma, SCUInterrupts, Raster, SequenceTheorems, FiniteSetTheorems, TLAPS

EnableBits == SUBSET {"enable", "go"}
Registers == {"drain", "mode", "enable"}
Steps == [op : {"check", "count", "writeBack"} \cup Registers, level : Levels, arg : (0 .. 7) \cup EnableBits]

Types ==
  /\ holder \in Goroutines \cup {Free}
  /\ todo \in [Goroutines -> Seq(Steps)]
  /\ factor \in [Levels -> 0 .. 7]
  /\ en \in [Levels -> EnableBits]
  /\ dmaPending \in [Levels -> BOOLEAN]
  /\ dmaDelay \in [Levels -> Int]

(* A list is of checks and counts, or a register write's at one level; a     *)
(* transfer that copies is its first step.                                   *)
Shaped(s) ==
  \A i \in 1 .. Len(s) :
    /\ s[i].op = "writeBack" => i = 1 /\ s[i].arg = 0
    /\ s[i].op = "check" => s[i].arg \in 0 .. 6
    /\ s[i].op = "mode" => s[i].arg \in 0 .. 7
    /\ s[i].op = "enable" => s[i].arg \in EnableBits
    /\ s[i].op = "drain" => i = 1
    /\ s[i].op \in {"mode", "enable"} => i = Len(s)
    /\ s[i].op \in Registers => /\ Len(s) <= 2
                                /\ s[1].op \in Registers \cup {"writeBack"}
                                /\ s[1].level = s[i].level

Lists == \A g \in Goroutines : Shaped(todo[g])

(* Whoever has a step to do that is not a copy holds the lock.               *)
Working(g) == todo[g] # <<>> /\ Head(todo[g]).op # "writeBack"
Locked == \A g \in Goroutines : holder = g <=> Working(g)

(* A register write of a level whose software waits finds it at rest.        *)
Writes(g, l) == \E i \in 1 .. Len(todo[g]) : todo[g][i].op \in Registers /\ todo[g][i].level = l
AtRest == \A g \in Goroutines, l \in Waits : Writes(g, l) => holder = g /\ ~Operating(l)

(* What is copying was disarmed, or started at once.                         *)
Disarmed == \A g \in Goroutines, l \in Waits : Copying(g, l) => ~dmaPending[l] \/ factor[l] = 7

IInv == Types /\ Lists /\ Locked /\ AtRest /\ Disarmed /\ OneTransfer

-----------------------------------------------------------------------------
(* Lists                                                                     *)

(* The first step goes (Done).                                               *)
LEMMA TailShaped ==
  ASSUME NEW s \in Seq(Steps), s # <<>>, Shaped(s)
  PROVE  /\ Tail(s) \in Seq(Steps) /\ Len(Tail(s)) = Len(s) - 1 /\ Len(s) \in Nat \ {0}
         /\ \A i \in 1 .. Len(Tail(s)) : Tail(s)[i] = s[i + 1]
         /\ Shaped(Tail(s))
         /\ Tail(s) # <<>> => Head(Tail(s)).op # "writeBack"
<1>1. /\ Tail(s) \in Seq(Steps) /\ Len(Tail(s)) = Len(s) - 1 /\ Len(s) \in Nat \ {0}
      /\ \A i \in 1 .. Len(Tail(s)) : Tail(s)[i] = s[i + 1]
  OBVIOUS
<1> DEFINE t == Tail(s)
<1>2. \A i \in 1 .. Len(t) : i + 1 \in 1 .. Len(s) /\ t[i] = s[i + 1]
  BY <1>1
<1>3. ASSUME NEW i \in 1 .. Len(t)
      PROVE  /\ t[i].op # "writeBack" /\ t[i].op # "drain"
             /\ t[i].op = "check" => t[i].arg \in 0 .. 6
             /\ t[i].op = "mode" => t[i].arg \in 0 .. 7
             /\ t[i].op = "enable" => t[i].arg \in EnableBits
             /\ t[i].op \in {"mode", "enable"} => i = Len(t)
             /\ t[i].op \in Registers => i = 1 /\ Len(t) = 1
  <2>0. i \in Nat \ {0} /\ i <= Len(t) /\ Len(t) = Len(s) - 1 /\ Len(s) \in Nat
    BY <1>1
  <2>. HIDE DEF t
  <2>1. PICK j \in 1 .. Len(s) : j = i + 1 /\ t[i] = s[j]
    BY <1>2
  <2>2. /\ s[j].op # "writeBack" /\ s[j].op # "drain"
        /\ s[j].op = "check" => s[j].arg \in 0 .. 6
        /\ s[j].op = "mode" => s[j].arg \in 0 .. 7
        /\ s[j].op = "enable" => s[j].arg \in EnableBits
        /\ s[j].op \in {"mode", "enable"} => j = Len(s)
        /\ s[j].op \in Registers => Len(s) <= 2
    BY <2>1 DEF Shaped
  <2>3. s[j].op \in {"mode", "enable"} => i = Len(t)
    BY <2>0, <2>1, <2>2
  <2>4. s[j].op \in Registers => i = 1 /\ Len(t) = 1
    <3>1. s[j].op \in Registers => s[j].op \in {"mode", "enable"} /\ Len(s) <= 2
      BY <2>2 DEF Registers
    <3>. QED BY <2>0, <2>1, <2>2, <3>1
  <2>. QED BY <2>1, <2>2, <2>3, <2>4
<1>4. Shaped(t)
  <2>. HIDE DEF t
  <2>. QED BY <1>3 DEF Shaped
<1>5. t # <<>> => Head(t).op # "writeBack"
  <2>1. t # <<>> => 1 \in 1 .. Len(t) /\ Head(t) = t[1]
    BY <1>1
  <2>. QED BY <1>3, <2>1
<1>. QED BY <1>1, <1>4, <1>5

(* The first step becomes a copy (StartCopy).                                *)
LEMMA CopyShaped ==
  ASSUME NEW s \in Seq(Steps), s # <<>>, Shaped(s), NEW l \in Levels,
         s[1].op # "writeBack", s[1].op \in Registers => s[1].level = l
  PROVE  LET t == <<Step("writeBack", l, 0)>> \o Tail(s) IN
           /\ t \in Seq(Steps) /\ Len(t) = Len(s) /\ t # <<>> /\ Head(t) = Step("writeBack", l, 0)
           /\ \A i \in 2 .. Len(t) : t[i] = s[i]
           /\ Shaped(t)
<1> DEFINE w == Step("writeBack", l, 0)
           t == <<w>> \o Tail(s)
<1>1. w \in Steps /\ w.op = "writeBack" /\ w.level = l /\ w.arg = 0
  BY DEF Step, Steps
<1> HIDE DEF w
<1>2. /\ t \in Seq(Steps) /\ Len(t) = Len(s) /\ t # <<>> /\ Head(t) = w /\ t[1] = w
      /\ \A i \in 2 .. Len(t) : t[i] = s[i]
      /\ Len(s) \in Nat \ {0}
  BY <1>1
<1> HIDE DEF t
<1>3. ASSUME NEW i \in 1 .. Len(t)
      PROVE  /\ t[i].op = "writeBack" => i = 1 /\ t[i].arg = 0
             /\ t[i].op = "check" => t[i].arg \in 0 .. 6
             /\ t[i].op = "mode" => t[i].arg \in 0 .. 7
             /\ t[i].op = "enable" => t[i].arg \in EnableBits
             /\ t[i].op = "drain" => i = 1
             /\ t[i].op \in {"mode", "enable"} => i = Len(t)
             /\ t[i].op \in Registers => /\ Len(t) <= 2
                                         /\ t[1].op \in Registers \cup {"writeBack"}
                                         /\ t[1].level = t[i].level
  <2>1. CASE i = 1
    BY <1>1, <1>2, <2>1 DEF Registers
  <2>2. CASE i # 1
    <3>1. i \in 2 .. Len(t) /\ i \in 1 .. Len(s) /\ t[i] = s[i]
      BY <1>2, <2>2
    <3>2. /\ s[i].op # "writeBack" /\ s[i].op # "drain"
          /\ s[i].op = "check" => s[i].arg \in 0 .. 6
          /\ s[i].op = "mode" => s[i].arg \in 0 .. 7
          /\ s[i].op = "enable" => s[i].arg \in EnableBits
          /\ s[i].op \in {"mode", "enable"} => i = Len(s)
          /\ s[i].op \in Registers => Len(s) <= 2 /\ s[1].op \in Registers \cup {"writeBack"} /\ s[1].level = s[i].level
      BY <2>2, <3>1 DEF Shaped
    <3>3. s[i].op \in Registers => s[1].op \in Registers
      BY <3>2
    <3>. QED BY <1>1, <1>2, <3>1, <3>2, <3>3
  <2>. QED BY <2>1, <2>2
<1>4. Shaped(t)
  BY <1>3 DEF Shaped
<1>. QED BY <1>2, <1>4 DEF t, w

LEMMA Counted ==
  Cardinality(Levels) \in 1 .. 3 /\ Levels = 0 .. (Cardinality(Levels) - 1)
<1>1. ASSUME NEW k \in 0 .. 2
      PROVE  Cardinality(0 .. k) = k + 1
  <2>1. k \in Int /\ ~(0 > k) /\ k - 0 + 1 = k + 1
    OBVIOUS
  <2>. QED BY <2>1, FS_Interval
<1>2. PICK k \in 0 .. 2 : Levels = 0 .. k
  BY DmaAssumption
<1>3. Cardinality(Levels) = k + 1
  BY <1>1, <1>2
<1>4. k + 1 \in 1 .. 3 /\ (k + 1) - 1 = k
  OBVIOUS
<1>. QED BY <1>2, <1>3, <1>4

(* The lists of an event and of a tick (checkDMATrigger, TickSystemCycles).  *)
LEMMA ChecksShaped ==
  ASSUME NEW fs \in Seq(0 .. 6)
  PROVE  /\ Checks(fs) \in Seq(Steps)
         /\ fs # <<>> => Checks(fs) # <<>>
         /\ \A i \in 1 .. Len(Checks(fs)) : Checks(fs)[i].op = "check" /\ Checks(fs)[i].arg \in 0 .. 6
<1> DEFINE n == Cardinality(Levels)
           item(i) == Step("check", (i - 1) % n, fs[(i - 1) \div n + 1])
           c == [i \in 1 .. n * Len(fs) |-> item(i)]
<1>1. n \in 1 .. 3 /\ Levels = 0 .. (n - 1) /\ Len(fs) \in Nat
  BY Counted
<1>2. Checks(fs) = c
  BY DEF Checks
<1> HIDE DEF n
<1>3. n * Len(fs) \in Nat /\ (Len(fs) > 0 => n * Len(fs) > 0)
  BY <1>1
<1>4. ASSUME NEW i \in 1 .. n * Len(fs)
      PROVE  item(i) \in Steps /\ item(i).op = "check" /\ item(i).arg \in 0 .. 6
  <2>0. i \in Nat \ {0} /\ i <= n * Len(fs)
    BY <1>3
  <2>1. (i - 1) % n \in Levels
    BY <1>1, <2>0
  <2>2. (i - 1) \div n + 1 \in 1 .. Len(fs)
    <3>1. CASE n = 1
      BY <1>1, <2>0, <3>1
    <3>2. CASE n = 2
      BY <1>1, <2>0, <3>2
    <3>3. CASE n = 3
      BY <1>1, <2>0, <3>3
    <3>. QED BY <1>1, <3>1, <3>2, <3>3
  <2>3. fs[(i - 1) \div n + 1] \in 0 .. 6
    BY <2>2
  <2>. QED BY <2>1, <2>3 DEF Step, Steps
<1> HIDE DEF item
<1>5. c \in Seq(Steps) /\ Len(c) = n * Len(fs) /\ \A i \in 1 .. Len(c) : c[i] = item(i)
  BY <1>3, <1>4
<1>6. fs # <<>> => c # <<>>
  <2>1. fs # <<>> => Len(fs) > 0
    BY <1>1
  <2>. HIDE DEF c
  <2>2. c # <<>> \/ Len(c) = 0
    OBVIOUS
  <2>. QED BY <1>1, <1>3, <1>5, <2>1, <2>2
<1>. QED BY <1>2, <1>3, <1>4, <1>5, <1>6

LEMMA TicksShaped ==
  ASSUME NEW timer1 \in BOOLEAN
  PROVE  /\ Ticks(timer1) \in Seq(Steps) /\ Ticks(timer1) # <<>>
         /\ \A i \in 1 .. Len(Ticks(timer1)) :
              /\ Ticks(timer1)[i].op \in {"check", "count"}
              /\ Ticks(timer1)[i].op = "check" => Ticks(timer1)[i].arg \in 0 .. 6
<1> DEFINE n == Cardinality(Levels)
           item(i) == Step("count", i - 1, 0)
           a == [i \in 1 .. n |-> item(i)]
           b == IF timer1 THEN Checks(<<4>>) ELSE <<>>
<1>1. n \in 1 .. 3 /\ Levels = 0 .. (n - 1)
  BY Counted
<1>2. <<4>> \in Seq(0 .. 6)
  OBVIOUS
<1>3. /\ b \in Seq(Steps)
      /\ \A i \in 1 .. Len(b) : b[i].op = "check" /\ b[i].arg \in 0 .. 6
  <2>1. CASE timer1
    BY <1>2, <2>1, ChecksShaped
  <2>2. CASE ~timer1
    BY <2>2
  <2>. QED BY <2>1, <2>2
<1>4. Ticks(timer1) = a \o b
  BY DEF Ticks
<1> HIDE DEF n, b
<1>5. ASSUME NEW i \in 1 .. n
      PROVE  item(i) \in Steps /\ item(i).op = "count"
  BY <1>1 DEF Step, Steps
<1> HIDE DEF item
<1>6. a \in Seq(Steps) /\ Len(a) = n /\ \A i \in 1 .. n : a[i] = item(i)
  BY <1>1, <1>5
<1> HIDE DEF a
<1>7. a \o b \in Seq(Steps) /\ Len(a \o b) = n + Len(b)
  BY <1>3, <1>6
<1>8. ASSUME NEW i \in 1 .. Len(a \o b)
      PROVE  (a \o b)[i].op \in {"check", "count"} /\ ((a \o b)[i].op = "check" => (a \o b)[i].arg \in 0 .. 6)
  <2>0. i \in Nat \ {0} /\ i <= n + Len(b) /\ Len(b) \in Nat /\ n \in Nat
    BY <1>1, <1>3, <1>7
  <2>1. CASE i <= n
    <3>1. (a \o b)[i] = a[i]
      BY <1>3, <1>6, <2>0, <2>1
    <3>. QED BY <1>5, <1>6, <2>0, <2>1, <3>1
  <2>2. CASE i > n
    <3>1. (a \o b)[i] = b[i - n] /\ i - n \in 1 .. Len(b)
      BY <1>3, <1>6, <2>0, <2>2
    <3>. QED BY <1>3, <3>1
  <2>. QED BY <2>0, <2>1, <2>2
<1>9. a \o b # <<>>
  <2>1. Len(a \o b) > 0
    BY <1>1, <1>3, <1>7
  <2>. QED BY <2>1
<1>. QED BY <1>4, <1>7, <1>8, <1>9

-----------------------------------------------------------------------------
(* Entering the SCU                                                          *)

LEMMA Entered ==
  ASSUME IInv, NEW g \in Goroutines, NEW program \in Seq(Steps), program # <<>>,
         Shaped(program), program[1].op # "writeBack",
         \A i \in 1 .. Len(program) :
           program[i].op \in Registers /\ program[i].level \in Waits => ~Operating(program[i].level),
         Enter(g, program)
  PROVE  IInv'
<1> USE DEF IInv
<1>1. /\ todo[g] = <<>> /\ holder = Free /\ holder' = g
      /\ todo' = [todo EXCEPT ![g] = program] /\ ended' = NoLevel
      /\ factor' = factor /\ en' = en /\ dmaPending' = dmaPending /\ dmaDelay' = dmaDelay
  BY Zenon DEF Enter
<1>2. /\ todo' \in [Goroutines -> Seq(Steps)] /\ todo'[g] = program
      /\ \A h \in Goroutines : h # g => todo'[h] = todo[h]
  BY <1>1 DEF Types
<1>3. Types'
  BY <1>1, <1>2 DEF Types
<1>4. Lists'
  <2>1. SUFFICES ASSUME NEW h \in Goroutines  PROVE Shaped(todo'[h])
    BY Zenon DEF Lists, Shaped
  <2>. QED BY <1>2, Zenon DEF Lists
<1>5. Len(program) \in Nat \ {0} /\ Head(program) = program[1]
  OBVIOUS
<1>6. g # Free /\ \A h \in Goroutines : ~Working(h)
  BY <1>1 DEF Locked, Goroutines, Free
<1>7. Locked'
  <2>1. SUFFICES ASSUME NEW h \in Goroutines  PROVE holder' = h <=> Working(h)'
    BY DEF Locked
  <2>2. CASE h = g
    BY <1>1, <1>2, <1>5, <2>2 DEF Working
  <2>3. CASE h # g
    BY <1>1, <1>2, <1>6, <2>3 DEF Working
  <2>. QED BY <2>2, <2>3
<1>8. ASSUME NEW h \in Goroutines, NEW l
      PROVE  Copying(h, l)' <=> Copying(h, l)
  <2>1. CASE h = g
    BY <1>1, <1>2, <1>5, <2>1 DEF Copying, Step
  <2>2. CASE h # g
    BY <1>2, <2>2 DEF Copying
  <2>. QED BY <2>1, <2>2
<1>9. ASSUME NEW l
      PROVE  Operating(l)' <=> Operating(l)
  BY <1>1, <1>8, Zenon DEF Operating
<1>10. AtRest'
  <2>1. SUFFICES ASSUME NEW h \in Goroutines, NEW l \in Waits, Writes(h, l)'
                 PROVE  holder' = h /\ ~Operating(l)'
    BY DEF AtRest
  <2>2. CASE h = g
    BY <1>1, <1>2, <1>9, <2>1, <2>2 DEF Writes
  <2>3. CASE h # g
    <3>1. Writes(h, l)
      BY <1>2, <2>1, <2>3 DEF Writes
    <3>2. holder = h
      BY <3>1, Zenon DEF AtRest
    <3>. QED BY <1>1, <1>6, <3>2 DEF Goroutines, Free
  <2>. QED BY <2>2, <2>3
<1>11. Disarmed'
  BY <1>1, <1>8, Zenon DEF Disarmed
<1>12. OneTransfer'
  BY <1>1, <1>8, Zenon DEF OneTransfer, Moving
<1>. QED BY <1>3, <1>4, <1>7, <1>10, <1>11, <1>12

(* Events and ticks bring no register write.                                 *)
LEMMA Raised ==
  ASSUME IInv, NEW g \in Goroutines, NEW program \in Seq(Steps), program # <<>>,
         \A i \in 1 .. Len(program) :
           /\ program[i].op \in {"check", "count"}
           /\ program[i].op = "check" => program[i].arg \in 0 .. 6,
         Enter(g, program)
  PROVE  IInv'
<1>1. Shaped(program)
  BY DEF Shaped, Registers
<1>2. Len(program) \in Nat \ {0} /\ 1 \in 1 .. Len(program)
  OBVIOUS
<1>3. program[1].op # "writeBack" /\ \A i \in 1 .. Len(program) : program[i].op \notin Registers
  BY <1>2 DEF Registers
<1>. QED BY <1>1, <1>3, Entered, Zenon

LEMMA EventStep ==
  ASSUME IInv, NEW g \in Goroutines, RaiseEvent(g)
  PROVE  IInv'
<1>1. PICK fs \in Events[g] : Enter(g, Checks(fs))
  BY Zenon DEF RaiseEvent
<1>2. fs \in Seq(0 .. 6) /\ fs # <<>>
  BY DmaAssumption
<1>. QED BY <1>1, <1>2, ChecksShaped, Raised

LEMMA TickStep ==
  ASSUME IInv, Tick
  PROVE  IInv'
<1>1. PICK timer1 \in BOOLEAN : Enter("secondary", Ticks(timer1))
  BY Zenon DEF Tick
<1>2. "secondary" \in Goroutines
  BY DEF Goroutines
<1>. QED BY <1>1, <1>2, TicksShaped, Raised

(* A register write of a level whose software waits finds it at rest.        *)
LEMMA WriteStep ==
  ASSUME IInv, NEW g \in Cpus, NEW l \in Levels, WriteAddress(g, l) \/ WriteMode(g, l) \/ WriteEnable(g, l)
  PROVE  IInv'
<1>1. g \in Goroutines /\ MayProgram(l)
  BY DEF Cpus, Goroutines, WriteAddress, WriteMode, WriteEnable
<1>2. l \in Waits => ~Operating(l)
  BY <1>1, Zenon DEF MayProgram
<1> DEFINE d == Step("drain", l, 0)
<1>3. d \in Steps /\ d.op = "drain" /\ d.level = l
  BY DEF Steps, Step, Registers
<1> HIDE DEF d
<1>4. CASE WriteAddress(g, l)
  <2>1. Enter(g, <<d>>)
    BY <1>4, Zenon DEF WriteAddress, d
  <2>2. <<d>> \in Seq(Steps) /\ <<d>> # <<>> /\ <<d>>[1] = d /\ Len(<<d>>) = 1
    BY <1>3
  <2>3. Shaped(<<d>>)
    BY <1>3, <2>2 DEF Shaped, Registers
  <2>4. \A i \in 1 .. Len(<<d>>) : <<d>>[i].level = l
    BY <1>3, <2>2
  <2>. QED BY <1>1, <1>2, <1>3, <2>1, <2>2, <2>3, <2>4, Entered
<1>5. ASSUME NEW e \in Steps, e.level = l,
             \/ e.op = "mode" /\ e.arg \in 0 .. 7
             \/ e.op = "enable" /\ e.arg \in EnableBits,
             Enter(g, <<d, e>>)
      PROVE  IInv'
  <2>1. /\ <<d, e>> \in Seq(Steps) /\ <<d, e>> # <<>> /\ Len(<<d, e>>) = 2
        /\ <<d, e>>[1] = d /\ <<d, e>>[2] = e /\ 1 .. 2 = {1, 2}
    BY <1>3, <1>5
  <2>2. Shaped(<<d, e>>)
    BY <1>3, <1>5, <2>1 DEF Shaped, Registers
  <2>3. \A i \in 1 .. Len(<<d, e>>) : <<d, e>>[i].level = l
    BY <1>3, <1>5, <2>1
  <2>. QED BY <1>1, <1>2, <1>3, <1>5, <2>1, <2>2, <2>3, Entered
<1>6. CASE WriteMode(g, l)
  <2>1. PICK f \in Modes : Enter(g, <<d, Step("mode", l, f)>>)
    BY <1>6, Zenon DEF WriteMode, d
  <2>2. f \in 0 .. 7
    BY DmaAssumption
  <2>3. LET e == Step("mode", l, f) IN e \in Steps /\ e.level = l /\ e.op = "mode" /\ e.arg = f
    BY <2>2 DEF Steps, Step, Registers
  <2>. QED BY <1>5, <2>1, <2>2, <2>3
<1>7. CASE WriteEnable(g, l)
  <2>1. PICK bits \in EnableBits : Enter(g, <<d, Step("enable", l, bits)>>)
    BY <1>7, Zenon DEF WriteEnable, d, EnableBits
  <2>3. LET e == Step("enable", l, bits) IN e \in Steps /\ e.level = l /\ e.op = "enable" /\ e.arg = bits
    BY DEF Steps, Step, Registers
  <2>. QED BY <1>5, <2>1, <2>3
<1>. QED BY <1>4, <1>6, <1>7

-----------------------------------------------------------------------------
(* One step inside the SCU                                                   *)

First(g) == todo[g][1]

(* Whoever has the lock has a step to do.                                    *)
LEMMA Holding ==
  ASSUME IInv, NEW g \in Goroutines, holder = g
  PROVE  /\ todo[g] \in Seq(Steps) /\ todo[g] # <<>> /\ Shaped(todo[g]) /\ Len(todo[g]) \in Nat \ {0}
         /\ Head(todo[g]) = First(g) /\ First(g) \in Steps /\ First(g).op # "writeBack"
         /\ \A l : ~Copying(g, l)
<1>1. todo[g] \in Seq(Steps) /\ Shaped(todo[g])
  BY DEF IInv, Types, Lists
<1>2. Working(g)
  BY DEF IInv, Locked
<1>3. todo[g] # <<>> /\ Head(todo[g]).op # "writeBack"
  BY <1>2 DEF Working
<1>4. Len(todo[g]) \in Nat \ {0} /\ Head(todo[g]) = First(g) /\ First(g) \in Steps
  BY <1>1, <1>3 DEF First
<1>5. \A l : ~Copying(g, l)
  BY <1>3 DEF Copying, Step
<1>. QED BY <1>1, <1>3, <1>4, <1>5

(* The holder does its first step and nothing else changes in the lists.     *)
LEMMA DoneStep ==
  ASSUME IInv, NEW g \in Goroutines, holder = g, Done(g)
  PROVE  /\ holder' \in Goroutines \cup {Free} /\ todo' \in [Goroutines -> Seq(Steps)]
         /\ Lists' /\ Locked'
         /\ \A h \in Goroutines : \A l : Copying(h, l)' <=> Copying(h, l)
         /\ \A h \in Goroutines, l \in Waits : Writes(h, l)' =>
              h = g /\ First(g).op = "drain" /\ First(g).level = l /\ ~Operating(l) /\ holder' = g
<1> DEFINE s == todo[g]
<1>1. /\ s \in Seq(Steps) /\ s # <<>> /\ Shaped(s) /\ Len(s) \in Nat \ {0}
      /\ First(g) = s[1] /\ s[1].op # "writeBack" /\ \A l : ~Copying(g, l)
  BY Holding DEF First
<1>2. /\ todo' = [todo EXCEPT ![g] = Tail(s)] /\ holder' = IF Len(s) = 1 THEN Free ELSE g
  BY DEF Done
<1>3. /\ todo' \in [Goroutines -> Seq(Steps)] /\ todo'[g] = Tail(s)
      /\ \A h \in Goroutines : h # g => todo'[h] = todo[h]
  BY <1>1, <1>2, TailShaped DEF IInv, Types
<1> HIDE DEF s
<1>4. /\ Len(Tail(s)) = Len(s) - 1 /\ Shaped(Tail(s))
      /\ \A i \in 1 .. Len(Tail(s)) : Tail(s)[i] = s[i + 1]
      /\ Tail(s) # <<>> => Head(Tail(s)).op # "writeBack"
  BY <1>1, TailShaped
<1>5. Tail(s) = <<>> <=> Len(s) = 1
  <2> DEFINE t == Tail(s)
  <2>1. t \in Seq(Steps) /\ Len(t) = Len(s) - 1
    BY <1>1, TailShaped
  <2>. HIDE DEF t
  <2>2. t = <<>> <=> Len(t) = 0
    BY <2>1
  <2>3. t = <<>> <=> Len(s) = 1
    BY <1>1, <2>1, <2>2
  <2>. QED BY <2>3 DEF t
<1>6. g # Free /\ \A h \in Goroutines : h # g => ~Working(h)
  BY DEF IInv, Locked, Goroutines, Free
<1>7. Lists'
  <2>1. SUFFICES ASSUME NEW h \in Goroutines  PROVE Shaped(todo'[h])
    BY Zenon DEF Lists, Shaped
  <2>. QED BY <1>3, <1>4, Zenon DEF Lists, IInv
<1>8. Locked'
  <2>1. SUFFICES ASSUME NEW h \in Goroutines  PROVE holder' = h <=> Working(h)'
    BY DEF Locked
  <2>2. CASE h = g
    BY <1>2, <1>3, <1>4, <1>5, <1>6, <2>2 DEF Working
  <2>3. CASE h # g
    BY <1>2, <1>3, <1>6, <2>3 DEF Working, Goroutines, Free
  <2>. QED BY <2>2, <2>3
<1>9. ASSUME NEW h \in Goroutines, NEW l
      PROVE  Copying(h, l)' <=> Copying(h, l)
  <2>1. CASE h = g
    <3>1. ~Copying(g, l)'
      BY <1>3, <1>4 DEF Copying, Step
    <3>. QED BY <1>1, <2>1, <3>1
  <2>2. CASE h # g
    BY <1>3, <2>2 DEF Copying
  <2>. QED BY <2>1, <2>2
<1>10. ASSUME NEW h \in Goroutines, NEW l \in Waits, Writes(h, l)'
       PROVE  h = g /\ First(g).op = "drain" /\ First(g).level = l /\ ~Operating(l) /\ holder' = g
  <2>1. CASE h # g
    <3>1. Writes(h, l)
      BY <1>3, <1>10, <2>1 DEF Writes
    <3>. QED BY <2>1, <3>1 DEF AtRest, IInv
  <2>2. CASE h = g
    <3>1. PICK j \in 1 .. Len(Tail(s)) : s[j + 1].op \in Registers /\ s[j + 1].level = l
      BY <1>3, <1>4, <1>10, <2>2 DEF Writes
    <3>2. j \in Nat \ {0} /\ j + 1 \in 1 .. Len(s) /\ Len(s) # 1
      BY <1>1, <1>4, <3>1
    <3>3. s[1].op \in Registers /\ s[1].level = l /\ 1 \in 1 .. Len(s)
      BY <1>1, <3>1, <3>2 DEF Shaped
    <3>4. s[1].op = "drain"
      BY <1>1, <3>2, <3>3 DEF Shaped, Registers
    <3>5. Writes(g, l)
      BY <3>3 DEF Writes, s
    <3>6. ~Operating(l)
      BY <3>5, Zenon DEF AtRest, IInv
    <3>. QED BY <1>1, <1>2, <2>2, <3>2, <3>3, <3>4, <3>6
  <2>. QED BY <2>1, <2>2
<1>. QED BY <1>2, <1>3, <1>7, <1>8, <1>9, <1>10

(* The holder starts a copy, and drops the lock for it.                      *)
LEMMA CopyStep ==
  ASSUME IInv, NEW g \in Goroutines, holder = g, NEW k \in Levels, First(g).level = k, StartCopy(g, k)
  PROVE  /\ holder' \in Goroutines \cup {Free} /\ todo' \in [Goroutines -> Seq(Steps)]
         /\ Lists' /\ Locked'
         /\ \A h \in Goroutines : \A l : Copying(h, l)' <=> (h = g /\ l = k) \/ Copying(h, l)
         /\ \A h \in Goroutines, l \in Waits : Writes(h, l)' =>
              h = g /\ First(g).op = "drain" /\ First(g).level = l /\ ~Operating(l)
<1> DEFINE s == todo[g]
           w == Step("writeBack", k, 0)
           t == <<w>> \o Tail(s)
<1>1. /\ s \in Seq(Steps) /\ s # <<>> /\ Shaped(s) /\ Len(s) \in Nat \ {0}
      /\ First(g) = s[1] /\ s[1].op # "writeBack" /\ \A l : ~Copying(g, l)
  BY Holding DEF First
<1>2. /\ todo' = [todo EXCEPT ![g] = t] /\ holder' = Free
  BY DEF StartCopy
<1>3. /\ t \in Seq(Steps) /\ Len(t) = Len(s) /\ t # <<>> /\ Head(t) = w
      /\ \A i \in 2 .. Len(t) : t[i] = s[i]
      /\ Shaped(t)
  BY <1>1, CopyShaped
<1>4. w.op = "writeBack" /\ w.level = k /\ w = Step("writeBack", k, 0) /\ t[1] = w
  BY <1>3 DEF Step
<1> HIDE DEF s, w, t
<1>5. /\ todo' \in [Goroutines -> Seq(Steps)] /\ todo'[g] = t
      /\ \A h \in Goroutines : h # g => todo'[h] = todo[h]
  BY <1>2, <1>3 DEF IInv, Types
<1>6. \A h \in Goroutines : h # Free /\ (h # g => ~Working(h))
  BY DEF IInv, Locked, Goroutines, Free
<1>7. Lists'
  <2>1. SUFFICES ASSUME NEW h \in Goroutines  PROVE Shaped(todo'[h])
    BY Zenon DEF Lists, Shaped
  <2>. QED BY <1>3, <1>5, Zenon DEF Lists, IInv
<1>8. Locked'
  <2>1. SUFFICES ASSUME NEW h \in Goroutines  PROVE holder' # h /\ ~Working(h)'
    BY DEF Locked
  <2>2. CASE h = g
    BY <1>2, <1>3, <1>4, <1>5, <1>6, <2>2 DEF Working
  <2>3. CASE h # g
    BY <1>2, <1>5, <1>6, <2>3 DEF Working
  <2>. QED BY <2>2, <2>3
<1>9. ASSUME NEW h \in Goroutines, NEW l
      PROVE  Copying(h, l)' <=> (h = g /\ l = k) \/ Copying(h, l)
  <2>1. CASE h = g
    <3>1. Copying(g, l)' <=> w = Step("writeBack", l, 0)
      BY <1>3, <1>5 DEF Copying
    <3>2. w = Step("writeBack", l, 0) <=> l = k
      BY DEF Step, w
    <3>. QED BY <1>1, <2>1, <3>1, <3>2
  <2>2. CASE h # g
    BY <1>5, <2>2 DEF Copying
  <2>. QED BY <2>1, <2>2
<1>10. ASSUME NEW h \in Goroutines, NEW l \in Waits, Writes(h, l)'
       PROVE  h = g /\ First(g).op = "drain" /\ First(g).level = l /\ ~Operating(l)
  <2>1. CASE h # g
    <3>1. Writes(h, l)
      BY <1>5, <1>10, <2>1 DEF Writes
    <3>. QED BY <2>1, <3>1 DEF AtRest, IInv
  <2>2. CASE h = g
    <3>1. PICK i \in 1 .. Len(t) : t[i].op \in Registers /\ t[i].level = l
      BY <1>5, <1>10, <2>2 DEF Writes
    <3>2. i # 1
      BY <1>4, <3>1 DEF Registers
    <3>3. i \in 2 .. Len(t) /\ i \in 1 .. Len(s) /\ t[i] = s[i]
      BY <1>1, <1>3, <3>1, <3>2
    <3>4. s[1].op \in Registers /\ s[1].level = l /\ 1 \in 1 .. Len(s)
      BY <1>1, <3>1, <3>3 DEF Shaped
    <3>5. s[1].op = "drain"
      BY <1>1, <3>2, <3>3, <3>4 DEF Shaped, Registers
    <3>6. Writes(g, l)
      BY <3>4 DEF Writes, s
    <3>7. ~Operating(l)
      BY <3>6, Zenon DEF AtRest, IInv
    <3>. QED BY <1>1, <2>2, <3>4, <3>5, <3>7
  <2>. QED BY <2>1, <2>2
<1>. QED BY <1>2, <1>5, <1>7, <1>8, <1>9, <1>10

(* A level that ends was moving, so nobody copies for it (finishDMA).        *)
LEMMA Finished ==
  ASSUME IInv, NEW g \in Goroutines, holder = g, NEW l \in Levels, First(g).level = l,
         dmaDelay[l] >= 0, Finish(g, l), UNCHANGED <<factor, en>>
  PROVE  IInv'
<1> USE DEF IInv
<1>1. /\ dmaDelay' = [dmaDelay EXCEPT ![l] = -1] /\ ended' = l
      /\ factor' = factor /\ en' = en
      /\ \/ dmaPending' = [dmaPending EXCEPT ![l] = FALSE] /\ StartCopy(g, l)
         \/ Done(g) /\ dmaPending' = dmaPending
  BY Zenon DEF Finish
<1>2. /\ dmaDelay' \in [Levels -> Int] /\ dmaDelay'[l] = -1
      /\ \A k \in Levels : k # l => dmaDelay'[k] = dmaDelay[k]
      /\ dmaPending' \in [Levels -> BOOLEAN]
      /\ \A k \in Levels : k # l => (dmaPending'[k] <=> dmaPending[k])
  <2>1. /\ dmaDelay' \in [Levels -> Int] /\ dmaDelay'[l] = -1
        /\ \A k \in Levels : k # l => dmaDelay'[k] = dmaDelay[k]
    BY <1>1 DEF Types
  <2>2. dmaPending' \in [Levels -> BOOLEAN]
    BY <1>1 DEF Types
  <2>3. \A k \in Levels : k # l => dmaPending'[k] = dmaPending[k]
    BY <1>1 DEF Types
  <2>4. \A k \in Levels : k # l => (dmaPending'[k] <=> dmaPending[k])
    BY <2>3
  <2>. QED BY <2>1, <2>2, <2>4
<1>3. Waits \subseteq Levels
  BY DmaAssumption
<1>4. l \in Waits => \A h \in Goroutines : ~Copying(h, l)
  BY DEF OneTransfer, Moving
<1>5. Operating(l)
  BY DEF Operating
<1>6. CASE dmaPending' = [dmaPending EXCEPT ![l] = FALSE] /\ StartCopy(g, l)
  <2>1. /\ holder' \in Goroutines \cup {Free} /\ todo' \in [Goroutines -> Seq(Steps)] /\ Lists' /\ Locked'
        /\ \A h \in Goroutines : \A k : Copying(h, k)' <=> (h = g /\ k = l) \/ Copying(h, k)
        /\ \A h \in Goroutines, k \in Waits : Writes(h, k)' => First(g).level = k /\ ~Operating(k)
    BY <1>6, CopyStep, Zenon
  <2>2. AtRest'
    BY <1>5, <2>1, Zenon DEF AtRest
  <2>3. ~dmaPending'[l]
    BY <1>6 DEF Types
  <2>4. Disarmed'
    BY <1>1, <1>2, <1>3, <2>1, <2>3, Zenon DEF Disarmed
  <2>5. OneTransfer'
    <3>1. ~(dmaDelay'[l] >= 0)
      BY <1>2
    <3>. QED BY <1>2, <1>3, <1>4, <2>1, <3>1, Zenon DEF OneTransfer, Moving
  <2>6. Types'
    BY <1>1, <1>2, <2>1 DEF Types
  <2>. QED BY <2>1, <2>2, <2>4, <2>5, <2>6
<1>7. CASE Done(g) /\ dmaPending' = dmaPending
  <2>1. /\ holder' \in Goroutines \cup {Free} /\ todo' \in [Goroutines -> Seq(Steps)] /\ Lists' /\ Locked'
        /\ \A h \in Goroutines : \A k : Copying(h, k)' <=> Copying(h, k)
        /\ \A h \in Goroutines, k \in Waits : Writes(h, k)' => First(g).level = k /\ ~Operating(k)
    BY <1>7, DoneStep, Zenon
  <2>2. AtRest'
    BY <1>5, <2>1, Zenon DEF AtRest
  <2>3. Disarmed'
    BY <1>1, <1>7, <2>1, Zenon DEF Disarmed
  <2>4. OneTransfer'
    BY <1>2, <1>3, <1>4, <2>1, Zenon DEF OneTransfer, Moving
  <2>5. Types'
    BY <1>1, <1>2, <2>1 DEF Types
  <2>. QED BY <2>1, <2>2, <2>3, <2>4, <2>5
<1>. QED BY <1>1, <1>6, <1>7

(* A step that is done without a copy and sets no countdown.                 *)
LEMMA Settled ==
  ASSUME IInv, NEW g \in Goroutines, holder = g, Done(g),
         factor' \in [Levels -> 0 .. 7], en' \in [Levels -> EnableBits], dmaPending' \in [Levels -> BOOLEAN],
         dmaDelay' \in [Levels -> Int],
         \A k \in Levels : Moving(k)' => Moving(k),
         \A k \in Levels : First(g).op = "drain" /\ First(g).level = k => dmaDelay'[k] = dmaDelay[k],
         \A k \in Waits : \A h \in Goroutines :
           Copying(h, k) => (dmaPending'[k] => dmaPending[k]) /\ factor'[k] = factor[k]
  PROVE  IInv'
<1> USE DEF IInv
<1>1. Waits \subseteq Levels
  BY DmaAssumption
<1>2. /\ holder' \in Goroutines \cup {Free} /\ todo' \in [Goroutines -> Seq(Steps)] /\ Lists' /\ Locked'
      /\ \A h \in Goroutines : \A k : Copying(h, k)' <=> Copying(h, k)
      /\ \A h \in Goroutines, k \in Waits : Writes(h, k)' =>
           h = g /\ First(g).op = "drain" /\ First(g).level = k /\ ~Operating(k) /\ holder' = g
  BY DoneStep, Zenon
<1>3. AtRest'
  <2>1. SUFFICES ASSUME NEW h \in Goroutines, NEW k \in Waits, Writes(h, k)'
                 PROVE  holder' = h /\ ~Operating(k)'
    BY Zenon DEF AtRest
  <2>2. h = g /\ First(g).op = "drain" /\ First(g).level = k /\ ~Operating(k) /\ holder' = g
    BY <1>2, <2>1, Zenon
  <2>3. dmaDelay'[k] = dmaDelay[k]
    BY <1>1, <2>2
  <2>4. ~Operating(k)'
    BY <1>2, <2>2, <2>3, Zenon DEF Operating
  <2>. QED BY <2>2, <2>4
<1>4. Disarmed'
  BY <1>2, Zenon DEF Disarmed
<1>5. OneTransfer'
  BY <1>1, <1>2, Zenon DEF OneTransfer
<1>6. Types'
  BY <1>2 DEF Types
<1>. QED BY <1>2, <1>3, <1>4, <1>5, <1>6

(* A level starts: it was not moving, and nobody copied for it.              *)
LEMMA Started ==
  ASSUME IInv, NEW g \in Goroutines, holder = g, NEW l \in Levels, First(g).level = l, First(g).op # "drain",
         StartCopy(g, l),
         factor' = factor, en' \in [Levels -> EnableBits], dmaPending' \in [Levels -> BOOLEAN], dmaDelay' = dmaDelay,
         \A k \in Levels : k # l => (dmaPending'[k] <=> dmaPending[k]),
         ~dmaPending'[l] \/ factor[l] = 7,
         l \in Waits => ~Operating(l)
  PROVE  IInv'
<1> USE DEF IInv
<1>1. Waits \subseteq Levels
  BY DmaAssumption
<1>2. /\ holder' \in Goroutines \cup {Free} /\ todo' \in [Goroutines -> Seq(Steps)] /\ Lists' /\ Locked'
      /\ \A h \in Goroutines : \A k : Copying(h, k)' <=> (h = g /\ k = l) \/ Copying(h, k)
      /\ \A h \in Goroutines, k \in Waits : Writes(h, k)' => First(g).op = "drain"
  BY CopyStep, Zenon
<1>3. AtRest'
  BY <1>2, Zenon DEF AtRest
<1>4. l \in Waits => ~Moving(l) /\ \A h \in Goroutines : ~Copying(h, l)
  BY Zenon DEF Operating, Moving
<1>5. Disarmed'
  BY <1>1, <1>2, Zenon DEF Disarmed
<1>6. OneTransfer'
  <2>1. \A k \in Levels : Moving(k)' <=> Moving(k)
    BY Zenon DEF Moving
  <2>2. SUFFICES ASSUME NEW k \in Waits
                 PROVE  /\ Moving(k)' => \A h \in Goroutines : ~Copying(h, k)'
                        /\ \A h, i \in Goroutines : Copying(h, k)' /\ Copying(i, k)' => h = i
    BY Zenon DEF OneTransfer
  <2>3. /\ Moving(k) => \A h \in Goroutines : ~Copying(h, k)
        /\ \A h, i \in Goroutines : Copying(h, k) /\ Copying(i, k) => h = i
    BY Zenon DEF OneTransfer
  <2>4. CASE k = l
    BY <1>1, <1>2, <1>4, <2>1, <2>4, Zenon
  <2>5. CASE k # l
    BY <1>1, <1>2, <2>1, <2>3, <2>5, Zenon
  <2>. QED BY <2>4, <2>5
<1>7. Types'
  BY <1>2 DEF Types
<1>. QED BY <1>2, <1>3, <1>5, <1>6, <1>7

(* A register write finds the level of software that waits at rest.          *)
LEMMA Resting ==
  ASSUME IInv, NEW g \in Goroutines, holder = g, First(g).op \in Registers, First(g).level \in Waits
  PROVE  ~Operating(First(g).level)
<1>1. 1 \in 1 .. Len(todo[g])
  BY Holding
<1>2. Writes(g, First(g).level)
  BY <1>1 DEF Writes, First
<1>. QED BY <1>2, Zenon DEF IInv, AtRest

LEMMA Inside ==
  ASSUME IInv, NEW g \in Goroutines, NEW op, At(g, op)
  PROVE  holder = g /\ First(g).op = op /\ Head(todo[g]) = First(g) /\ First(g).level \in Levels
<1>1. holder = g /\ Head(todo[g]).op = op
  BY DEF At
<1>2. Head(todo[g]) = First(g) /\ First(g) \in Steps
  BY <1>1, Holding
<1>. QED BY <1>1, <1>2 DEF Steps

LEMMA CheckStep ==
  ASSUME IInv, NEW g \in Goroutines, Check(g)
  PROVE  IInv'
<1> DEFINE l == First(g).level
           f == First(g).arg
           fires == dmaPending[l] /\ "enable" \in en[l] /\ factor[l] = f /\ dmaDelay[l] < 0
<1>1. /\ holder = g /\ First(g).op = "check" /\ Head(todo[g]) = First(g) /\ l \in Levels
  BY Inside DEF Check
<1>2. f \in 0 .. 6
  <2>1. 1 \in 1 .. Len(todo[g]) /\ Shaped(todo[g])
    BY <1>1, Holding
  <2>. QED BY <1>1, <2>1 DEF Shaped, First
<1>3. /\ dmaPending' = [dmaPending EXCEPT ![l] = @ /\ "enable" \in en[l] /\ ~fires]
      /\ IF fires THEN StartCopy(g, l) ELSE Done(g)
      /\ factor' = factor /\ en' = en /\ dmaDelay' = dmaDelay
  BY <1>1, Zenon DEF Check
<1>4. dmaPending' \in [Levels -> BOOLEAN]
  BY <1>1, <1>3 DEF IInv, Types
<1>5. \A k \in Levels : k # l => dmaPending'[k] = dmaPending[k]
  BY <1>1, <1>3 DEF IInv, Types
<1>6. dmaPending'[l] <=> dmaPending[l] /\ "enable" \in en[l] /\ ~fires
  BY <1>1, <1>3 DEF IInv, Types
<1> HIDE DEF l, f
<1>7. CASE fires
  <2>1. factor[l] \in 0 .. 6 /\ ~(dmaDelay[l] >= 0) /\ dmaPending[l]
    BY <1>1, <1>2, <1>7 DEF IInv, Types
  <2>2. l \in Waits => ~Operating(l)
    <3>1. ASSUME l \in Waits, NEW h \in Goroutines, Copying(h, l)
          PROVE  FALSE
      <4>1. factor[l] = 7
        BY <2>1, <3>1, Zenon DEF IInv, Disarmed
      <4>. QED BY <2>1, <4>1
    <3>. QED BY <2>1, <3>1, Zenon DEF Operating
  <2>3. ~dmaPending'[l]
    BY <1>6, <1>7, Zenon
  <2>4. en' \in [Levels -> EnableBits]
    BY <1>3 DEF IInv, Types
  <2>5. \A k \in Levels : k # l => (dmaPending'[k] <=> dmaPending[k])
    BY <1>5
  <2>6. StartCopy(g, l) /\ First(g).level = l /\ First(g).op # "drain"
    BY <1>1, <1>3, <1>7 DEF l
  <2>. QED BY <1>1, <1>3, <1>4, <2>2, <2>3, <2>4, <2>5, <2>6, Started
<1>8. CASE ~fires
  <2>1. Done(g)
    BY <1>3, <1>8, Zenon
  <2>2. \A k \in Levels : (dmaPending'[k] => dmaPending[k]) /\ factor'[k] = factor[k]
    <3>1. \A k \in Levels : k # l => (dmaPending'[k] <=> dmaPending[k])
      BY <1>5
    <3>. QED BY <1>3, <1>6, <3>1, Zenon
  <2>3. factor' \in [Levels -> 0 .. 7] /\ en' \in [Levels -> EnableBits] /\ dmaDelay' \in [Levels -> Int]
    BY <1>3 DEF IInv, Types
  <2>4. \A k \in Levels : Moving(k)' => Moving(k)
    BY <1>3, Zenon DEF Moving
  <2>. QED BY <1>1, <1>3, <1>4, <2>1, <2>2, <2>3, <2>4, DmaAssumption, Settled
<1>. QED BY <1>7, <1>8

LEMMA CountStep ==
  ASSUME IInv, NEW g \in Goroutines, Count(g)
  PROVE  IInv'
<1> DEFINE l == First(g).level
<1>1. /\ holder = g /\ First(g).op = "count" /\ Head(todo[g]) = First(g) /\ l \in Levels
  BY Inside DEF Count
<1>2. dmaDelay[l] \in Int
  BY <1>1 DEF IInv, Types
<1>3. CASE dmaDelay[l] \in {0, 1}
  <2>1. Finish(g, l) /\ UNCHANGED <<factor, en>>
    BY <1>1, <1>3, Zenon DEF Count
  <2>2. dmaDelay[l] >= 0
    BY <1>3
  <2>. QED BY <1>1, <2>1, <2>2, Finished
<1>4. CASE dmaDelay[l] \notin {0, 1}
  <2>1. /\ dmaDelay' = [dmaDelay EXCEPT ![l] = IF @ < 0 THEN @ ELSE @ - 1]
        /\ Done(g) /\ dmaPending' = dmaPending /\ factor' = factor /\ en' = en
    BY <1>1, <1>4, Zenon DEF Count
  <2>2. /\ factor' \in [Levels -> 0 .. 7] /\ en' \in [Levels -> EnableBits] /\ dmaPending' \in [Levels -> BOOLEAN]
        /\ dmaDelay' \in [Levels -> Int]
        /\ \A k \in Levels : dmaDelay'[k] >= 0 => dmaDelay[k] >= 0
    BY <1>1, <1>2, <2>1 DEF IInv, Types
  <2>3. \A k \in Levels : Moving(k)' => Moving(k)
    BY <2>2, Zenon DEF Moving
  <2>4. \A k \in Levels : (dmaPending'[k] => dmaPending[k]) /\ factor'[k] = factor[k]
    BY <2>1, Zenon
  <2>. QED BY <1>1, <2>1, <2>2, <2>3, <2>4, DmaAssumption, Settled
<1>. QED BY <1>3, <1>4

LEMMA DrainStep ==
  ASSUME IInv, NEW g \in Goroutines, Drain(g)
  PROVE  IInv'
<1> DEFINE l == First(g).level
<1>1. /\ holder = g /\ First(g).op = "drain" /\ Head(todo[g]) = First(g) /\ l \in Levels
  BY Inside DEF Drain
<1>2. CASE dmaDelay[l] >= 0
  <2>1. Finish(g, l) /\ UNCHANGED <<factor, en>>
    BY <1>1, <1>2, Zenon DEF Drain
  <2>. QED BY <1>1, <1>2, <2>1, Finished
<1>3. CASE ~(dmaDelay[l] >= 0)
  <2>1. Done(g) /\ dmaDelay' = dmaDelay /\ dmaPending' = dmaPending /\ factor' = factor /\ en' = en
    BY <1>1, <1>3, Zenon DEF Drain
  <2>2. /\ factor' \in [Levels -> 0 .. 7] /\ en' \in [Levels -> EnableBits] /\ dmaPending' \in [Levels -> BOOLEAN]
        /\ dmaDelay' \in [Levels -> Int]
    BY <2>1 DEF IInv, Types
  <2>3. \A k \in Levels : Moving(k)' => Moving(k)
    BY <2>1, Zenon DEF Moving
  <2>4. \A k \in Levels : (dmaPending'[k] => dmaPending[k]) /\ factor'[k] = factor[k]
    BY <2>1, Zenon
  <2>. QED BY <1>1, <2>1, <2>2, <2>3, <2>4, DmaAssumption, Settled
<1>. QED BY <1>2, <1>3

LEMMA ModeStep ==
  ASSUME IInv, NEW g \in Goroutines, SetMode(g)
  PROVE  IInv'
<1> DEFINE l == First(g).level
<1>1. /\ holder = g /\ First(g).op = "mode" /\ Head(todo[g]) = First(g) /\ l \in Levels
  BY Inside DEF SetMode
<1>2. /\ factor' = [factor EXCEPT ![l] = First(g).arg]
      /\ Done(g) /\ en' = en /\ dmaPending' = dmaPending /\ dmaDelay' = dmaDelay
  BY <1>1, Zenon DEF SetMode
<1>3. First(g).arg \in 0 .. 7
  <2>1. 1 \in 1 .. Len(todo[g]) /\ Shaped(todo[g])
    BY <1>1, Holding
  <2>. QED BY <1>1, <2>1 DEF Shaped, First
<1>4. /\ factor' \in [Levels -> 0 .. 7] /\ en' \in [Levels -> EnableBits] /\ dmaPending' \in [Levels -> BOOLEAN]
      /\ dmaDelay' \in [Levels -> Int]
      /\ \A k \in Levels : k # l => factor'[k] = factor[k]
  BY <1>1, <1>2, <1>3 DEF IInv, Types
<1>5. \A k \in Levels : Moving(k)' => Moving(k)
  BY <1>2, Zenon DEF Moving
<1>6. l \in Waits => \A h \in Goroutines : ~Copying(h, l)
  <2>1. l \in Waits => ~Operating(l)
    BY <1>1, Resting DEF Registers
  <2>. QED BY <2>1, Zenon DEF Operating
<1>7. \A k \in Waits : \A h \in Goroutines :
        Copying(h, k) => (dmaPending'[k] => dmaPending[k]) /\ factor'[k] = factor[k]
  <2>. HIDE DEF l
  <2>. QED BY <1>2, <1>4, <1>6, DmaAssumption, Zenon
<1>. QED BY <1>1, <1>2, <1>4, <1>5, <1>7, Settled

LEMMA EnableStep ==
  ASSUME IInv, NEW g \in Goroutines, SetEnable(g)
  PROVE  IInv'
<1> DEFINE l == First(g).level
           bits == First(g).arg
<1>1. /\ holder = g /\ First(g).op = "enable" /\ Head(todo[g]) = First(g) /\ l \in Levels
  BY Inside DEF SetEnable
<1>2. /\ en' = [en EXCEPT ![l] = bits] /\ factor' = factor /\ dmaDelay' = dmaDelay
      /\ \/ factor[l] = 7 /\ StartCopy(g, l) /\ dmaPending' = dmaPending
         \/ dmaPending' = [dmaPending EXCEPT ![l] = TRUE] /\ Done(g)
         \/ Done(g) /\ dmaPending' = dmaPending
  BY <1>1, Zenon DEF SetEnable
<1>3. bits \in EnableBits
  <2>1. 1 \in 1 .. Len(todo[g]) /\ Shaped(todo[g])
    BY <1>1, Holding
  <2>. QED BY <1>1, <2>1 DEF Shaped, First
<1>4. /\ factor' \in [Levels -> 0 .. 7] /\ en' \in [Levels -> EnableBits] /\ dmaDelay' \in [Levels -> Int]
  BY <1>1, <1>2, <1>3 DEF IInv, Types
<1>5. dmaPending' \in [Levels -> BOOLEAN] /\ \A k \in Levels : k # l => dmaPending'[k] = dmaPending[k]
  BY <1>1, <1>2 DEF IInv, Types
<1>6. \A k \in Levels : k # l => (dmaPending'[k] <=> dmaPending[k])
  BY <1>5
<1>7. l \in Waits => ~Operating(l)
  BY <1>1, Resting DEF Registers
<1>8. CASE factor[l] = 7 /\ StartCopy(g, l)
  BY <1>1, <1>2, <1>4, <1>5, <1>6, <1>7, <1>8, Started
<1>9. CASE Done(g)
  <2>1. \A k \in Levels : Moving(k)' => Moving(k)
    BY <1>2, Zenon DEF Moving
  <2>2. \A k \in Waits : \A h \in Goroutines :
          Copying(h, k) => (dmaPending'[k] => dmaPending[k]) /\ factor'[k] = factor[k]
    <3>. HIDE DEF l
    <3>. QED BY <1>2, <1>6, <1>7, DmaAssumption, Zenon DEF Operating
  <2>. QED BY <1>1, <1>2, <1>4, <1>5, <1>9, <2>1, <2>2, Settled
<1>. QED BY <1>2, <1>8, <1>9
(* The copy is over; with the lock free, no register write of a level whose  *)
(* software waits is under way.                                              *)
LEMMA WriteBackStep ==
  ASSUME IInv, NEW g \in Goroutines, WriteBack(g)
  PROVE  IInv'
<1> USE DEF IInv
<1> DEFINE s == todo[g]
           l == s[1].level
<1>1. /\ s \in Seq(Steps) /\ s # <<>> /\ Shaped(s) /\ Len(s) \in Nat \ {0} /\ 1 \in 1 .. Len(s)
      /\ Head(s) = s[1] /\ s[1] \in Steps /\ s[1].op = "writeBack" /\ l \in Levels
  <2>1. s \in Seq(Steps) /\ Shaped(s) /\ s # <<>> /\ Head(s).op = "writeBack"
    BY DEF Types, Lists, WriteBack
  <2>. HIDE DEF s
  <2>2. Len(s) \in Nat \ {0} /\ 1 \in 1 .. Len(s) /\ Head(s) = s[1] /\ s[1] \in Steps
    BY <2>1
  <2>. QED BY <2>1, <2>2 DEF Steps
<1>2. /\ holder = Free /\ dmaDelay' = [dmaDelay EXCEPT ![l] = Cost]
      /\ todo' = [todo EXCEPT ![g] = Tail(s)] /\ holder' = IF Len(s) = 1 THEN Free ELSE g
      /\ factor' = factor /\ en' = en /\ dmaPending' = dmaPending
  BY <1>1 DEF WriteBack, Done
<1>3. Copying(g, l)
  <2>1. s[1].arg = 0
    BY <1>1 DEF Shaped
  <2>2. s[1] = Step("writeBack", l, 0)
    BY <1>1, <2>1 DEF Steps, Step
  <2>. QED BY <1>1, <2>2 DEF Copying
<1>4. /\ todo' \in [Goroutines -> Seq(Steps)] /\ todo'[g] = Tail(s)
      /\ \A h \in Goroutines : h # g => todo'[h] = todo[h]
  BY <1>1, <1>2, TailShaped DEF Types
<1> HIDE DEF s
<1>5. /\ Tail(s) \in Seq(Steps) /\ Len(Tail(s)) = Len(s) - 1 /\ Shaped(Tail(s))
      /\ \A i \in 1 .. Len(Tail(s)) : Tail(s)[i] = s[i + 1]
      /\ Tail(s) # <<>> => Head(Tail(s)).op # "writeBack"
  BY <1>1, TailShaped
<1>6. Tail(s) = <<>> <=> Len(s) = 1
  <2> DEFINE t == Tail(s)
  <2>1. t \in Seq(Steps) /\ Len(t) = Len(s) - 1
    BY <1>5
  <2>. HIDE DEF t
  <2>2. t = <<>> <=> Len(t) = 0
    BY <2>1
  <2>3. t = <<>> <=> Len(s) = 1
    BY <1>1, <2>1, <2>2
  <2>. QED BY <2>3 DEF t
<1>7. \A h \in Goroutines : h # Free /\ ~Working(h) /\ \A k \in Waits : ~Writes(h, k)
  BY <1>2 DEF Locked, AtRest, Goroutines, Free
<1>8. /\ dmaDelay' \in [Levels -> Int] /\ \A k \in Levels : k # l => dmaDelay'[k] = dmaDelay[k]
  BY <1>1, <1>2, DmaAssumption DEF Types
<1>9. Types'
  BY <1>2, <1>4, <1>8 DEF Types
<1>10. Lists'
  <2>1. SUFFICES ASSUME NEW h \in Goroutines  PROVE Shaped(todo'[h])
    BY Zenon DEF Lists, Shaped
  <2>. QED BY <1>4, <1>5, Zenon DEF Lists
<1>11. Locked'
  <2>1. SUFFICES ASSUME NEW h \in Goroutines  PROVE holder' = h <=> Working(h)'
    BY DEF Locked
  <2>2. CASE h = g
    BY <1>2, <1>4, <1>5, <1>6, <1>7, <2>2 DEF Working
  <2>3. CASE h # g
    BY <1>2, <1>4, <1>7, <2>3 DEF Working
  <2>. QED BY <2>2, <2>3
<1>12. ASSUME NEW h \in Goroutines, NEW k
       PROVE  Copying(h, k)' <=> h # g /\ Copying(h, k)
  <2>1. CASE h = g
    BY <1>4, <1>5, <2>1 DEF Copying, Step
  <2>2. CASE h # g
    BY <1>4, <2>2 DEF Copying
  <2>. QED BY <2>1, <2>2
<1>13. AtRest'
  <2>1. SUFFICES ASSUME NEW h \in Goroutines, NEW k \in Waits, Writes(h, k)'
                 PROVE  FALSE
    BY DEF AtRest
  <2>2. CASE h # g
    BY <1>4, <1>7, <2>1, <2>2 DEF Writes
  <2>3. CASE h = g
    <3>1. PICK j \in 1 .. Len(Tail(s)) : s[j + 1].op \in Registers /\ s[j + 1].level = k
      BY <1>4, <1>5, <2>1, <2>3 DEF Writes
    <3>2. j + 1 \in 1 .. Len(s)
      BY <1>1, <1>5, <3>1
    <3>3. Writes(g, k)
      BY <3>1, <3>2 DEF Writes, s
    <3>. QED BY <1>7, <3>3
  <2>. QED BY <2>2, <2>3
<1>14. Disarmed'
  BY <1>2, <1>12, Zenon DEF Disarmed
<1>15. OneTransfer'
  <2>1. SUFFICES ASSUME NEW k \in Waits
                 PROVE  /\ Moving(k)' => \A h \in Goroutines : ~Copying(h, k)'
                        /\ \A h, i \in Goroutines : Copying(h, k)' /\ Copying(i, k)' => h = i
    BY Zenon DEF OneTransfer
  <2>2. /\ Moving(k) => \A h \in Goroutines : ~Copying(h, k)
        /\ \A h, i \in Goroutines : Copying(h, k) /\ Copying(i, k) => h = i
    BY Zenon DEF OneTransfer
  <2>3. CASE k = l
    BY <1>3, <1>12, <2>2, <2>3, Zenon
  <2>4. CASE k # l
    <3>1. Moving(k)' <=> Moving(k)
      BY <1>8, <2>4, DmaAssumption DEF Moving
    <3>. QED BY <1>12, <2>2, <3>1, Zenon
  <2>. QED BY <2>3, <2>4
<1>. QED BY <1>9, <1>10, <1>11, <1>13, <1>14, <1>15

(* A reset finds nobody inside, so it meets no copy and no register write.   *)
LEMMA ResetStep ==
  ASSUME IInv, Reset
  PROVE  IInv'
<1> USE DEF IInv
<1>1. /\ \A g \in Goroutines : todo[g] = <<>>
      /\ en' = [k \in Levels |-> {}] /\ factor' = [k \in Levels |-> 7]
      /\ dmaPending' = [k \in Levels |-> FALSE] /\ dmaDelay' = [k \in Levels |-> -1]
      /\ holder' = holder /\ todo' = todo
  BY DEF Reset
<1>2. Types'
  BY <1>1 DEF Types, EnableBits
<1>3. Lists' /\ Locked'
  BY <1>1, Zenon DEF Lists, Locked, Working
<1>4. \A g \in Goroutines : \A k : ~Copying(g, k)' /\ ~Writes(g, k)'
  BY <1>1 DEF Copying, Writes
<1>5. AtRest' /\ Disarmed' /\ OneTransfer'
  BY <1>4, Zenon DEF AtRest, Disarmed, OneTransfer
<1>. QED BY <1>2, <1>3, <1>5

-----------------------------------------------------------------------------
(* The invariant holds from power-on (NewSCU): the lock is held by whoever   *)
(* is inside and not copying, and a level whose software waits is programmed *)
(* at rest and disarmed while it copies, unless it starts at once.           *)
THEOREM Inductive == Spec => []IInv
<1>1. Init => IInv
  <2>1. SUFFICES ASSUME Init  PROVE IInv
    OBVIOUS
  <2>2. /\ holder = Free /\ \A g \in Goroutines : todo[g] = <<>>
        /\ todo = [g \in Goroutines |-> <<>>]
    BY <2>1 DEF Init
  <2>3. Types
    BY <2>1, <2>2 DEF Init, Types, EnableBits
  <2>4. Lists
    BY <2>2 DEF Lists, Shaped
  <2>5. Locked
    BY <2>2 DEF Locked, Working, Goroutines, Free
  <2>6. \A g \in Goroutines : \A k : ~Copying(g, k) /\ ~Writes(g, k)
    BY <2>2 DEF Copying, Writes
  <2>7. AtRest /\ Disarmed /\ OneTransfer
    BY <2>6, Zenon DEF AtRest, Disarmed, OneTransfer
  <2>. QED BY <2>3, <2>4, <2>5, <2>7 DEF IInv
<1>2. IInv /\ [Next]_vars => IInv'
  <2>1. SUFFICES ASSUME IInv, [Next]_vars  PROVE IInv'
    OBVIOUS
  <2>2. CASE UNCHANGED vars
    <3>1. /\ holder' = holder /\ todo' = todo /\ factor' = factor /\ en' = en
          /\ dmaPending' = dmaPending /\ dmaDelay' = dmaDelay
      BY <2>2 DEF vars
    <3>2. Types' /\ Lists' /\ Locked'
      BY <2>1, <3>1 DEF IInv, Types, Lists, Shaped, Locked, Working
    <3>3. \A g \in Goroutines : \A k : (Copying(g, k)' <=> Copying(g, k)) /\ (Writes(g, k)' <=> Writes(g, k))
      BY <3>1 DEF Copying, Writes
    <3>4. \A k : (Moving(k)' <=> Moving(k)) /\ (Operating(k)' <=> Operating(k))
      BY <3>1, <3>3, Zenon DEF Moving, Operating
    <3>5. AtRest' /\ Disarmed' /\ OneTransfer'
      BY <2>1, <3>1, <3>3, <3>4, Zenon DEF IInv, AtRest, Disarmed, OneTransfer
    <3>. QED BY <3>2, <3>5 DEF IInv
  <2>3. ASSUME NEW g \in Goroutines, RaiseEvent(g)  PROVE IInv'
    BY <2>1, <2>3, EventStep
  <2>4. ASSUME NEW g \in Goroutines, Proceed(g)  PROVE IInv'
    BY <2>1, <2>4, CheckStep, CountStep, DrainStep, ModeStep, EnableStep, WriteBackStep DEF Proceed
  <2>5. CASE Tick
    BY <2>1, <2>5, TickStep
  <2>6. ASSUME NEW g \in Cpus, NEW l \in Levels, WriteAddress(g, l) \/ WriteMode(g, l) \/ WriteEnable(g, l)
        PROVE  IInv'
    BY <2>1, <2>6, WriteStep
  <2>7. CASE Reset
    BY <2>1, <2>7, ResetStep
  <2>. QED BY <2>1, <2>2, <2>3, <2>4, <2>5, <2>6, <2>7, Zenon DEF Next
<1>. QED BY <1>1, <1>2, PTL DEF Spec

(* A level whose software waits for its end interrupt has one transfer at a  *)
(* time, though the lock is dropped for the copy (executeDMA) and the other  *)
(* goroutines raise start factors and count down meanwhile.                  *)
THEOREM OneAtATime == Spec => []OneTransfer
<1>1. IInv => OneTransfer
  BY DEF IInv
<1>. QED BY <1>1, Inductive, PTL
(* Only finishDMA ends a level, and only one that is moving.                 *)
LEMMA FinishEnds ==
  ASSUME IInv, NEW g \in Goroutines, NEW k \in Levels, dmaDelay[k] >= 0, Finish(g, k), NEW l \in Levels
  PROVE  /\ ended' = l => Moving(l) /\ dmaDelay'[l] < 0
         /\ Moving(l) /\ dmaDelay'[l] < 0 => ended' = l
<1>1. dmaDelay' = [dmaDelay EXCEPT ![k] = -1] /\ ended' = k
  BY Zenon DEF Finish
<1>2. dmaDelay \in [Levels -> Int]
  BY DEF IInv, Types
<1>. QED BY <1>1, <1>2 DEF Moving

(* A countdown closes with its level's one end interrupt (TickSystemCycles   *)
(* and the drain of a register write), for every programming of the levels.  *)
THEOREM OneEndEach == Spec => EndPerCountdown
<1> DEFINE Fair(l) == /\ ended' = l => Moving(l) /\ dmaDelay'[l] < 0
                      /\ Moving(l) /\ dmaDelay'[l] < 0
                           => ended' = l \/ \A g \in Goroutines : todo[g] = <<>>
<1>1. IInv /\ [Next]_vars => [\A l \in Levels : Fair(l)]_vars
  <2>1. SUFFICES ASSUME IInv, Next, NEW l \in Levels  PROVE Fair(l)
    BY Zenon
  <2>2. l \in Int /\ l # NoLevel /\ dmaDelay \in [Levels -> Int]
    BY <2>1, DmaAssumption DEF NoLevel, IInv, Types
  <2>3. ASSUME ended' = NoLevel, dmaDelay' = dmaDelay  PROVE Fair(l)
    BY <2>2, <2>3 DEF Moving
  <2>4. ASSUME NEW g \in Goroutines, NEW program, Enter(g, program)  PROVE Fair(l)
    BY <2>3, <2>4, Zenon DEF Enter
  <2>5. CASE Tick \/ \E g \in Goroutines : RaiseEvent(g)
    BY <2>4, <2>5 DEF Tick, RaiseEvent, Goroutines
  <2>6. CASE \E g \in Cpus, k \in Levels : WriteAddress(g, k) \/ WriteMode(g, k) \/ WriteEnable(g, k)
    BY <2>4, <2>6 DEF WriteAddress, WriteMode, WriteEnable, Cpus, Goroutines
  <2>7. CASE \E g \in Goroutines : Check(g) \/ SetMode(g) \/ SetEnable(g)
    BY <2>3, <2>7, Zenon DEF Check, SetMode, SetEnable
  <2>8. ASSUME NEW g \in Goroutines, Count(g)  PROVE Fair(l)
    <3> DEFINE k == First(g).level
    <3>1. holder = g /\ Head(todo[g]) = First(g) /\ k \in Levels
      BY <2>1, <2>8, Inside DEF Count
    <3>2. CASE dmaDelay[k] \in {0, 1}
      <4>1. Finish(g, k) /\ dmaDelay[k] >= 0
        BY <2>8, <3>1, <3>2 DEF Count
      <4>. QED BY <2>1, <3>1, <4>1, FinishEnds
    <3>3. CASE dmaDelay[k] \notin {0, 1}
      <4>1. dmaDelay' = [dmaDelay EXCEPT ![k] = IF @ < 0 THEN @ ELSE @ - 1] /\ ended' = NoLevel
        BY <2>8, <3>1, <3>3, Zenon DEF Count
      <4>. HIDE DEF k
      <4>. QED BY <2>2, <3>1, <3>3, <4>1 DEF Moving
    <3>. QED BY <3>2, <3>3
  <2>9. ASSUME NEW g \in Goroutines, Drain(g)  PROVE Fair(l)
    <3> DEFINE k == First(g).level
    <3>1. holder = g /\ Head(todo[g]) = First(g) /\ k \in Levels
      BY <2>1, <2>9, Inside DEF Drain
    <3>2. CASE dmaDelay[k] >= 0
      <4>1. Finish(g, k)
        BY <2>9, <3>1, <3>2, Zenon DEF Drain
      <4>. QED BY <2>1, <3>1, <3>2, <4>1, FinishEnds
    <3>3. CASE ~(dmaDelay[k] >= 0)
      BY <2>3, <2>9, <3>1, <3>3, Zenon DEF Drain
    <3>. QED BY <3>2, <3>3
  <2>10. ASSUME NEW g \in Goroutines, WriteBack(g)  PROVE Fair(l)
    <3>1. dmaDelay' = [dmaDelay EXCEPT ![Head(todo[g]).level] = Cost] /\ ended' = NoLevel
      BY <2>10, Zenon DEF WriteBack
    <3>2. dmaDelay'[l] \in Int /\ dmaDelay[l] \in Int /\ (dmaDelay[l] >= 0 => dmaDelay'[l] >= 0)
      BY <2>2, <3>1, DmaAssumption
    <3>3. dmaDelay[l] >= 0 => ~(dmaDelay'[l] < 0)
      BY <3>2
    <3>4. ended' # l
      BY <2>2, <3>1
    <3>. QED BY <3>3, <3>4, Zenon DEF Moving
  <2>11. CASE Reset
    <3>1. ended' = NoLevel /\ \A g \in Goroutines : todo[g] = <<>>
      BY <2>11, Zenon DEF Reset
    <3>. QED BY <2>2, <3>1
  <2>. QED BY <2>1, <2>5, <2>6, <2>7, <2>8, <2>9, <2>10, <2>11, Zenon DEF Next, Proceed
<1>. QED BY <1>1, Inductive, PTL DEF Spec, EndPerCountdown

-----------------------------------------------------------------------------
(***************************************************************************)
(* The interrupt output, for every set of sources.  Its invariants carry   *)
(* each other: the acknowledge clears the right source because the line    *)
(* holds, the line holds because the SCU's note of it is right, and no     *)
(* request is left behind because every change of a register drives the    *)
(* line again.                                                             *)
(***************************************************************************)
OutputInv ==
  /\ OutputTypeOK /\ AckMatches /\ LineMatches
  /\ Withheld /\ NothingLeftWaiting

(* bitToLevelVec holds levels of the SH-2's four bit scale. *)
LEMMA LevelRange == \A b \in AllBits : Level(b) \in 0 .. 15
  BY DEF AllBits, Level

(* What driving the line from given registers does, if the SCU's note of the *)
(* line is right: it keeps what is asserted, asserts nothing while withheld, *)
(* and otherwise leaves no unmasked source pending.                          *)
LEMMA Driven ==
  ASSUME NEW status \in SUBSET Bits, NEW requests \in SUBSET Bits,
         NEW mask \in SUBSET Maskable, NEW withheld \in BOOLEAN,
         irl \in Bits \cup {None}, pendingBit = irl,
         withheld => irl = None,
         CheckInterrupts(status, requests, mask, pendingBit, withheld)
  PROVE  /\ irl' \in Bits \cup {None} /\ pendingBit' = irl'
         /\ reqPending' \subseteq Bits
         /\ irl # None => irl' = irl
         /\ withheld => irl' = None
         /\ ~withheld /\ irl' = None => (status \cup requests) \subseteq mask
<1> DEFINE pending == (status \cup requests) \ mask
<1>1. CASE withheld \/ pendingBit # None \/ pending = {}
  BY <1>1 DEF CheckInterrupts
<1>2. CASE ~(withheld \/ pendingBit # None \/ pending = {})
  <2>1. PICK b \in pending : pendingBit' = b /\ irl' = b /\ reqPending' = requests \ {b}
    BY <1>2 DEF CheckInterrupts
  <2>2. b # None
    BY BitsAssumption DEF AllBits, None
  <2> QED
    BY <1>2, <2>1, <2>2
<1> QED
  BY <1>1, <1>2

LEMMA OutputInvInit == OutputInit => OutputInv
<1> SUFFICES ASSUME OutputInit PROVE OutputInv
  OBVIOUS
<1> USE DEF OutputInit
<1>1. OutputTypeOK
  <2>1. irlWithheld \in BOOLEAN
    BY Zenon
  <2>2. imask \in 0 .. 15
    OBVIOUS
  <2> QED
    BY <2>1, <2>2, Zenon DEF OutputTypeOK
<1>2. AckMatches /\ LineMatches /\ NothingLeftWaiting
  BY DEF AckMatches, LineMatches, NothingLeftWaiting
<1>3. Withheld
  BY DEF Withheld
<1> QED
  BY <1>1, <1>2, <1>3 DEF OutputInv

(* One case per action; the three register writes that drive the line share  *)
(* the lemma above.                                                          *)
LEMMA OutputStep == OutputInv /\ [OutputNext]_outputVars => OutputInv'
<1> SUFFICES ASSUME OutputInv, [OutputNext]_outputVars PROVE OutputInv'
  OBVIOUS
<1> USE DEF OutputInv, OutputTypeOK, AckMatches, LineMatches,
            Withheld, NothingLeftWaiting
<1>0. None \notin Bits
  BY BitsAssumption DEF AllBits, None
<1>1. CASE UNCHANGED outputVars
  BY <1>1 DEF outputVars
<1>2. ASSUME NEW b \in Bits, Raise(b) PROVE OutputInv'
  <2> DEFINE requests == IF b \in ims THEN reqPending ELSE reqPending \cup {b}
  <2>1. CheckInterrupts(ist \cup {b}, requests, ims, pendingBit, irlWithheld)
    BY <1>2 DEF Raise
  <2>2. ist \cup {b} \in SUBSET Bits /\ requests \in SUBSET Bits
    OBVIOUS
  <2>3. /\ irl' \in Bits \cup {None} /\ pendingBit' = irl' /\ reqPending' \subseteq Bits
        /\ irl # None => irl' = irl
        /\ irlWithheld => irl' = None
        /\ ~irlWithheld /\ irl' = None => ((ist \cup {b}) \cup requests) \subseteq ims
    <3> HIDE DEF requests
    <3> QED
      BY <2>1, <2>2, Driven
  <2>4. reqPending' \subseteq requests
    BY <2>1 DEF CheckInterrupts
  <2> QED
    BY <1>0, <1>2, <2>3, <2>4 DEF Raise
<1>3. ASSUME NEW mask \in SUBSET Maskable, WriteIMS(mask) PROVE OutputInv'
  <2>1. /\ irl' \in Bits \cup {None} /\ pendingBit' = irl' /\ reqPending' \subseteq Bits
        /\ irl # None => irl' = irl
        /\ irl' = None => (ist \cup reqPending) \subseteq mask
    BY <1>3, Driven DEF WriteIMS
  <2>2. reqPending' \subseteq reqPending
    BY <1>3 DEF WriteIMS, CheckInterrupts
  <2> QED
    BY <1>0, <1>3, <2>1, <2>2 DEF WriteIMS
<1>4. ASSUME NEW kept \in SUBSET Bits, WriteIST(kept) PROVE OutputInv'
  <2>1. /\ irl' \in Bits \cup {None} /\ pendingBit' = irl' /\ reqPending' \subseteq Bits
        /\ irl # None => irl' = irl
        /\ irlWithheld => irl' = None
        /\ ~irlWithheld /\ irl' = None => ((ist \cap kept) \cup reqPending) \subseteq ims
    BY <1>4, Driven DEF WriteIST
  <2>2. reqPending' \subseteq reqPending
    BY <1>4 DEF WriteIST, CheckInterrupts
  <2> QED
    BY <1>0, <1>4, <2>1, <2>2 DEF WriteIST
<1>5. CASE Sample
  BY <1>5 DEF Sample
<1>6. CASE Acknowledge
  <2>1. Level(sampled) \in 0 .. 15
    BY <1>6, BitsAssumption, LevelRange DEF Acknowledge
  <2> QED
    BY <1>6, <2>1 DEF Acknowledge
<1>7. CASE SetIMask
  BY <1>7, BitsAssumption DEF SetIMask
<1>8. CASE OutputReset
  BY <1>8 DEF OutputReset, Maskable
<1> QED
  BY <1>1, <1>2, <1>3, <1>4, <1>5, <1>6, <1>7, <1>8 DEF OutputNext

THEOREM OutputInductive == OutputSpec => []OutputInv
<1> QED
  BY OutputInvInit, OutputStep, PTL DEF OutputSpec

(* The master acknowledges the source the SCU asserts, whatever the other    *)
(* goroutines raise, mask or clear between its sample and its acknowledge.   *)
THEOREM Acknowledged == OutputSpec => []AckMatches
<1>1. OutputInv => AckMatches
  BY DEF OutputInv
<1> QED
  BY <1>1, OutputInductive, PTL

(* No request waits while the line is free to assert it.                     *)
THEOREM NoneLeftWaiting == OutputSpec => []NothingLeftWaiting
<1>1. OutputInv => NothingLeftWaiting
  BY DEF OutputInv
<1> QED
  BY <1>1, OutputInductive, PTL

(* After an acknowledge the line stays down until the mask is written.       *)
THEOREM StaysWithheld == OutputSpec => []Withheld
<1>1. OutputInv => Withheld
  BY DEF OutputInv
<1> QED
  BY <1>1, OutputInductive, PTL

(* An asserted source keeps the line until it is acknowledged or the SCU is  *)
(* reset.                                                                    *)
THEOREM LineHolds == OutputSpec => AssertionHolds
<1>1. OutputInv /\ [OutputNext]_outputVars =>
        [irl # None /\ irl' # irl =>
           irl' = None /\ irl \notin reqPending' /\ irl \notin ist']_outputVars
  <2> SUFFICES ASSUME OutputInv, OutputNext, irl # None, irl' # irl
               PROVE  irl' = None /\ irl \notin reqPending' /\ irl \notin ist'
    BY DEF outputVars
  <2> USE DEF OutputInv, OutputTypeOK, AckMatches, LineMatches, Withheld
  <2>1. ASSUME NEW b \in Bits, Raise(b) PROVE FALSE
    BY <2>1 DEF Raise, CheckInterrupts
  <2>2. ASSUME NEW mask \in SUBSET Maskable, WriteIMS(mask) PROVE FALSE
    BY <2>2 DEF WriteIMS, CheckInterrupts
  <2>3. ASSUME NEW kept \in SUBSET Bits, WriteIST(kept) PROVE FALSE
    BY <2>3 DEF WriteIST, CheckInterrupts
  <2>4. CASE Sample \/ SetIMask
    BY <2>4 DEF Sample, SetIMask
  <2>5. CASE Acknowledge
    BY <2>5 DEF Acknowledge
  <2>6. CASE OutputReset
    BY <2>6 DEF OutputReset
  <2> QED
    BY <2>1, <2>2, <2>3, <2>4, <2>5, <2>6 DEF OutputNext
<1> QED
  BY <1>1, OutputInductive, PTL DEF OutputSpec, AssertionHolds

(* A committed request is lost to nothing but its delivery or a reset.       *)
THEOREM RequestsStand == OutputSpec => Committed
<1>1. OutputInv /\ [OutputNext]_outputVars =>
        [\A b \in reqPending :
           b \in reqPending' \/ irl' = b \/ sampled = b \/ (ims' = Maskable /\ irl' = None)]_outputVars
  <2> SUFFICES ASSUME OutputInv, OutputNext, NEW b \in reqPending,
                      b \notin reqPending', irl' # b, sampled # b
               PROVE  ims' = Maskable /\ irl' = None
    BY DEF outputVars
  <2>1. ASSUME NEW c \in Bits, Raise(c) PROVE FALSE
    BY <2>1 DEF Raise, CheckInterrupts
  <2>2. ASSUME NEW mask \in SUBSET Maskable, WriteIMS(mask) PROVE FALSE
    BY <2>2 DEF WriteIMS, CheckInterrupts
  <2>3. ASSUME NEW kept \in SUBSET Bits, WriteIST(kept) PROVE FALSE
    BY <2>3 DEF WriteIST, CheckInterrupts
  <2>4. CASE Sample \/ SetIMask
    BY <2>4 DEF Sample, SetIMask
  <2>5. CASE Acknowledge
    BY <2>5 DEF Acknowledge
  <2>6. CASE OutputReset
    BY <2>6 DEF OutputReset
  <2> QED
    BY <2>1, <2>2, <2>3, <2>4, <2>5, <2>6 DEF OutputNext
<1> QED
  BY <1>1, OutputInductive, PTL DEF OutputSpec, Committed

-----------------------------------------------------------------------------
(* The raster's blanking interrupts and the SCU's timers, for every geometry *)
(* and every register traffic.  The blanking and Timer 0 are equalities of a *)
(* counter with a limit that TVMD moves, so neither is inductive alone:      *)
(* while the frame is calm the counts say which side of the limits the line  *)
(* is on, and while Timer 0 is tracked its counter is the number of display  *)
(* lines that have blanked.                                                  *)

Out == VBlankOutLine(activeLines)

Typed ==
  /\ running \in BOOLEAN /\ hblankRaised \in BOOLEAN
  /\ raising \in {"no", "timers", "raised0"}
  /\ vLine \in 0..(Lines - 1) /\ lineCycle \in 0..LineCycles
  /\ activeLines \in ActiveLines /\ activeSystemCycles \in ActiveCycles
  /\ ins \in 0..2 /\ outs \in 0..2
  /\ calm \in BOOLEAN /\ track \in BOOLEAN

\* Between frames the raster stands at the top of the next.
AtTop == ~running => vLine = 0 /\ lineCycle = 0 /\ ~hblankRaised

\* Inside RaiseHBlankIN the end of the chunk is not published yet.
InHBlank == raising # "no" => running /\ hblankRaised /\ lineCycle < LineCycles

CalmCounts ==
  calm =>
    /\ running => /\ ins = IF vLine >= activeLines THEN 1 ELSE 0
                  /\ outs = IF vLine >= Out THEN 1 ELSE 0
    /\ ~running => ins = 1 /\ outs = 1

\* Every display line up to here has been counted, none of the blank is.
TrackCounts ==
  track =>
    /\ "enable" \in t1md
    /\ vLine < activeLines =>
         t0cnt = IF hblankRaised /\ raising # "timers" THEN vLine + 1 ELSE vLine
    /\ raising = "timers" => vLine < activeLines
    /\ vLine >= Out => t0cnt = 0
    /\ lineCycle = LineCycles /\ vLine < activeLines => hblankRaised

RasterInv == Typed /\ AtTop /\ InHBlank /\ CalmCounts /\ TrackCounts

-----------------------------------------------------------------------------

(* The blank ends after it began and not after the frame.                   *)
LEMMA OutRange ==
  ASSUME NEW a \in ActiveLines
  PROVE  VBlankOutLine(a) \in (a + 1)..Lines
<1>1. a \in 1..(Lines - 1) /\ Lines \in Nat /\ RasterLines \in Nat /\ RasterLines < Lines
  BY GeometryAssumption
<1>2. CASE a >= RasterLines
  BY <1>1, <1>2 DEF VBlankOutLine
<1>3. CASE a < RasterLines
  <2> DEFINE d == RasterLines - a
  <2>1. d \in Nat /\ d < Lines - a BY <1>1, <1>3
  <2>2. d \div 2 \in Nat /\ d \div 2 <= d BY <2>1
  <2>3. ~(a >= RasterLines) BY <1>1, <1>3
  <2>4. VBlankOutLine(a) = Lines - (d \div 2) BY <2>3 DEF VBlankOutLine
  <2> QED BY <1>1, <2>1, <2>2, <2>4
<1> QED BY <1>1, <1>2, <1>3

(* A chunk moves on within its line.                                        *)
LEMMA ChunkRange ==
  ASSUME NEW c \in 0..LineCycles, c < LineCycles
  PROVE  c + ChunkFrom(c) \in (c + 1)..LineCycles
BY GeometryAssumption DEF ChunkFrom

LEMMA Remainder ==
  ASSUME NEW n \in Nat, NEW k \in Nat, n < k
  PROVE  n % k = n
OBVIOUS

LEMMA RasterInvInit == RasterInit => RasterInv
<1> SUFFICES ASSUME RasterInit PROVE RasterInv
  OBVIOUS
<1>1. activeLines \in 1..(Lines - 1) /\ Out \in (activeLines + 1)..Lines /\ Lines \in Nat
  BY OutRange, GeometryAssumption DEF RasterInit, Out
<1>2. running /\ running \in BOOLEAN /\ calm \in BOOLEAN /\ ~track /\ track \in BOOLEAN
      /\ hblankRaised \in BOOLEAN /\ raising = "no"
  BY Zenon DEF RasterInit
<1>3. LineCycles \in Nat /\ vLine = 0 /\ lineCycle = 0 /\ ins = 0 /\ outs = 0
      /\ activeLines \in ActiveLines /\ activeSystemCycles \in ActiveCycles
  BY GeometryAssumption DEF RasterInit
<1>4. Typed
  BY <1>1, <1>2, <1>3 DEF Typed
<1>5. AtTop /\ InHBlank /\ TrackCounts
  BY <1>2 DEF AtTop, InHBlank, TrackCounts
<1>6. CalmCounts
  BY <1>1, <1>2, <1>3 DEF CalmCounts
<1> QED
  BY <1>4, <1>5, <1>6 DEF RasterInv

(* The main goroutine's chunk: it enters the H-Blank, if that begins, and at *)
(* the line's end every display line has had one.                            *)
LEMMA ChunkStep == RasterInv /\ MasterChunk => RasterInv'
<1> SUFFICES ASSUME RasterInv, MasterChunk PROVE RasterInv'
  OBVIOUS
<1>1. /\ lineCycle < LineCycles /\ NextPos \in 1..LineCycles /\ raising = "no"
      /\ UNCHANGED <<running, vLine, activeLines, activeSystemCycles, t1md, t0cnt,
                     ins, outs, calm, track>>
  BY ChunkRange DEF MasterChunk, RasterInv, Typed, mode, timers, observers, NextPos
<1>2. running
  BY DEF MasterChunk
<1>3. Out' = Out
  BY <1>1 DEF Out, VBlankOutLine
<1>4. /\ activeSystemCycles \in 1..LineCycles
      /\ activeLines \in 1..(Lines - 1) /\ activeLines < T0Mod
      /\ Out \in (activeLines + 1)..Lines
      /\ Lines \in Nat /\ LineCycles \in Nat /\ T0Mod \in Nat
  BY OutRange, GeometryAssumption DEF RasterInv, Typed, Out
<1>5. CASE HBlankBegins(NextPos)
  <2>1. hblankRaised' = TRUE /\ raising' = "timers" /\ lineCycle' = lineCycle
    BY <1>5, Zenon DEF MasterChunk, RaiseHBlankIN
  <2>2. vLine < activeLines /\ ~hblankRaised
    BY <1>5 DEF HBlankBegins
  <2>3. hblankRaised' /\ hblankRaised' \in BOOLEAN
    BY <2>1, Zenon
  <2>4. Typed' /\ AtTop' /\ InHBlank'
    BY <1>1, <1>2, <2>1, <2>3 DEF RasterInv, Typed, AtTop, InHBlank
  <2>5. CalmCounts'
    BY <1>1, <1>3 DEF RasterInv, CalmCounts
  <2>6. TrackCounts'
    BY <1>1, <1>3, <1>4, <2>1, <2>2 DEF RasterInv, Typed, TrackCounts
  <2> QED BY <2>4, <2>5, <2>6 DEF RasterInv
<1>6. CASE ~HBlankBegins(NextPos)
  <2>1. UNCHANGED <<hblankRaised, raising>> /\ lineCycle' = NextPos
    BY <1>6 DEF MasterChunk
  <2>2. NextPos = LineCycles /\ vLine < activeLines => hblankRaised
    BY <1>4, <1>6 DEF HBlankBegins
  <2>3. Typed' /\ AtTop' /\ InHBlank'
    BY <1>1, <1>2, <2>1 DEF RasterInv, Typed, AtTop, InHBlank
  <2>4. CalmCounts'
    BY <1>1, <1>3 DEF RasterInv, CalmCounts
  <2>5. TrackCounts'
    BY <1>1, <1>3, <2>1, <2>2 DEF RasterInv, TrackCounts
  <2> QED BY <2>3, <2>4, <2>5 DEF RasterInv
<1> QED BY <1>5, <1>6

(* The timers take the H-Blank: Timer 0 counts a display line that was not   *)
(* counted.                                                                  *)
LEMMA TimersStep == RasterInv /\ (TakeTimers \/ AfterTimer0) => RasterInv'
<1> SUFFICES ASSUME RasterInv, TakeTimers \/ AfterTimer0 PROVE RasterInv'
  OBVIOUS
<1>1. /\ raising # "no" /\ running /\ hblankRaised /\ lineCycle < LineCycles
      /\ UNCHANGED <<running, vLine, hblankRaised, activeLines, activeSystemCycles, t1md,
                     ins, outs, calm, track>>
  BY DEF TakeTimers, AfterTimer0, RasterInv, InHBlank, mode
<1>2. NextPos \in 1..LineCycles
  BY <1>1, ChunkRange DEF NextPos, RasterInv, Typed
<1>3. \/ lineCycle' = NextPos /\ raising' = "no"
      \/ lineCycle' = lineCycle /\ raising' = "raised0"
  BY DEF TakeTimers, AfterTimer0, Return, LoadTimer1
<1>4. /\ activeLines \in 1..(Lines - 1) /\ activeLines < T0Mod
      /\ Lines \in Nat /\ LineCycles \in Nat /\ T0Mod \in Nat /\ vLine \in Nat
      /\ Out' = Out /\ Out > activeLines /\ Out \in Nat
  <2>1. Out' = Out
    BY <1>1 DEF Out, VBlankOutLine
  <2> QED BY <2>1, OutRange, GeometryAssumption DEF RasterInv, Typed, Out
<1>5. track /\ vLine < activeLines => t0cnt' = vLine + 1
  <2>1. SUFFICES ASSUME track, vLine < activeLines PROVE t0cnt' = vLine + 1
    OBVIOUS
  <2>2. CASE TakeTimers
    <3>1. t0cnt' = (t0cnt + 1) % T0Mod /\ t0cnt = vLine
      BY <2>1, <2>2 DEF TakeTimers, CountTimer0, RasterInv, TrackCounts
    <3>2. vLine + 1 \in Nat /\ vLine + 1 < T0Mod
      BY <1>4, <2>1
    <3> QED BY <1>4, <3>1, <3>2, Remainder
  <2>3. CASE AfterTimer0
    BY <1>1, <2>1, <2>3 DEF AfterTimer0, RasterInv, TrackCounts
  <2> QED BY <2>2, <2>3
<1>6. track => (vLine < activeLines \/ t0cnt' = t0cnt)
  BY DEF TakeTimers, AfterTimer0, RasterInv, TrackCounts
<1>7. Typed' /\ AtTop' /\ InHBlank'
  BY <1>1, <1>2, <1>3 DEF RasterInv, Typed, AtTop, InHBlank
<1>8. CalmCounts'
  BY <1>1, <1>4 DEF RasterInv, CalmCounts
<1>9. TrackCounts'
  BY <1>1, <1>3, <1>4, <1>5, <1>6 DEF RasterInv, TrackCounts
<1> QED BY <1>7, <1>8, <1>9 DEF RasterInv

(* The end of a line passes at most one of the two limits.                  *)
LEMMA LineStep == RasterInv /\ EndLine => RasterInv'
<1> SUFFICES ASSUME RasterInv, EndLine PROVE RasterInv'
  OBVIOUS
<1>1. /\ vLine' = vLine + 1 /\ lineCycle' = 0 /\ ~hblankRaised'
      /\ hblankRaised' \in BOOLEAN
  BY DEF EndLine
<1>2. /\ running /\ lineCycle = LineCycles /\ vLine + 1 < Lines
      /\ raising = "no" /\ raising' = "no"
      /\ UNCHANGED <<running, activeLines, activeSystemCycles, t1md, calm>>
  BY DEF EndLine, mode, RasterInv, Typed, InHBlank
<1>3. Out' = Out /\ Out = VBlankOutLine(activeLines)
  BY <1>2 DEF Out, VBlankOutLine
<1>4. /\ activeLines \in 1..(Lines - 1) /\ Out \in (activeLines + 1)..Lines
      /\ Lines \in Nat /\ LineCycles \in Nat \ {0} /\ vLine \in Nat
  BY OutRange, GeometryAssumption DEF RasterInv, Typed, Out
<1>5. /\ vLine' = activeLines => ins' = UpToTwo(ins)
      /\ vLine' # activeLines => ins' = ins
  BY DEF EndLine, BlankBegins
<1>6. /\ vLine' = Out => /\ t0cnt' = 0 /\ outs' = UpToTwo(outs)
                         /\ track' => "enable" \in t1md
      /\ vLine' # Out => /\ t0cnt' = t0cnt /\ outs' = outs
                         /\ track' => track
      /\ track' \in BOOLEAN
  <2>1. track \in BOOLEAN
    BY Zenon DEF RasterInv, Typed
  <2>2. CASE vLine' = Out
    <3>1. t0cnt' = 0 /\ outs' = UpToTwo(outs)
      BY <1>3, <2>2 DEF EndLine, RaiseVBlankOUT
    <3>2. track' = ("enable" \in t1md)
      BY <1>3, <2>2 DEF EndLine, RaiseVBlankOUT
    <3>3. ("enable" \in t1md) \in BOOLEAN
      OBVIOUS
    <3>4. track' \in BOOLEAN
      BY <3>2, <3>3, Zenon
    <3>5. track' => "enable" \in t1md
      BY <3>2, Zenon
    <3> QED BY <2>2, <3>1, <3>4, <3>5
  <2>3. CASE vLine' # Out
    <3>1. t0cnt' = t0cnt /\ outs' = outs /\ track' = track
      BY <1>3, <2>3 DEF EndLine
    <3> QED BY <2>1, <2>3, <3>1, Zenon
  <2> QED BY <2>2, <2>3, Zenon
<1>7. UpToTwo(ins) \in 0..2 /\ UpToTwo(outs) \in 0..2 /\ UpToTwo(0) = 1
  BY DEF UpToTwo, RasterInv, Typed
<1>8. Typed' /\ AtTop' /\ InHBlank'
  BY <1>1, <1>2, <1>4, <1>5, <1>6, <1>7 DEF RasterInv, Typed, AtTop, InHBlank
<1>9. CalmCounts'
  BY <1>1, <1>2, <1>3, <1>4, <1>5, <1>6, <1>7 DEF RasterInv, Typed, CalmCounts
<1>10. TrackCounts'
  <2>1. CASE vLine' = Out
    BY <1>1, <1>2, <1>3, <1>4, <1>6, <2>1 DEF TrackCounts
  <2>2. CASE vLine' # Out
    BY <1>1, <1>2, <1>3, <1>4, <1>6, <2>2 DEF RasterInv, Typed, TrackCounts
  <2> QED BY <2>1, <2>2
<1> QED BY <1>8, <1>9, <1>10 DEF RasterInv

(* At the frame's end the line is in the blank of every mode, so either the  *)
(* V-Blank-OUT of the border has passed or it is raised now.                 *)
LEMMA FrameStep == RasterInv /\ EndFrame => RasterInv'
<1> SUFFICES ASSUME RasterInv, EndFrame PROVE RasterInv'
  OBVIOUS
<1>1. /\ vLine' = 0 /\ lineCycle' = 0 /\ ~hblankRaised' /\ ~running'
      /\ hblankRaised' \in BOOLEAN /\ running' \in BOOLEAN
  BY DEF EndFrame
<1>2. /\ running /\ vLine + 1 = Lines
      /\ raising = "no" /\ raising' = "no"
      /\ UNCHANGED <<activeLines, activeSystemCycles, t1md, calm, ins>>
  BY DEF EndFrame, mode, RasterInv, Typed, InHBlank
<1>3. Out' = Out /\ Out = VBlankOutLine(activeLines)
  BY <1>2 DEF Out, VBlankOutLine
<1>4. /\ activeLines \in 1..(Lines - 1) /\ Out \in (activeLines + 1)..Lines
      /\ Lines \in Nat /\ LineCycles \in Nat \ {0} /\ vLine \in Nat
  BY OutRange, GeometryAssumption DEF RasterInv, Typed, Out
<1>5. /\ Out >= Lines => /\ t0cnt' = 0 /\ outs' = UpToTwo(outs)
                         /\ track' => "enable" \in t1md
      /\ ~(Out >= Lines) => /\ t0cnt' = t0cnt /\ outs' = outs
                            /\ track' => track
      /\ track' \in BOOLEAN
  <2>1. track \in BOOLEAN
    BY Zenon DEF RasterInv, Typed
  <2>2. CASE Out >= Lines
    <3>1. t0cnt' = 0 /\ outs' = UpToTwo(outs)
      BY <1>3, <2>2 DEF EndFrame, RaiseVBlankOUT
    <3>2. track' = ("enable" \in t1md)
      BY <1>3, <2>2 DEF EndFrame, RaiseVBlankOUT
    <3>3. ("enable" \in t1md) \in BOOLEAN
      OBVIOUS
    <3>4. track' \in BOOLEAN
      BY <3>2, <3>3, Zenon
    <3>5. track' => "enable" \in t1md
      BY <3>2, Zenon
    <3> QED BY <2>2, <3>1, <3>4, <3>5
  <2>3. CASE ~(Out >= Lines)
    <3>1. t0cnt' = t0cnt /\ outs' = outs /\ track' = track
      BY <1>3, <2>3 DEF EndFrame
    <3> QED BY <2>1, <2>3, <3>1, Zenon
  <2> QED BY <2>2, <2>3, Zenon
<1>6. UpToTwo(outs) \in 0..2 /\ UpToTwo(0) = 1
  BY DEF UpToTwo, RasterInv, Typed
<1>7. Typed' /\ AtTop' /\ InHBlank'
  BY <1>1, <1>2, <1>4, <1>5, <1>6 DEF RasterInv, Typed, AtTop, InHBlank
<1>8. CalmCounts'
  BY <1>1, <1>2, <1>4, <1>5, <1>6 DEF RasterInv, Typed, CalmCounts
<1>9. TrackCounts'
  BY <1>1, <1>2, <1>3, <1>4, <1>5 DEF RasterInv, Typed, TrackCounts
<1> QED BY <1>7, <1>8, <1>9 DEF RasterInv

(* A frame begins at line 0, a display line of every mode.                  *)
LEMMA BeginStep == RasterInv /\ (NextFrame \/ SystemReset) => RasterInv'
<1> SUFFICES ASSUME RasterInv, NextFrame \/ SystemReset PROVE RasterInv'
  OBVIOUS
<1>1. /\ vLine = 0 /\ lineCycle = 0 /\ ~hblankRaised /\ raising = "no"
      /\ UNCHANGED <<vLine, lineCycle, hblankRaised, raising, t0cnt, t1md, track>>
      /\ ins' = 0 /\ outs' = 0 /\ Lines \in Nat
  BY GeometryAssumption
  DEF RasterInv, AtTop, InHBlank, NextFrame, SystemReset, Parked, BeginFrame
<1>2. running' /\ running' \in BOOLEAN /\ calm' \in BOOLEAN
  <2>1. running' = TRUE /\ calm' = TRUE BY DEF NextFrame, SystemReset, BeginFrame
  <2> QED BY <2>1, Zenon
<1>3. activeLines' \in ActiveLines /\ activeSystemCycles' \in ActiveCycles
  BY DEF RasterInv, Typed, NextFrame, SystemReset, mode
<1>4. /\ activeLines \in 1..(Lines - 1) /\ activeLines' \in 1..(Lines - 1)
      /\ Out' \in (activeLines' + 1)..Lines
      /\ LineCycles \in Nat \ {0}
  <2>1. Out' = VBlankOutLine(activeLines') BY DEF Out, VBlankOutLine
  <2> QED BY <1>3, <2>1, OutRange, GeometryAssumption DEF RasterInv, Typed
<1>5. Typed' /\ AtTop' /\ InHBlank'
  BY <1>1, <1>2, <1>3 DEF RasterInv, Typed, AtTop, InHBlank
<1>6. CalmCounts'
  <2>1. ~(vLine' >= activeLines') /\ ~(vLine' >= Out')
    <3>1. vLine' = 0
      BY <1>1
    <3>2. activeLines' \in Nat /\ activeLines' > 0
      BY <1>1, <1>4
    <3>3. Out' \in Int /\ Out' > activeLines'
      BY <1>1, <1>4, <3>2 DEF Out
    <3> QED BY <3>1, <3>2, <3>3
  <2>2. ins' = 0 /\ outs' = 0
    BY <1>1
  <2> QED BY <1>2, <2>1, <2>2 DEF CalmCounts
<1>7. TrackCounts'
  BY <1>1, <1>4 DEF RasterInv, TrackCounts
<1> QED BY <1>5, <1>6, <1>7 DEF RasterInv

(* A safe change of mode moves neither limit across the line.               *)
LEMMA DisplayModeStep ==
  ASSUME NEW a \in ActiveLines, NEW c \in ActiveCycles,
         RasterInv, WriteTVMD(a, c)
  PROVE  RasterInv'
<1>1. /\ activeLines' = a /\ activeSystemCycles' = c
      /\ UNCHANGED <<running, vLine, lineCycle, hblankRaised, raising, ins, outs,
                     t0cnt, t1md>>
  BY DEF WriteTVMD, vdp2, timers
<1>2. /\ calm' \in BOOLEAN /\ track' \in BOOLEAN
      /\ calm' => calm /\ SafeChange(a)
      /\ track' => track /\ SafeChange(a)
  BY Zenon DEF WriteTVMD
<1>3. /\ activeLines \in 1..(Lines - 1) /\ a \in 1..(Lines - 1)
      /\ Out \in (activeLines + 1)..Lines /\ Out' \in (a + 1)..Lines
      /\ Lines \in Nat /\ LineCycles \in Nat \ {0} /\ vLine \in Nat
      /\ Out' = VBlankOutLine(a)
  <2>1. Out' = VBlankOutLine(a) BY <1>1 DEF Out, VBlankOutLine
  <2> QED BY <2>1, OutRange, GeometryAssumption DEF RasterInv, Typed, Out
<1>4. Typed' /\ AtTop' /\ InHBlank'
  BY <1>1, <1>2 DEF RasterInv, Typed, AtTop, InHBlank
<1>5. SafeChange(a) =>
        \/ a = activeLines /\ Out' = Out
        \/ vLine >= activeLines /\ vLine >= a /\ vLine < Out /\ vLine < Out'
  BY <1>3 DEF SafeChange, Out
<1>6. CalmCounts'
  <2>1. ~running => vLine = 0 BY DEF RasterInv, AtTop
  <2> QED BY <1>1, <1>2, <1>3, <1>5, <2>1 DEF RasterInv, Typed, CalmCounts
<1>7. TrackCounts'
  BY <1>1, <1>2, <1>3, <1>5 DEF RasterInv, Typed, TrackCounts
<1> QED BY <1>4, <1>6, <1>7 DEF RasterInv

(* The secondary and the writes to timer registers leave what the invariant  *)
(* speaks of alone, but for clearing the enable bit, which ends tracking.    *)
LEMMA OtherStep ==
  ASSUME RasterInv,
         \/ SecondaryChunk
         \/ \E v \in Compares : WriteT0C(v)
         \/ \E v \in Delays : WriteT1S(v)
         \/ \E v \in TimerModes : WriteT1MD(v)
         \/ UNCHANGED rasterVars
  PROVE  RasterInv'
<1>1. UNCHANGED <<running, vLine, lineCycle, hblankRaised, raising, activeLines,
                  activeSystemCycles, t0cnt, ins, outs, calm>>
  BY DEF SecondaryChunk, WriteT0C, WriteT1S, WriteT1MD, rasterVars, vdp2, mode,
         timers, observers
<1>2. /\ track' \in BOOLEAN
      /\ track' => track /\ "enable" \in t1md'
  <2>1. CASE \E v \in TimerModes : WriteT1MD(v)
    BY <2>1, Zenon DEF WriteT1MD
  <2>2. CASE ~\E v \in TimerModes : WriteT1MD(v)
    <3>1. track' = track /\ t1md' = t1md
      BY <2>2 DEF SecondaryChunk, WriteT0C, WriteT1S, rasterVars, timers, observers
    <3> QED BY <3>1 DEF RasterInv, Typed, TrackCounts
  <2> QED BY <2>1, <2>2
<1>3. Out' = Out
  BY <1>1 DEF Out, VBlankOutLine
<1>4. Typed' /\ AtTop' /\ InHBlank' /\ CalmCounts'
  BY <1>1, <1>2, <1>3 DEF RasterInv, Typed, AtTop, InHBlank, CalmCounts
<1>5. TrackCounts'
  BY <1>1, <1>2, <1>3 DEF RasterInv, TrackCounts
<1> QED BY <1>4, <1>5 DEF RasterInv

LEMMA RasterStep == RasterInv /\ [RasterNext]_rasterVars => RasterInv'
BY ChunkStep, TimersStep, LineStep, FrameStep, BeginStep, DisplayModeStep, OtherStep
DEF RasterNext, Main, Program

-----------------------------------------------------------------------------

(* Each frame without a disturbing mode change raises V-Blank-IN and then    *)
(* V-Blank-OUT, once each (EndLine, EndFrame and the writes to TVMD).        *)
THEOREM OnePairOfBlanks == RasterSpec => []BlanksPaired
<1>1. RasterInv => BlanksPaired
  <2> SUFFICES ASSUME RasterInv, calm
               PROVE  outs <= ins /\ (~running => ins = 1 /\ outs = 1)
    BY DEF BlanksPaired
  <2>1. Out \in (activeLines + 1)..Lines /\ activeLines \in Nat /\ vLine \in Nat
        /\ Lines \in Nat
    BY OutRange, GeometryAssumption DEF RasterInv, Typed, Out
  <2> QED BY <2>1 DEF RasterInv, CalmCounts
<1> QED BY <1>1, RasterInvInit, RasterStep, PTL DEF RasterSpec

(* Timer 0 is raised on the line its compare value names, whatever was       *)
(* written to the timers and the display mode since it began to count.       *)
THEOREM Timer0OnItsLine == RasterSpec => TimerLine
<1>1. RasterInv /\ [RasterNext]_rasterVars
        => [track /\ raising = "timers" /\ raising' # "timers"
              => (Raises0 <=> vLine = t0c % T0Mod)]_rasterVars
  <2> SUFFICES ASSUME RasterInv, track, raising = "timers"
               PROVE  Raises0 <=> vLine = t0c % T0Mod
    OBVIOUS
  <2>1. t0cnt = vLine
    BY DEF RasterInv, TrackCounts
  <2> QED BY <2>1 DEF Raises0
<1> QED BY <1>1, RasterInvInit, RasterStep, PTL DEF RasterSpec, TimerLine

-----------------------------------------------------------------------------
(* Timer 1.  The two goroutines walk the same chunks, so one is never more  *)
(* than a chunk from the other, and a countdown that is loaded and counted  *)
(* on different goroutines is off by that chunk at most.                    *)

\* The cycle of the line at which the main goroutine's next chunk begins.
NextCycle == IF lineCycle < LineCycles THEN lineCycle ELSE 0

Grid ==
  /\ secondaryCycles \in 0..Total
  /\ running \in BOOLEAN /\ vLine \in 0..(Lines - 1) /\ lineCycle \in 0..LineCycles
  /\ \/ secondaryCycles = MasterPos
     \/ secondaryCycles < MasterPos /\ secondaryCycles + ChunkFrom(secondaryCycles % LineCycles) = MasterPos
     \/ secondaryCycles > MasterPos /\ secondaryCycles = MasterPos + ChunkFrom(NextCycle) /\ running

\* What is left of the countdown ends where the load said, or up to a chunk
\* before it.
Counting ==
  /\ t1s \in Nat /\ t1Delay \in Int /\ due \in Int
  /\ t1Delay >= 0 => /\ t1Delay > 0
                     /\ secondaryCycles + t1Delay <= due
                     /\ due <= secondaryCycles + t1Delay + SyncChunk

\* While the H-Blank is taken the secondary stays where its chunk let it go.
Reached == raising # "no" => running /\ lineCycle < LineCycles /\ secondaryCycles >= MasterPos

TimerInv == Grid /\ Counting /\ Reached

LEMMA InLine ==
  ASSUME NEW x \in Nat, NEW k \in Nat \ {0}
  PROVE  x % k \in 0..(k - 1)
BY SMT

LEMMA Grows ==
  ASSUME NEW a \in Nat, NEW b \in Nat, NEW k \in Nat, a < b
  PROVE  a * k + k <= b * k /\ a * k \in Nat
<1>1. PICK d \in Nat : b = (a + 1) + d
  BY SMT
<1>2. b * k = (a * k + k) + d * k /\ d * k \in Nat /\ a * k \in Nat
  BY <1>1, SMT
<1> QED
  BY <1>2, SMT

\* A position in a line is what is left of the whole lines before it.
LEMMA CycleOf ==
  ASSUME NEW a \in Nat, NEW k \in Nat \ {0}, NEW b \in 0..(k - 1)
  PROVE  ((a * k) + b) % k = b
BY SMT

\* Where the main goroutine is, in whole lines and cycles of the line.
LEMMA MasterAt ==
  ASSUME Grid
  PROVE  /\ LineCycles \in Nat \ {0} /\ SyncChunk \in Nat \ {0} /\ Lines \in Nat
         /\ MasterPos \in Nat /\ Total \in Nat
         /\ vLine * LineCycles \in Nat
         /\ vLine * LineCycles + LineCycles <= Total
         /\ vLine + 1 < Lines => vLine * LineCycles + 2 * LineCycles <= Total
         /\ vLine + 1 = Lines => vLine * LineCycles + LineCycles = Total
         /\ (vLine + 1) * LineCycles = vLine * LineCycles + LineCycles
<1>1. LineCycles \in Nat \ {0} /\ SyncChunk \in Nat \ {0} /\ Lines \in Nat
      /\ vLine \in Nat /\ vLine < Lines /\ lineCycle \in Nat
  BY GeometryAssumption DEF Grid
<1>2. /\ vLine * LineCycles \in Nat /\ Total \in Nat
      /\ vLine * LineCycles + LineCycles <= Total
  BY <1>1, Grows DEF Total
<1>3. (vLine + 1) * LineCycles = vLine * LineCycles + LineCycles
  BY <1>1
<1>4. vLine + 1 < Lines => (vLine + 1) * LineCycles + LineCycles <= Total
  BY <1>1, Grows DEF Total
<1>5. vLine + 1 = Lines => (vLine + 1) * LineCycles = Total
  BY DEF Total
<1>6. MasterPos \in Nat
  BY <1>1, <1>2 DEF MasterPos
<1> QED BY <1>1, <1>2, <1>3, <1>4, <1>5, <1>6

LEMMA ChunkSize ==
  ASSUME NEW c \in Nat, c < LineCycles
  PROVE  ChunkFrom(c) \in 1..SyncChunk /\ c + ChunkFrom(c) <= LineCycles
BY GeometryAssumption DEF ChunkFrom

LEMMA TimerInit == RasterInit => TimerInv
<1> SUFFICES ASSUME RasterInit PROVE TimerInv
  OBVIOUS
<1>1. /\ LineCycles \in Nat \ {0} /\ Lines \in Nat /\ Lines > 0 /\ 0 * LineCycles = 0
      /\ Total \in Nat
  BY GeometryAssumption DEF Total
<1>2. running /\ running \in BOOLEAN /\ secondaryCycles = 0 /\ vLine = 0 /\ lineCycle = 0
  BY DEF RasterInit
<1>3. Grid
  BY <1>1, <1>2 DEF Grid, MasterPos
<1>4. Counting
  BY RegisterAssumption DEF RasterInit, Counting
<1>5. Reached
  BY DEF RasterInit, Reached
<1> QED BY <1>3, <1>4, <1>5 DEF TimerInv

\* The main goroutine publishes its chunk: it comes to where the secondary is,
\* or a chunk before it.
LEMMA Published ==
  ASSUME TimerInv, running, lineCycle < LineCycles, secondaryCycles >= MasterPos,
         lineCycle' = NextPos, UNCHANGED <<running, vLine, secondaryCycles>>
  PROVE  /\ Grid'
         /\ vLine * LineCycles + NextPos \in Nat /\ MasterPos \in Nat /\ SyncChunk \in Nat
         /\ vLine * LineCycles + NextPos > secondaryCycles - SyncChunk
         /\ vLine * LineCycles + NextPos >= secondaryCycles
         /\ vLine * LineCycles + NextPos <= secondaryCycles + SyncChunk
<1> DEFINE c == ChunkFrom(lineCycle)
<1>2. /\ LineCycles \in Nat \ {0} /\ SyncChunk \in Nat \ {0} /\ vLine \in Nat
      /\ lineCycle \in Nat /\ secondaryCycles \in Nat /\ vLine * LineCycles \in Nat
      /\ c \in 1..SyncChunk /\ lineCycle + c <= LineCycles /\ NextPos = lineCycle + c
      /\ MasterPos = vLine * LineCycles + lineCycle
  BY MasterAt, ChunkSize DEF TimerInv, Grid, MasterPos, NextPos
<1>3. MasterPos' = MasterPos + c
  BY <1>2 DEF MasterPos
<1>4. secondaryCycles = MasterPos \/ secondaryCycles = MasterPos + c
  BY <1>2 DEF TimerInv, Grid, NextCycle
<1>5. secondaryCycles % LineCycles = lineCycle \/ secondaryCycles # MasterPos
  <2>1. lineCycle \in 0..(LineCycles - 1) BY <1>2
  <2>2. (vLine * LineCycles + lineCycle) % LineCycles = lineCycle BY <1>2, <2>1, CycleOf
  <2> QED BY <1>2, <2>2
<1>6. Grid'
  <2>1. secondaryCycles \in 0..Total /\ Total' = Total /\ vLine \in 0..(Lines - 1) /\ running \in BOOLEAN
    BY DEF TimerInv, Grid, Total
  <2>2. ChunkFrom(secondaryCycles % LineCycles)' = ChunkFrom(secondaryCycles % LineCycles)
    BY DEF ChunkFrom
  <2>3. CASE secondaryCycles = MasterPos
    BY <1>2, <1>3, <1>5, <2>1, <2>2, <2>3 DEF Grid
  <2>4. CASE secondaryCycles = MasterPos + c
    BY <1>2, <1>3, <2>1, <2>4 DEF Grid
  <2> QED BY <1>4, <2>3, <2>4
<1> QED BY <1>2, <1>4, <1>6

\* A chunk with a H-Blank waits in it, one without publishes.
LEMMA TimerMaster == TimerInv /\ MasterChunk => TimerInv'
<1> SUFFICES ASSUME TimerInv, MasterChunk PROVE TimerInv'
  OBVIOUS
<1>1. /\ running /\ lineCycle < LineCycles /\ secondaryCycles >= MasterPos /\ raising = "no"
      /\ UNCHANGED <<running, vLine, secondaryCycles, t1s, t1Delay, due>>
      /\ \/ lineCycle' = lineCycle
         \/ lineCycle' = NextPos /\ raising' = raising
  BY DEF MasterChunk, RaiseHBlankIN, timers, observers
<1>2. Counting'
  BY <1>1 DEF TimerInv, Counting
<1>3. CASE lineCycle' = lineCycle
  <2>1. Grid' /\ MasterPos' = MasterPos
    BY <1>1, <1>3 DEF TimerInv, Grid, MasterPos, NextCycle, ChunkFrom, Total
  <2> QED BY <1>1, <1>2, <1>3, <2>1 DEF TimerInv, Reached
<1>4. CASE lineCycle' = NextPos /\ raising' = raising
  BY <1>1, <1>2, <1>4, Published DEF TimerInv, Reached
<1> QED BY <1>1, <1>3, <1>4

\* The load is at most a chunk after the secondary.
LEMMA TimerLoad == TimerInv /\ (TakeTimers \/ AfterTimer0) => TimerInv'
<1> SUFFICES ASSUME TimerInv, TakeTimers \/ AfterTimer0 PROVE TimerInv'
  OBVIOUS
<1>1. /\ running /\ lineCycle < LineCycles /\ secondaryCycles >= MasterPos
      /\ UNCHANGED <<running, vLine, secondaryCycles, t1s>>
  BY DEF TakeTimers, AfterTimer0, TimerInv, Reached
<1>2. CASE Return /\ UNCHANGED <<t1Delay, due>>
  BY <1>1, <1>2, Published DEF Return, TimerInv, Counting, Reached
<1>3. CASE \E fire \in BOOLEAN : LoadTimer1(fire)
  <2> DEFINE p == vLine * LineCycles + NextPos
  <2>1. /\ lineCycle' = NextPos /\ raising' = "no"
        /\ t1Delay' = (IF t1s = 0 THEN -1 ELSE t1s)
        /\ due' = (IF t1s = 0 THEN 0 ELSE p + t1s)
    BY <1>3 DEF LoadTimer1, Return
  <2>2. Grid' /\ p \in Nat /\ p >= secondaryCycles /\ p <= secondaryCycles + SyncChunk
    BY <1>1, <2>1, Published
  <2>3. secondaryCycles \in Nat /\ SyncChunk \in Nat /\ t1s \in Nat
    BY MasterAt DEF TimerInv, Grid, Counting
  <2> HIDE DEF p
  <2>4. Counting'
    BY <1>1, <2>1, <2>2, <2>3 DEF Counting
  <2> QED BY <2>1, <2>2, <2>4 DEF TimerInv, Reached
<1>4. CASE lineCycle' = lineCycle /\ UNCHANGED <<t1Delay, due>>
  <2>1. Grid' /\ MasterPos' = MasterPos
    BY <1>1, <1>4 DEF TimerInv, Grid, MasterPos, NextCycle, ChunkFrom, Total
  <2> QED BY <1>1, <1>4, <2>1 DEF TimerInv, Counting, Reached
<1> QED BY <1>2, <1>3, <1>4 DEF TakeTimers, AfterTimer0

\* The end of a line or of the frame moves nobody.
LEMMA TimerLineEnd == TimerInv /\ (EndLine \/ EndFrame) => TimerInv'
<1> SUFFICES ASSUME TimerInv, EndLine \/ EndFrame PROVE TimerInv'
  OBVIOUS
<1>1. UNCHANGED <<secondaryCycles, t1s, t1Delay, due, raising>> /\ raising = "no"
  BY MasterAt DEF EndLine, EndFrame, TimerInv, Reached
<1>2. /\ LineCycles \in Nat \ {0} /\ vLine \in Nat /\ vLine < Lines /\ Lines \in Nat
      /\ vLine * LineCycles \in Nat /\ secondaryCycles \in 0..Total /\ Total \in Nat
      /\ (vLine + 1) * LineCycles = vLine * LineCycles + LineCycles
      /\ vLine + 1 = Lines => vLine * LineCycles + LineCycles = Total
  BY MasterAt DEF TimerInv, Grid
<1>3. running /\ lineCycle = LineCycles /\ NextCycle = 0
      /\ MasterPos = vLine * LineCycles + LineCycles
  BY <1>2 DEF EndLine, EndFrame, NextCycle, MasterPos
<1>4. ChunkFrom(secondaryCycles % LineCycles)' = ChunkFrom(secondaryCycles % LineCycles) /\ Total' = Total
  BY <1>1 DEF ChunkFrom, Total
<1>5. CASE EndLine
  <2>1. running' = running /\ vLine' = vLine + 1 /\ lineCycle' = 0 /\ vLine + 1 < Lines
        /\ running' \in BOOLEAN
    BY <1>5 DEF EndLine, TimerInv, Grid
  <2>2. MasterPos' = MasterPos /\ NextCycle' = 0 /\ lineCycle' \in 0..LineCycles
    BY <1>2, <1>3, <2>1 DEF MasterPos, NextCycle
  <2> QED BY <1>1, <1>2, <1>3, <1>4, <2>1, <2>2 DEF TimerInv, Grid, Counting, Reached
<1>6. CASE EndFrame
  <2>1. ~running' /\ vLine' = 0 /\ lineCycle' = 0 /\ vLine + 1 = Lines
        /\ running' \in BOOLEAN
    BY <1>6 DEF EndFrame
  <2>2. MasterPos' = MasterPos /\ MasterPos = Total /\ lineCycle' \in 0..LineCycles
    BY <1>2, <1>3, <2>1 DEF MasterPos, Total
  <2> QED BY <1>1, <1>2, <1>3, <1>4, <2>1, <2>2 DEF TimerInv, Grid, Counting, Reached
<1> QED BY <1>5, <1>6

\* Between frames both positions fall back by a frame, and so does the end of
\* a countdown that goes on.
LEMMA TimerFrame == TimerInv /\ RasterInv /\ (NextFrame \/ SystemReset) => TimerInv'
<1> SUFFICES ASSUME TimerInv, RasterInv, NextFrame \/ SystemReset PROVE TimerInv'
  OBVIOUS
<1>1. /\ vLine = 0 /\ lineCycle = 0 /\ secondaryCycles = Total
      /\ UNCHANGED <<vLine, lineCycle, t1s>>
      /\ secondaryCycles' = 0 /\ running'
  BY DEF RasterInv, AtTop, NextFrame, SystemReset, Parked, BeginFrame
<1>2. running' \in BOOLEAN
  BY DEF NextFrame, SystemReset, BeginFrame
<1>3. LineCycles \in Nat \ {0} /\ Lines \in Nat /\ 0 \in 0..(Lines - 1) /\ Total \in Nat
      /\ 0 * LineCycles = 0 /\ SyncChunk \in Nat
  BY <1>1, MasterAt DEF TimerInv, Grid
<1>4. Grid'
  BY <1>1, <1>2, <1>3 DEF Grid, MasterPos, Total
<1>5. Counting'
  <2>1. CASE NextFrame
    BY <1>1, <1>3, <2>1 DEF NextFrame, TimerInv, Counting
  <2>2. CASE SystemReset
    BY <1>1, <2>2 DEF SystemReset, TimerInv, Counting
  <2> QED BY <2>1, <2>2
<1>6. Reached'
  BY DEF NextFrame, SystemReset, Parked, BeginFrame, TimerInv, Reached
<1> QED BY <1>4, <1>5, <1>6 DEF TimerInv

\* The secondary's chunk: it catches up, or comes a chunk ahead; the countdown
\* falls by what it advances.
LEMMA TimerSecondary == TimerInv /\ SecondaryChunk => TimerInv'
<1> SUFFICES ASSUME TimerInv, SecondaryChunk PROVE TimerInv'
  OBVIOUS
<1> DEFINE c == ChunkFrom(secondaryCycles % LineCycles)
<1>1. /\ secondaryCycles < Total /\ MasterPos >= secondaryCycles /\ secondaryCycles' = secondaryCycles + c
      /\ t1Delay' = IF t1Delay > c THEN t1Delay - c ELSE -1
      /\ due' = IF t1Delay' >= 0 THEN due ELSE 0
      /\ UNCHANGED <<running, vLine, lineCycle, raising, t1s>>
  BY DEF SecondaryChunk, SecondaryMay, TickTimer1, vdp2
<1>2. /\ LineCycles \in Nat \ {0} /\ SyncChunk \in Nat \ {0} /\ vLine \in Nat
      /\ Lines \in Nat /\ lineCycle \in 0..LineCycles
      /\ secondaryCycles \in Nat /\ vLine * LineCycles \in Nat /\ MasterPos \in Nat /\ Total \in Nat
      /\ vLine * LineCycles + LineCycles <= Total
      /\ vLine + 1 < Lines => vLine * LineCycles + 2 * LineCycles <= Total
      /\ vLine + 1 = Lines => vLine * LineCycles + LineCycles = Total
      /\ (vLine + 1) * LineCycles = vLine * LineCycles + LineCycles
      /\ vLine < Lines
  BY MasterAt DEF TimerInv, Grid
<1>3. secondaryCycles % LineCycles \in 0..(LineCycles - 1)
  BY <1>2, InLine
<1>4. c \in 1..SyncChunk /\ (secondaryCycles % LineCycles) + c <= LineCycles
  BY <1>2, <1>3, ChunkSize
<1>5. MasterPos' = MasterPos /\ Total' = Total /\ ChunkFrom(NextCycle)' = ChunkFrom(NextCycle)
  BY <1>1 DEF MasterPos, Total, ChunkFrom, NextCycle
<1>6. Grid'
  <2>1. running \in BOOLEAN /\ vLine \in 0..(Lines - 1)
    BY DEF TimerInv, Grid
  <2>2. CASE secondaryCycles < MasterPos
    <3>1. secondaryCycles' = MasterPos BY <1>1, <1>2, <2>2 DEF TimerInv, Grid
    <3>2. MasterPos <= Total BY <1>2 DEF MasterPos
    <3> QED BY <1>1, <1>2, <1>5, <2>1, <3>1, <3>2 DEF Grid
  <2>3. CASE secondaryCycles = MasterPos
    <3>1. running /\ MasterPos = vLine * LineCycles + lineCycle
      BY <1>1, <1>2, <2>3 DEF MasterPos
    <3>2. secondaryCycles % LineCycles = NextCycle
      <4>1. CASE lineCycle < LineCycles
        BY <1>2, <2>3, <3>1, <4>1, CycleOf DEF NextCycle
      <4>2. CASE lineCycle = LineCycles
        <5>1. secondaryCycles = (vLine + 1) * LineCycles + 0 BY <1>2, <2>3, <3>1, <4>2
        <5>2. secondaryCycles % LineCycles = 0 BY <1>2, <5>1, CycleOf
        <5> QED BY <1>2, <4>2, <5>2 DEF NextCycle
      <4> QED BY <1>2, <4>1, <4>2
    <3>3. secondaryCycles' <= Total
      <4>1. CASE lineCycle < LineCycles
        <5>1. secondaryCycles % LineCycles = lineCycle BY <3>2, <4>1 DEF NextCycle
        <5> QED BY <1>1, <1>2, <1>4, <2>3, <3>1, <5>1
      <4>2. CASE lineCycle = LineCycles
        <5>1. vLine + 1 < Lines BY <1>1, <1>2, <2>3, <3>1, <4>2
        <5>2. c <= LineCycles BY <1>2, <1>3, <1>4
        <5> QED BY <1>1, <1>2, <1>4, <2>3, <3>1, <4>2, <5>1, <5>2
      <4> QED BY <1>2, <4>1, <4>2
    <3> QED BY <1>1, <1>2, <1>4, <1>5, <2>1, <2>3, <3>1, <3>2, <3>3 DEF Grid
  <2> QED BY <1>1, <1>2, <2>2, <2>3
<1>7. Counting'
  BY <1>1, <1>2, <1>4 DEF TimerInv, Counting
<1>8. Reached'
  BY <1>1, <1>2, <1>4, <1>5 DEF TimerInv, Reached
<1> QED BY <1>6, <1>7, <1>8 DEF TimerInv

\* A register write moves nobody, and at most ends the countdown.
LEMMA TimerWrite ==
  ASSUME TimerInv, Program \/ UNCHANGED rasterVars
  PROVE  TimerInv'
<1>1. UNCHANGED <<running, vLine, lineCycle, raising, secondaryCycles>>
  BY DEF Program, WriteTVMD, WriteT0C, WriteT1S, WriteT1MD, rasterVars, vdp2
<1>2. Grid'
  BY <1>1 DEF TimerInv, Grid, MasterPos, Total, ChunkFrom, NextCycle
<1>3. /\ t1s' \in Nat /\ t1Delay' \in Int /\ due' \in Int
      /\ t1Delay' >= 0 => t1Delay' = t1Delay /\ due' = due
  <2>1. t1s \in Nat /\ t1Delay \in Int /\ due \in Int BY DEF TimerInv, Counting
  <2>2. CASE \E v \in Delays : WriteT1S(v)
    <3>1. PICK v \in Delays : WriteT1S(v) BY <2>2
    <3>2. v \in Nat /\ t1s' = v /\ t1Delay' = t1Delay /\ due' = due
      BY <3>1, RegisterAssumption DEF WriteT1S, observers
    <3> QED BY <2>1, <3>2
  <2>3. CASE \E v \in TimerModes : WriteT1MD(v)
    <3>1. PICK v \in TimerModes : WriteT1MD(v) BY <2>3
    <3>2. /\ t1s' = t1s
          /\ t1Delay' = IF "enable" \in v THEN t1Delay ELSE -1
          /\ due' = IF t1Delay' >= 0 THEN due ELSE 0
      BY <3>1 DEF WriteT1MD
    <3> QED BY <2>1, <3>2
  <2>4. CASE \/ \E a \in ActiveLines, m \in ActiveCycles : WriteTVMD(a, m)
             \/ \E v \in Compares : WriteT0C(v)
             \/ UNCHANGED rasterVars
    <3>1. t1s' = t1s /\ t1Delay' = t1Delay /\ due' = due
      BY <2>4 DEF WriteTVMD, WriteT0C, rasterVars, timers, observers
    <3> QED BY <2>1, <3>1
  <2> QED BY <2>2, <2>3, <2>4 DEF Program
<1>4. Counting'
  BY <1>1, <1>3 DEF TimerInv, Counting
<1>5. Reached'
  BY <1>1 DEF TimerInv, Reached, MasterPos, Total
<1> QED BY <1>2, <1>4, <1>5 DEF TimerInv

LEMMA TimerStep == RasterInv /\ TimerInv /\ [RasterNext]_rasterVars => TimerInv'
BY TimerMaster, TimerLoad, TimerLineEnd, TimerFrame, TimerSecondary, TimerWrite DEF RasterNext, Main

(* Timer 1 fires less than a chunk late and at most a chunk early, although *)
(* the H-Blank that loads it and the ticks that count it run on different   *)
(* goroutines (TickSystemCycles, RaiseHBlankIN).                            *)
THEOREM Timer1OnTime == RasterSpec => TimerOnTime
<1>1. TimerInv => [SecondaryChunk /\ Fires1 =>
                     /\ secondaryCycles' >= due - SyncChunk
                     /\ secondaryCycles' < due + SyncChunk]_rasterVars
  <2> SUFFICES ASSUME TimerInv, SecondaryChunk, Fires1
               PROVE  secondaryCycles' >= due - SyncChunk /\ secondaryCycles' < due + SyncChunk
    OBVIOUS
  <2> DEFINE c == ChunkFrom(secondaryCycles % LineCycles)
  <2>1. secondaryCycles' = secondaryCycles + c /\ t1Delay >= 0 /\ t1Delay <= c
    BY DEF SecondaryChunk, Fires1
  <2>2. LineCycles \in Nat \ {0} /\ SyncChunk \in Nat /\ secondaryCycles \in Nat
    BY MasterAt DEF TimerInv, Grid
  <2>3. c \in 1..SyncChunk
    BY <2>2, InLine, ChunkSize
  <2> QED BY <2>1, <2>2, <2>3 DEF TimerInv, Counting
<1> QED BY <1>1, TimerInit, TimerStep, RasterInvInit, RasterStep, PTL DEF RasterSpec, TimerOnTime

=============================================================================
