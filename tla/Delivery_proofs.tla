----------------------------- MODULE Delivery_proofs -----------------------------
(***************************************************************************)
(* The regions in the order of their submission, and the one being filled  *)
(* after them, are one queue of records: the walker appends to it and the  *)
(* device takes its head.  Over that queue the two properties are about    *)
(* its last record of a kind.  The CPU pair is current because the last    *)
(* record that carries a byte, or the shadow if the byte is still to be    *)
(* taken, has its latest value; a row is current because the last page     *)
(* before it is as new as it has to be.                                    *)
(***************************************************************************)
EXTENDS Delivery, FiniteSetTheorems, SequenceTheorems, TLAPS

RowRecs == [kind : {"row"}, page : SUBSET (Cells \X Versions), least : Versions]
FBRecs == [kind : {"fb"}, half : Halves, mask : SUBSET Bytes, bytes : [Bytes -> Versions]]
OpRecs == [kind : {"op"}, half : Halves, v : Versions]
Recs == RowRecs \cup FBRecs \cup OpRecs

Pairs == [Halves -> [Bytes -> Versions]]
Accesses == [pc : {"idle", "store", "test", "mark", "fb", "note", "mask", "page", "spin"},
             to : Halves, v : Versions]
Places == {"boundary", "wait", "change", "tick", "next", "page", "copy", "row", "blank", "dirty", "mask",
           "shadow", "ops", "submit", "advance", "flush", "saved"}
Calls == {"line", "begin", "row0", "row", "end", "sync", "save"}

Typed ==
  /\ mem \in [Cells -> Versions] /\ dirty \in BOOLEAN
  /\ pair \in Pairs /\ latest \in Pairs /\ shadow \in Pairs
  /\ drawFB \in Halves /\ pairKept \in BOOLEAN /\ pairRequest \in BOOLEAN
  /\ fbMask \in [Halves -> SUBSET Bytes] /\ fbDirty \in [Halves -> BOOLEAN]
  /\ raced \in [Halves -> BOOLEAN]
  /\ cpu \in Accesses
  /\ place \in Places /\ line \in 0..Last /\ call \in Calls /\ half \in Halves
  /\ due \in Versions /\ version \in Versions /\ complete \in Versions
  /\ staging \in [1..Regions -> Seq(Recs)] /\ cur \in 1..Regions
  /\ queue \in Seq(1..Regions)
  /\ device \in [mem : [Cells -> Versions], pair : Pairs]
  /\ ops \in Seq(OpRecs) /\ Len(ops) <= 1

\* The walker takes the frame buffers for one of its calls.
Taking == {"dirty", "mask", "shadow"}
Syncing == call \in {"sync", "save"} /\ place \in Taking \cup {"ops", "submit", "advance", "flush"}

\* Who may be where: a CPU that waits for the pair, or no access at all, lets
\* a synchronisation find everything written; operations wait only from a
\* tick to the take that follows.
Control ==
  /\ ops # <<>> => call = "line" /\ place \in Taking \cup {"ops"}
  /\ place \notin Taking \cup {"ops"} => half = 0
  /\ pairRequest => ~pairKept /\ cpu.pc = "spin"
  /\ line = Last /\ place # "wait" => cpu = Idle \/ (Syncing /\ call = "sync")
  /\ place \in {"boundary", "saved"} => line = Last
  /\ Syncing => ~pairKept
  /\ Syncing /\ call = "sync" => pairRequest
  /\ Syncing /\ call = "save" => line = Last
  /\ place = "flush" => Syncing
  /\ place \in {"submit", "advance"} => call # "line"

\* A region is submitted once and with something in it.
Submitted ==
  /\ \A i \in DOMAIN queue : staging[queue[i]] # <<>>
  /\ \A i, j \in DOMAIN queue : queue[i] = queue[j] => i = j
  /\ place # "advance" => \A i \in DOMAIN queue : queue[i] # cur
  /\ place = "flush" => staging[cur] = <<>>

\* How far a take has come.
Progress ==
  /\ Syncing => /\ place \in {"mask", "shadow"} => ~fbDirty[half]
                /\ half = 1 \/ place \in {"submit", "advance", "flush"} => ~fbDirty[0]
                /\ place \in {"ops", "submit", "advance", "flush"} => ~fbDirty[0] /\ ~fbDirty[1]
  /\ \A h \in Halves : "o" \in fbMask[h] => fbDirty[h] \/ (place = "mask" /\ half = h)
  /\ place = "shadow" => "o" \notin fbMask[half] /\ got \subseteq Bytes
  /\ place \in Taking /\ half = 1 => "o" \notin fbMask[0]
  /\ place = "ops" => \A h \in Halves : "o" \notin fbMask[h]

-----------------------------------------------------------------------------
(* The regions as one queue.                                               *)

Region(i) == IF i <= Len(queue) THEN staging[queue[i]]
             ELSE IF place = "advance" THEN <<>> ELSE staging[cur]
N == Len(queue) + 1

Regs == [i \in 1..N |-> Region(i)]

\* c is the sequences of R one after the other; off[i] records lie before R[i].
Laid(c, R, off) ==
  /\ off \in [1..(Len(R) + 1) -> Nat]
  /\ off[1] = 0 /\ off[Len(R) + 1] = Len(c)
  /\ \A i \in 1..Len(R) : off[i + 1] = off[i] + Len(R[i])
  /\ \A i, k \in 1..(Len(R) + 1) : i <= k => off[i] <= off[k]
  /\ \A i \in 1..Len(R) : \A j \in 1..Len(R[i]) : c[off[i] + j] = R[i][j]
Flat(c, R) == c \in Seq(Recs) /\ \E off : Laid(c, R, off)

Chain(c) == Flat(c, Regs)

-----------------------------------------------------------------------------
(* The frame buffer pair.                                                  *)

Carries(rec, h, b) ==
  \/ rec.kind = "fb" /\ rec.half = h /\ b \in rec.mask
  \/ rec.kind = "op" /\ rec.half = h /\ b = "o"
Carried(rec, b) == IF rec.kind = "fb" THEN rec.bytes[b] ELSE rec.v

\* What a byte that is x will be when all of c is applied.
EndsAs(c, h, b, v, x) ==
  \/ \E k \in 1..Len(c) : /\ Carries(c[k], h, b) /\ Carried(c[k], b) = v
                          /\ \A l \in 1..Len(c) : k < l => ~Carries(c[l], h, b)
  \/ (\A k \in 1..Len(c) : ~Carries(c[k], h, b)) /\ x = v
Ends(c, h, b, v) == EndsAs(c, h, b, v, device.pair[h][b])

\* The shadow's byte is still to be taken.
Owed(h) ==
  \/ cpu.pc \in {"note", "mask"} /\ cpu.to = h
  \/ "c" \in fbMask[h] /\ (fbDirty[h] \/ (cpu.pc = "page" /\ cpu.to = h) \/ (place = "mask" /\ half = h))
  \/ place = "shadow" /\ half = h /\ "c" \in got
Loaded(h) == "o" \in fbMask[h] \/ (place = "shadow" /\ half = h /\ "o" \in got)
OpFor(h) == ops # <<>> /\ ops[1].half = h

CPUBytes(c) ==
  \A h \in Halves : /\ shadow[h]["c"] = latest[h]["c"]
                    /\ raced[h] \/ Owed(h) \/ Ends(c, h, "c", latest[h]["c"])
Drawn(c) ==
  \A h \in Halves : /\ OpFor(h) => ops[1].v = latest[h]["o"]
                    /\ \/ OpFor(h)
                       \/ Loaded(h) /\ shadow[h]["o"] = latest[h]["o"]
                       \/ ~Loaded(h) /\ Ends(c, h, "o", latest[h]["o"])

\* Once the pair is kept, or while it is saved.
Kept ==
  pairKept \/ place = "saved" =>
    \A h \in Halves : /\ pair[h]["o"] = latest[h]["o"]
                      /\ ~raced[h] \/ (cpu.pc = "note" /\ cpu.to = h) => pair[h]["c"] = latest[h]["c"]

-----------------------------------------------------------------------------
(* The pages.                                                              *)

PageOf(f) == {<<c, f[c]>> : c \in Cells}
\* A copied page as new as l in every cell.
AsNew(page, l) == \E f \in [Cells -> Versions] : page = PageOf(f) /\ \A x \in Cells : f[x] >= l
HasPage(rec) == rec.kind = "row" /\ rec.page # {}

\* Memory that is as d will be as new as l when record n of c is applied.
NewAt(c, n, l, d) ==
  \/ \E k \in 1..Len(c) : /\ k < n /\ HasPage(c[k]) /\ AsNew(c[k].page, l)
                          /\ \A m \in 1..Len(c) : k < m /\ m < n => ~HasPage(c[m])
  \/ /\ \A k \in 1..Len(c) : k < n => ~HasPage(c[k])
     /\ \A x \in Cells : d[x] >= l
NewBefore(c, n, l) == NewAt(c, n, l, device.mem)

Rows(c) ==
  \A n \in 1..Len(c) : c[n].kind = "row" =>
    IF c[n].page = {} THEN NewBefore(c, n, c[n].least) ELSE AsNew(c[n].page, c[n].least)

Clean(c) ==
  ~dirty => IF place = "copy" \/ (place = "row" /\ got # {}) THEN due = complete
            ELSE NewBefore(c, Len(c) + 1, complete)

Taken(c) ==
  /\ place = "copy" => got = {} \/ \E v \in Versions : v >= due /\ got = {<<1, v>>}
  /\ place = "row" => IF got = {} THEN NewBefore(c, Len(c) + 1, due) ELSE AsNew(got, due)

Stored ==
  /\ due <= complete
  /\ \A x \in Cells : mem[x] >= complete /\ mem[x] <= version
  /\ complete <= version
  /\ cpu.v <= version
  /\ cpu.pc \in {"store", "test", "mark"} => cpu.v >= complete /\ mem[1] = cpu.v
  /\ cpu.pc \in {"test", "mark"} => mem[2] = cpu.v

-----------------------------------------------------------------------------

State == Typed /\ Control /\ Submitted /\ Progress /\ Stored /\ Kept
Holds(c) == Chain(c) /\ Rows(c) /\ Clean(c) /\ Taken(c) /\ (~pairKept => CPUBytes(c) /\ Drawn(c))
IInv == State /\ \E c : Holds(c)

-----------------------------------------------------------------------------
(* Sequences laid one after the other.                                     *)

LEMMA FlatAppend ==
  ASSUME NEW c, NEW R \in Seq(Seq(Recs)), NEW rec \in Recs, Flat(c, R), Len(R) >= 1
  PROVE  Flat(Append(c, rec), [R EXCEPT ![Len(R)] = Append(@, rec)])
<1> DEFINE n == Len(R)
<1> DEFINE Q == [R EXCEPT ![n] = Append(@, rec)]
<1> DEFINE d == Append(c, rec)
<1>1. PICK off : Laid(c, R, off) BY DEF Flat
<1> DEFINE new == [off EXCEPT ![n + 1] = Len(c) + 1]
<1>2. /\ n \in Nat /\ n >= 1
      /\ \A i \in 1..n : R[i] \in Seq(Recs) /\ Len(R[i]) \in Nat
      /\ Q \in Seq(Seq(Recs)) /\ Len(Q) = n
      /\ \A i \in 1..n : i # n => Q[i] = R[i]
      /\ Q[n] = Append(R[n], rec)
  OBVIOUS
<1>3. /\ c \in Seq(Recs) /\ Len(c) \in Nat /\ d \in Seq(Recs) /\ Len(d) = Len(c) + 1
      /\ \A k \in 1..Len(c) : d[k] = c[k]
      /\ d[Len(c) + 1] = rec
  BY DEF Flat
<1>4. /\ off \in [1..(n + 1) -> Nat] /\ off[1] = 0 /\ off[n + 1] = Len(c)
      /\ \A i \in 1..n : off[i + 1] = off[i] + Len(R[i])
      /\ \A i, k \in 1..(n + 1) : i <= k => off[i] <= off[k]
      /\ \A i \in 1..n : \A j \in 1..Len(R[i]) : c[off[i] + j] = R[i][j]
  BY <1>1 DEF Laid
<1> HIDE DEF n, Q, d
<1>a. /\ n + 1 \in 1..(n + 1) /\ n \in 1..n
      /\ \A i \in 1..n : i \in 1..(n + 1) /\ i # n + 1 /\ i + 1 \in 1..(n + 1)
  BY <1>2
<1>5. /\ new \in [1..(n + 1) -> Nat] /\ new[n + 1] = Len(d)
      /\ \A i \in 1..n : new[i] = off[i]
  BY <1>3, <1>4, <1>a
<1> HIDE DEF new
<1>6. Len(Q[n]) = Len(R[n]) + 1 /\ (\A j \in 1..Len(R[n]) : Q[n][j] = R[n][j])
      /\ Q[n][Len(R[n]) + 1] = rec
  <2>1. R[n] \in Seq(Recs) BY <1>2, <1>a
  <2> QED BY <1>2, <2>1
<1>7. \A i \in 1..n : new[i + 1] = new[i] + Len(Q[i])
  <2> TAKE i \in 1..n
  <2>1. CASE i = n
    <3>1. Len(R[n]) \in Nat /\ off[n] \in Nat /\ off[n + 1] = off[n] + Len(R[n])
      BY <1>2, <1>4, <1>a
    <3> QED BY <1>3, <1>4, <1>5, <1>6, <1>a, <2>1, <3>1
  <2>2. CASE i # n
    <3>1. i + 1 \in 1..n BY <1>2, <2>2
    <3> QED BY <1>2, <1>4, <1>5, <2>2, <3>1
  <2> QED BY <2>1, <2>2
<1>8. \A i, k \in 1..(n + 1) : i <= k => new[i] <= new[k]
  <2> TAKE i, k \in 1..(n + 1)
  <2>1. CASE k = n + 1
    <3>1. off[i] <= off[n + 1] /\ off[i] \in Nat BY <1>2, <1>4, <1>a
    <3>2. new[i] = off[i] \/ i = n + 1 BY <1>2, <1>5
    <3> QED BY <1>3, <1>4, <1>5, <2>1, <3>1, <3>2
  <2>2. CASE k # n + 1
    <3>1. i <= k => i \in 1..n /\ k \in 1..n BY <1>2, <2>2
    <3> QED BY <1>4, <1>5, <3>1
  <2> QED BY <2>1, <2>2
<1>9. ASSUME NEW i \in 1..n, NEW j \in 1..Len(Q[i])
      PROVE  d[new[i] + j] = Q[i][j]
  <2>a. i \in 1..(n + 1) /\ i + 1 \in 1..(n + 1) /\ n \in 1..(n + 1) /\ n + 1 \in 1..(n + 1)
    BY <1>2
  <2>0. off[i] \in Nat /\ new[i] = off[i] BY <1>4, <1>5, <2>a
  <2>1. CASE i # n
    <3>1. Q[i] = R[i] /\ j \in 1..Len(R[i]) BY <1>2, <2>1
    <3>2. off[i + 1] <= off[n + 1] BY <1>2, <1>4, <2>a
    <3>4. off[i] + Len(R[i]) <= Len(c) BY <1>4, <3>2
    <3>5. Len(R[i]) \in Nat BY <1>2
    <3>3. off[i] + j \in 1..Len(c) BY <1>3, <2>0, <3>1, <3>4, <3>5
    <3> QED BY <1>3, <1>4, <2>0, <3>1, <3>3
  <2>2. CASE i = n
    <3> DEFINE l == Len(R[n])
    <3>1. /\ l \in Nat /\ off[n] \in Nat /\ off[n] + l = Len(c)
          /\ j \in 1..(l + 1) /\ new[i] = off[n]
      BY <1>2, <1>4, <1>6, <2>0, <2>2
    <3>2. Q[n][l + 1] = rec /\ \A k \in 1..l : Q[n][k] = R[n][k] /\ c[off[n] + k] = R[n][k]
      BY <1>4, <1>6, <1>a
    <3> HIDE DEF l
    <3>3. CASE j = l + 1
      <4>1. off[n] + j = Len(c) + 1 BY <3>1, <3>3
      <4> QED BY <1>3, <2>2, <3>1, <3>2, <3>3, <4>1
    <3>4. CASE j # l + 1
      <4>a. l \in Nat /\ off[n] \in Nat /\ off[n] + l = Len(c) /\ j \in 1..(l + 1) BY <3>1
      <4>b. j \in 1..l BY <3>4, <4>a
      <4>1. j \in 1..l /\ off[n] + j \in 1..Len(c) BY <4>a, <4>b
      <4> QED BY <1>3, <2>2, <3>1, <3>2, <4>1
    <3> QED BY <3>3, <3>4
  <2> QED BY <2>1, <2>2
<1>10. new[1] = 0 BY <1>2, <1>4, <1>5
<1>11. Laid(d, Q, new)
  BY <1>2, <1>5, <1>7, <1>8, <1>9, <1>10 DEF Laid
<1> QED BY <1>3, <1>11 DEF Flat, n, Q, d

LEMMA FlatNew ==
  ASSUME NEW c, NEW R \in Seq(Seq(Recs)), Flat(c, R)
  PROVE  Flat(c, Append(R, <<>>))
<1> DEFINE n == Len(R)
<1> DEFINE Q == Append(R, <<>>)
<1>1. PICK off : Laid(c, R, off) BY DEF Flat
<1> DEFINE new == [i \in 1..(n + 2) |-> IF i = n + 2 THEN Len(c) ELSE off[i]]
<1>2. /\ n \in Nat
      /\ \A i \in 1..n : R[i] \in Seq(Recs) /\ Len(R[i]) \in Nat
      /\ Len(Q) = n + 1
      /\ \A i \in 1..n : Q[i] = R[i]
      /\ Q[n + 1] = <<>>
  OBVIOUS
<1>3. c \in Seq(Recs) /\ Len(c) \in Nat
  BY DEF Flat
<1>4. /\ off \in [1..(n + 1) -> Nat] /\ off[1] = 0 /\ off[n + 1] = Len(c)
      /\ \A i \in 1..n : off[i + 1] = off[i] + Len(R[i])
      /\ \A i, k \in 1..(n + 1) : i <= k => off[i] <= off[k]
      /\ \A i \in 1..n : \A j \in 1..Len(R[i]) : c[off[i] + j] = R[i][j]
  BY <1>1 DEF Laid
<1>5. /\ new \in [1..(n + 2) -> Nat] /\ new[n + 2] = Len(c)
      /\ \A i \in 1..(n + 1) : new[i] = off[i]
  BY <1>2, <1>3, <1>4
<1>6. Len(Q[n + 1]) = 0 BY <1>2
<1> HIDE DEF n, Q, new
<1>7. \A i \in 1..(n + 1) : new[i + 1] = new[i] + Len(Q[i])
  <2> TAKE i \in 1..(n + 1)
  <2>1. CASE i = n + 1 BY <1>2, <1>3, <1>4, <1>5, <1>6, <2>1
  <2>2. CASE i # n + 1
    <3>1. i \in 1..n /\ i + 1 \in 1..(n + 1) BY <1>2, <2>2
    <3> QED BY <1>2, <1>4, <1>5, <3>1
  <2> QED BY <2>1, <2>2
<1>8. \A i, k \in 1..(n + 2) : i <= k => new[i] <= new[k]
  <2> TAKE i, k \in 1..(n + 2)
  <2>1. CASE i \in 1..(n + 1) /\ k \in 1..(n + 1) BY <1>4, <1>5, <2>1
  <2>2. CASE i \in 1..(n + 1) /\ k = n + 2
    <3>1. new[i] <= off[n + 1] BY <1>2, <1>4, <1>5, <2>2
    <3> QED BY <1>4, <1>5, <2>2, <3>1
  <2>3. CASE i = n + 2 BY <1>2, <1>3, <1>5, <2>3
  <2> QED BY <1>2, <2>1, <2>2, <2>3
<1>9. ASSUME NEW i \in 1..(n + 1), NEW j \in 1..Len(Q[i])
      PROVE  c[new[i] + j] = Q[i][j]
  <2>1. i # n + 1 BY <1>2, <1>6
  <2>2. i \in 1..n BY <1>2, <2>1
  <2> QED BY <1>2, <1>4, <1>5, <2>2
<1>10. new[1] = 0 BY <1>2, <1>4, <1>5
<1>11. Laid(c, Q, new)
  BY <1>2, <1>5, <1>7, <1>8, <1>9, <1>10 DEF Laid
<1> QED BY <1>3, <1>11 DEF Flat, Q

LEMMA FlatHead ==
  ASSUME NEW c, NEW R \in Seq(Seq(Recs)), Flat(c, R), Len(R) >= 1, R[1] # <<>>
  PROVE  /\ c # <<>> /\ Head(c) = Head(R[1])
         /\ Flat(Tail(c), [R EXCEPT ![1] = Tail(@)])
<1> DEFINE n == Len(R)
<1> DEFINE Q == [R EXCEPT ![1] = Tail(@)]
<1> DEFINE d == Tail(c)
<1>1. PICK off : Laid(c, R, off) BY DEF Flat
<1> DEFINE new == [i \in 1..(n + 1) |-> IF i = 1 THEN 0 ELSE off[i] - 1]
<1>2. /\ n \in Nat /\ n >= 1
      /\ \A i \in 1..n : R[i] \in Seq(Recs) /\ Len(R[i]) \in Nat
      /\ Q \in Seq(Seq(Recs)) /\ Len(Q) = n
      /\ \A i \in 1..n : i # 1 => Q[i] = R[i]
      /\ Q[1] = Tail(R[1])
  OBVIOUS
<1>3. /\ Len(R[1]) >= 1 /\ Len(Q[1]) = Len(R[1]) - 1
      /\ \A j \in 1..Len(Q[1]) : Q[1][j] = R[1][j + 1]
      /\ Head(R[1]) = R[1][1]
  BY <1>2
<1>4. /\ off \in [1..(n + 1) -> Nat] /\ off[1] = 0 /\ off[n + 1] = Len(c)
      /\ \A i \in 1..n : off[i + 1] = off[i] + Len(R[i])
      /\ \A i, k \in 1..(n + 1) : i <= k => off[i] <= off[k]
      /\ \A i \in 1..n : \A j \in 1..Len(R[i]) : c[off[i] + j] = R[i][j]
      /\ c \in Seq(Recs) /\ Len(c) \in Nat
  BY <1>1 DEF Laid, Flat
<1>5. off[2] = Len(R[1]) /\ \A i \in 2..(n + 1) : off[i] >= 1
  <2>1. 1 \in 1..n /\ 2 \in 1..(n + 1) /\ 1 + 1 = 2 BY <1>2
  <2>2. off[1 + 1] = off[1] + Len(R[1]) BY <1>4, <2>1
  <2>3. off[2] = Len(R[1]) BY <1>2, <1>4, <2>1, <2>2
  <2>4. ASSUME NEW i \in 2..(n + 1) PROVE off[i] >= 1
    <3>1. i \in 1..(n + 1) /\ 2 <= i BY <1>2
    <3>2. off[2] <= off[i] /\ off[i] \in Nat BY <1>4, <2>1, <3>1
    <3> QED BY <1>2, <1>3, <2>3, <3>2
  <2> QED BY <2>3, <2>4
<1>6. Len(c) >= 1
  BY <1>2, <1>4, <1>5
<1>7. /\ c # <<>> /\ Head(c) = c[1] /\ d \in Seq(Recs) /\ Len(d) = Len(c) - 1
      /\ \A k \in 1..Len(d) : d[k] = c[k + 1]
  BY <1>4, <1>6
<1>8. c[1] = R[1][1]
  <2>1. 1 \in 1..n /\ 1 \in 1..Len(R[1]) BY <1>2, <1>3
  <2>2. c[off[1] + 1] = R[1][1] BY <1>4, <2>1
  <2> QED BY <1>4, <2>2
<1>9. /\ new \in [1..(n + 1) -> Nat] /\ new[1] = 0
      /\ \A i \in 2..(n + 1) : new[i] = off[i] - 1
  <2>1. ASSUME NEW i \in 1..(n + 1), i # 1 PROVE off[i] - 1 \in Nat
    <3>1. i \in 2..(n + 1) BY <1>2, <2>1
    <3>2. off[i] \in Nat /\ off[i] >= 1 BY <1>4, <1>5, <3>1
    <3> QED BY <3>2
  <2>2. new \in [1..(n + 1) -> Nat] BY <2>1
  <2>3. 1 \in 1..(n + 1) /\ \A i \in 2..(n + 1) : i \in 1..(n + 1) /\ i # 1 BY <1>2
  <2> QED BY <2>2, <2>3
<1> HIDE DEF n, Q, d, new
<1>10. \A i \in 1..n : new[i + 1] = new[i] + Len(Q[i])
  <2> TAKE i \in 1..n
  <2>1. CASE i = 1
    <3>1. 2 \in 2..(n + 1) BY <1>2
    <3>2. new[2] = Len(R[1]) - 1 BY <1>5, <1>9, <3>1
    <3> QED BY <1>2, <1>3, <1>9, <2>1, <3>2
  <2>2. CASE i # 1
    <3>1. i \in 2..(n + 1) /\ i + 1 \in 2..(n + 1) /\ i + 1 \in 1..(n + 1) BY <1>2, <2>2
    <3>a. i \in 1..(n + 1) BY <1>2
    <3>2. off[i] \in Nat /\ off[i + 1] = off[i] + Len(R[i]) BY <1>4, <3>a
    <3>3. new[i] = off[i] - 1 /\ new[i + 1] = off[i + 1] - 1 /\ Q[i] = R[i] BY <1>2, <1>9, <2>2, <3>1
    <3>4. Len(R[i]) \in Nat BY <1>2
    <3> QED BY <3>2, <3>3, <3>4
  <2> QED BY <2>1, <2>2
<1>11. \A i, k \in 1..(n + 1) : i <= k => new[i] <= new[k]
  <2> TAKE i, k \in 1..(n + 1)
  <2>1. CASE i = 1 BY <1>9, <2>1
  <2>2. CASE i # 1 BY <1>2, <1>4, <1>9, <2>2
  <2> QED BY <2>1, <2>2
<1>13. new[n + 1] = Len(d)
  <2>1. n + 1 \in 2..(n + 1) BY <1>2
  <2> QED BY <1>4, <1>7, <1>9, <2>1
<1>12. ASSUME NEW i \in 1..n, NEW j \in 1..Len(Q[i])
       PROVE  d[new[i] + j] = Q[i][j]
  <2>0. i \in 1..(n + 1) /\ i + 1 \in 1..(n + 1) /\ n + 1 \in 1..(n + 1) /\ i + 1 <= n + 1
    BY <1>2
  <2>1. new[i] \in Nat /\ new[i + 1] <= new[n + 1] /\ new[n + 1] = Len(d)
        /\ new[i + 1] = new[i] + Len(Q[i])
    BY <1>9, <1>10, <1>11, <1>13, <2>0
  <2>2. Len(Q[i]) \in Nat BY <1>2, <1>3
  <2>3. new[i] + j \in 1..Len(d) BY <2>1, <2>2
  <2>4. d[new[i] + j] = c[(new[i] + j) + 1] BY <1>7, <2>3
  <2>5. CASE i = 1
    <3>1. j + 1 \in 1..Len(R[1]) /\ Q[1][j] = R[1][j + 1] BY <1>2, <1>3, <2>5
    <3>4. 1 \in 1..n BY <1>2
    <3>2. c[off[1] + (j + 1)] = R[1][j + 1] BY <1>4, <3>1, <3>4
    <3>3. (new[i] + j) + 1 = off[1] + (j + 1) BY <1>4, <1>9, <2>2, <2>5
    <3> QED BY <2>4, <2>5, <3>1, <3>2, <3>3
  <2>6. CASE i # 1
    <3>1. i \in 2..(n + 1) /\ Q[i] = R[i] /\ off[i] \in Nat BY <1>2, <1>4, <2>6
    <3>2. (new[i] + j) + 1 = off[i] + j BY <1>9, <2>2, <3>1
    <3>3. c[off[i] + j] = R[i][j] BY <1>4, <3>1
    <3> QED BY <2>4, <3>1, <3>2, <3>3
  <2> QED BY <2>5, <2>6
<1>14. Laid(d, Q, new)
  BY <1>2, <1>9, <1>10, <1>11, <1>12, <1>13 DEF Laid
<1> QED BY <1>3, <1>7, <1>8, <1>14 DEF Flat, n, Q, d

LEMMA FlatDrop ==
  ASSUME NEW c, NEW R \in Seq(Seq(Recs)), Flat(c, R), Len(R) >= 2, R[1] = <<>>
  PROVE  Flat(c, Tail(R))
<1> DEFINE n == Len(R)
<1> DEFINE Q == Tail(R)
<1>1. PICK off : Laid(c, R, off) BY DEF Flat
<1> DEFINE new == [i \in 1..n |-> off[i + 1]]
<1>2. /\ n \in Nat /\ n >= 2 /\ Len(Q) = n - 1 /\ Len(R[1]) = 0
      /\ \A i \in 1..(n - 1) : Q[i] = R[i + 1]
  OBVIOUS
<1>4. /\ off \in [1..(n + 1) -> Nat] /\ off[1] = 0 /\ off[n + 1] = Len(c)
      /\ \A i \in 1..n : off[i + 1] = off[i] + Len(R[i])
      /\ \A i, k \in 1..(n + 1) : i <= k => off[i] <= off[k]
      /\ \A i \in 1..n : \A j \in 1..Len(R[i]) : c[off[i] + j] = R[i][j]
      /\ c \in Seq(Recs)
  BY <1>1 DEF Laid, Flat
<1>5. /\ new \in [1..n -> Nat] /\ new[1] = 0 /\ new[n] = Len(c)
      /\ \A i \in 1..n : new[i] = off[i + 1]
  <2>1. \A i \in 1..n : i + 1 \in 1..(n + 1) BY <1>2
  <2>2. 1 \in 1..n /\ n \in 1..n /\ 1 + 1 = 2 BY <1>2
  <2>3. new \in [1..n -> Nat] /\ \A i \in 1..n : new[i] = off[i + 1] BY <1>4, <2>1
  <2>4. off[1 + 1] = off[1] + Len(R[1]) BY <1>4, <2>2
  <2>5. off[1 + 1] = 0 BY <1>2, <1>4, <2>4
  <2> QED BY <1>4, <2>2, <2>3, <2>5
<1> HIDE DEF n, Q, new
<1>6. \A i \in 1..(n - 1) : new[i + 1] = new[i] + Len(Q[i])
  <2> TAKE i \in 1..(n - 1)
  <2>1. i + 1 \in 1..n /\ i \in 1..n BY <1>2
  <2> QED BY <1>2, <1>4, <1>5, <2>1
<1>7. \A i, k \in 1..n : i <= k => new[i] <= new[k]
  <2> TAKE i, k \in 1..n
  <2>1. i + 1 \in 1..(n + 1) /\ k + 1 \in 1..(n + 1) /\ (i <= k => i + 1 <= k + 1) BY <1>2
  <2> QED BY <1>4, <1>5, <2>1
<1>8. ASSUME NEW i \in 1..(n - 1), NEW j \in 1..Len(Q[i])
      PROVE  c[new[i] + j] = Q[i][j]
  <2>1. i + 1 \in 1..n /\ i \in 1..n BY <1>2
  <2>2. new[i] = off[i + 1] BY <1>5, <2>1
  <2>3. Q[i] = R[i + 1] BY <1>2
  <2>4. j \in 1..Len(R[i + 1]) BY <2>3
  <2>5. c[off[i + 1] + j] = R[i + 1][j] BY <1>4, <2>1, <2>4
  <2> QED BY <2>2, <2>3, <2>5
<1>9. Len(Q) + 1 = n BY <1>2
<1>10. Laid(c, Q, new)
  BY <1>2, <1>5, <1>6, <1>7, <1>8, <1>9 DEF Laid
<1> QED BY <1>4, <1>10 DEF Flat, Q

-----------------------------------------------------------------------------
(* The walker's and the device's steps on the regions.                     *)

LEMMA RegsType ==
  ASSUME Typed
  PROVE  /\ Len(queue) \in Nat /\ N = Len(queue) + 1
         /\ \A i \in 1..Len(queue) : queue[i] \in 1..Regions
         /\ staging \in [1..Regions -> Seq(Recs)] /\ cur \in 1..Regions
         /\ Regs \in Seq(Seq(Recs)) /\ Len(Regs) = N /\ N \in Nat /\ N >= 1
<1>1. /\ staging \in [1..Regions -> Seq(Recs)] /\ cur \in 1..Regions
      /\ queue \in Seq(1..Regions) /\ Regions \in Nat
  BY DeliveryAssumption DEF Typed
<1>2. Len(queue) \in Nat /\ N = Len(queue) + 1 /\ \A i \in 1..Len(queue) : queue[i] \in 1..Regions
  BY <1>1 DEF N
<1>3. ASSUME NEW i \in 1..N PROVE Region(i) \in Seq(Recs)
  <2>1. CASE i <= Len(queue) BY <1>1, <1>2, <2>1 DEF Region
  <2>2. CASE ~(i <= Len(queue)) BY <1>1, <2>2 DEF Region
  <2> QED BY <2>1, <2>2
<1>4. Regs \in [1..N -> Seq(Recs)] BY <1>3 DEF Regs
<1>5. N \in Nat BY <1>2
<1>6. Regs \in Seq(Seq(Recs)) /\ Len(Regs) = N BY <1>4, <1>5
<1> QED BY <1>1, <1>2, <1>5, <1>6

\* What is put into the region being filled comes last.
LEMMA ChainAppend ==
  ASSUME NEW c, NEW rec \in Recs, Chain(c), Typed, Submitted,
         place # "advance", place' # "advance",
         staging' = [staging EXCEPT ![cur] = Append(@, rec)], UNCHANGED <<queue, cur>>
  PROVE  Chain(Append(c, rec))'
<1>1. /\ Len(queue) \in Nat /\ N = Len(queue) + 1 /\ N \in Nat /\ N >= 1
      /\ \A i \in 1..Len(queue) : queue[i] \in 1..Regions /\ queue[i] # cur
      /\ staging \in [1..Regions -> Seq(Recs)] /\ cur \in 1..Regions
      /\ Regs \in Seq(Seq(Recs)) /\ Len(Regs) = N /\ N' = N
  <2>1. DOMAIN queue = 1..Len(queue) BY DEF Typed
  <2> QED BY <2>1, RegsType DEF Submitted, N
<1>2. /\ \A i \in 1..Len(queue) : Region(i)' = Region(i)
      /\ Region(N) = staging[cur] /\ Region(N)' = Append(staging[cur], rec)
  BY <1>1 DEF Region
<1>3. Regs' = [Regs EXCEPT ![N] = Append(@, rec)]
  <2>1. Regs' = [i \in 1..N |-> Region(i)'] BY <1>1 DEF Regs
  <2>2. ASSUME NEW i \in 1..N PROVE Region(i)' = [Regs EXCEPT ![N] = Append(@, rec)][i]
    <3>1. CASE i = N BY <1>1, <1>2, <3>1 DEF Regs
    <3>2. CASE i # N
      <4>1. i \in 1..Len(queue) BY <1>1, <3>2
      <4> QED BY <1>2, <3>2, <4>1 DEF Regs
    <3> QED BY <3>1, <3>2
  <2> QED BY <2>1, <2>2 DEF Regs
<1>4. Flat(Append(c, rec), Regs') BY <1>1, <1>3, FlatAppend DEF Chain
<1> QED BY <1>4 DEF Chain, Flat, Laid

\* Submitting the region being filled leaves the order as it is.
LEMMA ChainSubmit ==
  ASSUME NEW c, Chain(c), Typed, place # "advance", place' = "advance",
         staging' = staging, queue' = Append(queue, cur)
  PROVE  Chain(c)'
<1>1. /\ Len(queue) \in Nat /\ N = Len(queue) + 1 /\ N \in Nat /\ N >= 1
      /\ queue \in Seq(1..Regions) /\ cur \in 1..Regions
      /\ Regs \in Seq(Seq(Recs)) /\ Len(Regs) = N
  BY RegsType DEF Typed
<1>2. /\ N' = N + 1 /\ Len(queue') = N /\ queue'[N] = cur
      /\ \A i \in 1..Len(queue) : queue'[i] = queue[i]
  BY <1>1 DEF N
<1>3. (\A i \in 1..N : Region(i)' = Region(i)) /\ \A i \in Nat : i = N + 1 => Region(i)' = <<>>
  BY <1>1, <1>2 DEF Region
<1>4. Regs' = Append(Regs, <<>>)
  <2>1. Regs' = [i \in 1..(N + 1) |-> Region(i)'] BY <1>2 DEF Regs
  <2> DEFINE A == Append(Regs, <<>>)
  <2>2. A \in Seq(Seq(Recs)) /\ Len(A) = N + 1 /\ A[N + 1] = <<>> /\ \A i \in 1..N : A[i] = Regs[i]
    BY <1>1
  <2> HIDE DEF A
  <2>3. ASSUME NEW i \in 1..(N + 1) PROVE Region(i)' = A[i]
    <3>1. CASE i = N + 1 BY <1>1, <1>3, <2>2, <3>1
    <3>2. CASE i # N + 1
      <4>1. i \in 1..N BY <1>1, <3>2
      <4> QED BY <1>3, <2>2, <4>1 DEF Regs
    <3> QED BY <3>1, <3>2
  <2>4. A = [i \in 1..(N + 1) |-> A[i]] BY <1>1, <2>2
  <2>5. Regs' = A BY <2>1, <2>3, <2>4
  <2> QED BY <2>5 DEF A
<1>5. Flat(c, Regs') BY <1>1, <1>4, FlatNew DEF Chain
<1> QED BY <1>5 DEF Chain, Flat, Laid

\* So does submitting it and clearing the next one, which is not submitted.
LEMMA ChainRoom ==
  ASSUME NEW c, Chain(c), Typed, MakeRoom, place' = place
  PROVE  Chain(c)'
<1>0. place # "advance" /\ place' # "advance" BY DEF MakeRoom
<1>1. /\ Len(queue) \in Nat /\ N = Len(queue) + 1 /\ N \in Nat /\ N >= 1
      /\ queue \in Seq(1..Regions) /\ cur \in 1..Regions /\ staging \in [1..Regions -> Seq(Recs)]
      /\ Regs \in Seq(Seq(Recs)) /\ Len(Regs) = N
      /\ \A i \in 1..Len(queue) : queue[i] \in 1..Regions
  BY RegsType DEF Typed
<1>2. /\ cur' \in 1..Regions /\ cur' # cur /\ staging' = [staging EXCEPT ![cur'] = <<>>]
      /\ queue' = Append(queue, cur) /\ \A i \in 1..Len(queue) : queue[i] # cur'
  <2>1. 1 + (cur % Regions) \in 1..Regions /\ 1 + (cur % Regions) # cur
    <3>1. cur \in Nat /\ Regions \in Nat /\ Regions >= 2 /\ cur >= 1 /\ cur <= Regions
      BY <1>1, DeliveryAssumption
    <3>2. CASE cur = Regions BY <3>1, <3>2
    <3>3. CASE cur < Regions
      <4>1. cur % Regions = cur BY <3>1, <3>3
      <4> QED BY <3>1, <3>3, <4>1
    <3> QED BY <3>1, <3>2, <3>3
  <2>2. DOMAIN queue = 1..Len(queue) BY <1>1
  <2> QED BY <2>1, <2>2 DEF MakeRoom
<1>3. /\ N' = N + 1 /\ Len(queue') = N /\ queue'[N] = cur
      /\ \A i \in 1..Len(queue) : queue'[i] = queue[i]
  BY <1>1, <1>2 DEF N
<1>4. /\ staging'[cur] = staging[cur] /\ staging'[cur'] = <<>>
      /\ \A i \in 1..Len(queue) : staging'[queue[i]] = staging[queue[i]]
  BY <1>1, <1>2
<1>5. (\A i \in 1..N : Region(i)' = Region(i)) /\ \A i \in Nat : i = N + 1 => Region(i)' = <<>>
  BY <1>0, <1>1, <1>3, <1>4 DEF Region
<1>6. Regs' = Append(Regs, <<>>)
  <2>1. Regs' = [i \in 1..(N + 1) |-> Region(i)'] BY <1>3 DEF Regs
  <2> DEFINE A == Append(Regs, <<>>)
  <2>2. A \in Seq(Seq(Recs)) /\ Len(A) = N + 1 /\ A[N + 1] = <<>> /\ \A i \in 1..N : A[i] = Regs[i]
    BY <1>1
  <2> HIDE DEF A
  <2>3. ASSUME NEW i \in 1..(N + 1) PROVE Region(i)' = A[i]
    <3>1. CASE i = N + 1 BY <1>1, <1>5, <2>2, <3>1
    <3>2. CASE i # N + 1
      <4>1. i \in 1..N BY <1>1, <3>2
      <4> QED BY <1>5, <2>2, <4>1 DEF Regs
    <3> QED BY <3>1, <3>2
  <2>4. A = [i \in 1..(N + 1) |-> A[i]] BY <1>1, <2>2
  <2>5. Regs' = A BY <2>1, <2>3, <2>4
  <2> QED BY <2>5 DEF A
<1>7. Flat(c, Regs') BY <1>1, <1>6, FlatNew DEF Chain
<1> QED BY <1>7 DEF Chain, Flat, Laid

\* A step that leaves every region in its place leaves the order.
LEMMA ChainKeep ==
  ASSUME NEW c, Chain(c), N' = N, \A i \in 1..N : Region(i)' = Region(i)
  PROVE  Chain(c)'
<1>1. Regs' = Regs BY DEF Regs
<1>2. Flat(c, Regs') BY <1>1 DEF Chain
<1> QED BY <1>2 DEF Chain, Flat, Laid

\* So does clearing the region that is filled next, which is not submitted.
LEMMA ChainAdvance ==
  ASSUME NEW c, Chain(c), Typed, place = "advance", place' # "advance", ~InUse,
         staging' = [staging EXCEPT ![cur] = <<>>], UNCHANGED <<queue, cur>>
  PROVE  Chain(c)'
<1>1. /\ Len(queue) \in Nat /\ N = Len(queue) + 1
      /\ \A i \in 1..Len(queue) : queue[i] \in 1..Regions /\ queue[i] # cur
      /\ staging \in [1..Regions -> Seq(Recs)] /\ cur \in 1..Regions
  <2>1. DOMAIN queue = 1..Len(queue) BY DEF Typed
  <2> QED BY <2>1, RegsType DEF InUse
<1>2. N' = N /\ \A i \in 1..N : Region(i)' = Region(i)
  BY <1>1 DEF N, Region
<1> QED BY <1>2, ChainKeep

LEMMA ChainSame ==
  ASSUME NEW c, Chain(c), UNCHANGED <<staging, queue, cur>>,
         place' = "advance" <=> place = "advance"
  PROVE  Chain(c)'
<1>1. N' = N /\ \A i \in 1..N : Region(i)' = Region(i) BY DEF N, Region
<1> QED BY <1>1, ChainKeep

\* With nothing submitted and nothing put, there is nothing.
LEMMA ChainEmpty ==
  ASSUME NEW c, Chain(c), Typed, queue = <<>>, place # "advance", staging[cur] = <<>>
  PROVE  c \in Seq(Recs) /\ Len(c) = 0
<1>1. N = 1 /\ Region(1) = <<>> BY DEF N, Region
<1>2. Len(Regs) = 1 /\ Regs[1] = <<>> BY <1>1, RegsType DEF Regs
<1>3. PICK off : Laid(c, Regs, off) BY DEF Chain, Flat
<1>4. off[1] = 0 /\ off[1 + 1] = off[1] + Len(Regs[1]) /\ off[1 + 1] = Len(c)
  BY <1>2, <1>3 DEF Laid
<1> QED BY <1>2, <1>4 DEF Chain, Flat

\* The device takes the first record.
LEMMA ChainDevice ==
  ASSUME NEW c, Chain(c), Typed, Submitted, queue # <<>>, place' = place, cur' = cur,
         staging' = [staging EXCEPT ![Head(queue)] = Tail(@)],
         queue' = IF Len(staging[Head(queue)]) = 1 THEN Tail(queue) ELSE queue
  PROVE  c # <<>> /\ Head(c) = Running /\ Chain(Tail(c))'
<1> DEFINE r == Head(queue)
<1>1. /\ Len(queue) \in Nat /\ N = Len(queue) + 1 /\ N \in Nat /\ N >= 1
      /\ \A i \in 1..Len(queue) : queue[i] \in 1..Regions
      /\ staging \in [1..Regions -> Seq(Recs)] /\ cur \in 1..Regions
      /\ Regs \in Seq(Seq(Recs)) /\ Len(Regs) = N
      /\ queue \in Seq(1..Regions) /\ DOMAIN queue = 1..Len(queue)
  BY RegsType DEF Typed
<1>2. Len(queue) >= 1 /\ r = queue[1] /\ r \in 1..Regions /\ staging[r] # <<>>
      /\ staging[r] \in Seq(Recs)
  <2>1. Len(queue) >= 1 /\ r = queue[1] /\ 1 \in 1..Len(queue)
    BY <1>1
  <2>2. staging[queue[1]] # <<>> BY <1>1, <2>1 DEF Submitted
  <2>3. r \in 1..Regions BY <1>1, <2>1
  <2> QED BY <1>1, <2>1, <2>2, <2>3
<1> HIDE DEF r
<1>3. \A i \in 2..Len(queue) : queue[i] # r /\ queue[i] \in 1..Regions
  <2>1. \A i \in 2..Len(queue) : i \in 1..Len(queue) /\ i # 1 BY <1>1
  <2>2. 1 \in 1..Len(queue) BY <1>1, <1>2
  <2> QED BY <1>1, <1>2, <2>1, <2>2 DEF Submitted
<1>4. Region(1) = staging[r] /\ Regs[1] = staging[r]
  BY <1>1, <1>2 DEF Region, Regs
<1>5. /\ c # <<>> /\ Head(c) = Head(staging[r])
      /\ Flat(Tail(c), [Regs EXCEPT ![1] = Tail(@)])
  <2>1. Flat(c, Regs) BY DEF Chain
  <2>2. Len(Regs) >= 1 /\ Regs[1] # <<>> BY <1>1, <1>2, <1>4
  <2> QED BY <1>1, <1>4, <2>1, <2>2, FlatHead
<1> DEFINE Q == [Regs EXCEPT ![1] = Tail(@)]
<1>6. /\ Q \in Seq(Seq(Recs)) /\ Len(Q) = N /\ Q[1] = Tail(staging[r])
      /\ \A i \in 2..N : Q[i] = Region(i)
  <2>1. Tail(staging[r]) \in Seq(Recs) BY <1>2
  <2>2. Q \in [1..N -> Seq(Recs)] /\ Q[1] = Tail(staging[r]) BY <1>1, <1>4, <2>1 DEF Regs
  <2>3. \A i \in 2..N : Q[i] = Region(i) BY <1>1 DEF Regs
  <2> HIDE DEF Q
  <2>4. N \in Nat BY <1>1
  <2>5. Q \in Seq(Seq(Recs)) /\ Len(Q) = N BY <2>2, <2>4
  <2> QED BY <2>2, <2>3, <2>5
<1>7. place # "advance" => r # cur
  <2>1. 1 \in DOMAIN queue BY <1>1, <1>2
  <2> QED BY <1>2, <2>1 DEF Submitted
<1>8. staging'[r] = Tail(staging[r]) /\ \A m \in 1..Regions : m # r => staging'[m] = staging[m]
  BY <1>1, <1>2 DEF r
<1>9. CASE Len(staging[r]) # 1
  <2>1. queue' = queue /\ N' = N BY <1>9 DEF N, r
  <2>2. ASSUME NEW i \in 1..N PROVE Region(i)' = Q[i]
    <3>1. CASE i = 1 BY <1>2, <1>6, <1>8, <2>1, <3>1 DEF Region
    <3>2. CASE i # 1 /\ i <= Len(queue)
      <4>1. i \in 2..Len(queue) /\ i \in 2..N BY <1>1, <3>2
      <4>2. Region(i)' = staging'[queue[i]] BY <2>1, <3>2 DEF Region
      <4>3. Region(i) = staging[queue[i]] BY <3>2 DEF Region
      <4> QED BY <1>3, <1>6, <1>8, <4>1, <4>2, <4>3
    <3>3. CASE i # 1 /\ ~(i <= Len(queue))
      <4>1. i \in 2..N BY <1>1, <3>3
      <4>2. Region(i)' = IF place = "advance" THEN <<>> ELSE staging'[cur] BY <2>1, <3>3 DEF Region
      <4>3. Region(i) = IF place = "advance" THEN <<>> ELSE staging[cur] BY <3>3 DEF Region
      <4> QED BY <1>1, <1>6, <1>7, <1>8, <4>1, <4>2, <4>3
    <3> QED BY <3>1, <3>2, <3>3
  <2>3. Regs' = Q
    <3>1. Regs' = [i \in 1..N |-> Region(i)'] BY <2>1 DEF Regs
    <3>2. Q = [i \in 1..N |-> Q[i]] BY <1>1 DEF Regs
    <3> HIDE DEF Q
    <3> QED BY <2>2, <3>1, <3>2
  <2>4. Flat(Tail(c), Regs') BY <1>5, <2>3
  <2>5. Chain(Tail(c))' BY <2>4 DEF Chain, Flat, Laid
  <2> QED BY <1>5, <2>5 DEF Running, r
<1>10. CASE Len(staging[r]) = 1
  <2>1. /\ queue' = Tail(queue) /\ N' = N - 1 /\ Len(queue') = Len(queue) - 1 /\ N >= 2
        /\ \A i \in 1..(Len(queue) - 1) : queue'[i] = queue[i + 1]
    BY <1>1, <1>2, <1>10 DEF N, r
  <2>2. Q[1] = <<>>
    <3>1. Tail(staging[r]) \in Seq(Recs) /\ Len(Tail(staging[r])) = 0 BY <1>2, <1>10
    <3> QED BY <1>6, <3>1, EmptySeq
  <2>3. Flat(Tail(c), Tail(Q)) BY <1>1, <1>5, <1>6, <2>1, <2>2, FlatDrop
  <2>4. ASSUME NEW i \in 1..(N - 1) PROVE Region(i)' = Q[i + 1]
    <3>0. /\ i + 1 \in 2..N /\ i \in Nat /\ N = Len(queue) + 1 /\ Len(queue) \in Nat
          /\ Len(queue') = Len(queue) - 1
      <4>1. N = Len(queue) + 1 /\ Len(queue) \in Nat /\ Len(queue') = Len(queue) - 1
            /\ N \in Nat /\ N >= 2
        BY <1>1, <2>1
      <4>2. i + 1 \in 2..N /\ i \in Nat BY <4>1
      <4> QED BY <4>1, <4>2
    <3>1. CASE i + 1 <= Len(queue)
      <4>1. i + 1 \in 2..Len(queue) /\ i <= Len(queue') /\ i \in 1..(Len(queue) - 1)
        BY <3>0, <3>1
      <4>2. Region(i)' = staging'[queue[i + 1]] BY <1>1, <2>1, <4>1 DEF Region
      <4>3. Region(i + 1) = staging[queue[i + 1]] BY <3>1 DEF Region
      <4> QED BY <1>3, <1>6, <1>8, <3>0, <4>1, <4>2, <4>3
    <3>2. CASE ~(i + 1 <= Len(queue))
      <4>1. ~(i <= Len(queue')) BY <3>0, <3>2
      <4>2. Region(i)' = IF place = "advance" THEN <<>> ELSE staging'[cur] BY <4>1 DEF Region
      <4>3. Region(i + 1) = IF place = "advance" THEN <<>> ELSE staging[cur] BY <3>2 DEF Region
      <4> QED BY <1>1, <1>6, <1>7, <1>8, <3>0, <4>2, <4>3
    <3> QED BY <3>1, <3>2
  <2>5. Regs' = Tail(Q)
    <3>1. Regs' = [i \in 1..(N - 1) |-> Region(i)'] BY <2>1 DEF Regs
    <3> HIDE DEF Q
    <3> DEFINE T == Tail(Q)
    <3>2. T \in Seq(Seq(Recs)) /\ Len(T) = N - 1 /\ \A i \in 1..(N - 1) : T[i] = Q[i + 1]
      <4>1. Len(Q) >= 2 /\ Len(Q) \in Nat /\ Len(Q) = N BY <1>1, <1>6, <2>1
      <4>2. Q # <<>> BY <1>6, <4>1, EmptySeq
      <4> QED BY <1>6, <4>1, <4>2, HeadTailProperties
    <3> HIDE DEF T
    <3>3. T = [i \in 1..(N - 1) |-> T[i]] BY <1>1, <3>2
    <3>4. Regs' = T BY <2>4, <3>1, <3>2, <3>3
    <3> QED BY <3>4 DEF T
  <2>6. Flat(Tail(c), Regs') BY <2>3, <2>5
  <2>7. Chain(Tail(c))' BY <2>6 DEF Chain, Flat, Laid
  <2> QED BY <1>5, <2>7 DEF Running, r
<1> QED BY <1>9, <1>10

-----------------------------------------------------------------------------
(* The queue and its last records.                                         *)

LEMMA AppendIndex ==
  ASSUME NEW c \in Seq(Recs), NEW rec \in Recs
  PROVE  /\ Append(c, rec) \in Seq(Recs) /\ Len(Append(c, rec)) = Len(c) + 1 /\ Len(c) \in Nat
         /\ \A k \in 1..Len(c) : Append(c, rec)[k] = c[k]
         /\ Append(c, rec)[Len(c) + 1] = rec
OBVIOUS

LEMMA TailIndex ==
  ASSUME NEW c \in Seq(Recs), c # <<>>
  PROVE  /\ Tail(c) \in Seq(Recs) /\ Len(Tail(c)) = Len(c) - 1 /\ Len(c) \in Nat /\ Len(c) >= 1
         /\ \A k \in 1..(Len(c) - 1) : Tail(c)[k] = c[k + 1]
         /\ Head(c) = c[1] /\ Head(c) \in Recs
BY EmptySeq

LEMMA EndsAppend ==
  ASSUME NEW c \in Seq(Recs), NEW rec \in Recs, NEW h, NEW b, NEW v, NEW x
  PROVE  /\ Carries(rec, h, b) /\ Carried(rec, b) = v => EndsAs(Append(c, rec), h, b, v, x)
         /\ ~Carries(rec, h, b) /\ EndsAs(c, h, b, v, x) => EndsAs(Append(c, rec), h, b, v, x)
<1> DEFINE d == Append(c, rec)
<1> DEFINE n == Len(c)
<1>1. /\ Len(d) = n + 1 /\ n \in Nat /\ d[n + 1] = rec
      /\ \A k \in 1..n : d[k] = c[k]
  BY AppendIndex
<1> HIDE DEF d, n
<1>2. n + 1 \in 1..(n + 1) /\ \A l \in 1..(n + 1) : ~(n + 1 < l) BY <1>1
<1>3. \A l \in 1..(n + 1) : l \in 1..n \/ l = n + 1 BY <1>1
<1>4. \A k \in 1..n : k \in 1..(n + 1) BY <1>1
<1>5. Carries(rec, h, b) /\ Carried(rec, b) = v => EndsAs(d, h, b, v, x)
  BY <1>1, <1>2 DEF EndsAs
<1>6. ASSUME ~Carries(rec, h, b), EndsAs(c, h, b, v, x) PROVE EndsAs(d, h, b, v, x)
  <2>1. CASE \E k \in 1..n : /\ Carries(c[k], h, b) /\ Carried(c[k], b) = v
                             /\ \A l \in 1..n : k < l => ~Carries(c[l], h, b)
    <3>1. PICK k \in 1..n : /\ Carries(c[k], h, b) /\ Carried(c[k], b) = v
                            /\ \A l \in 1..n : k < l => ~Carries(c[l], h, b)
      BY <2>1
    <3>2. Carries(d[k], h, b) /\ Carried(d[k], b) = v /\ k \in 1..(n + 1) BY <1>1, <1>4, <3>1
    <3>3. \A l \in 1..(n + 1) : k < l => ~Carries(d[l], h, b)
      BY <1>1, <1>3, <1>6, <3>1
    <3> QED BY <1>1, <3>2, <3>3 DEF EndsAs
  <2>2. CASE (\A k \in 1..n : ~Carries(c[k], h, b)) /\ x = v
    <3>1. \A l \in 1..(n + 1) : ~Carries(d[l], h, b) BY <1>1, <1>3, <1>6, <2>2
    <3> QED BY <1>1, <2>2, <3>1 DEF EndsAs
  <2> QED BY <1>6, <2>1, <2>2 DEF EndsAs, n
<1> QED BY <1>5, <1>6 DEF d

LEMMA EndsTail ==
  ASSUME NEW c \in Seq(Recs), c # <<>>, NEW h, NEW b, NEW v, NEW x, EndsAs(c, h, b, v, x)
  PROVE  EndsAs(Tail(c), h, b, v, IF Carries(Head(c), h, b) THEN Carried(Head(c), b) ELSE x)
<1> DEFINE d == Tail(c)
<1> DEFINE n == Len(c) - 1
<1> DEFINE y == IF Carries(Head(c), h, b) THEN Carried(Head(c), b) ELSE x
<1>1. /\ Len(d) = n /\ n \in Nat /\ Len(c) = n + 1 /\ Head(c) = c[1]
      /\ \A k \in 1..n : d[k] = c[k + 1]
  BY TailIndex
<1> SUFFICES EndsAs(d, h, b, v, y) OBVIOUS
<1> HIDE DEF d, n
<1>2. /\ 1 \in 1..(n + 1)
      /\ \A k \in 1..n : k + 1 \in 1..(n + 1) /\ 1 < k + 1
      /\ \A k \in 1..n, l \in 1..n : k < l => k + 1 < l + 1
  BY <1>1
<1>3. CASE \E k \in 1..(n + 1) : /\ Carries(c[k], h, b) /\ Carried(c[k], b) = v
                                 /\ \A l \in 1..(n + 1) : k < l => ~Carries(c[l], h, b)
  <2>1. PICK k \in 1..(n + 1) : /\ Carries(c[k], h, b) /\ Carried(c[k], b) = v
                                /\ \A l \in 1..(n + 1) : k < l => ~Carries(c[l], h, b)
    BY <1>3
  <2>2. CASE k = 1
    <3>1. y = v BY <1>1, <2>1, <2>2
    <3>2. \A l \in 1..n : ~Carries(d[l], h, b) BY <1>1, <1>2, <2>1, <2>2
    <3> HIDE DEF y
    <3> QED BY <1>1, <3>1, <3>2 DEF EndsAs
  <2>3. CASE k # 1
    <3>1. PICK m \in 1..n : k = m + 1
      <4>1. k - 1 \in 1..n /\ k = (k - 1) + 1 BY <1>1, <2>3
      <4> QED BY <4>1
    <3>2. Carries(d[m], h, b) /\ Carried(d[m], b) = v BY <1>1, <2>1, <3>1
    <3>3. \A l \in 1..n : m < l => ~Carries(d[l], h, b) BY <1>1, <1>2, <2>1, <3>1
    <3> QED BY <1>1, <3>2, <3>3 DEF EndsAs
  <2> QED BY <2>2, <2>3
<1>4. CASE (\A k \in 1..(n + 1) : ~Carries(c[k], h, b)) /\ x = v
  <2>1. y = v BY <1>1, <1>2, <1>4
  <2>2. \A l \in 1..n : ~Carries(d[l], h, b) BY <1>1, <1>2, <1>4
  <2> HIDE DEF y
  <2> QED BY <1>1, <2>1, <2>2 DEF EndsAs
<1> HIDE DEF y
<1> QED BY <1>1, <1>3, <1>4 DEF EndsAs

LEMMA NewAppend ==
  ASSUME NEW c \in Seq(Recs), NEW rec \in Recs, NEW l, NEW d,
         NEW n \in 1..(Len(c) + 1), NewAt(c, n, l, d)
  PROVE  NewAt(Append(c, rec), n, l, d)
<1> DEFINE e == Append(c, rec)
<1> DEFINE z == Len(c)
<1>1. /\ Len(e) = z + 1 /\ z \in Nat /\ \A k \in 1..z : e[k] = c[k]
  BY AppendIndex
<1> SUFFICES NewAt(e, n, l, d) OBVIOUS
<1> HIDE DEF e, z
<1>2. n \in 1..(z + 1) BY DEF z
<1>3. /\ \A k \in 1..(z + 1) : k < n => k \in 1..z
      /\ \A k \in 1..z : k \in 1..(z + 1)
  BY <1>1, <1>2
<1>4. CASE \E k \in 1..z : /\ k < n /\ HasPage(c[k]) /\ AsNew(c[k].page, l)
                           /\ \A m \in 1..z : k < m /\ m < n => ~HasPage(c[m])
  <2>1. PICK k \in 1..z : /\ k < n /\ HasPage(c[k]) /\ AsNew(c[k].page, l)
                          /\ \A m \in 1..z : k < m /\ m < n => ~HasPage(c[m])
    BY <1>4
  <2>2. k \in 1..(z + 1) /\ e[k] = c[k] BY <1>1, <1>3
  <2>3. \A m \in 1..(z + 1) : k < m /\ m < n => ~HasPage(e[m]) BY <1>1, <1>3, <2>1
  <2>4. HasPage(e[k]) /\ AsNew(e[k].page, l) BY <2>1, <2>2
  <2>5. 1..Len(e) = 1..(z + 1) BY <1>1
  <2>6. \E j \in 1..Len(e) : /\ j < n /\ HasPage(e[j]) /\ AsNew(e[j].page, l)
                            /\ \A m \in 1..Len(e) : j < m /\ m < n => ~HasPage(e[m])
    BY <2>1, <2>2, <2>3, <2>4, <2>5, Zenon
  <2> QED BY <2>6, Zenon DEF NewAt
<1>5. CASE (\A k \in 1..z : k < n => ~HasPage(c[k])) /\ \A x \in Cells : d[x] >= l
  BY <1>1, <1>3, <1>5 DEF NewAt
<1> QED BY <1>4, <1>5 DEF NewAt, z

LEMMA NewEnd ==
  ASSUME NEW c \in Seq(Recs), NEW rec \in Recs, NEW l, NEW d
  PROVE  /\ HasPage(rec) /\ AsNew(rec.page, l) => NewAt(Append(c, rec), Len(c) + 2, l, d)
         /\ ~HasPage(rec) /\ NewAt(c, Len(c) + 1, l, d) => NewAt(Append(c, rec), Len(c) + 2, l, d)
<1> DEFINE e == Append(c, rec)
<1> DEFINE z == Len(c)
<1>1. /\ Len(e) = z + 1 /\ z \in Nat /\ e[z + 1] = rec /\ \A k \in 1..z : e[k] = c[k]
  BY AppendIndex
<1> HIDE DEF e, z
<1>2. /\ z + 1 \in 1..(z + 1) /\ z + 1 < z + 2
      /\ \A k \in 1..(z + 1) : k \in 1..z \/ k = z + 1
      /\ \A k \in 1..z : k \in 1..(z + 1) /\ k < z + 1 /\ k < z + 2
      /\ \A m \in 1..(z + 1) : ~(z + 1 < m)
  BY <1>1
<1>3. ASSUME HasPage(rec), AsNew(rec.page, l) PROVE NewAt(e, z + 2, l, d)
  BY <1>1, <1>2, <1>3 DEF NewAt
<1>4. ASSUME ~HasPage(rec), NewAt(c, z + 1, l, d) PROVE NewAt(e, z + 2, l, d)
  <2>1. CASE \E k \in 1..z : /\ k < z + 1 /\ HasPage(c[k]) /\ AsNew(c[k].page, l)
                             /\ \A m \in 1..z : k < m /\ m < z + 1 => ~HasPage(c[m])
    <3>1. PICK k \in 1..z : /\ HasPage(c[k]) /\ AsNew(c[k].page, l)
                            /\ \A m \in 1..z : k < m /\ m < z + 1 => ~HasPage(c[m])
      BY <2>1
    <3>2. HasPage(e[k]) /\ AsNew(e[k].page, l) /\ k \in 1..(z + 1) /\ k < z + 2 BY <1>1, <1>2, <3>1
    <3>3. \A m \in 1..(z + 1) : k < m /\ m < z + 2 => ~HasPage(e[m]) BY <1>1, <1>2, <1>4, <3>1
    <3> QED BY <1>1, <3>2, <3>3 DEF NewAt
  <2>2. CASE (\A k \in 1..z : k < z + 1 => ~HasPage(c[k])) /\ \A x \in Cells : d[x] >= l
    <3>1. \A k \in 1..(z + 1) : ~HasPage(e[k]) BY <1>1, <1>2, <1>4, <2>2
    <3> QED BY <1>1, <2>2, <3>1 DEF NewAt
  <2> QED BY <1>4, <2>1, <2>2 DEF NewAt, z
<1> QED BY <1>3, <1>4 DEF e, z

LEMMA NewTail ==
  ASSUME NEW c \in Seq(Recs), c # <<>>, NEW n \in 2..(Len(c) + 1), NEW l, NEW d, NEW e,
         NewAt(c, n, l, d),
         IF HasPage(Head(c)) THEN AsNew(Head(c).page, l) => \A x \in Cells : e[x] >= l ELSE e = d
  PROVE  NewAt(Tail(c), n - 1, l, e)
<1> DEFINE t == Tail(c)
<1> DEFINE z == Len(c) - 1
<1>1. /\ Len(t) = z /\ z \in Nat /\ Len(c) = z + 1 /\ Head(c) = c[1]
      /\ \A k \in 1..z : t[k] = c[k + 1]
  BY TailIndex
<1> SUFFICES NewAt(t, n - 1, l, e) OBVIOUS
<1> HIDE DEF t, z
<1>2. n \in 2..(z + 2) BY <1>1
<1>3. /\ 1 \in 1..(z + 1) /\ 1 < n
      /\ \A k \in 1..z : k + 1 \in 1..(z + 1) /\ 1 < k + 1 /\ (k < n - 1 <=> k + 1 < n)
      /\ \A k \in 1..z, m \in 1..z : k < m => k + 1 < m + 1
  BY <1>1, <1>2
<1>4. CASE \E k \in 1..(z + 1) : /\ k < n /\ HasPage(c[k]) /\ AsNew(c[k].page, l)
                                 /\ \A m \in 1..(z + 1) : k < m /\ m < n => ~HasPage(c[m])
  <2>1. PICK k \in 1..(z + 1) : /\ k < n /\ HasPage(c[k]) /\ AsNew(c[k].page, l)
                                /\ \A m \in 1..(z + 1) : k < m /\ m < n => ~HasPage(c[m])
    BY <1>4
  <2>2. CASE k = 1
    <3>1. \A x \in Cells : e[x] >= l BY <1>1, <2>1, <2>2
    <3>2. \A m \in 1..z : m < n - 1 => ~HasPage(t[m]) BY <1>1, <1>3, <2>1, <2>2
    <3> QED BY <1>1, <3>1, <3>2 DEF NewAt
  <2>3. CASE k # 1
    <3>1. PICK j \in 1..z : k = j + 1
      <4>1. k - 1 \in 1..z /\ k = (k - 1) + 1 BY <1>1, <2>3
      <4> QED BY <4>1
    <3>2. j < n - 1 /\ HasPage(t[j]) /\ AsNew(t[j].page, l) BY <1>1, <1>3, <2>1, <3>1
    <3>3. \A m \in 1..z : j < m /\ m < n - 1 => ~HasPage(t[m]) BY <1>1, <1>3, <2>1, <3>1
    <3> QED BY <1>1, <3>2, <3>3 DEF NewAt
  <2> QED BY <2>2, <2>3
<1>5. CASE (\A k \in 1..(z + 1) : k < n => ~HasPage(c[k])) /\ \A x \in Cells : d[x] >= l
  <2>1. e = d BY <1>1, <1>3, <1>5
  <2>2. \A m \in 1..z : m < n - 1 => ~HasPage(t[m]) BY <1>1, <1>3, <1>5
  <2> QED BY <1>1, <1>5, <2>1, <2>2 DEF NewAt
<1> QED BY <1>1, <1>4, <1>5 DEF NewAt

-----------------------------------------------------------------------------
(* Types.                                                                  *)

LEMMA Numbers == MaxVersions \in Nat /\ Versions \subseteq Nat /\ Regions \in Nat /\ Regions >= 2
                 /\ Last \in Nat /\ Active \in 2 .. Last
BY DeliveryAssumption DEF Versions

LEMMA MadeType == Typed /\ Made => version' \in Versions /\ version' = version + 1
BY DeliveryAssumption DEF Typed, Made, Versions

LEMMA IdleAccess == Idle \in Accesses
<1>1. 0 \in Versions BY DeliveryAssumption DEF Versions
<1> QED BY <1>1 DEF Idle, Accesses, Halves

LEMMA AccessStep ==
  ASSUME Typed, NEW pc \in {"idle", "store", "test", "mark", "fb", "note", "mask", "page", "spin"}
  PROVE  [cpu EXCEPT !.pc = pc] \in Accesses
BY DEF Typed, Accesses

LEMMA TypedCPU == Typed /\ CPU => Typed'
<1> SUFFICES ASSUME Typed, CPU PROVE Typed'
  OBVIOUS
<1> USE DEF memory, writes, pairs, walker, regions, gpu, history
<1>0. UNCHANGED <<pairKept, drawFB, walker, ops, regions, gpu>> BY DEF CPU
<1>a. cpu \in Accesses /\ cpu.to \in Halves /\ cpu.v \in Versions BY DEF Typed, Accesses
<1>1. CASE WriteVRAM /\ UNCHANGED <<pair, writes, pairRequest>>
  <2>1. version' \in Versions BY <1>1, MadeType DEF WriteVRAM
  <2>2. mem' \in [Cells -> Versions] BY <1>1, <2>1 DEF WriteVRAM, Typed, Cells
  <2>3. cpu' \in Accesses BY <1>1, <2>1 DEF WriteVRAM, Accesses, Halves
  <2> QED BY <1>0, <1>1, <2>1, <2>2, <2>3 DEF WriteVRAM, Typed
<1>2. CASE WriteFB /\ UNCHANGED <<memory, pairRequest>>
  <2>1. version' \in Versions BY <1>2, MadeType DEF WriteFB
  <2>2. cpu' \in Accesses BY <1>2, <2>1 DEF WriteFB, Accesses, Typed
  <2> QED BY <1>0, <1>2, <2>1, <2>2 DEF WriteFB, Typed
<1>3. CASE ReadFB /\ UNCHANGED <<memory, pair, writes, history>>
  <2>1. cpu' \in Accesses BY <1>3, <1>a, AccessStep DEF ReadFB, Cpu
  <2>2. pairRequest' \in BOOLEAN BY <1>3 DEF ReadFB, Typed
  <2> QED BY <1>0, <1>3, <2>1, <2>2 DEF Typed
<1>4. CASE StoreRest /\ UNCHANGED <<pair, writes, pairRequest, version, latest, raced>>
  <2>1. cpu' \in Accesses BY <1>4, AccessStep DEF StoreRest, Cpu
  <2>2. mem' \in [Cells -> Versions] BY <1>4, <1>a DEF StoreRest, Typed, Cells
  <2> QED BY <1>0, <1>4, <2>1, <2>2 DEF StoreRest, Typed
<1>5. CASE TestPage /\ UNCHANGED <<pair, writes, pairRequest, version, latest, raced>>
  <2>1. cpu' \in Accesses BY <1>5, AccessStep, IdleAccess DEF TestPage, Cpu, Marked
  <2>2. complete' \in Versions BY <1>5, <1>a DEF TestPage, Marked, Typed
  <2> QED BY <1>0, <1>5, <2>1, <2>2 DEF TestPage, Typed
<1>6. CASE MarkPage /\ UNCHANGED <<pair, writes, pairRequest, version, latest, raced>>
  <2>1. cpu' \in Accesses BY <1>6, IdleAccess DEF MarkPage, Marked
  <2>2. complete' \in Versions /\ dirty' \in BOOLEAN BY <1>6, <1>a DEF MarkPage, Marked, Typed
  <2> QED BY <1>0, <1>6, <2>1, <2>2 DEF MarkPage, Typed
<1>7. CASE fbWriteTarget /\ UNCHANGED <<memory, pairRequest>>
  <2>1. cpu' \in Accesses BY <1>7, AccessStep DEF fbWriteTarget, Cpu
  <2>2. latest' \in Pairs BY <1>7, <1>a DEF fbWriteTarget, Typed, Pairs
  <2>3. pair' \in Pairs /\ shadow' \in Pairs
    <3>0. "c" \in Bytes BY DEF Bytes
    <3>1. ASSUME NEW f \in Pairs PROVE [f EXCEPT ![cpu.to]["c"] = cpu.v] \in Pairs
      BY <1>a, <3>0 DEF Pairs
    <3>2. pair \in Pairs /\ shadow \in Pairs BY DEF Typed
    <3>3. \/ pair' = [pair EXCEPT ![cpu.to]["c"] = cpu.v] /\ shadow' = shadow
          \/ shadow' = [shadow EXCEPT ![cpu.to]["c"] = cpu.v] /\ pair' = pair
      BY <1>7 DEF fbWriteTarget
    <3> QED BY <3>1, <3>2, <3>3
  <2> QED BY <1>0, <1>7, <2>1, <2>2, <2>3 DEF fbWriteTarget, Typed
<1>8. CASE NoteByte /\ UNCHANGED <<memory, pairRequest>>
  <2>1. cpu' \in Accesses BY <1>8 DEF NoteByte, Typed, Accesses
  <2>2. raced' \in [Halves -> BOOLEAN] BY <1>8 DEF NoteByte, Typed
  <2>3. shadow' \in Pairs BY <1>8 DEF NoteByte, Typed, Pairs, Bytes
  <2> QED BY <1>0, <1>8, <2>1, <2>2, <2>3 DEF NoteByte, Typed
<1>9. CASE NoteMask /\ UNCHANGED <<memory, pairRequest>>
  <2>1. cpu' \in Accesses BY <1>9, AccessStep DEF NoteMask, Cpu
  <2>2. fbMask' \in [Halves -> SUBSET Bytes] BY <1>9 DEF NoteMask, Typed, Bytes
  <2> QED BY <1>0, <1>9, <2>1, <2>2 DEF NoteMask, Typed
<1>10. CASE NotePage /\ UNCHANGED <<memory, pairRequest>>
  <2>1. cpu' \in Accesses BY <1>10, IdleAccess DEF NotePage
  <2>2. fbDirty' \in [Halves -> BOOLEAN] BY <1>10 DEF NotePage, Typed
  <2> QED BY <1>0, <1>10, <2>1, <2>2 DEF NotePage, Typed
<1>11. CASE waitPair /\ UNCHANGED <<memory, pair, writes, history>>
  <2>1. cpu' \in Accesses BY <1>11, IdleAccess DEF waitPair
  <2> QED BY <1>0, <1>11, <2>1 DEF waitPair, Typed
<1> QED
  BY <1>1, <1>2, <1>3, <1>4, <1>5, <1>6, <1>7, <1>8, <1>9, <1>10, <1>11
  DEF CPU, CpuStarts, CpuContinues

\* What a take puts is a record.
LEMMA TakenRecords ==
  ASSUME Typed, Progress, \E c : Taken(c)
  PROVE  /\ place = "row" => [kind |-> "row", page |-> got, least |-> due] \in Recs
         /\ place = "shadow" =>
              [kind |-> "fb", half |-> half, mask |-> got, bytes |-> shadow[half]] \in Recs
<1>1. CASE place = "row"
  <2>1. got = {} \/ \E l : AsNew(got, l) BY <1>1 DEF Taken
  <2>2. got \in SUBSET (Cells \X Versions) BY <2>1 DEF AsNew, PageOf
  <2> QED BY <1>1, <2>2 DEF Typed, Recs, RowRecs
<1>2. CASE place = "shadow"
  BY <1>2 DEF Typed, Progress, Recs, FBRecs, Pairs
<1> QED BY <1>1, <1>2

LEMMA TypedTakes ==
  ASSUME Typed, Control, Progress, \E c : Taken(c), Takes,
         UNCHANGED <<pairs, drawFB, disp, cpu, device, history>>
  PROVE  Typed'
<1> USE DEF memory, writes, pairs, regions, gpu, history
<1>1. CASE TakePage /\ UNCHANGED <<mem, writes, ops, queue, regions>>
  BY <1>1 DEF TakePage, Typed, Places
<1>2. CASE RenderLine /\ UNCHANGED <<mem, writes, ops, queue>>
  <2>1. staging' \in [1..Regions -> Seq(Recs)]
    BY <1>2, TakenRecords DEF RenderLine, RowEnds, Put, Typed
  <2>2. due' \in Versions BY <1>2, DeliveryAssumption DEF RenderLine, RowEnds, Versions
  <2> QED BY <1>2, <2>1, <2>2 DEF RenderLine, RowEnds, Put, Typed, Places, Calls
<1>3. CASE TakeFB /\ UNCHANGED <<memory, ops, queue>>
  <2>1. staging' \in [1..Regions -> Seq(Recs)]
    <3>1. CASE UNCHANGED regions BY <1>3, <3>1 DEF Typed
    <3>2. CASE place = "shadow" /\ Put([kind |-> "fb", half |-> half, mask |-> got, bytes |-> shadow[half]])
      <4>1. [kind |-> "fb", half |-> half, mask |-> got, bytes |-> shadow[half]] \in Recs
        BY <3>2, TakenRecords
      <4> DEFINE rec == [kind |-> "fb", half |-> half, mask |-> got, bytes |-> shadow[half]]
      <4>2. rec \in Recs BY <4>1
      <4> HIDE DEF rec
      <4>3. Append(staging[cur], rec) \in Seq(Recs) BY <4>2 DEF Typed
      <4>4. staging' = [staging EXCEPT ![cur] = Append(@, rec)] BY <3>2 DEF Put, rec
      <4> QED BY <4>3, <4>4 DEF Typed
    <3> QED BY <1>3, <3>1, <3>2 DEF TakeFB
  <2>2. half' \in Halves BY <1>3 DEF TakeFB, Typed, Halves
  <2>3. fbDirty' \in [Halves -> BOOLEAN] /\ fbMask' \in [Halves -> SUBSET Bytes]
    BY <1>3 DEF TakeFB, Typed
  <2>4. place' \in Places BY <1>3 DEF TakeFB, Typed, Places
  <2>5. UNCHANGED <<line, call, due, shadow, cur>> BY <1>3 DEF TakeFB, Put
  <2> QED BY <1>3, <2>1, <2>2, <2>3, <2>4, <2>5 DEF Typed
<1>4. CASE TakeOps /\ UNCHANGED <<memory, writes, queue>>
  <2>1. staging' \in [1..Regions -> Seq(Recs)]
    <3>1. ops \in Seq(Recs) BY DEF Typed, Recs
    <3>2. staging[cur] \o ops \in Seq(Recs) BY <3>1 DEF Typed
    <3> QED BY <1>4, <3>2 DEF TakeOps, RowPlace, Typed
  <2>2. ops' \in Seq(OpRecs) /\ Len(ops') <= 1 BY <1>4 DEF TakeOps, RowPlace
  <2>3. place' \in Places BY <1>4 DEF TakeOps, RowPlace, Places
  <2> QED BY <1>4, <2>1, <2>2, <2>3 DEF TakeOps, Typed, Halves
<1>5. CASE submitBatch /\ UNCHANGED <<memory, writes, ops>>
  <2>1. cur' \in 1..Regions /\ queue' \in Seq(1..Regions)
    <3>1. 1 + (cur % Regions) \in 1..Regions BY Numbers DEF Typed
    <3>2. Append(queue, cur) \in Seq(1..Regions) BY DEF Typed
    <3> QED BY <1>5, <3>1, <3>2 DEF submitBatch, Typed
  <2>2. place' \in Places /\ UNCHANGED <<line, call, half, due, staging>>
    BY <1>5 DEF submitBatch, Go, AfterSubmit, RowPlace, Typed, Control, Calls, Places
  <2> QED BY <1>5, <2>1, <2>2 DEF Typed
<1>6. CASE advanceStaging /\ UNCHANGED <<memory, writes, ops>>
  <2>1. place' \in Places /\ UNCHANGED <<line, call, half, due, queue, cur>>
    BY <1>6 DEF advanceStaging, Go, AfterSubmit, RowPlace, Typed, Control, Calls, Places
  <2>2. staging' \in [1..Regions -> Seq(Recs)] BY <1>6 DEF advanceStaging, Typed
  <2> QED BY <1>6, <2>1, <2>2 DEF Typed
<1>7. CASE BlankRow /\ UNCHANGED <<memory, writes, ops, queue, regions>>
  BY <1>7 DEF BlankRow, RowEnds, Typed, Places, Calls
<1>8. CASE MakeRoom /\ UNCHANGED <<memory, writes, walker, ops>>
  <2>1. cur' \in 1..Regions /\ queue' \in Seq(1..Regions)
    <3>1. 1 + (cur % Regions) \in 1..Regions BY Numbers DEF Typed
    <3>2. Append(queue, cur) \in Seq(1..Regions) BY DEF Typed
    <3> QED BY <1>8, <3>1, <3>2 DEF MakeRoom
  <2>2. staging' \in [1..Regions -> Seq(Recs)]
    <3>1. staging' = [staging EXCEPT ![cur'] = <<>>] BY <1>8 DEF MakeRoom
    <3>2. staging \in [1..Regions -> Seq(Recs)] BY DEF Typed
    <3>3. \A k : [staging EXCEPT ![k] = <<>>] \in [1..Regions -> Seq(Recs)]
      <4> DEFINE S == Seq(Recs)
      <4>1. staging \in [1..Regions -> S] /\ <<>> \in S BY <3>2
      <4> HIDE DEF S
      <4>2. \A e \in S : \A k : [staging EXCEPT ![k] = e] \in [1..Regions -> S] BY <4>1
      <4>3. \A k : [staging EXCEPT ![k] = <<>>] \in [1..Regions -> S] BY <4>1, <4>2
      <4> QED BY <4>3 DEF S
    <3> QED BY <3>1, <3>3
  <2>3. UNCHANGED <<place, line, call, half, got, due>> BY <1>8 DEF walker
  <2> QED BY <1>8, <2>1, <2>2, <2>3 DEF Typed
<1> QED BY <1>1, <1>2, <1>3, <1>4, <1>5, <1>6, <1>7, <1>8 DEF Takes

LEMMA TypedLines ==
  ASSUME Typed, Control, Lines, UNCHANGED <<memory, writes, cpu, regions, gpu, complete, raced>>
  PROVE  Typed'
<1> USE DEF memory, writes, pairs, regions, gpu
<1>1. CASE WaitEnds BY <1>1 DEF WaitEnds, Call, Go, Typed, Places, Calls
<1>2. CASE servicePair BY <1>2 DEF servicePair, Call, Typed, Places, Calls
<1>3. CASE Flush BY <1>3 DEF Flush, Go, Typed, Places
<1>4. CASE Change BY <1>4 DEF Change, Call, Typed, Places, Calls
<1>5. CASE Tick
  <2>1. ops = <<>> BY <1>5 DEF Tick, Control, Taking
  <2>2. /\ place' \in Places /\ call' \in Calls
        /\ UNCHANGED <<line, half, got, due, pairKept, pairRequest, drawFB>>
    BY <1>5 DEF Tick, Call, Places, Calls
  <2>3. CASE UNCHANGED <<ops, latest, pair, version>>
    BY <2>2, <2>3 DEF Typed
  <2>4. CASE /\ Made
             /\ ops' = Append(ops, [kind |-> "op", half |-> drawFB, v |-> version'])
             /\ latest' = [latest EXCEPT ![drawFB]["o"] = version']
             /\ pair' = IF pairKept THEN [pair EXCEPT ![drawFB]["o"] = version'] ELSE pair
    <3>1. version' \in Versions BY <2>4, MadeType
    <3>2. latest' \in Pairs /\ pair' \in Pairs BY <2>4, <3>1 DEF Typed, Pairs, Halves, Bytes
    <3>3. [kind |-> "op", half |-> drawFB, v |-> version'] \in OpRecs BY <3>1 DEF Typed, OpRecs
    <3>4. ops' \in Seq(OpRecs) /\ Len(ops') <= 1 BY <2>1, <2>4, <3>3
    <3> QED BY <2>2, <3>1, <3>2, <3>4 DEF Typed
  <2> QED BY <1>5, <2>3, <2>4 DEF Tick
<1>6. CASE NextLine BY <1>6, Numbers DEF NextLine, Go, Typed, Places
<1>7. CASE BeginFrame BY <1>7, Numbers DEF BeginFrame, Typed, Places
<1>8. CASE Serialize BY <1>8 DEF Serialize, Go, Call, Typed, Places, Calls
<1> QED BY <1>1, <1>2, <1>3, <1>4, <1>5, <1>6, <1>7, <1>8 DEF Lines

\* What the device applies has the cells and bytes of a record.
LEMMA AppliedType ==
  ASSUME Typed, NEW rec \in Recs, HasPage(rec) => \E l : AsNew(rec.page, l)
  PROVE  Applied(device, rec) \in [mem : [Cells -> Versions], pair : Pairs]
<1>0. device \in [mem : [Cells -> Versions], pair : Pairs] BY DEF Typed
<1>1. CASE rec \in RowRecs
  <2>1. CASE rec.page = {}
    BY <1>0, <1>1, <2>1 DEF Applied, RowRecs
  <2>2. CASE rec.page # {}
    <3>1. PICK f \in [Cells -> Versions] : rec.page = PageOf(f)
      BY <1>1, <2>2 DEF HasPage, RowRecs, AsNew
    <3>2. \A c \in Cells : (CHOOSE v \in Versions : <<c, v>> \in rec.page) \in Versions
      BY <3>1 DEF PageOf
    <3> QED BY <1>0, <1>1, <2>2, <3>2 DEF Applied, RowRecs
  <2> QED BY <2>1, <2>2
<1>2. CASE rec \in FBRecs
  <2>1. rec.kind = "fb" /\ rec.half \in Halves /\ rec.bytes \in [Bytes -> Versions]
    BY <1>2 DEF FBRecs
  <2>2. [b \in Bytes |-> IF b \in rec.mask THEN rec.bytes[b] ELSE device.pair[rec.half][b]]
          \in [Bytes -> Versions]
    BY <1>0, <2>1 DEF Pairs
  <2>3. Applied(device, rec) = [device EXCEPT !.pair[rec.half] =
          [b \in Bytes |-> IF b \in rec.mask THEN rec.bytes[b] ELSE device.pair[rec.half][b]]]
    BY <2>1 DEF Applied
  <2> QED BY <1>0, <2>1, <2>2, <2>3 DEF Pairs
<1>3. CASE rec \in OpRecs
  BY <1>0, <1>3 DEF Applied, OpRecs, Pairs, Bytes
<1> QED BY <1>1, <1>2, <1>3 DEF Recs

LEMMA TypedDeserialize == Typed /\ Deserialize => Typed'
<1> SUFFICES ASSUME Typed, Deserialize PROVE Typed'
  OBVIOUS
<1>1. version' \in Versions BY MadeType DEF Deserialize
<1>2. /\ UNCHANGED <<pairKept, pairRequest, drawFB, cpu, place, line, call, half, got, due, ops,
                     staging, cur, queue, device>>
  BY DEF Deserialize, walker, regions, gpu
<1>3. /\ mem' \in [Cells -> Versions] /\ dirty' \in BOOLEAN /\ pair' \in Pairs
      /\ latest' \in Pairs /\ shadow' \in Pairs /\ complete' \in Versions
      /\ fbMask' \in [Halves -> SUBSET Bytes] /\ fbDirty' \in [Halves -> BOOLEAN]
      /\ raced' \in [Halves -> BOOLEAN]
  BY <1>1 DEF Deserialize, Pairs
<1> QED BY <1>1, <1>2, <1>3 DEF Typed

\* The device runs what was put first.
LEMMA TypedDevice ==
  ASSUME Typed, Submitted, NEW c, Chain(c), Rows(c), Device
  PROVE  Typed'
<1>1. queue # <<>> /\ staging[Head(queue)] # <<>>
  <2>1. queue # <<>> /\ queue \in Seq(1..Regions) BY DEF Device, Typed
  <2>2. 1 \in DOMAIN queue /\ Head(queue) = queue[1] BY <2>1, EmptySeq
  <2> QED BY <2>1, <2>2 DEF Submitted
<1>2. /\ device' = Applied(device, Running)
      /\ staging' = [staging EXCEPT ![Head(queue)] = Tail(@)]
      /\ queue' = IF Len(staging[Head(queue)]) = 1 THEN Tail(queue) ELSE queue
      /\ UNCHANGED <<memory, pairs, drawFB, writes, cpu, walker, ops, cur, history>>
  BY <1>1 DEF Device
<1>3. c # <<>> /\ Head(c) = Running
  BY <1>1, <1>2, ChainDevice DEF walker
<1>4. c \in Seq(Recs) /\ 1 \in 1..Len(c) /\ Running = c[1]
  <2>1. c \in Seq(Recs) BY DEF Chain, Flat
  <2> QED BY <1>3, <2>1, TailIndex
<1>5. Running \in Recs BY <1>4
<1>6. HasPage(Running) => \E l : AsNew(Running.page, l)
  BY <1>4 DEF Rows, HasPage
<1>7. device' \in [mem : [Cells -> Versions], pair : Pairs] BY <1>2, <1>5, <1>6, AppliedType
<1>8. Head(queue) \in 1..Regions /\ queue' \in Seq(1..Regions)
  <2>1. queue \in Seq(1..Regions) /\ queue # <<>> BY <1>1 DEF Typed
  <2>2. Head(queue) \in 1..Regions /\ Tail(queue) \in Seq(1..Regions) BY <2>1, HeadTailProperties
  <2> QED BY <1>2, <2>1, <2>2
<1>9. staging' \in [1..Regions -> Seq(Recs)]
  <2>1. Head(queue) \in 1..Regions BY <1>8
  <2>2. Tail(staging[Head(queue)]) \in Seq(Recs) BY <1>1, <2>1 DEF Typed
  <2> QED BY <1>2, <2>1, <2>2 DEF Typed
<1> QED BY <1>2, <1>7, <1>8, <1>9 DEF Typed, memory, pairs, writes, walker, history

LEMMA TypedStep ==
  ASSUME Typed, Control, Submitted, Progress, NEW c, Holds(c), [Next]_vars
  PROVE  Typed'
<1>1. CASE CPU BY <1>1, TypedCPU
<1>2. CASE Takes /\ UNCHANGED <<pairs, drawFB, disp, cpu, device, history>>
  BY <1>2, TypedTakes DEF Holds
<1>3. CASE Lines /\ UNCHANGED <<memory, writes, cpu, regions, gpu, complete, raced>>
  BY <1>3, TypedLines
<1>4. CASE Deserialize BY <1>4, TypedDeserialize
<1>5. CASE Device BY <1>5, TypedDevice DEF Holds
<1>6. CASE UNCHANGED vars
  BY <1>6 DEF vars, Typed, memory, pairs, writes, walker, regions, gpu, history
<1> QED BY <1>1, <1>2, <1>3, <1>4, <1>5, <1>6 DEF Next, Walker

-----------------------------------------------------------------------------
(* Who may be where.                                                       *)

\* What a CPU does, as far as the walker's place is concerned.
LEMMA CPUMoves ==
  ASSUME Typed, CPU
  PROVE  /\ UNCHANGED <<pairKept, drawFB, place, line, call, half, got, due, ops, staging, cur, queue, device>>
         /\ cpu = Idle => line < Last \/ place = "wait"
         /\ cpu.pc = "spin" => cpu' = Idle /\ pairKept /\ UNCHANGED pairRequest
         /\ pairRequest' # pairRequest => ~pairKept /\ cpu = Idle /\ cpu'.pc = "spin" /\ pairRequest' = TRUE
<1> USE DEF memory, writes, pairs, walker, regions, gpu, history
<1>1. UNCHANGED <<pairKept, drawFB, place, line, call, half, got, due, ops, staging, cur, queue, device>>
  BY DEF CPU
<1>2. CASE CpuStarts
  <2>1. CpuMay BY <1>2 DEF CpuStarts, WriteVRAM, WriteFB, ReadFB
  <2>2. pairRequest' # pairRequest => ~pairKept /\ cpu'.pc = "spin" /\ pairRequest' = TRUE
    BY <1>2 DEF CpuStarts, ReadFB, Cpu, Typed, Accesses
  <2>3. cpu.pc # "spin" BY <2>1 DEF CpuMay, Idle
  <2> QED BY <1>1, <2>1, <2>2, <2>3 DEF CpuMay
<1>3. CASE CpuContinues
  <2>1. UNCHANGED pairRequest BY <1>3 DEF CpuContinues, waitPair
  <2>2. cpu # Idle
    BY <1>3 DEF CpuContinues, StoreRest, TestPage, MarkPage, fbWriteTarget, NoteByte, NoteMask, NotePage,
                waitPair, Idle
  <2>3. cpu.pc = "spin" => cpu' = Idle /\ pairKept
    BY <1>3 DEF CpuContinues, StoreRest, TestPage, MarkPage, fbWriteTarget, NoteByte, NoteMask, NotePage,
                waitPair
  <2> QED BY <1>1, <2>1, <2>2, <2>3
<1> QED BY <1>2, <1>3 DEF CPU

LEMMA ControlStep ==
  ASSUME Typed, Control, Submitted, [Next]_vars
  PROVE  Control'
<1> USE DEF memory, writes, pairs, walker, regions, gpu, history
<1>a. line \in Nat /\ Last \in Nat /\ Active \in 2 .. Last BY Numbers DEF Typed
<1>1. CASE CPU
  <2>1. UNCHANGED <<pairKept, place, line, call, half, ops>> BY <1>1, CPUMoves
  <2>2. Syncing' <=> Syncing BY <2>1 DEF Syncing
  <2>3. line = Last /\ place # "wait" => Syncing /\ call = "sync"
    BY <1>1, <1>a, CPUMoves DEF Control
  <2>4. ~Syncing \/ call # "sync"
    <3>1. Syncing /\ call = "sync" => ~pairKept /\ cpu.pc = "spin" BY DEF Control
    <3> QED BY <1>1, <3>1, CPUMoves
  <2>5. pairRequest' => ~pairKept' /\ cpu'.pc = "spin"
    BY <1>1, <2>1, CPUMoves DEF Control
  <2> QED BY <2>1, <2>2, <2>3, <2>4, <2>5 DEF Control
<1>2. CASE Takes /\ UNCHANGED <<pairs, drawFB, disp, cpu, device, history>>
  <2>0. UNCHANGED <<line, pairKept, pairRequest, cpu>>
    BY <1>2 DEF Takes, TakePage, RenderLine, BlankRow, RowEnds, MakeRoom, TakeFB, TakeOps, submitBatch, advanceStaging, Go
  <2>1. CASE TakePage /\ UNCHANGED <<mem, writes, ops, queue, regions>>
    <3>1. /\ place \in {"page", "copy"} /\ place' \in {"copy", "row"}
          /\ UNCHANGED <<line, call, half, ops>>
      BY <2>1 DEF TakePage
    <3>2. ~Syncing /\ ~Syncing' BY <3>1 DEF Syncing, Taking
    <3> QED BY <2>0, <3>1, <3>2 DEF Control, Taking
  <2>2. CASE RenderLine /\ UNCHANGED <<mem, writes, ops, queue>>
    <3>1. /\ place = "row" /\ \/ place' = "submit" /\ call' \in {"row0", "row"}
                              \/ place' \in {"tick", "next"}
          /\ UNCHANGED <<line, half, ops>>
      BY <2>2 DEF RenderLine, RowEnds
    <3>2. ~Syncing /\ ~Syncing' BY <3>1 DEF Syncing, Taking
    <3> QED BY <2>0, <3>1, <3>2 DEF Control, Taking
  <2>3. CASE TakeFB /\ UNCHANGED <<memory, ops, queue>>
    <3>1. /\ place \in Taking /\ place' \in Taking \cup {"ops"}
          /\ UNCHANGED <<line, call, ops>>
      BY <2>3 DEF TakeFB, Taking
    <3>2. Syncing' <=> Syncing BY <3>1 DEF Syncing
    <3> QED BY <2>0, <3>1, <3>2 DEF Control, Taking
  <2>4. CASE TakeOps /\ UNCHANGED <<memory, writes, queue>>
    <3>1. /\ place = "ops" /\ UNCHANGED <<line, call>> /\ ops' = <<>> /\ half' = 0
          /\ place' \in {"page", "blank", "next", "submit"} /\ (place' = "submit" <=> call # "line")
      BY <2>4 DEF TakeOps, RowPlace
    <3>2. Syncing' <=> Syncing BY <3>1 DEF Syncing, Taking
    <3> QED BY <2>0, <3>1, <3>2 DEF Control, Taking
  <2>5. CASE (submitBatch \/ advanceStaging) /\ UNCHANGED <<memory, writes, ops>>
    <3>0. call \in {"begin", "row0", "row", "end", "sync", "save"}
      BY <2>5 DEF submitBatch, advanceStaging, Typed, Calls, Control
    <3>1. /\ place \in {"submit", "advance"} /\ UNCHANGED <<line, call, half, ops>>
          /\ place' \in {"advance", AfterSubmit}
      BY <2>5 DEF submitBatch, advanceStaging, Go
    <3>2. AfterSubmit \in {"page", "blank", "tick", "next", "flush"} /\ (AfterSubmit = "flush" <=> call \in {"sync", "save"})
      BY <3>0 DEF AfterSubmit, RowPlace
    <3>3. (Syncing <=> call \in {"sync", "save"}) /\ (Syncing' <=> Syncing)
      BY <3>1, <3>2 DEF Syncing, Taking
    <3> QED BY <2>0, <3>0, <3>1, <3>2, <3>3 DEF Control, Taking
  <2>6. CASE BlankRow /\ UNCHANGED <<memory, writes, ops, queue, regions>>
    <3>1. /\ place = "blank" /\ \/ place' = "submit" /\ call' \in {"row0", "row"}
                                \/ place' \in {"tick", "next"}
          /\ UNCHANGED <<line, half, ops>>
      BY <2>6 DEF BlankRow, RowEnds
    <3>2. ~Syncing /\ ~Syncing' BY <3>1 DEF Syncing, Taking
    <3> QED BY <2>0, <3>1, <3>2 DEF Control, Taking
  <2>7. CASE MakeRoom /\ UNCHANGED <<memory, writes, walker, ops>>
    <3>1. Syncing' <=> Syncing BY <2>7 DEF Syncing
    <3> QED BY <2>0, <2>7, <3>1 DEF Control
  <2> QED BY <1>2, <2>1, <2>2, <2>3, <2>4, <2>5, <2>6, <2>7 DEF Takes
<1>3. CASE Lines /\ UNCHANGED <<memory, writes, cpu, regions, gpu, complete, raced>>
  <2>1. CASE WaitEnds
    <3>1. /\ place = "wait" /\ (line = Last => cpu = Idle)
          /\ place' \in {"dirty", "change", "tick"} /\ call' \in {"end", call} /\ (place' = "dirty" => call' = "end")
          /\ UNCHANGED <<line, half, ops, pairKept, pairRequest, cpu>>
      BY <1>3, <2>1 DEF WaitEnds, Call, Go
    <3>2. ~Syncing /\ ~Syncing' BY <3>1 DEF Syncing, Taking
    <3> QED BY <3>1, <3>2 DEF Control, Taking
  <2>2. CASE servicePair
    <3>1. /\ place = "wait" /\ place' = "dirty" /\ call' = "sync" /\ pairRequest
          /\ UNCHANGED <<line, half, ops, pairKept, pairRequest, cpu>>
      BY <1>3, <2>2 DEF servicePair, Call
    <3>2. ~Syncing /\ Syncing' BY <3>1 DEF Syncing, Taking
    <3> QED BY <3>1, <3>2 DEF Control, Taking
  <2>3. CASE Flush
    <3>1. /\ place = "flush" /\ UNCHANGED <<line, half, call, ops, cpu>>
          /\ \/ call = "sync" /\ place' = "wait" /\ pairKept' = TRUE /\ pairRequest' = FALSE
             \/ call # "sync" /\ place' = "saved" /\ UNCHANGED <<pairKept, pairRequest>>
      BY <1>3, <2>3 DEF Flush, Go
    <3>2. Syncing /\ ~Syncing' BY <3>1 DEF Control, Syncing, Taking
    <3>3. call # "sync" => line = Last BY <3>1, <3>2 DEF Control, Syncing
    <3> QED BY <3>1, <3>2, <3>3 DEF Control, Taking
  <2>4. CASE Change
    <3>1. /\ place = "change" /\ place' = "submit" /\ call' = "begin"
          /\ UNCHANGED <<line, half, ops, pairKept, pairRequest, cpu>>
      BY <1>3, <2>4 DEF Change, Call
    <3>2. ~Syncing /\ ~Syncing' BY <3>1 DEF Syncing, Taking
    <3> QED BY <3>1, <3>2 DEF Control, Taking
  <2>5. CASE Tick
    <3>1. /\ place = "tick" /\ place' = "dirty" /\ call' = "line"
          /\ UNCHANGED <<line, half, pairKept, pairRequest, cpu>>
      BY <1>3, <2>5 DEF Tick, Call
    <3>2. ~Syncing /\ ~Syncing' BY <3>1 DEF Syncing, Taking
    <3> QED BY <3>1, <3>2 DEF Control, Taking
  <2>6. CASE NextLine
    <3>1. /\ place = "next" /\ UNCHANGED <<half, call, ops, pairKept, pairRequest, cpu>>
          /\ \/ place' = "wait"
             \/ place' = "boundary" /\ line' = line /\ ~(line < Last)
      BY <1>3, <2>6 DEF NextLine, Go
    <3>2. ~Syncing /\ ~Syncing' BY <3>1 DEF Syncing, Taking
    <3>3. ~(line < Last) => line = Last BY <1>a DEF Typed
    <3> QED BY <3>1, <3>2, <3>3 DEF Control, Taking
  <2>7. CASE BeginFrame
    <3>1. /\ place = "boundary" /\ place' = "wait" /\ UNCHANGED <<half, call, ops, pairKept, pairRequest, cpu>>
      BY <1>3, <2>7 DEF BeginFrame
    <3>2. ~Syncing /\ ~Syncing' BY <3>1 DEF Syncing, Taking
    <3> QED BY <3>1, <3>2 DEF Control, Taking
  <2>8. CASE Serialize
    <3>1. /\ UNCHANGED <<half, line, ops, pairKept, pairRequest, cpu>>
          /\ \/ place = "boundary" /\ ~pairKept /\ place' = "dirty" /\ call' = "save"
             \/ place = "saved" /\ place' = "boundary" /\ UNCHANGED call
      BY <1>3, <2>8 DEF Serialize, Call, Go
    <3>2. ~Syncing /\ (Syncing' <=> place = "boundary") /\ (place = "boundary" => cpu = Idle)
      BY <3>1 DEF Control, Syncing, Taking
    <3> QED BY <3>1, <3>2 DEF Control, Taking
  <2> QED BY <1>3, <2>1, <2>2, <2>3, <2>4, <2>5, <2>6, <2>7, <2>8 DEF Lines
<1>4. CASE Deserialize BY <1>4 DEF Deserialize, Control, Syncing, Taking
<1>5. CASE Device BY <1>5 DEF Device, Control, Syncing, Taking
<1>6. CASE UNCHANGED vars BY <1>6 DEF vars, Control, Syncing, Taking
<1> QED BY <1>1, <1>2, <1>3, <1>4, <1>5, <1>6 DEF Next, Walker

-----------------------------------------------------------------------------
(* The regions.                                                            *)

\* The walker's steps that leave the regions where they are.
LEMMA QuietSteps ==
  ASSUME Typed, \/ CPU
                \/ Lines /\ UNCHANGED <<memory, writes, cpu, regions, gpu, complete, raced>>
                \/ Deserialize \/ UNCHANGED vars
                \/ TakePage /\ UNCHANGED <<mem, writes, ops, queue, regions>>
                     /\ UNCHANGED <<pairs, drawFB, disp, cpu, device, history>>
  PROVE  /\ UNCHANGED <<staging, queue, cur, device>>
         /\ place' = "advance" <=> place = "advance"
         /\ place' = "flush" => place = "flush"
<1> USE DEF regions, gpu, walker
<1>1. CASE CPU \/ Deserialize \/ UNCHANGED vars BY <1>1 DEF CPU, Deserialize, vars
<1>2. CASE Lines /\ UNCHANGED <<memory, writes, cpu, regions, gpu, complete, raced>>
  <2>1. UNCHANGED <<staging, queue, cur, device>> BY <1>2
  <2>2. place \in {"wait", "flush", "change", "tick", "next", "boundary", "saved"}
    BY <1>2 DEF Lines, WaitEnds, servicePair, Flush, Change, Tick, NextLine, BeginFrame, Serialize
  <2>3. place' \in {"dirty", "change", "tick", "wait", "saved", "submit", "boundary"}
    <3>1. CASE WaitEnds BY <3>1 DEF WaitEnds, Call, Go
    <3>2. CASE servicePair BY <3>2 DEF servicePair, Call
    <3>3. CASE Flush BY <3>3 DEF Flush, Go
    <3>4. CASE Change BY <3>4 DEF Change, Call
    <3>5. CASE Tick BY <3>5 DEF Tick, Call
    <3>6. CASE NextLine BY <3>6 DEF NextLine, Go
    <3>7. CASE BeginFrame BY <3>7 DEF BeginFrame
    <3>8. CASE Serialize BY <3>8 DEF Serialize, Call, Go
    <3> QED BY <1>2, <3>1, <3>2, <3>3, <3>4, <3>5, <3>6, <3>7, <3>8 DEF Lines
  <2> QED BY <2>1, <2>2, <2>3
<1>3. CASE TakePage /\ UNCHANGED <<mem, writes, ops, queue, regions>>
             /\ UNCHANGED <<pairs, drawFB, disp, cpu, device, history>>
  BY <1>3 DEF TakePage
<1> QED BY <1>1, <1>2, <1>3

LEMMA QueueType ==
  ASSUME Typed
  PROVE  /\ queue \in Seq(1..Regions) /\ Len(queue) \in Nat /\ DOMAIN queue = 1..Len(queue)
         /\ \A i \in DOMAIN queue : queue[i] \in 1..Regions
         /\ queue # <<>> => 1 \in DOMAIN queue /\ Head(queue) = queue[1] /\ Head(queue) \in 1..Regions
                            /\ Len(queue) >= 1
<1>1. queue \in Seq(1..Regions) BY DEF Typed
<1> DEFINE S == 1..Regions
<1> HIDE DEF S
<1>a. queue \in Seq(S) BY <1>1 DEF S
<1>b. Len(queue) \in Nat /\ DOMAIN queue = 1..Len(queue) /\ \A i \in 1..Len(queue) : queue[i] \in S
  BY <1>a
<1>2. Len(queue) \in Nat /\ DOMAIN queue = 1..Len(queue) /\ \A i \in 1..Len(queue) : queue[i] \in 1..Regions
  BY <1>b DEF S
<1>3. ASSUME queue # <<>> PROVE Len(queue) >= 1 /\ Head(queue) = queue[1]
  <2>1. Len(queue) # 0 BY <1>1, <1>3, EmptySeq
  <2> QED BY <1>1, <1>2, <1>3, <2>1
<1> QED BY <1>1, <1>2, <1>3

\* What is put goes to the region that is filled, and to no other.
LEMMA SubmittedPut ==
  ASSUME Typed, Submitted, UNCHANGED <<queue, cur>>, place # "advance", place' \notin {"advance", "flush"},
         NEW r, staging' = [staging EXCEPT ![cur] = r]
  PROVE  Submitted'
<1>1. \A i \in DOMAIN queue : queue[i] \in 1..Regions /\ queue[i] # cur /\ staging[queue[i]] # <<>>
  BY QueueType DEF Submitted
<1>2. \A i \in DOMAIN queue : staging'[queue[i]] = staging[queue[i]] BY <1>1 DEF Typed
<1> QED BY <1>1, <1>2 DEF Submitted

LEMMA SubmittedSubmit ==
  ASSUME Typed, Submitted, submitBatch
  PROVE  Submitted'
<1>1. CASE staging[cur] = <<>>
  <2>1. UNCHANGED <<staging, queue, cur>> /\ place # "advance" BY <1>1 DEF submitBatch, Go
  <2> QED BY <1>1, <2>1 DEF Submitted
<1>2. CASE staging[cur] # <<>>
  <2>1. /\ place = "submit" /\ place' = "advance" /\ staging' = staging
        /\ queue' = Append(queue, cur) /\ queue \in Seq(1..Regions) /\ cur \in 1..Regions
    BY <1>2 DEF submitBatch, Go, Typed
  <2>2. /\ Len(queue) \in Nat /\ DOMAIN queue = 1..Len(queue) /\ DOMAIN queue' = 1..(Len(queue) + 1)
        /\ queue'[Len(queue) + 1] = cur /\ \A i \in 1..Len(queue) : queue'[i] = queue[i]
    BY <2>1
  <2>3. \A i \in 1..(Len(queue) + 1) : i = Len(queue) + 1 \/ i \in 1..Len(queue) BY <2>2
  <2>4. /\ \A i \in 1..Len(queue) : staging[queue[i]] # <<>> /\ queue[i] # cur
        /\ \A i, j \in 1..Len(queue) : queue[i] = queue[j] => i = j
    BY <2>1, <2>2 DEF Submitted
  <2>5. \A i \in DOMAIN queue' : staging'[queue'[i]] # <<>> BY <1>2, <2>1, <2>2, <2>3, <2>4
  <2>6. \A i, j \in DOMAIN queue' : queue'[i] = queue'[j] => i = j BY <2>2, <2>3, <2>4
  <2> QED BY <2>1, <2>5, <2>6 DEF Submitted
<1> QED BY <1>1, <1>2

LEMMA SubmittedRoom ==
  ASSUME Typed, Submitted, MakeRoom, place' = place
  PROVE  Submitted'
<1>0. place \notin {"advance", "flush"} /\ place' \notin {"advance", "flush"} BY DEF MakeRoom
<1>1. /\ staging[cur] # <<>> /\ queue' = Append(queue, cur) /\ staging' = [staging EXCEPT ![cur'] = <<>>]
      /\ queue \in Seq(1..Regions) /\ cur \in 1..Regions /\ staging \in [1..Regions -> Seq(Recs)]
      /\ cur' # cur
  <2>1. cur \in Nat /\ Regions \in Nat /\ Regions >= 2 /\ cur >= 1 /\ cur <= Regions
    BY DeliveryAssumption DEF Typed
  <2>2. 1 + (cur % Regions) # cur
    <3>1. CASE cur = Regions BY <2>1, <3>1
    <3>2. CASE cur < Regions
      <4>1. cur % Regions = cur BY <2>1, <3>2
      <4> QED BY <2>1, <3>2, <4>1
    <3> QED BY <2>1, <3>1, <3>2
  <2> QED BY <2>2 DEF MakeRoom, Typed
<1>2. /\ Len(queue) \in Nat /\ DOMAIN queue = 1..Len(queue) /\ DOMAIN queue' = 1..(Len(queue) + 1)
      /\ queue'[Len(queue) + 1] = cur /\ \A i \in 1..Len(queue) : queue'[i] = queue[i]
  BY <1>1
<1>3. \A i \in 1..(Len(queue) + 1) : i = Len(queue) + 1 \/ i \in 1..Len(queue) BY <1>2
<1>4. /\ \A i \in 1..Len(queue) : /\ staging[queue[i]] # <<>> /\ queue[i] # cur /\ queue[i] # cur'
                                 /\ queue[i] \in 1..Regions
      /\ \A i, j \in 1..Len(queue) : queue[i] = queue[j] => i = j
  BY <1>0, <1>2, QueueType DEF Submitted, MakeRoom
<1>5. \A i \in 1..(Len(queue) + 1) : queue'[i] # cur' /\ staging'[queue'[i]] # <<>>
  BY <1>1, <1>2, <1>3, <1>4
<1>6. \A i, j \in 1..(Len(queue) + 1) : queue'[i] = queue'[j] => i = j BY <1>2, <1>3, <1>4
<1> QED BY <1>0, <1>2, <1>5, <1>6 DEF Submitted

LEMMA SubmittedAdvance ==
  ASSUME Typed, Submitted, advanceStaging
  PROVE  Submitted'
<1>1. /\ place = "advance" /\ staging' = [staging EXCEPT ![cur] = <<>>] /\ UNCHANGED <<queue, cur>>
      /\ \A i \in DOMAIN queue : queue[i] # cur /\ queue[i] \in 1..Regions
  BY QueueType DEF advanceStaging, InUse
<1>2. staging'[cur] = <<>> /\ \A i \in DOMAIN queue : staging'[queue[i]] = staging[queue[i]]
  BY <1>1 DEF Typed
<1> QED BY <1>1, <1>2 DEF Submitted

LEMMA DeviceRuns ==
  ASSUME Typed, Submitted, Device
  PROVE  /\ queue # <<>> /\ staging[Head(queue)] # <<>> /\ Head(queue) = queue[1] /\ 1 \in DOMAIN queue
         /\ device' = Applied(device, Running)
         /\ staging' = [staging EXCEPT ![Head(queue)] = Tail(@)]
         /\ queue' = IF Len(staging[Head(queue)]) = 1 THEN Tail(queue) ELSE queue
         /\ UNCHANGED <<mem, dirty, pair, pairKept, pairRequest, drawFB, shadow, fbMask, fbDirty, cpu,
                        place, line, call, half, got, due, ops, cur, version, complete, latest, raced>>
<1>1. queue # <<>> /\ staging[Head(queue)] # <<>> /\ Head(queue) = queue[1] /\ 1 \in DOMAIN queue
  <2>1. queue # <<>> /\ queue \in Seq(1..Regions) BY DEF Device, Typed
  <2>2. 1 \in DOMAIN queue /\ Head(queue) = queue[1] BY <2>1, EmptySeq
  <2> QED BY <2>1, <2>2 DEF Submitted
<1> QED BY <1>1 DEF Device, memory, pairs, writes, walker, history

LEMMA SubmittedDevice ==
  ASSUME Typed, Submitted, Device
  PROVE  Submitted'
<1> DEFINE r == Head(queue)
<1>1. /\ queue # <<>> /\ staging[r] # <<>> /\ r = queue[1] /\ 1 \in DOMAIN queue
      /\ staging' = [staging EXCEPT ![r] = Tail(@)]
      /\ queue' = IF Len(staging[r]) = 1 THEN Tail(queue) ELSE queue
      /\ UNCHANGED <<cur, place>>
  BY DeviceRuns
<1>2. /\ queue \in Seq(1..Regions) /\ Len(queue) \in Nat /\ Len(queue) >= 1
      /\ DOMAIN queue = 1..Len(queue) /\ r \in 1..Regions
      /\ \A i \in 1..Len(queue) : queue[i] \in 1..Regions
      /\ staging[r] \in Seq(Recs)
  BY <1>1, QueueType DEF Typed
<1>3. /\ \A i \in 1..Len(queue) : staging[queue[i]] # <<>>
      /\ \A i, j \in 1..Len(queue) : queue[i] = queue[j] => i = j
      /\ place # "advance" => \A i \in 1..Len(queue) : queue[i] # cur
      /\ place = "flush" => staging[cur] = <<>>
  BY <1>2 DEF Submitted
<1> HIDE DEF r
<1>4. staging'[r] = Tail(staging[r]) /\ \A m \in 1..Regions : m # r => staging'[m] = staging[m]
  BY <1>1, <1>2 DEF Typed
<1>5. place' = "flush" => staging'[cur] = <<>>
  BY <1>1, <1>2, <1>3, <1>4 DEF Typed
<1>6. CASE Len(staging[r]) = 1
  <2>1. /\ DOMAIN queue' = 1..(Len(queue) - 1)
        /\ \A i \in 1..(Len(queue) - 1) : queue'[i] = queue[i + 1] /\ i + 1 \in 1..Len(queue) /\ i + 1 # 1
    BY <1>1, <1>2, <1>6
  <2>2. \A i \in DOMAIN queue' : staging'[queue'[i]] # <<>>
    BY <1>1, <1>2, <1>3, <1>4, <2>1
  <2>3. \A i, j \in DOMAIN queue' : queue'[i] = queue'[j] => i = j
    <3> SUFFICES ASSUME NEW i \in DOMAIN queue', NEW j \in DOMAIN queue', queue'[i] = queue'[j]
                 PROVE  i = j
      OBVIOUS
    <3>1. i \in 1..(Len(queue) - 1) /\ j \in 1..(Len(queue) - 1) BY <2>1
    <3>2. queue[i + 1] = queue[j + 1] /\ i + 1 \in 1..Len(queue) /\ j + 1 \in 1..Len(queue) BY <2>1, <3>1
    <3>3. i + 1 = j + 1 BY <1>3, <3>2
    <3> QED BY <1>2, <3>1, <3>3
  <2>4. place' # "advance" => \A i \in DOMAIN queue' : queue'[i] # cur' BY <1>1, <1>3, <2>1
  <2> QED BY <1>1, <1>5, <2>2, <2>3, <2>4 DEF Submitted
<1>7. CASE Len(staging[r]) # 1
  <2>1. Tail(staging[r]) # <<>>
    <3>1. Len(staging[r]) \in Nat /\ Len(staging[r]) # 0 BY <1>1, <1>2, EmptySeq
    <3>2. Len(Tail(staging[r])) = Len(staging[r]) - 1 BY <1>1, <1>2, HeadTailProperties
    <3>3. Len(Tail(staging[r])) # 0 BY <1>7, <3>1, <3>2
    <3>4. Tail(staging[r]) \in Seq(Recs) BY <1>1, <1>2, HeadTailProperties
    <3> QED BY <3>3, <3>4, EmptySeq
  <2>2. queue' = queue BY <1>1, <1>7
  <2>3. \A i \in 1..Len(queue) : staging'[queue[i]] # <<>>
    BY <1>2, <1>3, <1>4, <2>1
  <2>4. UNCHANGED <<cur, place>> BY <1>1
  <2> QED BY <1>2, <1>3, <1>5, <2>2, <2>3, <2>4 DEF Submitted
<1> QED BY <1>6, <1>7

LEMMA SubmittedStep ==
  ASSUME Typed, Control, Submitted, [Next]_vars
  PROVE  Submitted'
<1>1. CASE \/ CPU
           \/ Lines /\ UNCHANGED <<memory, writes, cpu, regions, gpu, complete, raced>>
           \/ Deserialize \/ UNCHANGED vars
           \/ TakePage /\ UNCHANGED <<mem, writes, ops, queue, regions>>
                /\ UNCHANGED <<pairs, drawFB, disp, cpu, device, history>>
  BY <1>1, QuietSteps DEF Submitted
<1>2. CASE RenderLine /\ UNCHANGED <<mem, writes, ops, queue>>
  BY <1>2, SubmittedPut DEF RenderLine, RowEnds, Put
<1>3. CASE TakeFB /\ UNCHANGED <<memory, ops, queue>>
  <2>1. CASE UNCHANGED regions
    BY <1>3, <2>1 DEF TakeFB, regions, Submitted
  <2>2. CASE place = "shadow" /\ Put([kind |-> "fb", half |-> half, mask |-> got, bytes |-> shadow[half]])
    BY <1>3, <2>2, SubmittedPut DEF TakeFB, Put
  <2> QED BY <1>3, <2>1, <2>2 DEF TakeFB
<1>4. CASE TakeOps /\ UNCHANGED <<memory, writes, queue>>
  BY <1>4, SubmittedPut DEF TakeOps, RowPlace
<1>5. CASE submitBatch BY <1>5, SubmittedSubmit
<1>6. CASE advanceStaging BY <1>6, SubmittedAdvance
<1>7. CASE Device BY <1>7, SubmittedDevice
<1>8. CASE BlankRow /\ UNCHANGED <<memory, writes, ops, queue, regions>>
  BY <1>8 DEF BlankRow, RowEnds, regions, Submitted
<1>9. CASE MakeRoom /\ UNCHANGED <<memory, writes, walker, ops>>
  BY <1>9, SubmittedRoom DEF walker
<1> QED BY <1>1, <1>2, <1>3, <1>4, <1>5, <1>6, <1>7, <1>8, <1>9 DEF Next, Walker, Takes

-----------------------------------------------------------------------------
(* The frame buffers' marks.                                               *)

\* No CPU moves while the walker synchronises.
LEMMA SyncAlone ==
  ASSUME Typed, Control, CPU
  PROVE  ~Syncing
<1>1. line \in Nat /\ Last \in Nat BY Numbers DEF Typed
<1>2. Syncing => call \in {"sync", "save"} /\ place # "wait" BY DEF Syncing, Taking
<1>3. CASE Syncing /\ call = "sync"
  <2>1. cpu.pc = "spin" /\ ~pairKept BY <1>3 DEF Control
  <2> QED BY <2>1, CPUMoves
<1>4. CASE Syncing /\ call = "save"
  <2>1. line = Last /\ place # "wait" BY <1>2, <1>4 DEF Control
  <2>2. cpu = Idle BY <1>4, <2>1 DEF Control
  <2> QED BY <1>1, <2>1, <2>2, CPUMoves
<1> QED BY <1>2, <1>3, <1>4

\* A CPU marks bytes of its own, and unmarks none.
LEMMA CPUMarks ==
  ASSUME Typed, CPU
  PROVE  \A h \in Halves : /\ "o" \in fbMask'[h] <=> "o" \in fbMask[h]
                           /\ fbDirty[h] => fbDirty'[h]
<1> USE DEF writes
<1>1. CASE NoteMask BY <1>1 DEF NoteMask, Typed
<1>2. CASE NotePage BY <1>2 DEF NotePage, Typed
<1>3. CASE UNCHANGED <<fbMask, fbDirty>> BY <1>3
<1> QED
  BY <1>1, <1>2, <1>3 DEF CPU, CpuStarts, CpuContinues, WriteFB, fbWriteTarget, NoteByte

LEMMA ProgressStep ==
  ASSUME Typed, Control, Progress, [Next]_vars
  PROVE  Progress'
<1> USE DEF Halves
<1>1. CASE CPU
  <2>1. ~Syncing /\ UNCHANGED <<place, call, half, got>> BY <1>1, SyncAlone, CPUMoves
  <2>2. ~Syncing' BY <2>1 DEF Syncing
  <2>3. half \in Halves BY DEF Typed
  <2> QED BY <1>1, <2>1, <2>2, <2>3, CPUMarks DEF Progress
<1>2. CASE Takes /\ UNCHANGED <<pairs, drawFB, disp, cpu, device, history>>
  <2>1. CASE TakePage /\ UNCHANGED <<mem, writes, ops, queue, regions>>
    <3>1. place \in {"page", "copy"} /\ place' \in {"copy", "row"} /\ UNCHANGED <<fbMask, fbDirty>>
      BY <2>1 DEF TakePage, writes
    <3> QED BY <3>1 DEF Progress, Syncing, Taking
  <2>2. CASE RenderLine /\ UNCHANGED <<mem, writes, ops, queue>>
    <3>1. /\ place = "row" /\ UNCHANGED <<fbMask, fbDirty>>
          /\ place' \in {"tick", "next"} \/ (place' = "submit" /\ call' \in {"row0", "row"})
      BY <2>2 DEF RenderLine, RowEnds, writes
    <3> QED BY <3>1 DEF Progress, Syncing, Taking
  <2>3. CASE TakeFB /\ UNCHANGED <<memory, ops, queue>>
    <3>0. /\ fbMask \in [Halves -> SUBSET Bytes] /\ fbDirty \in [Halves -> BOOLEAN] /\ half \in Halves
          /\ call' = call /\ place \in Taking /\ place' \in Taking \cup {"ops"}
          /\ (Syncing' <=> Syncing)
      BY <2>3 DEF TakeFB, Typed, Syncing, Taking
    <3>1. CASE place = "dirty" /\ fbDirty[half]
      <4>1. /\ place' = "mask" /\ UNCHANGED <<half, fbMask>>
            /\ fbDirty' = [fbDirty EXCEPT ![half] = FALSE]
        BY <2>3, <3>1 DEF TakeFB, writes
      <4> QED BY <3>0, <3>1, <4>1 DEF Progress, Taking
    <3>2. CASE place = "dirty" /\ ~fbDirty[half]
      <4>1. /\ IF half = 0 THEN half' = 1 /\ place' = "dirty" ELSE place' = "ops" /\ half' = half
            /\ fbMask' = fbMask /\ fbDirty' = [fbDirty EXCEPT ![half] = FALSE]
        BY <2>3, <3>2 DEF TakeFB, writes
      <4>2. fbDirty' = fbDirty BY <3>0, <3>2, <4>1
      <4> QED BY <3>0, <3>2, <4>1, <4>2 DEF Progress, Taking
    <3>3. CASE place = "mask"
      <4>1. /\ place' = "shadow" /\ UNCHANGED <<half, fbDirty>> /\ got' = fbMask[half]
            /\ fbMask' = [fbMask EXCEPT ![half] = {}]
        BY <2>3, <3>3 DEF TakeFB, writes
      <4> QED BY <3>0, <3>3, <4>1 DEF Progress, Taking
    <3>4. CASE place = "shadow"
      <4>1. /\ IF half = 0 THEN place' = "dirty" ELSE place' = "ops"
            /\ UNCHANGED <<fbMask, fbDirty>> /\ half' = 1
        BY <2>3, <3>4 DEF TakeFB, writes
      <4> QED BY <3>0, <3>4, <4>1 DEF Progress, Taking
    <3> QED BY <3>0, <3>1, <3>2, <3>3, <3>4 DEF Taking
  <2>4. CASE TakeOps /\ UNCHANGED <<memory, writes, queue>>
    <3>1. /\ place = "ops" /\ UNCHANGED <<call, fbMask, fbDirty>> /\ half' = 0
          /\ place' \in {"page", "blank", "next", "submit"}
      BY <2>4 DEF TakeOps, RowPlace, writes
    <3>2. Syncing' => Syncing BY <3>1 DEF Syncing, Taking
    <3> QED BY <3>1, <3>2 DEF Progress, Taking
  <2>5. CASE (submitBatch \/ advanceStaging) /\ UNCHANGED <<memory, writes, ops>>
    <3>0. call \in {"begin", "row0", "row", "end", "sync", "save"}
      BY <2>5 DEF submitBatch, advanceStaging, Typed, Calls, Control
    <3>1. /\ place \in {"submit", "advance"} /\ UNCHANGED <<line, call, half, fbMask, fbDirty>>
          /\ place' \in {"advance", AfterSubmit}
      BY <2>5 DEF submitBatch, advanceStaging, Go, writes
    <3>2. AfterSubmit \in {"page", "blank", "tick", "next", "flush"} BY <3>0 DEF AfterSubmit, RowPlace
    <3>3. Syncing' => Syncing BY <3>1, <3>2 DEF Syncing, Taking
    <3> QED BY <3>1, <3>2, <3>3 DEF Progress, Taking
  <2>6. CASE BlankRow /\ UNCHANGED <<memory, writes, ops, queue, regions>>
    <3>1. /\ place = "blank" /\ UNCHANGED <<fbMask, fbDirty>>
          /\ place' \in {"tick", "next"} \/ (place' = "submit" /\ call' \in {"row0", "row"})
      BY <2>6 DEF BlankRow, RowEnds, writes
    <3> QED BY <3>1 DEF Progress, Syncing, Taking
  <2>7. CASE MakeRoom /\ UNCHANGED <<memory, writes, walker, ops>>
    <3>1. UNCHANGED <<place, call, half, got, fbMask, fbDirty>> BY <2>7 DEF writes, walker
    <3>2. Syncing' <=> Syncing BY <3>1 DEF Syncing
    <3> QED BY <3>1, <3>2 DEF Progress
  <2> QED BY <1>2, <2>1, <2>2, <2>3, <2>4, <2>5, <2>6, <2>7 DEF Takes
<1>3. CASE Lines /\ UNCHANGED <<memory, writes, cpu, regions, gpu, complete, raced>>
  <2>1. /\ UNCHANGED <<fbMask, fbDirty, half, got>>
        /\ place \notin Taking \cup {"ops", "submit", "advance"}
        /\ place' \notin {"mask", "shadow", "ops", "advance", "flush"}
        /\ place' = "submit" => call' = "begin"
    <3> USE <1>3 DEF writes, Taking
    <3>1. CASE WaitEnds BY <3>1 DEF WaitEnds, Call, Go
    <3>2. CASE servicePair BY <3>2 DEF servicePair, Call
    <3>3. CASE Flush BY <3>3 DEF Flush, Go
    <3>4. CASE Change BY <3>4 DEF Change, Call
    <3>5. CASE Tick BY <3>5 DEF Tick, Call
    <3>6. CASE NextLine BY <3>6 DEF NextLine, Go
    <3>7. CASE BeginFrame BY <3>7 DEF BeginFrame
    <3>8. CASE Serialize BY <3>8 DEF Serialize, Call, Go
    <3> QED BY <3>1, <3>2, <3>3, <3>4, <3>5, <3>6, <3>7, <3>8 DEF Lines
  <2>2. half = 0 BY <2>1 DEF Control
  <2>3. Syncing' => place' = "dirty" BY <2>1 DEF Syncing, Taking
  <2> QED BY <2>1, <2>2, <2>3 DEF Progress, Taking
<1>4. CASE Deserialize
  <2>1. /\ place = "boundary" /\ place' = place
        /\ fbDirty' = [h \in Halves |-> TRUE]
    BY <1>4 DEF Deserialize, walker
  <2> QED BY <2>1 DEF Progress, Syncing, Taking
<1>5. CASE Device \/ UNCHANGED vars
  <2>1. UNCHANGED <<place, call, half, got, fbMask, fbDirty>>
    BY <1>5 DEF Device, vars, walker, writes
  <2> QED BY <2>1 DEF Progress, Syncing
<1> QED BY <1>1, <1>2, <1>3, <1>4, <1>5 DEF Next, Walker

-----------------------------------------------------------------------------
(* Versions.                                                               *)

LEMMA StoredCPU ==
  ASSUME Typed, Stored, CPU
  PROVE  Stored' /\ complete <= complete'
<1> USE DEF memory, writes, pairs, walker, regions, gpu, history
<1>0. /\ version \in Nat /\ complete \in Nat /\ due \in Nat /\ cpu.v \in Nat /\ MaxVersions \in Nat
      /\ mem \in [Cells -> Versions] /\ mem[1] \in Nat /\ mem[2] \in Nat
      /\ cpu \in Accesses /\ Cells = {1, 2} /\ due' = due
  BY Numbers DEF Typed, Accesses, CPU, Cells
<1>a. Idle.pc = "idle" /\ Idle.v = 0 BY DEF Idle
<1>1. CASE WriteVRAM /\ UNCHANGED <<pair, writes, pairRequest>>
  <2>1. /\ version' = version + 1 /\ UNCHANGED complete
        /\ mem' = [mem EXCEPT ![1] = version'] /\ cpu' = [pc |-> "store", to |-> 0, v |-> version']
    BY <1>1 DEF WriteVRAM, Made
  <2>2. mem'[1] = version' /\ mem'[2] = mem[2] BY <1>0, <2>1
  <2>3. cpu'.pc = "store" /\ cpu'.v = version' BY <2>1
  <2>4. /\ due <= complete /\ mem[2] >= complete /\ mem[2] <= version /\ complete <= version
    BY <1>0 DEF Stored
  <2> QED BY <1>0, <2>1, <2>2, <2>3, <2>4 DEF Stored
<1>2. CASE WriteFB /\ UNCHANGED <<memory, pairRequest>>
  <2>1. /\ version' = version + 1 /\ UNCHANGED <<complete, mem>>
        /\ cpu'.pc = "fb" /\ cpu'.v = version'
    BY <1>2 DEF WriteFB, Made
  <2> QED BY <1>0, <2>1 DEF Stored
<1>3. CASE StoreRest /\ UNCHANGED <<pair, writes, pairRequest, version, latest, raced>>
  <2>1. /\ cpu.pc = "store" /\ mem' = [mem EXCEPT ![2] = cpu.v] /\ UNCHANGED <<version, complete>>
        /\ cpu'.pc = "test" /\ cpu'.v = cpu.v
    BY <1>0, <1>3 DEF StoreRest, Cpu, Accesses
  <2>2. mem'[1] = mem[1] /\ mem'[2] = cpu.v BY <1>0, <2>1
  <2> QED BY <1>0, <2>1, <2>2 DEF Stored
<1>4. CASE (TestPage \/ MarkPage) /\ UNCHANGED <<pair, writes, pairRequest, version, latest, raced>>
  <2>1. CASE Marked /\ UNCHANGED <<mem, version>> /\ cpu.pc \in {"test", "mark"}
    <3>1. mem[1] = cpu.v /\ mem[2] = cpu.v /\ cpu.v >= complete /\ cpu.v <= version /\ due <= complete
      BY <2>1 DEF Stored
    <3>2. cpu' = Idle /\ complete' = cpu.v /\ UNCHANGED <<mem, version>> BY <2>1 DEF Marked
    <3> QED BY <1>0, <1>a, <3>1, <3>2 DEF Stored
  <2>2. CASE UNCHANGED <<mem, version, complete>> /\ cpu.pc = "test" /\ Cpu("mark")
    <3>1. cpu'.pc = "mark" /\ cpu'.v = cpu.v BY <1>0, <2>2 DEF Cpu, Accesses
    <3> QED BY <1>0, <2>2, <3>1 DEF Stored
  <2> QED BY <1>4, <2>1, <2>2 DEF TestPage, MarkPage
<1>5. CASE \/ (fbWriteTarget \/ NoteByte \/ NoteMask \/ NotePage) /\ UNCHANGED <<memory, pairRequest>>
           \/ waitPair /\ UNCHANGED <<memory, pair, writes, history>>
           \/ ReadFB /\ UNCHANGED <<memory, pair, writes, history>>
  <2>1. UNCHANGED <<mem, version, complete>>
    BY <1>5 DEF fbWriteTarget, NoteByte, NoteMask, NotePage
  <2>2. cpu'.v \in {0, cpu.v}
    BY <1>0, <1>5, <1>a DEF fbWriteTarget, NoteByte, NoteMask, NotePage, waitPair, ReadFB, Cpu, Accesses
  <2>3. cpu'.pc \notin {"store", "test", "mark"}
    BY <1>0, <1>5, <1>a DEF fbWriteTarget, NoteByte, NoteMask, NotePage, waitPair, ReadFB, CpuMay, Cpu, Accesses
  <2> QED BY <1>0, <2>1, <2>2, <2>3 DEF Stored
<1> QED
  BY <1>1, <1>2, <1>3, <1>4, <1>5 DEF CPU, CpuStarts, CpuContinues

LEMMA StoredStep ==
  ASSUME Typed, Control, Stored, [Next]_vars
  PROVE  Stored'
<1> USE DEF memory, writes, pairs, walker, regions, gpu, history
<1>0. /\ version \in Nat /\ complete \in Nat /\ due \in Nat /\ cpu.v \in Nat /\ MaxVersions \in Nat
      /\ Cells = {1, 2} /\ mem[1] \in Nat /\ mem[2] \in Nat
  BY Numbers DEF Typed, Accesses, Cells
<1>1. CASE CPU BY <1>1, StoredCPU
<1>2. CASE Takes /\ UNCHANGED <<pairs, drawFB, disp, cpu, device, history>>
  <2>1. UNCHANGED <<mem, cpu, version, complete>> /\ due' \in {0, due, complete}
    BY <1>2 DEF Takes, TakePage, RenderLine, BlankRow, RowEnds, MakeRoom, TakeFB, TakeOps, submitBatch, advanceStaging, Go
  <2> QED BY <1>0, <2>1 DEF Stored
<1>3. CASE Lines /\ UNCHANGED <<memory, writes, cpu, regions, gpu, complete, raced>>
  <2>1. UNCHANGED <<mem, cpu, complete, due>>
    <3>1. CASE WaitEnds BY <1>3, <3>1 DEF WaitEnds, Call, Go
    <3>2. CASE servicePair BY <1>3, <3>2 DEF servicePair, Call
    <3>3. CASE Flush BY <1>3, <3>3 DEF Flush, Go
    <3>4. CASE Change BY <1>3, <3>4 DEF Change, Call
    <3>5. CASE Tick BY <1>3, <3>5 DEF Tick, Call
    <3>6. CASE NextLine BY <1>3, <3>6 DEF NextLine, Go
    <3>7. CASE BeginFrame BY <1>3, <3>7 DEF BeginFrame
    <3>8. CASE Serialize BY <1>3, <3>8 DEF Serialize, Call, Go
    <3> QED BY <1>3, <3>1, <3>2, <3>3, <3>4, <3>5, <3>6, <3>7, <3>8 DEF Lines
  <2>2. version' \in {version, version + 1}
    BY <1>3 DEF Lines, WaitEnds, servicePair, Flush, Change, Tick, NextLine, BeginFrame, Serialize, Made
  <2> QED BY <1>0, <2>1, <2>2 DEF Stored
<1>4. CASE Deserialize
  <2>1. /\ version' = version + 1 /\ mem' = [c \in Cells |-> version'] /\ complete' = version'
        /\ UNCHANGED <<cpu, due>> /\ place = "boundary"
    BY <1>4 DEF Deserialize, Made
  <2>2. cpu = Idle BY <2>1 DEF Control, Syncing, Taking
  <2>3. cpu.pc = "idle" BY <2>2 DEF Idle
  <2> QED BY <1>0, <2>1, <2>3 DEF Stored
<1>5. CASE Device \/ UNCHANGED vars BY <1>5 DEF Device, vars, Stored
<1> QED BY <1>1, <1>2, <1>3, <1>4, <1>5 DEF Next, Walker

-----------------------------------------------------------------------------
(* The pages.                                                              *)

LEMMA RowsAppend ==
  ASSUME NEW c \in Seq(Recs), Rows(c), NEW rec \in Recs, UNCHANGED device,
         rec.kind = "row" => IF rec.page = {} THEN NewBefore(c, Len(c) + 1, rec.least)
                                              ELSE AsNew(rec.page, rec.least)
  PROVE  Rows(Append(c, rec))'
<1> DEFINE e == Append(c, rec)
<1>1. /\ e \in Seq(Recs) /\ Len(e) = Len(c) + 1 /\ Len(c) \in Nat /\ e[Len(c) + 1] = rec
      /\ \A k \in 1..Len(c) : e[k] = c[k]
  BY AppendIndex
<1>2. \A n \in 1..(Len(c) + 1) : \A l : NewAt(c, n, l, device.mem) => NewAt(e, n, l, device.mem)
  BY NewAppend
<1> HIDE DEF e
<1>3. ASSUME NEW n \in 1..Len(e), e[n].kind = "row"
      PROVE  IF e[n].page = {} THEN NewAt(e, n, e[n].least, device.mem) ELSE AsNew(e[n].page, e[n].least)
  <2>1. CASE n = Len(c) + 1
    <3>1. e[n] = rec /\ n \in 1..(Len(c) + 1) BY <1>1, <2>1
    <3> QED BY <1>2, <1>3, <2>1, <3>1 DEF NewBefore
  <2>2. CASE n # Len(c) + 1
    <3>1. n \in 1..Len(c) /\ n \in 1..(Len(c) + 1) BY <1>1, <2>2
    <3>2. e[n] = c[n] BY <1>1, <3>1
    <3> QED BY <1>2, <1>3, <3>1, <3>2 DEF Rows, NewBefore
  <2> QED BY <2>1, <2>2
<1>4. Rows(e)'
  <2>1. \A n \in 1..Len(e) : e[n].kind = "row" =>
          IF e[n].page = {} THEN NewAt(e, n, e[n].least, device'.mem) ELSE AsNew(e[n].page, e[n].least)
    BY <1>3
  <2> QED BY <2>1 DEF Rows, NewBefore, NewAt, AsNew, PageOf, HasPage
<1> QED BY <1>4 DEF e, Rows, NewBefore, NewAt, AsNew, PageOf, HasPage

\* A page replaces the memory, anything else leaves it.
LEMMA AppliedMem ==
  ASSUME Typed, NEW rec \in Recs
  PROVE  /\ HasPage(rec) => \A l : AsNew(rec.page, l) => \A x \in Cells : Applied(device, rec).mem[x] >= l
         /\ ~HasPage(rec) => Applied(device, rec).mem = device.mem
<1>0. device \in [mem : [Cells -> Versions], pair : Pairs] BY DEF Typed
<1>1. ASSUME HasPage(rec), NEW l, AsNew(rec.page, l)
      PROVE  \A x \in Cells : Applied(device, rec).mem[x] >= l
  <2>1. PICK f \in [Cells -> Versions] : rec.page = PageOf(f) /\ \A x \in Cells : f[x] >= l
    BY <1>1 DEF AsNew
  <2>2. \A x \in Cells : (CHOOSE v \in Versions : <<x, v>> \in rec.page) = f[x]
    <3>1. ASSUME NEW x \in Cells, NEW v \in Versions PROVE <<x, v>> \in rec.page <=> v = f[x]
      BY <2>1 DEF PageOf
    <3> QED BY <2>1, <3>1
  <2>3. \A x \in Cells : Applied(device, rec).mem[x] = f[x]
    BY <1>0, <1>1, <2>2 DEF Applied, HasPage
  <2> QED BY <2>1, <2>3
<1>2. ASSUME ~HasPage(rec) PROVE Applied(device, rec).mem = device.mem
  <2>1. CASE rec \in RowRecs
    <3>1. rec.kind = "row" /\ rec.page = {} BY <1>2, <2>1 DEF HasPage, RowRecs
    <3>2. Applied(device, rec).mem = [x \in Cells |-> device.mem[x]] BY <1>0, <3>1 DEF Applied
    <3> QED BY <1>0, <3>2
  <2>2. CASE rec \in FBRecs
    <3>1. rec.kind = "fb" BY <2>2 DEF FBRecs
    <3> QED BY <1>0, <3>1 DEF Applied
  <2>3. CASE rec \in OpRecs
    <3>1. rec.kind = "op" BY <2>3 DEF OpRecs
    <3> QED BY <1>0, <3>1 DEF Applied
  <2> QED BY <2>1, <2>2, <2>3 DEF Recs
<1> QED BY <1>1, <1>2

LEMMA RowsDevice ==
  ASSUME Typed, NEW c \in Seq(Recs), c # <<>>, Rows(c), device' = Applied(device, Head(c))
  PROVE  /\ Rows(Tail(c))'
         /\ \A l : NewBefore(c, Len(c) + 1, l) => NewAt(Tail(c), Len(Tail(c)) + 1, l, device'.mem)
<1> DEFINE t == Tail(c)
<1>1. /\ t \in Seq(Recs) /\ Len(t) = Len(c) - 1 /\ Len(c) \in Nat /\ Len(c) >= 1
      /\ \A k \in 1..(Len(c) - 1) : t[k] = c[k + 1]
      /\ Head(c) \in Recs
  BY TailIndex
<1>2. \A l : IF HasPage(Head(c)) THEN AsNew(Head(c).page, l) => \A x \in Cells : device'.mem[x] >= l
             ELSE device'.mem = device.mem
  BY <1>1, AppliedMem
<1>3. ASSUME NEW n \in 2..(Len(c) + 1), NEW l, NewAt(c, n, l, device.mem)
      PROVE  NewAt(t, n - 1, l, device'.mem)
  <2>1. IF HasPage(Head(c)) THEN AsNew(Head(c).page, l) => \A x \in Cells : device'.mem[x] >= l
        ELSE device'.mem = device.mem
    BY <1>2
  <2> QED BY <1>3, <2>1, NewTail
<1> HIDE DEF t
<1>4. ASSUME NEW n \in 1..Len(t), t[n].kind = "row"
      PROVE  IF t[n].page = {} THEN NewAt(t, n, t[n].least, device'.mem) ELSE AsNew(t[n].page, t[n].least)
  <2>1. n + 1 \in 2..(Len(c) + 1) /\ n + 1 \in 1..Len(c) /\ (n + 1) - 1 = n /\ t[n] = c[n + 1] BY <1>1
  <2>2. IF t[n].page = {} THEN NewAt(c, n + 1, t[n].least, device.mem) ELSE AsNew(t[n].page, t[n].least)
    BY <1>4, <2>1 DEF Rows, NewBefore
  <2>3. NewAt(c, n + 1, t[n].least, device.mem) => NewAt(t, (n + 1) - 1, t[n].least, device'.mem)
    BY <1>3, <2>1
  <2> QED BY <2>1, <2>2, <2>3
<1>5. Rows(t)' BY <1>4 DEF Rows, NewBefore, NewAt, AsNew, PageOf, HasPage
<1>6. \A l : NewBefore(c, Len(c) + 1, l) => NewAt(t, Len(t) + 1, l, device'.mem)
  <2>1. Len(c) + 1 \in 2..(Len(c) + 1) /\ (Len(c) + 1) - 1 = Len(t) + 1 BY <1>1
  <2> QED BY <1>3, <2>1 DEF NewBefore
<1> QED BY <1>5, <1>6 DEF t, Rows, NewBefore, NewAt, AsNew, PageOf, HasPage

Pages(c) == Rows(c) /\ Clean(c) /\ Taken(c)

\* The pages do not depend on the rest of the state.
LEMMA PagesSame ==
  ASSUME NEW c, Pages(c), UNCHANGED device, dirty => dirty', ~dirty' => complete' = complete,
         (place \in {"copy", "row"} \/ place' \in {"copy", "row"}) => UNCHANGED <<place, got, due>>
  PROVE  Pages(c)'
<1>1. Rows(c)' BY DEF Pages, Rows, NewBefore, NewAt, AsNew, PageOf, HasPage
<1>2. Clean(c)'
  <2>1. ~dirty' => IF place = "copy" \/ (place = "row" /\ got # {}) THEN due = complete
                   ELSE NewAt(c, Len(c) + 1, complete, device.mem)
    BY DEF Pages, Clean, NewBefore
  <2>2. ~dirty' => IF place' = "copy" \/ (place' = "row" /\ got' # {}) THEN due' = complete'
                   ELSE NewAt(c, Len(c) + 1, complete', device'.mem)
    BY <2>1
  <2> QED BY <2>2 DEF Clean, NewBefore, NewAt, AsNew, PageOf, HasPage
<1>3. Taken(c)'
  <2>1. /\ place' = "copy" => got' = {} \/ \E v \in Versions : v >= due' /\ got' = {<<1, v>>}
        /\ place' = "row" => IF got' = {} THEN NewAt(c, Len(c) + 1, due', device'.mem) ELSE AsNew(got', due')
    BY DEF Pages, Taken, NewBefore
  <2> QED BY <2>1 DEF Taken, NewBefore, NewAt, AsNew, PageOf, HasPage
<1> QED BY <1>1, <1>2, <1>3 DEF Pages

\* The two cells of a page, copied one after the other.
LEMMA CopyPage ==
  ASSUME Typed, Stored, TakePage, place = "copy",
         got = {} \/ \E v \in Versions : v >= due /\ got = {<<1, v>>}
  PROVE  /\ UNCHANGED <<dirty, due>> /\ got' # {}
         /\ \/ place' = "copy" /\ \E v \in Versions : v >= due /\ got' = {<<1, v>>}
            \/ place' = "row" /\ AsNew(got', due)
<1>0. /\ mem \in [Cells -> Versions] /\ Cells = {1, 2} /\ due \in Nat /\ complete \in Nat
      /\ mem[1] \in Versions /\ mem[2] \in Versions /\ Versions \subseteq Nat
      /\ due <= complete /\ mem[1] >= complete /\ mem[2] >= complete
  BY Numbers DEF Typed, Cells, Stored
<1>1. mem[1] >= due /\ mem[2] >= due
  <2>1. mem[1] \in Nat /\ mem[2] \in Nat BY <1>0
  <2> QED BY <1>0, <2>1
<1> DEFINE n == 1 + Cardinality(got)
<1>2. /\ UNCHANGED <<dirty, due>> /\ got' = got \cup {<<n, mem[n]>>}
      /\ place' = IF n = 2 THEN "row" ELSE "copy"
  BY DEF TakePage
<1>3. CASE got = {}
  <2>1. n = 1 BY <1>3, FS_EmptySet
  <2>2. got' = {<<1, mem[1]>>} /\ place' = "copy" BY <1>2, <1>3, <2>1
  <2> QED BY <1>0, <1>1, <1>2, <2>2
<1>4. CASE \E v \in Versions : v >= due /\ got = {<<1, v>>}
  <2>1. PICK v \in Versions : v >= due /\ got = {<<1, v>>} BY <1>4
  <2>2. n = 2
    <3>1. Cardinality({<<1, v>>}) = 1 BY FS_Singleton
    <3> QED BY <2>1, <3>1
  <2>3. got' = {<<1, v>>, <<2, mem[2]>>} /\ place' = "row" BY <1>2, <2>1, <2>2
  <2> DEFINE f == [x \in Cells |-> IF x = 1 THEN v ELSE mem[2]]
  <2>4. f \in [Cells -> Versions] /\ f[1] = v /\ f[2] = mem[2] BY <1>0, <2>1
  <2> HIDE DEF f
  <2>5. PageOf(f) = {<<1, v>>, <<2, mem[2]>>} BY <1>0, <2>4 DEF PageOf
  <2>6. \A x \in Cells : f[x] >= due BY <1>0, <1>1, <2>1, <2>4
  <2>7. AsNew(got', due) BY <2>3, <2>4, <2>5, <2>6 DEF AsNew
  <2> QED BY <1>2, <2>3, <2>7
<1> QED BY <1>3, <1>4

LEMMA PagesTake ==
  ASSUME Typed, Stored, NEW c, Pages(c), TakePage /\ UNCHANGED <<mem, writes, ops, queue, regions>>,
         UNCHANGED <<pairs, drawFB, disp, cpu, device, history>>
  PROVE  Pages(c)'
<1>0. UNCHANGED <<device, complete, mem>> BY DEF history
<1>1. Rows(c)' BY <1>0 DEF Pages, Rows, NewBefore, NewAt, AsNew, PageOf, HasPage
<1>2. CASE place = "page"
  <2>1. /\ dirty' = FALSE /\ got' = {} /\ due' = complete
        /\ place' = IF dirty THEN "copy" ELSE "row"
    BY <1>2 DEF TakePage
  <2>2. ~dirty => NewAt(c, Len(c) + 1, complete, device.mem) BY <1>2 DEF Pages, Clean, NewBefore
  <2>3. place' = "row" => NewAt(c, Len(c) + 1, complete', device'.mem) /\ due' = complete'
    BY <1>0, <2>1, <2>2
  <2>4. Clean(c)'
    BY <1>0, <2>1, <2>3 DEF Clean, NewBefore, NewAt, AsNew, PageOf, HasPage
  <2>5. Taken(c)'
    BY <1>0, <2>1, <2>3 DEF Taken, NewBefore, NewAt, AsNew, PageOf, HasPage
  <2> QED BY <1>1, <2>4, <2>5 DEF Pages
<1>3. CASE place = "copy"
  <2>1. got = {} \/ \E v \in Versions : v >= due /\ got = {<<1, v>>} BY <1>3 DEF Pages, Taken
  <2>2. /\ UNCHANGED <<dirty, due>> /\ got' # {}
        /\ \/ place' = "copy" /\ \E v \in Versions : v >= due /\ got' = {<<1, v>>}
           \/ place' = "row" /\ AsNew(got', due)
    BY <1>3, <2>1, CopyPage
  <2>3. ~dirty => due = complete BY <1>3 DEF Pages, Clean
  <2>4. Clean(c)' BY <1>0, <2>2, <2>3 DEF Clean
  <2>5. Taken(c)'
    <3>1. place' = "row" => AsNew(got', due') BY <2>2
    <3> QED BY <2>2, <3>1 DEF Taken, AsNew, PageOf
  <2> QED BY <1>1, <2>4, <2>5 DEF Pages
<1> QED BY <1>2, <1>3 DEF TakePage

\* A row that is put takes its page with it.
LEMMA PagesRow ==
  ASSUME Typed, NEW c \in Seq(Recs), Pages(c), RenderLine /\ UNCHANGED <<mem, writes, ops, queue>>,
         UNCHANGED <<pairs, drawFB, disp, cpu, device, history>>,
         NEW rec \in Recs, rec = [kind |-> "row", page |-> got, least |-> due]
  PROVE  Pages(Append(c, rec))'
<1>0. /\ UNCHANGED <<device, complete, dirty>> /\ place = "row" /\ place' \in {"submit", "tick", "next"}
  BY DEF history, RenderLine, RowEnds
<1>1. rec.kind = "row" /\ rec.page = got /\ rec.least = due OBVIOUS
<1>2. IF got = {} THEN NewBefore(c, Len(c) + 1, due) ELSE AsNew(got, due) BY <1>0 DEF Pages, Taken
<1>3. Rows(Append(c, rec))' BY <1>0, <1>1, <1>2, RowsAppend DEF Pages
<1>4. ASSUME ~dirty PROVE NewAt(Append(c, rec), Len(Append(c, rec)) + 1, complete, device.mem)
  <2>1. Len(Append(c, rec)) + 1 = Len(c) + 2 BY AppendIndex
  <2>2. CASE got = {}
    <3>1. NewAt(c, Len(c) + 1, complete, device.mem) /\ ~HasPage(rec)
      BY <1>0, <1>1, <1>4, <2>2 DEF Pages, Clean, NewBefore, HasPage
    <3> QED BY <2>1, <3>1, NewEnd
  <2>3. CASE got # {}
    <3>1. due = complete BY <1>0, <1>4, <2>3 DEF Pages, Clean
    <3>2. HasPage(rec) /\ AsNew(rec.page, complete) BY <1>1, <1>2, <2>3, <3>1 DEF HasPage
    <3> QED BY <2>1, <3>2, NewEnd
  <2> QED BY <2>2, <2>3
<1> DEFINE e == Append(c, rec)
<1>5. ~dirty' => NewAt(e, Len(e) + 1, complete', device'.mem) BY <1>0, <1>4
<1> HIDE DEF e
<1>6. Clean(e)' BY <1>0, <1>5 DEF Clean, NewBefore, NewAt, AsNew, PageOf, HasPage
<1>7. Taken(e)' BY <1>0 DEF Taken
<1>8. Clean(Append(c, rec))' /\ Taken(Append(c, rec))'
  BY <1>6, <1>7 DEF e, Clean, Taken, NewBefore, NewAt, AsNew, PageOf, HasPage
<1> QED BY <1>3, <1>8 DEF Pages

\* What is put for the frame buffers has no page.
LEMMA PagesOther ==
  ASSUME NEW c \in Seq(Recs), Pages(c), NEW rec \in Recs, rec.kind # "row",
         UNCHANGED <<device, complete, dirty>>,
         place \notin {"copy", "row"}, place' \notin {"copy", "row"}
  PROVE  Pages(Append(c, rec))'
<1>1. Rows(Append(c, rec))' BY RowsAppend DEF Pages
<1>2. ASSUME ~dirty PROVE NewAt(Append(c, rec), Len(Append(c, rec)) + 1, complete, device.mem)
  <2>1. Len(Append(c, rec)) + 1 = Len(c) + 2 BY AppendIndex
  <2>2. NewAt(c, Len(c) + 1, complete, device.mem) BY <1>2 DEF Pages, Clean, NewBefore
  <2>3. ~HasPage(rec) BY DEF HasPage
  <2> QED BY <2>1, <2>2, <2>3, NewEnd
<1> DEFINE e == Append(c, rec)
<1>3. ~dirty' => NewAt(e, Len(e) + 1, complete', device'.mem) BY <1>2
<1> HIDE DEF e
<1>4. Clean(e)' BY <1>3 DEF Clean, NewBefore, NewAt, AsNew, PageOf, HasPage
<1>5. Taken(e)' BY DEF Taken
<1>6. Clean(Append(c, rec))' /\ Taken(Append(c, rec))'
  BY <1>4, <1>5 DEF e, Clean, Taken, NewBefore, NewAt, AsNew, PageOf, HasPage
<1> QED BY <1>1, <1>6 DEF Pages

LEMMA PagesDevice ==
  ASSUME Typed, NEW c \in Seq(Recs), c # <<>>, Pages(c), device' = Applied(device, Head(c)),
         UNCHANGED <<place, got, due, dirty, complete>>
  PROVE  Pages(Tail(c))'
<1>1. /\ Rows(Tail(c))'
      /\ \A l : NewBefore(c, Len(c) + 1, l) => NewAt(Tail(c), Len(Tail(c)) + 1, l, device'.mem)
  BY RowsDevice DEF Pages
<1> DEFINE t == Tail(c)
<1>2. \A l : NewBefore(c, Len(c) + 1, l) => NewAt(t, Len(t) + 1, l, device'.mem) BY <1>1
<1> HIDE DEF t
<1>3. Clean(t)'
  <2>1. ~dirty => IF place = "copy" \/ (place = "row" /\ got # {}) THEN due = complete
                  ELSE NewAt(t, Len(t) + 1, complete, device'.mem)
    BY <1>2 DEF Pages, Clean
  <2>2. ~dirty' => IF place' = "copy" \/ (place' = "row" /\ got' # {}) THEN due' = complete'
                   ELSE NewAt(t, Len(t) + 1, complete', device'.mem)
    BY <2>1
  <2> QED BY <2>2 DEF Clean, NewBefore, NewAt, AsNew, PageOf, HasPage
<1>4. Taken(t)'
  <2>1. /\ place' = "copy" => got' = {} \/ \E v \in Versions : v >= due' /\ got' = {<<1, v>>}
        /\ place' = "row" => IF got' = {} THEN NewAt(t, Len(t) + 1, due', device'.mem) ELSE AsNew(got', due')
    BY <1>2 DEF Pages, Taken
  <2> QED BY <2>1 DEF Taken, NewBefore, NewAt, AsNew, PageOf, HasPage
<1>5. Clean(Tail(c))' /\ Taken(Tail(c))'
  BY <1>3, <1>4 DEF t, Clean, Taken, NewBefore, NewAt, AsNew, PageOf, HasPage
<1> QED BY <1>1, <1>5 DEF Pages

-----------------------------------------------------------------------------
(* The pair.                                                               *)

Drawing(c) == ~pairKept => CPUBytes(c) /\ Drawn(c)

LEMMA AppliedPair ==
  ASSUME Typed, NEW rec \in Recs, NEW h \in Halves, NEW b \in Bytes
  PROVE  Applied(device, rec).pair[h][b] =
           IF Carries(rec, h, b) THEN Carried(rec, b) ELSE device.pair[h][b]
<1>0. device \in [mem : [Cells -> Versions], pair : Pairs] BY DEF Typed
<1>1. CASE rec \in RowRecs
  <2>1. rec.kind = "row" BY <1>1 DEF RowRecs
  <2>2. Applied(device, rec).pair = device.pair BY <1>0, <2>1 DEF Applied
  <2> QED BY <2>1, <2>2 DEF Carries
<1>2. CASE rec \in FBRecs
  <2>1. rec.kind = "fb" /\ rec.half \in Halves BY <1>2 DEF FBRecs
  <2> DEFINE n == [y \in Bytes |-> IF y \in rec.mask THEN rec.bytes[y] ELSE device.pair[rec.half][y]]
  <2>2. Applied(device, rec).pair = [device.pair EXCEPT ![rec.half] = n]
    BY <1>0, <2>1 DEF Applied
  <2>3. n[b] = IF b \in rec.mask THEN rec.bytes[b] ELSE device.pair[rec.half][b] OBVIOUS
  <2> HIDE DEF n
  <2>4. Applied(device, rec).pair[h] = IF h = rec.half THEN n ELSE device.pair[h]
    BY <1>0, <2>1, <2>2 DEF Pairs
  <2> QED BY <2>1, <2>3, <2>4 DEF Carries, Carried
<1>3. CASE rec \in OpRecs
  <2>1. rec.kind = "op" /\ rec.half \in Halves BY <1>3 DEF OpRecs
  <2>2. Applied(device, rec).pair = [device.pair EXCEPT ![rec.half]["o"] = rec.v]
    BY <1>0, <2>1 DEF Applied
  <2>3. Applied(device, rec).pair[h][b] = IF h = rec.half /\ b = "o" THEN rec.v ELSE device.pair[h][b]
    BY <1>0, <2>1, <2>2 DEF Pairs, Bytes
  <2> QED BY <2>1, <2>3 DEF Carries, Carried
<1> QED BY <1>1, <1>2, <1>3 DEF Recs

\* A step that neither writes, draws nor takes.
LEMMA DrawingSame ==
  ASSUME NEW c, Drawing(c), UNCHANGED <<device, latest, raced, ops>>, ~pairKept' => ~pairKept /\ shadow' = shadow,
         \A h \in Halves : (Owed(h) => Owed(h)') /\ (Loaded(h)' <=> Loaded(h))
  PROVE  Drawing(c)'
<1> SUFFICES ASSUME ~pairKept' PROVE CPUBytes(c)' /\ Drawn(c)'
  BY DEF Drawing
<1>1. CPUBytes(c) /\ Drawn(c) /\ shadow' = shadow BY DEF Drawing
<1>2. ASSUME NEW h \in Halves
      PROVE  /\ shadow'[h]["c"] = latest'[h]["c"]
             /\ raced'[h] \/ Owed(h)' \/ Ends(c, h, "c", latest[h]["c"])'
  <2>1. Ends(c, h, "c", latest[h]["c"]) => Ends(c, h, "c", latest[h]["c"])'
    BY DEF Ends, EndsAs, Carries, Carried
  <2> QED BY <1>1, <2>1 DEF CPUBytes
<1>3. ASSUME NEW h \in Halves
      PROVE  /\ OpFor(h)' => ops'[1].v = latest'[h]["o"]
             /\ \/ OpFor(h)'
                \/ Loaded(h)' /\ shadow'[h]["o"] = latest'[h]["o"]
                \/ ~Loaded(h)' /\ Ends(c, h, "o", latest[h]["o"])'
  <2>1. Ends(c, h, "o", latest[h]["o"]) => Ends(c, h, "o", latest[h]["o"])'
    BY DEF Ends, EndsAs, Carries, Carried
  <2>2. OpFor(h)' <=> OpFor(h) BY DEF OpFor
  <2> QED BY <1>1, <2>1, <2>2 DEF Drawn
<1>4. CPUBytes(c)' BY <1>2 DEF CPUBytes
<1>5. Drawn(c)' BY <1>3 DEF Drawn
<1> QED BY <1>4, <1>5

\* What the byte will be does not change with what does not carry it.
LEMMA DrawingPut ==
  ASSUME NEW c \in Seq(Recs), NEW rec \in Recs, UNCHANGED device, NEW h, NEW b, NEW v
  PROVE  /\ Carries(rec, h, b) /\ Carried(rec, b) = v => EndsAs(Append(c, rec), h, b, v, device'.pair[h][b])
         /\ ~Carries(rec, h, b) /\ Ends(c, h, b, v) => EndsAs(Append(c, rec), h, b, v, device'.pair[h][b])
BY EndsAppend DEF Ends

LEMMA DrawingDevice ==
  ASSUME Typed, NEW c \in Seq(Recs), c # <<>>, Drawing(c), device' = Applied(device, Head(c)),
         UNCHANGED <<latest, raced, ops, pairKept, shadow, cpu, fbMask, fbDirty, place, half, got>>
  PROVE  Drawing(Tail(c))'
<1> SUFFICES ASSUME ~pairKept PROVE (CPUBytes(Tail(c)) /\ Drawn(Tail(c)))'
  BY DEF Drawing
<1>1. CPUBytes(c) /\ Drawn(c) BY DEF Drawing
<1>2. ASSUME NEW h \in Halves, NEW b \in Bytes, NEW v, Ends(c, h, b, v)
      PROVE  EndsAs(Tail(c), h, b, v, device'.pair[h][b])
  <2>1. Head(c) \in Recs BY TailIndex
  <2>2. device'.pair[h][b] = IF Carries(Head(c), h, b) THEN Carried(Head(c), b) ELSE device.pair[h][b]
    BY <2>1, AppliedPair
  <2>3. EndsAs(c, h, b, v, device.pair[h][b]) BY <1>2 DEF Ends
  <2> QED BY <2>2, <2>3, EndsTail
<1> DEFINE t == Tail(c)
<1>3. \A h \in Halves, b \in Bytes : \A v : Ends(c, h, b, v) => EndsAs(t, h, b, v, device'.pair[h][b])
  BY <1>2
<1> HIDE DEF t
<1>4. "c" \in Bytes /\ "o" \in Bytes BY DEF Bytes
<1>5. \A h \in Halves : (Owed(h)' <=> Owed(h)) /\ (Loaded(h)' <=> Loaded(h)) /\ (OpFor(h)' <=> OpFor(h))
  BY DEF Owed, Loaded, OpFor
<1>6. CPUBytes(t)'
  <2>1. \A h \in Halves : /\ shadow'[h]["c"] = latest'[h]["c"]
                          /\ raced'[h] \/ Owed(h)' \/ EndsAs(t, h, "c", latest'[h]["c"], device'.pair[h]["c"])
    BY <1>1, <1>3, <1>4, <1>5 DEF CPUBytes
  <2> QED BY <2>1 DEF CPUBytes, Ends, EndsAs, Carries, Carried
<1>7. Drawn(t)'
  <2>1. \A h \in Halves : /\ OpFor(h)' => ops'[1].v = latest'[h]["o"]
                          /\ \/ OpFor(h)'
                             \/ Loaded(h)' /\ shadow'[h]["o"] = latest'[h]["o"]
                             \/ ~Loaded(h)' /\ EndsAs(t, h, "o", latest'[h]["o"], device'.pair[h]["o"])
    BY <1>1, <1>3, <1>4, <1>5 DEF Drawn
  <2> QED BY <2>1 DEF Drawn, Ends, EndsAs, Carries, Carried
<1> QED BY <1>6, <1>7 DEF t, CPUBytes, Drawn, Ends, EndsAs, Carries, Carried

\* A write is owed from the store to the mark.
LEMMA DrawingCPU ==
  ASSUME Typed, NEW c, Drawing(c), CPU
  PROVE  Drawing(c)'
<1> USE DEF memory, writes, pairs, walker, regions, gpu, history
<1>0. UNCHANGED <<pairKept, drawFB, place, half, got, ops, device>> BY CPUMoves
<1>a. /\ cpu \in Accesses /\ cpu.to \in Halves /\ drawFB \in Halves /\ shadow \in Pairs /\ latest \in Pairs
      /\ fbMask \in [Halves -> SUBSET Bytes] /\ fbDirty \in [Halves -> BOOLEAN] /\ raced \in [Halves -> BOOLEAN]
  BY DEF Typed, Accesses
<1>b. Idle.pc = "idle" BY DEF Idle
<1>1. CASE \/ CpuStarts
           \/ (StoreRest \/ TestPage \/ MarkPage) /\ UNCHANGED <<pair, writes, pairRequest, version, latest, raced>>
           \/ waitPair /\ UNCHANGED <<memory, pair, writes, history>>
  <2>1. UNCHANGED <<latest, raced, shadow, fbMask, fbDirty>>
    BY <1>1 DEF CpuStarts, WriteVRAM, WriteFB, ReadFB, StoreRest
  <2>2. cpu.pc \notin {"note", "mask", "page"}
    BY <1>1, <1>b DEF CpuStarts, WriteVRAM, WriteFB, ReadFB, CpuMay, StoreRest, TestPage, MarkPage, waitPair
  <2>3. \A h \in Halves : (Owed(h) => Owed(h)') /\ (Loaded(h)' <=> Loaded(h))
    BY <1>0, <2>1, <2>2 DEF Owed, Loaded
  <2> QED BY <1>0, <2>1, <2>3, DrawingSame
<1>2. CASE fbWriteTarget /\ UNCHANGED <<memory, pairRequest>>
  <2> SUFFICES ASSUME ~pairKept PROVE (CPUBytes(c) /\ Drawn(c))' BY <1>0 DEF Drawing
  <2>0. CPUBytes(c) /\ Drawn(c) BY DEF Drawing
  <2>1. /\ cpu.pc = "fb" /\ cpu'.pc = "note" /\ cpu'.to = cpu.to
        /\ shadow' = [shadow EXCEPT ![cpu.to]["c"] = cpu.v]
        /\ latest' = [latest EXCEPT ![cpu.to]["c"] = cpu.v]
        /\ UNCHANGED <<fbMask, fbDirty, raced>>
    BY <1>2, <1>a DEF fbWriteTarget, Cpu, Accesses
  <2>2. \A h \in Halves : /\ h = cpu.to => Owed(h)'
                          /\ Owed(h) => Owed(h)'
                          /\ Loaded(h)' <=> Loaded(h)
                          /\ OpFor(h)' <=> OpFor(h)
    BY <1>0, <2>1 DEF Owed, Loaded, OpFor
  <2>3. "c" \in Bytes /\ "o" \in Bytes BY DEF Bytes
  <2>4. \A h \in Halves : /\ shadow'[h]["c"] = IF h = cpu.to THEN cpu.v ELSE shadow[h]["c"]
                          /\ latest'[h]["c"] = IF h = cpu.to THEN cpu.v ELSE latest[h]["c"]
                          /\ shadow'[h]["o"] = shadow[h]["o"] /\ latest'[h]["o"] = latest[h]["o"]
    BY <1>a, <2>1, <2>3 DEF Pairs
  <2>5. \A h \in Halves, b \in Bytes : \A v : Ends(c, h, b, v) => EndsAs(c, h, b, v, device'.pair[h][b])
    BY <1>0 DEF Ends
  <2>6. \A h \in Halves : /\ shadow'[h]["c"] = latest'[h]["c"]
                          /\ raced'[h] \/ Owed(h)' \/ EndsAs(c, h, "c", latest'[h]["c"], device'.pair[h]["c"])
    BY <2>0, <2>1, <2>2, <2>3, <2>4, <2>5 DEF CPUBytes
  <2>7. \A h \in Halves : /\ OpFor(h)' => ops'[1].v = latest'[h]["o"]
                          /\ \/ OpFor(h)'
                             \/ Loaded(h)' /\ shadow'[h]["o"] = latest'[h]["o"]
                             \/ ~Loaded(h)' /\ EndsAs(c, h, "o", latest'[h]["o"], device'.pair[h]["o"])
    BY <1>0, <2>0, <2>2, <2>3, <2>4, <2>5 DEF Drawn
  <2>8. CPUBytes(c)' BY <2>6 DEF CPUBytes, Ends, EndsAs, Carries, Carried
  <2>9. Drawn(c)' BY <2>7 DEF Drawn, Ends, EndsAs, Carries, Carried
  <2> QED BY <2>8, <2>9
<1>3. CASE NoteByte /\ UNCHANGED <<memory, pairRequest>>
  <2> SUFFICES ASSUME ~pairKept PROVE (CPUBytes(c) /\ Drawn(c))' BY <1>0 DEF Drawing
  <2>0. CPUBytes(c) /\ Drawn(c) BY DEF Drawing
  <2>1. /\ cpu.pc = "note" /\ cpu'.pc = "mask" /\ cpu'.to = drawFB
        /\ raced' = [raced EXCEPT ![cpu.to] = cpu.to # drawFB]
        /\ UNCHANGED <<shadow, latest, fbMask, fbDirty>>
    BY <1>3, <1>a DEF NoteByte, Accesses
  <2>2. \A h \in Halves : /\ h # cpu.to => (Owed(h) => Owed(h)') /\ raced'[h] = raced[h]
                          /\ h = cpu.to => raced'[h] \/ Owed(h)'
                          /\ Loaded(h)' <=> Loaded(h)
                          /\ OpFor(h)' <=> OpFor(h)
    BY <1>0, <1>a, <2>1 DEF Owed, Loaded, OpFor
  <2>3. "c" \in Bytes /\ "o" \in Bytes BY DEF Bytes
  <2>5. \A h \in Halves, b \in Bytes : \A v : Ends(c, h, b, v) => EndsAs(c, h, b, v, device'.pair[h][b])
    BY <1>0 DEF Ends
  <2>6. \A h \in Halves : /\ shadow'[h]["c"] = latest'[h]["c"]
                          /\ raced'[h] \/ Owed(h)' \/ EndsAs(c, h, "c", latest'[h]["c"], device'.pair[h]["c"])
    BY <2>0, <2>1, <2>2, <2>3, <2>5 DEF CPUBytes
  <2>7. \A h \in Halves : /\ OpFor(h)' => ops'[1].v = latest'[h]["o"]
                          /\ \/ OpFor(h)'
                             \/ Loaded(h)' /\ shadow'[h]["o"] = latest'[h]["o"]
                             \/ ~Loaded(h)' /\ EndsAs(c, h, "o", latest'[h]["o"], device'.pair[h]["o"])
    BY <1>0, <2>0, <2>1, <2>2, <2>3, <2>5 DEF Drawn
  <2>8. CPUBytes(c)' BY <2>6 DEF CPUBytes, Ends, EndsAs, Carries, Carried
  <2>9. Drawn(c)' BY <2>7 DEF Drawn, Ends, EndsAs, Carries, Carried
  <2> QED BY <2>8, <2>9
<1>4. CASE NoteMask /\ UNCHANGED <<memory, pairRequest>>
  <2>1. /\ cpu.pc = "mask" /\ cpu'.pc = "page" /\ cpu'.to = cpu.to
        /\ fbMask' = [fbMask EXCEPT ![cpu.to] = @ \cup {"c"}]
        /\ UNCHANGED <<shadow, latest, raced, fbDirty>>
    BY <1>4, <1>a DEF NoteMask, Cpu, Accesses
  <2>2. \A h \in Halves : (Owed(h) => Owed(h)') /\ (Loaded(h)' <=> Loaded(h))
    BY <1>0, <1>a, <2>1 DEF Owed, Loaded
  <2> QED BY <1>0, <2>1, <2>2, DrawingSame
<1>5. CASE NotePage /\ UNCHANGED <<memory, pairRequest>>
  <2>1. /\ cpu.pc = "page" /\ cpu' = Idle
        /\ fbDirty' = [fbDirty EXCEPT ![cpu.to] = TRUE]
        /\ UNCHANGED <<shadow, latest, raced, fbMask>>
    BY <1>5 DEF NotePage
  <2>2. \A h \in Halves : (Owed(h) => Owed(h)') /\ (Loaded(h)' <=> Loaded(h))
    BY <1>0, <1>a, <1>b, <2>1 DEF Owed, Loaded
  <2> QED BY <1>0, <2>1, <2>2, DrawingSame
<1> QED BY <1>1, <1>2, <1>3, <1>4, <1>5 DEF CPU, CpuContinues

LEMMA DrawingRow ==
  ASSUME NEW c \in Seq(Recs), Drawing(c), NEW rec \in Recs, rec.kind = "row",
         UNCHANGED <<latest, raced, ops, pairKept, shadow, cpu, fbMask, fbDirty, device>>,
         place \notin {"mask", "shadow"}, place' \notin {"mask", "shadow"}
  PROVE  Drawing(Append(c, rec))'
<1> SUFFICES ASSUME ~pairKept PROVE (CPUBytes(Append(c, rec)) /\ Drawn(Append(c, rec)))'
  BY DEF Drawing
<1>1. CPUBytes(c) /\ Drawn(c) BY DEF Drawing
<1> DEFINE e == Append(c, rec)
<1>2. \A h, b, v : ~Carries(rec, h, b) BY DEF Carries
<1>3. \A h, b, v : Ends(c, h, b, v) => EndsAs(e, h, b, v, device'.pair[h][b])
  BY <1>2, DrawingPut
<1> HIDE DEF e
<1>5. \A h \in Halves : (Owed(h)' <=> Owed(h)) /\ (Loaded(h)' <=> Loaded(h)) /\ (OpFor(h)' <=> OpFor(h))
  BY DEF Owed, Loaded, OpFor
<1>6. CPUBytes(e)'
  <2>1. \A h \in Halves : /\ shadow'[h]["c"] = latest'[h]["c"]
                          /\ raced'[h] \/ Owed(h)' \/ EndsAs(e, h, "c", latest'[h]["c"], device'.pair[h]["c"])
    BY <1>1, <1>3, <1>5 DEF CPUBytes
  <2> QED BY <2>1 DEF CPUBytes, Ends, EndsAs, Carries, Carried
<1>7. Drawn(e)'
  <2>1. \A h \in Halves : /\ OpFor(h)' => ops'[1].v = latest'[h]["o"]
                          /\ \/ OpFor(h)'
                             \/ Loaded(h)' /\ shadow'[h]["o"] = latest'[h]["o"]
                             \/ ~Loaded(h)' /\ EndsAs(e, h, "o", latest'[h]["o"], device'.pair[h]["o"])
    BY <1>1, <1>3, <1>5 DEF Drawn
  <2> QED BY <2>1 DEF Drawn, Ends, EndsAs, Carries, Carried
<1> QED BY <1>6, <1>7 DEF e, CPUBytes, Drawn, Ends, EndsAs, Carries, Carried

\* A half's bytes are put as they are, and the marks with them.
LEMMA DrawingBytes ==
  ASSUME Typed, Progress, NEW c \in Seq(Recs), Drawing(c), NEW rec \in Recs,
         rec = [kind |-> "fb", half |-> half, mask |-> got, bytes |-> shadow[half]],
         place = "shadow", place' \in {"dirty", "ops"}, UNCHANGED <<fbMask, fbDirty, shadow>>,
         UNCHANGED <<latest, raced, ops, pairKept, cpu, device>>
  PROVE  Drawing(Append(c, rec))'
<1> SUFFICES ASSUME ~pairKept PROVE (CPUBytes(Append(c, rec)) /\ Drawn(Append(c, rec)))'
  BY DEF Drawing
<1>1. CPUBytes(c) /\ Drawn(c) BY DEF Drawing
<1> DEFINE e == Append(c, rec)
<1>2. \A h, b : /\ Carries(rec, h, b) <=> h = half /\ b \in got
                /\ Carried(rec, b) = shadow[half][b]
  BY DEF Carries, Carried
<1>3. \A h, b, v : IF h = half /\ b \in got THEN EndsAs(e, h, b, shadow[h][b], device'.pair[h][b])
                   ELSE Ends(c, h, b, v) => EndsAs(e, h, b, v, device'.pair[h][b])
  <2> TAKE h, b, v
  <2>1. CASE h = half /\ b \in got
    <3>1. Carries(rec, h, b) /\ Carried(rec, b) = shadow[h][b] BY <1>2, <2>1
    <3> QED BY <2>1, <3>1, DrawingPut
  <2>2. CASE ~(h = half /\ b \in got)
    <3>1. ~Carries(rec, h, b) BY <1>2, <2>2
    <3> QED BY <2>2, <3>1, DrawingPut
  <2> QED BY <2>1, <2>2
<1> HIDE DEF e
<1>4. "o" \notin fbMask[half] BY DEF Progress
<1>5. \A h \in Halves : /\ Owed(h) => Owed(h)' \/ (h = half /\ "c" \in got)
                        /\ Loaded(h)' <=> Loaded(h) /\ ~(h = half /\ "o" \in got)
                        /\ h = half /\ "o" \in got => Loaded(h)
                        /\ OpFor(h)' <=> OpFor(h)
  BY <1>4 DEF Owed, Loaded, OpFor
<1>6. CPUBytes(e)'
  <2>1. ASSUME NEW h \in Halves
        PROVE  /\ shadow'[h]["c"] = latest'[h]["c"]
               /\ raced'[h] \/ Owed(h)' \/ EndsAs(e, h, "c", latest'[h]["c"], device'.pair[h]["c"])
    <3>1. shadow[h]["c"] = latest[h]["c"] /\ (raced[h] \/ Owed(h) \/ Ends(c, h, "c", latest[h]["c"]))
      BY <1>1 DEF CPUBytes
    <3>2. CASE h = half /\ "c" \in got
      <4>1. EndsAs(e, h, "c", shadow[h]["c"], device'.pair[h]["c"]) BY <1>3, <3>2
      <4> QED BY <3>1, <4>1
    <3>3. CASE ~(h = half /\ "c" \in got)
      <4>1. Ends(c, h, "c", latest[h]["c"]) => EndsAs(e, h, "c", latest[h]["c"], device'.pair[h]["c"])
        BY <1>3, <3>3
      <4>2. Owed(h) => Owed(h)' BY <1>5, <3>3
      <4> QED BY <3>1, <4>1, <4>2
    <3> QED BY <3>2, <3>3
  <2> QED BY <2>1 DEF CPUBytes, Ends, EndsAs, Carries, Carried
<1>7. Drawn(e)'
  <2>1. ASSUME NEW h \in Halves
        PROVE  /\ OpFor(h)' => ops'[1].v = latest'[h]["o"]
               /\ \/ OpFor(h)'
                  \/ Loaded(h)' /\ shadow'[h]["o"] = latest'[h]["o"]
                  \/ ~Loaded(h)' /\ EndsAs(e, h, "o", latest'[h]["o"], device'.pair[h]["o"])
    <3>1. /\ OpFor(h) => ops[1].v = latest[h]["o"]
          /\ \/ OpFor(h)
             \/ Loaded(h) /\ shadow[h]["o"] = latest[h]["o"]
             \/ ~Loaded(h) /\ Ends(c, h, "o", latest[h]["o"])
      BY <1>1 DEF Drawn
    <3>2. CASE h = half /\ "o" \in got
      <4>1. EndsAs(e, h, "o", shadow[h]["o"], device'.pair[h]["o"]) BY <1>3, <3>2
      <4>2. Loaded(h) /\ ~Loaded(h)' BY <1>5, <3>2
      <4> QED BY <1>5, <3>1, <4>1, <4>2
    <3>3. CASE ~(h = half /\ "o" \in got)
      <4>1. Ends(c, h, "o", latest[h]["o"]) => EndsAs(e, h, "o", latest[h]["o"], device'.pair[h]["o"])
        BY <1>3, <3>3
      <4>2. Loaded(h)' <=> Loaded(h) BY <1>5, <3>3
      <4> QED BY <1>5, <3>1, <4>1, <4>2
    <3> QED BY <3>2, <3>3
  <2> QED BY <2>1 DEF Drawn, Ends, EndsAs, Carries, Carried
<1> QED BY <1>6, <1>7 DEF e, CPUBytes, Drawn, Ends, EndsAs, Carries, Carried

\* The operation that is put is the latest of its half.
LEMMA DrawingOp ==
  ASSUME Typed, Progress, NEW c \in Seq(Recs), Drawing(c), ops # <<>>, ops' = <<>>,
         NEW rec \in OpRecs, rec = ops[1],
         place = "ops", place' \notin {"mask", "shadow"},
         UNCHANGED <<latest, raced, pairKept, shadow, cpu, fbMask, fbDirty, device>>
  PROVE  Drawing(Append(c, rec))'
<1> SUFFICES ASSUME ~pairKept PROVE (CPUBytes(Append(c, rec)) /\ Drawn(Append(c, rec)))'
  BY DEF Drawing
<1> DEFINE e == Append(c, rec)
<1>1. CPUBytes(c) /\ Drawn(c) BY DEF Drawing
<1>2. \A h, b : /\ Carries(rec, h, b) <=> h = rec.half /\ b = "o"
                /\ Carried(rec, b) = rec.v
  BY DEF Carries, Carried, OpRecs
<1>b. rec \in Recs BY DEF Recs
<1>c. \A h : OpFor(h) <=> rec.half = h BY DEF OpFor
<1>d. \A h : ~OpFor(h)' BY DEF OpFor
<1>e. \A h \in Halves : OpFor(h) => rec.v = latest[h]["o"] BY <1>1 DEF Drawn
<1>3. \A h, b, v : IF h = rec.half /\ b = "o" THEN EndsAs(e, h, b, rec.v, device'.pair[h][b])
                   ELSE Ends(c, h, b, v) => EndsAs(e, h, b, v, device'.pair[h][b])
  <2> TAKE h, b, v
  <2>1. CASE h = rec.half /\ b = "o"
    <3>1. Carries(rec, h, b) /\ Carried(rec, b) = rec.v BY <1>2, <2>1
    <3> QED BY <1>b, <2>1, <3>1, DrawingPut
  <2>2. CASE ~(h = rec.half /\ b = "o")
    <3>1. ~Carries(rec, h, b) BY <1>2, <2>2
    <3> QED BY <1>b, <2>2, <3>1, DrawingPut
  <2> QED BY <2>1, <2>2
<1> HIDE DEF e
<1>4. \A h \in Halves : "o" \notin fbMask[h] BY DEF Progress
<1>5. \A h \in Halves : (Owed(h)' <=> Owed(h)) /\ ~Loaded(h) /\ ~Loaded(h)'
  BY <1>4 DEF Owed, Loaded
<1>6. CPUBytes(e)'
  <2>1. ASSUME NEW h \in Halves
        PROVE  /\ shadow'[h]["c"] = latest'[h]["c"]
               /\ raced'[h] \/ Owed(h)' \/ EndsAs(e, h, "c", latest'[h]["c"], device'.pair[h]["c"])
    <3>1. Ends(c, h, "c", latest[h]["c"]) => EndsAs(e, h, "c", latest[h]["c"], device'.pair[h]["c"]) BY <1>3
    <3> QED BY <1>1, <1>5, <3>1 DEF CPUBytes
  <2> QED BY <2>1 DEF CPUBytes, Ends, EndsAs, Carries, Carried
<1>7. Drawn(e)'
  <2>1. ASSUME NEW h \in Halves
        PROVE  ~Loaded(h)' /\ EndsAs(e, h, "o", latest'[h]["o"], device'.pair[h]["o"])
    <3>2. CASE h = rec.half
      <4>1. EndsAs(e, h, "o", rec.v, device'.pair[h]["o"]) BY <1>3, <3>2
      <4>2. rec.v = latest[h]["o"] BY <1>c, <1>e, <3>2
      <4> QED BY <1>5, <4>1, <4>2
    <3>3. CASE h # rec.half
      <4>1. Ends(c, h, "o", latest[h]["o"]) => EndsAs(e, h, "o", latest[h]["o"], device'.pair[h]["o"])
        BY <1>3, <3>3
      <4>2. Ends(c, h, "o", latest[h]["o"]) BY <1>1, <1>5, <1>c, <3>3 DEF Drawn
      <4> QED BY <1>5, <4>1, <4>2
    <3> QED BY <3>2, <3>3
  <2> QED BY <1>d, <2>1 DEF Drawn, Ends, EndsAs, Carries, Carried
<1> QED BY <1>6, <1>7 DEF e, CPUBytes, Drawn, Ends, EndsAs, Carries, Carried

\* The marks of a half are taken before its bytes are.
LEMMA DrawingMarks ==
  ASSUME Typed, NEW c, Drawing(c), TakeFB, place # "shadow",
         UNCHANGED <<latest, raced, ops, pairKept, shadow, cpu, device>>
  PROVE  Drawing(c)'
<1>0. /\ fbMask \in [Halves -> SUBSET Bytes] /\ fbDirty \in [Halves -> BOOLEAN] /\ half \in Halves
      /\ Halves = {0, 1}
  BY DEF Typed, Halves
<1>1. CASE place = "dirty"
  <2>1. /\ fbDirty' = [fbDirty EXCEPT ![half] = FALSE] /\ UNCHANGED <<fbMask, got>>
        /\ fbDirty[half] => place' = "mask" /\ half' = half
        /\ ~fbDirty[half] => place' \in {"dirty", "ops"}
    BY <1>1 DEF TakeFB
  <2>2. \A h \in Halves : (Owed(h) => Owed(h)') /\ (Loaded(h)' <=> Loaded(h))
    BY <1>0, <1>1, <2>1 DEF Owed, Loaded
  <2> QED BY <2>2, DrawingSame
<1>2. CASE place = "mask"
  <2>1. /\ got' = fbMask[half] /\ fbMask' = [fbMask EXCEPT ![half] = {}]
        /\ place' = "shadow" /\ UNCHANGED <<half, fbDirty>>
    BY <1>2 DEF TakeFB
  <2>2. \A h \in Halves : (Owed(h) => Owed(h)') /\ (Loaded(h)' <=> Loaded(h))
    BY <1>0, <1>2, <2>1 DEF Owed, Loaded
  <2> QED BY <2>2, DrawingSame
<1> QED BY <1>1, <1>2 DEF TakeFB

\* An operation that is completed waits for the take of its line.
LEMMA DrawingTick ==
  ASSUME Typed, Control, NEW c, Drawing(c), Tick,
         UNCHANGED <<memory, writes, cpu, regions, gpu, complete, raced>>
  PROVE  Drawing(c)'
<1>0. /\ place = "tick" /\ place' = "dirty" /\ ops = <<>>
      /\ UNCHANGED <<shadow, fbMask, fbDirty, cpu, device, half, got, drawFB, pairKept, raced>>
      /\ drawFB \in Halves /\ latest \in Pairs
  BY DEF Tick, Call, Control, Taking, writes, gpu, Typed
<1>a. \A h \in Halves : (Owed(h)' <=> Owed(h)) /\ (Loaded(h)' <=> Loaded(h))
  BY <1>0 DEF Owed, Loaded
<1>1. CASE UNCHANGED <<ops, latest, pair, version>>
  BY <1>0, <1>1, <1>a, DrawingSame
<1>2. CASE /\ ops' = Append(ops, [kind |-> "op", half |-> drawFB, v |-> version'])
           /\ latest' = [latest EXCEPT ![drawFB]["o"] = version']
  <2> SUFFICES ASSUME ~pairKept PROVE (CPUBytes(c) /\ Drawn(c))' BY <1>0 DEF Drawing
  <2>0. CPUBytes(c) /\ Drawn(c) BY DEF Drawing
  <2>1. ops' = <<[kind |-> "op", half |-> drawFB, v |-> version']>> BY <1>0, <1>2
  <2>2. \A h \in Halves : /\ OpFor(h)' <=> h = drawFB
                          /\ ops'[1].v = version' /\ ~OpFor(h)
    BY <1>0, <2>1 DEF OpFor
  <2>3. "c" \in Bytes /\ "o" \in Bytes BY DEF Bytes
  <2>4. \A h \in Halves : /\ latest'[h]["c"] = latest[h]["c"]
                          /\ latest'[h]["o"] = IF h = drawFB THEN version' ELSE latest[h]["o"]
    BY <1>0, <1>2, <2>3 DEF Pairs
  <2>5. \A h \in Halves, b \in Bytes : \A v : Ends(c, h, b, v) => EndsAs(c, h, b, v, device'.pair[h][b])
    BY <1>0 DEF Ends
  <2>6. \A h \in Halves : /\ shadow'[h]["c"] = latest'[h]["c"]
                          /\ raced'[h] \/ Owed(h)' \/ EndsAs(c, h, "c", latest'[h]["c"], device'.pair[h]["c"])
    BY <1>0, <1>a, <2>0, <2>3, <2>4, <2>5 DEF CPUBytes
  <2>7. \A h \in Halves : /\ OpFor(h)' => ops'[1].v = latest'[h]["o"]
                          /\ \/ OpFor(h)'
                             \/ Loaded(h)' /\ shadow'[h]["o"] = latest'[h]["o"]
                             \/ ~Loaded(h)' /\ EndsAs(c, h, "o", latest'[h]["o"], device'.pair[h]["o"])
    BY <1>0, <1>a, <2>0, <2>2, <2>3, <2>4, <2>5 DEF Drawn
  <2>8. CPUBytes(c)' BY <2>6 DEF CPUBytes, Ends, EndsAs, Carries, Carried
  <2>9. Drawn(c)' BY <2>7 DEF Drawn, Ends, EndsAs, Carries, Carried
  <2> QED BY <2>8, <2>9
<1> QED BY <1>1, <1>2 DEF Tick

\* What the walker's other steps leave as it is.
LEMMA LinesSame ==
  ASSUME Typed, Control, Lines, ~Tick
  PROVE  /\ place \notin {"mask", "shadow", "copy", "row", "ops"}
         /\ place' \notin {"mask", "shadow", "copy", "row", "ops"}
         /\ UNCHANGED <<half, got, due, latest, ops, drawFB>> \/ Change
         /\ UNCHANGED <<half, got, due, latest, ops>>
         /\ pairKept' = pairKept \/ (Flush /\ pairKept')
         /\ Flush \/ UNCHANGED pair
<1> USE DEF pairs
<1>1. CASE WaitEnds BY <1>1 DEF WaitEnds, Call, Go
<1>2. CASE servicePair BY <1>2 DEF servicePair, Call
<1>3. CASE Flush BY <1>3 DEF Flush, Go
<1>4. CASE Change BY <1>4 DEF Change, Call
<1>6. CASE NextLine BY <1>6 DEF NextLine, Go
<1>7. CASE BeginFrame BY <1>7 DEF BeginFrame
<1>8. CASE Serialize BY <1>8 DEF Serialize, Call, Go
<1> QED BY <1>1, <1>2, <1>3, <1>4, <1>6, <1>7, <1>8 DEF Lines

LEMMA DrawingLines ==
  ASSUME Typed, Control, NEW c, Drawing(c), Lines,
         UNCHANGED <<memory, writes, cpu, regions, gpu, complete, raced>>
  PROVE  Drawing(c)'
<1>1. CASE Tick BY <1>1, DrawingTick
<1>2. CASE ~Tick
  <2>1. /\ place \notin {"mask", "shadow"} /\ place' \notin {"mask", "shadow"}
        /\ UNCHANGED <<half, got, latest, ops, shadow, fbMask, fbDirty, cpu, device, raced>>
        /\ pairKept => pairKept'
    BY <1>2, LinesSame DEF writes, gpu
  <2>2. \A h \in Halves : (Owed(h) => Owed(h)') /\ (Loaded(h)' <=> Loaded(h))
    BY <2>1 DEF Owed, Loaded
  <2> QED BY <2>1, <2>2, DrawingSame
<1> QED BY <1>1, <1>2

\* A load marks everything, and what it marks is what is there.
LEMMA DrawingLoad ==
  ASSUME Typed, Control, NEW c, Deserialize
  PROVE  Drawing(c)'
<1>1. /\ pair' = [h \in Halves |-> [b \in Bytes |-> version']]
      /\ shadow' = pair' /\ latest' = pair'
      /\ fbMask' = [h \in Halves |-> Bytes] /\ fbDirty' = [h \in Halves |-> TRUE]
      /\ UNCHANGED ops /\ ops = <<>>
  BY DEF Deserialize, Control, Taking
<1>2. "c" \in Bytes /\ "o" \in Bytes BY DEF Bytes
<1>3. \A h \in Halves : Owed(h)' /\ Loaded(h)' /\ ~OpFor(h)'
  BY <1>1, <1>2 DEF Owed, Loaded, OpFor
<1>4. \A h \in Halves, b \in Bytes : shadow'[h][b] = latest'[h][b] BY <1>1
<1>5. CPUBytes(c)' BY <1>2, <1>3, <1>4 DEF CPUBytes
<1>6. Drawn(c)' BY <1>2, <1>3, <1>4 DEF Drawn
<1> QED BY <1>5, <1>6 DEF Drawing

\* When the device has run everything its pair is the latest.
LEMMA DeviceCurrent ==
  ASSUME Typed, Control, Submitted, Progress, NEW c, Chain(c), Drawing(c), Flush
  PROVE  \A h \in Halves : /\ device.pair[h]["o"] = latest[h]["o"]
                           /\ raced[h] \/ device.pair[h]["c"] = latest[h]["c"]
                           /\ cpu.pc # "note"
<1>1. place = "flush" /\ queue = <<>> BY DEF Flush
<1>2. Syncing /\ staging[cur] = <<>> BY <1>1 DEF Control, Submitted
<1>3. Len(c) = 0 BY <1>1, <1>2, ChainEmpty
<1>4. ~pairKept /\ call \in {"sync", "save"} BY <1>2 DEF Control, Syncing
<1>5. CPUBytes(c) /\ Drawn(c) BY <1>4 DEF Drawing
<1>6. cpu.pc \in {"idle", "spin"}
  <2>1. CASE call = "sync" BY <1>2, <2>1 DEF Control
  <2>2. CASE call = "save"
    <3>1. cpu = Idle BY <1>1, <1>2, <2>2 DEF Control
    <3> QED BY <3>1 DEF Idle
  <2> QED BY <1>4, <2>1, <2>2
<1>7. \A h \in Halves : ~fbDirty[h] BY <1>1, <1>2 DEF Progress, Halves
<1>8. ops = <<>> BY <1>1 DEF Control, Taking
<1>9. \A h \in Halves : ~Owed(h) /\ ~Loaded(h) /\ ~OpFor(h)
  <2>1. \A h \in Halves : "o" \notin fbMask[h] BY <1>1, <1>7 DEF Progress
  <2> QED BY <1>1, <1>6, <1>7, <1>8, <2>1 DEF Owed, Loaded, OpFor
<1>10. \A h \in Halves, b \in Bytes : \A v : Ends(c, h, b, v) => device.pair[h][b] = v
  BY <1>3 DEF Ends, EndsAs
<1>11. "c" \in Bytes /\ "o" \in Bytes BY DEF Bytes
<1> QED BY <1>5, <1>6, <1>9, <1>10, <1>11 DEF CPUBytes, Drawn

LEMMA KeptStep ==
  ASSUME Typed, Control, Submitted, Progress, NEW c, Chain(c), Drawing(c), Kept, [Next]_vars
  PROVE  Kept'
<1> USE DEF memory, writes, pairs, walker, regions, gpu, history
<1>t. /\ cpu \in Accesses /\ cpu.to \in Halves /\ drawFB \in Halves /\ pair \in Pairs /\ latest \in Pairs
      /\ raced \in [Halves -> BOOLEAN] /\ "c" \in Bytes /\ "o" \in Bytes
  BY DEF Typed, Accesses, Bytes
<1>i. Idle.pc = "idle" BY DEF Idle
<1>1. CASE CPU
  <2>1. UNCHANGED <<pairKept, place, drawFB>> BY <1>1, CPUMoves
  <2>2. place # "saved"
    <3>1. line \in Nat /\ Last \in Nat BY Numbers DEF Typed
    <3>2. place = "saved" => line = Last /\ ~Syncing BY DEF Control, Syncing, Taking
    <3>3. place = "saved" => cpu = Idle BY <3>2 DEF Control
    <3> QED BY <1>1, <3>1, <3>2, <3>3, CPUMoves
  <2> SUFFICES ASSUME pairKept, NEW h \in Halves
               PROVE  /\ pair'[h]["o"] = latest'[h]["o"]
                      /\ ~raced'[h] \/ (cpu'.pc = "note" /\ cpu'.to = h) => pair'[h]["c"] = latest'[h]["c"]
    BY <2>1, <2>2 DEF Kept
  <2>3. /\ pair[h]["o"] = latest[h]["o"]
        /\ ~raced[h] \/ (cpu.pc = "note" /\ cpu.to = h) => pair[h]["c"] = latest[h]["c"]
    BY DEF Kept
  <2>4. CASE fbWriteTarget
    <3>1. /\ pair' = [pair EXCEPT ![cpu.to]["c"] = cpu.v] /\ latest' = [latest EXCEPT ![cpu.to]["c"] = cpu.v]
          /\ raced' = raced /\ cpu'.to = cpu.to
      BY <1>t, <2>4 DEF fbWriteTarget, Cpu, Accesses
    <3>2. /\ pair'[h]["o"] = pair[h]["o"] /\ latest'[h]["o"] = latest[h]["o"]
          /\ pair'[h]["c"] = IF h = cpu.to THEN cpu.v ELSE pair[h]["c"]
          /\ latest'[h]["c"] = IF h = cpu.to THEN cpu.v ELSE latest[h]["c"]
      BY <1>t, <3>1 DEF Pairs
    <3> QED BY <2>3, <3>1, <3>2
  <2>5. CASE NoteByte
    <3>1. /\ cpu.pc = "note" /\ cpu'.pc = "mask" /\ raced' = [raced EXCEPT ![cpu.to] = cpu.to # drawFB]
          /\ UNCHANGED <<pair, latest>>
      BY <1>t, <2>5 DEF NoteByte, Accesses
    <3> QED BY <1>t, <2>3, <3>1
  <2>6. CASE ~fbWriteTarget /\ ~NoteByte
    <3>1. UNCHANGED <<pair, latest, raced>>
      BY <1>1, <2>6 DEF CPU, CpuStarts, CpuContinues, WriteVRAM, WriteFB, NoteMask, NotePage
    <3>2. cpu'.pc = "note" => cpu' = cpu
      BY <1>1, <1>t, <1>i, <2>6 DEF CPU, CpuStarts, CpuContinues, WriteVRAM, WriteFB, ReadFB, NoteMask, NotePage,
         StoreRest, TestPage, MarkPage, Marked, waitPair, Cpu, Accesses
    <3> QED BY <2>3, <3>1, <3>2
  <2> QED BY <2>4, <2>5, <2>6
<1>2. CASE Takes /\ UNCHANGED <<pairs, drawFB, disp, cpu, device, history>>
  <2>1. UNCHANGED <<pairKept, pair, latest, raced, cpu>> BY <1>2
  <2>2. place' # "saved"
    <3>1. CASE submitBatch \/ advanceStaging
      <4>1. call \in {"begin", "row0", "row", "end", "sync", "save"}
        BY <3>1 DEF submitBatch, advanceStaging, Typed, Calls, Control
      <4>2. AfterSubmit \in {"page", "blank", "tick", "next", "flush"} BY <4>1 DEF AfterSubmit, RowPlace
      <4> QED BY <3>1, <4>2 DEF submitBatch, advanceStaging, Go
    <3>2. CASE TakePage \/ RenderLine \/ BlankRow \/ TakeFB \/ TakeOps
      BY <3>2 DEF TakePage, RenderLine, BlankRow, RowEnds, TakeFB, TakeOps, RowPlace
    <3>3. CASE MakeRoom /\ UNCHANGED <<memory, writes, walker, ops>> BY <3>3 DEF MakeRoom
    <3> QED BY <1>2, <3>1, <3>2, <3>3 DEF Takes
  <2> QED BY <2>1, <2>2 DEF Kept
<1>3. CASE Lines /\ UNCHANGED <<memory, writes, cpu, regions, gpu, complete, raced>>
  <2>1. CASE Tick
    <3>1. UNCHANGED <<pairKept, cpu, raced>> /\ place' # "saved"
      BY <1>3, <2>1 DEF Tick, Call
    <3>2. CASE UNCHANGED <<latest, pair>> BY <3>1, <3>2 DEF Kept
    <3>3. CASE latest' = [latest EXCEPT ![drawFB]["o"] = version'] /\
               pair' = IF pairKept THEN [pair EXCEPT ![drawFB]["o"] = version'] ELSE pair
      <4> SUFFICES ASSUME pairKept, NEW h \in Halves
                   PROVE  /\ pair'[h]["o"] = latest'[h]["o"]
                          /\ ~raced'[h] \/ (cpu'.pc = "note" /\ cpu'.to = h) => pair'[h]["c"] = latest'[h]["c"]
        BY <3>1 DEF Kept
      <4>1. /\ pair'[h]["c"] = pair[h]["c"] /\ latest'[h]["c"] = latest[h]["c"]
            /\ pair'[h]["o"] = IF h = drawFB THEN version' ELSE pair[h]["o"]
            /\ latest'[h]["o"] = IF h = drawFB THEN version' ELSE latest[h]["o"]
        BY <1>t, <3>3 DEF Pairs
      <4> QED BY <3>1, <4>1 DEF Kept
    <3> QED BY <2>1, <3>2, <3>3 DEF Tick
  <2>2. CASE Flush
    <3>1. pair' = device.pair /\ UNCHANGED <<latest, raced, cpu>> BY <1>3, <2>2 DEF Flush
    <3> QED BY <2>2, <3>1, DeviceCurrent DEF Kept
  <2>3. CASE ~Tick /\ ~Flush
    <3>1. UNCHANGED <<latest, raced, cpu, pair, pairKept>>
      BY <1>3, <2>3, LinesSame
    <3>2. place' # "saved"
      BY <1>3, <2>3 DEF Lines, WaitEnds, servicePair, Change, NextLine, BeginFrame, Serialize, Call, Go
    <3> QED BY <3>1, <3>2 DEF Kept
  <2> QED BY <2>1, <2>2, <2>3
<1>4. CASE Deserialize
  <2>1. pair' = [h \in Halves |-> [b \in Bytes |-> version']] /\ latest' = pair'
    BY <1>4 DEF Deserialize
  <2> QED BY <2>1 DEF Kept
<1>5. CASE Device \/ UNCHANGED vars BY <1>5 DEF Device, vars, Kept
<1> QED BY <1>1, <1>2, <1>3, <1>4, <1>5 DEF Next, Walker

-----------------------------------------------------------------------------
(* The theorems.                                                           *)

LEMMA HoldsParts == ASSUME NEW c PROVE Holds(c) <=> Chain(c) /\ Pages(c) /\ Drawing(c)
BY DEF Holds, Pages, Drawing

LEMMA ConcatOne ==
  ASSUME NEW s \in Seq(Recs), NEW o \in Seq(Recs), Len(o) = 1
  PROVE  s \o o = Append(s, o[1])
<1>1. o[1] \in Recs OBVIOUS
<1>2. <<o[1]>> \in Seq(Recs) /\ Len(<<o[1]>>) = 1 BY <1>1
<1>3. o = <<o[1]>> BY <1>2, SeqEqual
<1>4. Append(s, o[1]) = s \o <<o[1]>> BY <1>1, AppendIsConcat
<1> QED BY <1>3, <1>4

LEMMA HoldsTakes ==
  ASSUME State, NEW c, Holds(c), Takes, UNCHANGED <<pairs, drawFB, disp, cpu, device, history>>
  PROVE  \E d : Holds(d)'
<1> USE DEF memory, writes, pairs, regions, gpu, history
<1>s. Typed /\ Control /\ Submitted /\ Progress /\ Stored BY DEF State
<1>c. Chain(c) /\ Pages(c) /\ Drawing(c) /\ c \in Seq(Recs) BY HoldsParts DEF Chain, Flat
<1>h. ASSUME NEW d, Chain(d)', Pages(d)', Drawing(d)' PROVE Holds(d)'
  BY <1>h DEF Holds, Pages, Drawing
<1>1. CASE TakePage /\ UNCHANGED <<mem, writes, ops, queue, regions>>
  <2>1. /\ place \in {"page", "copy"} /\ place' \in {"copy", "row"} /\ half' = half
    BY <1>1 DEF TakePage
  <2>2. Chain(c)' BY <1>1, <1>c, <2>1, ChainSame
  <2>3. Pages(c)' BY <1>1, <1>c, <1>s, PagesTake
  <2>4. \A h \in Halves : (Owed(h) => Owed(h)') /\ (Loaded(h)' <=> Loaded(h))
    BY <1>1, <2>1 DEF Owed, Loaded
  <2>5. Drawing(c)' BY <1>1, <1>c, <2>4, DrawingSame
  <2> QED BY <1>h, <2>2, <2>3, <2>5
<1>2. CASE RenderLine /\ UNCHANGED <<mem, writes, ops, queue>>
  <2>0. PICK rec : rec = [kind |-> "row", page |-> got, least |-> due] OBVIOUS
  <2>1. /\ place = "row" /\ place' \in {"submit", "tick", "next"}
        /\ staging' = [staging EXCEPT ![cur] = Append(@, rec)] /\ UNCHANGED <<queue, cur>>
    BY <1>2, <2>0 DEF RenderLine, RowEnds, Put
  <2>2. rec \in Recs /\ rec.kind = "row" BY <1>c, <1>s, <2>0, <2>1, TakenRecords DEF Pages
  <2>3. Chain(Append(c, rec))' BY <1>c, <1>s, <2>1, <2>2, ChainAppend
  <2>4. Pages(Append(c, rec))' BY <1>2, <1>c, <1>s, <2>0, <2>2, PagesRow
  <2>5. Drawing(Append(c, rec))' BY <1>2, <1>c, <2>1, <2>2, DrawingRow
  <2> QED BY <1>h, <2>3, <2>4, <2>5
<1>3. CASE TakeFB /\ UNCHANGED <<memory, ops, queue>>
  <2>1. CASE place = "shadow"
    <3>0. PICK rec : rec = [kind |-> "fb", half |-> half, mask |-> got, bytes |-> shadow[half]] OBVIOUS
    <3>1. /\ place' \in {"dirty", "ops"} /\ UNCHANGED <<fbMask, fbDirty, shadow, queue, cur, ops>>
          /\ staging' = [staging EXCEPT ![cur] = Append(@, rec)]
      BY <1>3, <2>1, <3>0 DEF TakeFB, Put
    <3>2. rec \in Recs /\ rec.kind = "fb" BY <1>c, <1>s, <2>1, <3>0, TakenRecords DEF Pages
    <3>3. Chain(Append(c, rec))' BY <1>c, <1>s, <2>1, <3>1, <3>2, ChainAppend
    <3>4. Pages(Append(c, rec))' BY <1>3, <1>c, <2>1, <3>1, <3>2, PagesOther DEF memory
    <3>5. Drawing(Append(c, rec))' BY <1>3, <1>c, <1>s, <2>1, <3>0, <3>1, <3>2, DrawingBytes
    <3> QED BY <1>h, <3>3, <3>4, <3>5
  <2>2. CASE place # "shadow"
    <3>1. /\ UNCHANGED <<staging, queue, cur, dirty, shadow, ops>>
          /\ place \in {"dirty", "mask"} /\ place' \in {"dirty", "mask", "shadow", "ops"}
      BY <1>3, <2>2 DEF TakeFB
    <3>2. Chain(c)' BY <1>c, <3>1, ChainSame
    <3>3. Pages(c)' BY <1>c, <3>1, PagesSame
    <3>4. Drawing(c)' BY <1>3, <1>c, <1>s, <2>2, <3>1, DrawingMarks
    <3> QED BY <1>h, <3>2, <3>3, <3>4
  <2> QED BY <2>1, <2>2
<1>4. CASE TakeOps /\ UNCHANGED <<memory, writes, queue>>
  <2>1. /\ place = "ops" /\ place' \in {"page", "blank", "next", "submit"} /\ ops' = <<>>
        /\ staging' = [staging EXCEPT ![cur] = @ \o ops] /\ UNCHANGED <<cur, queue, got, due>>
    BY <1>4 DEF TakeOps, RowPlace
  <2>2. /\ staging \in [1..Regions -> Seq(Recs)] /\ cur \in 1..Regions /\ ops \in Seq(OpRecs) /\ Len(ops) <= 1
    BY <1>s DEF Typed
  <2>3. CASE ops = <<>>
    <3>1. staging[cur] \o ops = staging[cur] BY <2>2, <2>3
    <3>2. staging' = staging BY <2>1, <2>2, <3>1
    <3>3. Chain(c)' BY <1>c, <2>1, <3>2, ChainSame
    <3>4. Pages(c)' BY <1>4, <1>c, <2>1, PagesSame
    <3>5. \A h \in Halves : (Owed(h) => Owed(h)') /\ (Loaded(h)' <=> Loaded(h))
      BY <1>4, <2>1 DEF Owed, Loaded
    <3>6. Drawing(c)' BY <1>4, <1>c, <2>1, <2>3, <3>5, DrawingSame
    <3> QED BY <1>h, <3>3, <3>4, <3>6
  <2>4. CASE ops # <<>>
    <3>1. Len(ops) = 1 /\ ops[1] \in OpRecs
      <4>1. ops \in Seq(OpRecs) /\ Len(ops) \in Nat /\ Len(ops) <= 1 BY <2>2
      <4>2. Len(ops) # 0 BY <2>4, <4>1, EmptySeq
      <4>a. \A n \in Nat : n <= 1 /\ n # 0 => n = 1 OBVIOUS
      <4>3. Len(ops) = 1 BY <4>1, <4>2, <4>a, Zenon
      <4>4. 1 \in 1..Len(ops) BY <4>3
      <4>5. \A i \in 1..Len(ops) : ops[i] \in OpRecs
        <5> DEFINE S == OpRecs
        <5>1. ops \in Seq(S) BY <4>1
        <5> HIDE DEF S
        <5>2. \A i \in 1..Len(ops) : ops[i] \in S BY <5>1
        <5> QED BY <5>2 DEF S
      <4> QED BY <4>3, <4>4, <4>5
    <3>2. PICK rec \in OpRecs : rec = ops[1] BY <3>1
    <3>3. rec \in Recs /\ rec.kind = "op" BY DEF Recs, OpRecs
    <3>4. staging[cur] \o ops = Append(staging[cur], rec)
      <4>1. staging[cur] \in Seq(Recs) /\ ops \in Seq(Recs)
        <5>1. OpRecs \subseteq Recs BY DEF Recs
        <5>2. ops \in Seq(OpRecs) BY <2>2
        <5>3. ops \in Seq(Recs) BY <5>1, <5>2
        <5> QED BY <2>2, <5>3
      <4>2. staging[cur] \o ops = Append(staging[cur], ops[1]) BY <3>1, <4>1, ConcatOne
      <4> QED BY <3>2, <4>2
    <3>5. staging' = [staging EXCEPT ![cur] = Append(@, rec)] BY <2>1, <2>2, <3>4
    <3>6. Chain(Append(c, rec))' BY <1>c, <1>s, <2>1, <3>3, <3>5, ChainAppend
    <3>7. Pages(Append(c, rec))' BY <1>4, <1>c, <2>1, <3>3, PagesOther DEF memory
    <3>8. Drawing(Append(c, rec))' BY <1>4, <1>c, <1>s, <2>1, <2>4, <3>2, DrawingOp
    <3> QED BY <1>h, <3>6, <3>7, <3>8
  <2> QED BY <2>3, <2>4
<1>5. CASE (submitBatch \/ advanceStaging) /\ UNCHANGED <<memory, writes, ops>>
  <2>0. call \in {"begin", "row0", "row", "end", "sync", "save"}
    BY <1>5, <1>s DEF submitBatch, advanceStaging, Typed, Calls, Control
  <2>a. AfterSubmit \in {"page", "blank", "tick", "next", "flush"} BY <2>0 DEF AfterSubmit, RowPlace
  <2>1. /\ place \in {"submit", "advance"} /\ UNCHANGED <<got, half>>
        /\ place' \in {"advance", "page", "blank", "tick", "next", "flush"}
    BY <1>5, <2>a DEF submitBatch, advanceStaging, Go
  <2>2. Chain(c)'
    <3>1. CASE submitBatch /\ staging[cur] = <<>>
      <4>1. place = "submit" /\ place' # "advance" /\ UNCHANGED <<staging, queue, cur>>
        BY <2>a, <3>1 DEF submitBatch, Go
      <4> QED BY <1>c, <4>1, ChainSame
    <3>2. CASE submitBatch /\ staging[cur] # <<>>
      <4>1. place = "submit" /\ place' = "advance" /\ staging' = staging /\ queue' = Append(queue, cur)
        BY <3>2 DEF submitBatch, Go
      <4> QED BY <1>c, <1>s, <4>1, ChainSubmit
    <3>3. CASE advanceStaging
      <4>1. /\ place = "advance" /\ ~InUse /\ place' # "advance" /\ UNCHANGED <<queue, cur>>
            /\ staging' = [staging EXCEPT ![cur] = <<>>]
        BY <2>a, <3>3 DEF advanceStaging, Go
      <4> QED BY <1>c, <1>s, <4>1, ChainAdvance
    <3> QED BY <1>5, <3>1, <3>2, <3>3
  <2>3. Pages(c)' BY <1>5, <1>c, <2>1, PagesSame
  <2>4. \A h \in Halves : (Owed(h) => Owed(h)') /\ (Loaded(h)' <=> Loaded(h))
    BY <1>5, <2>1 DEF Owed, Loaded
  <2>5. Drawing(c)' BY <1>5, <1>c, <2>4, DrawingSame
  <2> QED BY <1>h, <2>2, <2>3, <2>5
<1>6. CASE BlankRow /\ UNCHANGED <<memory, writes, ops, queue, regions>>
  <2>1. /\ place = "blank" /\ UNCHANGED <<got, half, staging, queue, cur>>
        /\ place' \in {"submit", "tick", "next"}
    BY <1>6 DEF BlankRow, RowEnds
  <2>2. Chain(c)' BY <1>c, <2>1, ChainSame
  <2>3. Pages(c)' BY <1>6, <1>c, <2>1, PagesSame
  <2>4. \A h \in Halves : (Owed(h) => Owed(h)') /\ (Loaded(h)' <=> Loaded(h))
    BY <1>6, <2>1 DEF Owed, Loaded
  <2>5. Drawing(c)' BY <1>6, <1>c, <2>4, DrawingSame
  <2> QED BY <1>h, <2>2, <2>3, <2>5
<1>7. CASE MakeRoom /\ UNCHANGED <<memory, writes, walker, ops>>
  <2>1. UNCHANGED <<place, got, due, half>> BY <1>7 DEF walker
  <2>2. Chain(c)' BY <1>7, <1>c, <1>s, <2>1, ChainRoom
  <2>3. Pages(c)' BY <1>7, <1>c, <2>1, PagesSame
  <2>4. \A h \in Halves : (Owed(h) => Owed(h)') /\ (Loaded(h)' <=> Loaded(h))
    BY <1>7, <2>1 DEF Owed, Loaded
  <2>5. Drawing(c)' BY <1>7, <1>c, <2>4, DrawingSame
  <2> QED BY <1>h, <2>2, <2>3, <2>5
<1> QED BY <1>1, <1>2, <1>3, <1>4, <1>5, <1>6, <1>7 DEF Takes

LEMMA HoldsStep ==
  ASSUME State, NEW c, Holds(c), [Next]_vars
  PROVE  \E d : Holds(d)'
<1> USE DEF memory, writes, pairs, regions, gpu, history
<1>s. Typed /\ Control /\ Submitted /\ Progress /\ Stored BY DEF State
<1>c. Chain(c) /\ Pages(c) /\ Drawing(c) /\ c \in Seq(Recs) BY HoldsParts DEF Chain, Flat
<1>h. ASSUME NEW d, Chain(d)', Pages(d)', Drawing(d)' PROVE Holds(d)'
  BY <1>h DEF Holds, Pages, Drawing
<1>1. CASE CPU
  <2>1. Chain(c)' BY <1>1, <1>c, <1>s, QuietSteps, ChainSame
  <2>2. UNCHANGED <<place, got, due, device>> BY <1>1, <1>s, CPUMoves
  <2>3. /\ dirty => dirty'
        /\ ~dirty' => complete' = complete
    BY <1>1 DEF CPU, CpuStarts, CpuContinues, WriteVRAM, WriteFB, StoreRest, TestPage, MarkPage, Marked,
                fbWriteTarget, NoteByte, NoteMask, NotePage
  <2>4. Pages(c)' BY <1>c, <2>2, <2>3, PagesSame
  <2>5. Drawing(c)' BY <1>1, <1>c, <1>s, DrawingCPU
  <2> QED BY <1>h, <2>1, <2>4, <2>5
<1>2. CASE Takes /\ UNCHANGED <<pairs, drawFB, disp, cpu, device, history>>
  BY <1>2, HoldsTakes
<1>3. CASE Lines /\ UNCHANGED <<memory, writes, cpu, regions, gpu, complete, raced>>
  <2>1. Chain(c)' BY <1>3, <1>c, <1>s, QuietSteps, ChainSame
  <2>2. place \notin {"copy", "row"} /\ place' \notin {"copy", "row"}
    <3>1. CASE Tick BY <3>1 DEF Tick, Call
    <3>2. CASE ~Tick BY <1>3, <1>s, <3>2, LinesSame
    <3> QED BY <3>1, <3>2
  <2>3. Pages(c)' BY <1>3, <1>c, <2>2, PagesSame
  <2>4. Drawing(c)' BY <1>3, <1>c, <1>s, DrawingLines
  <2> QED BY <1>h, <2>1, <2>3, <2>4
<1>4. CASE Deserialize
  <2>1. Chain(c)' BY <1>4, <1>c, <1>s, QuietSteps, ChainSame
  <2>2. UNCHANGED <<device, place, got, due>> /\ dirty' = TRUE BY <1>4 DEF Deserialize, walker
  <2>3. Pages(c)' BY <1>c, <2>2, PagesSame
  <2>4. Drawing(c)' BY <1>4, <1>s, DrawingLoad
  <2> QED BY <1>h, <2>1, <2>3, <2>4
<1>5. CASE Device
  <2>1. /\ queue # <<>> /\ device' = Applied(device, Running)
        /\ staging' = [staging EXCEPT ![Head(queue)] = Tail(@)]
        /\ queue' = IF Len(staging[Head(queue)]) = 1 THEN Tail(queue) ELSE queue
        /\ UNCHANGED <<mem, dirty, pair, pairKept, pairRequest, drawFB, shadow, fbMask, fbDirty, cpu,
                       place, line, call, half, got, due, ops, cur, version, complete, latest, raced>>
    BY <1>5, <1>s, DeviceRuns
  <2>2. c # <<>> /\ Head(c) = Running /\ Chain(Tail(c))' BY <1>c, <1>s, <2>1, ChainDevice
  <2>3. device' = Applied(device, Head(c)) BY <2>1, <2>2
  <2>4. Pages(Tail(c))' BY <1>c, <1>s, <2>1, <2>2, <2>3, PagesDevice
  <2>5. Drawing(Tail(c))' BY <1>c, <1>s, <2>1, <2>2, <2>3, DrawingDevice
  <2> QED BY <1>h, <2>2, <2>4, <2>5
<1>6. CASE UNCHANGED vars
  <2>1. UNCHANGED <<staging, queue, cur, device, place, half, got, due, ops, dirty, complete, latest, raced,
                    pairKept, shadow, fbMask, fbDirty, cpu>>
    BY <1>6 DEF vars, walker
  <2>2. Chain(c)' BY <1>c, <2>1, ChainSame
  <2>3. Pages(c)' BY <1>c, <2>1, PagesSame
  <2>4. \A h \in Halves : (Owed(h) => Owed(h)') /\ (Loaded(h)' <=> Loaded(h))
    BY <2>1 DEF Owed, Loaded
  <2>5. Drawing(c)' BY <1>c, <2>1, <2>4, DrawingSame
  <2> QED BY <1>h, <2>2, <2>3, <2>5
<1> QED BY <1>1, <1>2, <1>3, <1>4, <1>5, <1>6 DEF Next, Walker

LEMMA InvInit == Init => IInv
<1> SUFFICES ASSUME Init PROVE IInv OBVIOUS
<1>0. 0 \in Versions /\ Last \in Nat /\ Active \in 2 .. Last /\ Regions \in Nat /\ Regions >= 2
  BY Numbers DEF Versions
<1>1. Typed
  <2>1. Nothing \in [Cells -> Versions] /\ [h \in Halves |-> Blank] \in Pairs
    BY <1>0 DEF Nothing, Blank, Pairs
  <2>2. cpu \in Accesses BY IdleAccess DEF Init
  <2>3. staging \in [1..Regions -> Seq(Recs)] /\ queue \in Seq(1..Regions) /\ cur \in 1..Regions
    BY <1>0 DEF Init
  <2>4. ops \in Seq(OpRecs) /\ Len(ops) <= 1 BY DEF Init
  <2>5. device \in [mem : [Cells -> Versions], pair : Pairs] BY <2>1 DEF Init
  <2>6. line \in 0..Last /\ place \in Places /\ call \in Calls /\ half \in Halves
    BY <1>0 DEF Init, Places, Calls, Halves
  <2> QED BY <1>0, <2>1, <2>2, <2>3, <2>4, <2>5, <2>6 DEF Init, Typed, Halves
<1>2. Control BY DEF Init, Control, Syncing, Taking, Idle
<1>3. Submitted BY DEF Init, Submitted
<1>4. Progress BY DEF Init, Progress, Syncing, Taking
<1>5. Stored BY <1>0 DEF Init, Stored, Nothing, Idle, Cells
<1>6. Kept BY DEF Init, Kept
<1>7. Chain(<<>>)
  <2>1. N = 1 /\ Region(1) = <<>> BY <1>0 DEF Init, N, Region
  <2>2. Len(Regs) = 1 /\ Regs[1] = <<>> BY <1>1, <2>1, RegsType DEF Regs
  <2> DEFINE off == [i \in 1..2 |-> 0]
  <2> DEFINE e == <<>>
  <2>3. e \in Seq(Recs) /\ Len(e) = 0 OBVIOUS
  <2>4. Laid(e, Regs, off) BY <2>2, <2>3 DEF Laid
  <2> QED BY <2>3, <2>4 DEF Chain, Flat
<1>8. Holds(<<>>)
  <2>1. Rows(<<>>) BY DEF Rows
  <2>2. Clean(<<>>) /\ Taken(<<>>) BY DEF Init, Clean, Taken
  <2>3. \A h \in Halves, b \in Bytes : Ends(<<>>, h, b, 0)
    BY DEF Init, Ends, EndsAs, Blank
  <2>4. \A h \in Halves, b \in Bytes : shadow[h][b] = 0 /\ latest[h][b] = 0 BY DEF Init, Blank
  <2>5. "c" \in Bytes /\ "o" \in Bytes BY DEF Bytes
  <2>6. CPUBytes(<<>>) BY <2>3, <2>4, <2>5 DEF CPUBytes
  <2>7. \A h \in Halves : ~OpFor(h) /\ ~Loaded(h) BY DEF Init, OpFor, Loaded
  <2>8. Drawn(<<>>) BY <2>3, <2>4, <2>5, <2>7 DEF Drawn
  <2> QED BY <1>7, <2>1, <2>2, <2>6, <2>8 DEF Holds
<1> QED BY <1>1, <1>2, <1>3, <1>4, <1>5, <1>6, <1>8 DEF IInv, State

\* A step preserves the invariant.
LEMMA InvStep == IInv /\ [Next]_vars => IInv'
<1> SUFFICES ASSUME IInv, [Next]_vars PROVE IInv' OBVIOUS
<1>1. PICK c : Holds(c) BY DEF IInv
<1>2. State /\ Typed /\ Control /\ Submitted /\ Progress /\ Stored /\ Kept BY DEF IInv, State
<1>3. Typed' BY <1>1, <1>2, TypedStep
<1>4. Control' /\ Submitted' /\ Progress' /\ Stored'
  BY <1>2, ControlStep, SubmittedStep, ProgressStep, StoredStep
<1>5. Kept' BY <1>1, <1>2, KeptStep, HoldsParts
<1>6. \E d : Holds(d)' BY <1>1, <1>2, HoldsStep
<1> QED BY <1>3, <1>4, <1>5, <1>6 DEF IInv, State

LEMMA Inductive == Spec => []IInv
BY InvInit, InvStep, PTL DEF Spec

\* The CPU pair holds every write and every completed operation whenever it is
\* read or saved (waitPair, syncPair), with any number of staging regions,
\* lines and versions.
THEOREM PairCurrent == Spec => []PairIsCurrent
<1>1. IInv => PairIsCurrent
  <2> SUFFICES ASSUME IInv, pairKept \/ place = "saved", NEW h \in Halves, ~raced[h]
               PROVE  pair[h] = latest[h]
    BY DEF PairIsCurrent
  <2>1. pair[h] \in [Bytes -> Versions] /\ latest[h] \in [Bytes -> Versions] BY DEF IInv, State, Typed, Pairs
  <2>2. pair[h]["o"] = latest[h]["o"] /\ pair[h]["c"] = latest[h]["c"] BY DEF IInv, State, Kept
  <2> QED BY <2>1, <2>2 DEF Bytes
<1> QED BY <1>1, Inductive, PTL

\* A row is rendered from memory at least as new as every write that was
\* complete when the row was taken (takePages, renderLine, submitBatch).
THEOREM RowCurrent == Spec => RowIsCurrent
<1> DEFINE Runs == Device /\ staging[Head(queue)] # <<>> /\ Running.kind = "row"
                     => \A c \in Cells : device'.mem[c] >= Running.least
<1>1. ASSUME IInv PROVE Runs
  <2> SUFFICES ASSUME Device, staging[Head(queue)] # <<>>, Running.kind = "row"
               PROVE  \A x \in Cells : device'.mem[x] >= Running.least
    OBVIOUS
  <2>1. PICK c : Chain(c) /\ Rows(c) BY <1>1 DEF IInv, Holds
  <2>2. Typed /\ Submitted BY <1>1 DEF IInv, State
  <2>3. /\ queue # <<>> /\ device' = Applied(device, Running)
        /\ staging' = [staging EXCEPT ![Head(queue)] = Tail(@)]
        /\ queue' = IF Len(staging[Head(queue)]) = 1 THEN Tail(queue) ELSE queue
        /\ place' = place /\ cur' = cur
    BY <2>2, DeviceRuns
  <2>4. c # <<>> /\ Head(c) = Running BY <2>1, <2>2, <2>3, ChainDevice
  <2>5. c \in Seq(Recs) BY <2>1 DEF Chain, Flat
  <2>6. 1 \in 1..Len(c) /\ Running = c[1] /\ Running \in Recs BY <2>4, <2>5, TailIndex
  <2>7. IF Running.page = {} THEN NewBefore(c, 1, Running.least) ELSE AsNew(Running.page, Running.least)
    BY <2>1, <2>6 DEF Rows
  <2>8. CASE Running.page = {}
    <3>1. device'.mem = device.mem BY <2>2, <2>3, <2>6, <2>8, AppliedMem DEF HasPage
    <3>2. \A x \in Cells : device.mem[x] >= Running.least
      <4>1. \A k \in 1..Len(c) : ~(k < 1) OBVIOUS
      <4> QED BY <2>7, <2>8, <4>1 DEF NewBefore, NewAt
    <3> QED BY <3>1, <3>2
  <2>9. CASE Running.page # {}
    <3>1. HasPage(Running) /\ AsNew(Running.page, Running.least) BY <2>7, <2>9 DEF HasPage
    <3> QED BY <2>2, <2>3, <2>6, <3>1, AppliedMem
  <2> QED BY <2>8, <2>9
<1>2. IInv => [Runs]_vars BY <1>1
<1> QED BY <1>2, Inductive, PTL DEF RowIsCurrent
=============================================================================
