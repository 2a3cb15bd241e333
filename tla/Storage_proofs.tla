--------------------------- MODULE Storage_proofs ---------------------------
(***************************************************************************)
(* Proofs about what the console stores.  CDBuffer: where the filters      *)
(* route a sector, the room in the buffer, and what the host's transfers   *)
(* take out of it.  BackupRAM: no block belongs to two files, because the  *)
(* block list that a write lays out is the one that is read back, and to a *)
(* game the blocks are the named files of SaveFiles.                       *)
(***************************************************************************)
EXTENDS CDBuffer, BackupRAM, SequenceTheorems, FiniteSetTheorems, TLAPS

-----------------------------------------------------------------------------
(* Induction, stated for sets of numbers and sets of subsets, and recursion  *)
(* along a range of numbers.                                                 *)

LEMMA LeastNumber ==
  ASSUME NEW T \in SUBSET Nat, T # {}
  PROVE  \E x \in T : \A y \in T : x <= y
<1>1. PICK R : IsWellFoundedOn(R, Nat) /\ \A x, y \in Nat : y < x => <<y, x>> \in R
  <2> DEFINE Q == OpToRel(<, Nat)
  <2>1. IsWellFoundedOn(Q, Nat)
    BY NatLessThanWellFounded
  <2>2. \A x, y \in Nat : y < x => <<y, x>> \in Q
    BY DEF OpToRel
  <2> HIDE DEF Q
  <2> QED
    BY <2>1, <2>2
<1>2. PICK x \in T : \A y \in T : <<y, x>> \notin R
  BY <1>1, WFMin
<1>3. ASSUME NEW y \in T PROVE x <= y
  <2>1. x \in Nat /\ y \in Nat
    OBVIOUS
  <2>2. ~(y < x)
    BY <1>1, <1>2, <2>1
  <2> QED
    BY <2>1, <2>2
<1> QED
  BY <1>3

LEMMA Numbers ==
  ASSUME NEW T, 0 \in T, \A n \in Nat : n \in T => n + 1 \in T
  PROVE  \A n \in Nat : n \in T
<1> SUFFICES ASSUME Nat \ T # {} PROVE FALSE
  OBVIOUS
<1>1. PICK x \in Nat \ T : \A y \in Nat \ T : x <= y
  BY LeastNumber
<1>2. x # 0
  BY <1>1
<1>3. x - 1 \in Nat /\ x - 1 \in T /\ (x - 1) + 1 = x
  BY <1>1, <1>2
<1> QED
  BY <1>1, <1>3

LEMMA Subsets ==
  ASSUME NEW D, IsFiniteSet(D), NEW T, {} \in T,
         \A s \in SUBSET D : s # {} /\ (\A x \in s : s \ {x} \in T) => s \in T
  PROVE  \A s \in SUBSET D : s \in T
<1> DEFINE K == {k \in Nat : \A s \in SUBSET D : Cardinality(s) = k => s \in T}
<1>1. 0 \in K
  <2>1. \A s \in SUBSET D : Cardinality(s) = 0 => s = {}
    BY FS_Subset, FS_EmptySet
  <2> QED
    BY <2>1
<1>2. ASSUME NEW n \in Nat, n \in K PROVE n + 1 \in K
  <2> SUFFICES ASSUME NEW s \in SUBSET D, Cardinality(s) = n + 1 PROVE s \in T
    OBVIOUS
  <2>1. IsFiniteSet(s)
    BY FS_Subset
  <2>2. s # {}
    BY <2>1, FS_EmptySet
  <2>4. ASSUME NEW x \in s PROVE s \ {x} \in T
    <3>1. Cardinality(s \ {x}) = (n + 1) - 1 /\ s \ {x} \in SUBSET D
      BY <2>1, FS_RemoveElement
    <3> QED
      BY <1>2, <3>1
  <2> QED
    BY <2>2, <2>4
<1>3. \A n \in Nat : n \in K
  <2> HIDE DEF K
  <2> QED
    BY <1>1, <1>2, Numbers
<1> SUFFICES ASSUME NEW s \in SUBSET D PROVE s \in T
  OBVIOUS
<1>4. Cardinality(s) \in Nat
  BY FS_Subset, FS_CardinalityType
<1>5. Cardinality(s) \in K
  BY <1>3, <1>4
<1> QED
  BY <1>5

(* The values f goes through from a in N steps.                              *)
Iteration(f, N, S, a, step) ==
  f \in [0 .. N -> S] /\ f[0] = a /\ \A n \in 1 .. N : f[n] = step[n][f[n - 1]]

LEMMA Iterates ==
  ASSUME NEW N \in Nat, NEW S, NEW a \in S, NEW step \in [1 .. N -> [S -> S]]
  PROVE  \E f : Iteration(f, N, S, a, step)
<1> DEFINE Upto(k, f) == f \in [0 .. k -> S] /\ f[0] = a /\ \A n \in 1 .. k : f[n] = step[n][f[n - 1]]
           T == {k \in Nat : k <= N => \E f : Upto(k, f)}
<1>1. 0 \in T
  <2>1. Upto(0, [n \in 0 .. 0 |-> a])
    OBVIOUS
  <2> QED
    BY <2>1
<1>2. ASSUME NEW k \in Nat, k \in T PROVE k + 1 \in T
  <2> SUFFICES ASSUME k + 1 <= N PROVE \E f : Upto(k + 1, f)
    OBVIOUS
  <2>1. PICK f : Upto(k, f)
    BY <1>2
  <2> DEFINE g == [n \in 0 .. k + 1 |-> IF n = k + 1 THEN step[k + 1][f[k]] ELSE f[n]]
  <2>2. f[k] \in S /\ step[k + 1] \in [S -> S]
    BY <2>1
  <2>3. g \in [0 .. k + 1 -> S] /\ g[0] = a
    BY <2>1, <2>2
  <2>4. ASSUME NEW n \in 1 .. k + 1 PROVE g[n] = step[n][g[n - 1]]
    <3>1. CASE n = k + 1
      <4>1. n - 1 = k /\ k \in 0 .. k + 1 /\ k # k + 1 /\ k + 1 \in 0 .. k + 1
        BY <3>1
      <4>2. g[n - 1] = f[k] /\ g[n] = step[k + 1][f[k]]
        BY <3>1, <4>1
      <4> QED
        BY <3>1, <4>2
    <3>2. CASE n # k + 1
      <4>1. n \in 1 .. k /\ n \in 0 .. k + 1 /\ n - 1 \in 0 .. k + 1 /\ n - 1 # k + 1
        BY <3>2
      <4>2. g[n] = f[n] /\ g[n - 1] = f[n - 1]
        BY <3>2, <4>1
      <4>3. f[n] = step[n][f[n - 1]]
        BY <2>1, <4>1
      <4> QED
        BY <4>2, <4>3
    <3> QED
      BY <3>1, <3>2
  <2> HIDE DEF g
  <2>5. Upto(k + 1, g)
    BY <2>3, <2>4
  <2> QED
    BY <2>5
<1>3. N \in T
  <2> HIDE DEF T
  <2> QED
    BY <1>1, <1>2, Numbers
<1>4. PICK f : Upto(N, f)
  BY <1>3
<1> QED
  BY <1>4 DEF Iteration

-----------------------------------------------------------------------------
(* Sums over a finite set                                                    *)

First(s) == CHOOSE x \in s : TRUE

(* The values the sum goes through, one for each subset.                     *)
IsPartialSum(g, D, w) ==
  g = [s \in SUBSET D |-> IF s = {} THEN 0 ELSE w[First(s)] + g[s \ {First(s)}]]

LEMMA PartialSums ==
  ASSUME NEW D, IsFiniteSet(D), NEW w \in [D -> Int]
  PROVE  \E g \in [SUBSET D -> Int] : IsPartialSum(g, D, w)
<1> DEFINE N == Cardinality(D)
           S == [SUBSET D -> Int]
           next(h) == [s \in SUBSET D |-> IF s = {} THEN 0 ELSE w[First(s)] + h[s \ {First(s)}]]
           step == [n \in 1 .. N |-> [h \in S |-> next(h)]]
           zero == [s \in SUBSET D |-> 0]
<1>1. \A s \in SUBSET D : s # {} => First(s) \in s /\ First(s) \in D /\ s \ {First(s)} \in SUBSET D
  BY DEF First
<1>2. ASSUME NEW h \in S PROVE next(h) \in S
  <2> SUFFICES ASSUME NEW s \in SUBSET D, s # {} PROVE w[First(s)] + h[s \ {First(s)}] \in Int
    OBVIOUS
  <2>1. w[First(s)] \in Int /\ h[s \ {First(s)}] \in Int
    BY <1>1
  <2> QED
    BY <2>1
<1>3. N \in Nat /\ zero \in S
  BY FS_CardinalityType
<1>4. step \in [1 .. N -> [S -> S]]
  <2> HIDE DEF next, S, N
  <2> QED
    BY <1>2
<1>5. PICK f : Iteration(f, N, S, zero, step)
  <2>1. \E f : Iteration(f, N, S, zero, step)
    <3> HIDE DEF step, S, N, zero
    <3> QED
      BY <1>3, <1>4, Iterates
  <2> HIDE DEF step, S, N, zero
  <2> QED
    BY <2>1
<1>6. \A s \in SUBSET D : Cardinality(s) \in 0 .. N
  BY <1>3, FS_Subset, FS_CardinalityType
<1> DEFINE g == [s \in SUBSET D |-> f[Cardinality(s)][s]]
<1>7. g \in S
  <2> SUFFICES ASSUME NEW s \in SUBSET D PROVE f[Cardinality(s)][s] \in Int
    OBVIOUS
  <2>1. f[Cardinality(s)] \in S
    BY <1>5, <1>6 DEF Iteration
  <2> QED
    BY <2>1
<1>8. ASSUME NEW s \in SUBSET D
      PROVE  g[s] = IF s = {} THEN 0 ELSE w[First(s)] + g[s \ {First(s)}]
  <2>1. CASE s = {}
    BY <2>1, <1>5, FS_EmptySet DEF Iteration
  <2>2. CASE s # {}
    <3>1. IsFiniteSet(s) /\ First(s) \in s /\ s \ {First(s)} \in SUBSET D
      BY <1>1, <2>2, FS_Subset
    <3>2. Cardinality(s) \in 1 .. N /\ Cardinality(s \ {First(s)}) = Cardinality(s) - 1
      <4>1. Cardinality(s) # 0
        BY <2>2, <3>1, FS_EmptySet
      <4>2. Cardinality(s) \in 0 .. N
        BY <1>6
      <4>3. Cardinality(s \ {First(s)}) = Cardinality(s) - 1
        BY <3>1, FS_RemoveElement
      <4>4. \A c : c \in 0 .. N /\ c # 0 => c \in 1 .. N
        BY <1>3
      <4> QED
        BY <4>1, <4>2, <4>3, <4>4
    <3>3. f[Cardinality(s) - 1] \in S /\ f[Cardinality(s)] = step[Cardinality(s)][f[Cardinality(s) - 1]]
      <4>1. Cardinality(s) - 1 \in 0 .. N
        BY <1>3, <3>2
      <4> HIDE DEF S, N, step
      <4> QED
        BY <1>5, <3>2, <4>1 DEF Iteration
    <3>4. f[Cardinality(s)] = next(f[Cardinality(s) - 1])
      <4> HIDE DEF S, N, next
      <4> QED
        BY <3>2, <3>3
    <3>5. g[s] = w[First(s)] + f[Cardinality(s) - 1][s \ {First(s)}]
      BY <2>2, <3>4
    <3>6. g[s \ {First(s)}] = f[Cardinality(s) - 1][s \ {First(s)}]
      BY <3>1, <3>2
    <3> QED
      BY <2>2, <3>5, <3>6
  <2> QED
    BY <2>1, <2>2
<1> QED
  <2>1. g = [s \in SUBSET D |-> IF s = {} THEN 0 ELSE w[First(s)] + g[s \ {First(s)}]]
    <3>1. DOMAIN g = SUBSET D /\ g \in [SUBSET D -> Int]
      BY <1>7
    <3> HIDE DEF g
    <3> QED
      BY <1>8, <3>1
  <2> HIDE DEF g
  <2> QED
    BY <1>7, <2>1 DEF IsPartialSum

LEMMA SumIsPartial ==
  ASSUME NEW D, IsFiniteSet(D), NEW w \in [D -> Int]
  PROVE  \E g : IsPartialSum(g, D, w) /\ SumFunction(w) = g[D]
<1>1. \E g : IsPartialSum(g, D, w)
  BY PartialSums
<1> DEFINE g == CHOOSE g : IsPartialSum(g, D, w)
<1>2. IsPartialSum(g, D, w)
  BY <1>1, Zenon
<1>3. SumFunction(w) = (CHOOSE h : IsPartialSum(h, DOMAIN w, w))[DOMAIN w]
  BY Zenon DEF SumFunction, SumFunctionOnSet, FoldFunctionOnSet, MapThenFoldSet, IsPartialSum, First
<1>4. DOMAIN w = D
  OBVIOUS
<1> QED
  BY <1>2, <1>3, <1>4

(* Two sums whose terms differ at one place at most.                         *)
LEMMA SumUpdate ==
  ASSUME NEW D, IsFiniteSet(D), NEW w \in [D -> Int], NEW v \in [D -> Int], NEW q \in D,
         \A x \in D : x # q => v[x] = w[x]
  PROVE  /\ SumFunction(w) \in Int
         /\ SumFunction(v) = SumFunction(w) - w[q] + v[q]
<1>1. PICK g : IsPartialSum(g, D, w) /\ SumFunction(w) = g[D]
  BY SumIsPartial
<1>2. PICK h : IsPartialSum(h, D, v) /\ SumFunction(v) = h[D]
  BY SumIsPartial
<1> DEFINE T == {s \in SUBSET D : g[s] \in Int /\ h[s] = g[s] + IF q \in s THEN v[q] - w[q] ELSE 0}
<1>3. {} \in T
  <2>1. g[{}] = 0 /\ h[{}] = 0
    BY <1>1, <1>2 DEF IsPartialSum
  <2> QED
    BY <2>1
<1>4. ASSUME NEW s \in SUBSET D, s # {}, \A x \in s : s \ {x} \in T PROVE s \in T
  <2>1. First(s) \in s
    BY <1>4 DEF First
  <2> DEFINE x == First(s)
             r == s \ {x}
  <2>2. r \in T
    BY <1>4, <2>1
  <2>3. g[s] = w[x] + g[r] /\ h[s] = v[x] + h[r]
    BY <1>1, <1>2, <1>4, <2>1 DEF IsPartialSum
  <2>4. w[x] \in Int /\ v[x] \in Int /\ w[q] \in Int /\ v[q] \in Int /\ x \in D /\ x \in s
    BY <2>1
  <2>5. g[r] \in Int /\ h[r] = g[r] + IF q \in r THEN v[q] - w[q] ELSE 0
    BY <2>2
  <2>6. q \in r <=> q \in s /\ q # x
    OBVIOUS
  <2>7. x # q => v[x] = w[x]
    BY <2>4
  <2> HIDE DEF x, r
  <2>8. g[s] \in Int /\ h[s] = g[s] + IF q \in s THEN v[q] - w[q] ELSE 0
    BY <2>3, <2>4, <2>5, <2>6, <2>7
  <2> QED
    BY <2>8
<1>5. \A s \in SUBSET D : s \in T
  <2> HIDE DEF T
  <2> QED
    BY <1>3, <1>4, Subsets
<1>6. D \in T
  BY <1>5
<1> QED
  BY <1>1, <1>2, <1>6

-----------------------------------------------------------------------------
(* The filters                                                               *)

Filter == [accept : SUBSET Sectors, trueConn : Partitions \cup {Off}, falseConn : Filters \cup {Off}]
Connected == filters \in [Filters -> Filter]

NextFilter(f) == filters[f].falseConn

(* Where a sector that enters at f is when n filters may still be tried.     *)
Leaves(leave, s) ==
  /\ leave \in [0 .. Depth -> [Filters \cup {Off} -> Partitions \cup {Off}]]
  /\ leave = [n \in 0 .. Depth |->
       [f \in Filters \cup {Off} |->
          IF n = 0 \/ f = Off THEN Off
          ELSE IF s \in filters[f].accept THEN filters[f].trueConn
          ELSE leave[n - 1][filters[f].falseConn]]]

LEMMA RouteLeaves ==
  ASSUME Connected, NEW s
  PROVE  \E leave : Leaves(leave, s) /\ Route(s) = leave[Depth]
<1> DEFINE F == Filters \cup {Off}
           S == [F -> Partitions \cup {Off}]
           next(h) == [f \in F |-> IF f = Off THEN Off
                                   ELSE IF s \in filters[f].accept THEN filters[f].trueConn
                                   ELSE h[filters[f].falseConn]]
           step == [n \in 1 .. Depth |-> [h \in S |-> next(h)]]
           none == [f \in F |-> Off]
           body(l) == [n \in 0 .. Depth |->
                        [f \in F |-> IF n = 0 \/ f = Off THEN Off
                                     ELSE IF s \in filters[f].accept THEN filters[f].trueConn
                                     ELSE l[n - 1][filters[f].falseConn]]]
<1>1. Depth \in Nat
  BY CDBufferAssumption, FS_CardinalityType
<1>2. ASSUME NEW h \in S PROVE next(h) \in S
  <2> SUFFICES ASSUME NEW f \in F, f # Off
               PROVE  filters[f].trueConn \in Partitions \cup {Off} /\ h[filters[f].falseConn] \in Partitions \cup {Off}
    OBVIOUS
  <2>1. filters[f] \in Filter
    BY DEF Connected
  <2> QED
    BY <2>1 DEF Filter
<1>3. none \in S
  OBVIOUS
<1>4. step \in [1 .. Depth -> [S -> S]]
  <2> HIDE DEF next, S
  <2> QED
    BY <1>2
<1>5. PICK l : Iteration(l, Depth, S, none, step)
  <2>1. \E l : Iteration(l, Depth, S, none, step)
    <3> HIDE DEF step, S, none
    <3> QED
      BY <1>1, <1>3, <1>4, Iterates
  <2> HIDE DEF step, S, none
  <2> QED
    BY <2>1
<1>6. l \in [0 .. Depth -> S]
  BY <1>5 DEF Iteration
<1>7. ASSUME NEW n \in 0 .. Depth PROVE l[n] = body(l)[n]
  <2>1. CASE n = 0
    <3>1. l[0] = none
      BY <1>5 DEF Iteration
    <3>2. body(l)[0] = none
      BY <1>1
    <3> QED
      BY <2>1, <3>1, <3>2
  <2>2. CASE n # 0
    <3>1. n \in 1 .. Depth /\ n - 1 \in 0 .. Depth
      BY <1>1, <2>2
    <3>2. l[n] = step[n][l[n - 1]] /\ l[n - 1] \in S
      <4> HIDE DEF step, S
      <4> QED
        BY <1>5, <1>6, <3>1 DEF Iteration
    <3>3. l[n] = next(l[n - 1])
      <4> HIDE DEF next, S
      <4> QED
        BY <3>1, <3>2
    <3>4. body(l)[n] = next(l[n - 1])
      BY <2>2
    <3> QED
      BY <3>3, <3>4
  <2> QED
    BY <2>1, <2>2
<1>8. l = body(l)
  <2>1. DOMAIN body(l) = 0 .. Depth /\ body(l) = [n \in 0 .. Depth |-> body(l)[n]]
    OBVIOUS
  <2> HIDE DEF body, S
  <2> QED
    BY <1>6, <1>7, <2>1
<1>9. \E k : k = body(k)
  BY <1>8
<1> DEFINE leave == CHOOSE k : k = body(k)
<1>10. leave = body(leave)
  BY <1>9, Zenon
<1>11. leave \in [0 .. Depth -> S]
  <2> DEFINE T == {n \in Nat : n <= Depth => leave[n] \in S}
  <2> HIDE DEF leave
  <2>1. 0 \in T
    <3>1. 0 \in 0 .. Depth
      BY <1>1
    <3>2. body(leave)[0] = none
      BY <3>1
    <3>3. leave[0] = none
      BY <1>10, <3>2
    <3> QED
      BY <1>3, <3>3
  <2>2. ASSUME NEW n \in Nat, n \in T PROVE n + 1 \in T
    <3> SUFFICES ASSUME n + 1 <= Depth PROVE leave[n + 1] \in S
      OBVIOUS
    <3>1. leave[n] \in S /\ n + 1 \in 0 .. Depth /\ n + 1 # 0 /\ (n + 1) - 1 = n
      BY <1>1, <2>2
    <3>2. body(leave)[n + 1] = next(leave[n])
      BY <3>1
    <3>3. leave[n + 1] = next(leave[n])
      <4> HIDE DEF body, next
      <4> QED
        BY <1>10, <3>2
    <3> HIDE DEF next, S
    <3> QED
      BY <1>2, <3>1, <3>3
  <2>3. \A n \in Nat : n \in T
    <3> HIDE DEF T
    <3> QED
      BY <2>1, <2>2, Numbers
  <2>4. \A n \in 0 .. Depth : leave[n] \in S
    <3>1. \A n \in 0 .. Depth : n \in Nat /\ n <= Depth
      BY <1>1
    <3> HIDE DEF S
    <3> QED
      BY <2>3, <3>1
  <2>5. body(leave) = [n \in 0 .. Depth |-> body(leave)[n]]
    OBVIOUS
  <2> HIDE DEF body, S
  <2> QED
    BY <1>10, <2>4, <2>5
<1>12. Route(s) = leave[Depth]
  BY Zenon DEF Route
<1> HIDE DEF leave
<1> QED
  BY <1>10, <1>11, <1>12 DEF Leaves

(* The filters within n false connections of f.                              *)
Reaches(reach, f) ==
  /\ reach \in [0 .. Depth -> SUBSET Filters]
  /\ reach[0] = {f}
  /\ \A n \in 1 .. Depth : reach[n] = reach[n - 1] \cup ({NextFilter(g) : g \in reach[n - 1]} \ {Off})

LEMMA ChainReaches ==
  ASSUME Connected, NEW f \in Filters
  PROVE  \E reach : Reaches(reach, f) /\ ChainFrom(f) = reach[Depth]
<1> DEFINE S == SUBSET Filters
           next(h) == h \cup ({filters[g].falseConn : g \in h} \ {Off})
           step == [n \in 1 .. Depth |-> [h \in S |-> next(h)]]
           start == {f}
           body(r) == [n \in 0 .. Depth |->
                        IF n = 0 THEN {f} ELSE r[n - 1] \cup ({filters[g].falseConn : g \in r[n - 1]} \ {Off})]
<1>1. Depth \in Nat
  BY CDBufferAssumption, FS_CardinalityType
<1>2. ASSUME NEW h \in S PROVE next(h) \in S
  <2> SUFFICES ASSUME NEW g \in h PROVE filters[g].falseConn \in Filters \cup {Off}
    OBVIOUS
  <2>1. filters[g] \in Filter
    BY DEF Connected
  <2> QED
    BY <2>1 DEF Filter
<1>3. start \in S
  OBVIOUS
<1>4. step \in [1 .. Depth -> [S -> S]]
  <2> HIDE DEF next, S
  <2> QED
    BY <1>2
<1>5. PICK r : Iteration(r, Depth, S, start, step)
  <2>1. \E r : Iteration(r, Depth, S, start, step)
    <3> HIDE DEF step, S, start
    <3> QED
      BY <1>1, <1>3, <1>4, Iterates
  <2> HIDE DEF step, S, start
  <2> QED
    BY <2>1
<1>6. r \in [0 .. Depth -> S] /\ r[0] = {f}
  BY <1>5 DEF Iteration
<1>7. ASSUME NEW n \in 0 .. Depth PROVE r[n] = body(r)[n]
  <2>1. CASE n = 0
    BY <2>1, <1>6
  <2>2. CASE n # 0
    <3>1. n \in 1 .. Depth /\ n - 1 \in 0 .. Depth
      BY <1>1, <2>2
    <3>2. r[n] = step[n][r[n - 1]] /\ r[n - 1] \in S
      <4> HIDE DEF step, S
      <4> QED
        BY <1>5, <1>6, <3>1 DEF Iteration
    <3>3. r[n] = next(r[n - 1])
      <4> HIDE DEF next, S
      <4> QED
        BY <3>1, <3>2
    <3>4. body(r)[n] = next(r[n - 1])
      BY <2>2
    <3> QED
      BY <3>3, <3>4
  <2> QED
    BY <2>1, <2>2
<1>8. r = body(r)
  <2>1. body(r) = [n \in 0 .. Depth |-> body(r)[n]]
    OBVIOUS
  <2> HIDE DEF body, S
  <2> QED
    BY <1>6, <1>7, <2>1
<1>9. \E k : k = body(k)
  BY <1>8
<1> DEFINE reach == CHOOSE k : k = body(k)
<1>10. reach = body(reach)
  BY <1>9, Zenon
<1>11. ChainFrom(f) = reach[Depth]
  BY Zenon DEF ChainFrom
<1> HIDE DEF reach
<1>12. reach[0] = {f} /\ \A n \in 1 .. Depth : reach[n] = next(reach[n - 1])
  <2>1. 0 \in 0 .. Depth /\ \A n \in 1 .. Depth : n \in 0 .. Depth /\ n # 0
    BY <1>1
  <2>2. body(reach)[0] = {f} /\ \A n \in 1 .. Depth : body(reach)[n] = next(reach[n - 1])
    BY <2>1
  <2> HIDE DEF body, next
  <2> QED
    BY <1>10, <2>2
<1>13. reach \in [0 .. Depth -> S]
  <2> DEFINE T == {n \in Nat : n <= Depth => reach[n] \in S}
  <2>1. 0 \in T
    BY <1>12
  <2>2. ASSUME NEW n \in Nat, n \in T PROVE n + 1 \in T
    <3> SUFFICES ASSUME n + 1 <= Depth PROVE reach[n + 1] \in S
      OBVIOUS
    <3>1. reach[n] \in S /\ n + 1 \in 1 .. Depth /\ (n + 1) - 1 = n
      BY <1>1, <2>2
    <3>2. reach[n + 1] = next(reach[n])
      <4> HIDE DEF next
      <4> QED
        BY <1>12, <3>1
    <3> HIDE DEF next, S
    <3> QED
      BY <1>2, <3>1, <3>2
  <2>3. \A n \in Nat : n \in T
    <3> HIDE DEF T
    <3> QED
      BY <2>1, <2>2, Numbers
  <2>4. \A n \in 0 .. Depth : reach[n] \in S
    <3>1. \A n \in 0 .. Depth : n \in Nat /\ n <= Depth
      BY <1>1
    <3> HIDE DEF S
    <3> QED
      BY <2>3, <3>1
  <2>5. body(reach) = [n \in 0 .. Depth |-> body(reach)[n]]
    OBVIOUS
  <2> HIDE DEF body, S
  <2> QED
    BY <1>10, <2>4, <2>5
<1> QED
  BY <1>11, <1>12, <1>13 DEF Reaches, NextFilter

(* From the front: f and what its own false connection reaches.              *)
LEMMA ReachesFromNext ==
  ASSUME Connected, NEW f \in Filters, NEW reach, Reaches(reach, f),
         NextFilter(f) # Off, NEW onward, Reaches(onward, NextFilter(f)), NEW n \in 0 .. Depth - 1
  PROVE  reach[n + 1] = {f} \cup onward[n]
<1>1. Depth \in Nat
  BY CDBufferAssumption, FS_CardinalityType
<1> DEFINE step(h) == h \cup ({NextFilter(g) : g \in h} \ {Off})
           T == {m \in Nat : m <= Depth - 1 => reach[m + 1] = {f} \cup onward[m]}
<1>2. 0 \in T
  <2> SUFFICES ASSUME 0 <= Depth - 1 PROVE reach[1] = {f} \cup onward[0]
    OBVIOUS
  <2>1. 1 \in 1 .. Depth /\ 1 - 1 = 0
    BY <1>1
  <2>2. reach[1] = step(reach[0])
    BY <2>1 DEF Reaches
  <2>3. reach[0] = {f} /\ onward[0] = {NextFilter(f)}
    BY DEF Reaches
  <2> QED
    BY <2>2, <2>3
<1>3. ASSUME NEW m \in Nat, m \in T PROVE m + 1 \in T
  <2> SUFFICES ASSUME m + 1 <= Depth - 1 PROVE reach[m + 2] = {f} \cup onward[m + 1]
    BY <1>1
  <2>1. m + 2 \in 1 .. Depth /\ (m + 2) - 1 = m + 1 /\ m + 1 \in 1 .. Depth /\ (m + 1) - 1 = m
    BY <1>1
  <2>2. reach[m + 2] = step(reach[m + 1])
    BY <2>1 DEF Reaches
  <2>3. onward[m + 1] = step(onward[m])
    BY <2>1 DEF Reaches
  <2>4. reach[m + 1] = {f} \cup onward[m]
    BY <1>1, <1>3
  <2>5. NextFilter(f) \in onward[m]
    <3> DEFINE U == {k \in Nat : k <= Depth => NextFilter(f) \in onward[k]}
    <3>1. 0 \in U
      BY DEF Reaches
    <3>2. ASSUME NEW k \in Nat, k \in U PROVE k + 1 \in U
      <4>1. k + 1 <= Depth => k + 1 \in 1 .. Depth /\ (k + 1) - 1 = k /\ k <= Depth
        BY <1>1
      <4>2. k + 1 <= Depth => onward[k] \subseteq onward[k + 1]
        BY <4>1 DEF Reaches
      <4> QED
        BY <3>2, <4>1, <4>2
    <3>3. \A k \in Nat : k \in U
      <4> HIDE DEF U
      <4> QED
        BY <3>1, <3>2, Numbers
    <3>4. m <= Depth
      BY <1>1
    <3> QED
      BY <3>3, <3>4
  <2> QED
    BY <2>2, <2>3, <2>4, <2>5
<1>4. \A m \in Nat : m \in T
  <2> HIDE DEF T
  <2> QED
    BY <1>2, <1>3, Numbers
<1>5. n \in Nat /\ n <= Depth - 1
  BY <1>1
<1> QED
  BY <1>4, <1>5

(* A chain has come round, or has ended, once as many filters have been      *)
(* tried as there are.                                                       *)
LEMMA ChainCloses ==
  ASSUME Connected, NEW f \in Filters, NEW reach, Reaches(reach, f)
  PROVE  Depth - 1 \in 0 .. Depth /\ reach[Depth] = reach[Depth - 1]
<1>1. Depth \in Nat /\ Depth = Cardinality(Filters) /\ IsFiniteSet(Filters)
  BY CDBufferAssumption, FS_CardinalityType
<1> DEFINE step(h) == h \cup ({NextFilter(g) : g \in h} \ {Off})
           T == {n \in Nat : n <= Depth => \/ Cardinality(reach[n]) >= n + 1
                                           \/ n > 0 /\ reach[n] = reach[n - 1]}
<1>2. \A n \in 0 .. Depth : reach[n] \subseteq Filters /\ IsFiniteSet(reach[n]) /\ Cardinality(reach[n]) \in Nat
  BY <1>1, FS_Subset, FS_CardinalityType DEF Reaches
<1>3. \A n \in 1 .. Depth : reach[n] = step(reach[n - 1])
  BY DEF Reaches
<1>4. 0 \in T
  <2>1. Cardinality(reach[0]) = 1
    BY FS_Singleton DEF Reaches
  <2> QED
    BY <2>1
<1>5. ASSUME NEW n \in Nat, n \in T PROVE n + 1 \in T
  <2> SUFFICES ASSUME n + 1 <= Depth, reach[n + 1] # reach[n]
               PROVE  Cardinality(reach[n + 1]) >= n + 2
    BY <1>1
  <2>1. n + 1 \in 1 .. Depth /\ (n + 1) - 1 = n /\ n + 1 \in 0 .. Depth /\ n \in 0 .. Depth /\ n <= Depth
    BY <1>1
  <2>2. reach[n + 1] = step(reach[n])
    BY <1>3, <2>1
  <2>3. CASE n > 0 /\ reach[n] = reach[n - 1]
    <3>1. n \in 1 .. Depth
      BY <2>1, <2>3
    <3>2. reach[n] = step(reach[n - 1])
      BY <1>3, <3>1
    <3> HIDE DEF step
    <3> QED
      BY <2>2, <2>3, <3>2
  <2>4. CASE Cardinality(reach[n]) >= n + 1
    <3>1. reach[n] \subseteq reach[n + 1]
      BY <2>2
    <3>2. IsFiniteSet(reach[n + 1]) /\ Cardinality(reach[n]) \in Nat /\ Cardinality(reach[n + 1]) \in Nat
      BY <1>2, <2>1
    <3>3. Cardinality(reach[n]) <= Cardinality(reach[n + 1]) /\ Cardinality(reach[n]) # Cardinality(reach[n + 1])
      BY <3>1, <3>2, FS_Subset
    <3> QED
      BY <2>4, <3>2, <3>3
  <2> QED
    BY <1>5, <2>1, <2>3, <2>4
<1>6. \A n \in Nat : n \in T
  <2> HIDE DEF T
  <2> QED
    BY <1>4, <1>5, Numbers
<1>7. Depth > 0
  BY <1>1, FS_EmptySet
<1>8. Cardinality(reach[Depth]) \in Nat /\ Cardinality(reach[Depth]) <= Depth
  BY <1>1, <1>2, FS_Subset
<1> QED
  BY <1>1, <1>6, <1>7, <1>8

(* What a sector that may try n + 1 filters makes of those within n.         *)
LEMMA RoutedWithin ==
  ASSUME Connected, NEW s, NEW leave, Leaves(leave, s), NEW n \in Nat, n <= Depth - 1
  PROVE  \A f \in Filters : \A reach : Reaches(reach, f) =>
           LET accepting == {g \in reach[n] : s \in filters[g].accept} IN
           /\ leave[n + 1][f] # Off => \E g \in accepting : filters[g].trueConn = leave[n + 1][f]
           /\ accepting # {} /\ (\A g \in accepting : filters[g].trueConn # Off) => leave[n + 1][f] # Off
<1>1. Depth \in Nat
  BY CDBufferAssumption, FS_CardinalityType
<1> DEFINE accepting(m, reach) == {g \in reach[m] : s \in filters[g].accept}
           Fine(m, f, reach) ==
             /\ leave[m + 1][f] # Off => \E g \in accepting(m, reach) : filters[g].trueConn = leave[m + 1][f]
             /\ accepting(m, reach) # {} /\ (\A g \in accepting(m, reach) : filters[g].trueConn # Off)
                  => leave[m + 1][f] # Off
           T == {m \in Nat : m <= Depth - 1 => \A f \in Filters : \A reach : Reaches(reach, f) => Fine(m, f, reach)}
<1>2. Off \notin Filters
  BY CDBufferAssumption
<1>3. ASSUME NEW m \in Nat, m <= Depth - 1, NEW f \in Filters
      PROVE  leave[m + 1][f] = IF s \in filters[f].accept THEN filters[f].trueConn ELSE leave[m][NextFilter(f)]
  <2>1. m + 1 \in 0 .. Depth /\ m + 1 # 0 /\ (m + 1) - 1 = m
    BY <1>1, <1>3
  <2> DEFINE body == [n0 \in 0 .. Depth |->
        [g \in Filters \cup {Off} |->
           IF n0 = 0 \/ g = Off THEN Off
           ELSE IF s \in filters[g].accept THEN filters[g].trueConn
           ELSE leave[n0 - 1][filters[g].falseConn]]]
  <2>2. leave = body
    BY DEF Leaves
  <2>3. body[m + 1][f] = IF s \in filters[f].accept THEN filters[f].trueConn ELSE leave[m][NextFilter(f)]
    BY <1>2, <2>1 DEF NextFilter
  <2> HIDE DEF body
  <2> QED
    BY <2>2, <2>3
<1>4. \A m \in 0 .. Depth : leave[m][Off] = Off
  BY DEF Leaves
<1>5. 0 \in T
  <2> SUFFICES ASSUME 0 <= Depth - 1, NEW f \in Filters, NEW reach, Reaches(reach, f) PROVE Fine(0, f, reach)
    BY <1>1
  <2>1. reach[0] = {f}
    BY DEF Reaches
  <2>2. leave[1][f] = IF s \in filters[f].accept THEN filters[f].trueConn ELSE leave[0][NextFilter(f)]
    BY <1>3
  <2>3. leave[0][NextFilter(f)] = Off
    <3>1. NextFilter(f) \in Filters \cup {Off} /\ 0 \in 0 .. Depth
      BY <1>1 DEF Connected, Filter, NextFilter
    <3> QED
      BY <3>1 DEF Leaves
  <2>4. accepting(0, reach) = IF s \in filters[f].accept THEN {f} ELSE {}
    BY <2>1
  <2> QED
    BY <2>2, <2>3, <2>4
<1>6. ASSUME NEW m \in Nat, m \in T PROVE m + 1 \in T
  <2> SUFFICES ASSUME m + 1 <= Depth - 1, NEW f \in Filters, NEW reach, Reaches(reach, f) PROVE Fine(m + 1, f, reach)
    BY <1>1
  <2>0. m <= Depth - 1 /\ m + 1 \in Nat /\ m \in 0 .. Depth - 1 /\ m + 1 \in 1 .. Depth /\ (m + 1) - 1 = m
    BY <1>1
  <2>1. leave[(m + 1) + 1][f] = IF s \in filters[f].accept THEN filters[f].trueConn ELSE leave[m + 1][NextFilter(f)]
    BY <1>3, <2>0
  <2>2. f \in reach[m + 1]
    <3> DEFINE U == {k \in Nat : k <= Depth => f \in reach[k]}
    <3>1. 0 \in U
      BY DEF Reaches
    <3>2. ASSUME NEW k \in Nat, k \in U PROVE k + 1 \in U
      <4>1. k + 1 <= Depth => k + 1 \in 1 .. Depth /\ (k + 1) - 1 = k /\ k <= Depth
        BY <1>1
      <4>2. k + 1 <= Depth => reach[k] \subseteq reach[k + 1]
        BY <4>1 DEF Reaches
      <4> QED
        BY <3>2, <4>1, <4>2
    <3>3. \A k \in Nat : k \in U
      <4> HIDE DEF U
      <4> QED
        BY <3>1, <3>2, Numbers
    <3>4. m + 1 <= Depth
      BY <1>1
    <3> QED
      BY <2>0, <3>3, <3>4
  <2>3. CASE s \in filters[f].accept
    BY <2>1, <2>2, <2>3
  <2>4. CASE s \notin filters[f].accept /\ NextFilter(f) = Off
    <3>1. leave[(m + 1) + 1][f] = Off
      <4>1. m + 1 \in 0 .. Depth
        BY <1>1
      <4> QED
        BY <1>4, <2>1, <2>4, <4>1
    <3>2. reach[m + 1] = {f}
      <4> DEFINE U == {k \in Nat : k <= Depth => reach[k] = {f}}
      <4>1. 0 \in U
        BY DEF Reaches
      <4>2. ASSUME NEW k \in Nat, k \in U PROVE k + 1 \in U
        <5>1. k + 1 <= Depth => k + 1 \in 1 .. Depth /\ (k + 1) - 1 = k /\ k <= Depth
          BY <1>1
        <5>2. k + 1 <= Depth => reach[k + 1] = reach[k] \cup ({NextFilter(g) : g \in reach[k]} \ {Off})
          BY <5>1 DEF Reaches
        <5> QED
          BY <2>4, <4>2, <5>1, <5>2
      <4>3. \A k \in Nat : k \in U
        <5> HIDE DEF U
        <5> QED
          BY <4>1, <4>2, Numbers
      <4>4. m + 1 <= Depth
        BY <1>1
      <4> QED
        BY <2>0, <4>3, <4>4
    <3>3. accepting(m + 1, reach) = {}
      BY <2>4, <3>2
    <3> QED
      BY <3>1, <3>3
  <2>5. CASE s \notin filters[f].accept /\ NextFilter(f) # Off
    <3>1. NextFilter(f) \in Filters
      BY <2>5 DEF Connected, Filter, NextFilter
    <3>2. PICK onward : Reaches(onward, NextFilter(f))
      BY <3>1, ChainReaches
    <3>3. reach[m + 1] = {f} \cup onward[m]
      BY <2>0, <2>5, <3>2, ReachesFromNext
    <3>4. accepting(m + 1, reach) = accepting(m, onward)
      BY <2>5, <3>3
    <3>5. Fine(m, NextFilter(f), onward)
      <4> HIDE DEF Fine
      <4> QED
        BY <1>6, <2>0, <3>1, <3>2
    <3>6. leave[(m + 1) + 1][f] = leave[m + 1][NextFilter(f)]
      BY <2>1, <2>5
    <3> HIDE DEF accepting
    <3> QED
      BY <3>4, <3>5, <3>6
  <2> QED
    BY <2>3, <2>4, <2>5
<1>7. \A m \in Nat : m \in T
  <2> HIDE DEF T
  <2> QED
    BY <1>5, <1>6, Numbers
<1> QED
  BY <1>7

LEMMA ConnectedRoutes == Connected => RoutedIfAccepted
<1> SUFFICES ASSUME Connected, NEW s \in Sectors, NEW f \in Filters
             PROVE  LET accepting == {g \in ChainFrom(f) : s \in filters[g].accept} IN
                    /\ routeSector(s, f) \in Partitions => \E g \in accepting : filters[g].trueConn = routeSector(s, f)
                    /\ accepting # {} /\ (\A g \in accepting : filters[g].trueConn # Off) => routeSector(s, f) # Off
  BY DEF RoutedIfAccepted
<1>1. PICK leave : Leaves(leave, s) /\ Route(s) = leave[Depth]
  BY RouteLeaves
<1>2. PICK reach : Reaches(reach, f) /\ ChainFrom(f) = reach[Depth]
  BY ChainReaches
<1>3. Depth - 1 \in 0 .. Depth /\ reach[Depth] = reach[Depth - 1]
  BY <1>2, ChainCloses
<1>4. Depth - 1 \in Nat /\ (Depth - 1) + 1 = Depth /\ Depth - 1 <= Depth - 1
  BY <1>3, CDBufferAssumption, FS_CardinalityType
<1>5. routeSector(s, f) = leave[Depth][f]
  BY <1>1 DEF routeSector, Leaves
<1>6. Off \notin Partitions
  BY CDBufferAssumption
<1>7. LET accepting == {g \in reach[Depth - 1] : s \in filters[g].accept} IN
      /\ leave[(Depth - 1) + 1][f] # Off
           => \E g \in accepting : filters[g].trueConn = leave[(Depth - 1) + 1][f]
      /\ accepting # {} /\ (\A g \in accepting : filters[g].trueConn # Off) => leave[(Depth - 1) + 1][f] # Off
  BY <1>1, <1>2, <1>4, RoutedWithin
<1> QED
  BY <1>2, <1>3, <1>4, <1>5, <1>6, <1>7

-----------------------------------------------------------------------------
(* The contents of the partitions                                            *)

Holdings == [Partitions -> Seq(Sectors)]

Total(parts) == SumFunction([p \in Partitions |-> Len(parts[p])])
CountOf(parts, s) == SumFunction([p \in Partitions |-> Times(s, parts[p])])

(* How often s is among the first n.                                         *)
Upto(s, ss, n) == Cardinality({i \in 1 .. n : ss[i] = s})

LEMMA UptoNext ==
  ASSUME NEW s, NEW ss, NEW n \in Nat
  PROVE  /\ Upto(s, ss, n) \in Nat /\ Upto(s, ss, 0) = 0
         /\ Upto(s, ss, n + 1) = Upto(s, ss, n) + IF ss[n + 1] = s THEN 1 ELSE 0
<1> DEFINE A == {i \in 1 .. n : ss[i] = s}
           B == {i \in 1 .. n + 1 : ss[i] = s}
<1>1. IsFiniteSet(A) /\ Cardinality(A) \in Nat
  <2>1. IsFiniteSet(1 .. n) /\ A \in SUBSET (1 .. n)
    BY FS_Interval
  <2> HIDE DEF A
  <2> QED
    BY <2>1, FS_Subset, FS_CardinalityType
<1>2. {i \in 1 .. 0 : ss[i] = s} = {}
  OBVIOUS
<1>3. n + 1 \notin A
  OBVIOUS
<1>4. CASE ss[n + 1] = s
  <2>1. B = A \cup {n + 1}
    BY <1>4
  <2> HIDE DEF A, B
  <2>2. Cardinality(B) = Cardinality(A) + 1
    BY <1>1, <1>3, <2>1, FS_AddElement
  <2> QED
    BY <1>1, <1>2, <1>4, <2>2, FS_EmptySet DEF Upto, A, B
<1>5. CASE ss[n + 1] # s
  <2>1. B = A
    BY <1>5
  <2> HIDE DEF A, B
  <2>2. Cardinality(B) = Cardinality(A)
    BY <2>1
  <2> QED
    BY <1>1, <1>2, <1>5, <2>2, FS_EmptySet DEF Upto, A, B
<1> QED
  BY <1>4, <1>5

LEMMA UptoSame ==
  ASSUME NEW s, NEW ss, NEW tt, NEW k \in Int, NEW n \in Nat,
         \A i \in 1 .. n : tt[k + i] = ss[i], k \in Nat
  PROVE  Upto(s, tt, k + n) = Upto(s, tt, k) + Upto(s, ss, n)
<1> DEFINE T == {m \in Nat : m <= n => Upto(s, tt, k + m) = Upto(s, tt, k) + Upto(s, ss, m)}
<1>1. 0 \in T
  <2>1. Upto(s, tt, k) \in Nat /\ Upto(s, ss, 0) = 0 /\ k + 0 = k
    BY UptoNext
  <2> QED
    BY <2>1
<1>2. ASSUME NEW m \in Nat, m \in T PROVE m + 1 \in T
  <2> SUFFICES ASSUME m + 1 <= n PROVE Upto(s, tt, k + (m + 1)) = Upto(s, tt, k) + Upto(s, ss, m + 1)
    OBVIOUS
  <2>1. k + (m + 1) = (k + m) + 1 /\ k + m \in Nat /\ tt[(k + m) + 1] = ss[m + 1]
    <3>1. m + 1 \in 1 .. n /\ k + (m + 1) = (k + m) + 1
      OBVIOUS
    <3>2. tt[k + (m + 1)] = ss[m + 1]
      BY <3>1
    <3> QED
      BY <3>1, <3>2
  <2>2. Upto(s, tt, (k + m) + 1) = Upto(s, tt, k + m) + IF tt[(k + m) + 1] = s THEN 1 ELSE 0
    BY <2>1, UptoNext
  <2>3. Upto(s, ss, m + 1) = Upto(s, ss, m) + IF ss[m + 1] = s THEN 1 ELSE 0
    BY UptoNext
  <2>4. Upto(s, tt, k) \in Nat /\ Upto(s, ss, m) \in Nat
    BY UptoNext
  <2>5. Upto(s, tt, k + m) = Upto(s, tt, k) + Upto(s, ss, m)
    BY <1>2
  <2> QED
    BY <2>1, <2>2, <2>3, <2>4, <2>5
<1>3. \A m \in Nat : m \in T
  <2> HIDE DEF T
  <2> QED
    BY <1>1, <1>2, Numbers
<1> QED
  BY <1>3

LEMMA TimesConcat ==
  ASSUME NEW s, NEW a \in Seq(Sectors), NEW b \in Seq(Sectors)
  PROVE  Times(s, a) \in Nat /\ Times(s, a \o b) = Times(s, a) + Times(s, b)
<1>1. /\ Len(a) \in Nat /\ DOMAIN a = 1 .. Len(a)
      /\ Len(b) \in Nat /\ DOMAIN b = 1 .. Len(b)
      /\ DOMAIN (a \o b) = 1 .. Len(a) + Len(b)
  BY ConcatProperties, LenProperties
<1>2. /\ \A i \in 1 .. Len(b) : (a \o b)[Len(a) + i] = b[i]
      /\ \A i \in 1 .. Len(a) : (a \o b)[0 + i] = a[i]
  <2>1. ASSUME NEW i \in 1 .. Len(b) PROVE (a \o b)[Len(a) + i] = b[i]
    <3>1. Len(a) + i \in 1 .. Len(a) + Len(b) /\ ~(Len(a) + i <= Len(a)) /\ (Len(a) + i) - Len(a) = i
      BY <1>1
    <3> QED
      BY <3>1, ConcatProperties
  <2>2. ASSUME NEW i \in 1 .. Len(a) PROVE (a \o b)[0 + i] = a[i]
    <3>1. 0 + i = i /\ i \in 1 .. Len(a) + Len(b) /\ i <= Len(a)
      BY <1>1
    <3> QED
      BY <3>1, ConcatProperties
  <2> QED
    BY <2>1, <2>2
<1>3. Upto(s, a \o b, Len(a) + Len(b)) = Upto(s, a \o b, Len(a)) + Upto(s, b, Len(b))
  <2>1. Len(a) \in Int /\ Len(a) \in Nat /\ Len(b) \in Nat
    BY <1>1
  <2> QED
    BY <1>2, <2>1, UptoSame
<1>4. Upto(s, a \o b, 0 + Len(a)) = Upto(s, a \o b, 0) + Upto(s, a, Len(a))
  <2>1. 0 \in Nat /\ 0 \in Int
    OBVIOUS
  <2> QED
    BY <1>1, <1>2, <2>1, UptoSame
<1>5. Upto(s, a \o b, 0) = 0 /\ 0 + Len(a) = Len(a) /\ Upto(s, a, Len(a)) \in Nat
  BY <1>1, UptoNext
<1>6. Times(s, a) = Upto(s, a, Len(a)) /\ Times(s, b) = Upto(s, b, Len(b))
      /\ Times(s, a \o b) = Upto(s, a \o b, Len(a) + Len(b))
  BY <1>1 DEF Times, Upto
<1> QED
  BY <1>3, <1>4, <1>5, <1>6

(* A partition changes.                                                      *)
LEMMA TotalUpdate ==
  ASSUME NEW parts \in Holdings, NEW q \in Partitions, NEW t \in Seq(Sectors)
  PROVE  /\ [parts EXCEPT ![q] = t] \in Holdings
         /\ Total(parts) \in Int /\ Len(parts[q]) \in Nat /\ Len(t) \in Nat
         /\ Total([parts EXCEPT ![q] = t]) = Total(parts) - Len(parts[q]) + Len(t)
<1> DEFINE new == [parts EXCEPT ![q] = t]
           w == [p \in Partitions |-> Len(parts[p])]
           v == [p \in Partitions |-> Len(new[p])]
<1>1. new \in Holdings
  BY DEF Holdings
<1>2. \A p \in Partitions : Len(parts[p]) \in Nat /\ Len(new[p]) \in Nat
  BY <1>1 DEF Holdings
<1>3. w \in [Partitions -> Int] /\ v \in [Partitions -> Int] /\ w[q] = Len(parts[q]) /\ v[q] = Len(t)
  <2>1. new[q] = t
    BY DEF Holdings
  <2> QED
    BY <1>2, <2>1
<1>4. \A x \in Partitions : x # q => v[x] = w[x]
  BY DEF Holdings
<1>5. IsFiniteSet(Partitions)
  BY CDBufferAssumption
<1>6. SumFunction(w) \in Int /\ SumFunction(v) = SumFunction(w) - w[q] + v[q]
  <2>1. w \in [Partitions -> Int] /\ v \in [Partitions -> Int]
    BY <1>3
  <2> HIDE DEF w, v
  <2> QED
    BY <1>4, <1>5, <2>1, SumUpdate
<1>7. Total(parts) = SumFunction(w) /\ Total(new) = SumFunction(v)
  BY DEF Total
<1>8. Len(parts[q]) \in Nat /\ Len(t) \in Nat
  BY <1>2
<1> QED
  BY <1>1, <1>3, <1>6, <1>7, <1>8

LEMMA CountUpdate ==
  ASSUME NEW parts \in Holdings, NEW q \in Partitions, NEW t \in Seq(Sectors), NEW s
  PROVE  /\ CountOf(parts, s) \in Int
         /\ CountOf([parts EXCEPT ![q] = t], s) = CountOf(parts, s) - Times(s, parts[q]) + Times(s, t)
<1> DEFINE new == [parts EXCEPT ![q] = t]
           w == [p \in Partitions |-> Times(s, parts[p])]
           v == [p \in Partitions |-> Times(s, new[p])]
<1>1. new \in Holdings
  BY DEF Holdings
<1>2. \A p \in Partitions : Times(s, parts[p]) \in Nat /\ Times(s, new[p]) \in Nat
  BY <1>1, TimesConcat DEF Holdings
<1>3. w \in [Partitions -> Int] /\ v \in [Partitions -> Int] /\ w[q] = Times(s, parts[q]) /\ v[q] = Times(s, t)
  <2>1. new[q] = t
    BY DEF Holdings
  <2> QED
    BY <1>2, <2>1
<1>4. \A x \in Partitions : x # q => v[x] = w[x]
  BY DEF Holdings
<1>5. IsFiniteSet(Partitions)
  BY CDBufferAssumption
<1>6. SumFunction(w) \in Int /\ SumFunction(v) = SumFunction(w) - w[q] + v[q]
  <2>1. w \in [Partitions -> Int] /\ v \in [Partitions -> Int]
    BY <1>3
  <2> HIDE DEF w, v
  <2> QED
    BY <1>4, <1>5, <2>1, SumUpdate
<1>7. CountOf(parts, s) = SumFunction(w) /\ CountOf(new, s) = SumFunction(v)
  BY DEF CountOf
<1> QED
  BY <1>3, <1>6, <1>7

LEMMA TotalRange ==
  ASSUME NEW parts \in Holdings
  PROVE  Total(parts) \in Nat /\ (parts = Empty => Total(parts) = 0)
<1> DEFINE w == [p \in Partitions |-> Len(parts[p])]
<1>1. w \in [Partitions -> Nat] /\ w \in [Partitions -> Int]
  BY DEF Holdings
<1>2. PICK g : IsPartialSum(g, Partitions, w) /\ SumFunction(w) = g[Partitions]
  <2>1. IsFiniteSet(Partitions)
    BY CDBufferAssumption
  <2> HIDE DEF w
  <2> QED
    BY <1>1, <2>1, SumIsPartial
<1> DEFINE T == {s \in SUBSET Partitions : g[s] \in Nat /\ (parts = Empty => g[s] = 0)}
<1>3. {} \in T
  BY <1>2 DEF IsPartialSum
<1>4. ASSUME NEW s \in SUBSET Partitions, s # {}, \A x \in s : s \ {x} \in T PROVE s \in T
  <2>1. First(s) \in s /\ First(s) \in Partitions
    BY <1>4 DEF First
  <2> DEFINE x == First(s)
             r == s \ {x}
  <2>2. r \in T
    BY <1>4, <2>1
  <2>3. g[s] = w[x] + g[r]
    BY <1>2, <1>4 DEF IsPartialSum
  <2>4. w[x] \in Nat /\ (parts = Empty => w[x] = 0)
    <3>1. parts = Empty => parts[x] = <<>>
      BY <2>1 DEF Empty
    <3>2. w[x] = Len(parts[x]) /\ w[x] \in Nat
      BY <1>1, <2>1
    <3> QED
      BY <3>1, <3>2
  <2> HIDE DEF w, x, r
  <2>5. g[s] \in Nat /\ (parts = Empty => g[s] = 0)
    BY <2>2, <2>3, <2>4
  <2> QED
    BY <2>5
<1>5. \A s \in SUBSET Partitions : s \in T
  <2>1. IsFiniteSet(Partitions)
    BY CDBufferAssumption
  <2> HIDE DEF T
  <2> QED
    BY <1>3, <1>4, <2>1, Subsets
<1>6. Partitions \in T
  BY <1>5
<1> QED
  BY <1>2, <1>6 DEF Total

(* What a deletion takes out, and what it leaves.                            *)
LEMMA CutLeaves ==
  ASSUME NEW ss \in Seq(Sectors), NEW start \in Nat \ {0}, NEW count \in Nat \ {0}
  PROVE  /\ Cut(ss, start, count) \in Seq(Sectors) /\ Len(Cut(ss, start, count)) <= Len(ss)
         /\ start + count - 1 <= Len(ss) =>
              /\ SubSeq(ss, start, start + count - 1) \in Seq(Sectors)
              /\ Len(SubSeq(ss, start, start + count - 1)) = count
              /\ Len(Cut(ss, start, count)) = Len(ss) - count
              /\ \A s : Times(s, ss) = Times(s, Cut(ss, start, count))
                                         + Times(s, SubSeq(ss, start, start + count - 1))
<1> DEFINE last == IF start > Len(ss) THEN Len(ss) ELSE start - 1
           before == SubSeq(ss, 1, last)
           taken == SubSeq(ss, start, start + count - 1)
           after == SubSeq(ss, start + count, Len(ss))
<1>1. Len(ss) \in Nat /\ last \in 0 .. Len(ss) /\ start + count \in Int
  OBVIOUS
<1>2. \A i \in 1 .. Len(ss) : ss[i] \in Sectors
  BY ElementOfSeq
<1>3. before \in Seq(Sectors) /\ Len(before) = last
  <2>1. \A i \in 1 .. last : ss[i] \in Sectors
    BY <1>1, <1>2
  <2>2. last \in Int
    BY <1>1
  <2> HIDE DEF last
  <2> QED
    BY <1>1, <2>1, <2>2, SubSeqProperties
<1>4. after \in Seq(Sectors) /\ Len(after) = IF start + count <= Len(ss) THEN Len(ss) - (start + count) + 1 ELSE 0
  <2>1. \A i \in start + count .. Len(ss) : ss[i] \in Sectors
    BY <1>2
  <2> QED
    BY <1>1, <2>1, SubSeqProperties
<1>5. Cut(ss, start, count) = before \o after
  BY DEF Cut
<1>6. before \o after \in Seq(Sectors) /\ Len(before \o after) = Len(before) + Len(after)
  <2> HIDE DEF before, after
  <2> QED
    BY <1>3, <1>4, ConcatProperties
<1>7. Cut(ss, start, count) \in Seq(Sectors) /\ Len(Cut(ss, start, count)) <= Len(ss)
  <2>1. last + Len(after) <= Len(ss)
    <3>1. CASE start > Len(ss)
      <4>1. last = Len(ss) /\ ~(start + count <= Len(ss))
        BY <1>1, <3>1
      <4>2. Len(after) = 0
        BY <1>4, <4>1
      <4> QED
        BY <1>1, <4>1, <4>2
    <3>2. CASE ~(start > Len(ss)) /\ start + count <= Len(ss)
      <4>1. last = start - 1
        BY <1>1, <3>2
      <4>2. Len(after) = Len(ss) - (start + count) + 1
        BY <1>4, <3>2
      <4> HIDE DEF last, after
      <4> QED
        BY <1>1, <4>1, <4>2
    <3>3. CASE ~(start > Len(ss)) /\ ~(start + count <= Len(ss))
      <4>1. last = start - 1
        BY <1>1, <3>3
      <4>2. Len(after) = 0
        BY <1>4, <3>3
      <4> HIDE DEF last, after
      <4> QED
        BY <1>1, <3>3, <4>1, <4>2
    <3> QED
      BY <3>1, <3>2, <3>3
  <2> QED
    BY <1>3, <1>5, <1>6, <2>1
<1>8. ASSUME start + count - 1 <= Len(ss)
      PROVE  /\ taken \in Seq(Sectors) /\ Len(taken) = count
             /\ Len(Cut(ss, start, count)) = Len(ss) - count
             /\ \A s : Times(s, ss) = Times(s, Cut(ss, start, count)) + Times(s, taken)
  <2>1. last = start - 1 /\ start - 1 \in 0 .. Len(ss)
    BY <1>8
  <2>2. taken \in Seq(Sectors) /\ Len(taken) = count
    <3>1. \A i \in start .. start + count - 1 : ss[i] \in Sectors
      BY <1>2, <1>8
    <3>2. start + count - 1 \in Int /\ start <= start + count - 1 /\ (start + count - 1) - start + 1 = count
      OBVIOUS
    <3> QED
      BY <3>1, <3>2, SubSeqProperties
  <2>3. Len(Cut(ss, start, count)) = Len(ss) - count
    <3>1. Len(after) = Len(ss) - (start + count) + 1
      BY <1>1, <1>4, <1>8
    <3>2. Len(Cut(ss, start, count)) = (start - 1) + Len(after)
      <4> HIDE DEF last, before, after
      <4> QED
        BY <1>3, <1>5, <1>6, <2>1
    <3> HIDE DEF after
    <3> QED
      BY <1>1, <3>1, <3>2
  <2>4. ss = (before \o taken) \o after
    <3>1. before \o taken = SubSeq(ss, 1, start + count - 1)
      <4>1. SubSeq(ss, 1, start - 1) \o SubSeq(ss, (start - 1) + 1, start + count - 1) = SubSeq(ss, 1, start + count - 1)
        <5>1. /\ 1 \in 1 .. Len(ss) + 1 /\ start - 1 \in 1 - 1 .. Len(ss)
              /\ start + count - 1 \in start - 1 .. Len(ss)
          BY <1>8
        <5> QED
          BY <5>1, ConcatAdjacentSubSeq
      <4>2. (start - 1) + 1 = start
        OBVIOUS
      <4> QED
        BY <2>1, <4>1, <4>2
    <3>2. SubSeq(ss, 1, start + count - 1) \o after = SubSeq(ss, 1, Len(ss))
      <4>1. SubSeq(ss, 1, start + count - 1) \o SubSeq(ss, (start + count - 1) + 1, Len(ss)) = SubSeq(ss, 1, Len(ss))
        <5>1. /\ 1 \in 1 .. Len(ss) + 1 /\ start + count - 1 \in 1 - 1 .. Len(ss)
              /\ Len(ss) \in start + count - 1 .. Len(ss)
          BY <1>8
        <5> QED
          BY <5>1, ConcatAdjacentSubSeq
      <4>2. (start + count - 1) + 1 = start + count
        OBVIOUS
      <4> QED
        BY <4>1, <4>2
    <3>3. SubSeq(ss, 1, Len(ss)) = ss
      BY SubSeqFull
    <3> QED
      BY <3>1, <3>2, <3>3
  <2>5. ASSUME NEW s PROVE Times(s, ss) = Times(s, Cut(ss, start, count)) + Times(s, taken)
    <3>1. before \o taken \in Seq(Sectors)
      <4> HIDE DEF before, taken
      <4> QED
        BY <1>3, <2>2, ConcatProperties
    <3> HIDE DEF before, taken, after
    <3>2. Times(s, ss) = Times(s, before \o taken) + Times(s, after)
      BY <1>4, <2>4, <3>1, TimesConcat
    <3>3. Times(s, before \o taken) = Times(s, before) + Times(s, taken)
      BY <1>3, <2>2, TimesConcat
    <3>4. Times(s, before \o after) = Times(s, before) + Times(s, after)
      BY <1>3, <1>4, TimesConcat
    <3>5. Times(s, before) \in Nat /\ Times(s, taken) \in Nat /\ Times(s, after) \in Nat
      BY <1>3, <1>4, <2>2, TimesConcat
    <3> QED
      BY <1>5, <3>2, <3>3, <3>4, <3>5
  <2> QED
    BY <2>2, <2>3, <2>5
<1> QED
  BY <1>7, <1>8

(* Routing: a sector goes into one partition, or nowhere.                    *)
Passes(after, parts, ss, f) ==
  /\ after \in [0 .. Len(ss) -> Holdings] /\ after[0] = parts
  /\ \A i \in 1 .. Len(ss) : after[i] = Into(after[i - 1], ss[i], routeSector(ss[i], f))

LEMMA RouteTarget ==
  ASSUME Connected, NEW s, NEW f \in Filters
  PROVE  routeSector(s, f) \in Partitions \cup {Off}
<1>1. PICK leave : Leaves(leave, s) /\ Route(s) = leave[Depth]
  BY RouteLeaves
<1>2. Depth \in 0 .. Depth
  BY CDBufferAssumption, FS_CardinalityType
<1>3. leave[Depth] \in [Filters \cup {Off} -> Partitions \cup {Off}]
  BY <1>1, <1>2 DEF Leaves
<1> QED
  BY <1>1, <1>3 DEF routeSector

LEMMA IntoContents ==
  ASSUME NEW parts \in Holdings, NEW s \in Sectors, NEW p
  PROVE  /\ Into(parts, s, p) \in Holdings
         /\ Total(Into(parts, s, p)) <= Total(parts) + 1
         /\ \A r : CountOf(Into(parts, s, p), r) = CountOf(parts, r) + IF p \in Partitions /\ r = s THEN 1 ELSE 0
<1>1. CASE p \in Partitions
  <2> DEFINE t == Append(parts[p], s)
  <2>1. parts[p] \in Seq(Sectors) /\ t \in Seq(Sectors) /\ Len(t) = Len(parts[p]) + 1
    BY <1>1 DEF Holdings
  <2>2. Into(parts, s, p) = [parts EXCEPT ![p] = t]
    BY <1>1 DEF Into
  <2>3. t = parts[p] \o <<s>> /\ <<s>> \in Seq(Sectors)
    BY <2>1, AppendIsConcat
  <2>4. \A r : Times(r, t) = Times(r, parts[p]) + IF r = s THEN 1 ELSE 0
    <3> SUFFICES ASSUME NEW r PROVE Times(r, t) = Times(r, parts[p]) + IF r = s THEN 1 ELSE 0
      OBVIOUS
    <3>1. Times(r, parts[p] \o <<s>>) = Times(r, parts[p]) + Times(r, <<s>>)
      BY <2>1, <2>3, TimesConcat
    <3>2. Times(r, <<s>>) = Upto(r, <<s>>, 0 + 1)
      <4>1. DOMAIN <<s>> = 1 .. 0 + 1
        OBVIOUS
      <4> QED
        BY <4>1 DEF Times, Upto
    <3>3. Upto(r, <<s>>, 0 + 1) = Upto(r, <<s>>, 0) + (IF <<s>>[0 + 1] = r THEN 1 ELSE 0) /\ Upto(r, <<s>>, 0) = 0
      BY UptoNext
    <3> QED
      BY <2>3, <3>1, <3>2, <3>3
  <2> HIDE DEF t
  <2>5. Total([parts EXCEPT ![p] = t]) = Total(parts) - Len(parts[p]) + Len(t) /\ Total(parts) \in Int
        /\ Len(parts[p]) \in Nat
    BY <1>1, <2>1, TotalUpdate
  <2>6. [parts EXCEPT ![p] = t] \in Holdings
    BY <1>1, <2>1, TotalUpdate
  <2>7. ASSUME NEW r PROVE CountOf(Into(parts, s, p), r) = CountOf(parts, r) + IF r = s THEN 1 ELSE 0
    <3>1. CountOf([parts EXCEPT ![p] = t], r) = CountOf(parts, r) - Times(r, parts[p]) + Times(r, t)
          /\ CountOf(parts, r) \in Int
      BY <1>1, <2>1, CountUpdate
    <3>2. Times(r, parts[p]) \in Nat
      BY <2>1, TimesConcat
    <3> QED
      BY <2>2, <2>4, <3>1, <3>2
  <2>8. Total(Into(parts, s, p)) <= Total(parts) + 1
    BY <2>1, <2>2, <2>5
  <2>9. Into(parts, s, p) \in Holdings
    BY <2>2, <2>6
  <2> QED
    BY <1>1, <2>7, <2>8, <2>9
<1>2. CASE p \notin Partitions
  <2>1. Into(parts, s, p) = parts /\ Total(parts) \in Nat
    BY <1>2, TotalRange DEF Into
  <2>2. \A r : CountOf(parts, r) \in Int
    <3>1. PICK q : q \in Partitions
      BY CDBufferAssumption
    <3>2. <<>> \in Seq(Sectors)
      OBVIOUS
    <3> QED
      BY <3>1, <3>2, CountUpdate
  <2> QED
    BY <1>2, <2>1, <2>2
<1> QED
  BY <1>1, <1>2

LEMMA RoutedPasses ==
  ASSUME Connected, NEW parts \in Holdings, NEW ss \in Seq(Sectors), NEW f \in Filters
  PROVE  \E after : Passes(after, parts, ss, f) /\ Routed(parts, ss, f) = after[Len(ss)]
<1> DEFINE N == Len(ss)
           next(i, h) == Into(h, ss[i], routeSector(ss[i], f))
           step == [i \in 1 .. N |-> [h \in Holdings |-> next(i, h)]]
           body(l) == [i \in 0 .. N |-> IF i = 0 THEN parts ELSE next(i, l[i - 1])]
<1>1. N \in Nat /\ \A i \in 1 .. N : ss[i] \in Sectors
  BY LenProperties, ElementOfSeq
<1>2. ASSUME NEW i \in 1 .. N, NEW h \in Holdings PROVE next(i, h) \in Holdings
  BY <1>1, IntoContents
<1>3. step \in [1 .. N -> [Holdings -> Holdings]]
  <2> HIDE DEF next, N
  <2> QED
    BY <1>2
<1>4. PICK l : Iteration(l, N, Holdings, parts, step)
  <2>1. \E l : Iteration(l, N, Holdings, parts, step)
    <3> HIDE DEF step, N
    <3> QED
      BY <1>1, <1>3, Iterates
  <2> HIDE DEF step, N
  <2> QED
    BY <2>1
<1>5. l \in [0 .. N -> Holdings] /\ l[0] = parts
  BY <1>4 DEF Iteration
<1>6. ASSUME NEW i \in 1 .. N PROVE l[i] = next(i, l[i - 1])
  <2>1. i - 1 \in 0 .. N
    BY <1>1
  <2>2. l[i] = step[i][l[i - 1]] /\ l[i - 1] \in Holdings
    <3> HIDE DEF step, N
    <3> QED
      BY <1>4, <1>5, <2>1 DEF Iteration
  <2> HIDE DEF next, N
  <2> QED
    BY <2>2
<1>7. l = body(l)
  <2>1. ASSUME NEW i \in 0 .. N PROVE l[i] = body(l)[i]
    <3>1. i # 0 => i \in 1 .. N
      BY <1>1
    <3> HIDE DEF next, N
    <3> QED
      BY <1>5, <1>6, <3>1
  <2>2. DOMAIN body(l) = 0 .. N /\ body(l) = [i \in 0 .. N |-> body(l)[i]]
    OBVIOUS
  <2> HIDE DEF body, N
  <2> QED
    BY <1>5, <2>1, <2>2
<1>8. \E k : k = body(k)
  BY <1>7
<1> DEFINE after == CHOOSE k : k = body(k)
<1>9. after = body(after)
  BY <1>8, Zenon
<1>10. Routed(parts, ss, f) = after[N]
  BY Zenon DEF Routed
<1> HIDE DEF after
<1>11. after[0] = parts
  <2>1. 0 \in 0 .. N
    BY <1>1
  <2>2. body(after)[0] = parts
    BY <2>1
  <2> HIDE DEF body
  <2> QED
    BY <1>9, <2>2
<1>12. \A i \in 1 .. N : after[i] = next(i, after[i - 1])
  <2> SUFFICES ASSUME NEW i \in 1 .. N PROVE after[i] = next(i, after[i - 1])
    OBVIOUS
  <2>1. i \in 0 .. N /\ i # 0
    BY <1>1
  <2>2. body(after)[i] = next(i, after[i - 1])
    <3> HIDE DEF next, N
    <3> QED
      BY <2>1
  <2> HIDE DEF body, next
  <2> QED
    BY <1>9, <2>2
<1>13. \A i \in 0 .. N : after[i] \in Holdings
  <2> DEFINE T == {i \in Nat : i <= N => after[i] \in Holdings}
  <2>1. 0 \in T
    BY <1>11
  <2>2. ASSUME NEW i \in Nat, i \in T PROVE i + 1 \in T
    <3> SUFFICES ASSUME i + 1 <= N PROVE after[i + 1] \in Holdings
      OBVIOUS
    <3>1. after[i] \in Holdings /\ i + 1 \in 1 .. N /\ (i + 1) - 1 = i
      BY <1>1, <2>2
    <3> HIDE DEF next, N
    <3> QED
      BY <1>2, <1>12, <3>1
  <2>3. \A i \in Nat : i \in T
    <3> HIDE DEF T
    <3> QED
      BY <2>1, <2>2, Numbers
  <2>4. \A i \in 0 .. N : i \in Nat /\ i <= N
    BY <1>1
  <2> HIDE DEF N
  <2> QED
    BY <2>3, <2>4
<1>14. after \in [0 .. N -> Holdings]
  <2>1. body(after) = [i \in 0 .. N |-> body(after)[i]]
    OBVIOUS
  <2> HIDE DEF body, N
  <2> QED
    BY <1>9, <1>13, <2>1
<1> QED
  BY <1>10, <1>11, <1>12, <1>14 DEF Passes

(* Routing keeps every sector that it does not drop.                         *)
LEMMA RoutedContents ==
  ASSUME Connected, NEW parts \in Holdings, NEW ss \in Seq(Sectors), NEW f \in Filters
  PROVE  /\ Routed(parts, ss, f) \in Holdings
         /\ Total(Routed(parts, ss, f)) <= Total(parts) + Len(ss)
         /\ \A r : CountOf(Routed(parts, ss, f), r)
                     = CountOf(parts, r) + IF routeSector(r, f) \in Partitions THEN Times(r, ss) ELSE 0
<1>1. PICK after : Passes(after, parts, ss, f) /\ Routed(parts, ss, f) = after[Len(ss)]
  BY RoutedPasses
<1>2. Len(ss) \in Nat /\ \A i \in 1 .. Len(ss) : ss[i] \in Sectors
  BY LenProperties, ElementOfSeq
<1> DEFINE into(r, n) == IF routeSector(r, f) \in Partitions THEN Upto(r, ss, n) ELSE 0
           Sums(n) == /\ Total(after[n]) <= Total(parts) + n
                      /\ \A r : CountOf(after[n], r) = CountOf(parts, r) + into(r, n)
           T == {n \in Nat : n <= Len(ss) => Sums(n)}
<1>3. after[0] = parts /\ Total(parts) \in Nat /\ \A r : CountOf(parts, r) \in Int
  <2>1. PICK q : q \in Partitions
    BY CDBufferAssumption
  <2>2. <<>> \in Seq(Sectors)
    OBVIOUS
  <2> QED
    BY <1>1, <2>1, <2>2, TotalRange, CountUpdate DEF Passes
<1>4. 0 \in T
  <2>1. \A r : into(r, 0) = 0
    BY UptoNext
  <2> HIDE DEF into
  <2> QED
    BY <1>3, <2>1
<1>5. ASSUME NEW n \in Nat, n \in T PROVE n + 1 \in T
  <2> SUFFICES ASSUME n + 1 <= Len(ss) PROVE Sums(n + 1)
    OBVIOUS
  <2>1. Sums(n) /\ n \in 0 .. Len(ss) /\ n + 1 \in 1 .. Len(ss) /\ (n + 1) - 1 = n
    BY <1>2, <1>5
  <2> DEFINE s == ss[n + 1]
             p == routeSector(s, f)
  <2>2. after[n] \in Holdings /\ s \in Sectors /\ after[n + 1] = Into(after[n], s, p)
    BY <1>1, <1>2, <2>1 DEF Passes
  <2>3. Total(after[n]) \in Nat /\ Total(after[n + 1]) \in Nat
    <3>1. n + 1 \in 0 .. Len(ss)
      BY <2>1
    <3>2. after[n + 1] \in Holdings
      BY <1>1, <3>1 DEF Passes
    <3> QED
      BY <2>2, <3>2, TotalRange
  <2>4. Total(after[n + 1]) <= Total(after[n]) + 1
    <3> HIDE DEF s, p
    <3> QED
      BY <2>2, IntoContents
  <2>5. Total(after[n + 1]) <= Total(parts) + (n + 1)
    BY <1>3, <2>1, <2>3, <2>4
  <2>6. ASSUME NEW r PROVE CountOf(after[n + 1], r) = CountOf(parts, r) + into(r, n + 1)
    <3>1. CountOf(after[n + 1], r) = CountOf(after[n], r) + IF p \in Partitions /\ r = s THEN 1 ELSE 0
      <4> HIDE DEF s, p
      <4> QED
        BY <2>2, IntoContents
    <3>2. CountOf(after[n], r) = CountOf(parts, r) + into(r, n)
      BY <2>1
    <3>3. Upto(r, ss, n + 1) = Upto(r, ss, n) + (IF s = r THEN 1 ELSE 0) /\ Upto(r, ss, n) \in Nat
      BY UptoNext
    <3>4. into(r, n + 1) = into(r, n) + (IF p \in Partitions /\ r = s THEN 1 ELSE 0) /\ into(r, n) \in Nat
      <4>1. CASE r = s
        BY <3>3, <4>1
      <4>2. CASE r # s
        BY <3>3, <4>2
      <4> QED
        BY <4>1, <4>2
    <3>5. CountOf(parts, r) \in Int
      BY <1>3
    <3> HIDE DEF into, p, s
    <3> QED
      BY <3>1, <3>2, <3>4, <3>5
  <2> QED
    BY <2>5, <2>6
<1>6. \A n \in Nat : n \in T
  <2> HIDE DEF T
  <2> QED
    BY <1>4, <1>5, Numbers
<1>7. Sums(Len(ss))
  BY <1>2, <1>6
<1>8. \A r : Times(r, ss) = Upto(r, ss, Len(ss))
  <2>1. DOMAIN ss = 1 .. Len(ss)
    BY LenProperties
  <2> QED
    BY <2>1 DEF Times, Upto
<1>9. Routed(parts, ss, f) \in Holdings
  BY <1>1, <1>2 DEF Passes
<1> QED
  BY <1>1, <1>7, <1>8, <1>9

-----------------------------------------------------------------------------
(* The inductive invariant                                                   *)

Types ==
  /\ partitions \in Holdings /\ Connected /\ device \in Filters \cup {Off}
  /\ transferActive \in BOOLEAN
  /\ putSectorsRemaining \in Nat /\ (putSectorsRemaining > 0 => putBufNum \in Partitions)
  /\ made \in 0 .. MaxSectors
  /\ del = NoDeletion \/ del \in [part : Partitions, start : Nat \ {0}, count : Nat \ {0}]

(* There is room for what is there and what a put still has to write.        *)
Fits == totalSectors + putSectorsRemaining <= Room \/ overlapped

(* What a deferred deletion names is what was sent.                          *)
Deferred ==
  /\ dataTransferType = "getThenDelete" => transferActive
  /\ del.part # Off /\ ~shrunk =>
       /\ del.part \in Partitions /\ del.start \in Nat \ {0} /\ del.count \in Nat \ {0}
       /\ del.start + del.count - 1 <= Len(partitions[del.part])
       /\ sent = SubSeq(partitions[del.part], del.start, del.start + del.count - 1)

IInv == Types /\ Fits /\ Deferred

LEMMA Numbered ==
  /\ Room \in Nat \ {0} /\ MaxSectors \in Nat /\ Off \notin Partitions /\ Partitions = Filters
  /\ \A n \in Positions : n \in Nat \ {0}
BY CDBufferAssumption DEF Positions

LEMMA Sums ==
  /\ totalSectors = Total(partitions) /\ totalSectors' = Total(partitions')
  /\ \A s : Count(s) = CountOf(partitions, s)
BY DEF totalSectors, Total, Count, CountOf

LEMMA EmptyContents == Empty \in Holdings /\ Total(Empty) = 0
<1>1. Empty \in Holdings
  BY DEF Empty, Holdings
<1> QED
  BY <1>1, TotalRange

(* The buffer changes by a partition that loses sectors.                     *)
LEMMA Smaller ==
  ASSUME NEW parts \in Holdings, NEW q \in Partitions, NEW t \in Seq(Sectors), Len(t) <= Len(parts[q])
  PROVE  [parts EXCEPT ![q] = t] \in Holdings /\ Total([parts EXCEPT ![q] = t]) <= Total(parts)
<1>1. /\ [parts EXCEPT ![q] = t] \in Holdings
      /\ Total(parts) \in Int /\ Len(parts[q]) \in Nat /\ Len(t) \in Nat
      /\ Total([parts EXCEPT ![q] = t]) = Total(parts) - Len(parts[q]) + Len(t)
  BY TotalUpdate
<1> QED
  BY <1>1

-----------------------------------------------------------------------------
(* What a step does to the contents, the filters and the transfer            *)

(* The sectors a step brings in are within the room there was.               *)
Bounded ==
  \/ putSectorsRemaining' = putSectorsRemaining /\ (totalSectors' <= totalSectors \/ totalSectors' <= Room)
  \/ totalSectors' + putSectorsRemaining' <= totalSectors + putSectorsRemaining
  \/ totalSectors' + putSectorsRemaining' <= Room

Step == Types' /\ Bounded

LEMMA Selecting ==
  ASSUME IInv, UNCHANGED <<transfer, made>>,
         partitions' \in Holdings, Total(partitions') <= Total(partitions),
         Connected', device' \in Filters \cup {Off}
  PROVE  Step
<1>1. Types'
  BY DEF IInv, Types, transfer
<1>2. Bounded
  BY Sums DEF Bounded, transfer
<1> QED
  BY <1>1, <1>2 DEF Step

LEMMA ReadSectorStep == IInv /\ ReadSector => Step
<1> SUFFICES ASSUME IInv, ReadSector PROVE Step
  OBVIOUS
<1> DEFINE ss == <<made'>>
<1>1. made + 1 \in Sectors /\ made' = made + 1 /\ made' \in 0 .. MaxSectors
  BY Numbered DEF ReadSector, IInv, Types, Sectors
<1>2. ss \in Seq(Sectors) /\ Len(ss) = 1
  BY <1>1
<1>3. Connected /\ partitions \in Holdings /\ device \in Filters /\ partitions' = Routed(partitions, ss, device)
  BY DEF ReadSector, IInv, Types
<1>4. partitions' \in Holdings /\ Total(partitions') <= Total(partitions) + 1
  <2> HIDE DEF ss
  <2> QED
    BY <1>2, <1>3, RoutedContents
<1>5. Types'
  BY <1>1, <1>4 DEF ReadSector, IInv, Types, Connected, selectors, transfer
<1>6. Bounded
  <2>1. Total(partitions) < Room /\ Total(partitions) \in Nat /\ Total(partitions') \in Nat
    BY <1>3, <1>4, Sums, TotalRange DEF ReadSector
  <2>2. Total(partitions') <= Room
    BY <1>4, <2>1, Numbered
  <2> QED
    BY <2>2, Sums DEF ReadSector, transfer, Bounded
<1> QED
  BY <1>5, <1>6 DEF Step

LEMMA MpegFeedStep ==
  ASSUME IInv, NEW p \in Partitions, NEW n \in Positions, MpegFeed(p, n) PROVE Step
<1> DEFINE t == SubSeq(partitions[p], n + 1, Len(partitions[p]))
<1>1. partitions \in Holdings /\ partitions[p] \in Seq(Sectors) /\ n \in 1 .. Len(partitions[p])
  BY DEF IInv, Types, Holdings, MpegFeed
<1>2. t \in Seq(Sectors) /\ Len(t) <= Len(partitions[p])
  BY <1>1
<1>3. partitions' = [partitions EXCEPT ![p] = t]
  BY DEF MpegFeed
<1>4. partitions' \in Holdings /\ Total(partitions') <= Total(partitions)
  <2> HIDE DEF t
  <2> QED
    BY <1>1, <1>2, <1>3, Smaller
<1> QED
  BY <1>4, Selecting DEF MpegFeed, selectors, IInv, Types, Connected

LEMMA SelectorStep == IInv /\ Selector => Step
<1> SUFFICES ASSUME IInv, Selector PROVE Step
  OBVIOUS
<1>0. partitions \in Holdings /\ Connected /\ device \in Filters \cup {Off} /\ Total(partitions) \in Nat
  BY TotalRange DEF IInv, Types
<1>a. \A f \in Filters : filters[f] \in Filter /\ filters[f].accept \in SUBSET Sectors
        /\ filters[f].trueConn \in Partitions \cup {Off} /\ filters[f].falseConn \in Filters \cup {Off}
  BY <1>0 DEF Connected, Filter
<1>1. CASE cmdSetCDDeviceConnection
  BY <1>0, <1>1, Selecting DEF cmdSetCDDeviceConnection, Setup, Issue, Connected
<1>2. ASSUME NEW f \in Filters, cmdSetFilterConditions(f) PROVE Step
  <2>1. PICK a \in Accepts : filters' = [filters EXCEPT ![f].accept = a]
    BY <1>2 DEF cmdSetFilterConditions
  <2>2. a \in SUBSET Sectors
    BY CDBufferAssumption DEF Sectors
  <2>3. [filters[f] EXCEPT !.accept = a] \in Filter
    BY <1>a, <2>2 DEF Filter
  <2>4. Connected'
    BY <1>0, <2>1, <2>3 DEF Connected
  <2> QED
    BY <1>0, <1>2, <2>4, Selecting DEF cmdSetFilterConditions, Setup, Issue
<1>3. ASSUME NEW f \in Filters, cmdSetFilterConnection(f) PROVE Step
  <2>1. PICK p \in Partitions \cup {Off}, g \in Filters \cup {Off} :
          filters' = [filters EXCEPT ![f] = [@ EXCEPT !.trueConn = p, !.falseConn = g]]
    BY <1>3 DEF cmdSetFilterConnection
  <2>2. [filters[f] EXCEPT !.trueConn = p, !.falseConn = g] \in Filter
    BY <1>a DEF Filter
  <2>3. Connected'
    BY <1>0, <2>1, <2>2 DEF Connected
  <2> QED
    BY <1>0, <1>3, <2>3, Selecting DEF cmdSetFilterConnection, Setup, Issue
<1>4. CASE cmdResetSelector
  <2>1. UNCHANGED <<transfer, made>>
    BY <1>4 DEF cmdResetSelector, Setup, Issue
  <2>2. ASSUME NEW p \in Partitions, partitions' = [partitions EXCEPT ![p] = <<>>], UNCHANGED selectors PROVE Step
    <3>1. <<>> \in Seq(Sectors) /\ Len(<<>>) <= Len(partitions[p])
      BY <1>0 DEF Holdings
    <3>2. partitions' \in Holdings /\ Total(partitions') <= Total(partitions)
      BY <1>0, <2>2, <3>1, Smaller
    <3> QED
      BY <1>0, <2>1, <2>2, <3>2, Selecting DEF selectors, Connected
  <2>3. ASSUME NEW flags \in SUBSET {"partitions", "conditions", "device", "true", "false"},
               partitions' = IF "partitions" \in flags THEN Empty ELSE partitions,
               device' = IF "device" \in flags THEN Off ELSE device,
               filters' = [f \in Filters |->
                 [accept |-> IF "conditions" \in flags THEN Sectors ELSE filters[f].accept,
                  trueConn |-> IF "true" \in flags THEN f ELSE filters[f].trueConn,
                  falseConn |-> IF "false" \in flags THEN Off ELSE filters[f].falseConn]]
        PROVE  Step
    <3>1. partitions' \in Holdings /\ Total(partitions') <= Total(partitions)
      BY <1>0, <2>3, EmptyContents
    <3>2. Connected'
      <4>1. ASSUME NEW f \in Filters PROVE filters'[f] \in Filter
        BY <1>a, <2>3, Numbered DEF Filter
      <4> QED
        BY <2>3, <4>1 DEF Connected
    <3>3. device' \in Filters \cup {Off}
      BY <1>0, <2>3
    <3> QED
      BY <2>1, <3>1, <3>2, <3>3, Selecting
  <2>4. \/ (\E p \in Partitions : partitions' = [partitions EXCEPT ![p] = <<>>]) /\ UNCHANGED selectors
        \/ \E flags \in SUBSET {"partitions", "conditions", "device", "true", "false"} :
             /\ partitions' = IF "partitions" \in flags THEN Empty ELSE partitions
             /\ device' = IF "device" \in flags THEN Off ELSE device
             /\ filters' = [f \in Filters |->
                  [accept |-> IF "conditions" \in flags THEN Sectors ELSE filters[f].accept,
                   trueConn |-> IF "true" \in flags THEN f ELSE filters[f].trueConn,
                   falseConn |-> IF "false" \in flags THEN Off ELSE filters[f].falseConn]]
    BY <1>4 DEF cmdResetSelector
  <2> QED
    BY <2>2, <2>3, <2>4
<1>5. CASE cmdInitCDSystem
  <2>1. partitions' = Empty /\ filters' = NoFilters /\ device' = Off /\ made' = made
        /\ transferActive' = FALSE /\ del' = NoDeletion /\ putSectorsRemaining' = 0 /\ putBufNum' = putBufNum
    BY <1>5 DEF cmdInitCDSystem, Issue
  <2>2. Connected'
    BY <2>1, Numbered DEF Connected, NoFilters, Filter
  <2>3. Types'
    <3>1. partitions' \in Holdings /\ device' \in Filters \cup {Off} /\ transferActive' \in BOOLEAN
      BY <2>1, EmptyContents
    <3>2. putSectorsRemaining' \in Nat /\ ~(putSectorsRemaining' > 0) /\ made' \in 0 .. MaxSectors
      BY <2>1 DEF IInv, Types
    <3> QED
      BY <2>1, <2>2, <3>1, <3>2 DEF Types, NoDeletion
  <2>4. Bounded
    BY <2>1, EmptyContents, Sums, Numbered DEF Bounded
  <2> QED
    BY <2>3, <2>4 DEF Step
<1> QED
  BY <1>1, <1>2, <1>3, <1>4, <1>5 DEF Selector

(* The sectors a command names are there.                                    *)
LEMMA SectorsThere ==
  ASSUME IInv, NEW p \in Partitions, NEW start \in Positions, NEW count \in Positions,
         validateSectorRange(p, start, count)
  PROVE  /\ partitions \in Holdings /\ partitions[p] \in Seq(Sectors)
         /\ start \in Nat \ {0} /\ count \in Nat \ {0} /\ start + count - 1 <= Len(partitions[p])
         /\ SubSeq(partitions[p], start, start + count - 1) \in Seq(Sectors)
         /\ Len(SubSeq(partitions[p], start, start + count - 1)) = count
<1>1. /\ partitions \in Holdings /\ partitions[p] \in Seq(Sectors)
      /\ start \in Nat \ {0} /\ count \in Nat \ {0} /\ start + count - 1 <= Len(partitions[p])
  BY Numbered DEF IInv, Types, Holdings, validateSectorRange
<1> QED
  BY <1>1, CutLeaves

(* Sectors taken out of a partition, as many as there are.                   *)
LEMMA CutStep ==
  ASSUME IInv, NEW p \in Partitions, NEW start \in Nat \ {0}, NEW count \in Nat \ {0},
         NEW parts, parts = [partitions EXCEPT ![p] = Cut(@, start, count)]
  PROVE  parts \in Holdings /\ Total(parts) <= Total(partitions) /\ Total(parts) \in Nat /\ Total(partitions) \in Nat
<1>1. partitions \in Holdings /\ partitions[p] \in Seq(Sectors)
  BY DEF IInv, Types, Holdings
<1> DEFINE t == Cut(partitions[p], start, count)
<1>2. t \in Seq(Sectors) /\ Len(t) <= Len(partitions[p])
  BY <1>1, CutLeaves
<1>3. parts = [partitions EXCEPT ![p] = t]
  OBVIOUS
<1> HIDE DEF t
<1>4. parts \in Holdings /\ Total(parts) <= Total(partitions)
  BY <1>1, <1>2, <1>3, Smaller
<1> QED
  BY <1>1, <1>4, TotalRange

LEMMA MoveContents ==
  ASSUME IInv, NEW f \in Filters, NEW p \in Partitions, NEW start \in Positions, NEW count \in Positions,
         cmdMoveSectorData(f, p, start, count)
  PROVE  /\ partitions' \in Holdings /\ Total(partitions') <= Total(partitions)
         /\ \A s : CountOf(partitions', s)
                     = CountOf(partitions, s)
                         - IF routeSector(s, f) \in Partitions THEN 0
                           ELSE Times(s, SubSeq(partitions[p], start, start + count - 1))
<1> DEFINE ss == SubSeq(partitions[p], start, start + count - 1)
           t == Cut(partitions[p], start, count)
           parts == [partitions EXCEPT ![p] = t]
<1>1. validateSectorRange(p, start, count) /\ partitions' = Routed(parts, ss, f)
  BY DEF cmdMoveSectorData
<1>2. /\ partitions \in Holdings /\ partitions[p] \in Seq(Sectors)
      /\ start \in Nat \ {0} /\ count \in Nat \ {0} /\ start + count - 1 <= Len(partitions[p])
      /\ ss \in Seq(Sectors) /\ Len(ss) = count
  BY <1>1, SectorsThere
<1>3. /\ t \in Seq(Sectors) /\ Len(t) = Len(partitions[p]) - count /\ Len(partitions[p]) \in Nat
      /\ \A s : Times(s, partitions[p]) = Times(s, t) + Times(s, ss)
  BY <1>2, CutLeaves
<1>4. Connected
  BY DEF IInv, Types
<1>5. parts \in Holdings /\ Total(partitions) \in Nat /\ Total(parts) = Total(partitions) - count
  <2>1. parts \in Holdings /\ Total(parts) = Total(partitions) - Len(partitions[p]) + Len(t) /\ Total(partitions) \in Nat
    <3> HIDE DEF t
    <3> QED
      BY <1>2, <1>3, TotalUpdate, TotalRange
  <2> HIDE DEF parts, t
  <2> QED
    BY <1>2, <1>3, <2>1
<1>6. /\ partitions' \in Holdings /\ Total(partitions') <= Total(parts) + count
      /\ \A r : CountOf(partitions', r)
                  = CountOf(parts, r) + IF routeSector(r, f) \in Partitions THEN Times(r, ss) ELSE 0
  <2> HIDE DEF ss, parts
  <2> QED
    BY <1>1, <1>2, <1>4, <1>5, RoutedContents
<1>7. Total(partitions') <= Total(partitions)
  <2>1. Total(partitions') \in Nat
    BY <1>6, TotalRange
  <2> HIDE DEF parts
  <2> QED
    BY <1>2, <1>5, <1>6, <2>1
<1>8. ASSUME NEW s
      PROVE  CountOf(partitions', s) = CountOf(partitions, s)
                - IF routeSector(s, f) \in Partitions THEN 0 ELSE Times(s, ss)
  <2>1. CountOf(partitions, s) \in Int /\ CountOf(parts, s) = CountOf(partitions, s) - Times(s, partitions[p]) + Times(s, t)
    <3> HIDE DEF t
    <3> QED
      BY <1>2, <1>3, CountUpdate
  <2>2. Times(s, ss) \in Nat /\ Times(s, t) \in Nat /\ Times(s, partitions[p]) = Times(s, t) + Times(s, ss)
    <3> HIDE DEF ss, t
    <3> QED
      BY <1>2, <1>3, TimesConcat
  <2>3. CountOf(partitions', s) = CountOf(parts, s) + IF routeSector(s, f) \in Partitions THEN Times(s, ss) ELSE 0
    BY <1>6
  <2> HIDE DEF ss, t, parts
  <2>4. CASE routeSector(s, f) \in Partitions
    BY <2>1, <2>2, <2>3, <2>4
  <2>5. CASE routeSector(s, f) \notin Partitions
    BY <2>1, <2>2, <2>3, <2>5
  <2> QED
    BY <2>4, <2>5
<1> QED
  BY <1>6, <1>7, <1>8

LEMMA RangeStep ==
  ASSUME IInv, NEW p \in Partitions, NEW start \in Positions, NEW count \in Positions
  PROVE  /\ cmdGetSectorData(p, start, count) => Step
         /\ cmdDeleteSectorData(p, start, count) => Step
         /\ cmdGetThenDelete(p, start, count) => Step
         /\ \A f \in Filters : cmdCopySectorData(f, p, start, count) => Step
         /\ \A f \in Filters : cmdMoveSectorData(f, p, start, count) => Step
<1>0. partitions \in Holdings /\ Connected /\ device \in Filters \cup {Off} /\ start \in Nat \ {0} /\ count \in Nat \ {0}
      /\ Total(partitions) \in Nat
  BY Numbered, TotalRange DEF IInv, Types
<1>1. ASSUME cmdGetSectorData(p, start, count) PROVE Step
  <2>1. Types'
    BY <1>1 DEF cmdGetSectorData, Issue, IInv, Types, selectors, Connected
  <2>2. Bounded
    BY <1>0, <1>1, Sums DEF cmdGetSectorData, Bounded
  <2> QED
    BY <2>1, <2>2 DEF Step
<1>2. ASSUME cmdDeleteSectorData(p, start, count) PROVE Step
  <2>1. partitions' \in Holdings /\ Total(partitions') <= Total(partitions)
    BY <1>0, <1>2, CutStep DEF cmdDeleteSectorData
  <2> QED
    BY <1>0, <1>2, <2>1, Selecting DEF cmdDeleteSectorData, Issue, selectors, Connected
<1>3. ASSUME cmdGetThenDelete(p, start, count) PROVE Step
  <2>1. del' \in [part : Partitions, start : Nat \ {0}, count : Nat \ {0}]
    BY <1>0, <1>3 DEF cmdGetThenDelete
  <2>2. Types'
    BY <1>3, <2>1 DEF cmdGetThenDelete, Issue, IInv, Types, selectors, Connected
  <2>3. Bounded
    BY <1>0, <1>3, Sums DEF cmdGetThenDelete, Bounded
  <2> QED
    BY <2>2, <2>3 DEF Step
<1>4. ASSUME NEW f \in Filters, cmdCopySectorData(f, p, start, count) PROVE Step
  <2> DEFINE ss == SubSeq(partitions[p], start, start + count - 1)
  <2>1. partitions' = Routed(partitions, ss, f) /\ totalSectors + count <= Room /\ validateSectorRange(p, start, count)
    BY <1>4 DEF cmdCopySectorData
  <2>2. ss \in Seq(Sectors) /\ Len(ss) = count
    BY <2>1, SectorsThere
  <2>3. partitions' \in Holdings /\ Total(partitions') <= Total(partitions) + count
    <3> HIDE DEF ss
    <3> QED
      BY <1>0, <2>1, <2>2, RoutedContents
  <2>4. totalSectors' <= Room
    <3>1. Total(partitions') \in Nat
      BY <2>3, TotalRange
    <3> QED
      BY <1>0, <2>1, <2>3, <3>1, Sums, Numbered
  <2>5. Types'
    BY <1>4, <2>3 DEF cmdCopySectorData, Issue, IInv, Types, selectors, transfer, Connected
  <2>6. Bounded
    BY <1>4, <2>4 DEF cmdCopySectorData, transfer, Bounded
  <2> QED
    BY <2>5, <2>6 DEF Step
<1>5. ASSUME NEW f \in Filters, cmdMoveSectorData(f, p, start, count) PROVE Step
  <2>1. partitions' \in Holdings /\ Total(partitions') <= Total(partitions)
    BY <1>5, MoveContents
  <2> QED
    BY <1>0, <1>5, <2>1, Selecting DEF cmdMoveSectorData, Issue, selectors, Connected
<1> QED
  BY <1>1, <1>2, <1>3, <1>4, <1>5

LEMMA TransferStep ==
  ASSUME IInv
  PROVE  /\ \A p \in Partitions, count \in 1 .. Room : cmdPutSectorData(p, count) => Step
         /\ checkPutSector => Step
         /\ OtherData => Step
         /\ cmdEndDataTransfer => Step
<1>0. partitions \in Holdings /\ Connected /\ device \in Filters \cup {Off}
      /\ Total(partitions) \in Nat /\ putSectorsRemaining \in Nat
  BY TotalRange DEF IInv, Types
<1>1. ASSUME NEW p \in Partitions, NEW count \in 1 .. Room, cmdPutSectorData(p, count) PROVE Step
  <2>1. totalSectors + count <= Room /\ putBufNum' = p /\ putSectorsRemaining' = count /\ partitions' = partitions
    BY <1>1 DEF cmdPutSectorData
  <2>2. Types'
    BY <1>1 DEF cmdPutSectorData, Issue, IInv, Types, selectors, Connected
  <2>3. Bounded
    BY <2>1, Sums DEF Bounded
  <2> QED
    BY <2>2, <2>3 DEF Step
<1>2. ASSUME checkPutSector PROVE Step
  <2>1. /\ putSectorsRemaining > 0 /\ putSectorsRemaining' = putSectorsRemaining - 1
        /\ made' = made + 1 /\ made' \in Sectors /\ made' \in 0 .. MaxSectors /\ putBufNum \in Partitions
        /\ partitions' = [partitions EXCEPT ![putBufNum] = Append(@, made')]
    BY <1>2, Numbered DEF checkPutSector, IInv, Types, Sectors
  <2> DEFINE t == Append(partitions[putBufNum], made')
  <2>2. partitions[putBufNum] \in Seq(Sectors)
    BY <1>0, <2>1 DEF Holdings
  <2>3. t \in Seq(Sectors) /\ Len(t) = Len(partitions[putBufNum]) + 1
    BY <2>1, <2>2
  <2>4. partitions' = [partitions EXCEPT ![putBufNum] = t]
    BY <2>1
  <2>5. /\ partitions' \in Holdings /\ Total(partitions') \in Nat
        /\ Total(partitions') = Total(partitions) - Len(partitions[putBufNum]) + Len(t)
        /\ Len(partitions[putBufNum]) \in Nat
    <3> DEFINE q == putBufNum
    <3>1. q \in Partitions /\ t \in Seq(Sectors) /\ partitions' = [partitions EXCEPT ![q] = t]
      BY <2>1, <2>3, <2>4
    <3> HIDE DEF t, q
    <3>2. /\ partitions' \in Holdings
          /\ Total(partitions') = Total(partitions) - Len(partitions[q]) + Len(t)
          /\ Len(partitions[q]) \in Nat
      BY <1>0, <3>1, TotalUpdate
    <3>3. Total(partitions') \in Nat
      BY <3>2, TotalRange
    <3> QED
      BY <3>2, <3>3 DEF q
  <2>6. Types'
    BY <1>0, <1>2, <2>1, <2>5 DEF checkPutSector, IInv, Types, selectors, Connected
  <2>7. Bounded
    <3>1. Total(partitions') = Total(partitions) + 1
      <4> HIDE DEF t
      <4> QED
        BY <1>0, <2>3, <2>5
    <3> QED
      BY <1>0, <2>1, <3>1, Sums DEF Bounded
  <2> QED
    BY <2>6, <2>7 DEF Step
<1>3. ASSUME OtherData PROVE Step
  <2>1. Types'
    BY <1>3 DEF OtherData, Issue, IInv, Types, selectors, Connected
  <2>2. Bounded
    BY <1>0, <1>3, Sums DEF OtherData, Bounded
  <2> QED
    BY <2>1, <2>2 DEF Step
<1>4. ASSUME cmdEndDataTransfer PROVE Step
  <2>1. /\ partitions' \in Holdings /\ Total(partitions') <= Total(partitions)
        /\ del' = NoDeletion \/ del' = del
    <3>1. CASE dataTransferType = "getThenDelete" /\ del.part \in Partitions
      <4>1. del.start \in Nat \ {0} /\ del.count \in Nat \ {0}
        BY <3>1, Numbered DEF IInv, Types, NoDeletion
      <4>2. partitions' = [partitions EXCEPT ![del.part] = Cut(@, del.start, del.count)] /\ del' = NoDeletion
        BY <1>4, <3>1 DEF cmdEndDataTransfer
      <4> QED
        BY <3>1, <4>1, <4>2, CutStep
    <3>2. CASE ~(dataTransferType = "getThenDelete" /\ del.part \in Partitions)
      BY <1>0, <1>4, <3>2 DEF cmdEndDataTransfer
    <3> QED
      BY <3>1, <3>2
  <2>2. Types'
    <3>1. putSectorsRemaining' = 0 /\ filters' = filters /\ device' = device /\ made' = made
      BY <1>4 DEF cmdEndDataTransfer, selectors
    <3>2. del' = NoDeletion \/ del' \in [part : Partitions, start : Nat \ {0}, count : Nat \ {0}]
      BY <2>1 DEF IInv, Types
    <3>3. Connected' /\ device' \in Filters \cup {Off} /\ made' \in 0 .. MaxSectors
      BY <1>0, <3>1 DEF IInv, Types, Connected
    <3>4. putSectorsRemaining' \in Nat /\ ~(putSectorsRemaining' > 0)
      BY <3>1
    <3>5. transferActive' \in BOOLEAN
      BY <1>4 DEF cmdEndDataTransfer
    <3> QED
      BY <2>1, <3>2, <3>3, <3>4, <3>5 DEF Types, NoDeletion
  <2>3. Bounded
    <3>1. putSectorsRemaining' = 0
      BY <1>4 DEF cmdEndDataTransfer
    <3>2. Total(partitions') \in Nat
      BY <2>1, TotalRange
    <3> QED
      BY <1>0, <2>1, <3>1, <3>2, Sums DEF Bounded
  <2> QED
    BY <2>2, <2>3 DEF Step
<1> QED
  BY <1>1, <1>2, <1>3, <1>4

(* What a step does to the deferred deletion: leave it, forget it, or begin  *)
(* one.                                                                      *)
Begins(p, start, count) ==
  /\ ~transferActive /\ validateSectorRange(p, start, count) /\ partitions' = partitions
  /\ del' = [part |-> p, start |-> start, count |-> count]
  /\ transferActive' = TRUE /\ dataTransferType' = "getThenDelete"
KeepsDeletion == del' = del /\ (UNCHANGED <<dataTransferType, transferActive>> \/ dataTransferType' # "getThenDelete")
ForgetsDeletion == del' = NoDeletion /\ dataTransferType' # "getThenDelete"
Deferral == KeepsDeletion \/ ForgetsDeletion \/ \E p \in Partitions, start \in Positions, count \in Positions : Begins(p, start, count)

LEMMA StepsDefer == Drive \/ Selector \/ Sector => Deferral
<1> SUFFICES ASSUME Drive \/ Selector \/ Sector PROVE Deferral
  OBVIOUS
<1>1. CASE Drive
  BY <1>1 DEF Drive, ReadSector, MpegFeed, transfer, Deferral, KeepsDeletion
<1>2. CASE Selector
  <2>1. (Setup => KeepsDeletion) /\ (cmdInitCDSystem => ForgetsDeletion)
    BY DEF Setup, transfer, cmdInitCDSystem, KeepsDeletion, ForgetsDeletion
  <2>2. Setup \/ cmdInitCDSystem
    BY <1>2 DEF Selector, cmdSetCDDeviceConnection, cmdResetSelector, cmdSetFilterConditions, cmdSetFilterConnection
  <2> QED
    BY <2>1, <2>2 DEF Deferral
<1>3. CASE Sector
  <2>1. ASSUME NEW p \in Partitions, NEW start \in Positions, NEW count \in Positions
        PROVE  /\ cmdGetSectorData(p, start, count) => KeepsDeletion
               /\ cmdDeleteSectorData(p, start, count) => KeepsDeletion
               /\ cmdGetThenDelete(p, start, count) => Begins(p, start, count)
               /\ \A f \in Filters : cmdCopySectorData(f, p, start, count) => KeepsDeletion
               /\ \A f \in Filters : cmdMoveSectorData(f, p, start, count) => KeepsDeletion
    BY DEF cmdGetSectorData, cmdDeleteSectorData, cmdGetThenDelete, cmdCopySectorData, cmdMoveSectorData,
           transfer, KeepsDeletion, Begins
  <2>2. /\ \A p \in Partitions, count \in 1 .. Room : cmdPutSectorData(p, count) => KeepsDeletion
        /\ checkPutSector => KeepsDeletion
        /\ OtherData => KeepsDeletion
        /\ cmdEndDataTransfer => KeepsDeletion \/ ForgetsDeletion
    BY DEF cmdPutSectorData, checkPutSector, OtherData, cmdEndDataTransfer, KeepsDeletion, ForgetsDeletion
  <2> QED
    BY <1>3, <2>1, <2>2 DEF Sector, Deferral
<1> QED
  BY <1>1, <1>2, <1>3

LEMMA Steps == IInv /\ (Drive \/ Selector \/ Sector) => Step
<1>1. IInv /\ Drive => Step
  BY ReadSectorStep, MpegFeedStep DEF Drive
<1>2. IInv /\ Selector => Step
  BY SelectorStep
<1>3. IInv /\ Sector => Step
  BY RangeStep, TransferStep DEF Sector
<1> QED
  BY <1>1, <1>2, <1>3

LEMMA FitsStep ==
  ASSUME IInv, Step, History
  PROVE  Fits'
<1>1. /\ totalSectors \in Nat /\ totalSectors' \in Nat
      /\ putSectorsRemaining \in Nat /\ putSectorsRemaining' \in Nat /\ Room \in Nat
  BY Sums, TotalRange, Numbered DEF IInv, Step, Types
<1>2. totalSectors + putSectorsRemaining <= Room \/ overlapped
  BY DEF IInv, Fits
<1>3. overlapped' = (/\ (putSectorsRemaining' > 0 \/ totalSectors' > Room)
                     /\ \/ overlapped
                        \/ putSectorsRemaining' > 0 /\ putSectorsRemaining' = putSectorsRemaining
                           /\ totalSectors' > totalSectors)
  BY DEF History
<1>4. Bounded
  BY DEF Step
<1> SUFFICES ASSUME ~overlapped' PROVE totalSectors' + putSectorsRemaining' <= Room
  BY DEF Fits
<1>5. CASE putSectorsRemaining' > 0 \/ totalSectors' > Room
  <2>1. ~overlapped
    BY <1>3, <1>5
  <2>2. totalSectors + putSectorsRemaining <= Room
    BY <1>2, <2>1
  <2>3. ~(putSectorsRemaining' > 0 /\ putSectorsRemaining' = putSectorsRemaining /\ totalSectors' > totalSectors)
    BY <1>3, <1>5
  <2>4. \A a \in Nat, b \in Nat, c \in Nat, d \in Nat, room \in Nat :
          /\ a + c <= room /\ ~(d > 0 /\ d = c /\ b > a)
          /\ \/ d = c /\ (b <= a \/ b <= room)
             \/ b + d <= a + c
             \/ b + d <= room
          => b + d <= room
    OBVIOUS
  <2> QED
    BY <1>1, <1>4, <2>2, <2>3, <2>4 DEF Bounded
<1>6. CASE ~(putSectorsRemaining' > 0 \/ totalSectors' > Room)
  <2>1. \A b \in Nat, d \in Nat, room \in Nat : ~(d > 0 \/ b > room) => b + d <= room
    OBVIOUS
  <2> QED
    BY <1>1, <1>6, <2>1
<1> QED
  BY <1>5, <1>6

(* What a partition begins with stays there when it only grows.              *)
LEMMA PrefixKeeps ==
  ASSUME NEW a \in Seq(Sectors), NEW b \in Seq(Sectors), IsPrefix(a, b),
         NEW m \in Nat \ {0}, NEW n \in Nat, n <= Len(a)
  PROVE  n <= Len(b) /\ SubSeq(b, m, n) = SubSeq(a, m, n)
<1>1. Len(a) \in Nat /\ Len(b) \in Nat /\ Len(a) <= Len(b) /\ SubSeq(a, 1, Len(a)) = SubSeq(b, 1, Len(a))
  BY DEF IsPrefix
<1>2. \A i \in 1 .. Len(a) : a[i] = b[i]
  <2> SUFFICES ASSUME NEW i \in 1 .. Len(a) PROVE a[i] = b[i]
    OBVIOUS
  <2>1. SubSeq(a, 1, Len(a))[i] = a[i] /\ SubSeq(b, 1, Len(a))[i] = b[i]
    BY <1>1
  <2> QED
    BY <1>1, <2>1
<1> DEFINE k == n - m + 1
<1>3. \A i \in 1 .. k : SubSeq(a, m, n)[i] = a[m + i - 1] /\ SubSeq(b, m, n)[i] = b[m + i - 1]
        /\ m + i - 1 \in 1 .. Len(a)
  BY <1>1
<1>4. SubSeq(a, m, n) = [i \in 1 .. k |-> a[m + i - 1]] /\ SubSeq(b, m, n) = [i \in 1 .. k |-> b[m + i - 1]]
  BY <1>1
<1>5. \A i \in 1 .. k : a[m + i - 1] = b[m + i - 1]
  BY <1>2, <1>3
<1> HIDE DEF k
<1> QED
  BY <1>1, <1>4, <1>5

LEMMA DeferredStep ==
  ASSUME IInv, Step, Deferral, History
  PROVE  Deferred'
<1>1. dataTransferType' = "getThenDelete" => transferActive'
  BY DEF IInv, Deferred, Deferral, KeepsDeletion, ForgetsDeletion, Begins
<1>2. ASSUME del'.part # Off, ~shrunk'
      PROVE  /\ del'.part \in Partitions /\ del'.start \in Nat \ {0} /\ del'.count \in Nat \ {0}
             /\ del'.start + del'.count - 1 <= Len(partitions'[del'.part])
             /\ sent' = SubSeq(partitions'[del'.part], del'.start, del'.start + del'.count - 1)
  <2>1. ASSUME NEW p \in Partitions, NEW start \in Positions, NEW count \in Positions, Begins(p, start, count)
        PROVE  /\ del'.part \in Partitions /\ del'.start \in Nat \ {0} /\ del'.count \in Nat \ {0}
               /\ del'.start + del'.count - 1 <= Len(partitions'[del'.part])
               /\ sent' = SubSeq(partitions'[del'.part], del'.start, del'.start + del'.count - 1)
    <3>1. del'.part = p /\ del'.start = start /\ del'.count = count /\ partitions' = partitions
      BY <2>1 DEF Begins
    <3>2. dataTransferType # "getThenDelete" /\ dataTransferType' = "getThenDelete"
      BY <2>1 DEF Begins, IInv, Deferred
    <3>3. sent' = SubSeq(partitions[del'.part], del'.start, del'.start + del'.count - 1)
      BY <1>2, <3>2 DEF History
    <3>4. start + count - 1 <= Len(partitions[p])
      BY <2>1 DEF Begins, validateSectorRange
    <3> QED
      BY <3>1, <3>3, <3>4, Numbered
  <2>2. CASE KeepsDeletion
    <3>1. del' = del /\ ~(dataTransferType # "getThenDelete" /\ dataTransferType' = "getThenDelete")
      BY <2>2 DEF KeepsDeletion
    <3>2. sent' = sent /\ ~shrunk /\ IsPrefix(partitions[del.part], partitions'[del.part])
      <4>1. sent' = sent /\ shrunk' = (shrunk \/ ~IsPrefix(partitions[del.part], partitions'[del.part]))
        BY <1>2, <3>1 DEF History
      <4> QED
        BY <1>2, <4>1
    <3>3. /\ del.part \in Partitions /\ del.start \in Nat \ {0} /\ del.count \in Nat \ {0}
          /\ del.start + del.count - 1 <= Len(partitions[del.part])
          /\ sent = SubSeq(partitions[del.part], del.start, del.start + del.count - 1)
      BY <1>2, <3>1, <3>2 DEF IInv, Deferred
    <3>4. partitions[del.part] \in Seq(Sectors) /\ partitions'[del.part] \in Seq(Sectors)
      BY <3>3 DEF IInv, Step, Types, Holdings
    <3>5. del.start + del.count - 1 \in Nat
      BY <3>3
    <3>6. /\ del.start + del.count - 1 <= Len(partitions'[del.part])
          /\ SubSeq(partitions'[del.part], del.start, del.start + del.count - 1)
               = SubSeq(partitions[del.part], del.start, del.start + del.count - 1)
      BY <3>2, <3>3, <3>4, <3>5, PrefixKeeps
    <3> QED
      BY <3>1, <3>2, <3>3, <3>6
  <2>3. ~ForgetsDeletion
    BY <1>2 DEF ForgetsDeletion, NoDeletion
  <2> QED
    BY <2>1, <2>2, <2>3 DEF Deferral
<1> QED
  BY <1>1, <1>2 DEF Deferred

LEMMA Initially == Init => IInv
<1> SUFFICES ASSUME Init PROVE IInv
  OBVIOUS
<1>1. Connected
  BY Numbered DEF Init, Connected, NoFilters, Filter
<1>2. Types
  <2>1. partitions \in Holdings /\ device \in Filters \cup {Off} /\ del = NoDeletion
    BY EmptyContents DEF Init
  <2>2. putSectorsRemaining \in Nat /\ ~(putSectorsRemaining > 0) /\ made \in 0 .. MaxSectors
    BY Numbered DEF Init
  <2>3. transferActive \in BOOLEAN
    BY DEF Init
  <2> QED
    BY <1>1, <2>1, <2>2, <2>3 DEF Types, NoDeletion
<1>3. Fits
  BY EmptyContents, Sums, Numbered DEF Init, Fits
<1>4. Deferred
  BY DEF Init, Deferred, NoDeletion
<1> QED
  BY <1>2, <1>3, <1>4 DEF IInv

LEMMA Preserved == IInv /\ [Next]_vars => IInv'
<1> SUFFICES ASSUME IInv, [Next]_vars PROVE IInv'
  OBVIOUS
<1>1. CASE Next
  <2>1. Step /\ Deferral /\ History
    BY <1>1, Steps, StepsDefer DEF Next
  <2> QED
    BY <2>1, FitsStep, DeferredStep DEF Step, IInv
<1>2. CASE UNCHANGED vars
  <2>1. Types'
    BY <1>2 DEF vars, selectors, transfer, IInv, Types, Connected
  <2>2. Fits'
    BY <1>2, Sums DEF vars, transfer, IInv, Fits
  <2>3. Deferred'
    BY <1>2 DEF vars, transfer, IInv, Deferred
  <2> QED
    BY <2>1, <2>2, <2>3 DEF IInv
<1> QED
  BY <1>1, <1>2

LEMMA Inductive == Spec => []IInv
BY Initially, Preserved, PTL DEF Spec

-----------------------------------------------------------------------------
(* The theorems                                                              *)

(* A sector leaves the filters by the true connection of a filter it can     *)
(* come to that accepts it, and is dropped only when none does or one that   *)
(* does is not connected, however the filters are connected, in a loop too   *)
(* (routeSector).                                                            *)
THEOREM Routing == Spec => []RoutedIfAccepted
<1>1. IInv => RoutedIfAccepted
  BY ConnectedRoutes DEF IInv, Types
<1> QED
  BY <1>1, Inductive, PTL

(* The buffer holds its sectors at most, unless something else came into it  *)
(* during a put (checkPutSector).                                            *)
THEOREM RoomIsKept == Spec => []RoomKept
<1>1. IInv => RoomKept
  <2>1. totalSectors \in Nat /\ putSectorsRemaining \in Nat /\ Room \in Nat
        => (totalSectors + putSectorsRemaining <= Room => totalSectors <= Room)
    OBVIOUS
  <2>2. IInv => totalSectors \in Nat /\ putSectorsRemaining \in Nat /\ Room \in Nat
    BY Sums, TotalRange, Numbered DEF IInv, Types
  <2> QED
    BY <2>1, <2>2 DEF IInv, Fits, RoomKept
<1> QED
  BY <1>1, Inductive, PTL

(* The end of a transfer deletes the sectors the host was sent and no other, *)
(* while the partition has only grown (cmdEndDataTransfer).                  *)
THEOREM EndDeletesSent == Spec => EndDeletesWhatWasSent
<1> DEFINE A == cmdEndDataTransfer /\ partitions' # partitions /\ ~shrunk
                  => \E p \in Partitions : \E n \in 0 .. Len(partitions[p]) - Len(sent) :
                       /\ SubSeq(partitions[p], n + 1, n + Len(sent)) = sent
                       /\ partitions' = [partitions EXCEPT ![p] = Cut(@, n + 1, Len(sent))]
<1>1. IInv => A
  <2> SUFFICES ASSUME IInv, cmdEndDataTransfer, partitions' # partitions, ~shrunk
               PROVE  \E p \in Partitions : \E n \in 0 .. Len(partitions[p]) - Len(sent) :
                        /\ SubSeq(partitions[p], n + 1, n + Len(sent)) = sent
                        /\ partitions' = [partitions EXCEPT ![p] = Cut(@, n + 1, Len(sent))]
    OBVIOUS
  <2>1. del.part \in Partitions /\ partitions' = [partitions EXCEPT ![del.part] = Cut(@, del.start, del.count)]
    BY DEF cmdEndDataTransfer
  <2>2. /\ del.start \in Nat \ {0} /\ del.count \in Nat \ {0}
        /\ del.start + del.count - 1 <= Len(partitions[del.part])
        /\ sent = SubSeq(partitions[del.part], del.start, del.start + del.count - 1)
    BY <2>1, Numbered DEF IInv, Deferred
  <2>3. partitions[del.part] \in Seq(Sectors) /\ Len(partitions[del.part]) \in Nat
    BY <2>1 DEF IInv, Types, Holdings
  <2>4. Len(sent) = del.count
    BY <2>2, <2>3, CutLeaves
  <2> DEFINE n == del.start - 1
  <2>5. n \in 0 .. Len(partitions[del.part]) - Len(sent) /\ n + 1 = del.start /\ n + Len(sent) = del.start + del.count - 1
    <3>1. \A a \in Nat \ {0}, b \in Nat \ {0}, c \in Nat :
            a + b - 1 <= c => a - 1 \in 0 .. c - b /\ (a - 1) + 1 = a /\ (a - 1) + b = a + b - 1
      OBVIOUS
    <3>2. /\ del.start - 1 \in 0 .. Len(partitions[del.part]) - del.count
          /\ (del.start - 1) + 1 = del.start /\ (del.start - 1) + del.count = del.start + del.count - 1
      <4>1. /\ del.start \in Nat \ {0} /\ del.count \in Nat \ {0} /\ Len(partitions[del.part]) \in Nat
            /\ del.start + del.count - 1 <= Len(partitions[del.part])
        BY <2>2, <2>3
      <4> QED
        BY <3>1, <4>1, Zenon
    <3> QED
      BY <2>4, <3>2
  <2> HIDE DEF n
  <2> QED
    BY <2>1, <2>2, <2>4, <2>5
<1>2. [][IInv => A]_vars
  <2>1. [IInv => A]_vars
    BY <1>1
  <2> QED
    BY <2>1, PTL
<1> QED
  BY <1>2, Inductive, PTL DEF EndDeletesWhatWasSent

(* A move keeps every sector that the filters do not drop, wherever they     *)
(* lead (cmdMoveSectorData).                                                 *)
THEOREM MoveKeeps == Spec => MovedOnce
<1> DEFINE A == \A f \in Filters, p \in Partitions, start, count \in Positions :
                  cmdMoveSectorData(f, p, start, count)
                    => \A s \in Sectors :
                         Count(s)' = Count(s) - IF routeSector(s, f) # Off THEN 0
                                                ELSE Times(s, SubSeq(partitions[p], start, start + count - 1))
<1>1. IInv => A
  <2> SUFFICES ASSUME IInv, NEW f \in Filters, NEW p \in Partitions, NEW start \in Positions, NEW count \in Positions,
                      cmdMoveSectorData(f, p, start, count), NEW s \in Sectors
               PROVE  Count(s)' = Count(s) - IF routeSector(s, f) # Off THEN 0
                                             ELSE Times(s, SubSeq(partitions[p], start, start + count - 1))
    OBVIOUS
  <2>1. routeSector(s, f) # Off <=> routeSector(s, f) \in Partitions
    BY RouteTarget, Numbered DEF IInv, Types
  <2>2. Count(s)' = CountOf(partitions', s) /\ Count(s) = CountOf(partitions, s)
    BY DEF Count, CountOf
  <2> QED
    BY <2>1, <2>2, MoveContents
<1>2. [][IInv => A]_vars
  <2>1. [IInv => A]_vars
    BY <1>1
  <2> QED
    BY <2>1, PTL
<1> QED
  BY <1>2, Inductive, PTL DEF MovedOnce

-----------------------------------------------------------------------------
(* Reading a memory of blocks: sequences in pieces                           *)

(* Pieces of s, one behind the other.                                        *)
Piece(s, off, i) == SubSeq(s, off[i - 1] + 1, off[i])

Flattening(g, e, n) == g = [i \in 1 .. n |-> IF i = 1 THEN e[i] ELSE g[i - 1] \o e[i]]

(* The library flattens a sequence of sequences by joining one after the     *)
(* other.                                                                    *)
LEMMA FlattenIs ==
  ASSUME NEW S, NEW e \in Seq(S), e # <<>>
  PROVE  FlattenSeq(e) = (CHOOSE g : Flattening(g, e, Len(e)))[Len(e)]
<1>1. Len(e) # 0
  BY LenProperties, EmptySeq
<1> QED
  BY <1>1, Zenon DEF FlattenSeq, Flattening

(* The pieces of a sequence, one behind the other, flatten to what they      *)
(* cover.                                                                    *)
LEMMA Joined ==
  ASSUME NEW S, NEW s \in Seq(S), NEW n \in Nat, NEW off \in [0 .. n -> 0 .. Len(s)],
         \A i \in 1 .. n : off[i - 1] <= off[i],
         NEW e \in [1 .. n -> Seq(S)], \A i \in 1 .. n : e[i] = Piece(s, off, i)
  PROVE  FlattenSeq(e) = SubSeq(s, off[0] + 1, off[n]) /\ off[0] <= off[n]
<1> DEFINE upto(i) == SubSeq(s, off[0] + 1, off[i])
           U == {k \in Nat : k <= n => off[0] <= off[k]}
<1>0. Len(s) \in Nat
  BY LenProperties
<1>1. \A k \in Nat : k \in U
  <2>1. 0 \in U
    OBVIOUS
  <2>2. ASSUME NEW k \in Nat, k \in U PROVE k + 1 \in U
    <3> SUFFICES ASSUME k + 1 <= n PROVE off[0] <= off[k + 1]
      OBVIOUS
    <3>1. k \in 0 .. n /\ k + 1 \in 0 .. n /\ k + 1 \in 1 .. n /\ (k + 1) - 1 = k /\ 0 \in 0 .. n
      OBVIOUS
    <3>2. off[k] <= off[k + 1]
      BY <3>1
    <3>3. off[0] <= off[k]
      BY <2>2, <3>1
    <3> QED
      BY <3>1, <3>2, <3>3
  <2> HIDE DEF U
  <2> QED
    BY <2>1, <2>2, Numbers
<1>2. ASSUME NEW i \in 0 .. n PROVE off[0] <= off[i] /\ off[i] \in 0 .. Len(s) /\ off[0] \in 0 .. Len(s)
  <2>1. i \in U /\ i <= n
    BY <1>1
  <2> QED
    BY <2>1
<1>3. ASSUME NEW i \in 1 .. n PROVE upto(i) = IF i = 1 THEN e[i] ELSE upto(i - 1) \o e[i]
  <2>1. CASE i = 1
    <3>1. e[i] = SubSeq(s, off[0] + 1, off[1])
      <4>1. e[1] = Piece(s, off, 1) /\ 1 - 1 = 0
        BY <2>1
      <4> QED
        BY <2>1, <4>1 DEF Piece
    <3> QED
      BY <2>1, <3>1
  <2>2. CASE i # 1
    <3>1. i - 1 \in 0 .. n /\ i \in 0 .. n
      OBVIOUS
    <3>2. off[0] <= off[i - 1] /\ off[i - 1] <= off[i] /\ off[i] \in 0 .. Len(s) /\ off[i - 1] \in 0 .. Len(s) /\ off[0] \in 0 .. Len(s)
      BY <1>2, <3>1
    <3>3. \A a, b, c \in 0 .. Len(s) : a <= b /\ b <= c =>
            a + 1 \in 1 .. Len(s) + 1 /\ b \in ((a + 1) - 1) .. Len(s) /\ c \in b .. Len(s)
      BY <1>0
    <3>4. SubSeq(s, off[0] + 1, off[i - 1]) \o SubSeq(s, off[i - 1] + 1, off[i]) = SubSeq(s, off[0] + 1, off[i])
      <4>1. off[0] + 1 \in 1 .. Len(s) + 1 /\ off[i - 1] \in ((off[0] + 1) - 1) .. Len(s) /\ off[i] \in off[i - 1] .. Len(s)
        BY <3>2, <3>3
      <4> QED
        BY <4>1, ConcatAdjacentSubSeq
    <3> QED
      BY <2>2, <3>4 DEF Piece
  <2> QED
    BY <2>1, <2>2
<1>4. CASE n = 0
  <2>1. e = <<>>
    BY <1>4
  <2>2. FlattenSeq(e) = e
    BY <2>1, EmptySeq DEF FlattenSeq
  <2>3. off[0] \in Int
    BY <1>2
  <2>4. SubSeq(s, off[0] + 1, off[0]) = <<>>
    BY <2>3, SubSeqEmpty
  <2>5. off[n] = off[0] /\ off[0] <= off[0]
    BY <1>4, <2>3
  <2> QED
    BY <2>1, <2>2, <2>4, <2>5
<1>5. CASE n # 0
  <2>1. e \in Seq(Seq(S)) /\ Len(e) = n /\ e # <<>>
    BY <1>5
  <2> DEFINE g == CHOOSE g : Flattening(g, e, Len(e))
             h == [i \in 1 .. n |-> upto(i)]
  <2>2. Flattening(h, e, Len(e))
    <3>1. \A i \in 1 .. n : i # 1 => i - 1 \in 1 .. n
      OBVIOUS
    <3>2. h = [i \in 1 .. n |-> IF i = 1 THEN e[i] ELSE h[i - 1] \o e[i]]
      <4> HIDE DEF upto
      <4> QED
        BY <1>3, <3>1
    <3> QED
      BY <2>1, <3>2 DEF Flattening
  <2>3. Flattening(g, e, Len(e))
    <3>1. \E x : Flattening(x, e, Len(e))
      BY <2>2
    <3> QED
      BY <3>1, Zenon
  <2> HIDE DEF g
  <2> DEFINE V == {k \in Nat : k + 1 <= n => g[k + 1] = upto(k + 1)}
  <2>4. 0 \in V
    <3>1. 1 \in 1 .. n
      BY <1>5
    <3>2. g[1] = e[1] /\ upto(1) = e[1]
      BY <1>3, <2>1, <2>3, <3>1 DEF Flattening
    <3> QED
      BY <3>2
  <2>5. ASSUME NEW k \in Nat, k \in V PROVE k + 1 \in V
    <3> SUFFICES ASSUME (k + 1) + 1 <= n PROVE g[(k + 1) + 1] = upto((k + 1) + 1)
      OBVIOUS
    <3>1. (k + 1) + 1 \in 1 .. n /\ (k + 1) + 1 # 1 /\ ((k + 1) + 1) - 1 = k + 1 /\ k + 1 <= n
      OBVIOUS
    <3>2. g[k + 1] = upto(k + 1)
      BY <2>5, <3>1
    <3> HIDE DEF upto
    <3>3. g[(k + 1) + 1] = g[k + 1] \o e[(k + 1) + 1]
      BY <2>1, <2>3, <3>1 DEF Flattening
    <3>4. upto((k + 1) + 1) = upto(k + 1) \o e[(k + 1) + 1]
      BY <1>3, <3>1
    <3> QED
      BY <3>2, <3>3, <3>4
  <2>6. \A k \in Nat : k \in V
    <3> HIDE DEF V
    <3> QED
      BY <2>4, <2>5, Numbers
  <2>7. g[n] = upto(n)
    <3>1. n - 1 \in Nat /\ (n - 1) + 1 = n
      BY <1>5
    <3>2. n - 1 \in V
      BY <2>6, <3>1
    <3> HIDE DEF upto
    <3>3. g[(n - 1) + 1] = upto((n - 1) + 1)
      BY <3>1, <3>2
    <3> QED
      BY <3>1, <3>3
  <2>8. FlattenSeq(e) = g[n]
    BY <2>1, FlattenIs DEF g
  <2>9. off[0] <= off[n]
    BY <1>2
  <2> QED
    BY <2>7, <2>8, <2>9
<1> QED
  BY <1>4, <1>5

(* f is n words of ws from the i-th, or what there is of them.               *)
IsFrom(S, ws, i, n, f) ==
  /\ f \in Seq(S)
  /\ Len(f) = IF i > Len(ws) THEN 0 ELSE IF i + n - 1 > Len(ws) THEN Len(ws) - i + 1 ELSE n
  /\ i + n - 1 <= Len(ws) => f = SubSeq(ws, i, i + n - 1)
  /\ i + n - 1 >= Len(ws) => f = SubSeq(ws, i, Len(ws))
  /\ \A j \in 1 .. Len(f) : f[j] = ws[i + j - 1]

(* That is what From returns.                                                *)
LEMMA FromIs ==
  ASSUME NEW S, NEW ws \in Seq(S), NEW i \in Nat \ {0}, NEW n \in Nat
  PROVE  IsFrom(S, ws, i, n, From(ws, i, n))
<1> DEFINE last == IF i + n - 1 > Len(ws) THEN Len(ws) ELSE i + n - 1
<1>1. Len(ws) \in Nat /\ last \in Int /\ last <= Len(ws) /\ \A j \in 1 .. Len(ws) : ws[j] \in S
  BY LenProperties
<1>2. From(ws, i, n) = SubSeq(ws, i, last)
  BY DEF From
<1>3. \A j \in i .. last : ws[j] \in S
  BY <1>1
<1> DEFINE f == SubSeq(ws, i, last)
<1>4. f \in Seq(S) /\ Len(f) = (IF i <= last THEN last - i + 1 ELSE 0) /\ \A j \in 1 .. last - i + 1 : f[j] = ws[i + j - 1]
  <2> HIDE DEF last
  <2> QED
    BY <1>1, <1>3, SubSeqProperties
<1>5. Len(f) = IF i > Len(ws) THEN 0 ELSE IF i + n - 1 > Len(ws) THEN Len(ws) - i + 1 ELSE n
  <2> HIDE DEF f
  <2> QED
    BY <1>1, <1>4
<1>6. i + n - 1 >= Len(ws) => last = Len(ws)
  BY <1>1
<1>7. \A j \in 1 .. Len(f) : f[j] = ws[i + j - 1]
  <2> HIDE DEF last, f
  <2> QED
    BY <1>1, <1>4
<1> QED
  BY <1>2, <1>4, <1>5, <1>6, <1>7 DEF IsFrom

(* The same from the first word.                                             *)
LEMMA FromFirst ==
  ASSUME NEW S, NEW ws \in Seq(S), NEW n \in Nat
  PROVE  IsFrom(S, ws, 1, n, From(ws, 1, n))
BY FromIs

(* A page that is filled up keeps its words and has zeros behind them.       *)
LEMMA FillIs ==
  ASSUME NEW S, 0 \in S, NEW ws \in Seq(S), NEW n \in Nat, Len(ws) <= n
  PROVE  /\ Fill(ws, n) \in Seq(S) /\ Len(Fill(ws, n)) = n
         /\ \A j \in 1 .. n : Fill(ws, n)[j] = IF j <= Len(ws) THEN ws[j] ELSE 0
<1>1. Len(ws) \in Nat /\ n - Len(ws) \in Nat
  BY LenProperties
<1> DEFINE z == Zeros(n - Len(ws))
<1>2. z \in Seq(S) /\ Len(z) = n - Len(ws) /\ \A j \in 1 .. n - Len(ws) : z[j] = 0
  BY <1>1 DEF Zeros
<1> HIDE DEF z
<1>3. /\ ws \o z \in Seq(S) /\ Len(ws \o z) = Len(ws) + Len(z)
      /\ \A j \in 1 .. Len(ws) + Len(z) : (ws \o z)[j] = IF j <= Len(ws) THEN ws[j] ELSE z[j - Len(ws)]
  BY <1>2, ConcatProperties
<1>4. Fill(ws, n) = ws \o z
  BY DEF Fill, z
<1>5. ASSUME NEW j \in 1 .. n PROVE Fill(ws, n)[j] = IF j <= Len(ws) THEN ws[j] ELSE 0
  <2>1. j \in 1 .. Len(ws) + Len(z)
    BY <1>1, <1>2
  <2>2. ~(j <= Len(ws)) => j - Len(ws) \in 1 .. n - Len(ws)
    BY <1>1
  <2> QED
    BY <1>2, <1>3, <1>4, <2>1, <2>2
<1> QED
  BY <1>1, <1>2, <1>3, <1>4, <1>5

(* The least number of a set is its minimum.                                 *)
LEMMA LeastIs ==
  ASSUME NEW T \in SUBSET Int, NEW x \in T, \A y \in T : x <= y
  PROVE  Min(T) = x
<1> DEFINE m == Min(T)
<1>1. m \in T /\ \A y \in T : m <= y
  <2>1. \E z \in T : \A y \in T : z <= y
    OBVIOUS
  <2> QED
    BY <2>1, Zenon DEF Min
<1> HIDE DEF m
<1>2. m \in Int /\ x \in Int /\ m <= x /\ x <= m
  BY <1>1
<1>3. m = x
  BY <1>2
<1> QED
  BY <1>3 DEF m

(* A list with a terminator at k + 1, and one without.                       *)
LEMMA ListEnds ==
  ASSUME NEW S \in SUBSET Nat, NEW ws \in Seq(S), NEW k \in 0 .. Len(ws) - 1,
         ws[k + 1] = 0, \A j \in 1 .. k : ws[j] # 0
  PROVE  /\ Terminated(ws) /\ ListLength(ws) = k
         /\ bupParseExtentList(ws) = SubSeq(ws, 1, k)
         /\ Tail1(ws) = SubSeq(ws, k + 2, Len(ws))
<1>1. Len(ws) \in Nat /\ DOMAIN ws = 1 .. Len(ws)
  BY LenProperties
<1>2. k + 1 \in DOMAIN ws
  BY <1>1
<1>3. Terminated(ws)
  BY <1>2 DEF Terminated
<1> DEFINE T == {i \in DOMAIN ws : ws[i] = 0}
<1>4. Min(T) = k + 1
  <2>1. k + 1 \in T /\ T \in SUBSET Int
    BY <1>1, <1>2
  <2>2. ASSUME NEW y \in T PROVE k + 1 <= y
    BY <1>1
  <2> HIDE DEF T
  <2> QED
    BY <2>1, <2>2, LeastIs
<1>5. ListLength(ws) = k
  <2>1. ListLength(ws) = (k + 1) - 1
    BY <1>3, <1>4 DEF ListLength
  <2> QED
    BY <2>1
<1> QED
  BY <1>3, <1>5 DEF bupParseExtentList, Tail1

(* A page without a zero is a list as a whole, and is continued.             *)
LEMMA ListContinues ==
  ASSUME NEW S \in SUBSET Nat, NEW ws \in Seq(S), \A j \in 1 .. Len(ws) : ws[j] # 0
  PROVE  ~Terminated(ws) /\ bupParseExtentList(ws) = ws
<1>1. ~Terminated(ws)
  BY LenProperties DEF Terminated
<1>2. ListLength(ws) = Len(ws)
  BY <1>1 DEF ListLength
<1> QED
  BY <1>1, <1>2, SubSeqFull DEF bupParseExtentList

(* A list consists of words of its page.                                     *)
LEMMA ListType ==
  ASSUME NEW S \in SUBSET Nat, NEW ws \in Seq(S)
  PROVE  bupParseExtentList(ws) \in Seq(S) /\ ListLength(ws) \in 0 .. Len(ws)
<1>1. Len(ws) \in Nat /\ DOMAIN ws = 1 .. Len(ws) /\ \A j \in 1 .. Len(ws) : ws[j] \in S
  BY LenProperties
<1>2. ListLength(ws) \in 0 .. Len(ws)
  <2>1. CASE Terminated(ws)
    <3> DEFINE T == {i \in DOMAIN ws : ws[i] = 0}
    <3>1. T \in SUBSET Nat /\ T # {} /\ T \subseteq 1 .. Len(ws)
      BY <1>1, <2>1 DEF Terminated
    <3>2. PICK x \in T : \A y \in T : x <= y
      <4> HIDE DEF T
      <4> QED
        BY <3>1, LeastNumber
    <3>3. Min(T) = x
      <4> HIDE DEF T
      <4> QED
        BY <3>1, <3>2, LeastIs
    <3>4. ListLength(ws) = x - 1
      BY <2>1, <3>3 DEF ListLength
    <3> QED
      BY <1>1, <3>1, <3>4
  <2>2. CASE ~Terminated(ws)
    BY <1>1, <2>2 DEF ListLength
  <2> QED
    BY <2>1, <2>2
<1>3. SubSeq(ws, 1, ListLength(ws)) \in Seq(S)
  <2>1. \A i \in 1 .. ListLength(ws) : ws[i] \in S
    BY <1>1, <1>2
  <2>2. ListLength(ws) \in Int
    BY <1>1, <1>2
  <2> QED
    BY <2>1, <2>2, SubSeqProperties
<1> QED
  BY <1>2, <1>3 DEF bupParseExtentList

-----------------------------------------------------------------------------
(* Allocating blocks                                                         *)

(* The members of S before x.                                                *)
Below(S, x) == {y \in S : y < x}

(* A finite set of numbers that is not empty has a greatest.                 *)
LEMMA Greatest ==
  ASSUME NEW S \in SUBSET Nat, IsFiniteSet(S), S # {}
  PROVE  \E x \in S : \A y \in S : y <= x
<1> DEFINE T == {s \in SUBSET S : s = {} \/ \E x \in s : \A y \in s : y <= x}
<1>1. ASSUME NEW s \in SUBSET S, s # {}, \A x \in s : s \ {x} \in T PROVE s \in T
  <2>1. PICK x \in s : TRUE
    BY <1>1
  <2>2. CASE s \ {x} = {}
    <3>1. \A y \in s : y = x
      BY <2>2
    <3> QED
      BY <3>1
  <2>3. CASE s \ {x} # {}
    <3>1. PICK z \in s \ {x} : \A y \in s \ {x} : y <= z
      BY <1>1, <2>3
    <3>2. x \in Nat /\ z \in Nat
      OBVIOUS
    <3>3. CASE x <= z
      <4>1. \A y \in s : y <= z
        BY <3>1, <3>3
      <4> QED
        BY <4>1
    <3>4. CASE z <= x
      <4>1. ASSUME NEW y \in s PROVE y <= x
        <5>1. y \in Nat /\ (y = x \/ y <= z)
          BY <3>1
        <5> QED
          BY <3>2, <3>4, <5>1
      <4> QED
        BY <4>1
    <3> QED
      BY <3>2, <3>3, <3>4
  <2> QED
    BY <2>2, <2>3
<1>2. {} \in T
  OBVIOUS
<1>3. \A s \in SUBSET S : s \in T
  <2> HIDE DEF T
  <2> QED
    BY <1>1, <1>2, Subsets
<1>4. S \in T
  BY <1>3
<1> QED
  BY <1>4

(* Every rank of a finite set of numbers is that of some number of it.       *)
LEMMA Ranks ==
  ASSUME NEW D \in SUBSET Nat, IsFiniteSet(D)
  PROVE  \A S \in SUBSET D : \A k \in 0 .. Cardinality(S) - 1 : \E x \in S : Cardinality(Below(S, x)) = k
<1> DEFINE T == {S \in SUBSET D : \A k \in 0 .. Cardinality(S) - 1 : \E x \in S : Cardinality(Below(S, x)) = k}
<1>1. {} \in T
  BY FS_EmptySet
<1>2. ASSUME NEW S \in SUBSET D, S # {}, \A x \in S : S \ {x} \in T PROVE S \in T
  <2>1. IsFiniteSet(S) /\ Cardinality(S) \in Nat
    BY FS_Subset, FS_CardinalityType
  <2>2. PICK top \in S : \A y \in S : y <= top
    BY <1>2, <2>1, Greatest
  <2> DEFINE R == S \ {top}
  <2>3. R \in T /\ Cardinality(R) = Cardinality(S) - 1
    BY <1>2, <2>1, FS_RemoveElement
  <2> SUFFICES ASSUME NEW k \in 0 .. Cardinality(S) - 1 PROVE \E x \in S : Cardinality(Below(S, x)) = k
    OBVIOUS
  <2>4. CASE k = Cardinality(S) - 1
    <3>1. Below(S, top) = R
      <4>1. \A y \in S : y < top <=> y # top
        BY <2>2
      <4> QED
        BY <4>1 DEF Below
    <3> QED
      BY <2>3, <2>4, <3>1
  <2>5. CASE k # Cardinality(S) - 1
    <3>1. k \in 0 .. Cardinality(R) - 1
      BY <2>1, <2>3, <2>5
    <3>2. PICK x \in R : Cardinality(Below(R, x)) = k
      BY <2>3, <3>1
    <3>3. Below(S, x) = Below(R, x)
      <4>1. x \in Nat /\ top \in Nat /\ x <= top /\ ~(top < x)
        BY <2>2
      <4> QED
        BY <4>1 DEF Below
    <3> QED
      BY <3>2, <3>3
  <2> QED
    BY <2>4, <2>5
<1>3. \A S \in SUBSET D : S \in T
  <2> HIDE DEF T
  <2> QED
    BY <1>1, <1>2, Subsets
<1> QED
  BY <1>3

(* The members of a set in their order: each once.                           *)
LEMMA Order ==
  ASSUME NEW S \in SUBSET Nat, IsFiniteSet(S)
  PROVE  /\ Ascending(S) \in Seq(S) /\ Len(Ascending(S)) = Cardinality(S)
         /\ \A i, j \in 1 .. Cardinality(S) : Ascending(S)[i] = Ascending(S)[j] => i = j
<1> DEFINE N == Cardinality(S)
           at(i) == CHOOSE x \in S : Cardinality(Below(S, x)) = i - 1
<1>1. N \in Nat
  BY FS_CardinalityType
<1>2. ASSUME NEW i \in 1 .. N PROVE at(i) \in S /\ Cardinality(Below(S, at(i))) = i - 1
  <2>1. i - 1 \in 0 .. N - 1
    BY <1>1
  <2>2. S \in SUBSET S
    OBVIOUS
  <2>3. \E x \in S : Cardinality(Below(S, x)) = i - 1
    BY <2>1, <2>2, Ranks
  <2> QED
    BY <2>3, Zenon
<1>3. Ascending(S) = [i \in 1 .. N |-> at(i)]
  BY DEF Ascending, Below
<1> HIDE DEF at
<1>4. [i \in 1 .. N |-> at(i)] \in [1 .. N -> S]
  BY <1>2
<1>5. Ascending(S) \in Seq(S) /\ Len(Ascending(S)) = N
  <2> HIDE DEF N
  <2> QED
    BY <1>1, <1>3, <1>4
<1>6. ASSUME NEW i \in 1 .. N, NEW j \in 1 .. N, Ascending(S)[i] = Ascending(S)[j] PROVE i = j
  <2>1. at(i) = at(j)
    BY <1>3, <1>6
  <2>2. i - 1 = j - 1
    BY <1>2, <2>1
  <2> QED
    BY <1>1, <2>2
<1> QED
  BY <1>5, <1>6

(* No member of s comes twice.                                               *)
Once(s) == \A i, j \in 1 .. Len(s) : s[i] = s[j] => i = j

(* The blocks allocated are free ones, as many as asked for, none of them    *)
(* twice.                                                                    *)
LEMMA Allocated ==
  ASSUME NEW free \in SUBSET Nat, IsFiniteSet(free), NEW n \in Nat, n <= Cardinality(free)
  PROVE  /\ bupAllocBlocks(free, n) \in Seq(free) /\ Len(bupAllocBlocks(free, n)) = n
         /\ Once(bupAllocBlocks(free, n))
<1> DEFINE a == Ascending(free)
           s == SubSeq(a, 1, n)
<1>1. /\ a \in Seq(free) /\ Len(a) = Cardinality(free)
      /\ \A i, j \in 1 .. Cardinality(free) : a[i] = a[j] => i = j
  BY Order
<1> HIDE DEF a
<1>2. Cardinality(free) \in Nat
  BY FS_CardinalityType
<1>3. \A i \in 1 .. n : a[i] \in free
  BY <1>1, <1>2, LenProperties
<1>4. s \in Seq(free) /\ Len(s) = n /\ \A i \in 1 .. n : s[i] = a[i]
  <2>1. s \in Seq(free) /\ Len(s) = (IF 1 <= n THEN n - 1 + 1 ELSE 0) /\ \A i \in 1 .. n - 1 + 1 : s[i] = a[1 + i - 1]
    BY <1>3, SubSeqProperties
  <2>2. \A i \in 1 .. n : i \in 1 .. n - 1 + 1 /\ 1 + i - 1 = i
    OBVIOUS
  <2> HIDE DEF s
  <2> QED
    BY <2>1, <2>2
<1> HIDE DEF s
<1>5. Once(s)
  <2> SUFFICES ASSUME NEW i \in 1 .. n, NEW j \in 1 .. n, s[i] = s[j] PROVE i = j
    BY <1>4 DEF Once
  <2>1. i \in 1 .. Cardinality(free) /\ j \in 1 .. Cardinality(free)
    BY <1>2
  <2> QED
    BY <1>1, <1>4, <2>1
<1>6. bupAllocBlocks(free, n) = s
  BY DEF bupAllocBlocks, s, a
<1> QED
  BY <1>4, <1>5, <1>6

-----------------------------------------------------------------------------
(* The sizes of lists and files                                              *)

(* What a quotient bounds.                                                   *)
LEMMA Divided ==
  ASSUME NEW a \in Nat, NEW b \in Nat \ {0}
  PROVE  /\ a \div b \in Nat
         /\ (a \div b) * b <= a
         /\ a < (a \div b) * b + b
OBVIOUS

(* The sizes of the two kinds of list.                                       *)
LEMMA Sizes == Slots \in Nat \ {0} /\ Page \in Nat \ {0} /\ Page = Slots + Slots
BY BackupRAMAssumption DEF Page

(* The pages that m blocks need are among the m blocks, and hold the list of *)
(* them.                                                                     *)
LEMMA PagesFit ==
  ASSUME NEW m \in Nat
  PROVE  /\ Pages(m) \in 0 .. m
         /\ Pages(m) = 0 <=> m <= Slots - 1
         /\ Pages(m) # 0 => /\ Slots + (Pages(m) - 1) * Page <= m
                            /\ m <= Slots - 1 + Pages(m) * Page
<1> DEFINE c == (m - (Slots - 1) + Page - 1) \div Page
<1>1. CASE m <= Slots - 1
  BY <1>1 DEF Pages
<1>2. CASE ~(m <= Slots - 1)
  <2>1. Pages(m) = c
    BY <1>2 DEF Pages
  <2>2. m - (Slots - 1) + Page - 1 \in Nat /\ m - (Slots - 1) + Page - 1 = m - Slots + Page
    BY <1>2, Sizes
  <2>3. c \in Nat /\ c * Page <= m - Slots + Page /\ m - Slots + Page < c * Page + Page
    BY <2>2, Sizes, Divided
  <2> HIDE DEF c
  <2>4. c # 0
    BY <1>2, <2>2, <2>3, Sizes
  <2>5. (c - 1) * Page = c * Page - Page
    BY <2>3, Sizes
  <2>6. c <= c * Page
    BY <2>3, Sizes
  <2>7. c - 1 <= (c - 1) * Page
    BY <2>3, <2>4, Sizes
  <2>8. c * Page \in Nat
    BY <2>3, Sizes
  <2>9. c <= m
    BY <2>3, <2>5, <2>7, <2>8, Sizes
  <2> QED
    BY <1>2, <2>1, <2>3, <2>4, <2>5, <2>8, <2>9, Sizes
<1> QED
  BY <1>1, <1>2

(* What a game may put behind the lists and into the data blocks.            *)
LeadOf(m) == IF Pages(m) = 0 THEN Slots - m - 1 ELSE Pages(m) * Page + Slots - m - 1
RoomIn(m) == LeadOf(m) + (m - Pages(m)) * Page

(* As many blocks as a file takes have room for it.                          *)
LEMMA RoomFor ==
  ASSUME NEW size \in Nat
  PROVE  /\ BlocksFor(size) \in Nat
         /\ LeadOf(BlocksFor(size)) \in Nat
         /\ RoomIn(BlocksFor(size)) \in Nat
         /\ size <= RoomIn(BlocksFor(size))
<1> DEFINE m == BlocksFor(size)
           c == Pages(m)
<1>1. size + Slots - 1 \in Nat /\ Page - 1 \in Nat \ {0}
  BY Sizes
<1>2. m \in Nat /\ m * (Page - 1) <= size + Slots - 1 /\ size + Slots - 1 < m * (Page - 1) + (Page - 1)
  BY <1>1, Divided DEF BlocksFor
<1> HIDE DEF m
<1>3. c \in 0 .. m /\ (c = 0 <=> m <= Slots - 1) /\ (c # 0 => m <= Slots - 1 + c * Page)
  BY <1>2, PagesFit
<1>4. LeadOf(m) = IF c = 0 THEN Slots - m - 1 ELSE c * Page + Slots - m - 1
  BY DEF LeadOf
<1>5. RoomIn(m) = LeadOf(m) + (m - c) * Page
  BY DEF RoomIn
<1> HIDE DEF c
<1>6. m * (Page - 1) = m * Page - m /\ (m - c) * Page = m * Page - c * Page /\ m * Page \in Nat /\ c * Page \in Nat
  BY <1>2, <1>3, Sizes
<1>7. (m - c) * Page \in Nat
  BY <1>2, <1>3, Sizes
<1>8. LeadOf(m) \in Nat
  BY <1>2, <1>3, <1>4, <1>6, Sizes
<1>9. LeadOf(m) = c * Page + Slots - m - 1
  BY <1>2, <1>3, <1>4, <1>6, Sizes
<1>10. size <= RoomIn(m)
  BY <1>2, <1>5, <1>6, <1>9, Sizes
<1> QED
  BY <1>2, <1>5, <1>7, <1>8, <1>10 DEF m

(* A page with the list l, its terminator and the first words of d.          *)
Ended(l, d, lead, n) == Fill(l \o <<0>> \o From(d, 1, lead), n)

(* s is d with zeros behind it.                                              *)
Pads(s, d) == \A j \in 1 .. Len(s) : s[j] = IF j <= Len(d) THEN d[j] ELSE 0

(* ws is the beginning of v.                                                 *)
StartsWith(ws, v) == \A j \in 1 .. Len(ws) : ws[j] = v[j]

(* A list, its terminator and the first words of a file behind it.           *)
LEMMA EndedList ==
  ASSUME NEW l \in Seq(FileBlocks), NEW lead \in Nat, NEW d \in Seq(Words), NEW s \in Seq(Words),
         lead <= Len(s), Pads(s, d),
         NEW N \in Nat, Len(l) + 1 + lead <= N,
         NEW ws \in Seq(Words), Len(ws) = Len(l) + 1 + lead,
         StartsWith(ws, Ended(l, d, lead, N))
  PROVE  Terminated(ws) /\ bupParseExtentList(ws) = l /\ Tail1(ws) = SubSeq(s, 1, lead)
<1> DEFINE f == From(d, 1, lead)
           k == Len(l)
           D == Len(d)
<1>0. k = Len(l) /\ D = Len(d)
  OBVIOUS
<1>c. \A j \in 1 .. Len(s) : s[j] = IF j <= Len(d) THEN d[j] ELSE 0
  BY DEF Pads
<1>1. Words \in SUBSET Nat /\ FileBlocks \subseteq Words /\ 0 \in Words /\ 0 \notin FileBlocks
  BY BackupRAMAssumption DEF Words, FileBlocks, FirstBlock
<1>2. k \in Nat /\ Len(d) \in Nat /\ Len(s) \in Nat /\ l \in Seq(Words) /\ \A j \in 1 .. k : l[j] \in FileBlocks
  <2>1. l \in Seq(Words)
    BY <1>1, SeqMonotonic
  <2> QED
    BY <2>1, LenProperties
<1> HIDE DEF k, D
<1>3. /\ f \in Seq(Words) /\ Len(f) \in Nat /\ Len(f) = (IF Len(d) < lead THEN Len(d) ELSE lead)
      /\ \A j \in 1 .. Len(f) : f[j] = d[j]
  <2>1. /\ f \in Seq(Words)
        /\ Len(f) = IF 1 > Len(d) THEN 0 ELSE IF 1 + lead - 1 > Len(d) THEN Len(d) - 1 + 1 ELSE lead
        /\ \A j \in 1 .. Len(f) : f[j] = d[1 + j - 1]
    BY FromFirst DEF IsFrom
  <2> HIDE DEF f
  <2>2. Len(f) = IF Len(d) < lead THEN Len(d) ELSE lead
    BY <1>0, <1>2, <2>1
  <2>3. \A j \in 1 .. Len(f) : 1 + j - 1 = j
    BY <1>0, <1>2, <2>2
  <2> QED
    BY <1>0, <1>2, <2>1, <2>2, <2>3
<1> HIDE DEF f
<1> DEFINE t == l \o <<0>>
           u == t \o f
<1>4. t \in Seq(Words) /\ Len(t) = k + 1 /\ \A j \in 1 .. k + 1 : t[j] = IF j <= k THEN l[j] ELSE 0
  <2>1. <<0>> \in Seq(Words) /\ Len(<<0>>) = 1 /\ <<0>>[1] = 0
    BY <1>1
  <2>2. /\ l \o <<0>> \in Seq(Words) /\ Len(l \o <<0>>) = Len(l) + Len(<<0>>)
        /\ \A j \in 1 .. Len(l) + Len(<<0>>) : (l \o <<0>>)[j] = IF j <= Len(l) THEN l[j] ELSE <<0>>[j - Len(l)]
    BY <1>0, <1>2, <2>1, ConcatProperties
  <2>3. \A j \in 1 .. k + 1 : ~(j <= k) => j - k = 1
    <3>1. \A a \in Nat : \A j \in 1 .. a + 1 : ~(j <= a) => j - a = 1
      OBVIOUS
    <3>2. k \in Nat
      BY <1>2
    <3> QED
      BY <3>1, <3>2, Zenon
  <2> QED
    BY <1>0, <1>2, <2>1, <2>2, <2>3
<1> HIDE DEF t
<1>5. u \in Seq(Words) /\ Len(u) = k + 1 + Len(f) /\ \A j \in 1 .. k + 1 + Len(f) : u[j] = IF j <= k + 1 THEN t[j] ELSE f[j - (k + 1)]
  <2>1. /\ u \in Seq(Words) /\ Len(u) = Len(t) + Len(f)
        /\ \A j \in 1 .. Len(t) + Len(f) : u[j] = IF j <= Len(t) THEN t[j] ELSE f[j - Len(t)]
    <3>1. t \in Seq(Words) /\ f \in Seq(Words)
      BY <1>3, <1>4
    <3> QED
      BY <3>1, ConcatProperties
  <2>2. Len(t) = k + 1
    BY <1>4
  <2> HIDE DEF u
  <2> QED
    BY <2>1, <2>2
<1>6. Ended(l, d, lead, N) = Fill(u, N)
  BY DEF t, f, Ended
<1> HIDE DEF u
<1> DEFINE F == Len(f)
           U == Len(u)
           W == Len(ws)
<1>a. /\ F \in Nat /\ F <= lead /\ F <= D /\ (F < lead => F = D) /\ k \in Nat /\ D \in Nat
      /\ U = k + 1 + F /\ W = k + 1 + lead /\ W <= N /\ lead <= Len(s) /\ Len(s) \in Nat
  <2>1. F \in Nat /\ F = (IF D < lead THEN D ELSE lead) /\ D \in Nat /\ k \in Nat /\ Len(s) \in Nat
    BY <1>0, <1>2, <1>3
  <2>2. U = k + 1 + F
    BY <1>5
  <2>3. W = k + 1 + lead /\ k + 1 + lead <= N
    BY <1>0
  <2> HIDE DEF F, U, W
  <2> QED
    BY <2>1, <2>2, <2>3
<1> HIDE DEF F, U, W
<1>b. F = Len(f) /\ U = Len(u) /\ W = Len(ws)
  BY DEF F, U, W
<1>7. \A j \in 1 .. N : Fill(u, N)[j] = IF j <= Len(u) THEN u[j] ELSE 0
  <2>1. Len(u) <= N
    BY <1>0, <1>a, <1>b
  <2> QED
    BY <1>1, <1>5, <2>1, FillIs
<1>8. ASSUME NEW j \in 1 .. Len(ws) PROVE ws[j] = IF j <= Len(u) THEN u[j] ELSE 0
  <2>1. j \in 1 .. N
    BY <1>0, <1>2
  <2> QED
    BY <1>6, <1>7, <2>1 DEF StartsWith
<1>9. \A j \in 1 .. k : ws[j] = l[j]
  <2> SUFFICES ASSUME NEW j \in 1 .. k PROVE ws[j] = l[j]
    OBVIOUS
  <2>1. j \in 1 .. Len(ws) /\ j <= Len(u) /\ j <= k + 1 /\ j \in 1 .. k + 1 /\ j \in 1 .. k + 1 + Len(f)
    BY <1>0, <1>a, <1>b
  <2> QED
    BY <1>4, <1>5, <1>8, <2>1
<1>10. ws[k + 1] = 0
  <2>1. k + 1 \in 1 .. Len(ws) /\ k + 1 <= Len(u) /\ k + 1 \in 1 .. k + 1 /\ k + 1 \in 1 .. k + 1 + Len(f) /\ ~(k + 1 <= k)
    BY <1>0, <1>a, <1>b
  <2> QED
    BY <1>4, <1>5, <1>8, <2>1
<1>11. Terminated(ws) /\ bupParseExtentList(ws) = SubSeq(ws, 1, k) /\ Tail1(ws) = SubSeq(ws, k + 2, Len(ws))
  <2>1. k \in 0 .. Len(ws) - 1
    BY <1>0, <1>2
  <2>2. \A j \in 1 .. k : ws[j] # 0
    BY <1>1, <1>2, <1>9
  <2> QED
    BY <1>1, <1>10, <2>1, <2>2, ListEnds
<1>12. SubSeq(ws, 1, k) = l
  <2>1. \A j \in 1 .. k : ws[j] \in FileBlocks
    BY <1>0, <1>2, <1>9
  <2>2. /\ SubSeq(ws, 1, k) \in Seq(FileBlocks) /\ Len(SubSeq(ws, 1, k)) = (IF 1 <= k THEN k - 1 + 1 ELSE 0)
        /\ \A j \in 1 .. k - 1 + 1 : SubSeq(ws, 1, k)[j] = ws[1 + j - 1]
    BY <1>0, <1>2, <2>1, SubSeqProperties
  <2> DEFINE q == SubSeq(ws, 1, k)
  <2>3. Len(q) = k /\ \A j \in 1 .. k : q[j] = l[j]
    <3>1. \A j \in 1 .. k : j \in 1 .. k - 1 + 1 /\ 1 + j - 1 = j
      BY <1>0, <1>2
    <3> HIDE DEF q
    <3> QED
      BY <1>0, <1>2, <1>9, <2>2, <3>1 DEF q
  <2>4. q \in Seq(FileBlocks) /\ Len(q) = Len(l) /\ \A j \in 1 .. Len(q) : q[j] = l[j]
    BY <1>0, <2>2, <2>3
  <2> HIDE DEF q
  <2>5. q = l
    BY <2>4, SeqEqual
  <2> QED
    BY <2>5 DEF q
<1>13. SubSeq(ws, k + 2, Len(ws)) = SubSeq(s, 1, lead)
  <2> DEFINE q == SubSeq(ws, k + 2, Len(ws))
             r == SubSeq(s, 1, lead)
  <2>1. q \in Seq(Words) /\ Len(q) = lead /\ \A j \in 1 .. lead : q[j] = ws[k + 1 + j]
    <3>1. \A j \in (k + 2) .. Len(ws) : ws[j] \in Words
      BY <1>0, <1>2, LenProperties
    <3>2. /\ q \in Seq(Words) /\ Len(q) = (IF k + 2 <= Len(ws) THEN Len(ws) - (k + 2) + 1 ELSE 0)
          /\ \A j \in 1 .. Len(ws) - (k + 2) + 1 : q[j] = ws[k + 2 + j - 1]
      BY <1>0, <1>2, <3>1, SubSeqProperties
    <3>3. \A j \in 1 .. lead : j \in 1 .. Len(ws) - (k + 2) + 1 /\ k + 2 + j - 1 = k + 1 + j
      BY <1>0, <1>2
    <3> HIDE DEF q
    <3>4. Len(q) = lead
      <4>1. Len(q) = IF k + 2 <= W THEN W - (k + 2) + 1 ELSE 0
        BY <1>b, <3>2
      <4>2. (IF k + 2 <= W THEN W - (k + 2) + 1 ELSE 0) = lead
        BY <1>a
      <4> QED
        BY <4>1, <4>2
    <3>5. ASSUME NEW j \in 1 .. lead PROVE q[j] = ws[k + 1 + j]
      BY <3>2, <3>3
    <3> QED
      BY <3>2, <3>4, <3>5
  <2>2. r \in Seq(Words) /\ Len(r) = lead /\ \A j \in 1 .. lead : r[j] = s[j]
    <3>1. \A j \in 1 .. lead : s[j] \in Words
      BY <1>0, <1>2, LenProperties
    <3>2. /\ r \in Seq(Words) /\ Len(r) = (IF 1 <= lead THEN lead - 1 + 1 ELSE 0)
          /\ \A j \in 1 .. lead - 1 + 1 : r[j] = s[1 + j - 1]
      BY <3>1, SubSeqProperties
    <3>3. \A j \in 1 .. lead : j \in 1 .. lead - 1 + 1 /\ 1 + j - 1 = j
      OBVIOUS
    <3> HIDE DEF r
    <3> QED
      BY <3>2, <3>3
  <2> HIDE DEF q, r
  <2>3. ASSUME NEW j \in 1 .. lead PROVE q[j] = r[j]
    <3>1. k + 1 + j \in 1 .. Len(ws) /\ ~(k + 1 + j <= k + 1) /\ (k + 1 + j) - (k + 1) = j /\ j \in 1 .. Len(s)
      BY <1>0, <1>2
    <3>2. ws[k + 1 + j] = IF k + 1 + j <= Len(u) THEN u[k + 1 + j] ELSE 0
      BY <1>8, <3>1
    <3>3. k + 1 + j <= Len(u) <=> j <= Len(f)
      BY <1>0, <1>a, <1>b
    <3>4. j <= Len(f) => u[k + 1 + j] = d[j] /\ j <= Len(d)
      <4>1. j <= Len(f) => j \in 1 .. Len(f) /\ k + 1 + j \in 1 .. k + 1 + Len(f) /\ j <= Len(d)
        BY <1>0, <1>a, <1>b
      <4> QED
        BY <1>3, <1>5, <3>1, <4>1
    <3>5. ~(j <= Len(f)) => ~(j <= Len(d))
      BY <1>0, <1>a, <1>b
    <3> QED
      BY <2>1, <2>2, <3>1, <3>2, <3>3, <3>4, <3>5 DEF Pads
  <2> QED
    BY <2>1, <2>2, <2>3, SeqEqual DEF q, r
<1> QED
  BY <1>11, <1>12, <1>13

-----------------------------------------------------------------------------
(* What a write puts into the blocks                                         *)

(* The j-th page of the list t; the i-th block of data behind the lead.      *)
List(t, j) == From(t, Slots + (j - 1) * Page + 1, Page)
Chunk(d, lead, i) == From(d, lead + (i - 1) * Page + 1, Page)

(* Blocks enough for d, in as many lists as an entry can name.               *)
FitsIn(blocks, d) ==
  /\ blocks \in Seq(FileBlocks) /\ d \in Seq(Words)
  /\ Len(blocks) = 1 + BlocksFor(Len(d))
  /\ Pages(BlocksFor(Len(d))) <= Slots

(* The blocks of a file behind its directory entry.                          *)
LEMMA TailIs ==
  ASSUME NEW blocks, NEW d, FitsIn(blocks, d)
  PROVE  /\ Len(d) \in Nat /\ BlocksFor(Len(d)) \in Nat
         /\ Tail(blocks) \in Seq(FileBlocks) /\ Len(Tail(blocks)) = BlocksFor(Len(d))
         /\ \A i \in 1 .. Len(Tail(blocks)) : Tail(blocks)[i] = blocks[i + 1]
<1>1. blocks \in Seq(FileBlocks) /\ d \in Seq(Words) /\ Len(blocks) = 1 + BlocksFor(Len(d))
  BY DEF FitsIn
<1>2. Len(d) \in Nat
  BY <1>1, LenProperties
<1>3. BlocksFor(Len(d)) \in Nat
  BY <1>2, RoomFor
<1>4. blocks # <<>>
  BY <1>1, <1>3, EmptySeq
<1> QED
  BY <1>1, <1>2, <1>3, <1>4, HeadTailProperties

(* How long the pages of a list are: full, but for the last.                 *)
LEMMA ListIs ==
  ASSUME NEW t \in Seq(FileBlocks), NEW i \in 1 .. Pages(Len(t))
  PROVE  /\ List(t, i) \in Seq(FileBlocks)
         /\ (i - 1) * Page \in Nat
         /\ i * Page = (i - 1) * Page + Page
         /\ Slots + (i - 1) * Page <= Len(t)
         /\ i < Pages(Len(t)) => /\ Slots + i * Page <= Len(t)
                                 /\ Len(List(t, i)) = Page
                                 /\ List(t, i) = SubSeq(t, Slots + (i - 1) * Page + 1, Slots + i * Page)
         /\ i = Pages(Len(t)) => /\ Len(List(t, i)) = Len(t) - (Slots + (i - 1) * Page)
                                 /\ Len(List(t, i)) = Page - LeadOf(Len(t)) - 1
                                 /\ List(t, i) = SubSeq(t, Slots + (i - 1) * Page + 1, Len(t))
<1> DEFINE m == Len(t)
           c == Pages(m)
           a == Slots + (i - 1) * Page + 1
<1>1. m \in Nat
  BY LenProperties
<1>2. c \in 0 .. m /\ (c # 0 => Slots + (c - 1) * Page <= m /\ m <= Slots - 1 + c * Page)
  BY <1>1, PagesFit
<1>3. m = Len(t)
  OBVIOUS
<1> HIDE DEF m
<1>4. LeadOf(m) = IF c = 0 THEN Slots - m - 1 ELSE c * Page + Slots - m - 1
  BY DEF LeadOf
<1>5. i \in 1 .. c
  BY <1>3
<1> HIDE DEF c
<1>6. i \in Nat /\ c \in Nat /\ 1 <= i /\ i <= c
  BY <1>2, <1>5
<1>7. (i - 1) * Page \in Nat /\ i * Page = (i - 1) * Page + Page /\ c * Page = (c - 1) * Page + Page
  BY <1>6, Sizes
<1>8. i < c => i * Page <= (c - 1) * Page
  BY <1>6, Sizes
<1>9. (i - 1) * Page <= (c - 1) * Page
  BY <1>6, Sizes
<1>10. Slots + (i - 1) * Page <= m
  <2>1. (c - 1) * Page \in Nat
    BY <1>6, Sizes
  <2> QED
    BY <1>1, <1>2, <1>6, <1>7, <1>9, <2>1, Sizes
<1>11. i < c => Slots + i * Page <= m
  <2>1. (c - 1) * Page \in Nat
    BY <1>6, Sizes
  <2> QED
    BY <1>1, <1>2, <1>6, <1>7, <1>8, <2>1, Sizes
<1>12. IsFrom(FileBlocks, t, a, Page, List(t, i))
  <2>1. a \in Nat \ {0}
    BY <1>7, Sizes
  <2> QED
    BY <2>1, Sizes, FromIs DEF List
<1> DEFINE f == List(t, i)
           x == (i - 1) * Page
<1>13. /\ f \in Seq(FileBlocks)
       /\ Len(f) = IF a > m THEN 0 ELSE IF a + Page - 1 > m THEN m - a + 1 ELSE Page
       /\ a + Page - 1 <= m => f = SubSeq(t, a, a + Page - 1)
       /\ a + Page - 1 >= m => f = SubSeq(t, a, m)
  BY <1>3, <1>12 DEF IsFrom
<1>14. a = Slots + x + 1 /\ x = (i - 1) * Page
  OBVIOUS
<1> HIDE DEF x, a, f
<1>15. x \in Nat /\ i * Page = x + Page
  BY <1>7, <1>14
<1>16. i < c => a + Page - 1 = Slots + i * Page /\ a + Page - 1 <= m /\ ~(a > m)
  BY <1>1, <1>11, <1>14, <1>15, Sizes
<1>17. i < c => Len(f) = Page /\ f = SubSeq(t, Slots + x + 1, Slots + i * Page)
  BY <1>1, <1>13, <1>14, <1>16, Sizes
<1>18. i = c => Len(f) = m - (Slots + x) /\ Len(f) = Page - LeadOf(m) - 1 /\ f = SubSeq(t, Slots + x + 1, m)
  <2> SUFFICES ASSUME i = c PROVE Len(f) = m - (Slots + x) /\ Len(f) = Page - LeadOf(m) - 1 /\ f = SubSeq(t, Slots + x + 1, m)
    OBVIOUS
  <2>1. c * Page = x + Page /\ c # 0
    BY <1>6, <1>15
  <2>2. m <= Slots - 1 + x + Page /\ Slots + x <= m
    BY <1>1, <1>2, <1>10, <1>14, <1>15, <2>1, Sizes
  <2>3. a + Page - 1 >= m
    BY <1>1, <1>14, <1>15, <2>2, Sizes
  <2>4. Len(f) = m - (Slots + x)
    BY <1>1, <1>13, <1>14, <1>15, <2>2, Sizes
  <2>5. LeadOf(m) = x + Page + Slots - m - 1
    BY <1>4, <2>1
  <2>6. Page - LeadOf(m) - 1 = m - (Slots + x)
    BY <1>1, <1>15, <2>5, Sizes
  <2> QED
    BY <1>13, <1>14, <2>3, <2>4, <2>6
<1> QED
  BY <1>3, <1>7, <1>10, <1>11, <1>13, <1>14, <1>17, <1>18 DEF f, x, c

(* What Layout makes of every block, the entry, the pages and the data.      *)
IsLayout(l, n, d, t, m, c) ==
  /\ DOMAIN l = 1 .. m + 1
  /\ l[1].used = TRUE /\ l[1].name = n /\ l[1].size = Len(d)
  /\ \A i \in 2 .. m + 1 : l[i].used = FALSE /\ l[i].name = None /\ l[i].size = 0
  /\ c = 0 => l[1].words = Ended(t, d, LeadOf(m), Page)
  /\ c # 0 => l[1].words = Fill(From(t, 1, Slots), Page)
  /\ \A i \in 1 .. c : i < c => l[i + 1].words = List(t, i)
  /\ c # 0 => l[c + 1].words = Ended(List(t, c), d, LeadOf(m), Page)
  /\ \A i \in 1 .. m - c : l[c + 1 + i].words = Fill(Chunk(d, LeadOf(m), i), Page)

(* That is what Layout returns.                                              *)
LEMMA LayoutIs ==
  ASSUME NEW blocks, NEW d, FitsIn(blocks, d), NEW n,
         NEW t, t = Tail(blocks), NEW m, m = BlocksFor(Len(d)), NEW c, c = Pages(m)
  PROVE  IsLayout(Layout(blocks, n, d), n, d, t, m, c)
<1>1. Len(blocks) = 1 + m /\ m \in Nat /\ t \in Seq(FileBlocks) /\ Len(t) = m
  BY TailIs DEF FitsIn
<1>2. c \in 0 .. m
  BY <1>1, PagesFit
<1> DEFINE lead == IF c = 0 THEN Slots - m - 1 ELSE Page - Len(List(t, c)) - 1
<1>3. lead = LeadOf(m)
  <2>1. CASE c = 0
    BY <2>1 DEF LeadOf
  <2>2. CASE c # 0
    <3>1. c \in 1 .. Pages(Len(t)) /\ c = Pages(Len(t))
      BY <1>1, <1>2, <2>2
    <3>2. Len(List(t, c)) = Page - LeadOf(m) - 1
      BY <1>1, <3>1, ListIs
    <3>3. LeadOf(m) \in Int
      BY <1>1, <1>2, Sizes DEF LeadOf
    <3> HIDE DEF List
    <3> QED
      BY <2>2, <3>2, <3>3, Sizes
  <2> QED
    BY <2>1, <2>2
<1> DEFINE one == [used |-> TRUE, name |-> n, size |-> Len(d),
                   words |-> Fill(IF c = 0 THEN t \o <<0>> \o From(d, 1, lead) ELSE From(t, 1, Slots), Page)]
           at(i) == IF i = 1 THEN one
                    ELSE IF i - 1 < c THEN [Zero EXCEPT !.words = List(t, i - 1)]
                    ELSE IF i - 1 = c THEN [Zero EXCEPT !.words = Fill(List(t, c) \o <<0>> \o From(d, 1, lead), Page)]
                    ELSE [Zero EXCEPT !.words = Fill(Chunk(d, lead, i - 1 - c), Page)]
           l == Layout(blocks, n, d)
<1>4. l = [i \in 1 .. Len(blocks) |-> at(i)]
  <2>1. Len(blocks) - 1 = m
    BY <1>1
  <2> QED
    BY <2>1, Zenon DEF Layout, List, Chunk
<1>5. \A i \in 1 .. m + 1 : l[i] = at(i)
  <2> HIDE DEF at
  <2> QED
    BY <1>1, <1>4
<1>6. DOMAIN l = 1 .. m + 1
  <2> HIDE DEF at
  <2> QED
    BY <1>1, <1>4
<1> HIDE DEF l, lead, one
<1>7. l[1] = one
  <2>1. 1 \in 1 .. m + 1
    BY <1>1
  <2>2. at(1) = one
    OBVIOUS
  <2> HIDE DEF at
  <2> QED
    BY <1>5, <2>1, <2>2
<1>8. \A i \in 2 .. m + 1 : l[i].used = FALSE /\ l[i].name = None /\ l[i].size = 0
  <2> SUFFICES ASSUME NEW i \in 2 .. m + 1 PROVE l[i].used = FALSE /\ l[i].name = None /\ l[i].size = 0
    OBVIOUS
  <2>1. \E ws : l[i] = [Zero EXCEPT !.words = ws]
    <3>1. i \in 1 .. m + 1 /\ i # 1
      BY <1>1
    <3>2. l[i] = at(i)
      BY <1>5, <3>1
    <3> QED
      BY <3>1, <3>2
  <2> QED
    BY <2>1 DEF Zero
<1>9. c = 0 => l[1].words = Ended(t, d, LeadOf(m), Page)
  BY <1>3, <1>7 DEF Ended, one
<1>10. c # 0 => l[1].words = Fill(From(t, 1, Slots), Page)
  BY <1>7 DEF one
<1>11. ASSUME NEW i \in 1 .. c, i < c PROVE l[i + 1].words = List(t, i)
  <2>1. i + 1 \in 1 .. m + 1 /\ i + 1 # 1 /\ (i + 1) - 1 = i
    BY <1>1, <1>2
  <2>2. l[i + 1] = [Zero EXCEPT !.words = List(t, i)]
    <3>1. at(i + 1) = [Zero EXCEPT !.words = List(t, i)]
      BY <1>11, <2>1, Zenon
    <3> HIDE DEF at
    <3> QED
      BY <1>5, <2>1, <3>1
  <2> QED
    BY <2>2 DEF Zero
<1>12. ASSUME c # 0 PROVE l[c + 1].words = Ended(List(t, c), d, LeadOf(m), Page)
  <2>1. c + 1 \in 1 .. m + 1 /\ c + 1 # 1 /\ (c + 1) - 1 = c /\ ~(c < c)
    BY <1>1, <1>2, <1>12
  <2>2. l[c + 1] = [Zero EXCEPT !.words = Ended(List(t, c), d, lead, Page)]
    <3>1. at(c + 1) = [Zero EXCEPT !.words = Ended(List(t, c), d, lead, Page)]
      BY <2>1, Zenon DEF Ended
    <3> HIDE DEF at
    <3> QED
      BY <1>5, <2>1, <3>1
  <2> QED
    BY <1>3, <2>2 DEF Zero
<1>13. ASSUME NEW i \in 1 .. m - c PROVE l[c + 1 + i].words = Fill(Chunk(d, LeadOf(m), i), Page)
  <2>1. /\ c + 1 + i \in 1 .. m + 1 /\ c + 1 + i # 1
        /\ (c + 1 + i) - 1 - c = i /\ ~((c + 1 + i) - 1 < c) /\ (c + 1 + i) - 1 # c
    <3> HIDE DEF at
    <3>1. m \in Nat /\ c \in Nat /\ c <= m
      BY <1>1, <1>2
    <3>2. i \in Nat /\ i >= 1 /\ i <= m - c
      BY <3>1
    <3> QED
      BY <3>1, <3>2
  <2>2. l[c + 1 + i] = [Zero EXCEPT !.words = Fill(Chunk(d, lead, i), Page)]
    <3>1. at(c + 1 + i) = [Zero EXCEPT !.words = Fill(Chunk(d, lead, i), Page)]
      BY <2>1, Zenon
    <3> HIDE DEF at
    <3> QED
      BY <1>5, <2>1, <3>1
  <2> QED
    BY <1>3, <2>2 DEF Zero
<1> HIDE DEF one, at
<1>14. l[1].used = TRUE /\ l[1].name = n /\ l[1].size = Len(d)
  BY <1>7 DEF one
<1> QED
  BY <1>6, <1>8, <1>9, <1>10, <1>11, <1>12, <1>13, <1>14 DEF l, IsLayout

-----------------------------------------------------------------------------
(* What is read back from them                                               *)

(* Block numbers are words.                                                  *)
LEMMA WordsAre == /\ Words \in SUBSET Nat /\ 0 \in Words /\ FileBlocks \subseteq Words
                  /\ FileBlocks \in SUBSET Nat /\ 0 \notin FileBlocks /\ IsFiniteSet(FileBlocks)
<1>1. Blocks \in Int /\ FirstBlock \in Int /\ Blocks - 1 \in Int
  BY BackupRAMAssumption DEF FirstBlock
<1>2. IsFiniteSet(FileBlocks)
  BY <1>1, FS_Interval DEF FileBlocks
<1> QED
  BY <1>2, BackupRAMAssumption DEF Words, FileBlocks, FirstBlock

(* A page with a list that ends consists of words.                           *)
LEMMA EndedType ==
  ASSUME NEW l \in Seq(FileBlocks), NEW lead \in Nat, NEW d \in Seq(Words), NEW N \in Nat,
         Len(l) + 1 + lead <= N
  PROVE  Ended(l, d, lead, N) \in Seq(Words) /\ Len(Ended(l, d, lead, N)) = N
<1> DEFINE f == From(d, 1, lead)
           t == l \o <<0>>
           u == t \o f
<1>1. l \in Seq(Words) /\ <<0>> \in Seq(Words) /\ Len(<<0>>) = 1 /\ Len(l) \in Nat /\ Len(d) \in Nat
  <2>1. l \in Seq(Words)
    BY WordsAre, SeqMonotonic
  <2>2. <<0>> \in Seq(Words) /\ Len(<<0>>) = 1
    BY WordsAre
  <2>3. Len(l) \in Nat /\ Len(d) \in Nat
    BY LenProperties
  <2> QED
    BY <2>1, <2>2, <2>3
<1>2. f \in Seq(Words) /\ Len(f) = IF 1 > Len(d) THEN 0 ELSE IF 1 + lead - 1 > Len(d) THEN Len(d) - 1 + 1 ELSE lead
  BY FromFirst DEF IsFrom
<1> HIDE DEF f
<1>3. Len(f) <= lead /\ Len(f) \in Nat
  BY <1>1, <1>2
<1>4. t \in Seq(Words) /\ Len(t) = Len(l) + 1
  <2>1. l \o <<0>> \in Seq(Words) /\ Len(l \o <<0>>) = Len(l) + Len(<<0>>)
    BY <1>1, ConcatProperties
  <2> QED
    BY <1>1, <2>1
<1> HIDE DEF t
<1>5. u \in Seq(Words) /\ Len(u) = Len(t) + Len(f)
  BY <1>2, <1>4, ConcatProperties
<1> HIDE DEF u
<1>6. Len(u) <= N
  <2>1. \A a, b, c, q \in Nat : a + 1 + b <= q /\ c <= b => (a + 1) + c <= q
    OBVIOUS
  <2>2. (Len(l) + 1) + Len(f) <= N
    BY <1>1, <1>3, <2>1
  <2> QED
    BY <1>4, <1>5, <2>2
<1>7. Fill(u, N) \in Seq(Words) /\ Len(Fill(u, N)) = N
  BY <1>5, <1>6, WordsAre, FillIs
<1>8. Ended(l, d, lead, N) = Fill(u, N)
  BY DEF Ended, u, t, f
<1> QED
  BY <1>7, <1>8

(* The words of a file and zeros to the end of its last block.               *)
Padded(d) == Fill(d, RoomIn(BlocksFor(Len(d))))

(* The file with the zeros behind it fills its room.                         *)
LEMMA PaddedIs ==
  ASSUME NEW d \in Seq(Words)
  PROVE  /\ Padded(d) \in Seq(Words) /\ Len(Padded(d)) = RoomIn(BlocksFor(Len(d)))
         /\ Pads(Padded(d), d)
         /\ From(Padded(d), 1, Len(d)) = d
<1> DEFINE s == Padded(d)
           r == RoomIn(BlocksFor(Len(d)))
<1>1. Len(d) \in Nat /\ r \in Nat /\ Len(d) <= r
  BY LenProperties, RoomFor
<1> HIDE DEF r
<1>2. Fill(d, r) \in Seq(Words) /\ Len(Fill(d, r)) = r /\ \A j \in 1 .. r : Fill(d, r)[j] = IF j <= Len(d) THEN d[j] ELSE 0
  BY <1>1, WordsAre, FillIs
<1>3. s = Fill(d, r)
  BY DEF Padded, r
<1>4. s \in Seq(Words) /\ Len(s) = r /\ \A j \in 1 .. Len(s) : s[j] = IF j <= Len(d) THEN d[j] ELSE 0
  BY <1>2, <1>3
<1> HIDE DEF s
<1> DEFINE f == From(s, 1, Len(d))
<1>5. /\ f \in Seq(Words)
      /\ Len(f) = IF 1 > Len(s) THEN 0 ELSE IF 1 + Len(d) - 1 > Len(s) THEN Len(s) - 1 + 1 ELSE Len(d)
      /\ \A j \in 1 .. Len(f) : f[j] = s[1 + j - 1]
  BY <1>1, <1>4, FromFirst DEF IsFrom
<1> HIDE DEF f
<1>6. Len(f) = Len(d)
  BY <1>1, <1>4, <1>5
<1>7. \A j \in 1 .. Len(f) : f[j] = d[j]
  <2> SUFFICES ASSUME NEW j \in 1 .. Len(f) PROVE f[j] = d[j]
    OBVIOUS
  <2>1. 1 + j - 1 = j /\ j \in 1 .. Len(s) /\ j <= Len(d)
    BY <1>1, <1>4, <1>6
  <2> QED
    BY <1>4, <1>5, <2>1
<1>8. f = d
  BY <1>5, <1>6, <1>7, SeqEqual
<1> QED
  BY <1>4, <1>8 DEF s, f, r, Pads

(* A data block holds its part of them.                                      *)
LEMMA ChunkIs ==
  ASSUME NEW d \in Seq(Words), NEW lead \in Nat, NEW i \in Nat \ {0}, NEW s \in Seq(Words),
         lead + i * Page <= Len(s), Pads(s, d)
  PROVE  /\ Fill(Chunk(d, lead, i), Page) = SubSeq(s, lead + (i - 1) * Page + 1, lead + i * Page)
         /\ Fill(Chunk(d, lead, i), Page) \in Seq(Words)
         /\ Len(Fill(Chunk(d, lead, i), Page)) = Page
<1> DEFINE x == lead + (i - 1) * Page
           f == Chunk(d, lead, i)
           g == Fill(f, Page)
           h == SubSeq(s, x + 1, x + Page)
<1>1. x \in Nat /\ lead + i * Page = x + Page /\ Page \in Nat \ {0}
  <2>1. (i - 1) * Page \in Nat /\ i * Page = (i - 1) * Page + Page
    BY Sizes
  <2> QED
    BY <2>1, Sizes
<1>2. IsFrom(Words, d, x + 1, Page, f)
  <2>1. x + 1 \in Nat \ {0}
    BY <1>1
  <2> QED
    BY <1>1, <2>1, FromIs DEF Chunk
<1>0. Len(d) \in Nat /\ Len(s) \in Nat /\ \A j \in 1 .. Len(s) : s[j] \in Words
  BY LenProperties
<1>3. x + Page <= Len(s)
  <2> HIDE DEF x
  <2> QED
    BY <1>1
<1> HIDE DEF x, f
<1>4. /\ f \in Seq(Words)
      /\ Len(f) = IF x + 1 > Len(d) THEN 0 ELSE IF x + 1 + Page - 1 > Len(d) THEN Len(d) - (x + 1) + 1 ELSE Page
      /\ \A j \in 1 .. Len(f) : f[j] = d[x + 1 + j - 1]
  BY <1>2 DEF IsFrom
<1>5. Len(f) \in Nat /\ Len(f) <= Page /\ \A j \in 1 .. Page : j <= Len(f) <=> x + j <= Len(d)
  BY <1>0, <1>1, <1>4
<1>6. g \in Seq(Words) /\ Len(g) = Page /\ \A j \in 1 .. Page : g[j] = IF j <= Len(f) THEN f[j] ELSE 0
  BY <1>1, <1>4, <1>5, WordsAre, FillIs
<1>7. h \in Seq(Words) /\ Len(h) = Page /\ \A j \in 1 .. Page : h[j] = s[x + j]
  <2>1. \A j \in (x + 1) .. (x + Page) : s[j] \in Words
    BY <1>0, <1>1, <1>3
  <2>2. x + 1 \in Int /\ x + Page \in Int
    BY <1>1
  <2>3. /\ h \in Seq(Words) /\ Len(h) = (IF x + 1 <= x + Page THEN (x + Page) - (x + 1) + 1 ELSE 0)
        /\ \A j \in 1 .. (x + Page) - (x + 1) + 1 : h[j] = s[x + 1 + j - 1]
    BY <2>1, <2>2, SubSeqProperties
  <2> HIDE DEF h
  <2>4. Len(h) = Page
    BY <1>1, <2>3
  <2>5. \A j \in 1 .. Page : j \in 1 .. (x + Page) - (x + 1) + 1 /\ x + 1 + j - 1 = x + j
    BY <1>1
  <2> QED
    BY <2>3, <2>4, <2>5
<1> HIDE DEF g, h
<1>8. ASSUME NEW j \in 1 .. Page PROVE g[j] = h[j]
  <2>1. x + j \in 1 .. Len(s)
    BY <1>0, <1>1, <1>3
  <2>2. h[j] = IF x + j <= Len(d) THEN d[x + j] ELSE 0
    BY <1>7, <2>1 DEF Pads
  <2>3. j <= Len(f) => f[j] = d[x + j]
    <3>1. j <= Len(f) => j \in 1 .. Len(f)
      BY <1>1, <1>5
    <3>2. x + 1 + j - 1 = x + j
      BY <1>1
    <3> QED
      BY <1>4, <3>1, <3>2
  <2> QED
    BY <1>5, <1>6, <2>2, <2>3
<1>9. g = h
  BY <1>6, <1>7, <1>8, SeqEqual
<1>10. x = lead + (i - 1) * Page
  BY DEF x
<1> QED
  BY <1>1, <1>6, <1>9, <1>10 DEF g, h, f

(* The first words of a file are within its room.                            *)
LEMMA LeadInside ==
  ASSUME NEW d \in Seq(Words)
  PROVE  LeadOf(BlocksFor(Len(d))) \in Nat /\ LeadOf(BlocksFor(Len(d))) <= Len(Padded(d))
<1> DEFINE m == BlocksFor(Len(d))
           c == Pages(m)
<1>1. m \in Nat /\ LeadOf(m) \in Nat
  BY LenProperties, RoomFor
<1>2. c \in 0 .. m
  BY <1>1, PagesFit
<1>3. RoomIn(m) = LeadOf(m) + (m - c) * Page
  BY DEF RoomIn
<1>4. Len(Padded(d)) = RoomIn(m)
  BY PaddedIs
<1> HIDE DEF c, m
<1>5. m - c \in Nat
  BY <1>1, <1>2
<1>6. (m - c) * Page \in Nat
  BY <1>5, Sizes
<1>7. LeadOf(m) <= Len(Padded(d))
  BY <1>1, <1>3, <1>4, <1>6
<1> QED
  BY <1>1, <1>7 DEF m

(* The words of an ended list read back as the list and the first words of   *)
(* the file.                                                                 *)
EndedCase(ws, l, lead, d, s, N) ==
  /\ l \in Seq(FileBlocks) /\ lead \in Nat /\ d \in Seq(Words) /\ s \in Seq(Words)
  /\ lead <= Len(s) /\ Pads(s, d)
  /\ N \in Nat /\ Len(l) + 1 + lead <= N
  /\ ws \in Seq(Words) /\ Len(ws) = Len(l) + 1 + lead
  /\ StartsWith(ws, Ended(l, d, lead, N))

(* They do, for every list and lead that fit the page.                       *)
LEMMA EndedCases ==
  ASSUME NEW ws, NEW l, NEW lead, NEW d, NEW s, NEW N, EndedCase(ws, l, lead, d, s, N)
  PROVE  Terminated(ws) /\ bupParseExtentList(ws) = l /\ Tail1(ws) = SubSeq(s, 1, lead)
BY EndedList DEF EndedCase

(* What the directory entry of a file reads back as: all its list, or the    *)
(* first of it.                                                              *)
IsOwnList(w, own, d, t, m, c) ==
  /\ w \in Seq(Words) /\ Len(w) = Page
  /\ c = 0 => /\ Terminated(own) /\ bupParseExtentList(own) = t
              /\ Tail1(own) = SubSeq(Padded(d), 1, LeadOf(m))
  /\ c # 0 => ~Terminated(own) /\ bupParseExtentList(own) = SubSeq(t, 1, Slots)

(* What a continuation page reads back as: more of the list, or the end of   *)
(* it.                                                                       *)
IsPage(w, i, d, t, m, c) ==
  /\ w \in Seq(Words) /\ Len(w) = Page
  /\ bupParseExtentList(w) = List(t, i)
  /\ Terminated(w) <=> i = c
  /\ i = c => Tail1(w) = SubSeq(Padded(d), 1, LeadOf(m))

(* The entry's own list.                                                     *)
LEMMA OwnList ==
  ASSUME NEW blocks, NEW d, FitsIn(blocks, d), NEW n,
         NEW t, t = Tail(blocks), NEW m, m = BlocksFor(Len(d)), NEW c, c = Pages(m),
         NEW own, own = SubSeq(Layout(blocks, n, d)[1].words, 1, Slots)
  PROVE  IsOwnList(Layout(blocks, n, d)[1].words, own, d, t, m, c)
<1> DEFINE w == Layout(blocks, n, d)[1].words
<1>1. /\ c = 0 => w = Ended(t, d, LeadOf(m), Page)
      /\ c # 0 => w = Fill(From(t, 1, Slots), Page)
  <2>1. IsLayout(Layout(blocks, n, d), n, d, t, m, c)
    BY LayoutIs
  <2> QED
    BY <2>1 DEF IsLayout
<1>2. own = SubSeq(w, 1, Slots)
  OBVIOUS
<1> HIDE DEF w, IsOwnList
<1>3. m \in Nat /\ t \in Seq(FileBlocks) /\ Len(t) = m /\ d \in Seq(Words)
  BY TailIs DEF FitsIn
<1>4. LeadOf(m) \in Nat /\ c \in 0 .. m /\ (c = 0 <=> m <= Slots - 1)
  <2>1. LeadOf(m) \in Nat
    BY TailIs, RoomFor
  <2> QED
    BY <1>3, <2>1, PagesFit
<1>5. ASSUME w \in Seq(Words), Len(w) = Page
      PROVE  own \in Seq(Words) /\ Len(own) = Slots /\ \A j \in 1 .. Slots : own[j] = w[j]
  <2>1. \A j \in 1 .. Slots : w[j] \in Words
    BY <1>5, Sizes, LenProperties
  <2>2. /\ own \in Seq(Words) /\ Len(own) = (IF 1 <= Slots THEN Slots - 1 + 1 ELSE 0)
        /\ \A j \in 1 .. Slots - 1 + 1 : own[j] = w[1 + j - 1]
    BY <1>2, <2>1, Sizes, SubSeqProperties
  <2>3. \A j \in 1 .. Slots : j \in 1 .. Slots - 1 + 1 /\ 1 + j - 1 = j
    BY Sizes
  <2>4. Len(own) = Slots
    BY <2>2, Sizes
  <2> QED
    BY <2>2, <2>3, <2>4
<1>6. CASE c = 0
  <2>1. w = Ended(t, d, LeadOf(m), Page)
    BY <1>1, <1>6
  <2>2. LeadOf(m) = Slots - m - 1
    BY <1>6 DEF LeadOf
  <2>3. Len(t) + 1 + LeadOf(m) = Slots /\ Slots <= Page
    BY <1>3, <1>4, <2>2, Sizes
  <2>4. w \in Seq(Words) /\ Len(w) = Page
    <3>1. t \in Seq(FileBlocks) /\ LeadOf(m) \in Nat /\ d \in Seq(Words) /\ Page \in Nat
      BY <1>3, <1>4, Sizes
    <3>2. Len(t) + 1 + LeadOf(m) <= Page
      BY <2>3, Sizes
    <3>3. Ended(t, d, LeadOf(m), Page) \in Seq(Words) /\ Len(Ended(t, d, LeadOf(m), Page)) = Page
      BY <3>1, <3>2, EndedType
    <3> QED
      BY <2>1, <3>3
  <2>5. own \in Seq(Words) /\ Len(own) = Slots /\ \A j \in 1 .. Slots : own[j] = w[j]
    BY <1>5, <2>4
  <2>6. /\ Padded(d) \in Seq(Words) /\ Len(Padded(d)) = RoomIn(m)
        /\ Pads(Padded(d), d)
    BY <1>3, PaddedIs
  <2>7. LeadOf(m) <= Len(Padded(d))
    BY <1>3, LeadInside
  <2>8. Terminated(own) /\ bupParseExtentList(own) = t /\ Tail1(own) = SubSeq(Padded(d), 1, LeadOf(m))
    <3>1. StartsWith(own, Ended(t, d, LeadOf(m), Page))
      BY <2>1, <2>5 DEF StartsWith
    <3>2. Len(own) = Len(t) + 1 + LeadOf(m) /\ Len(t) + 1 + LeadOf(m) <= Page
      BY <2>3, <2>5
    <3>3. t \in Seq(FileBlocks) /\ LeadOf(m) \in Nat /\ d \in Seq(Words) /\ Page \in Nat /\ own \in Seq(Words)
      BY <1>3, <1>4, <2>5, Sizes
    <3>4. Padded(d) \in Seq(Words) /\ LeadOf(m) <= Len(Padded(d)) /\ Pads(Padded(d), d)
      BY <2>6, <2>7
    <3>5. EndedCase(own, t, LeadOf(m), d, Padded(d), Page)
      BY <3>1, <3>2, <3>3, <3>4, Zenon DEF EndedCase
    <3> QED
      BY <3>5, EndedCases, Zenon
  <2> QED
    BY <1>6, <2>4, <2>8 DEF w, IsOwnList
<1>7. CASE c # 0
  <2> DEFINE f == From(t, 1, Slots)
  <2>1. w = Fill(f, Page)
    BY <1>1, <1>7
  <2>2. IsFrom(FileBlocks, t, 1, Slots, f)
    BY <1>3, Sizes, FromFirst
  <2>3. m >= Slots
    BY <1>3, <1>4, <1>7, Sizes
  <2>4. f = SubSeq(t, 1, Slots) /\ f \in Seq(FileBlocks) /\ Len(f) = Slots
    <3>1. 1 + Slots - 1 = Slots /\ ~(1 > m) /\ 1 + Slots - 1 <= m
      BY <1>3, <2>3, Sizes
    <3>2. /\ f \in Seq(FileBlocks)
          /\ Len(f) = IF 1 > Len(t) THEN 0 ELSE IF 1 + Slots - 1 > Len(t) THEN Len(t) - 1 + 1 ELSE Slots
          /\ 1 + Slots - 1 <= Len(t) => f = SubSeq(t, 1, 1 + Slots - 1)
      BY <2>2 DEF IsFrom
    <3> HIDE DEF f
    <3>3. Len(f) = Slots
      BY <1>3, <2>3, <3>2, Sizes
    <3>4. f = SubSeq(t, 1, 1 + Slots - 1)
      BY <1>3, <3>1, <3>2
    <3> QED
      BY <3>1, <3>2, <3>3, <3>4
  <2> HIDE DEF f
  <2>5. f \in Seq(Words) /\ \A j \in 1 .. Slots : f[j] \in FileBlocks
    <3>1. f \in Seq(Words)
      BY <2>4, WordsAre, SeqMonotonic
    <3> QED
      BY <2>4, <3>1, LenProperties
  <2>6. w \in Seq(Words) /\ Len(w) = Page /\ \A j \in 1 .. Page : w[j] = IF j <= Len(f) THEN f[j] ELSE 0
    <3>1. Len(f) <= Page
      BY <2>4, Sizes
    <3> QED
      BY <2>1, <2>5, <3>1, WordsAre, Sizes, FillIs
  <2>7. own \in Seq(Words) /\ Len(own) = Slots /\ \A j \in 1 .. Slots : own[j] = w[j]
    BY <1>5, <2>6
  <2>8. own = f
    <3>1. ASSUME NEW j \in 1 .. Slots PROVE own[j] = f[j]
      <4>1. j \in 1 .. Page /\ j <= Slots
        BY Sizes
      <4> QED
        BY <2>4, <2>6, <2>7, <4>1
    <3> QED
      BY <2>4, <2>5, <2>7, <3>1, SeqEqual
  <2>9. \A j \in 1 .. Len(own) : own[j] # 0
    BY <2>4, <2>5, <2>8, WordsAre
  <2>10. ~Terminated(own) /\ bupParseExtentList(own) = own
    BY <2>7, <2>9, WordsAre, ListContinues
  <2> QED
    BY <1>7, <2>4, <2>6, <2>8, <2>10 DEF w, IsOwnList
<1> QED
  BY <1>6, <1>7

(* The pages.                                                                *)
LEMMA PageLists ==
  ASSUME NEW blocks, NEW d, FitsIn(blocks, d), NEW n,
         NEW t, t = Tail(blocks), NEW m, m = BlocksFor(Len(d)), NEW c, c = Pages(m),
         NEW i \in 1 .. c, NEW w, w = Layout(blocks, n, d)[i + 1].words
  PROVE  IsPage(w, i, d, t, m, c)
<1>1. m \in Nat /\ t \in Seq(FileBlocks) /\ Len(t) = m /\ d \in Seq(Words)
  BY TailIs DEF FitsIn
<1>2. c \in 0 .. m /\ c = Pages(Len(t))
  BY <1>1, PagesFit
<1>3. LeadOf(m) \in Nat
  BY TailIs, RoomFor
<1>4. /\ List(t, i) \in Seq(FileBlocks)
      /\ i < c => Len(List(t, i)) = Page
      /\ i = c => Len(List(t, i)) = Page - LeadOf(m) - 1
  BY <1>1, <1>2, ListIs
<1>5. CASE i < c
  <2>1. w = List(t, i)
    <3>1. IsLayout(Layout(blocks, n, d), n, d, t, m, c)
      BY LayoutIs
    <3> QED
      BY <1>5, <3>1 DEF IsLayout
  <2>2. w \in Seq(FileBlocks) /\ Len(w) = Page
    BY <1>4, <1>5, <2>1
  <2>3. \A j \in 1 .. Len(w) : w[j] # 0
    BY <2>2, WordsAre, LenProperties
  <2>4. ~Terminated(w) /\ bupParseExtentList(w) = w
    BY <2>2, <2>3, WordsAre, ListContinues
  <2>5. w \in Seq(Words)
    BY <2>2, WordsAre, SeqMonotonic
  <2>6. i # c
    BY <1>2, <1>5
  <2> QED
    BY <2>1, <2>2, <2>4, <2>5, <2>6 DEF IsPage
<1>6. CASE i = c
  <2>0. c # 0
    BY <1>6
  <2>1. w = Ended(List(t, c), d, LeadOf(m), Page)
    <3>1. IsLayout(Layout(blocks, n, d), n, d, t, m, c)
      BY LayoutIs
    <3> QED
      BY <1>6, <2>0, <3>1 DEF IsLayout
  <2>2. List(t, c) \in Seq(FileBlocks) /\ Len(List(t, c)) \in Nat /\ Len(List(t, c)) + 1 + LeadOf(m) = Page
    <3>1. List(t, c) \in Seq(FileBlocks) /\ Len(List(t, c)) = Page - LeadOf(m) - 1
      BY <1>4, <1>6
    <3>2. Len(List(t, c)) \in Nat
      BY <3>1, LenProperties
    <3> QED
      BY <1>3, <3>1, <3>2, Sizes
  <2>3. w \in Seq(Words) /\ Len(w) = Page
    BY <1>1, <1>3, <2>1, <2>2, Sizes, EndedType
  <2>4. /\ Padded(d) \in Seq(Words) /\ Len(Padded(d)) = RoomIn(m)
        /\ Pads(Padded(d), d)
    BY <1>1, PaddedIs
  <2>5. LeadOf(m) <= Len(Padded(d))
    BY <1>1, LeadInside
  <2>6. Terminated(w) /\ bupParseExtentList(w) = List(t, c) /\ Tail1(w) = SubSeq(Padded(d), 1, LeadOf(m))
    <3>1. StartsWith(w, Ended(List(t, c), d, LeadOf(m), Page))
      BY <2>1 DEF StartsWith
    <3>2. Len(w) = Len(List(t, c)) + 1 + LeadOf(m) /\ Len(List(t, c)) + 1 + LeadOf(m) <= Page
      BY <2>2, <2>3, Sizes
    <3> QED
      BY <1>1, <1>3, <2>2, <2>3, <2>4, <2>5, <3>1, <3>2, Sizes, EndedList
  <2> QED
    BY <1>6, <2>3, <2>6 DEF IsPage
<1>7. i < c \/ i = c
  BY <1>2
<1> QED
  BY <1>5, <1>6, <1>7

(* The sequences e are the pieces of s between the offsets off.              *)
InPieces(S, s, n, off, e) ==
  /\ s \in Seq(S) /\ n \in Nat /\ off \in [0 .. n -> 0 .. Len(s)]
  /\ \A i \in 1 .. n : off[i - 1] <= off[i] /\ e[i] = Piece(s, off, i)
  /\ e \in [1 .. n -> Seq(S)]

(* Such pieces flatten to what they cover.                                   *)
LEMMA JoinedPieces ==
  ASSUME NEW S, NEW s, NEW n, NEW off, NEW e, InPieces(S, s, n, off, e)
  PROVE  FlattenSeq(e) = SubSeq(s, off[0] + 1, off[n])
<1>1. s \in Seq(S) /\ n \in Nat /\ off \in [0 .. n -> 0 .. Len(s)] /\ e \in [1 .. n -> Seq(S)]
  BY DEF InPieces
<1>2. \A i \in 1 .. n : off[i - 1] <= off[i]
  BY DEF InPieces
<1>3. \A i \in 1 .. n : e[i] = Piece(s, off, i)
  BY DEF InPieces
<1> QED
  BY <1>1, <1>2, <1>3, Joined, Zenon

(* The lists, one behind the other, name all the blocks but the first.       *)
LEMMA ListsJoin ==
  ASSUME NEW t \in Seq(FileBlocks), Pages(Len(t)) # 0
  PROVE  /\ SubSeq(t, 1, Slots) \in Seq(FileBlocks) /\ Len(SubSeq(t, 1, Slots)) = Slots
         /\ \A i \in 1 .. Slots : SubSeq(t, 1, Slots)[i] = t[i]
         /\ Slots <= Len(t)
         /\ SubSeq(t, 1, Slots) \o FlattenSeq([i \in 1 .. Pages(Len(t)) |-> List(t, i)]) = t
<1> DEFINE m == Len(t)
           c == Pages(m)
           off == [i \in 0 .. c |-> IF i < c THEN Slots + i * Page ELSE m]
           e == [i \in 1 .. c |-> List(t, i)]
<1>1. m \in Nat /\ \A i \in 1 .. m : t[i] \in FileBlocks
  BY LenProperties
<1>2. c \in 1 .. m /\ Slots + (c - 1) * Page <= m /\ (c - 1) * Page \in Nat
  <2>1. c \in 0 .. m /\ c # 0 /\ Slots + (c - 1) * Page <= m
    BY <1>1, PagesFit
  <2> HIDE DEF c, m
  <2>2. c - 1 \in Nat
    BY <1>1, <2>1
  <2>3. (c - 1) * Page \in Nat
    BY <2>2, Sizes
  <2> QED
    BY <1>1, <2>1, <2>3
<1>3. Slots <= m
  <2> HIDE DEF c, m
  <2> QED
    BY <1>1, <1>2, Sizes
<1>4. ASSUME NEW i \in 1 .. c
      PROVE  /\ List(t, i) \in Seq(FileBlocks)
             /\ (i - 1) * Page \in Nat /\ i * Page = (i - 1) * Page + Page /\ Slots + (i - 1) * Page <= m
             /\ i < c => Slots + i * Page <= m /\ List(t, i) = SubSeq(t, Slots + (i - 1) * Page + 1, Slots + i * Page)
             /\ i = c => List(t, i) = SubSeq(t, Slots + (i - 1) * Page + 1, m)
  BY ListIs
<1>a. m = Len(t)
  OBVIOUS
<1> HIDE DEF c, m, List
<1>5. off \in [0 .. c -> 0 .. m]
  <2> SUFFICES ASSUME NEW i \in 0 .. c PROVE (IF i < c THEN Slots + i * Page ELSE m) \in 0 .. m
    OBVIOUS
  <2>1. CASE i < c
    <3>1. i + 1 \in 1 .. c /\ (i + 1) - 1 = i
      BY <1>2, <2>1
    <3>2. i * Page \in Nat /\ Slots + i * Page <= m
      BY <1>4, <3>1
    <3> QED
      BY <1>1, <2>1, <3>2, Sizes
  <2>2. CASE ~(i < c)
    BY <1>1, <2>2
  <2> QED
    BY <2>1, <2>2
<1>6. ASSUME NEW i \in 1 .. c PROVE off[i - 1] <= off[i] /\ e[i] = Piece(t, off, i)
  <2>1. i - 1 \in 0 .. c /\ i \in 0 .. c /\ i - 1 < c
    BY <1>2
  <2>2. off[i - 1] = Slots + (i - 1) * Page
    BY <2>1
  <2>3. CASE i < c
    <3>1. off[i] = Slots + i * Page
      BY <2>1, <2>3
    <3>2. off[i - 1] <= off[i]
      <4>1. (i - 1) * Page \in Nat /\ i * Page = (i - 1) * Page + Page
        BY <1>4
      <4> HIDE DEF off
      <4> QED
        BY <2>2, <3>1, <4>1, Sizes
    <3>3. e[i] = SubSeq(t, Slots + (i - 1) * Page + 1, Slots + i * Page)
      BY <1>4, <2>3
    <3> HIDE DEF off
    <3> QED
      BY <2>2, <3>1, <3>2, <3>3 DEF Piece
  <2>4. CASE i = c
    <3>1. off[i] = m
      BY <2>1, <2>4
    <3>2. off[i - 1] <= off[i]
      BY <1>4, <2>2, <3>1
    <3>3. e[i] = SubSeq(t, Slots + (i - 1) * Page + 1, m)
      BY <1>4, <2>4
    <3> HIDE DEF off
    <3> QED
      BY <2>2, <3>1, <3>2, <3>3 DEF Piece
  <2>5. i < c \/ i = c
    BY <1>2
  <2> QED
    BY <2>3, <2>4, <2>5
<1>7. e \in [1 .. c -> Seq(FileBlocks)]
  BY <1>4
<1>8. off[0] = Slots /\ off[c] = m
  <2>1. 0 \in 0 .. c /\ 0 < c /\ c \in 0 .. c /\ ~(c < c) /\ 0 * Page = 0
    BY <1>2, Sizes
  <2> QED
    BY <2>1, Sizes
<1>9. FlattenSeq(e) = SubSeq(t, Slots + 1, m)
  <2>1. c \in Nat
    BY <1>2
  <2> HIDE DEF e, off
  <2>2. InPieces(FileBlocks, t, c, off, e)
    BY <1>5, <1>6, <1>7, <1>a, <2>1 DEF InPieces
  <2>3. FlattenSeq(e) = SubSeq(t, off[0] + 1, off[c])
    BY <2>2, JoinedPieces
  <2> QED
    BY <1>8, <2>3
<1>10. SubSeq(t, 1, Slots) \o SubSeq(t, Slots + 1, m) = t
  <2>1. 1 \in 1 .. Len(t) + 1 /\ Slots \in (1 - 1) .. Len(t) /\ Len(t) \in Slots .. Len(t)
    BY <1>1, <1>3, <1>a, Sizes
  <2>2. SubSeq(t, 1, Slots) \o SubSeq(t, Slots + 1, Len(t)) = SubSeq(t, 1, Len(t))
    BY <2>1, ConcatAdjacentSubSeq
  <2> QED
    BY <1>a, <2>2, SubSeqFull
<1>11. /\ SubSeq(t, 1, Slots) \in Seq(FileBlocks) /\ Len(SubSeq(t, 1, Slots)) = Slots
       /\ \A i \in 1 .. Slots : SubSeq(t, 1, Slots)[i] = t[i]
  <2> DEFINE r == SubSeq(t, 1, Slots)
  <2>1. \A i \in 1 .. Slots : t[i] \in FileBlocks
    BY <1>1, <1>3, Sizes
  <2>2. /\ r \in Seq(FileBlocks) /\ Len(r) = (IF 1 <= Slots THEN Slots - 1 + 1 ELSE 0)
        /\ \A i \in 1 .. Slots - 1 + 1 : r[i] = t[1 + i - 1]
    BY <2>1, Sizes, SubSeqProperties
  <2> HIDE DEF r
  <2>3. \A i \in 1 .. Slots : i \in 1 .. Slots - 1 + 1 /\ 1 + i - 1 = i
    BY Sizes
  <2>4. Len(r) = Slots
    BY <2>2, Sizes
  <2> QED
    BY <2>2, <2>3, <2>4 DEF r
<1> QED
  BY <1>3, <1>9, <1>10, <1>11, <1>a DEF c, e

(* What lies behind the last list and in the data blocks is the file.        *)
LEMMA ChunksJoin ==
  ASSUME NEW d \in Seq(Words), NEW m, m = BlocksFor(Len(d)), NEW lead, lead = LeadOf(m),
         NEW n, n = m - Pages(m),
         NEW e, e = [i \in 1 .. n |-> Fill(Chunk(d, lead, i), Page)]
  PROVE  SubSeq(Padded(d), 1, lead) \o FlattenSeq(e) = Padded(d)
<1> DEFINE s == Padded(d)
           off == [i \in 0 .. n |-> lead + i * Page]
<1>1. s \in Seq(Words) /\ Len(s) = RoomIn(m) /\ Pads(s, d)
  BY PaddedIs
<1>2. m \in Nat /\ lead \in Nat /\ lead <= Len(s)
  BY LeadInside, LenProperties, RoomFor
<1>3. n \in Nat
  <2>1. \A a \in Nat : \A b \in 0 .. a : a - b \in Nat
    OBVIOUS
  <2>2. Pages(m) \in 0 .. m
    BY <1>2, PagesFit
  <2> QED
    BY <1>2, <2>1, <2>2
<1>4. RoomIn(m) = lead + n * Page
  BY DEF RoomIn
<1> HIDE DEF s
<1>5. ASSUME NEW i \in 0 .. n PROVE i * Page \in Nat /\ lead + i * Page <= Len(s)
  <2>1. i \in Nat /\ i <= n
    BY <1>3
  <2>2. i * Page \in Nat /\ i * Page <= n * Page /\ n * Page \in Nat
    BY <1>3, <2>1, Sizes
  <2> QED
    BY <1>1, <1>2, <1>4, <2>2
<1>6. off \in [0 .. n -> 0 .. Len(s)]
  <2> SUFFICES ASSUME NEW i \in 0 .. n PROVE lead + i * Page \in 0 .. Len(s)
    OBVIOUS
  <2>1. i * Page \in Nat /\ lead + i * Page <= Len(s)
    BY <1>5
  <2>2. Len(s) \in Nat
    BY <1>1, LenProperties
  <2> QED
    BY <1>2, <2>1, <2>2
<1>7. ASSUME NEW i \in 1 .. n PROVE off[i - 1] <= off[i] /\ e[i] = Piece(s, off, i) /\ e[i] \in Seq(Words)
  <2>1. i \in 0 .. n /\ i - 1 \in 0 .. n /\ i \in Nat \ {0}
    BY <1>3
  <2>2. off[i] = lead + i * Page /\ off[i - 1] = lead + (i - 1) * Page
    BY <2>1
  <2>3. (i - 1) * Page \in Nat /\ i * Page = (i - 1) * Page + Page
    BY <2>1, Sizes
  <2>4. lead + i * Page <= Len(s)
    BY <1>5, <2>1
  <2>5. /\ Fill(Chunk(d, lead, i), Page) = SubSeq(s, lead + (i - 1) * Page + 1, lead + i * Page)
        /\ Fill(Chunk(d, lead, i), Page) \in Seq(Words)
    BY <1>1, <1>2, <2>1, <2>4, ChunkIs
  <2>6. e[i] = Fill(Chunk(d, lead, i), Page)
    OBVIOUS
  <2> HIDE DEF off
  <2>7. off[i - 1] <= off[i]
    BY <1>2, <2>2, <2>3, Sizes
  <2>8. Piece(s, off, i) = SubSeq(s, lead + (i - 1) * Page + 1, lead + i * Page)
    BY <2>2 DEF Piece
  <2> QED
    BY <2>5, <2>6, <2>7, <2>8
<1>8. e \in [1 .. n -> Seq(Words)]
  BY <1>7
<1>9. off[0] = lead /\ off[n] = Len(s)
  <2>1. 0 \in 0 .. n /\ n \in 0 .. n /\ 0 * Page = 0
    BY <1>3, Sizes
  <2>2. off[0] = lead + 0 * Page /\ off[n] = lead + n * Page
    BY <2>1
  <2> HIDE DEF off
  <2> QED
    BY <1>1, <1>2, <1>4, <2>1, <2>2
<1> HIDE DEF off
<1>10. FlattenSeq(e) = SubSeq(s, lead + 1, Len(s))
  <2>1. InPieces(Words, s, n, off, e)
    BY <1>1, <1>3, <1>6, <1>7, <1>8 DEF InPieces
  <2>2. FlattenSeq(e) = SubSeq(s, off[0] + 1, off[n])
    BY <2>1, JoinedPieces
  <2> QED
    BY <1>9, <2>2
<1>11. SubSeq(s, 1, lead) \o SubSeq(s, lead + 1, Len(s)) = s
  <2>1. Len(s) \in Nat
    BY <1>1, LenProperties
  <2>2. 1 \in 1 .. Len(s) + 1 /\ lead \in (1 - 1) .. Len(s) /\ Len(s) \in lead .. Len(s)
    BY <1>2, <2>1
  <2>3. SubSeq(s, 1, lead) \o SubSeq(s, lead + 1, Len(s)) = SubSeq(s, 1, Len(s))
    BY <1>1, <2>2, ConcatAdjacentSubSeq
  <2> QED
    BY <1>1, <2>3, SubSeqFull
<1> QED
  BY <1>10, <1>11 DEF s

(* The part of the list in the directory entry itself.                       *)
Seed(e) == bupParseExtentList(InEntry(e))

(* What is laid out is found again.                                          *)
LEMMA ReadsBack ==
  ASSUME NEW blocks, NEW d, FitsIn(blocks, d), NEW n, NEW e, e = blocks[1],
         \A i \in 1 .. Len(blocks) : ram'[blocks[i]] = Layout(blocks, n, d)[i]
  PROVE  /\ Seed(e)' \in Seq(FileBlocks)
         /\ \A i \in 1 .. Len(Seed(e)') : Seed(e)'[i] \in ToSet(Tail(blocks))
         /\ (bupEntryBlocks(e).claimed)' = Tail(blocks)
         /\ (bupEntryBlocks(e).pages)' = Pages(BlocksFor(Len(d)))
         /\ bupBuildReadChain(e)' = Padded(d)
         /\ Payload(e)' = d
<1> DEFINE t == Tail(blocks)
           m == BlocksFor(Len(d))
           c == Pages(m)
           L == Layout(blocks, n, d)
           own == SubSeq(L[1].words, 1, Slots)
           lead == LeadOf(m)
           s == Padded(d)
<1>1. /\ m \in Nat /\ t \in Seq(FileBlocks) /\ Len(t) = m /\ d \in Seq(Words) /\ Len(d) \in Nat
      /\ Len(blocks) = m + 1 /\ \A i \in 1 .. m : t[i] = blocks[i + 1]
  <2>1. /\ m \in Nat /\ t \in Seq(FileBlocks) /\ Len(t) = m /\ Len(d) \in Nat
        /\ \A i \in 1 .. Len(t) : t[i] = blocks[i + 1]
    BY TailIs
  <2>2. d \in Seq(Words) /\ Len(blocks) = 1 + m
    BY DEF FitsIn
  <2> HIDE DEF m, t
  <2> QED
    BY <2>1, <2>2
<1>2. c \in 0 .. m /\ c <= Slots
  <2>1. c \in 0 .. m
    BY <1>1, PagesFit
  <2> QED
    BY <2>1 DEF FitsIn
<1>3. /\ c = 0 => Terminated(own) /\ bupParseExtentList(own) = t /\ Tail1(own) = SubSeq(s, 1, lead)
      /\ c # 0 => ~Terminated(own) /\ bupParseExtentList(own) = SubSeq(t, 1, Slots)
  <2>1. IsOwnList(L[1].words, own, d, t, m, c)
    BY OwnList
  <2> HIDE DEF L, own, t, m, c, lead, s
  <2>2. lead = LeadOf(m) /\ s = Padded(d)
    BY DEF lead, s
  <2> QED
    BY <2>1, <2>2 DEF IsOwnList
<1>4. ASSUME NEW i \in 1 .. c
      PROVE  /\ bupParseExtentList(L[i + 1].words) = List(t, i)
             /\ Terminated(L[i + 1].words) <=> i = c
             /\ i = c => Tail1(L[i + 1].words) = SubSeq(s, 1, lead)
  <2>1. IsPage(L[i + 1].words, i, d, t, m, c)
    BY PageLists
  <2> HIDE DEF L, own, t, m, c, lead, s
  <2>2. lead = LeadOf(m) /\ s = Padded(d)
    BY DEF lead, s
  <2> QED
    BY <2>1, <2>2 DEF IsPage
<1>5. IsLayout(L, n, d, t, m, c)
  BY LayoutIs
<1>6. ram'[e] = L[1] /\ \A i \in 1 .. m : ram'[t[i]] = L[i + 1]
  <2>0. \A i \in 1 .. Len(blocks) : ram'[blocks[i]] = L[i]
    OBVIOUS
  <2>1. 1 \in 1 .. Len(blocks) /\ \A i \in 1 .. m : i + 1 \in 1 .. Len(blocks)
    BY <1>1
  <2> HIDE DEF t, L, m
  <2> QED
    BY <1>1, <2>0, <2>1
<1>7. InEntry(e)' = own
  BY <1>6 DEF InEntry
<1>8. L[1].size = Len(d)
  BY <1>5 DEF IsLayout
<1>9. s \in Seq(Words) /\ From(s, 1, Len(d)) = d
  BY <1>1, PaddedIs
<1>10. \A i \in 1 .. m - c : L[c + 1 + i].words = Fill(Chunk(d, lead, i), Page)
  BY <1>5 DEF IsLayout
<1> HIDE DEF t, m, c, L, own, lead, s
<1> DEFINE data == [i \in 1 .. m - c |-> Fill(Chunk(d, lead, i), Page)]
<1>11. SubSeq(s, 1, lead) \o FlattenSeq(data) = s
  BY <1>1, ChunksJoin DEF s, m, c, lead
<1> DEFINE blocksOf == [i \in 1 .. m - c |-> ram'[t[c + i]].words]
<1>12. blocksOf = data
  <2> SUFFICES ASSUME NEW i \in 1 .. m - c PROVE ram'[t[c + i]].words = Fill(Chunk(d, lead, i), Page)
    OBVIOUS
  <2>1. c + i \in 1 .. m /\ (c + i) + 1 = c + 1 + i
    BY <1>1, <1>2
  <2>2. ram'[t[c + i]] = L[c + 1 + i]
    BY <1>6, <2>1
  <2> QED
    BY <1>10, <2>2
<1>13. SubSeq(s, 1, lead) \o FlattenSeq(blocksOf) = s
  BY <1>11, <1>12
<1> HIDE DEF data
<1>14. ASSUME c = 0
       PROVE  /\ Seed(e)' \in Seq(FileBlocks) /\ \A i \in 1 .. Len(Seed(e)') : Seed(e)'[i] \in ToSet(t)
              /\ (bupEntryBlocks(e).claimed)' = t /\ (bupEntryBlocks(e).pages)' = c /\ bupBuildReadChain(e)' = s
  <2>1. Seed(e)' = t
    BY <1>3, <1>7, <1>14 DEF Seed
  <2>2. bupEntryBlocks(e)' = [claimed |-> t, pages |-> 0]
    BY <1>3, <1>7, <1>14 DEF bupEntryBlocks
  <2>3. bupBuildReadChain(e)' = Tail1(own) \o FlattenSeq(blocksOf)
    <3>1. bupBuildReadChain(e)' = Tail1(InEntry(e)') \o FlattenSeq([i \in 1 .. Len(t) - 0 |-> ram'[t[0 + i]].words])
      BY <2>2 DEF bupBuildReadChain
    <3>2. [i \in 1 .. Len(t) - 0 |-> ram'[t[0 + i]].words] = blocksOf
      BY <1>1, <1>14
    <3> HIDE DEF blocksOf
    <3> QED
      BY <1>7, <3>1, <3>2
  <2>4. Seed(e)' \in Seq(FileBlocks)
    BY <1>1, <2>1
  <2>5. (bupEntryBlocks(e).claimed)' = t /\ (bupEntryBlocks(e).pages)' = c
    BY <1>14, <2>2
  <2>7. \A i \in 1 .. Len(Seed(e)') : Seed(e)'[i] \in ToSet(t)
    <3>1. DOMAIN t = 1 .. Len(t)
      BY <1>1, LenProperties
    <3> QED
      BY <2>1, <3>1 DEF ToSet
  <2>6. bupBuildReadChain(e)' = s
    BY <1>3, <1>13, <1>14, <2>3
  <2> QED
    BY <2>4, <2>5, <2>6, <2>7
<1>15. ASSUME c # 0
       PROVE  /\ Seed(e)' \in Seq(FileBlocks) /\ \A i \in 1 .. Len(Seed(e)') : Seed(e)'[i] \in ToSet(t)
              /\ (bupEntryBlocks(e).claimed)' = t /\ (bupEntryBlocks(e).pages)' = c /\ bupBuildReadChain(e)' = s
  <2> DEFINE seed == SubSeq(t, 1, Slots)
             lists == [i \in 1 .. c |-> List(t, i)]
  <2>1. /\ seed \in Seq(FileBlocks) /\ Len(seed) = Slots /\ \A i \in 1 .. Slots : seed[i] = t[i]
        /\ Slots <= m /\ seed \o FlattenSeq(lists) = t
    BY <1>1, <1>15, ListsJoin DEF c
  <2> HIDE DEF seed
  <2>2. Seed(e)' = seed /\ ~Terminated(InEntry(e)')
    BY <1>3, <1>7, <1>15 DEF Seed, seed
  <2>3. \A i \in 1 .. c : ram'[seed[i]].words = L[i + 1].words /\ i \in DOMAIN seed
    <3>1. \A i \in 1 .. c : i \in 1 .. Slots /\ i \in 1 .. m
      BY <1>1, <1>2, Sizes
    <3>2. DOMAIN seed = 1 .. Slots
      BY <2>1, LenProperties
    <3> QED
      BY <1>6, <2>1, <3>1, <3>2
  <2> DEFINE last == {i \in DOMAIN seed : Terminated(ram'[seed[i]].words)}
             pages == IF last = {} THEN Len(seed) ELSE Min(last)
  <2>4. last # {} /\ Min(last) = c
    <3>1. c \in 1 .. c
      BY <1>1, <1>2, <1>15
    <3>2. c \in last
      BY <1>4, <2>3, <3>1
    <3>3. last \in SUBSET Int /\ \A i \in last : i \in 1 .. Slots
      BY <2>1, Sizes, LenProperties
    <3>4. ASSUME NEW i \in last PROVE c <= i
      <4> SUFFICES ASSUME ~(c <= i) PROVE FALSE
        OBVIOUS
      <4>1. i \in 1 .. c /\ i # c
        BY <1>1, <1>2, <3>3
      <4>2. ~Terminated(L[i + 1].words)
        BY <1>4, <4>1
      <4> QED
        BY <2>3, <4>1, <4>2
    <3> HIDE DEF last
    <3> QED
      BY <3>2, <3>3, <3>4, LeastIs
  <2>5. pages = c
    BY <2>4
  <2> DEFINE found == [i \in 1 .. c |-> bupParseExtentList(ram'[seed[i]].words)]
  <2>6. found = lists
    BY <1>4, <2>3
  <2>7. bupWalkOverflow(seed)' = [claimed |-> t, pages |-> c]
    <3>1. bupWalkOverflow(seed)' =
            [claimed |-> seed \o FlattenSeq([i \in 1 .. pages |-> bupParseExtentList(ram'[seed[i]].words)]), pages |-> pages]
      BY Zenon DEF bupWalkOverflow
    <3> HIDE DEF pages
    <3>2. bupWalkOverflow(seed)' = [claimed |-> seed \o FlattenSeq(found), pages |-> c]
      BY <2>5, <3>1
    <3> HIDE DEF found, lists
    <3> QED
      BY <2>1, <2>6, <3>2
  <2>8. bupEntryBlocks(e)' = [claimed |-> t, pages |-> c]
    <3>1. bupEntryBlocks(e)' = IF Terminated(InEntry(e)') THEN [claimed |-> Seed(e)', pages |-> 0] ELSE bupWalkOverflow(Seed(e))'
      BY Zenon DEF bupEntryBlocks, Seed
    <3> QED
      BY <2>2, <2>7, <3>1
  <2>9. bupBuildReadChain(e)' = Tail1(ram'[t[c]].words) \o FlattenSeq(blocksOf)
    <3>1. bupBuildReadChain(e)' = Tail1(ram'[t[c]].words) \o FlattenSeq([i \in 1 .. Len(t) - c |-> ram'[t[c + i]].words])
      BY <1>15, <2>8 DEF bupBuildReadChain
    <3> QED
      BY <1>1, <3>1
  <2>10. Tail1(ram'[t[c]].words) = SubSeq(s, 1, lead)
    <3>1. c \in 1 .. c /\ c \in 1 .. m
      BY <1>1, <1>2, <1>15
    <3>2. ram'[t[c]] = L[c + 1]
      BY <1>6, <3>1
    <3> QED
      BY <1>4, <3>1, <3>2
  <2>11. Seed(e)' \in Seq(FileBlocks)
    BY <2>1, <2>2
  <2>12. (bupEntryBlocks(e).claimed)' = t /\ (bupEntryBlocks(e).pages)' = c
    BY <2>8
  <2>14. \A i \in 1 .. Len(Seed(e)') : Seed(e)'[i] \in ToSet(t)
    <3>1. DOMAIN t = 1 .. m
      BY <1>1, LenProperties
    <3>2. \A i \in 1 .. Slots : i \in 1 .. m
      BY <1>1, <2>1, Sizes
    <3>3. \A i \in 1 .. Slots : seed[i] = t[i] /\ i \in DOMAIN t
      BY <2>1, <3>1, <3>2
    <3> QED
      BY <2>1, <2>2, <3>3 DEF ToSet
  <2>13. bupBuildReadChain(e)' = s
    BY <1>13, <2>9, <2>10
  <2> QED
    BY <2>11, <2>12, <2>13, <2>14
<1>16. bupBuildReadChain(e)' = s
  BY <1>14, <1>15
<1>17. Payload(e)' = d
  BY <1>6, <1>8, <1>9, <1>16 DEF Payload
<1> QED
  BY <1>14, <1>15, <1>17 DEF t, s, m, c

-----------------------------------------------------------------------------
(* Files in blocks                                                           *)

(* A block of the memory.                                                    *)
Block == [used : BOOLEAN, name : Names \cup {None}, size : Nat, words : {w \in Seq(Words) : Len(w) = Page}]

(* An entry whose list can be followed, of as many blocks as its file takes. *)
Sound(e) ==
  LET b == bupEntryBlocks(e) IN
  /\ ram[e].name \in Names
  /\ Seed(e) \in Seq(FileBlocks) /\ \A i \in 1 .. Len(Seed(e)) : Seed(e)[i] \in ToSet(b.claimed)
  /\ b.claimed \in Seq(FileBlocks) /\ Once(b.claimed) /\ b.pages \in 0 .. Len(b.claimed)
  /\ Len(b.claimed) = BlocksFor(ram[e].size)
  /\ bupBuildReadChain(e) \in Seq(Words) /\ ram[e].size <= Len(bupBuildReadChain(e))
  /\ Payload(e) \in Contents

(* Two entries have no block in common.                                      *)
Apart(e, f) == e \notin Claimed(f) /\ (e # f => Claimed(e) \cap Claimed(f) = {} /\ ram[e].name # ram[f].name)

(* Every entry can be followed, and no block belongs to two.                 *)
FilesInv ==
  /\ ram \in [FileBlocks -> Block]
  /\ \A e \in Entries : Sound(e)
  /\ \A e \in Entries : \A f \in Entries : Apart(e, f)

(* What an entry says is in it and in the blocks it claims.                  *)
Kept(e) == ram'[e] = ram[e] /\ \A b \in Claimed(e) : ram'[b] = ram[b]

(* The walk over the continuation pages in the memory r.                     *)
Walk(q, r) ==
  LET last == {i \in DOMAIN q : Terminated(r[q[i]].words)}
      pages == IF last = {} THEN Len(q) ELSE Min(last) IN
  [claimed |-> q \o FlattenSeq([i \in 1 .. pages |-> bupParseExtentList(r[q[i]].words)]), pages |-> pages]

(* An entry whose blocks keep their words keeps its blocks and its payload.  *)
LEMMA KeptEntry ==
  ASSUME NEW e, Sound(e), Kept(e)
  PROVE  /\ Seed(e)' = Seed(e)
         /\ bupEntryBlocks(e)' = bupEntryBlocks(e)
         /\ bupBuildReadChain(e)' = bupBuildReadChain(e)
         /\ Payload(e)' = Payload(e)
         /\ Claimed(e)' = Claimed(e)
         /\ Sound(e)'
<1> DEFINE seed == Seed(e)
           b == bupEntryBlocks(e)
<1>1. /\ seed \in Seq(FileBlocks) /\ \A i \in 1 .. Len(seed) : seed[i] \in Claimed(e)
      /\ b.claimed \in Seq(FileBlocks) /\ b.pages \in 0 .. Len(b.claimed)
  BY DEF Sound, Claimed
<1>2. ram'[e] = ram[e] /\ \A x \in Claimed(e) : ram'[x] = ram[x]
  BY DEF Kept
<1>3. InEntry(e)' = InEntry(e)
  BY <1>2 DEF InEntry
<1>4. Seed(e)' = seed
  BY <1>3 DEF Seed
<1>5. Len(seed) \in Nat /\ DOMAIN seed = 1 .. Len(seed)
  BY <1>1, LenProperties
<1>6. \A i \in DOMAIN seed : ram'[seed[i]] = ram[seed[i]]
  <2> HIDE DEF seed
  <2> QED
    BY <1>1, <1>2, <1>5
<1> DEFINE last == {i \in DOMAIN seed : Terminated(ram[seed[i]].words)}
           pages == IF last = {} THEN Len(seed) ELSE Min(last)
           lists == [i \in 1 .. pages |-> bupParseExtentList(ram[seed[i]].words)]
           lists1 == [i \in 1 .. pages |-> bupParseExtentList(ram'[seed[i]].words)]
<1> HIDE DEF seed
<1>7. last = {i \in DOMAIN seed : Terminated(ram'[seed[i]].words)}
  BY <1>6
<1>8. pages \in 0 .. Len(seed)
  <2>1. CASE last = {}
    BY <1>5, <2>1
  <2>2. CASE last # {}
    <3>1. last \in SUBSET Nat /\ last \subseteq 1 .. Len(seed)
      BY <1>5
    <3> HIDE DEF last
    <3>2. PICK x \in last : \A y \in last : x <= y
      BY <2>2, <3>1, LeastNumber
    <3>3. last \in SUBSET Int
      BY <3>1
    <3>4. Min(last) = x
      BY <3>2, <3>3, LeastIs
    <3> QED
      BY <1>5, <2>2, <3>1, <3>4
  <2> QED
    BY <2>1, <2>2
<1>9. lists1 = lists
  <2> HIDE DEF pages, last
  <2>1. \A i \in 1 .. pages : i \in DOMAIN seed
    BY <1>5, <1>8
  <2> QED
    BY <1>6, <2>1
<1>10. bupWalkOverflow(seed) = [claimed |-> seed \o FlattenSeq(lists), pages |-> pages]
  BY Zenon DEF bupWalkOverflow
<1>11. b = IF Terminated(InEntry(e)) THEN [claimed |-> seed, pages |-> 0] ELSE Walk(seed, ram)
  BY Zenon DEF bupEntryBlocks, bupWalkOverflow, Walk, Seed, seed
<1>12. bupEntryBlocks(e)' = IF Terminated(InEntry(e)') THEN [claimed |-> Seed(e)', pages |-> 0] ELSE Walk(Seed(e)', ram')
  BY Zenon DEF bupEntryBlocks, bupWalkOverflow, Walk, Seed
<1>13. Walk(seed, ram') = Walk(seed, ram)
  <2> DEFINE last1 == {i \in DOMAIN seed : Terminated(ram'[seed[i]].words)}
             pages1 == IF last1 = {} THEN Len(seed) ELSE Min(last1)
  <2>1. Walk(seed, ram') =
          [claimed |-> seed \o FlattenSeq([i \in 1 .. pages1 |-> bupParseExtentList(ram'[seed[i]].words)]), pages |-> pages1]
    BY Zenon DEF Walk
  <2>2. pages1 = pages
    BY <1>7
  <2>3. Walk(seed, ram) = [claimed |-> seed \o FlattenSeq(lists), pages |-> pages]
    BY Zenon DEF Walk
  <2> HIDE DEF pages1, pages
  <2>4. Walk(seed, ram') = [claimed |-> seed \o FlattenSeq(lists1), pages |-> pages]
    BY <2>1, <2>2
  <2> HIDE DEF lists, lists1
  <2> QED
    BY <1>9, <2>3, <2>4
<1>14. bupEntryBlocks(e)' = b
  <2> HIDE DEF b
  <2> QED
    BY <1>3, <1>4, <1>11, <1>12, <1>13
<1> HIDE DEF b, last, pages, lists, lists1
<1>15. bupBuildReadChain(e)' = bupBuildReadChain(e)
  <2> DEFINE rest == [i \in 1 .. Len(b.claimed) - b.pages |-> ram[b.claimed[b.pages + i]].words]
             rest1 == [i \in 1 .. Len(b.claimed) - b.pages |-> ram'[b.claimed[b.pages + i]].words]
             first == IF b.pages = 0 THEN InEntry(e) ELSE ram[b.claimed[b.pages]].words
             first1 == IF b.pages = 0 THEN InEntry(e)' ELSE ram'[b.claimed[b.pages]].words
  <2>1. \A i \in 1 .. Len(b.claimed) : ram'[b.claimed[i]] = ram[b.claimed[i]]
    <3>1. \A i \in 1 .. Len(b.claimed) : b.claimed[i] \in Claimed(e)
      <4>1. DOMAIN b.claimed = 1 .. Len(b.claimed)
        BY <1>1, LenProperties
      <4> QED
        BY <4>1 DEF Claimed, ToSet, b
    <3> QED
      BY <1>2, <3>1
  <2>2. Len(b.claimed) \in Nat
    BY <1>1, LenProperties
  <2>3. rest1 = rest
    <3>1. \A i \in 1 .. Len(b.claimed) - b.pages : b.pages + i \in 1 .. Len(b.claimed)
      BY <1>1, <2>2
    <3> QED
      BY <2>1, <3>1
  <2>4. first1 = first
    <3>1. b.pages # 0 => b.pages \in 1 .. Len(b.claimed)
      BY <1>1, <2>2
    <3> QED
      BY <1>3, <2>1, <3>1
  <2>5. bupBuildReadChain(e) = Tail1(first) \o FlattenSeq(rest)
    BY Zenon DEF bupBuildReadChain, b
  <2>6. bupBuildReadChain(e)' = Tail1(first1) \o FlattenSeq(rest1)
    <3> DEFINE b1 == bupEntryBlocks(e)'
    <3>1. bupBuildReadChain(e)' =
            Tail1(IF b1.pages = 0 THEN InEntry(e)' ELSE ram'[b1.claimed[b1.pages]].words)
              \o FlattenSeq([i \in 1 .. Len(b1.claimed) - b1.pages |-> ram'[b1.claimed[b1.pages + i]].words])
      BY Zenon DEF bupBuildReadChain
    <3>2. b1 = b
      BY <1>14
    <3> HIDE DEF b1
    <3> QED
      BY <3>1, <3>2
  <2> HIDE DEF first, first1, rest, rest1
  <2> QED
    BY <2>3, <2>4, <2>5, <2>6
<1>16. Payload(e)' = Payload(e)
  BY <1>2, <1>15 DEF Payload
<1>17. Claimed(e)' = Claimed(e)
  BY <1>14 DEF Claimed, b
<1>18. Sound(e)'
  BY <1>2, <1>4, <1>14, <1>15, <1>16 DEF Sound, b, seed
<1> QED
  BY <1>4, <1>14, <1>15, <1>16, <1>17, <1>18 DEF b, seed

(* A sequence without repetition has as many members as its length.          *)
LEMMA OnceCounts ==
  ASSUME NEW S, NEW s \in Seq(S), Once(s)
  PROVE  IsFiniteSet(ToSet(s)) /\ Cardinality(ToSet(s)) = Len(s)
<1>1. Len(s) \in Nat /\ s \in [1 .. Len(s) -> S] /\ DOMAIN s = 1 .. Len(s)
  BY LenProperties
<1>2. s \in Bijection(1 .. Len(s), ToSet(s))
  <2>1. ToSet(s) = {s[i] : i \in 1 .. Len(s)}
    BY <1>1 DEF ToSet
  <2>2. s \in [1 .. Len(s) -> ToSet(s)]
    BY <1>1, <2>1
  <2>3. \A x \in ToSet(s) : \E i \in 1 .. Len(s) : s[i] = x
    BY <2>1
  <2>4. \A i, j \in 1 .. Len(s) : s[i] = s[j] => i = j
    BY DEF Once
  <2> QED
    BY <2>2, <2>3, <2>4 DEF Bijection, Injection, Surjection, IsInjective
<1>3. ExistsBijection(1 .. Len(s), ToSet(s))
  BY <1>2 DEF ExistsBijection
<1>4. IsFiniteSet(ToSet(s))
  BY <1>1, <1>3, FS_NatBijection
<1> QED
  BY <1>1, <1>3, <1>4, FS_CountingElements

(* The property of the run follows.                                          *)
LEMMA Disjoint == FilesInv => BlocksDisjoint
<1> SUFFICES ASSUME FilesInv, NEW e \in Entries
             PROVE  /\ Claimed(e) \subseteq FileBlocks
                    /\ Cardinality(Claimed(e)) = Len(bupEntryBlocks(e).claimed)
                    /\ Claimed(e) \cap Entries = {}
                    /\ \A f \in Entries \ {e} : Claimed(e) \cap Claimed(f) = {} /\ ram[e].name # ram[f].name
  BY DEF BlocksDisjoint
<1> DEFINE s == bupEntryBlocks(e).claimed
<1>1. s \in Seq(FileBlocks) /\ Once(s)
  BY DEF FilesInv, Sound
<1>2. Claimed(e) = ToSet(s)
  BY DEF Claimed
<1>3. \A f \in Entries : Apart(e, f) /\ Apart(f, e)
  BY DEF FilesInv
<1> HIDE DEF s
<1>4. Claimed(e) \subseteq FileBlocks
  BY <1>1, <1>2, LenProperties DEF ToSet
<1>5. Cardinality(Claimed(e)) = Len(s)
  BY <1>1, <1>2, OnceCounts
<1>6. Claimed(e) \cap Entries = {}
  BY <1>3 DEF Apart
<1>7. \A f \in Entries \ {e} : Claimed(e) \cap Claimed(f) = {} /\ ram[e].name # ram[f].name
  BY <1>3 DEF Apart
<1> QED
  BY <1>4, <1>5, <1>6, <1>7 DEF s

(* What holds of entries that keep their words still holds.                  *)
LEMMA Remaining ==
  ASSUME FilesInv, NEW S \in SUBSET Entries, \A f \in S : Kept(f)
  PROVE  /\ \A f \in S : Sound(f)' /\ Claimed(f)' = Claimed(f) /\ Payload(f)' = Payload(f) /\ ram'[f] = ram[f]
         /\ \A f, g \in S : Apart(f, g)'
<1>1. \A f \in S : Sound(f)
  BY DEF FilesInv
<1>2. ASSUME NEW f \in S PROVE Sound(f)' /\ Claimed(f)' = Claimed(f) /\ Payload(f)' = Payload(f) /\ ram'[f] = ram[f]
  <2>1. Sound(f) /\ Kept(f)
    BY <1>1
  <2>2. Sound(f)' /\ Claimed(f)' = Claimed(f) /\ Payload(f)' = Payload(f)
    BY <2>1, KeptEntry
  <2> QED
    BY <2>1, <2>2 DEF Kept
<1>3. ASSUME NEW f \in S, NEW g \in S PROVE Apart(f, g)'
  <2>1. Apart(f, g)
    BY DEF FilesInv
  <2>2. Claimed(f)' = Claimed(f) /\ Claimed(g)' = Claimed(g) /\ ram'[f] = ram[f] /\ ram'[g] = ram[g]
    BY <1>2
  <2> QED
    BY <2>1, <2>2 DEF Apart
<1> QED
  BY <1>2, <1>3

(* Entries may go away.                                                      *)
LEMMA Fewer ==
  ASSUME FilesInv, ram' \in [FileBlocks -> Block], NEW S \in SUBSET Entries, \A f \in S : Kept(f), Entries' = S
  PROVE  FilesInv'
<1>1. \A f \in S : Sound(f)'
  BY Remaining
<1>2. \A f, g \in S : Apart(f, g)'
  BY Remaining
<1>3. (\A f \in Entries : Sound(f))'
  BY <1>1
<1>4. (\A f \in Entries : \A g \in Entries : Apart(f, g))'
  BY <1>2
<1> QED
  BY <1>3, <1>4 DEF FilesInv

(* An entry that may join the entries S.                                     *)
Joins(e, S) ==
  /\ Sound(e)' /\ e \notin Claimed(e)'
  /\ \A f \in S : /\ e # f /\ e \notin Claimed(f) /\ f \notin Claimed(e)'
                  /\ Claimed(e)' \cap Claimed(f) = {} /\ ram'[e].name # ram[f].name

(* Such an entry may be added.                                               *)
LEMMA OneMore ==
  ASSUME FilesInv, ram' \in [FileBlocks -> Block], NEW S \in SUBSET Entries, \A f \in S : Kept(f),
         NEW e, Entries' = S \cup {e}, Joins(e, S)
  PROVE  FilesInv'
<1>1. \A f \in S : Sound(f)' /\ Claimed(f)' = Claimed(f) /\ ram'[f] = ram[f]
  BY Remaining
<1>2. \A f, g \in S : Apart(f, g)'
  BY Remaining
<1>3. ASSUME NEW f \in S PROVE Apart(e, f)' /\ Apart(f, e)'
  <2>1. Claimed(f)' = Claimed(f) /\ ram'[f] = ram[f]
    BY <1>1
  <2>2. /\ e # f /\ e \notin Claimed(f) /\ f \notin Claimed(e)'
        /\ Claimed(e)' \cap Claimed(f) = {} /\ ram'[e].name # ram[f].name
    BY DEF Joins
  <2> QED
    BY <2>1, <2>2 DEF Apart
<1>4. Apart(e, e)'
  BY DEF Apart, Joins
<1>5. (\A f \in Entries : Sound(f))'
  BY <1>1 DEF Joins
<1>6. (\A f \in Entries : \A g \in Entries : Apart(f, g))'
  BY <1>2, <1>3, <1>4
<1> QED
  BY <1>5, <1>6 DEF FilesInv

(* The entry found under a name is the only one with this name.              *)
LEMMA EntryFound ==
  ASSUME FilesInv, NEW n
  PROVE  /\ bupFindEntry(n) = {} => \A f \in Entries : ram[f].name # n
         /\ bupFindEntry(n) # {} => /\ Entry(n) \in Entries /\ ram[Entry(n)].name = n
                                    /\ \A f \in Entries : ram[f].name = n => f = Entry(n)
<1>1. bupFindEntry(n) = {e \in Entries : ram[e].name = n}
  BY DEF bupFindEntry
<1>2. CASE bupFindEntry(n) # {}
  <2>1. PICK e \in Entries : ram[e].name = n
    BY <1>1, <1>2
  <2>2. \A f \in Entries : ram[f].name = n => f = e
    BY <2>1 DEF FilesInv, Apart
  <2>3. bupFindEntry(n) = {e}
    BY <1>1, <2>1, <2>2
  <2>4. e \in Nat
    BY WordsAre DEF Entries
  <2>5. Entry(n) = e
    BY <2>3, <2>4, LeastIs DEF Entry
  <2> QED
    BY <1>2, <2>1, <2>2, <2>5
<1> QED
  BY <1>1, <1>2

-----------------------------------------------------------------------------
(* What the services do to them                                              *)

(* What a write finds and takes.                                             *)
There(n) == IF bupFindEntry(n) = {} THEN {} ELSE {Entry(n)}
Erased(n) == [b \in FileBlocks |-> IF b \in There(n) THEN Zero ELSE ram[b]]
Free(n) == FreeBlocks \cup There(n) \cup UNION {Claimed(e) : e \in There(n)}
Others(n) == Entries \ There(n)

(* An erased block is a block, and no entry.                                 *)
LEMMA ZeroType == Zero \in Block /\ ~Zero.used
<1>1. Zeros(Page) \in Seq(Words) /\ Len(Zeros(Page)) = Page
  BY Sizes, WordsAre DEF Zeros
<1> QED
  BY <1>1 DEF Zero, Block

(* What is found under n is an entry of this name, and no other entry has    *)
(* it.                                                                       *)
LEMMA ThereIs ==
  ASSUME FilesInv, NEW n
  PROVE  /\ There(n) \in SUBSET Entries /\ \A e \in There(n) : ram[e].name = n
         /\ \A f \in Others(n) : ram[f].name # n
  BY EntryFound DEF There, Others

(* The blocks a write to n may take belong to no other entry.                *)
LEMMA FreeIs ==
  ASSUME FilesInv, NEW n
  PROVE  /\ Free(n) \in SUBSET FileBlocks
         /\ \A f \in Others(n) : f \notin Free(n) /\ Claimed(f) \cap Free(n) = {} /\ Claimed(f) \cap There(n) = {}
<1>1. There(n) \in SUBSET Entries /\ Entries \in SUBSET FileBlocks
  BY ThereIs DEF Entries
<1>2. \A e \in Entries : Claimed(e) \subseteq FileBlocks
  BY Disjoint DEF BlocksDisjoint
<1>3. \A e \in Entries : \A f \in Entries : f \notin Claimed(e) /\ (e # f => Claimed(e) \cap Claimed(f) = {})
  BY DEF FilesInv, Apart
<1>4. Free(n) \in SUBSET FileBlocks
  BY <1>1, <1>2 DEF Free, FreeBlocks
<1>5. ASSUME NEW f \in Others(n)
      PROVE  f \notin Free(n) /\ Claimed(f) \cap Free(n) = {} /\ Claimed(f) \cap There(n) = {}
  <2>1. f \in Entries /\ f \notin There(n)
    BY DEF Others
  <2>2. f \notin FreeBlocks /\ Claimed(f) \cap FreeBlocks = {}
    BY <2>1 DEF FreeBlocks, bupUsedBlocks
  <2>3. \A e \in There(n) : f \notin Claimed(e) /\ Claimed(f) \cap Claimed(e) = {} /\ e \notin Claimed(f)
    BY <1>1, <1>3, <2>1
  <2> QED
    BY <2>1, <2>2, <2>3 DEF Free
<1> QED
  BY <1>4, <1>5

(* Erasing an entry leaves the others as they are.                           *)
LEMMA EraseStep ==
  ASSUME FilesInv, NEW n, ram' = Erased(n)
  PROVE  FilesInv' /\ Entries' = Others(n) /\ \A f \in Others(n) : Kept(f)
<1>1. There(n) \in SUBSET Entries /\ Entries \in SUBSET FileBlocks
  BY ThereIs DEF Entries
<1>2. ram \in [FileBlocks -> Block]
  BY DEF FilesInv
<1>3. ram' \in [FileBlocks -> Block] /\ \A b \in FileBlocks : ram'[b] = IF b \in There(n) THEN Zero ELSE ram[b]
  BY <1>2, ZeroType DEF Erased
<1>4. Entries' = Others(n)
  <2>1. Entries' = {b \in FileBlocks : ram'[b].used}
    BY DEF Entries, bupEntryInUse
  <2>2. Others(n) = {b \in FileBlocks : ram[b].used /\ b \notin There(n)}
    BY DEF Entries, bupEntryInUse, Others
  <2>3. \A b \in FileBlocks : ram'[b].used <=> ram[b].used /\ b \notin There(n)
    BY <1>3, ZeroType
  <2> QED
    BY <2>1, <2>2, <2>3
<1>5. ASSUME NEW f \in Others(n) PROVE Kept(f)
  <2>1. Claimed(f) \cap There(n) = {} /\ f \notin There(n) /\ f \in FileBlocks /\ Claimed(f) \subseteq FileBlocks
    BY <1>1, FreeIs, Disjoint DEF Others, BlocksDisjoint
  <2> QED
    BY <1>3, <2>1 DEF Kept
<1>6. Others(n) \in SUBSET Entries
  BY DEF Others
<1>7. FilesInv'
  BY <1>3, <1>4, <1>5, <1>6, Fewer
<1> QED
  BY <1>4, <1>5, <1>7

(* A format leaves nothing.                                                  *)
LEMMA FormatStep ==
  ASSUME FilesInv, ram' = Formatted
  PROVE  FilesInv' /\ Entries' = {}
<1>1. ram' \in [FileBlocks -> Block]
  BY ZeroType DEF Formatted
<1>2. Entries' = {}
  BY ZeroType DEF Entries, bupEntryInUse, Formatted
<1> QED
  BY <1>1, <1>2, Fewer

(* A service that leaves the memory alone leaves the entries alone.          *)
LEMMA SameStep ==
  ASSUME FilesInv, UNCHANGED ram
  PROVE  FilesInv' /\ Entries' = Entries /\ \A f \in Entries : Kept(f)
<1>1. Entries' = Entries
  BY DEF Entries, bupEntryInUse
<1>2. \A f \in Entries : Kept(f)
  BY DEF Kept
<1>3. ram' \in [FileBlocks -> Block]
  BY DEF FilesInv
<1> QED
  BY <1>1, <1>2, <1>3, Fewer

(* The memory after a write: the blocks of the file, and the old entry       *)
(* erased.                                                                   *)
Overwritten(n, d, blocks) ==
  [b \in FileBlocks |-> IF b \in ToSet(blocks) THEN Layout(blocks, n, d)[CHOOSE i \in DOMAIN blocks : blocks[i] = b]
                        ELSE Erased(n)[b]]

(* After a write to n, e is its entry, with the payload d, and the others    *)
(* are as they were.                                                         *)
Written(n, d, e) ==
  /\ e \in FileBlocks /\ e \notin Others(n) /\ Entries' = Others(n) \cup {e}
  /\ \A f \in Others(n) : Kept(f)
  /\ Payload(e)' = d /\ ram'[e].name = n

(* What a write puts into a block is a block, and only the first is an       *)
(* entry.                                                                    *)
LEMMA LayoutType ==
  ASSUME NEW blocks, NEW d, FitsIn(blocks, d), NEW n \in Names, NEW i \in 1 .. Len(blocks)
  PROVE  Layout(blocks, n, d)[i] \in Block /\ (Layout(blocks, n, d)[i].used <=> i = 1)
<1> DEFINE t == Tail(blocks)
           m == BlocksFor(Len(d))
           c == Pages(m)
           L == Layout(blocks, n, d)
<1>1. /\ m \in Nat /\ t \in Seq(FileBlocks) /\ Len(t) = m /\ d \in Seq(Words) /\ Len(d) \in Nat /\ Len(blocks) = m + 1
  <2>1. m \in Nat /\ t \in Seq(FileBlocks) /\ Len(t) = m /\ Len(d) \in Nat
    BY TailIs
  <2>2. d \in Seq(Words) /\ Len(blocks) = 1 + m
    BY DEF FitsIn
  <2> HIDE DEF m, t
  <2> QED
    BY <2>1, <2>2
<1>2. c \in 0 .. m
  BY <1>1, PagesFit
<1>3. IsLayout(L, n, d, t, m, c)
  BY LayoutIs
<1>4. L[1].words \in Seq(Words) /\ Len(L[1].words) = Page
  <2>1. IsOwnList(L[1].words, SubSeq(L[1].words, 1, Slots), d, t, m, c)
    BY OwnList
  <2> HIDE DEF L, m, t, c
  <2> QED
    BY <2>1 DEF IsOwnList
<1>5. ASSUME NEW j \in 1 .. c PROVE L[j + 1].words \in Seq(Words) /\ Len(L[j + 1].words) = Page
  <2>1. IsPage(L[j + 1].words, j, d, t, m, c)
    BY PageLists
  <2> HIDE DEF L, m, t, c
  <2> QED
    BY <2>1 DEF IsPage
<1>6. ASSUME NEW j \in 1 .. m - c PROVE L[c + 1 + j].words \in Seq(Words) /\ Len(L[c + 1 + j].words) = Page
  <2>1. L[c + 1 + j].words = Fill(Chunk(d, LeadOf(m), j), Page)
    BY <1>3 DEF IsLayout
  <2>2. Padded(d) \in Seq(Words) /\ Len(Padded(d)) = RoomIn(m) /\ Pads(Padded(d), d)
    BY <1>1, PaddedIs
  <2>3. LeadOf(m) \in Nat
    BY <1>1, RoomFor
  <2>4. RoomIn(m) = LeadOf(m) + (m - c) * Page
    BY DEF RoomIn
  <2> HIDE DEF L, m, t, c
  <2>5. LeadOf(m) + j * Page <= Len(Padded(d)) /\ j \in Nat \ {0}
    <3>1. m - c \in Nat /\ j \in Nat /\ j <= m - c /\ j # 0
      BY <1>1, <1>2
    <3>2. j * Page <= (m - c) * Page /\ j * Page \in Nat /\ (m - c) * Page \in Nat
      BY <3>1, Sizes
    <3> QED
      BY <2>2, <2>3, <2>4, <3>1, <3>2
  <2>6. Fill(Chunk(d, LeadOf(m), j), Page) \in Seq(Words) /\ Len(Fill(Chunk(d, LeadOf(m), j), Page)) = Page
    BY <1>1, <2>2, <2>3, <2>5, ChunkIs
  <2> QED
    BY <2>1, <2>6
<1>7. L[i].words \in Seq(Words) /\ Len(L[i].words) = Page
  <2> HIDE DEF L, m, t, c
  <2>1. CASE i = 1
    BY <1>4, <2>1
  <2>2. CASE i # 1 /\ i - 1 <= c
    <3>1. i - 1 \in 1 .. c /\ (i - 1) + 1 = i
      BY <1>1, <1>2, <2>2
    <3> QED
      BY <1>5, <3>1
  <2>3. CASE i # 1 /\ ~(i - 1 <= c)
    <3>1. i - 1 - c \in 1 .. m - c /\ c + 1 + (i - 1 - c) = i
      BY <1>1, <1>2, <2>3
    <3> QED
      BY <1>6, <3>1
  <2> QED
    BY <2>1, <2>2, <2>3
<1>8. /\ L[1].used = TRUE /\ L[1].name = n /\ L[1].size = Len(d)
      /\ \A j \in 2 .. m + 1 : L[j].used = FALSE /\ L[j].name = None /\ L[j].size = 0
  BY <1>3 DEF IsLayout
<1>9. L[i] = [used |-> L[i].used, name |-> L[i].name, size |-> L[i].size, words |-> L[i].words]
  <2>1. Zero = [used |-> FALSE, name |-> None, size |-> 0, words |-> Zeros(Page)]
    BY DEF Zero
  <2> QED
    BY <2>1 DEF Layout
<1> HIDE DEF L, m
<1>10. i = 1 \/ i \in 2 .. m + 1
  BY <1>1
<1>11. L[i].used \in BOOLEAN /\ (L[i].used <=> i = 1)
  <2>1. CASE i = 1
    <3>1. L[i].used = TRUE
      BY <1>8, <2>1, Zenon
    <3> QED
      BY <2>1, <3>1, Zenon
  <2>2. CASE i \in 2 .. m + 1
    <3>1. i # 1
      BY <2>2
    <3>2. L[i].used = FALSE
      BY <1>8, <2>2, Zenon
    <3> QED
      BY <3>1, <3>2, Zenon
  <2> QED
    BY <1>10, <2>1, <2>2, Zenon
<1>12. L[i].name \in Names \cup {None} /\ L[i].size \in Nat
  <2>1. L[1].name = n /\ L[1].size = Len(d)
    BY <1>8, Zenon
  <2>2. \A j \in 2 .. m + 1 : L[j].name = None /\ L[j].size = 0
    BY <1>8, Zenon
  <2> QED
    BY <1>1, <1>10, <2>1, <2>2
<1>13. L[i] \in Block
  BY <1>7, <1>9, <1>11, <1>12, Zenon DEF Block
<1> QED
  BY <1>11, <1>13 DEF L

(* A write leaves files that can be followed and share no block.             *)
LEMMA WriteStep ==
  ASSUME FilesInv, NEW n \in Names, NEW d \in Contents, NEW m, m = BlocksFor(Len(d)),
         Pages(m) <= Slots, 1 + m <= Cardinality(Free(n)),
         NEW blocks, blocks = bupAllocBlocks(Free(n), 1 + m), NEW e, e = blocks[1],
         ram' = Overwritten(n, d, blocks)
  PROVE  FilesInv' /\ Written(n, d, e)
<1> DEFINE L == Layout(blocks, n, d)
           t == Tail(blocks)
<1>1. d \in Seq(Words) /\ Len(d) \in Nat /\ m \in Nat
  <2>1. d \in Seq(Words)
    BY BackupRAMAssumption
  <2>2. Len(d) \in Nat
    BY <2>1, LenProperties
  <2> QED
    BY <2>1, <2>2, RoomFor
<1>2. Free(n) \in SUBSET FileBlocks /\ Free(n) \in SUBSET Nat /\ IsFiniteSet(Free(n))
  <2>1. Free(n) \in SUBSET FileBlocks
    BY FreeIs
  <2> QED
    BY <2>1, WordsAre, FS_Subset
<1>3. blocks \in Seq(Free(n)) /\ Len(blocks) = 1 + m /\ Once(blocks)
  BY <1>1, <1>2, Allocated
<1>4. blocks \in Seq(FileBlocks)
  BY <1>2, <1>3, SeqMonotonic
<1>5. FitsIn(blocks, d)
  BY <1>1, <1>3, <1>4 DEF FitsIn
<1>6. DOMAIN blocks = 1 .. 1 + m /\ \A i \in 1 .. 1 + m : blocks[i] \in Free(n) /\ blocks[i] \in FileBlocks /\ blocks[i] \in ToSet(blocks)
  <2>1. DOMAIN blocks = 1 .. 1 + m /\ \A i \in 1 .. 1 + m : blocks[i] \in Free(n)
    BY <1>3, LenProperties
  <2> QED
    BY <1>2, <2>1 DEF ToSet
<1>7. ToSet(blocks) \subseteq Free(n) /\ \A b \in ToSet(blocks) : \E i \in 1 .. 1 + m : blocks[i] = b
  BY <1>6 DEF ToSet
<1>8. ASSUME NEW i \in 1 .. 1 + m PROVE ram'[blocks[i]] = L[i]
  <2>1. (CHOOSE j \in DOMAIN blocks : blocks[j] = blocks[i]) = i
    <3>1. \A j \in DOMAIN blocks : blocks[j] = blocks[i] => j = i
      BY <1>3, <1>6 DEF Once
    <3>2. \E j \in DOMAIN blocks : blocks[j] = blocks[i]
      BY <1>6
    <3> DEFINE j == CHOOSE j \in DOMAIN blocks : blocks[j] = blocks[i]
    <3>3. j \in DOMAIN blocks /\ blocks[j] = blocks[i]
      BY <3>2, Zenon
    <3> HIDE DEF j
    <3>4. j = i
      BY <3>1, <3>3
    <3> QED
      BY <3>4 DEF j
  <2>2. ram'[blocks[i]] = L[CHOOSE j \in DOMAIN blocks : blocks[j] = blocks[i]]
    BY <1>6 DEF Overwritten
  <2> QED
    BY <2>1, <2>2
<1>9. \A b \in FileBlocks : b \notin ToSet(blocks) => ram'[b] = IF b \in There(n) THEN Zero ELSE ram[b]
  BY DEF Overwritten, Erased
<1>10. \A i \in 1 .. 1 + m : L[i] \in Block /\ (L[i].used <=> i = 1)
  BY <1>3, <1>5, LayoutType
<1> HIDE DEF L
<1>11. ram' \in [FileBlocks -> Block]
  <2>1. DOMAIN ram' = FileBlocks /\ ram' = [b \in FileBlocks |-> ram'[b]]
    BY DEF Overwritten
  <2>2. ASSUME NEW b \in FileBlocks PROVE ram'[b] \in Block
    <3>1. CASE b \in ToSet(blocks)
      BY <1>7, <1>8, <1>10, <3>1
    <3>2. CASE b \notin ToSet(blocks)
      BY <1>9, <3>2, ZeroType DEF FilesInv
    <3> QED
      BY <3>1, <3>2
  <2> QED
    BY <2>1, <2>2
<1>12. e \in Free(n) /\ e \in FileBlocks /\ ram'[e] = L[1] /\ 1 \in 1 .. 1 + m
  BY <1>1, <1>6, <1>8
<1>13. \A f \in Others(n) : f \notin ToSet(blocks) /\ Claimed(f) \cap ToSet(blocks) = {} /\ Claimed(f) \cap There(n) = {}
  BY <1>7, FreeIs
<1>14. Others(n) \in SUBSET Entries /\ Entries \in SUBSET FileBlocks /\ There(n) \in SUBSET Entries
  BY ThereIs DEF Others, Entries
<1>15. ASSUME NEW f \in Others(n) PROVE Kept(f)
  <2>1. Claimed(f) \subseteq FileBlocks /\ f \notin There(n) /\ f \in FileBlocks
    BY <1>14, Disjoint DEF Others, BlocksDisjoint
  <2> QED
    BY <1>9, <1>13, <2>1 DEF Kept
<1>16. Entries' = Others(n) \cup {e}
  <2>1. Entries' = {b \in FileBlocks : ram'[b].used}
    BY DEF Entries, bupEntryInUse
  <2>2. Others(n) = {b \in FileBlocks : ram[b].used /\ b \notin There(n)}
    BY DEF Entries, bupEntryInUse, Others
  <2>3. ASSUME NEW b \in FileBlocks PROVE ram'[b].used <=> b \in Others(n) \/ b = e
    <3>1. CASE b \in ToSet(blocks)
      <4>1. PICK i \in 1 .. 1 + m : blocks[i] = b
        BY <1>7, <3>1
      <4>2. ram'[b].used <=> i = 1
        BY <1>8, <1>10, <4>1
      <4>3. b = e <=> i = 1
        BY <1>3, <1>12, <4>1 DEF Once
      <4>4. b \notin Others(n)
        BY <1>13, <3>1
      <4> QED
        BY <4>2, <4>3, <4>4
    <3>2. CASE b \notin ToSet(blocks)
      <4>1. b # e
        BY <1>6, <1>12, <3>2
      <4>2. ram'[b].used <=> ram[b].used /\ b \notin There(n)
        BY <1>9, <3>2, ZeroType
      <4> QED
        BY <2>2, <4>1, <4>2
    <3> QED
      BY <3>1, <3>2
  <2> QED
    BY <1>12, <1>14, <2>1, <2>3
<1>17. /\ Seed(e)' \in Seq(FileBlocks)
       /\ \A i \in 1 .. Len(Seed(e)') : Seed(e)'[i] \in ToSet(t)
       /\ (bupEntryBlocks(e).claimed)' = t
       /\ (bupEntryBlocks(e).pages)' = Pages(m)
       /\ bupBuildReadChain(e)' = Padded(d)
       /\ Payload(e)' = d
  <2>1. \A i \in 1 .. Len(blocks) : ram'[blocks[i]] = Layout(blocks, n, d)[i]
    BY <1>3, <1>8 DEF L
  <2> QED
    BY <1>5, <2>1, ReadsBack
<1>18. t \in Seq(FileBlocks) /\ Len(t) = m /\ \A i \in 1 .. m : t[i] = blocks[i + 1]
  BY <1>5, TailIs
<1> HIDE DEF t
<1>19. Once(t) /\ \A i \in 1 .. m : t[i] # e /\ t[i] \in ToSet(blocks)
  <2>1. \A i \in 1 .. m : i + 1 \in 1 .. 1 + m /\ i + 1 # 1
    BY <1>1
  <2>2. ASSUME NEW i \in 1 .. m, NEW j \in 1 .. m, t[i] = t[j] PROVE i = j
    <3>1. blocks[i + 1] = blocks[j + 1]
      BY <1>18, <2>2
    <3>2. i + 1 = j + 1
      BY <1>3, <2>1, <3>1 DEF Once
    <3> QED
      BY <1>1, <3>2
  <2>3. ASSUME NEW i \in 1 .. m PROVE t[i] # e /\ t[i] \in ToSet(blocks)
    BY <1>3, <1>6, <1>12, <1>18, <2>1 DEF Once
  <2> QED
    BY <1>18, <2>2, <2>3 DEF Once
<1>20. Claimed(e)' = ToSet(t) /\ e \notin ToSet(t) /\ ToSet(t) \subseteq ToSet(blocks)
  <2>1. DOMAIN t = 1 .. m
    BY <1>18, LenProperties
  <2>2. Claimed(e)' = ToSet(t)
    BY <1>17 DEF Claimed
  <2> QED
    BY <1>19, <2>1, <2>2 DEF ToSet
<1>21. L[1].name = n /\ L[1].size = Len(d)
  <2>1. IsLayout(Layout(blocks, n, d), n, d, Tail(blocks), m, Pages(m))
    BY <1>5, LayoutIs
  <2> QED
    BY <2>1 DEF IsLayout, L
<1>22. Sound(e)'
  <2>1. ram'[e].name \in Names /\ ram'[e].size = Len(d)
    BY <1>12, <1>21
  <2>2. Pages(m) \in 0 .. Len(t)
    BY <1>1, <1>18, PagesFit
  <2>3. Padded(d) \in Seq(Words) /\ Len(d) <= Len(Padded(d))
    BY <1>1, PaddedIs, RoomFor
  <2> QED
    BY <1>17, <1>18, <1>19, <2>1, <2>2, <2>3 DEF Sound
<1>23. ASSUME NEW f \in Others(n)
       PROVE  /\ e # f /\ e \notin Claimed(f) /\ f \notin Claimed(e)'
              /\ Claimed(e)' \cap Claimed(f) = {} /\ ram'[e].name # ram[f].name
  <2>1. e \in ToSet(blocks)
    BY <1>6, <1>12
  <2>2. ram[f].name # n
    BY ThereIs
  <2> QED
    BY <1>12, <1>13, <1>20, <1>21, <2>1, <2>2
<1>24. FilesInv'
  <2>1. e \notin Claimed(e)'
    BY <1>20
  <2>2. Others(n) \in SUBSET Entries
    BY <1>14
  <2>3. Joins(e, Others(n))
    BY <1>22, <1>23, <2>1, Zenon DEF Joins
  <2>4. \A f \in Others(n) : Kept(f)
    BY <1>15
  <2> QED
    BY <1>11, <1>16, <2>2, <2>3, <2>4, OneMore, Zenon
<1> QED
  BY <1>12, <1>15, <1>16, <1>17, <1>21, <1>23, <1>24 DEF Written

-----------------------------------------------------------------------------
(* The invariant                                                             *)

(* The inductive invariant; a memory without the format holds no file.       *)
BackupInv == FilesInv /\ formatted \in BOOLEAN /\ (~formatted => Entries = {})

(* An empty directory is sound.                                              *)
LEMMA NothingThere ==
  ASSUME ram \in [FileBlocks -> Block], Entries = {}
  PROVE  FilesInv
  BY DEF FilesInv

(* It holds initially.                                                       *)
LEMMA StartsSound == BackupInit => BackupInv
<1> SUFFICES ASSUME BackupInit PROVE BackupInv
  OBVIOUS
<1>1. ram \in [FileBlocks -> Block] /\ Entries = {}
  BY ZeroType DEF BackupInit, Formatted, Entries, bupEntryInUse
<1>2. formatted \in BOOLEAN
  BY Zenon DEF BackupInit
<1> QED
  BY <1>1, <1>2, NothingThere DEF BackupInv

(* The refusals of a write: too long a list, too few blocks.                 *)
TooMany(m) == Pages(m) > Slots
TooFew(n, m) == Cardinality(Free(n)) < 1 + m

(* The cases of BUP_Write.                                                   *)
LEMMA WriteIs ==
  ASSUME NEW n, NEW d, NEW keep, BUP_Write(n, d, keep), NEW m, m = BlocksFor(Len(d))
  PROVE  \/ TooMany(m) /\ Reply("not enough memory") /\ UNCHANGED ram
         \/ ~TooMany(m) /\ There(n) # {} /\ keep /\ Reply("found") /\ UNCHANGED ram
         \/ /\ ~TooMany(m) /\ ~(There(n) # {} /\ keep) /\ TooFew(n, m)
            /\ Reply("not enough memory") /\ ram' = Erased(n)
         \/ /\ ~TooMany(m) /\ ~(There(n) # {} /\ keep) /\ ~TooFew(n, m)
            /\ Reply("ok") /\ ram' = Overwritten(n, d, bupAllocBlocks(Free(n), 1 + m))
<1>1. BUP_Write(n, d, keep) =>
     IF TooMany(m) THEN Reply("not enough memory") /\ UNCHANGED ram
     ELSE IF There(n) # {} /\ keep THEN Reply("found") /\ UNCHANGED ram
     ELSE IF TooFew(n, m) THEN Reply("not enough memory") /\ ram' = Erased(n)
     ELSE ram' = Overwritten(n, d, bupAllocBlocks(Free(n), 1 + m)) /\ Reply("ok")
  BY Zenon DEF BUP_Write, There, Erased, Free, Overwritten, TooMany, TooFew
<1> QED
  BY <1>1, Zenon

(* What a write that is not refused can rely on.                             *)
LEMMA Enough ==
  ASSUME FilesInv, NEW n, NEW m \in Nat, ~TooMany(m), ~TooFew(n, m)
  PROVE  Pages(m) <= Slots /\ 1 + m <= Cardinality(Free(n))
<1>1. IsFiniteSet(Free(n))
  BY FreeIs, WordsAre, FS_Subset
<1>2. Cardinality(Free(n)) \in Nat
  BY <1>1, FS_CardinalityType
<1>3. Pages(m) \in Nat /\ Slots \in Nat
  BY PagesFit, Sizes
<1> QED
  BY <1>2, <1>3 DEF TooMany, TooFew

(* BUP_Delete erases what is there.                                          *)
LEMMA DeleteIs ==
  ASSUME FilesInv, NEW n, BUP_Delete(n)
  PROVE  ram' = Erased(n) /\ Reply(IF There(n) = {} THEN "not found" ELSE "ok")
<1>1. CASE bupFindEntry(n) = {}
  <2>1. There(n) = {} /\ ram' = ram /\ Reply("not found")
    BY <1>1 DEF BUP_Delete, There
  <2>2. Erased(n) = ram
    BY <2>1 DEF Erased, FilesInv
  <2> QED
    BY <2>1, <2>2
<1>2. CASE bupFindEntry(n) # {}
  <2>1. There(n) = {Entry(n)} /\ ram' = [ram EXCEPT ![Entry(n)] = Zero] /\ Reply("ok")
    BY <1>2 DEF BUP_Delete, There
  <2>2. Erased(n) = [ram EXCEPT ![Entry(n)] = Zero]
    BY <2>1 DEF Erased, FilesInv
  <2> QED
    BY <2>1, <2>2
<1> QED
  BY <1>1, <1>2

(* Every service preserves it.                                               *)
LEMMA BackupPreserved == BackupInv /\ [BackupNext]_backupVars => BackupInv'
<1> SUFFICES ASSUME BackupInv, [BackupNext]_backupVars PROVE BackupInv'
  OBVIOUS
<1>1. ASSUME UNCHANGED ram, formatted' = formatted \/ formatted' = TRUE PROVE BackupInv'
  BY <1>1, SameStep DEF BackupInv
<1>2. ASSUME NEW n \in Names, ram' = Erased(n), formatted, formatted' = formatted PROVE BackupInv'
  BY <1>2, EraseStep DEF BackupInv
<1>3. CASE Unformatted
  BY <1>1, <1>3 DEF Unformatted
<1>4. CASE NoDevice
  BY <1>1, <1>4 DEF NoDevice
<1>5. CASE BUP_Format
  BY <1>5, FormatStep DEF BUP_Format, BackupInv
<1>6. ASSUME NEW n \in Names, BUP_Delete(n) PROVE BackupInv'
  BY <1>2, <1>6, DeleteIs DEF BUP_Delete, Checked, BackupInv
<1>7. ASSUME NEW n \in Names, BUP_Read(n) PROVE BackupInv'
  BY <1>1, <1>7 DEF BUP_Read, Checked
<1>8. ASSUME NEW n \in Names, NEW d \in Contents, BUP_Verify(n, d) PROVE BackupInv'
  BY <1>1, <1>8 DEF BUP_Verify, Checked
<1>9. ASSUME NEW n \in Names, NEW d \in Contents, NEW keep \in BOOLEAN, BUP_Write(n, d, keep) PROVE BackupInv'
  <2>1. formatted /\ formatted' = formatted
    BY <1>9, Zenon DEF BUP_Write, Checked
  <2> DEFINE m == BlocksFor(Len(d))
  <2>2. CASE UNCHANGED ram
    BY <1>1, <2>1, <2>2
  <2>3. CASE ram' = Erased(n)
    BY <1>2, <2>1, <2>3
  <2>4. CASE /\ ~TooMany(m) /\ ~TooFew(n, m)
             /\ ram' = Overwritten(n, d, bupAllocBlocks(Free(n), 1 + m))
    <3>1. Len(d) \in Nat
      BY BackupRAMAssumption, LenProperties
    <3>2. m \in Nat
      BY <3>1, RoomFor
    <3> HIDE DEF m
    <3>3. Pages(m) <= Slots /\ 1 + m <= Cardinality(Free(n))
      BY <2>4, <3>2, Enough DEF BackupInv
    <3>4. FilesInv'
      BY <2>4, <3>3, WriteStep DEF BackupInv, m
    <3> QED
      BY <2>1, <3>4 DEF BackupInv
  <2> QED
    BY <1>9, <2>2, <2>3, <2>4, WriteIs
<1>10. ASSUME NEW pattern, NEW limit, BUP_Dir(pattern, limit) PROVE BackupInv'
  BY <1>1, <1>10 DEF BUP_Dir, Checked
<1>11. ASSUME NEW size, BUP_Stat(size) PROVE BackupInv'
  BY <1>1, <1>11 DEF BUP_Stat, Checked
<1>12. CASE UNCHANGED backupVars
  BY <1>1, <1>12 DEF backupVars
<1> QED
  BY <1>3, <1>4, <1>5, <1>6, <1>7, <1>8, <1>9, <1>10, <1>11, <1>12 DEF BackupNext

(* It holds in every reachable state.                                        *)
LEMMA BackupInductive == BackupSpec => []BackupInv
  BY StartsSound, BackupPreserved, PTL DEF BackupSpec

(* However the services are called, no block belongs to two save files, or   *)
(* to a file and the directory, and none twice to one: what BUP_Write lays   *)
(* out is what bupEntryBlocks follows.                                       *)
THEOREM NoBlockTwice == BackupSpec => []BlocksDisjoint
<1>1. BackupInv => BlocksDisjoint
  BY Disjoint DEF BackupInv
<1> QED
  BY <1>1, BackupInductive, PTL

-----------------------------------------------------------------------------
(* The files and the blocks they take                                        *)

(* The files as a game reads them back, the blocks they take, alone and      *)
(* together.                                                                 *)
FilesHeld == [n \in Names |-> Held(n)]
Takes(d) == IF d = None THEN 0 ELSE 1 + BlocksFor(Len(d))
TotalBlocks(fs) == SumFunction([n \in Names |-> Takes(fs[n])])

(* What the entries of S take. *)
Taken(S) == S \cup UNION {Claimed(e) : e \in S}

(* The blocks in use are those the files take.                               *)
Balanced == Cardinality(Taken(Entries)) = TotalBlocks(FilesHeld)

(* A sum of zeros.                                                           *)
LEMMA SumOfNone ==
  ASSUME NEW D, IsFiniteSet(D), NEW w, w = [x \in D |-> 0]
  PROVE  SumFunction(w) = 0
<1>1. w \in [D -> Int] /\ \A x \in D : w[x] = 0
  OBVIOUS
<1>2. PICK g : IsPartialSum(g, D, w) /\ SumFunction(w) = g[D]
  BY <1>1, SumIsPartial
<1> DEFINE T == {s \in SUBSET D : g[s] = 0}
<1>3. {} \in T
  BY <1>2 DEF IsPartialSum
<1>4. ASSUME NEW s \in SUBSET D, s # {}, \A x \in s : s \ {x} \in T PROVE s \in T
  <2>1. First(s) \in s /\ First(s) \in D
    BY <1>4 DEF First
  <2>2. g[s] = w[First(s)] + g[s \ {First(s)}]
    BY <1>2, <1>4 DEF IsPartialSum
  <2>3. w[First(s)] = 0 /\ g[s \ {First(s)}] = 0
    BY <1>1, <1>4, <2>1
  <2> QED
    BY <2>2, <2>3
<1>5. \A s \in SUBSET D : s \in T
  <2> HIDE DEF T
  <2> QED
    BY <1>3, <1>4, Subsets
<1> QED
  BY <1>2, <1>5

(* No files take no blocks.                                                  *)
LEMMA TotalNone == TotalBlocks([n \in Names |-> None]) = 0
<1> DEFINE w == [n \in Names |-> Takes([m \in Names |-> None][n])]
<1>1. w = [n \in Names |-> 0]
  BY DEF Takes
<1>2. SumFunction(w) = 0
  <2> HIDE DEF w
  <2> QED
    BY <1>1, BackupRAMAssumption, SumOfNone
<1> QED
  BY <1>2 DEF TotalBlocks

(* The blocks of a file are a number.                                        *)
LEMMA TakesType == \A d \in Contents \cup {None} : Takes(d) \in Nat
<1>1. \A d \in Contents : Len(d) \in Nat
  BY BackupRAMAssumption, LenProperties
<1>2. \A d \in Contents : BlocksFor(Len(d)) \in Nat
  BY <1>1, RoomFor
<1> QED
  BY <1>2 DEF Takes

(* Another content of one file changes the total by the difference.          *)
LEMMA TotalExcept ==
  ASSUME NEW fs \in [Names -> Contents \cup {None}], NEW n \in Names, NEW d \in Contents \cup {None}
  PROVE  TotalBlocks(fs) \in Int /\ TotalBlocks([fs EXCEPT ![n] = d]) = TotalBlocks(fs) - Takes(fs[n]) + Takes(d)
<1> DEFINE gs == [fs EXCEPT ![n] = d]
           w == [x \in Names |-> Takes(fs[x])]
           v == [x \in Names |-> Takes(gs[x])]
<1>1. gs \in [Names -> Contents \cup {None}] /\ gs[n] = d /\ \A x \in Names : x # n => gs[x] = fs[x]
  OBVIOUS
<1> HIDE DEF gs
<1>2. w \in [Names -> Int] /\ v \in [Names -> Int]
  <2>1. \A x \in Names : Takes(fs[x]) \in Nat /\ Takes(gs[x]) \in Nat
    BY <1>1, TakesType
  <2> QED
    BY <2>1
<1>3. (\A x \in Names : x # n => v[x] = w[x]) /\ w[n] = Takes(fs[n]) /\ v[n] = Takes(d)
  BY <1>1
<1>4. SumFunction(w) \in Int /\ SumFunction(v) = SumFunction(w) - w[n] + v[n]
  <2> HIDE DEF w, v
  <2>1. IsFiniteSet(Names)
    BY BackupRAMAssumption
  <2> QED
    BY <1>2, <1>3, <2>1, SumUpdate
<1>5. TotalBlocks(fs) = SumFunction(w) /\ TotalBlocks(gs) = SumFunction(v)
  BY DEF TotalBlocks
<1> QED
  BY <1>3, <1>4, <1>5 DEF gs

(* What a name reads back is the payload of its entry.                       *)
HeldInEntries ==
  /\ \A e \in Entries : Held(ram[e].name) = Payload(e)
  /\ \A n : (\A e \in Entries : ram[e].name # n) => Held(n) = None

(* It is, in every sound memory.                                             *)
LEMMA HeldIs == FilesInv => HeldInEntries
<1> SUFFICES ASSUME FilesInv PROVE HeldInEntries
  OBVIOUS
<1>1. ASSUME NEW e \in Entries PROVE Held(ram[e].name) = Payload(e)
  <2>1. bupFindEntry(ram[e].name) # {} /\ Entry(ram[e].name) = e
    BY EntryFound
  <2> QED
    BY <2>1 DEF Held
<1>2. ASSUME NEW n, \A e \in Entries : ram[e].name # n PROVE Held(n) = None
  BY <1>2 DEF Held, bupFindEntry
<1> QED
  BY <1>1, <1>2 DEF HeldInEntries

(* The same of the memory after a step.                                      *)
LEMMA HeldNext == FilesInv' => HeldInEntries'
  BY HeldIs, PTL

(* An entry has a name of its own, and a payload of the size and the blocks  *)
(* it says.                                                                  *)
LEMMA EntryHolds ==
  ASSUME FilesInv, NEW e \in Entries
  PROVE  /\ ram[e].name \in Names /\ FilesHeld[ram[e].name] = Payload(e)
         /\ Payload(e) \in Contents /\ Len(Payload(e)) = ram[e].size /\ Takes(Payload(e)) = 1 + Len(bupEntryBlocks(e).claimed)
<1>1. Sound(e)
  BY DEF FilesInv
<1>2. ram[e].name \in Names /\ Payload(e) \in Contents /\ ram[e].size <= Len(bupBuildReadChain(e))
      /\ bupBuildReadChain(e) \in Seq(Words) /\ Len(bupEntryBlocks(e).claimed) = BlocksFor(ram[e].size)
  BY <1>1 DEF Sound
<1>3. ram[e].size \in Nat
  BY DEF FilesInv, Entries, Block
<1>4. FilesHeld[ram[e].name] = Payload(e)
  BY <1>2, HeldIs DEF HeldInEntries, FilesHeld
<1>5. Len(Payload(e)) = ram[e].size
  <2> DEFINE c == bupBuildReadChain(e)
             k == ram[e].size
  <2>1. IsFrom(Words, c, 1, k, From(c, 1, k))
    BY <1>2, <1>3, FromFirst
  <2>2. k <= Len(c) /\ Len(c) \in Nat /\ k \in Nat
    BY <1>2, <1>3, LenProperties
  <2> HIDE DEF c, k
  <2>3. Len(From(c, 1, k)) = k
    BY <2>1, <2>2 DEF IsFrom
  <2> QED
    BY <2>3 DEF Payload, c, k
<1>6. Takes(Payload(e)) = 1 + BlocksFor(ram[e].size)
  <2>1. Payload(e) # None
    BY <1>2, BackupRAMAssumption
  <2> QED
    BY <1>5, <2>1 DEF Takes
<1> QED
  BY <1>2, <1>4, <1>5, <1>6

(* A name holds a content or nothing.                                        *)
LEMMA FilesType == FilesInv => FilesHeld \in [Names -> Contents \cup {None}]
<1> SUFFICES ASSUME FilesInv, NEW n \in Names PROVE Held(n) \in Contents \cup {None}
  BY DEF FilesHeld
<1>1. CASE \E e \in Entries : ram[e].name = n
  BY <1>1, EntryHolds DEF FilesHeld
<1>2. CASE \A e \in Entries : ram[e].name # n
  BY <1>2, HeldIs DEF HeldInEntries
<1> QED
  BY <1>1, <1>2

(* Another entry adds its blocks. *)
TakenAdds ==
  /\ IsFiniteSet(Taken(Entries))
  /\ \A S \in SUBSET Entries : \A e \in Entries \ S :
       Cardinality(Taken(S \cup {e})) = Cardinality(Taken(S)) + Takes(Payload(e))

(* The blocks in use are blocks for files.                                   *)
LEMMA TakenIs == FilesInv => Taken(Entries) \in SUBSET FileBlocks /\ IsFiniteSet(Taken(Entries))
<1> SUFFICES ASSUME FilesInv PROVE Taken(Entries) \in SUBSET FileBlocks
  BY WordsAre, FS_Subset
<1> QED
  BY Disjoint DEF Taken, Entries, BlocksDisjoint

(* It does, because no block belongs to two entries.                         *)
LEMMA Adds == FilesInv => TakenAdds
<1> SUFFICES ASSUME FilesInv, NEW S \in SUBSET Entries, NEW e \in Entries \ S
             PROVE  Cardinality(Taken(S \cup {e})) = Cardinality(Taken(S)) + Takes(Payload(e))
  BY TakenIs DEF TakenAdds
<1> DEFINE A == Taken(S)
           B == {e} \cup Claimed(e)
<1>1. Taken(S \cup {e}) = A \cup B
  BY DEF Taken
<1>2. Taken(S \cup {e}) \in SUBSET Taken(Entries)
  BY DEF Taken
<1>3. A \cap B = {}
  <2>1. \A f \in S : Apart(e, f) /\ Apart(f, e) /\ e # f
    BY DEF FilesInv
  <2> QED
    BY <2>1 DEF Taken, Apart
<1>4. IsFiniteSet(A) /\ IsFiniteSet(B) /\ IsFiniteSet(Claimed(e))
  BY <1>1, <1>2, TakenIs, FS_Subset
<1>5. Cardinality(B) = 1 + Len(bupEntryBlocks(e).claimed)
  <2>1. Cardinality(Claimed(e)) = Len(bupEntryBlocks(e).claimed)
    BY Disjoint DEF BlocksDisjoint
  <2>2. e \notin Claimed(e)
    BY DEF FilesInv, Apart
  <2>3. B = Claimed(e) \cup {e}
    OBVIOUS
  <2>4. Cardinality(Claimed(e) \cup {e}) = Cardinality(Claimed(e)) + 1 /\ Cardinality(Claimed(e)) \in Nat
    BY <1>4, <2>2, FS_AddElement, FS_CardinalityType
  <2> HIDE DEF B
  <2> QED
    BY <2>1, <2>3, <2>4
<1>6. Cardinality(B) = Takes(Payload(e))
  BY <1>5, EntryHolds
<1>7. Cardinality(A \cup B) = Cardinality(A) + Cardinality(B)
  <2> HIDE DEF A, B
  <2>1. Cardinality(A \cup B) = Cardinality(A) + Cardinality(B) - Cardinality(A \cap B)
    BY <1>4, FS_Union
  <2>2. Cardinality(A \cap B) = 0 /\ Cardinality(A) \in Nat /\ Cardinality(B) \in Nat
    BY <1>3, <1>4, FS_EmptySet, FS_CardinalityType
  <2> QED
    BY <2>1, <2>2
<1> HIDE DEF A, B
<1> QED
  BY <1>1, <1>6, <1>7 DEF A

(* The same of the memory after a step.                                      *)
LEMMA AddsNext == FilesInv' => TakenAdds'
  BY Adds, PTL

(* What a step makes of one name and of the directory. *)
Changed(n, S, d) ==
  /\ S \in SUBSET Entries /\ \A f \in S : Kept(f) /\ ram[f].name # n
  /\ \A f \in Entries : f \notin S => ram[f].name = n
  /\ \/ d = None /\ Entries' = S
     \/ d \in Contents /\ \E e : e \notin S /\ Entries' = S \cup {e} /\ Payload(e)' = d /\ ram'[e].name = n

(* The blocks in use are those of the other names and those of n.            *)
LEMMA OthersTaken ==
  ASSUME FilesInv, NEW n \in Names, NEW S \in SUBSET Entries, \A f \in S : ram[f].name # n,
         \A f \in Entries : f \notin S => ram[f].name = n
  PROVE  Cardinality(Taken(Entries)) = Cardinality(Taken(S)) + Takes(FilesHeld[n])
<1>1. IsFiniteSet(Taken(S)) /\ Cardinality(Taken(S)) \in Nat
  <2>1. Taken(S) \in SUBSET Taken(Entries)
    BY DEF Taken
  <2> QED
    BY <2>1, TakenIs, FS_Subset, FS_CardinalityType
<1>2. CASE Entries = S
  <2>1. FilesHeld[n] = None
    BY <1>2, HeldIs DEF HeldInEntries, FilesHeld
  <2> QED
    BY <1>1, <1>2, <2>1 DEF Takes
<1>3. CASE Entries # S
  <2>1. PICK e \in Entries : e \notin S /\ ram[e].name = n
    BY <1>3
  <2>2. Entries = S \cup {e}
    BY <2>1 DEF FilesInv, Apart
  <2>3. FilesHeld[n] = Payload(e)
    BY <2>1, EntryHolds
  <2> QED
    BY <2>1, <2>2, <2>3, Adds DEF TakenAdds
<1> QED
  BY <1>2, <1>3

(* Such a step changes what n holds, and the balance stays.                  *)
LEMMA OneChanged ==
  ASSUME FilesInv, FilesInv', Balanced, NEW n \in Names, NEW S, NEW d, Changed(n, S, d)
  PROVE  FilesHeld' = [FilesHeld EXCEPT ![n] = d] /\ Balanced'
<1>1. \A f \in S : Payload(f)' = Payload(f) /\ Claimed(f)' = Claimed(f) /\ ram'[f] = ram[f]
  BY Remaining DEF Changed
<1>2. HeldInEntries /\ HeldInEntries'
  BY HeldIs, HeldNext
<1>3. \A f \in Entries' : f \in S \/ (ram'[f].name = n /\ Payload(f)' = d /\ d # None)
  BY BackupRAMAssumption DEF Changed
<1>4. Held(n)' = d
  <2>1. CASE d = None /\ Entries' = S
    BY <1>1, <1>2, <2>1 DEF Changed, HeldInEntries
  <2>2. CASE \E e : e \notin S /\ Entries' = S \cup {e} /\ Payload(e)' = d /\ ram'[e].name = n
    BY <1>2, <2>2 DEF HeldInEntries
  <2> QED
    BY <2>1, <2>2 DEF Changed
<1>5. ASSUME NEW x \in Names, x # n PROVE Held(x)' = Held(x)
  <2>1. CASE \E f \in Entries : ram[f].name = x
    <3>1. PICK f \in Entries : ram[f].name = x
      BY <2>1
    <3>2. f \in S /\ f \in Entries'
      BY <1>5, <3>1 DEF Changed
    <3>3. ram'[f].name = x /\ Payload(f)' = Payload(f)
      BY <1>1, <3>1, <3>2
    <3>4. Held(x) = Payload(f)
      BY <1>2, <3>1 DEF HeldInEntries
    <3>5. Held(x)' = Payload(f)'
      BY <1>2, <3>2, <3>3 DEF HeldInEntries
    <3> QED
      BY <3>3, <3>4, <3>5
  <2>2. CASE \A f \in Entries : ram[f].name # x
    <3>1. \A f \in Entries' : ram'[f].name # x
      BY <1>1, <1>3, <1>5, <2>2 DEF Changed
    <3>2. Held(x) = None /\ Held(x)' = None
      BY <1>2, <2>2, <3>1 DEF HeldInEntries
    <3> QED
      BY <3>2
  <2> QED
    BY <2>1, <2>2
<1>6. FilesHeld' = [FilesHeld EXCEPT ![n] = d]
  BY <1>4, <1>5 DEF FilesHeld
<1>7. d \in Contents \cup {None} /\ FilesHeld \in [Names -> Contents \cup {None}]
  BY FilesType DEF Changed
<1>8. TotalBlocks(FilesHeld) \in Int /\ TotalBlocks(FilesHeld') = TotalBlocks(FilesHeld) - Takes(FilesHeld[n]) + Takes(d)
  <2>1. TotalBlocks(FilesHeld) \in Int /\ TotalBlocks([FilesHeld EXCEPT ![n] = d]) = TotalBlocks(FilesHeld) - Takes(FilesHeld[n]) + Takes(d)
    BY <1>7, TotalExcept
  <2> QED
    BY <1>6, <2>1
<1>9. Cardinality(Taken(Entries)) = Cardinality(Taken(S)) + Takes(FilesHeld[n])
  BY OthersTaken DEF Changed
<1>10. Taken(S)' = Taken(S)
  BY <1>1 DEF Taken
<1>11. Cardinality(Taken(Entries))' = Cardinality(Taken(S)) + Takes(d)
  <2>1. CASE d = None /\ Entries' = S
    <3>1. Cardinality(Taken(Entries))' = Cardinality(Taken(S))
      BY <1>10, <2>1 DEF Taken
    <3>2. Cardinality(Taken(S)) \in Nat
      BY <3>1, AddsNext, FS_CardinalityType DEF TakenAdds
    <3> QED
      BY <2>1, <3>1, <3>2 DEF Takes
  <2>2. CASE \E e : e \notin S /\ Entries' = S \cup {e} /\ Payload(e)' = d /\ ram'[e].name = n
    <3>1. PICK e : e \notin S /\ Entries' = S \cup {e} /\ Payload(e)' = d
      BY <2>2
    <3>2. S \in SUBSET Entries' /\ e \in Entries' \ S
      BY <3>1
    <3>3. Cardinality(Taken(S \cup {e}))' = Cardinality(Taken(S))' + Takes(Payload(e)')
      BY <3>2, AddsNext DEF TakenAdds
    <3>4. Taken(S \cup {e})' = Taken(Entries)'
      BY <3>1 DEF Taken
    <3> QED
      BY <1>10, <3>1, <3>3, <3>4
  <2> QED
    BY <2>1, <2>2 DEF Changed
<1>12. Takes(FilesHeld[n]) \in Nat /\ Takes(d) \in Nat /\ Cardinality(Taken(S)) \in Nat
  <2>1. Taken(S) \in SUBSET Taken(Entries)
    BY DEF Taken, Changed
  <2> QED
    BY <1>7, <2>1, TakesType, TakenIs, FS_Subset, FS_CardinalityType
<1>13. Balanced'
  <2>1. Cardinality(Taken(Entries)) = TotalBlocks(FilesHeld)
    BY DEF Balanced
  <2>2. Cardinality(Taken(Entries))' = TotalBlocks(FilesHeld')
    BY <1>8, <1>9, <1>11, <1>12, <2>1
  <2> QED
    BY <2>2 DEF Balanced, TotalBlocks, Takes
<1> QED
  BY <1>6, <1>13

(* The blocks that a write to n may have. *)
LEMMA FreeCount ==
  ASSUME FilesInv, Balanced, NEW n \in Names
  PROVE  Cardinality(Free(n)) = Cardinality(FileBlocks) - TotalBlocks([FilesHeld EXCEPT ![n] = None])
<1> DEFINE S == Others(n)
<1>1. S \in SUBSET Entries /\ (\A f \in S : ram[f].name # n) /\ \A f \in Entries : f \notin S => ram[f].name = n
  BY ThereIs DEF Others
<1>2. Cardinality(Taken(Entries)) = Cardinality(Taken(S)) + Takes(FilesHeld[n])
  <2> HIDE DEF S
  <2> QED
    BY <1>1, OthersTaken
<1>3. Free(n) = FileBlocks \ Taken(S)
  <2>1. Taken(Entries) \in SUBSET FileBlocks /\ bupUsedBlocks = Taken(Entries)
    BY TakenIs DEF bupUsedBlocks, Taken
  <2>2. Taken(Entries) = Taken(S) \cup Taken(There(n))
    BY ThereIs DEF Taken, Others
  <2>3. Free(n) = FreeBlocks \cup Taken(There(n))
    BY DEF Free, Taken
  <2>4. Taken(S) \cap Taken(There(n)) = {}
    <3>1. \A f \in S : \A e \in There(n) : Apart(e, f) /\ Apart(f, e) /\ e # f
      BY <1>1, ThereIs DEF FilesInv
    <3> QED
      BY <3>1 DEF Taken, Apart
  <2> QED
    BY <2>1, <2>2, <2>3, <2>4 DEF FreeBlocks
<1>4. Taken(S) \in SUBSET FileBlocks /\ IsFiniteSet(FileBlocks)
  <2>1. Taken(S) \in SUBSET Taken(Entries)
    BY <1>1 DEF Taken
  <2> QED
    BY <2>1, TakenIs, WordsAre
<1>5. Cardinality(Free(n)) = Cardinality(FileBlocks) - Cardinality(Taken(S)) /\ Cardinality(Taken(S)) \in Nat /\ Cardinality(FileBlocks) \in Nat
  <2> HIDE DEF S
  <2>1. Cardinality(FileBlocks \ Taken(S)) = Cardinality(FileBlocks) - Cardinality(FileBlocks \cap Taken(S))
    BY <1>4, FS_Difference
  <2>2. FileBlocks \cap Taken(S) = Taken(S) /\ IsFiniteSet(Taken(S))
    BY <1>4, FS_Subset
  <2> QED
    BY <1>3, <1>4, <2>1, <2>2, FS_CardinalityType
<1>6. FilesHeld \in [Names -> Contents \cup {None}] /\ Takes(FilesHeld[n]) \in Nat
  BY FilesType, TakesType
<1>7. TotalBlocks(FilesHeld) \in Int /\ TotalBlocks([FilesHeld EXCEPT ![n] = None]) = TotalBlocks(FilesHeld) - Takes(FilesHeld[n]) + Takes(None)
  BY <1>6, TotalExcept
<1>8. Takes(None) = 0
  BY DEF Takes
<1>9. Cardinality(Taken(Entries)) = TotalBlocks(FilesHeld)
  BY DEF Balanced
<1> HIDE DEF S
<1> QED
  BY <1>2, <1>5, <1>6, <1>7, <1>8, <1>9

-----------------------------------------------------------------------------
(* BackupRAM implements SaveFiles                                            *)

(* The abstract specification, with the files as they are read back.         *)
Saved == INSTANCE SaveFiles WITH files <- FilesHeld, NoFile <- None, Capacity <- Cardinality(FileBlocks)

(* The operators of the library mean the same in the instance.               *)
LEMMA SameSum == \A w : Saved!SumFunction(w) = SumFunction(w)
BY Zenon DEF Saved!SumFunction, Saved!SumFunctionOnSet, Saved!FoldFunctionOnSet, Saved!MapThenFoldSet,
             SumFunction, SumFunctionOnSet, FoldFunctionOnSet, MapThenFoldSet

(* The operators of the abstract specification, in terms of this one.        *)
LEMMA SavedIs ==
  /\ Saved!Files = {n \in Names : FilesHeld[n] # None}
  /\ \A n \in Names : Saved!Erased(n) = [FilesHeld EXCEPT ![n] = None]
  /\ \A fs : Saved!Free(fs) = Cardinality(FileBlocks) - TotalBlocks(fs)
  /\ \A size : Saved!BlocksFor(size) = BlocksFor(size)
  /\ Saved!Page = Page
<1>1. \A size : Saved!BlocksFor(size) = BlocksFor(size)
  BY DEF Saved!BlocksFor, BlocksFor, Saved!Page, Page
<1>2. \A fs : Saved!Free(fs) = Cardinality(FileBlocks) - TotalBlocks(fs)
  <2> TAKE fs
  <2> DEFINE w == [n \in Names |-> IF fs[n] = None THEN 0 ELSE 1 + Saved!BlocksFor(Len(fs[n]))]
             v == [n \in Names |-> Takes(fs[n])]
  <2>1. w = v
    BY <1>1 DEF Takes
  <2>2. Saved!Free(fs) = Cardinality(FileBlocks) - SumFunction(w)
    BY Zenon, SameSum DEF Saved!Free
  <2>3. TotalBlocks(fs) = SumFunction(v)
    BY Zenon DEF TotalBlocks
  <2> HIDE DEF w, v
  <2> QED
    BY <2>1, <2>2, <2>3
<1>3. Saved!Files = {n \in Names : FilesHeld[n] # None}
  BY DEF Saved!Files
<1>4. \A n \in Names : Saved!Erased(n) = [FilesHeld EXCEPT ![n] = None]
  BY DEF Saved!Erased
<1>5. Saved!Page = Page
  BY DEF Saved!Page, Page
<1> QED
  BY <1>1, <1>2, <1>3, <1>4, <1>5

(* A file is too long for the one when its list needs too many pages in the  *)
(* other.                                                                    *)
LEMMA TooLongIs ==
  ASSUME NEW d \in Contents
  PROVE  Saved!TooLong(Len(d)) <=> TooMany(BlocksFor(Len(d)))
<1> DEFINE m == BlocksFor(Len(d))
<1>1. m \in Nat
  BY BackupRAMAssumption, LenProperties, RoomFor
<1>2. Slots \in Nat \ {0} /\ Page = 2 * Slots
  BY BackupRAMAssumption DEF Page
<1>3. Saved!TooLong(Len(d)) <=> m > Slots - 1 + Slots * Page
  BY SavedIs DEF Saved!TooLong
<1> HIDE DEF m
<1>4. \A a, p, s \in Nat : p > 0 => (a \div p > s <=> a >= (s + 1) * p)
  OBVIOUS
<1>5. TooMany(m) <=> m > Slots - 1 + Slots * Page
  <2>1. CASE m <= Slots - 1
    <3>1. Pages(m) = 0 /\ Slots * Page \in Nat
      BY <1>2, <2>1 DEF Pages
    <3> QED
      BY <1>1, <1>2, <2>1, <3>1 DEF TooMany
  <2>2. CASE ~(m <= Slots - 1)
    <3> DEFINE a == m - (Slots - 1) + Page - 1
    <3>1. a \in Nat /\ Page \in Nat /\ Page > 0 /\ Slots \in Nat
      BY <1>1, <1>2, <2>2
    <3>2. Pages(m) = a \div Page
      BY <2>2 DEF Pages
    <3>3. (Slots + 1) * Page = Slots * Page + Page /\ Slots * Page \in Nat
      BY <3>1
    <3>4. a >= (Slots + 1) * Page <=> m > Slots - 1 + Slots * Page
      BY <1>1, <3>1, <3>3
    <3> HIDE DEF a
    <3> QED
      BY <1>4, <3>1, <3>2, <3>4 DEF TooMany
  <2> QED
    BY <2>1, <2>2
<1> QED
  BY <1>3, <1>5 DEF m

(* There is a file where there is an entry.                                  *)
LEMMA ThereSaved ==
  ASSUME FilesInv, NEW n \in Names
  PROVE  /\ (bupFindEntry(n) = {} <=> n \notin Saved!Files) /\ (There(n) = {} <=> n \notin Saved!Files)
         /\ bupFindEntry(n) # {} => Entry(n) \in Entries /\ FilesHeld[n] = Payload(Entry(n))
<1>1. CASE bupFindEntry(n) = {}
  <2>1. There(n) = {}
    BY <1>1 DEF There
  <2>2. FilesHeld[n] = None
    BY <1>1 DEF FilesHeld, Held
  <2> QED
    BY <1>1, <2>1, <2>2, SavedIs
<1>2. CASE bupFindEntry(n) # {}
  <2>1. There(n) # {}
    BY <1>2 DEF There
  <2>2. Entry(n) \in Entries /\ FilesHeld[n] = Payload(Entry(n))
    BY <1>2, EntryFound DEF FilesHeld, Held
  <2>3. FilesHeld[n] # None
    BY <2>2, EntryHolds, BackupRAMAssumption
  <2> QED
    BY <1>2, <2>1, <2>2, <2>3, SavedIs
<1> QED
  BY <1>1, <1>2

(* There are as many files as entries.                                       *)
LEMMA DirectoryCounts ==
  ASSUME FilesInv
  PROVE  Cardinality(Entries) = Cardinality(Saved!Files)
<1> DEFINE name == [e \in Entries |-> ram[e].name]
<1>1. name \in Bijection(Entries, Saved!Files)
  <2>1. \A e \in Entries : ram[e].name \in Saved!Files
    BY EntryHolds, BackupRAMAssumption, SavedIs
  <2>2. \A e, f \in Entries : ram[e].name = ram[f].name => e = f
    BY DEF FilesInv, Apart
  <2>3. \A n \in Saved!Files : \E e \in Entries : ram[e].name = n
    BY HeldIs, SavedIs DEF HeldInEntries, FilesHeld
  <2>4. name \in [Entries -> Saved!Files]
    BY <2>1
  <2> QED
    BY <2>2, <2>3, <2>4 DEF Bijection, Injection, Surjection, IsInjective
<1>2. ExistsBijection(Entries, Saved!Files)
  BY <1>1 DEF ExistsBijection
<1>3. IsFiniteSet(Entries)
  BY WordsAre, FS_Subset DEF Entries
<1> QED
  BY <1>2, <1>3, FS_Bijection

(* And as many of a name, which is none or one.                              *)
LEMMA MatchesCount ==
  ASSUME FilesInv, NEW p \in Names \cup {None}
  PROVE  Cardinality(Matches(p)) = Cardinality(Saved!Named(p))
<1>1. CASE p = None
  <2>1. Matches(p) = Entries /\ Saved!Named(p) = Saved!Files
    BY <1>1 DEF Matches, Saved!Named
  <2> QED
    BY <2>1, DirectoryCounts
<1>2. CASE p # None
  <2>1. p \in Names /\ Matches(p) = bupFindEntry(p) /\ Saved!Named(p) = Saved!Files \cap {p}
    BY <1>2 DEF Matches, Saved!Named
  <2>2. bupFindEntry(p) = {} <=> p \notin Saved!Files
    BY <2>1, ThereSaved
  <2>3. CASE bupFindEntry(p) = {}
    <3>1. Saved!Named(p) = {}
      BY <2>1, <2>2, <2>3
    <3> QED
      BY <2>1, <2>3, <3>1
  <2>4. CASE bupFindEntry(p) # {}
    <3>1. Entry(p) \in Entries /\ ram[Entry(p)].name = p /\ \A f \in Entries : ram[f].name = p => f = Entry(p)
      BY <2>4, EntryFound
    <3>2. bupFindEntry(p) = {Entry(p)}
      BY <3>1 DEF bupFindEntry
    <3>3. Saved!Named(p) = {p}
      BY <2>1, <2>2, <2>4
    <3> QED
      BY <2>1, <3>2, <3>3, FS_Singleton
  <2> QED
    BY <2>3, <2>4
<1> QED
  BY <1>1, <1>2

(* There are as many free blocks as the sizes of the files leave.            *)
LEMMA FreeNow ==
  ASSUME FilesInv, Balanced
  PROVE  Cardinality(FreeBlocks) = Saved!Free(FilesHeld) /\ Cardinality(FreeBlocks) \in Nat
<1>1. FreeBlocks = FileBlocks \ Taken(Entries)
  BY DEF FreeBlocks, bupUsedBlocks, Taken
<1>2. Taken(Entries) \in SUBSET FileBlocks /\ IsFiniteSet(Taken(Entries)) /\ IsFiniteSet(FileBlocks)
  BY TakenIs, WordsAre
<1>3. Cardinality(FreeBlocks) = Cardinality(FileBlocks) - Cardinality(FileBlocks \cap Taken(Entries)) /\ IsFiniteSet(FreeBlocks)
  BY <1>1, <1>2, FS_Difference
<1>4. FileBlocks \cap Taken(Entries) = Taken(Entries)
  BY <1>2
<1> QED
  BY <1>3, <1>4, SavedIs, FS_CardinalityType DEF Balanced

(* The invariant of the refinement.                                          *)
HeldInv == BackupInv /\ Balanced

(* An empty directory holds no files.                                        *)
LEMMA NoneHeld ==
  ASSUME FilesInv, Entries = {}
  PROVE  FilesHeld = [n \in Names |-> None] /\ Balanced
<1>1. FilesHeld = [n \in Names |-> None]
  BY HeldIs DEF HeldInEntries, FilesHeld
<1>2. Taken(Entries) = {}
  BY DEF Taken
<1> QED
  BY <1>1, <1>2, TotalNone, FS_EmptySet DEF Balanced

(* An empty directory and no files go together.               *)
NothingHeld == Entries = {} => FilesHeld = [n \in Names |-> None] /\ Balanced

(* A sound memory does.                                                      *)
LEMMA NoneHeldIs == FilesInv => NothingHeld
BY NoneHeld DEF NothingHeld

(* The same of the memory after a step.                                      *)
LEMMA NoneHeldNext == FilesInv' => NothingHeld'
BY NoneHeldIs, PTL

(* A service that leaves the memory alone leaves the files alone.            *)
LEMMA SameHeld ==
  ASSUME FilesInv, Balanced, UNCHANGED ram
  PROVE  FilesHeld' = FilesHeld /\ Balanced'
<1>1. FilesInv' /\ Entries' = Entries /\ \A f \in Entries : Kept(f)
  BY SameStep
<1>2. \A f \in Entries : Payload(f)' = Payload(f) /\ Claimed(f)' = Claimed(f)
  BY <1>1, Remaining
<1>3. HeldInEntries /\ HeldInEntries'
  BY <1>1, HeldIs, HeldNext
<1>4. ASSUME NEW n \in Names PROVE Held(n)' = Held(n)
  <2>1. CASE \E f \in Entries : ram[f].name = n
    BY <1>1, <1>2, <1>3, <2>1 DEF HeldInEntries
  <2>2. CASE \A f \in Entries : ram[f].name # n
    BY <1>1, <1>3, <2>2 DEF HeldInEntries
  <2> QED
    BY <2>1, <2>2
<1>5. FilesHeld' = FilesHeld
  BY <1>4 DEF FilesHeld
<1>6. Taken(Entries)' = Taken(Entries)
  BY <1>1, <1>2 DEF Taken
<1> QED
  BY <1>5, <1>6 DEF Balanced, TotalBlocks

(* Erasing an entry erases the file.                                         *)
LEMMA ErasedHeld ==
  ASSUME FilesInv, Balanced, NEW n \in Names, ram' = Erased(n)
  PROVE  FilesHeld' = Saved!Erased(n) /\ Balanced'
<1>1. FilesInv' /\ Entries' = Others(n) /\ \A f \in Others(n) : Kept(f)
  BY EraseStep
<1>2. Changed(n, Others(n), None)
  BY <1>1, ThereIs DEF Changed, Others
<1>3. FilesHeld' = [FilesHeld EXCEPT ![n] = None] /\ Balanced'
  <2> DEFINE S == Others(n)
  <2>1. Changed(n, S, None)
    BY <1>2
  <2> HIDE DEF S
  <2> QED
    BY <1>1, <2>1, OneChanged
<1> QED
  BY <1>3, SavedIs

(* After a write the file holds what was written.                            *)
LEMMA WrittenHeld ==
  ASSUME FilesInv, FilesInv', Balanced, NEW n \in Names, NEW d \in Contents, NEW e, Written(n, d, e)
  PROVE  FilesHeld' = [FilesHeld EXCEPT ![n] = d] /\ Balanced'
<1>1. /\ e \notin Others(n) /\ Entries' = Others(n) \cup {e} /\ \A f \in Others(n) : Kept(f)
      /\ Payload(e)' = d /\ ram'[e].name = n
  BY DEF Written
<1>2. Changed(n, Others(n), d)
  BY <1>1, ThereIs DEF Changed, Others
<1> QED
  BY <1>2, OneChanged

(* The initial memory holds no files.                                        *)
LEMMA StartsHeld == BackupInit => HeldInv /\ Saved!Init
<1> SUFFICES ASSUME BackupInit PROVE HeldInv /\ Saved!Init
  OBVIOUS
<1>1. BackupInv
  BY StartsSound
<1>2. Entries = {}
  BY ZeroType DEF BackupInit, Formatted, Entries, bupEntryInUse
<1>3. FilesHeld = [n \in Names |-> None] /\ Balanced
  BY <1>1, <1>2, NoneHeld DEF BackupInv
<1>4. reply = <<"none">>
  BY Zenon DEF BackupInit
<1> QED
  BY <1>1, <1>3, <1>4 DEF HeldInv, Saved!Init

(* BUP_Write is the abstract write.                                          *)
LEMMA WriteHolds ==
  ASSUME HeldInv, NEW n \in Names, NEW d \in Contents, NEW keep \in BOOLEAN, BUP_Write(n, d, keep)
  PROVE  Balanced' /\ Saved!Write(n, d, keep)
<1> DEFINE m == BlocksFor(Len(d))
           fs == [FilesHeld EXCEPT ![n] = None]
<1>1. FilesInv /\ Balanced
  BY DEF HeldInv, BackupInv
<1>2. m \in Nat
  BY BackupRAMAssumption, LenProperties, RoomFor
<1>3. Saved!TooLong(Len(d)) <=> TooMany(m)
  BY TooLongIs
<1>4. There(n) # {} <=> n \in Saved!Files
  BY <1>1, ThereSaved
<1>5. Cardinality(Free(n)) = Saved!Free(Saved!Erased(n)) /\ Cardinality(Free(n)) \in Nat
  <2>1. IsFiniteSet(Free(n))
    BY <1>1, FreeIs, WordsAre, FS_Subset
  <2> QED
    BY <1>1, <2>1, FreeCount, SavedIs, FS_CardinalityType
<1>6. TooFew(n, m) <=> ~(1 + Saved!BlocksFor(Len(d)) <= Saved!Free(Saved!Erased(n)))
  BY <1>2, <1>5, SavedIs DEF TooFew
<1>7. \A code : Reply(code) <=> Saved!Reply(code)
  BY DEF Reply, Saved!Reply
<1> HIDE DEF m
<1>8. \/ TooMany(m) /\ Reply("not enough memory") /\ UNCHANGED ram
      \/ ~TooMany(m) /\ There(n) # {} /\ keep /\ Reply("found") /\ UNCHANGED ram
      \/ /\ ~TooMany(m) /\ ~(There(n) # {} /\ keep) /\ TooFew(n, m)
         /\ Reply("not enough memory") /\ ram' = Erased(n)
      \/ /\ ~TooMany(m) /\ ~(There(n) # {} /\ keep) /\ ~TooFew(n, m)
         /\ Reply("ok") /\ ram' = Overwritten(n, d, bupAllocBlocks(Free(n), 1 + m))
  BY WriteIs DEF m
<1>9. CASE TooMany(m) /\ Reply("not enough memory") /\ UNCHANGED ram
  BY <1>1, <1>3, <1>7, <1>9, SameHeld DEF Saved!Write
<1>10. CASE ~TooMany(m) /\ There(n) # {} /\ keep /\ Reply("found") /\ UNCHANGED ram
  BY <1>1, <1>3, <1>4, <1>7, <1>10, SameHeld DEF Saved!Write
<1>11. CASE /\ ~TooMany(m) /\ ~(There(n) # {} /\ keep) /\ TooFew(n, m)
            /\ Reply("not enough memory") /\ ram' = Erased(n)
  <2>1. FilesHeld' = Saved!Erased(n) /\ Balanced'
    BY <1>1, <1>11, ErasedHeld
  <2> QED
    BY <1>3, <1>4, <1>6, <1>7, <1>11, <2>1, Zenon DEF Saved!Write
<1>12. CASE /\ ~TooMany(m) /\ ~(There(n) # {} /\ keep) /\ ~TooFew(n, m)
            /\ Reply("ok") /\ ram' = Overwritten(n, d, bupAllocBlocks(Free(n), 1 + m))
  <2>1. Pages(m) <= Slots /\ 1 + m <= Cardinality(Free(n))
    BY <1>1, <1>2, <1>12, Enough
  <2>2. FilesInv' /\ \E e : Written(n, d, e)
    BY <1>1, <1>12, <2>1, WriteStep DEF m
  <2>3. FilesHeld' = [FilesHeld EXCEPT ![n] = d] /\ Balanced'
    BY <1>1, <2>2, WrittenHeld
  <2> QED
    BY <1>3, <1>4, <1>6, <1>7, <1>12, <2>3, Zenon DEF Saved!Write
<1> QED
  BY <1>8, <1>9, <1>10, <1>11, <1>12

(* So does the number of members.                                            *)
LEMMA SameCardinality == \A S : Saved!Cardinality(S) = Cardinality(S)
BY Zenon DEF Saved!Cardinality, Cardinality

(* The reply of BUP_Stat.                                                    *)
LEMMA FourWords == \A x, a, b, c : <<x>> \o <<a, b, c>> = <<x, a, b, c>>
<1> TAKE x, a, b, c
<1> DEFINE S == {x, a, b, c}
           s == <<x>>
           t == <<a, b, c>>
           u == <<x, a, b, c>>
<1>1. s \in Seq(S) /\ t \in Seq(S) /\ u \in Seq(S) /\ Len(s) = 1 /\ Len(t) = 3 /\ Len(u) = 4
  OBVIOUS
<1>2. s[1] = x /\ t[1] = a /\ t[2] = b /\ t[3] = c /\ u[1] = x /\ u[2] = a /\ u[3] = b /\ u[4] = c
  OBVIOUS
<1> HIDE DEF S, s, t, u
<1>3. /\ s \o t \in Seq(S) /\ Len(s \o t) = Len(s) + Len(t)
      /\ \A i \in 1 .. Len(s) + Len(t) : (s \o t)[i] = IF i <= Len(s) THEN s[i] ELSE t[i - Len(s)]
  BY <1>1, ConcatProperties
<1>4. Len(s \o t) = 4
  BY <1>1, <1>3
<1>5. (s \o t)[1] = x /\ (s \o t)[2] = a /\ (s \o t)[3] = b /\ (s \o t)[4] = c
  BY <1>1, <1>2, <1>3
<1>6. \A i \in 1 .. Len(u) : (s \o t)[i] = u[i]
  <2>1. \A i \in 1 .. 4 : i = 1 \/ i = 2 \/ i = 3 \/ i = 4
    OBVIOUS
  <2> QED
    BY <1>1, <1>2, <1>5, <2>1
<1>7. s \o t = u
  BY <1>1, <1>3, <1>4, <1>6, SeqEqual
<1> QED
  BY <1>7 DEF s, t, u

(* Every service is the abstract one, or none.                               *)
LEMMA HeldPreserved == HeldInv /\ [BackupNext]_backupVars => HeldInv' /\ [Saved!Next]_(Saved!vars)
<1> SUFFICES ASSUME HeldInv, [BackupNext]_backupVars PROVE HeldInv' /\ (Saved!Next \/ UNCHANGED <<FilesHeld, reply>>)
  BY DEF Saved!vars
<1>1. FilesInv /\ Balanced /\ BackupInv /\ BackupInv'
  BY BackupPreserved DEF HeldInv, BackupInv
<1>2. FilesInv'
  BY <1>1 DEF BackupInv
<1> SUFFICES Balanced' /\ (Saved!Next \/ UNCHANGED <<FilesHeld, reply>>)
  BY <1>1 DEF HeldInv
<1>3. \A code : Reply(code) <=> Saved!Reply(code)
  BY DEF Reply, Saved!Reply
<1>4. ASSUME UNCHANGED ram PROVE FilesHeld' = FilesHeld /\ Balanced'
  BY <1>1, <1>4, SameHeld
<1>5. CASE Unformatted
  <2>1. UNCHANGED ram /\ ~formatted /\ Reply("unformatted")
    BY <1>5 DEF Unformatted
  <2>2. Saved!Files = {}
    <3>1. Entries = {}
      BY <1>1, <2>1 DEF BackupInv
    <3>2. FilesHeld = [n \in Names |-> None]
      BY <1>1, <3>1, NoneHeld
    <3> QED
      BY <3>2, SavedIs
  <2> QED
    BY <1>3, <1>4, <2>1, <2>2 DEF Saved!Next, Saved!Unformatted
<1>6. CASE NoDevice
  BY <1>4, <1>6 DEF NoDevice, Saved!Next, Saved!NoDevice
<1>7. CASE BUP_Format
  <2>1. ram' = Formatted /\ Reply("ok")
    BY <1>7 DEF BUP_Format
  <2>2. FilesHeld' = [n \in Names |-> None] /\ Balanced'
    BY <1>1, <1>2, <2>1, FormatStep, NoneHeldNext DEF NothingHeld
  <2> QED
    BY <1>3, <2>1, <2>2 DEF Saved!Next, Saved!Format
<1>8. ASSUME NEW n \in Names, BUP_Delete(n) PROVE Balanced' /\ Saved!Next
  <2>1. ram' = Erased(n) /\ Reply(IF There(n) = {} THEN "not found" ELSE "ok")
    BY <1>1, <1>8, DeleteIs
  <2>2. FilesHeld' = Saved!Erased(n) /\ Balanced'
    BY <1>1, <2>1, ErasedHeld
  <2>3. Reply(IF n \in Saved!Files THEN "ok" ELSE "not found")
    BY <1>1, <2>1, ThereSaved
  <2>4. Saved!Delete(n)
    BY <1>3, <2>2, <2>3 DEF Saved!Delete
  <2> QED
    BY <2>2, <2>4 DEF Saved!Next
<1>9. ASSUME NEW n \in Names, BUP_Read(n) PROVE Balanced' /\ Saved!Next
  <2>1. UNCHANGED ram /\ reply' = IF bupFindEntry(n) = {} THEN <<"not found">> ELSE <<"ok", Payload(Entry(n))>>
    BY <1>9 DEF BUP_Read
  <2>2. reply' = IF n \in Saved!Files THEN <<"ok", FilesHeld[n]>> ELSE <<"not found">>
    BY <1>1, <2>1, ThereSaved
  <2>3. Saved!Read(n)
    BY <1>4, <2>1, <2>2 DEF Saved!Read
  <2> QED
    BY <1>4, <2>1, <2>3 DEF Saved!Next
<1>10. ASSUME NEW n \in Names, NEW d \in Contents, BUP_Verify(n, d) PROVE Balanced' /\ Saved!Next
  <2> DEFINE e == Entry(n)
             same == Len(bupBuildReadChain(e)) >= ram[e].size /\ IsPrefix(Payload(e), d)
  <2>1. UNCHANGED ram /\ Reply(IF bupFindEntry(n) = {} THEN "not found" ELSE IF same THEN "ok" ELSE "no match")
    BY <1>10, Zenon DEF BUP_Verify
  <2>2. bupFindEntry(n) # {} => (same <=> Saved!IsPrefix(FilesHeld[n], d))
    <3>1. \A s, t : IsPrefix(s, t) <=> Saved!IsPrefix(s, t)
      BY Zenon DEF IsPrefix, Saved!IsPrefix
    <3>2. ASSUME bupFindEntry(n) # {} PROVE FilesHeld[n] = Payload(e) /\ Len(bupBuildReadChain(e)) >= ram[e].size
      <4>1. e \in Entries /\ FilesHeld[n] = Payload(e)
        BY <1>1, <3>2, ThereSaved
      <4>2. ram[e].size <= Len(bupBuildReadChain(e)) /\ bupBuildReadChain(e) \in Seq(Words) /\ ram[e].size \in Nat
        BY <1>1, <4>1 DEF FilesInv, Sound, Entries, Block
      <4> QED
        BY <4>1, <4>2, LenProperties
    <3> QED
      BY <3>1, <3>2
  <2> HIDE DEF same, e
  <2>3. Reply(IF n \notin Saved!Files THEN "not found" ELSE IF Saved!IsPrefix(FilesHeld[n], d) THEN "ok" ELSE "no match")
    BY <1>1, <2>1, <2>2, ThereSaved
  <2>4. Saved!Verify(n, d)
    BY <1>3, <1>4, <2>1, <2>3 DEF Saved!Verify
  <2> QED
    BY <1>4, <2>1, <2>4 DEF Saved!Next
<1>11. ASSUME NEW n \in Names, NEW d \in Contents, NEW keep \in BOOLEAN, BUP_Write(n, d, keep)
       PROVE  Balanced' /\ Saved!Next
  BY <1>11, WriteHolds DEF Saved!Next
<1>12. ASSUME NEW pattern \in Names \cup {None}, NEW limit \in 0 .. Cardinality(Names), BUP_Dir(pattern, limit)
       PROVE  Balanced' /\ Saved!Next
  <2> DEFINE total == Cardinality(Matches(pattern))
             named == Saved!Cardinality(Saved!Named(pattern))
  <2>1. UNCHANGED ram /\ reply' = <<"count", IF total > limit THEN -total ELSE total>>
    BY <1>12, Zenon DEF BUP_Dir
  <2>2. total = named
    BY <1>1, <1>12, MatchesCount, SameCardinality
  <2> HIDE DEF total
  <2>3. Saved!Dir(pattern, limit)
    BY <1>4, <2>1, <2>2 DEF Saved!Dir
  <2>4. limit \in 0 .. Saved!Cardinality(Names)
    BY <1>12, SameCardinality
  <2> QED
    BY <1>4, <1>12, <2>1, <2>3, <2>4 DEF Saved!Next
<1>13. ASSUME NEW d \in Contents, BUP_Stat(Len(d)) PROVE Balanced' /\ Saved!Next
  <2> DEFINE f == Cardinality(FreeBlocks)
             size == Len(d)
             room == IF f * (Page - 1) - Slots < 0 THEN 0 ELSE f * (Page - 1) - Slots
             savedRoom == IF f = 0 THEN 0 ELSE (Page - 1) * f - Slots
  <2>1. UNCHANGED ram /\ reply' = <<"ok">> \o <<room, f, f \div (1 + BlocksFor(size))>>
    BY <1>13, Zenon DEF BUP_Stat, bupFillStat
  <2>2. f = Saved!Free(FilesHeld) /\ f \in Nat
    BY <1>1, FreeNow
  <2> HIDE DEF f, size
  <2>3. room = savedRoom
    <3>1. Slots \in Nat \ {0} /\ Page = Slots + Slots
      BY Sizes
    <3>2. CASE f = 0
      BY <3>1, <3>2
    <3>3. CASE f # 0
      <4>1. Page - 1 \in Nat /\ Page - 1 >= Slots /\ f >= 1 /\ f \in Nat
        BY <2>2, <3>1, <3>3
      <4>2. \A a, b \in Nat : b >= 1 => a * b >= a /\ a * b = b * a
        OBVIOUS
      <4>3. (Page - 1) * f >= Page - 1 /\ f * (Page - 1) = (Page - 1) * f /\ (Page - 1) * f \in Nat
        BY <4>1, <4>2
      <4> QED
        BY <3>1, <3>3, <4>1, <4>3
    <3> QED
      BY <3>2, <3>3
  <2> HIDE DEF room, savedRoom
  <2>4. reply' = <<"ok", savedRoom, f, f \div (1 + Saved!BlocksFor(size))>>
    <3>1. reply' = <<"ok", savedRoom, f, f \div (1 + BlocksFor(size))>>
      BY <2>1, <2>3, FourWords, Zenon
    <3> QED
      BY <3>1, SavedIs
  <2>5. Saved!Stat(size)
    BY <1>4, <2>1, <2>2, <2>4, SavedIs DEF Saved!Stat, savedRoom
  <2> QED
    BY <1>4, <2>1, <2>5 DEF Saved!Next, size
<1>14. CASE UNCHANGED backupVars
  BY <1>4, <1>14 DEF backupVars
<1> QED
  BY <1>5, <1>6, <1>7, <1>8, <1>9, <1>10, <1>11, <1>12, <1>13, <1>14 DEF BackupNext

(* To a game the backup memory is named files.  Every service does to them,  *)
(* and replies, what SaveFiles says, whatever the words of the files look    *)
(* like; their sizes alone decide what fits.                                 *)
THEOREM NamedFiles == BackupSpec => Saved!Spec
<1>1. BackupInit => HeldInv /\ Saved!Init
  BY StartsHeld
<1>2. HeldInv /\ [BackupNext]_backupVars => HeldInv' /\ [Saved!Next]_(Saved!vars)
  BY HeldPreserved
<1> QED
  BY <1>1, <1>2, PTL DEF BackupSpec, Saved!Spec
=============================================================================
