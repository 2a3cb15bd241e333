--------------------------- MODULE FrameWalk_proofs ---------------------------
(***************************************************************************)
(* Proofs about FrameWalk, for every chunk, slack, line width and line     *)
(* count, up to a frame that overtakes the secondary in a shorter one      *)
(* (overtaken): RunFrame may begin the next frame while the secondary is   *)
(* on its way back from the last, and everything holds across that if the  *)
(* next frame is no longer than the last.                                  *)
(***************************************************************************)
EXTENDS FrameWalk, TLAPS

\* The master is somewhere in the walk of a line.
OnLine == main \in {"lineStart", "chunk", "waitPair", "publish", "capture",
                    "rendezvous", "lineEnd"}
Joining == main \in {"joinSecondary", "joinVDP"}
Kicked == OnLine \/ Joining
Between == main \in {"host", "boundary", "start"}
Kicking == main \in {"kickVDP", "kickSecondary"}

\* The frame's geometry, and where the master's locals stand in it.
GeometryInv ==
  /\ total = width * lines
  /\ pos = line * width
  /\ InFrame => width \in LineWidths /\ lines \in LineCounts
  /\ Between \/ Kicking => line = 0 /\ cyc = 0
  /\ OnLine => line < lines
  /\ Joining => line = lines /\ cyc = 0
  /\ closed => main = "host"

\* The master's position at each of its control points.
MasterInv ==
  /\ Between => masterCycles = total /\ secondaryCycles = total /\ vdpLinesWalked = lines
  /\ Kicking => masterCycles = 0 /\ secondaryCycles = 0
  /\ main = "kickVDP" => vdpLinesWalked = 0
  /\ main = "lineStart" =>
       cyc = 0 /\ masterCycles = pos /\ secondaryCycles >= pos
  /\ main \in {"chunk", "waitPair"} =>
       cyc < width /\ masterCycles = pos + cyc /\ secondaryCycles >= pos + cyc
  /\ main = "publish" =>
       /\ masterCycles < pos + cyc /\ pos + cyc <= masterCycles + Chunk
       /\ masterCycles <= secondaryCycles
  /\ main \in {"capture", "rendezvous", "lineEnd"} =>
       masterCycles = pos + cyc /\ masterCycles <= secondaryCycles + Chunk
  /\ main = "rendezvous" => pos + cyc < total
  /\ main = "lineEnd" =>
       cyc = width /\ (line + 1 < lines => secondaryCycles >= masterCycles)
  /\ Joining => masterCycles = total /\ masterCycles <= secondaryCycles + Chunk
  /\ main = "joinVDP" => secondaryCycles = total
  /\ OnLine /\ main # "lineStart" => vdpLinesWalked + Slack >= line + 1
  /\ main = "lineStart" \/ Joining => vdpLinesWalked + Slack >= line

Multiple(x) == \E k \in 0..lines : x = k * width

\* The secondary's position at each of its control points.  On its way back from
\* the last frame (Trailing) it has passed everything the new frame has.
SecondaryInv ==
  /\ sec \notin {"parked", "exited"} /\ ~Trailing =>
       swidth = width /\ secondaryJobCh = 0 /\ (Kicked \/ Between)
  /\ Trailing => OnTheWayBack /\ spos >= total /\ (sec # "frame" => spos >= slineEnd)
  /\ secondaryJobCh = 1 => sec # "exited" /\ Kicked /\ secondaryCycles = 0
  /\ sec \in {"parked", "exited"} /\ secondaryJobCh = 0 /\ Kicked => secondaryCycles = total
  /\ sec = "exited" => closed
  /\ sec = "frame" /\ ~Trailing =>
       /\ secondaryCycles = spos /\ Multiple(spos)
       /\ masterCycles >= spos \/ spos = total
  /\ sec = "scanline" => /\ secondaryCycles = spos /\ Multiple(spos)
                         /\ spos < total /\ masterCycles >= spos
  /\ sec \in {"chunk", "waitPair"} =>
       /\ secondaryCycles = spos /\ spos < slineEnd /\ Multiple(slineEnd)
       /\ masterCycles >= spos
  /\ sec = "publish" =>
       /\ secondaryCycles < spos /\ spos <= secondaryCycles + Chunk
       /\ spos <= slineEnd /\ Multiple(slineEnd)
       /\ masterCycles >= secondaryCycles
  /\ sec \in {"capture", "check", "rendezvous"} /\ ~Trailing =>
       /\ secondaryCycles = spos /\ spos <= slineEnd /\ Multiple(slineEnd)
  /\ sec = "rendezvous" => spos < total
  /\ InFrame => secondaryCycles <= masterCycles + Chunk /\ secondaryCycles <= total

\* The walker's line at each of its control points, and its two messages.
WalkerInv ==
  /\ vdpJobChBegin = 1 =>
       /\ vdp = "parked" /\ vdpJobChFinished = 0 /\ vdpLinesWalked = 0
       /\ main = "kickSecondary" \/ Kicked
  /\ vdpJobChFinished = 1 =>
       vdp = "parked" /\ vdpLinesWalked = lines /\ Kicked
  /\ vdp \in {"waitLine", "walk", "finish"} =>
       vdpJobChBegin = 0 /\ vdpJobChFinished = 0
  /\ vdp = "waitLine" =>
       vdpLinesWalked = vline /\ vline < lines /\ (main = "kickSecondary" \/ Kicked)
  /\ vdp = "walk" =>
       /\ vdpLinesWalked = vline /\ vline < lines /\ Kicked
       /\ masterCycles >= (vline + 1) * width
       /\ secondaryCycles >= (vline + 1) * width
  /\ vdp = "finish" => vdpLinesWalked = lines /\ Kicked
  /\ vdp = "exited" => closed
  /\ Between \/ main = "kickVDP" =>
       vdp \in {"parked", "exited"} /\ vdpJobChBegin = 0 /\ vdpJobChFinished = 0

IInv == TypeOK /\ GeometryInv /\ MasterInv /\ SecondaryInv /\ WalkerInv

-----------------------------------------------------------------------------
(* Arithmetic the positions rest on.                                       *)

\* A product grows with its first factor.
LEMMA ProductMonotone ==
  ASSUME NEW a \in Nat, NEW b \in Nat, NEW c \in Nat, a <= b
  PROVE  a * c <= b * c
<1>1. PICK d \in Nat : b = a + d
  BY SMT
<1>2. b * c = a * c + d * c /\ d * c \in Nat /\ a * c \in Nat
  BY <1>1, SMT
<1> QED
  BY <1>2, SMT

\* One line more is one line width more.
LEMMA NextLine ==
  ASSUME NEW a \in Nat, NEW c \in Nat
  PROVE  (a + 1) * c = a * c + c /\ a * c \in Nat
BY SMT

\* Lines in range end inside the frame, and only the last one at its end.
LEMMA LineInFrame ==
  ASSUME NEW a \in Nat, NEW n \in Nat, NEW w \in Nat
  PROVE  /\ a < n => a * w + w <= w * n
         /\ a + 1 < n /\ w # 0 => a * w + w < w * n
         /\ a <= n => a * w <= w * n
         /\ a <= n /\ w # 0 /\ a * w < w * n => a < n
<1>1. a < n => (a + 1) * w <= n * w
  BY ProductMonotone, SMT
<1>2. a + 1 < n => (a + 2) * w <= n * w
  BY ProductMonotone, SMT
<1>3. a <= n => a * w <= n * w
  BY ProductMonotone, SMT
<1>4. (a + 1) * w = a * w + w /\ (a + 2) * w = a * w + w + w /\ n * w = w * n
  BY SMT
<1>5. a * w \in Nat /\ w * n \in Nat
  BY SMT
<1>6. a = n => a * w = w * n
  BY SMT
<1> QED
  BY <1>1, <1>2, <1>3, <1>4, <1>5, <1>6, SMT

\* The next chunk is between one cycle and Chunk cycles, inside the rest.
LEMMA ChunkBounds ==
  ASSUME NEW rest \in Nat \ {0}
  PROVE  NextChunk(rest) \in 1..Chunk /\ NextChunk(rest) <= rest
BY ChunkAssumption DEF NextChunk

-----------------------------------------------------------------------------
(* IInv holds initially and every step keeps it.                           *)

LEMMA InitInv == Init => IInv
<1> SUFFICES ASSUME Init PROVE IInv
  OBVIOUS
<1> USE DEF Init
<1>1. TypeOK
  <2>1. ControlOK
    BY DEF ControlOK
  <2>2. PositionsOK
    BY DEF PositionsOK, NoTime
  <2>3. FlagsOK
    BY DEF FlagsOK
  <2> QED
    BY <2>1, <2>2, <2>3 DEF TypeOK
<1>2. GeometryInv
  BY DEF GeometryInv, InFrame, Between, Kicking, OnLine, Joining
<1>3. MasterInv
  BY DEF MasterInv, Between, Kicking, OnLine, Joining
<1>4. SecondaryInv
  BY DEF SecondaryInv, InFrame, Kicked, OnLine, Joining, Kicking, Trailing
<1>5. WalkerInv
  BY DEF WalkerInv, Kicked, OnLine, Joining, Between
<1> QED
  BY <1>1, <1>2, <1>3, <1>4, <1>5 DEF IInv

\* Control points stay in their sets.
LEMMA ControlStep ==
  ASSUME IInv, [Next]_vars, ~overtaken'
  PROVE  ControlOK'
<1> USE DEF IInv, TypeOK, ControlOK, mainVars, secVars, vdpVars, counters, params,
            channels, captures, deferred, pair, AfterBarrier
<1>1. CASE CallRunFrame
  BY <1>1 DEF CallRunFrame
<1>2. CASE OpenRenderer
  BY <1>2 DEF OpenRenderer
<1>3. CASE Close
  BY <1>3 DEF Close
<1>4. CASE Boundary
  BY <1>4 DEF Boundary, NoTime
<1>5. CASE StartFrame
  BY <1>5 DEF StartFrame, NoTime
<1>6. CASE KickVDP
  BY <1>6 DEF KickVDP
<1>7. CASE KickSecondary
  BY <1>7 DEF KickSecondary
<1>8. CASE LineStart
  BY <1>8 DEF LineStart, WalkerNear
<1>9. CASE MasterReadsFB
  BY <1>9 DEF MasterReadsFB
<1>10. CASE MasterReadDone
  BY <1>10 DEF MasterReadDone
<1>11. CASE MasterChunk
  BY <1>11 DEF MasterChunk
<1>12. CASE MasterPublish
  BY <1>12 DEF MasterPublish
<1>13. CASE MasterCapture
  BY <1>13 DEF MasterCapture, NoTime
<1>14. CASE MasterRendezvous
  BY <1>14 DEF MasterRendezvous, SecondaryReached
<1>15. CASE LineEnd
  BY <1>15 DEF LineEnd
<1>16. CASE JoinSecondary
  BY <1>16 DEF JoinSecondary
<1>17. CASE JoinVDP
  BY <1>17 DEF JoinVDP, WalkerDone
<1>18. CASE SecondaryKicked
  BY <1>18 DEF SecondaryKicked
<1>19. CASE SecondaryFrame
  BY <1>19 DEF SecondaryFrame
<1>20. CASE SecondaryScanline
  BY <1>20 DEF SecondaryScanline
<1>21. CASE SecondaryReadsFB
  BY <1>21 DEF SecondaryReadsFB
<1>22. CASE SecondaryReadDone
  BY <1>22 DEF SecondaryReadDone
<1>23. CASE SecondaryChunk
  BY <1>23 DEF SecondaryChunk
<1>24. CASE SecondaryPublish
  BY <1>24 DEF SecondaryPublish
<1>25. CASE SecondaryCapture
  BY <1>25 DEF SecondaryCapture, NoTime
<1>26. CASE SecondaryCheck
  BY <1>26 DEF SecondaryCheck, SkipsWait, AfterBarrier
<1>27. CASE SecondaryRendezvous
  BY <1>27 DEF SecondaryRendezvous, AfterBarrier
<1>28. CASE SecondaryExit
  BY <1>28 DEF SecondaryExit
<1>29. CASE WalkerKicked
  BY <1>29 DEF WalkerKicked
<1>30. CASE ServicePair
  BY <1>30 DEF ServicePair
<1>31. CASE WalkerStartsLine
  BY <1>31 DEF WalkerStartsLine, LineCompleted
<1>32. CASE WalkLine
  BY <1>32 DEF WalkLine
<1>33. CASE WalkerFinishes
  BY <1>33 DEF WalkerFinishes
<1>34. CASE WalkerExit
  BY <1>34 DEF WalkerExit
<1>35. CASE Stopped
  BY <1>35 DEF Stopped, vars
<1>36. CASE UNCHANGED vars
  BY <1>36 DEF vars
<1> HIDE DEF IInv, TypeOK, ControlOK, mainVars, secVars, vdpVars, counters, params,
             channels, captures, deferred, pair, AfterBarrier
<1> QED
  BY <1>1, <1>2, <1>3, <1>4, <1>5, <1>6, <1>7, <1>8, <1>9, <1>10, <1>11, <1>12,
     <1>13, <1>14, <1>15, <1>16, <1>17, <1>18, <1>19, <1>20, <1>21, <1>22, <1>23,
     <1>24, <1>25, <1>26, <1>27, <1>28, <1>29, <1>30, <1>31, <1>32, <1>33, <1>34,
     <1>35, <1>36 DEF Next, Host, Main, Secondary, Walker

\* The frame's geometry.
LEMMA GeometryStep ==
  ASSUME IInv, [Next]_vars, ~overtaken'
  PROVE  GeometryInv'
<1> USE DEF IInv, TypeOK, ControlOK, PositionsOK, GeometryInv, InFrame, Between,
            Kicking, OnLine, Joining, mainVars, secVars, vdpVars, counters, params,
            channels, captures, deferred, pair
<1>1. CASE CallRunFrame
  BY <1>1 DEF CallRunFrame
<1>2. CASE OpenRenderer
  BY <1>2 DEF OpenRenderer
<1>3. CASE Close
  BY <1>3 DEF Close
<1>4. CASE Boundary
  BY <1>4 DEF Boundary, NoTime
<1>5. CASE StartFrame
  BY <1>5, WidthAssumption DEF StartFrame, NoTime
<1>6. CASE KickVDP
  BY <1>6 DEF KickVDP
<1>7. CASE KickSecondary
  BY <1>7, CountAssumption DEF KickSecondary
<1>8. CASE LineStart
  BY <1>8 DEF LineStart, WalkerNear
<1>9. CASE MasterReadsFB
  BY <1>9 DEF MasterReadsFB
<1>10. CASE MasterReadDone
  BY <1>10 DEF MasterReadDone
<1>11. CASE MasterChunk
  BY <1>11 DEF MasterChunk
<1>12. CASE MasterPublish
  BY <1>12 DEF MasterPublish
<1>13. CASE MasterCapture
  BY <1>13 DEF MasterCapture, NoTime
<1>14. CASE MasterRendezvous
  BY <1>14 DEF MasterRendezvous, SecondaryReached
<1>15. CASE LineEnd
  BY <1>15 DEF LineEnd
<1>16. CASE JoinSecondary
  BY <1>16 DEF JoinSecondary
<1>17. CASE JoinVDP
  BY <1>17 DEF JoinVDP, WalkerDone
<1>18. CASE SecondaryKicked
  BY <1>18 DEF SecondaryKicked
<1>19. CASE SecondaryFrame
  BY <1>19 DEF SecondaryFrame
<1>20. CASE SecondaryScanline
  BY <1>20 DEF SecondaryScanline
<1>21. CASE SecondaryReadsFB
  BY <1>21 DEF SecondaryReadsFB
<1>22. CASE SecondaryReadDone
  BY <1>22 DEF SecondaryReadDone
<1>23. CASE SecondaryChunk
  BY <1>23 DEF SecondaryChunk
<1>24. CASE SecondaryPublish
  BY <1>24 DEF SecondaryPublish
<1>25. CASE SecondaryCapture
  BY <1>25 DEF SecondaryCapture, NoTime
<1>26. CASE SecondaryCheck
  BY <1>26 DEF SecondaryCheck, SkipsWait, AfterBarrier
<1>27. CASE SecondaryRendezvous
  BY <1>27 DEF SecondaryRendezvous, AfterBarrier
<1>28. CASE SecondaryExit
  BY <1>28 DEF SecondaryExit
<1>29. CASE WalkerKicked
  BY <1>29 DEF WalkerKicked
<1>30. CASE ServicePair
  BY <1>30 DEF ServicePair
<1>31. CASE WalkerStartsLine
  BY <1>31 DEF WalkerStartsLine, LineCompleted
<1>32. CASE WalkLine
  BY <1>32 DEF WalkLine
<1>33. CASE WalkerFinishes
  BY <1>33 DEF WalkerFinishes
<1>34. CASE WalkerExit
  BY <1>34 DEF WalkerExit
<1>35. CASE Stopped
  BY <1>35 DEF Stopped, vars
<1>36. CASE UNCHANGED vars
  BY <1>36 DEF vars
<1> HIDE DEF IInv, TypeOK, ControlOK, PositionsOK, GeometryInv, InFrame, Between,
             Kicking, OnLine, Joining, mainVars, secVars, vdpVars, counters, params,
             channels, captures, deferred, pair
<1> QED
  BY <1>1, <1>2, <1>3, <1>4, <1>5, <1>6, <1>7, <1>8, <1>9, <1>10, <1>11, <1>12,
     <1>13, <1>14, <1>15, <1>16, <1>17, <1>18, <1>19, <1>20, <1>21, <1>22, <1>23,
     <1>24, <1>25, <1>26, <1>27, <1>28, <1>29, <1>30, <1>31, <1>32, <1>33, <1>34,
     <1>35, <1>36 DEF Next, Host, Main, Secondary, Walker

\* A multiple of the line width in range lies inside the frame, and the line
\* that starts there ends inside it.
LEMMA MultipleInFrame ==
  ASSUME TypeOK, GeometryInv, NEW x, Multiple(x)
  PROVE  /\ x \in Nat /\ x <= total
         /\ InFrame /\ x < total => Multiple(x + width) /\ x + width <= total
<1> USE DEF TypeOK, PositionsOK, GeometryInv
<1>1. PICK k \in 0..lines : x = k * width
  BY DEF Multiple
<1>2. width \in Nat /\ lines \in Nat /\ (InFrame => width # 0)
  BY WidthAssumption
<1>3. x \in Nat /\ x <= total
  BY <1>1, <1>2, LineInFrame, NextLine
<1>4. CASE InFrame /\ x < total
  <2>1. k < lines
    BY <1>1, <1>2, <1>4, LineInFrame
  <2>2. x + width = (k + 1) * width /\ k + 1 \in 0..lines
    BY <1>1, <1>2, <2>1, NextLine
  <2>3. x + width <= total
    BY <1>1, <1>2, <2>1, LineInFrame
  <2> QED
    BY <1>3, <2>2, <2>3 DEF Multiple
<1> QED
  BY <1>3, <1>4

\* Counters, positions and channels keep their types.
LEMMA PositionsStep ==
  ASSUME IInv, [Next]_vars, ~overtaken'
  PROVE  PositionsOK'
<1> USE DEF IInv, TypeOK, ControlOK, PositionsOK, GeometryInv, MasterInv,
            SecondaryInv, WalkerInv, Trailing, OnTheWayBack, InFrame, Between, Kicking, OnLine, Joining,
            Kicked, mainVars, secVars, vdpVars, counters, params, channels,
            captures, deferred, pair
<1>1. CASE CallRunFrame
  BY <1>1 DEF CallRunFrame
<1>2. CASE OpenRenderer
  BY <1>2 DEF OpenRenderer
<1>3. CASE Close
  BY <1>3 DEF Close
<1>4. CASE Boundary
  BY <1>4 DEF Boundary, NoTime
<1>5. CASE StartFrame
  BY <1>5, WidthAssumption, CountAssumption DEF StartFrame, NoTime
<1>6. CASE KickVDP
  BY <1>6 DEF KickVDP
<1>7. CASE KickSecondary
  BY <1>7 DEF KickSecondary
<1>8. CASE LineStart
  BY <1>8 DEF LineStart, WalkerNear
<1>9. CASE MasterReadsFB
  BY <1>9 DEF MasterReadsFB
<1>10. CASE MasterReadDone
  BY <1>10 DEF MasterReadDone
<1>11. CASE MasterChunk
  BY <1>11, ChunkBounds DEF MasterChunk
<1>12. CASE MasterPublish
  BY <1>12 DEF MasterPublish
<1>13. CASE MasterCapture
  BY <1>13 DEF MasterCapture, NoTime
<1>14. CASE MasterRendezvous
  BY <1>14 DEF MasterRendezvous, SecondaryReached
<1>15. CASE LineEnd
  BY <1>15 DEF LineEnd
<1>16. CASE JoinSecondary
  BY <1>16 DEF JoinSecondary
<1>17. CASE JoinVDP
  BY <1>17 DEF JoinVDP, WalkerDone
<1>18. CASE SecondaryKicked
  BY <1>18 DEF SecondaryKicked
<1>19. CASE SecondaryFrame
  BY <1>19 DEF SecondaryFrame
<1>20. CASE SecondaryScanline
  BY <1>20 DEF SecondaryScanline
<1>21. CASE SecondaryReadsFB
  BY <1>21 DEF SecondaryReadsFB
<1>22. CASE SecondaryReadDone
  BY <1>22 DEF SecondaryReadDone
<1>23. CASE SecondaryChunk
  BY <1>23, ChunkBounds DEF SecondaryChunk
<1>24. CASE SecondaryPublish
  BY <1>24 DEF SecondaryPublish
<1>25. CASE SecondaryCapture
  BY <1>25 DEF SecondaryCapture, NoTime
<1>26. CASE SecondaryCheck
  BY <1>26 DEF SecondaryCheck, SkipsWait, AfterBarrier
<1>27. CASE SecondaryRendezvous
  BY <1>27 DEF SecondaryRendezvous, AfterBarrier
<1>28. CASE SecondaryExit
  BY <1>28 DEF SecondaryExit
<1>29. CASE WalkerKicked
  BY <1>29 DEF WalkerKicked
<1>30. CASE ServicePair
  BY <1>30 DEF ServicePair
<1>31. CASE WalkerStartsLine
  BY <1>31 DEF WalkerStartsLine, LineCompleted
<1>32. CASE WalkLine
  BY <1>32 DEF WalkLine
<1>33. CASE WalkerFinishes
  BY <1>33 DEF WalkerFinishes
<1>34. CASE WalkerExit
  BY <1>34 DEF WalkerExit
<1>35. CASE Stopped
  BY <1>35 DEF Stopped, vars
<1>36. CASE UNCHANGED vars
  BY <1>36 DEF vars
<1> HIDE DEF IInv, TypeOK, ControlOK, PositionsOK, GeometryInv, MasterInv,
             SecondaryInv, WalkerInv, Trailing, OnTheWayBack, InFrame, Between, Kicking, OnLine, Joining,
             Kicked, mainVars, secVars, vdpVars, counters, params, channels,
             captures, deferred, pair
<1> QED
  BY <1>1, <1>2, <1>3, <1>4, <1>5, <1>6, <1>7, <1>8, <1>9, <1>10, <1>11, <1>12,
     <1>13, <1>14, <1>15, <1>16, <1>17, <1>18, <1>19, <1>20, <1>21, <1>22, <1>23,
     <1>24, <1>25, <1>26, <1>27, <1>28, <1>29, <1>30, <1>31, <1>32, <1>33, <1>34,
     <1>35, <1>36 DEF Next, Host, Main, Secondary, Walker

\* The master's position.
LEMMA MasterStep ==
  ASSUME IInv, [Next]_vars, ~overtaken'
  PROVE  MasterInv'
<1> USE DEF IInv, TypeOK, ControlOK, PositionsOK, GeometryInv, MasterInv,
            SecondaryInv, WalkerInv, Trailing, OnTheWayBack, InFrame, Between, Kicking, OnLine, Joining,
            Kicked, mainVars, secVars, vdpVars, counters, params, channels,
            captures, deferred, pair
<1>1. CASE CallRunFrame
  BY <1>1 DEF CallRunFrame
<1>2. CASE OpenRenderer
  BY <1>2 DEF OpenRenderer
<1>3. CASE Close
  BY <1>3 DEF Close
<1>4. CASE Boundary
  BY <1>4 DEF Boundary, NoTime
<1>5. CASE StartFrame
  BY <1>5 DEF StartFrame, NoTime
<1>6. CASE KickVDP
  BY <1>6 DEF KickVDP
<1>7. CASE KickSecondary
  BY <1>7, SlackAssumption DEF KickSecondary
<1>8. CASE LineStart
  BY <1>8, SlackAssumption, WidthAssumption DEF LineStart, WalkerNear
<1>9. CASE MasterReadsFB
  BY <1>9 DEF MasterReadsFB
<1>10. CASE MasterReadDone
  BY <1>10 DEF MasterReadDone
<1>11. CASE MasterChunk
  BY <1>11, ChunkAssumption, ChunkBounds DEF MasterChunk
<1>12. CASE MasterPublish
  BY <1>12, ChunkAssumption DEF MasterPublish
<1>13. CASE MasterCapture
  BY <1>13 DEF MasterCapture, NoTime
<1>14. CASE MasterRendezvous
  BY <1>14 DEF MasterRendezvous, SecondaryReached
<1>15. CASE LineEnd
  BY <1>15 DEF LineEnd
<1>16. CASE JoinSecondary
  BY <1>16 DEF JoinSecondary
<1>17. CASE JoinVDP
  BY <1>17 DEF JoinVDP, WalkerDone
<1>18. CASE SecondaryKicked
  BY <1>18 DEF SecondaryKicked
<1>19. CASE SecondaryFrame
  BY <1>19 DEF SecondaryFrame
<1>20. CASE SecondaryScanline
  BY <1>20 DEF SecondaryScanline
<1>21. CASE SecondaryReadsFB
  BY <1>21 DEF SecondaryReadsFB
<1>22. CASE SecondaryReadDone
  BY <1>22 DEF SecondaryReadDone
<1>23. CASE SecondaryChunk
  BY <1>23 DEF SecondaryChunk
<1>24. CASE SecondaryPublish
  <2>1. slineEnd <= total
    BY <1>24, MultipleInFrame DEF SecondaryPublish
  <2>2. secondaryCycles < secondaryCycles' /\ secondaryCycles < total
    BY <1>24, <2>1 DEF SecondaryPublish
  <2> QED
    BY <1>24, <2>1, <2>2, SlackAssumption, ChunkAssumption DEF SecondaryPublish
<1>25. CASE SecondaryCapture
  BY <1>25 DEF SecondaryCapture, NoTime
<1>26. CASE SecondaryCheck
  BY <1>26 DEF SecondaryCheck, SkipsWait, AfterBarrier
<1>27. CASE SecondaryRendezvous
  BY <1>27 DEF SecondaryRendezvous, AfterBarrier
<1>28. CASE SecondaryExit
  BY <1>28 DEF SecondaryExit
<1>29. CASE WalkerKicked
  BY <1>29 DEF WalkerKicked
<1>30. CASE ServicePair
  BY <1>30 DEF ServicePair
<1>31. CASE WalkerStartsLine
  BY <1>31 DEF WalkerStartsLine, LineCompleted
<1>32. CASE WalkLine
  BY <1>32, SlackAssumption DEF WalkLine
<1>33. CASE WalkerFinishes
  BY <1>33 DEF WalkerFinishes
<1>34. CASE WalkerExit
  BY <1>34 DEF WalkerExit
<1>35. CASE Stopped
  BY <1>35 DEF Stopped, vars
<1>36. CASE UNCHANGED vars
  BY <1>36 DEF vars
<1> HIDE DEF IInv, TypeOK, ControlOK, PositionsOK, GeometryInv, MasterInv,
             SecondaryInv, WalkerInv, Trailing, OnTheWayBack, InFrame, Between, Kicking, OnLine, Joining,
             Kicked, mainVars, secVars, vdpVars, counters, params, channels,
             captures, deferred, pair
<1> QED
  BY <1>1, <1>2, <1>3, <1>4, <1>5, <1>6, <1>7, <1>8, <1>9, <1>10, <1>11, <1>12,
     <1>13, <1>14, <1>15, <1>16, <1>17, <1>18, <1>19, <1>20, <1>21, <1>22, <1>23,
     <1>24, <1>25, <1>26, <1>27, <1>28, <1>29, <1>30, <1>31, <1>32, <1>33, <1>34,
     <1>35, <1>36 DEF Next, Host, Main, Secondary, Walker

\* Between two frames nobody but the main goroutine has anything left to do, but
\* for the way back of the secondary from the frame it has published to its end.
LEMMA AtBoundary ==
  ASSUME IInv, main \in {"boundary", "start"}
  PROVE  /\ vdp = "parked"
         /\ vdpJobChBegin = 0 /\ vdpJobChFinished = 0 /\ secondaryJobCh = 0
         /\ sec = "parked" \/ (OnTheWayBack /\ spos = total)
         /\ sec \in {"capture", "check"} => spos >= slineEnd
<1>1. ~closed /\ Between /\ ~Kicked
  BY DEF IInv, GeometryInv, Between, Kicked, OnLine, Joining
<1>2. vdp = "parked" /\ vdpJobChBegin = 0 /\ vdpJobChFinished = 0 /\ secondaryJobCh = 0
  BY <1>1 DEF IInv, TypeOK, PositionsOK, SecondaryInv, WalkerInv
<1>3. secondaryCycles = total /\ ~Trailing
  BY <1>1, <1>2 DEF IInv, MasterInv, Trailing
<1>4. /\ Multiple(slineEnd) => slineEnd <= total
      /\ Multiple(spos) => spos <= total
  BY MultipleInFrame DEF IInv
<1>5. /\ sec \notin {"exited", "scanline", "chunk", "waitPair", "publish", "rendezvous"}
      /\ sec \in {"capture", "check"} => spos >= slineEnd
  BY <1>1, <1>3, <1>4 DEF IInv, TypeOK, PositionsOK, SecondaryInv
<1>6. sec # "parked" => OnTheWayBack /\ spos = total
  BY <1>3, <1>5 DEF IInv, TypeOK, ControlOK, SecondaryInv, OnTheWayBack
<1> QED
  BY <1>2, <1>5, <1>6

\* The secondary's position.
LEMMA SecondaryStep ==
  ASSUME IInv, [Next]_vars, ~overtaken'
  PROVE  SecondaryInv'
<1> USE DEF Multiple, IInv, TypeOK, ControlOK, PositionsOK, GeometryInv, MasterInv,
            SecondaryInv, WalkerInv, Trailing, OnTheWayBack, InFrame, Between, Kicking, OnLine, Joining,
            Kicked, mainVars, secVars, vdpVars, counters, params, channels,
            captures, deferred, pair
<1>1. CASE CallRunFrame
  BY <1>1 DEF CallRunFrame
<1>2. CASE OpenRenderer
  BY <1>2 DEF OpenRenderer
<1>3. CASE Close
  BY <1>3 DEF Close
<1>4. CASE Boundary
  BY <1>4 DEF Boundary, NoTime
<1>5. CASE StartFrame
  <2>1. total' \in Nat
    BY <1>5, WidthAssumption, CountAssumption DEF StartFrame
  <2>2. /\ secondaryJobCh = 0
        /\ sec = "parked" \/ (OnTheWayBack /\ spos = total)
        /\ sec \in {"capture", "check"} => spos >= slineEnd
    BY <1>5, AtBoundary DEF StartFrame
  <2>3. sec # "parked" => total' <= total
    <3>1. PICK w \in LineWidths, n \in LineCounts :
             total' = w * n /\ overtaken' = (overtaken \/ (sec # "parked" /\ w * n > total))
      BY <1>5 DEF StartFrame
    <3>2. w * n \in Nat /\ total \in Nat
      BY <2>1, <3>1
    <3>3. ~(sec # "parked" /\ w * n > total)
      BY <3>1
    <3> HIDE DEF Multiple, IInv, TypeOK, PositionsOK, GeometryInv, MasterInv, SecondaryInv, WalkerInv
    <3> QED BY <3>1, <3>2, <3>3
  <2> QED BY <1>5, <2>1, <2>2, <2>3, ChunkAssumption DEF StartFrame, NoTime
<1>6. CASE KickVDP
  BY <1>6 DEF KickVDP
<1>7. CASE KickSecondary
  BY <1>7 DEF KickSecondary
<1>8. CASE LineStart
  BY <1>8 DEF LineStart, WalkerNear
<1>9. CASE MasterReadsFB
  BY <1>9 DEF MasterReadsFB
<1>10. CASE MasterReadDone
  BY <1>10 DEF MasterReadDone
<1>11. CASE MasterChunk
  BY <1>11 DEF MasterChunk
<1>12. CASE MasterPublish
  <2>1. masterCycles < masterCycles'
    BY <1>12 DEF MasterPublish
  <2>2. Multiple(spos)' <=> Multiple(spos)
    BY <1>12 DEF MasterPublish
  <2>3. Multiple(slineEnd)' <=> Multiple(slineEnd)
    BY <1>12 DEF MasterPublish
  <2>4. (InFrame => secondaryCycles <= masterCycles + Chunk /\ secondaryCycles <= total)'
    BY <1>12, <2>1, ChunkAssumption DEF MasterPublish
  <2>5. main' = "capture" /\ main = "publish"
    BY <1>12 DEF MasterPublish
  <2>6. masterCycles' \in Nat
    BY <1>12 DEF MasterPublish
  <2>7. UNCHANGED <<secVars, secondaryCycles, params, channels>>
    BY <1>12 DEF MasterPublish
  <2> HIDE DEF Multiple
  <2> QED
    BY <2>1, <2>2, <2>3, <2>4, <2>5, <2>6, <2>7
<1>13. CASE MasterCapture
  BY <1>13 DEF MasterCapture, NoTime
<1>14. CASE MasterRendezvous
  BY <1>14 DEF MasterRendezvous, SecondaryReached
<1>15. CASE LineEnd
  BY <1>15 DEF LineEnd
<1>16. CASE JoinSecondary
  BY <1>16 DEF JoinSecondary
<1>17. CASE JoinVDP
  BY <1>17, WidthAssumption, CountAssumption DEF JoinVDP, WalkerDone
<1>18. CASE SecondaryKicked
  BY <1>18 DEF SecondaryKicked
<1>19. CASE SecondaryFrame
  <2>1. CASE Trailing
    BY <1>19, <2>1 DEF SecondaryFrame
  <2>2. CASE ~Trailing
    <3>1. spos <= total
      BY <1>19, <2>2, MultipleInFrame DEF SecondaryFrame
    <3>2. CASE spos < total
      BY <1>19, <2>2, <3>2 DEF SecondaryFrame
    <3>3. CASE spos = total
      <4>1. /\ UNCHANGED <<mainVars, counters, params, channels>>
            /\ sec' = "parked" /\ spos' = 0
        BY <1>19, <3>3 DEF SecondaryFrame
      <4>2. secondaryCycles = total /\ secondaryJobCh = 0
        BY <1>19, <2>2, <3>3 DEF SecondaryFrame
      <4>3. ~Trailing'
        BY <4>1
      <4> QED
        BY <2>2, <4>1, <4>2, <4>3
    <3> QED
      BY <3>1, <3>2, <3>3
  <2> QED
    BY <2>1, <2>2
<1>20. CASE SecondaryScanline
  <2>1. InFrame /\ Multiple(spos) /\ spos < total
    BY <1>20 DEF SecondaryScanline
  <2>2. \E k \in 0..lines : spos + swidth = k * width
    BY <1>20, <2>1, MultipleInFrame DEF SecondaryScanline
  <2>3. swidth > 0
    BY <1>20, <2>1, WidthAssumption DEF SecondaryScanline
  <2> QED
    BY <1>20, <2>1, <2>2, <2>3 DEF SecondaryScanline
<1>21. CASE SecondaryReadsFB
  BY <1>21 DEF SecondaryReadsFB
<1>22. CASE SecondaryReadDone
  BY <1>22 DEF SecondaryReadDone
<1>23. CASE SecondaryChunk
  BY <1>23, ChunkAssumption, ChunkBounds DEF SecondaryChunk
<1>24. CASE SecondaryPublish
  BY <1>24, ChunkAssumption DEF SecondaryPublish
<1>25. CASE SecondaryCapture
  BY <1>25 DEF SecondaryCapture, NoTime
<1>26. CASE SecondaryCheck
  <2>1. CASE Trailing
    BY <1>26, <2>1 DEF SecondaryCheck, SkipsWait, AfterBarrier
  <2>2. CASE ~Trailing
    <3>1. slineEnd <= total
      BY <1>26, <2>2, MultipleInFrame DEF SecondaryCheck
    <3>2. CASE spos < total
      BY <1>26, <2>2, <3>1, <3>2 DEF SecondaryCheck, SkipsWait, AfterBarrier
    <3>3. CASE spos >= total
      BY <1>26, <2>2, <3>1, <3>3 DEF SecondaryCheck, SkipsWait, AfterBarrier
    <3> QED
      BY <3>2, <3>3
  <2> QED
    BY <2>1, <2>2
<1>27. CASE SecondaryRendezvous
  <2>1. CASE spos < slineEnd
    BY <1>27, <2>1 DEF SecondaryRendezvous, AfterBarrier
  <2>2. CASE ~(spos < slineEnd)
    <3>1. spos = slineEnd
      BY <1>27, <2>2 DEF SecondaryRendezvous
    <3> QED
      BY <1>27, <2>2, <3>1 DEF SecondaryRendezvous, AfterBarrier
  <2> QED
    BY <2>1, <2>2
<1>28. CASE SecondaryExit
  BY <1>28 DEF SecondaryExit
<1>29. CASE WalkerKicked
  BY <1>29 DEF WalkerKicked
<1>30. CASE ServicePair
  BY <1>30 DEF ServicePair
<1>31. CASE WalkerStartsLine
  BY <1>31 DEF WalkerStartsLine, LineCompleted
<1>32. CASE WalkLine
  BY <1>32 DEF WalkLine
<1>33. CASE WalkerFinishes
  BY <1>33 DEF WalkerFinishes
<1>34. CASE WalkerExit
  BY <1>34 DEF WalkerExit
<1>35. CASE Stopped
  BY <1>35 DEF Stopped, vars
<1>36. CASE UNCHANGED vars
  BY <1>36 DEF vars
<1> HIDE DEF Multiple, IInv, TypeOK, ControlOK, PositionsOK, GeometryInv, MasterInv,
             SecondaryInv, WalkerInv, Trailing, OnTheWayBack, InFrame, Between, Kicking, OnLine, Joining,
             Kicked, mainVars, secVars, vdpVars, counters, params, channels,
             captures, deferred, pair
<1> QED
  BY <1>1, <1>2, <1>3, <1>4, <1>5, <1>6, <1>7, <1>8, <1>9, <1>10, <1>11, <1>12,
     <1>13, <1>14, <1>15, <1>16, <1>17, <1>18, <1>19, <1>20, <1>21, <1>22, <1>23,
     <1>24, <1>25, <1>26, <1>27, <1>28, <1>29, <1>30, <1>31, <1>32, <1>33, <1>34,
     <1>35, <1>36 DEF Next, Host, Main, Secondary, Walker

\* The walker's line.
LEMMA WalkerStep ==
  ASSUME IInv, [Next]_vars, ~overtaken'
  PROVE  WalkerInv'
<1> USE DEF IInv, TypeOK, ControlOK, PositionsOK, GeometryInv, MasterInv,
            SecondaryInv, WalkerInv, Trailing, OnTheWayBack, InFrame, Between, Kicking, OnLine, Joining,
            Kicked, mainVars, secVars, vdpVars, counters, params, channels,
            captures, deferred, pair
<1>1. CASE CallRunFrame
  BY <1>1 DEF CallRunFrame
<1>2. CASE OpenRenderer
  BY <1>2 DEF OpenRenderer
<1>3. CASE Close
  BY <1>3 DEF Close
<1>4. CASE Boundary
  BY <1>4 DEF Boundary, NoTime
<1>5. CASE StartFrame
  BY <1>5 DEF StartFrame, NoTime
<1>6. CASE KickVDP
  BY <1>6 DEF KickVDP
<1>7. CASE KickSecondary
  BY <1>7 DEF KickSecondary
<1>8. CASE LineStart
  BY <1>8 DEF LineStart, WalkerNear
<1>9. CASE MasterReadsFB
  BY <1>9 DEF MasterReadsFB
<1>10. CASE MasterReadDone
  BY <1>10 DEF MasterReadDone
<1>11. CASE MasterChunk
  BY <1>11 DEF MasterChunk
<1>12. CASE MasterPublish
  BY <1>12 DEF MasterPublish
<1>13. CASE MasterCapture
  BY <1>13 DEF MasterCapture, NoTime
<1>14. CASE MasterRendezvous
  BY <1>14 DEF MasterRendezvous, SecondaryReached
<1>15. CASE LineEnd
  BY <1>15 DEF LineEnd
<1>16. CASE JoinSecondary
  BY <1>16 DEF JoinSecondary
<1>17. CASE JoinVDP
  BY <1>17 DEF JoinVDP, WalkerDone
<1>18. CASE SecondaryKicked
  BY <1>18 DEF SecondaryKicked
<1>19. CASE SecondaryFrame
  BY <1>19 DEF SecondaryFrame
<1>20. CASE SecondaryScanline
  BY <1>20 DEF SecondaryScanline
<1>21. CASE SecondaryReadsFB
  BY <1>21 DEF SecondaryReadsFB
<1>22. CASE SecondaryReadDone
  BY <1>22 DEF SecondaryReadDone
<1>23. CASE SecondaryChunk
  BY <1>23 DEF SecondaryChunk
<1>24. CASE SecondaryPublish
  BY <1>24 DEF SecondaryPublish
<1>25. CASE SecondaryCapture
  BY <1>25 DEF SecondaryCapture, NoTime
<1>26. CASE SecondaryCheck
  BY <1>26 DEF SecondaryCheck, SkipsWait, AfterBarrier
<1>27. CASE SecondaryRendezvous
  BY <1>27 DEF SecondaryRendezvous, AfterBarrier
<1>28. CASE SecondaryExit
  BY <1>28 DEF SecondaryExit
<1>29. CASE WalkerKicked
  BY <1>29, CountAssumption DEF WalkerKicked
<1>30. CASE ServicePair
  BY <1>30 DEF ServicePair
<1>31. CASE WalkerStartsLine
  BY <1>31, WidthAssumption DEF WalkerStartsLine, LineCompleted
<1>32. CASE WalkLine
  BY <1>32 DEF WalkLine
<1>33. CASE WalkerFinishes
  BY <1>33 DEF WalkerFinishes
<1>34. CASE WalkerExit
  BY <1>34 DEF WalkerExit
<1>35. CASE Stopped
  BY <1>35 DEF Stopped, vars
<1>36. CASE UNCHANGED vars
  BY <1>36 DEF vars
<1> HIDE DEF IInv, TypeOK, ControlOK, PositionsOK, GeometryInv, MasterInv,
             SecondaryInv, WalkerInv, Trailing, OnTheWayBack, InFrame, Between, Kicking, OnLine, Joining,
             Kicked, mainVars, secVars, vdpVars, counters, params, channels,
             captures, deferred, pair
<1> QED
  BY <1>1, <1>2, <1>3, <1>4, <1>5, <1>6, <1>7, <1>8, <1>9, <1>10, <1>11, <1>12,
     <1>13, <1>14, <1>15, <1>16, <1>17, <1>18, <1>19, <1>20, <1>21, <1>22, <1>23,
     <1>24, <1>25, <1>26, <1>27, <1>28, <1>29, <1>30, <1>31, <1>32, <1>33, <1>34,
     <1>35, <1>36 DEF Next, Host, Main, Secondary, Walker

\* Flags stay Boolean.
LEMMA FlagsStep ==
  ASSUME IInv, [Next]_vars, ~overtaken'
  PROVE  FlagsOK'
<1> USE DEF IInv, TypeOK, FlagsOK, mainVars, secVars, vdpVars, counters, params,
            channels, captures, deferred, pair
<1>1. CASE CallRunFrame
  BY <1>1 DEF CallRunFrame
<1>2. CASE OpenRenderer
  BY <1>2 DEF OpenRenderer
<1>3. CASE Close
  BY <1>3 DEF Close
<1>4. CASE Boundary
  BY <1>4 DEF Boundary, NoTime
<1>5. CASE StartFrame
  BY <1>5 DEF StartFrame, NoTime
<1>6. CASE KickVDP
  BY <1>6 DEF KickVDP
<1>7. CASE KickSecondary
  BY <1>7 DEF KickSecondary
<1>8. CASE LineStart
  BY <1>8 DEF LineStart, WalkerNear
<1>9. CASE MasterReadsFB
  BY <1>9 DEF MasterReadsFB
<1>10. CASE MasterReadDone
  BY <1>10 DEF MasterReadDone
<1>11. CASE MasterChunk
  BY <1>11 DEF MasterChunk
<1>12. CASE MasterPublish
  BY <1>12 DEF MasterPublish
<1>13. CASE MasterCapture
  BY <1>13 DEF MasterCapture, NoTime
<1>14. CASE MasterRendezvous
  BY <1>14 DEF MasterRendezvous, SecondaryReached
<1>15. CASE LineEnd
  BY <1>15 DEF LineEnd
<1>16. CASE JoinSecondary
  BY <1>16 DEF JoinSecondary
<1>17. CASE JoinVDP
  BY <1>17 DEF JoinVDP, WalkerDone
<1>18. CASE SecondaryKicked
  BY <1>18 DEF SecondaryKicked
<1>19. CASE SecondaryFrame
  BY <1>19 DEF SecondaryFrame
<1>20. CASE SecondaryScanline
  BY <1>20 DEF SecondaryScanline
<1>21. CASE SecondaryReadsFB
  BY <1>21 DEF SecondaryReadsFB
<1>22. CASE SecondaryReadDone
  BY <1>22 DEF SecondaryReadDone
<1>23. CASE SecondaryChunk
  BY <1>23 DEF SecondaryChunk
<1>24. CASE SecondaryPublish
  BY <1>24 DEF SecondaryPublish
<1>25. CASE SecondaryCapture
  BY <1>25 DEF SecondaryCapture, NoTime
<1>26. CASE SecondaryCheck
  BY <1>26 DEF SecondaryCheck, SkipsWait, AfterBarrier
<1>27. CASE SecondaryRendezvous
  BY <1>27 DEF SecondaryRendezvous, AfterBarrier
<1>28. CASE SecondaryExit
  BY <1>28 DEF SecondaryExit
<1>29. CASE WalkerKicked
  BY <1>29 DEF WalkerKicked
<1>30. CASE ServicePair
  BY <1>30 DEF ServicePair
<1>31. CASE WalkerStartsLine
  BY <1>31 DEF WalkerStartsLine, LineCompleted
<1>32. CASE WalkLine
  BY <1>32 DEF WalkLine
<1>33. CASE WalkerFinishes
  BY <1>33 DEF WalkerFinishes
<1>34. CASE WalkerExit
  BY <1>34 DEF WalkerExit
<1>35. CASE Stopped
  BY <1>35 DEF Stopped, vars
<1>36. CASE UNCHANGED vars
  BY <1>36 DEF vars
<1> HIDE DEF IInv, TypeOK, FlagsOK, mainVars, secVars, vdpVars, counters, params,
             channels, captures, deferred, pair
<1> QED
  BY <1>1, <1>2, <1>3, <1>4, <1>5, <1>6, <1>7, <1>8, <1>9, <1>10, <1>11, <1>12,
     <1>13, <1>14, <1>15, <1>16, <1>17, <1>18, <1>19, <1>20, <1>21, <1>22, <1>23,
     <1>24, <1>25, <1>26, <1>27, <1>28, <1>29, <1>30, <1>31, <1>32, <1>33, <1>34,
     <1>35, <1>36 DEF Next, Host, Main, Secondary, Walker

\* Every step keeps the inductive invariant.
LEMMA InductiveStep ==
  ASSUME IInv, [Next]_vars, ~overtaken'
  PROVE  IInv'
<1>1. TypeOK'
  BY ControlStep, PositionsStep, FlagsStep DEF TypeOK
<1> QED
  BY <1>1, GeometryStep, MasterStep, SecondaryStep, WalkerStep DEF IInv

\* Once overtaken, always overtaken: it is history.
LEMMA Latched ==
  ASSUME [Next]_vars, overtaken
  PROVE  overtaken'
<1>1. CASE StartFrame
  BY <1>1 DEF StartFrame
<1>2. CASE Main /\ ~StartFrame
  BY <1>2 DEF Main, Boundary, KickVDP, KickSecondary, LineStart, MasterReadsFB,
     MasterReadDone, MasterChunk, MasterPublish, MasterCapture, MasterRendezvous,
     LineEnd, JoinSecondary, JoinVDP, params
<1>3. CASE Secondary
  BY <1>3 DEF Secondary, SecondaryKicked, SecondaryFrame, SecondaryScanline,
     SecondaryReadsFB, SecondaryReadDone, SecondaryChunk, SecondaryPublish,
     SecondaryCapture, SecondaryCheck, SecondaryRendezvous, SecondaryExit, params
<1>4. CASE Walker \/ Host \/ Stopped \/ UNCHANGED vars
  BY <1>4 DEF Walker, WalkerKicked, ServicePair, WalkerStartsLine, WalkLine,
     WalkerFinishes, WalkerExit, Host, CallRunFrame, OpenRenderer, Close, Stopped,
     vars, params
<1> QED
  BY <1>1, <1>2, <1>3, <1>4 DEF Next

SafeInv == overtaken \/ IInv

\* The walk keeps its inductive invariant until a longer frame overtakes the
\* secondary.
THEOREM Inductive == Spec => []SafeInv
<1>1. Init => SafeInv
  BY InitInv DEF SafeInv
<1>2. SafeInv /\ [Next]_vars => SafeInv'
  BY InductiveStep, Latched DEF SafeInv
<1> QED
  BY <1>1, <1>2, PTL DEF Spec

\* Type correctness: positions stay inside the line and the frame, and no job
\* channel ever holds more than the one message it has room for.
THEOREM TypeCorrect == Spec => [](overtaken \/ TypeOK)
<1>1. SafeInv => overtaken \/ TypeOK
  BY DEF SafeInv, IInv
<1> QED
  BY <1>1, Inductive, PTL

\* At a frame boundary the VDP worker is parked, no message is in flight, and
\* all the secondary may have left is its last capture and the way back: what
\* systemReset and the plain frame parameters of RunFrame can rely on, which is
\* less than its comment says.
THEOREM Quiet == Spec => []QuietBoundary
<1>1. SafeInv => QuietBoundary
  BY AtBoundary DEF SafeInv, QuietBoundary
<1> QED
  BY <1>1, Inductive, PTL

\* The two SH-2 clocks stay within a chunk of each other (sh2Barrier).
THEOREM Skew == Spec => []ChunkSkew
<1>1. ASSUME IInv, InFrame
      PROVE  masterCycles <= secondaryCycles + Chunk
  <2> USE <1>1 DEF IInv, TypeOK, ControlOK, PositionsOK, MasterInv, InFrame,
                   Kicking, Joining
  <2>1. CASE Kicking \/ Joining
    BY <2>1, ChunkAssumption
  <2>2. CASE main \in {"lineStart", "chunk", "waitPair", "publish"}
    BY <2>2, ChunkAssumption
  <2>3. CASE main \in {"capture", "rendezvous", "lineEnd"}
    BY <2>3
  <2> QED
    BY <2>1, <2>2, <2>3
<1>2. IInv => ChunkSkew
  BY <1>1 DEF IInv, SecondaryInv, ChunkSkew
<1>3. SafeInv => ChunkSkew
  BY <1>2 DEF SafeInv, ChunkSkew
<1> QED
  BY <1>3, Inductive, PTL

\* A CPU leads the VDP walker by no more than the slack, and the secondary by
\* no more than a chunk beyond it (RunFrame's spinWait on vdpLinesWalked).
THEOREM SlackHolds == Spec => []SlackBound
<1>1. ASSUME IInv, InFrame
      PROVE  masterCycles <= (vdpLinesWalked + Slack) * width
  <2> USE <1>1, SlackAssumption
      DEF IInv, TypeOK, ControlOK, PositionsOK, MasterInv, GeometryInv, InFrame
  <2>1. CASE Kicking
    <3>1. (vdpLinesWalked + Slack) * width \in Nat
      OBVIOUS
    <3> QED
      BY <2>1, <3>1
  <2>2. CASE main = "lineStart" \/ Joining
    <3>1. masterCycles = line * width
      BY <2>2, NextLine DEF Joining
    <3> QED
      BY <2>2, <3>1, ProductMonotone
  <2>3. CASE OnLine /\ main # "lineStart"
    <3>1. masterCycles <= line * width + width
      BY <2>3 DEF OnLine
    <3>2. (line + 1) * width <= (vdpLinesWalked + Slack) * width
      BY <2>3, ProductMonotone
    <3> QED
      BY <3>1, <3>2, NextLine
  <2> QED
    BY <2>1, <2>2, <2>3 DEF Kicking, OnLine, Joining
<1>2. IInv => SlackBound
  <2> SUFFICES ASSUME IInv, InFrame
               PROVE  /\ masterCycles <= (vdpLinesWalked + Slack) * width
                      /\ secondaryCycles <= (vdpLinesWalked + Slack) * width + Chunk
    BY DEF SlackBound
  <2>1. secondaryCycles <= masterCycles + Chunk
    BY DEF IInv, SecondaryInv
  <2>2. /\ masterCycles \in Nat /\ secondaryCycles \in Nat
        /\ (vdpLinesWalked + Slack) * width \in Nat
    BY SlackAssumption DEF IInv, TypeOK, PositionsOK
  <2> QED
    BY <1>1, <2>1, <2>2, ChunkAssumption
<1>3. SafeInv => SlackBound
  BY <1>2 DEF SafeInv, SlackBound
<1> QED
  BY <1>3, Inductive, PTL

\* While VDP1 works on a line both CPUs have completed that line (waitLineEnd).
THEOREM Behind == Spec => []WalkerBehind
<1>1. IInv => WalkerBehind
  BY DEF IInv, WalkerInv, WalkerBehind, Kicked, OnLine, Joining, InFrame
<1>2. SafeInv => WalkerBehind
  BY <1>1 DEF SafeInv, WalkerBehind
<1> QED
  BY <1>2, Inductive, PTL


\* Every step of the walk is a step of the frame clock or leaves it alone.
LEMMA ClockStep ==
  ASSUME IInv, [Next]_vars, ~overtaken'
  PROVE  [Clock!Next]_Clock!vars
<1> USE DEF InFrame, Clock!vars, mainVars, secVars, vdpVars, counters, params,
            channels, captures, deferred, pair
<1>1. CASE CallRunFrame
  BY <1>1 DEF CallRunFrame
<1>2. CASE OpenRenderer
  BY <1>2 DEF OpenRenderer
<1>3. CASE Close
  BY <1>3 DEF Close
<1>4. CASE Boundary
  BY <1>4 DEF Boundary, NoTime
<1>5. CASE StartFrame
  <2>1. overtaken = FALSE /\ overtaken' = FALSE
    BY <1>5, Latched DEF StartFrame, IInv, TypeOK, FlagsOK
  <2>2. Clock!StartFrame
    BY <1>5, <2>1 DEF StartFrame, Clock!StartFrame
  <2> QED
    BY <2>2 DEF Clock!Next
<1>6. CASE KickVDP
  BY <1>6 DEF KickVDP
<1>7. CASE KickSecondary
  BY <1>7 DEF KickSecondary
<1>8. CASE LineStart
  BY <1>8 DEF LineStart, WalkerNear
<1>9. CASE MasterReadsFB
  BY <1>9 DEF MasterReadsFB
<1>10. CASE MasterReadDone
  BY <1>10 DEF MasterReadDone
<1>11. CASE MasterChunk
  BY <1>11 DEF MasterChunk
<1>12. CASE MasterPublish
  <2> USE DEF IInv, TypeOK, ControlOK, PositionsOK, GeometryInv, MasterInv, OnLine
  <2>1. /\ masterCycles < pos + cyc /\ pos + cyc <= masterCycles + Chunk
        /\ masterCycles <= secondaryCycles
        /\ pos + cyc \in Nat /\ masterCycles \in Nat /\ width \in Nat
    BY <1>12 DEF MasterPublish
  <2>2. pos + cyc <= line * width + width /\ line < lines
    BY <1>12 DEF MasterPublish
  <2>3. pos + cyc <= total
    BY <2>1, <2>2, LineInFrame
  <2>4. pos + cyc <= (vdpLinesWalked + Slack) * width
    <3>1. (line + 1) * width <= (vdpLinesWalked + Slack) * width
      BY <1>12, ProductMonotone, SlackAssumption DEF MasterPublish
    <3>2. (line + 1) * width = line * width + width
      BY NextLine
    <3>3. (vdpLinesWalked + Slack) * width \in Nat
      BY SlackAssumption
    <3> QED
      BY <2>1, <2>2, <3>1, <3>2, <3>3
  <2>5. pos + cyc \in (masterCycles + 1)..(masterCycles + Chunk)
    BY <2>1, ChunkAssumption
  <2>6. Clock!MasterAdvance
    BY <1>12, <2>1, <2>3, <2>4, <2>5 DEF MasterPublish, Clock!MasterAdvance,
       Clock!Total
  <2> QED
    BY <2>6 DEF Clock!Next
<1>13. CASE MasterCapture
  BY <1>13 DEF MasterCapture, NoTime
<1>14. CASE MasterRendezvous
  BY <1>14 DEF MasterRendezvous, SecondaryReached
<1>15. CASE LineEnd
  BY <1>15 DEF LineEnd
<1>16. CASE JoinSecondary
  BY <1>16 DEF JoinSecondary
<1>17. CASE JoinVDP
  <2>1. Clock!EndFrame
    BY <1>17 DEF JoinVDP, WalkerDone, Clock!EndFrame, Clock!Total, IInv, TypeOK,
             PositionsOK, GeometryInv, MasterInv, WalkerInv, Joining
  <2> QED
    BY <2>1 DEF Clock!Next
<1>18. CASE SecondaryKicked
  BY <1>18 DEF SecondaryKicked
<1>19. CASE SecondaryFrame
  BY <1>19 DEF SecondaryFrame
<1>20. CASE SecondaryScanline
  BY <1>20 DEF SecondaryScanline
<1>21. CASE SecondaryReadsFB
  BY <1>21 DEF SecondaryReadsFB
<1>22. CASE SecondaryReadDone
  BY <1>22 DEF SecondaryReadDone
<1>23. CASE SecondaryChunk
  BY <1>23 DEF SecondaryChunk
<1>24. CASE SecondaryPublish
  <2> USE DEF IInv, TypeOK, ControlOK, PositionsOK, GeometryInv, MasterInv,
              SecondaryInv
  <2>1. slineEnd \in Nat /\ slineEnd <= total
    BY <1>24, MultipleInFrame DEF SecondaryPublish
  <2>2. /\ secondaryCycles < spos /\ spos <= secondaryCycles + Chunk
        /\ spos <= total /\ secondaryCycles <= masterCycles
    BY <1>24, <2>1 DEF SecondaryPublish
  <2>3. InFrame
    BY <1>24, <2>2 DEF SecondaryPublish, Kicked, OnLine, Joining, Between
  <2>4. spos \in (secondaryCycles + 1)..(secondaryCycles + Chunk)
    BY <2>2, ChunkAssumption
  <2>5. Clock!SecondaryAdvance
    BY <1>24, <2>2, <2>3, <2>4 DEF SecondaryPublish, Clock!SecondaryAdvance,
       Clock!Total
  <2> QED
    BY <2>5 DEF Clock!Next
<1>25. CASE SecondaryCapture
  BY <1>25 DEF SecondaryCapture, NoTime
<1>26. CASE SecondaryCheck
  BY <1>26 DEF SecondaryCheck, SkipsWait, AfterBarrier
<1>27. CASE SecondaryRendezvous
  BY <1>27 DEF SecondaryRendezvous, AfterBarrier
<1>28. CASE SecondaryExit
  BY <1>28 DEF SecondaryExit
<1>29. CASE WalkerKicked
  BY <1>29 DEF WalkerKicked
<1>30. CASE ServicePair
  BY <1>30 DEF ServicePair
<1>31. CASE WalkerStartsLine
  BY <1>31 DEF WalkerStartsLine, LineCompleted
<1>32. CASE WalkLine
  <2>1. Clock!WalkLine
    BY <1>32 DEF WalkLine, Clock!WalkLine, IInv, TypeOK, PositionsOK, WalkerInv,
             Kicked, OnLine, Joining
  <2> QED
    BY <2>1 DEF Clock!Next
<1>33. CASE WalkerFinishes
  BY <1>33 DEF WalkerFinishes
<1>34. CASE WalkerExit
  BY <1>34 DEF WalkerExit
<1>35. CASE Stopped
  BY <1>35 DEF Stopped, vars
<1>36. CASE UNCHANGED vars
  BY <1>36 DEF vars
<1> HIDE DEF InFrame, Clock!vars, mainVars, secVars, vdpVars, counters, params,
             channels, captures, deferred, pair
<1> QED
  BY <1>1, <1>2, <1>3, <1>4, <1>5, <1>6, <1>7, <1>8, <1>9, <1>10, <1>11, <1>12,
     <1>13, <1>14, <1>15, <1>16, <1>17, <1>18, <1>19, <1>20, <1>21, <1>22, <1>23,
     <1>24, <1>25, <1>26, <1>27, <1>28, <1>29, <1>30, <1>31, <1>32, <1>33, <1>34,
     <1>35, <1>36
  DEF Next, Host, Main, Secondary, Walker

\* The three goroutines implement the frame clock: bounded skew between the
\* CPUs, a walker behind both and never too far behind, and frames that end
\* only when all three have covered them.
THEOREM Refinement == Spec => ImplementsClock
<1>1. Init => Clock!Init
  BY DEF Init, Clock!Init, InFrame
<1>2. SafeInv /\ [Next]_vars => [Clock!Next]_Clock!vars
  <2> SUFFICES ASSUME SafeInv, [Next]_vars PROVE [Clock!Next]_Clock!vars
    OBVIOUS
  <2>1. CASE overtaken'
    BY <2>1 DEF Clock!Next, Clock!Overtake
  <2>2. CASE ~overtaken'
    BY <2>2, Latched, ClockStep DEF SafeInv
  <2> QED
    BY <2>1, <2>2
<1> QED
  BY <1>1, <1>2, Inductive, PTL DEF Spec, ImplementsClock, Clock!Spec
-----------------------------------------------------------------------------
(* The captures.                                                           *)

\* How far each CPU's chunks have come: what it published when it is not in a
\* frame, its own position when it is.
SecondaryAt == IF sec \in {"parked", "exited"} \/ Trailing THEN secondaryCycles ELSE spos
MasterAt == IF Between THEN masterCycles ELSE pos + cyc

\* A pending write is not older than the chunk its reader last latched at and
\* the chunk it was written in; between a chunk and the latch after it there is
\* one more.
Late(c) == IF c \in {"publish", "capture"} THEN 2 * Chunk ELSE Chunk
MinitInv == minitPending => SecondaryAt - minitAt <= Late(sec)
SinitInv == sinitPending => MasterAt - sinitAt <= Late(main)
CaptureInv == MinitInv /\ SinitInv
SafeCapture == overtaken \/ CaptureInv

\* On its way back the secondary is at the start of the new frame.
LEMMA TrailingAtStart ==
  ASSUME IInv
  PROVE  /\ Trailing => secondaryCycles = 0
         /\ sec \in {"scanline", "chunk", "waitPair", "publish", "rendezvous"} => ~Trailing
BY DEF IInv, MasterInv, SecondaryInv, Trailing, Kicking, OnTheWayBack

\* A write falls at or after what its writer has published; the reader has
\* come a chunk further at most, and two before its next latch.
LEMMA ReaderNear ==
  ASSUME IInv
  PROVE  /\ main = "chunk" => SecondaryAt - masterCycles <= Late(sec) /\ masterCycles = pos + cyc
         /\ sec = "chunk" => MasterAt - secondaryCycles <= Late(main) /\ secondaryCycles = spos
<1> USE ChunkAssumption DEF IInv, TypeOK, ControlOK, PositionsOK, SecondaryInv, MasterInv,
        GeometryInv, InFrame, Between, Late, SecondaryAt, MasterAt, Joining, Kicking
<1>0. Trailing => secondaryCycles = 0
  BY TrailingAtStart
<1>1. ASSUME main = "chunk" PROVE SecondaryAt - masterCycles <= Late(sec)
  <2>1. CASE sec \in {"parked", "exited"} BY <1>1, <2>1
  <2>2. CASE Trailing BY <1>0, <1>1, <2>2
  <2>3. CASE ~Trailing /\ sec = "publish" BY <1>1, <2>3
  <2>4. CASE ~Trailing /\ sec \notin {"parked", "exited", "publish"} BY <1>1, <2>4
  <2> QED BY <2>1, <2>2, <2>3, <2>4
<1>2. ASSUME sec = "chunk" PROVE MasterAt - secondaryCycles <= Late(main)
  <2>1. ~Between BY <1>2, MultipleInFrame
  <2>2. CASE main = "publish" BY <1>2, <2>1, <2>2
  <2>3. CASE main # "publish" BY <1>2, <2>1, <2>3
  <2> QED BY <2>2, <2>3
<1>3. main = "chunk" => masterCycles = pos + cyc OBVIOUS
<1>4. sec = "chunk" => secondaryCycles = spos BY TrailingAtStart
<1> QED BY <1>1, <1>2, <1>3, <1>4

\* The steps that keep the captures, and one CPU's own position.
LEMMA HostWalkerKeep ==
  ASSUME Host \/ Walker \/ Stopped \/ UNCHANGED vars
  PROVE  /\ UNCHANGED <<captures, counters>> \/ WalkLine
         /\ UNCHANGED <<captures, masterCycles, secondaryCycles, pos, cyc, secVars>>
         /\ Between' <=> Between
         /\ Trailing' <=> Trailing
         /\ main # main' => Between
BY DEF Host, CallRunFrame, OpenRenderer, Close, Walker, WalkerKicked, ServicePair,
       WalkerStartsLine, WalkLine, WalkerFinishes, WalkerExit, Stopped, vars, mainVars,
       secVars, counters, channels, captures, Between, Trailing

\* A step of the master keeps the bound on MINIT.
LEMMA MasterMinit ==
  ASSUME IInv, MinitInv, Main, ~overtaken'
  PROVE  MinitInv'
<1> USE DEF MinitInv, SecondaryAt, Late
<1>1. CASE Boundary
  <2>1. UNCHANGED <<secVars, counters>> /\ (Trailing' <=> Trailing)
    BY <1>1 DEF Boundary, channels, secVars, Trailing
  <2> QED BY <1>1, <2>1 DEF Boundary, captures, secVars, counters
<1>2. CASE StartFrame
  <2>1. SecondaryAt = total
    <3>1. secondaryCycles = total /\ ~Trailing
      BY <1>2 DEF StartFrame, IInv, SecondaryInv, MasterInv, Between, Trailing, Kicked, OnLine,
         Joining
    <3>2. sec = "parked" \/ spos = total
      BY <1>2, AtBoundary DEF StartFrame
    <3> QED BY <3>1, <3>2
  <2>2. total \in Nat /\ minitAt \in Int BY DEF IInv, TypeOK, PositionsOK
  <2>3. SecondaryAt' = 0 /\ sec' = sec /\ minitPending' = minitPending
    BY <1>2 DEF StartFrame, secVars, Trailing
  <2>4. minitPending => minitAt' = minitAt - total
    BY <1>2 DEF StartFrame
  <2>5. Late(sec) \in Int /\ Late(sec)' = Late(sec)
    BY <2>3, ChunkAssumption
  <2> HIDE DEF SecondaryAt, Late
  <2> QED BY <2>1, <2>2, <2>3, <2>4, <2>5
<1>3. CASE MasterChunk
  <2>1. UNCHANGED <<sec, spos, secondaryCycles>> /\ (Trailing' <=> Trailing)
    BY <1>3 DEF MasterChunk, secVars, counters, channels, Trailing
  <2>2. CASE UNCHANGED <<minitPending, minitAt>> BY <2>1, <2>2
  <2>3. CASE minitPending /\ minitAt' = minitAt BY <2>1, <2>3
  <2>4. CASE minitAt' \in (pos + cyc)..(pos + cyc' - 1)
    <3>1. SecondaryAt - masterCycles <= Late(sec) /\ masterCycles = pos + cyc
      BY <1>3, ReaderNear DEF MasterChunk
    <3>2. /\ masterCycles \in Nat /\ SecondaryAt \in Int /\ minitAt' \in Int
          /\ minitAt' >= masterCycles
      BY <2>4, <3>1 DEF IInv, TypeOK, PositionsOK
    <3>3. Late(sec) \in Int BY ChunkAssumption
    <3>4. SecondaryAt - minitAt' <= Late(sec)
      <4> HIDE DEF SecondaryAt, Late
      <4> QED BY <3>1, <3>2, <3>3
    <3>5. SecondaryAt' = SecondaryAt /\ Late(sec)' = Late(sec)
      BY <2>1
    <3> HIDE DEF SecondaryAt, Late
    <3> QED BY <3>4, <3>5
  <2> QED BY <1>3, <2>2, <2>3, <2>4 DEF MasterChunk
<1>4. CASE ~(Boundary \/ StartFrame \/ MasterChunk)
  <2>1. /\ UNCHANGED <<minitPending, minitAt, sec, spos, secondaryCycles>>
        /\ Trailing' <=> Trailing
    BY <1>4 DEF Main, KickVDP, KickSecondary, LineStart, MasterReadsFB, MasterReadDone,
       MasterPublish, MasterCapture, MasterRendezvous, LineEnd, JoinSecondary, JoinVDP,
       secVars, counters, channels, captures, Trailing
  <2> QED BY <2>1
<1> QED BY <1>1, <1>2, <1>3, <1>4

\* A step of the secondary keeps the bound on MINIT.
LEMMA SecondaryMinit ==
  ASSUME IInv, MinitInv, Secondary
  PROVE  MinitInv'
<1> USE DEF MinitInv, SecondaryAt, Late
<1>0. /\ spos \in Nat /\ slineEnd \in Nat /\ minitAt \in Int /\ secondaryCycles \in Nat
      /\ Chunk \in Nat \ {0}
  BY ChunkAssumption DEF IInv, TypeOK, PositionsOK
<1>1. CASE SecondaryChunk
  <2>1. slineEnd - spos \in Nat \ {0}
    BY <1>0, <1>1 DEF SecondaryChunk, IInv, SecondaryInv
  <2>2. NextChunk(slineEnd - spos) \in 1..Chunk BY <2>1, ChunkBounds
  <2>3. /\ spos' = spos + NextChunk(slineEnd - spos)
        /\ sec = "chunk" /\ sec' = "publish"
        /\ UNCHANGED <<minitPending, minitAt, mainVars, channels>>
    BY <1>1 DEF SecondaryChunk
  <2>4. ~Trailing /\ ~Trailing'
    BY <2>3, TrailingAtStart DEF Trailing, mainVars, channels
  <2>5. SecondaryAt = spos /\ SecondaryAt' = spos'
    BY <2>3, <2>4
  <2> HIDE DEF SecondaryAt
  <2> QED BY <1>0, <2>2, <2>3, <2>5
<1>2. CASE SecondaryCapture BY <1>2 DEF SecondaryCapture
<1>3. CASE SecondaryKicked
  <2>1. secondaryCycles = 0 BY <1>3 DEF SecondaryKicked, IInv, SecondaryInv
  <2>2. ~Trailing' BY <1>3 DEF SecondaryKicked, IInv, SecondaryInv, Trailing, mainVars, Kicked,
                           OnLine, Joining
  <2> QED BY <1>0, <1>3, <2>1, <2>2 DEF SecondaryKicked, counters, captures
<1>4. CASE SecondaryFrame
  <2>1. /\ UNCHANGED <<mainVars, channels, counters, captures>>
        /\ sec = "frame" /\ sec' \in {"scanline", "parked"}
        /\ sec' = "scanline" => spos' = spos
        /\ sec' = "scanline" => spos < total
    BY <1>4 DEF SecondaryFrame
  <2>2. SecondaryAt = secondaryCycles
    BY <2>1 DEF IInv, SecondaryInv
  <2>3. sec' = "scanline" => ~Trailing
    BY <1>0, <2>1 DEF IInv, SecondaryInv, TypeOK, PositionsOK
  <2>4. sec' = "scanline" => ~Trailing'
    BY <2>1, <2>3 DEF Trailing, mainVars, channels
  <2>5. sec' = "scanline" => secondaryCycles = spos
    BY <2>1, <2>3 DEF IInv, SecondaryInv
  <2>6. SecondaryAt' = secondaryCycles /\ Late(sec') = Late(sec)
    BY <2>1, <2>4, <2>5 DEF counters
  <2>7. UNCHANGED <<minitPending, minitAt>>
    BY <2>1 DEF captures
  <2>8. SecondaryAt' = SecondaryAt /\ Late(sec)' = Late(sec)
    BY <2>2, <2>6
  <2> HIDE DEF SecondaryAt, Late
  <2> QED BY <2>7, <2>8
<1>5. CASE SecondaryExit BY <1>5 DEF SecondaryExit, counters, captures
<1>6. CASE SecondaryPublish \/ SecondaryScanline \/ SecondaryReadsFB \/ SecondaryReadDone
           \/ SecondaryCheck \/ SecondaryRendezvous
  <2>1. /\ UNCHANGED <<mainVars, channels, captures, spos>>
        /\ sec \notin {"parked", "exited"} /\ sec' \notin {"parked", "exited"}
        /\ sec \in {"publish", "capture"} <=> sec' \in {"publish", "capture"}
        /\ sec # "publish" => UNCHANGED counters
    BY <1>6 DEF SecondaryPublish, SecondaryScanline, SecondaryReadsFB, SecondaryReadDone,
                SecondaryCheck, SecondaryRendezvous, AfterBarrier
  <2>2. Trailing' <=> Trailing
    BY <2>1 DEF Trailing, mainVars, channels
  <2>3. Trailing => UNCHANGED counters
    BY <2>1, TrailingAtStart
  <2>4. SecondaryAt' = SecondaryAt
    BY <2>1, <2>2, <2>3 DEF counters
  <2>5. UNCHANGED <<minitPending, minitAt>> /\ Late(sec)' = Late(sec)
    BY <2>1 DEF captures
  <2> HIDE DEF SecondaryAt, Late
  <2> QED BY <2>4, <2>5
<1> QED BY <1>1, <1>2, <1>3, <1>4, <1>5, <1>6 DEF Secondary

\* A step of the secondary keeps the bound on SINIT.
LEMMA SecondarySinit ==
  ASSUME IInv, SinitInv, Secondary
  PROVE  SinitInv'
<1> USE DEF SinitInv, MasterAt, Late, Between
<1>1. CASE SecondaryChunk
  <2>1. UNCHANGED <<main, pos, cyc, masterCycles>> BY <1>1 DEF SecondaryChunk, mainVars, counters
  <2>2. CASE UNCHANGED <<sinitPending, sinitAt>> BY <2>1, <2>2
  <2>3. CASE sinitPending /\ sinitAt' = sinitAt BY <2>1, <2>3
  <2>4. CASE sinitAt' \in spos..(spos' - 1)
    <3>1. MasterAt - secondaryCycles <= Late(main) /\ secondaryCycles = spos
      BY <1>1, ReaderNear DEF SecondaryChunk
    <3>2. /\ secondaryCycles \in Nat /\ MasterAt \in Int /\ sinitAt' \in Int
          /\ sinitAt' >= secondaryCycles
      BY <2>4, <3>1 DEF IInv, TypeOK, PositionsOK
    <3>3. Late(main) \in Int BY ChunkAssumption
    <3>4. MasterAt - sinitAt' <= Late(main)
      <4> HIDE DEF MasterAt, Late
      <4> QED BY <3>1, <3>2, <3>3
    <3> QED BY <2>1, <3>4
  <2> QED BY <1>1, <2>2, <2>3, <2>4 DEF SecondaryChunk
<1>2. CASE ~SecondaryChunk
  <2>1. UNCHANGED <<sinitPending, sinitAt, main, pos, cyc, masterCycles>>
    BY <1>2 DEF Secondary, SecondaryKicked, SecondaryFrame, SecondaryScanline, SecondaryReadsFB,
       SecondaryReadDone, SecondaryPublish, SecondaryCapture, SecondaryCheck,
       SecondaryRendezvous, SecondaryExit, mainVars, counters, captures
  <2> QED BY <2>1
<1> QED BY <1>1, <1>2

\* A step of the master keeps the bound on SINIT.
LEMMA MasterSinit ==
  ASSUME IInv, SinitInv, Main, ~overtaken'
  PROVE  SinitInv'
<1> USE DEF SinitInv, MasterAt, Late, Between
<1>0. /\ pos \in Nat /\ cyc \in Nat /\ width \in Nat /\ sinitAt \in Int /\ masterCycles \in Nat
      /\ total \in Nat /\ Chunk \in Nat \ {0}
  BY ChunkAssumption DEF IInv, TypeOK, PositionsOK
<1>1. CASE Boundary BY <1>1 DEF Boundary, captures, counters
<1>2. CASE StartFrame
  <2>1. masterCycles = total /\ pos = 0 /\ cyc = 0
    BY <1>0, <1>2 DEF StartFrame, IInv, MasterInv, GeometryInv
  <2> QED BY <1>0, <1>2, <2>1 DEF StartFrame
<1>3. CASE MasterChunk
  <2>1. width - cyc \in Nat \ {0}
    BY <1>0, <1>3 DEF MasterChunk, IInv, MasterInv
  <2>2. NextChunk(width - cyc) \in 1..Chunk BY <2>1, ChunkBounds
  <2> QED BY <1>0, <1>3, <2>2 DEF MasterChunk
<1>4. CASE MasterCapture BY <1>4 DEF MasterCapture
<1>5. CASE LineEnd
  <2>1. cyc = width BY <1>5 DEF LineEnd, IInv, MasterInv
  <2> QED BY <1>0, <1>5, <2>1 DEF LineEnd, captures
<1>6. CASE JoinVDP
  <2>1. masterCycles = total /\ line = lines /\ cyc = 0
    BY <1>6 DEF JoinVDP, IInv, MasterInv, GeometryInv, Joining
  <2>2. pos = lines * width /\ total = width * lines /\ lines \in Nat
    BY <2>1 DEF IInv, TypeOK, PositionsOK, GeometryInv
  <2>3. masterCycles = pos + cyc BY <1>0, <2>1, <2>2
  <2> QED BY <1>0, <1>6, <2>3 DEF JoinVDP, captures, counters
<1>7. CASE KickVDP \/ KickSecondary \/ LineStart \/ JoinSecondary
  BY <1>7 DEF KickVDP, KickSecondary, LineStart, JoinSecondary, captures
<1>8. CASE MasterReadsFB \/ MasterReadDone
  BY <1>8 DEF MasterReadsFB, MasterReadDone, captures
<1>9. CASE MasterPublish \/ MasterRendezvous
  BY <1>9 DEF MasterPublish, MasterRendezvous, captures
<1> QED BY <1>1, <1>2, <1>3, <1>4, <1>5, <1>6, <1>7, <1>8, <1>9 DEF Main

LEMMA CaptureStep ==
  ASSUME IInv, CaptureInv, [Next]_vars, ~overtaken'
  PROVE  CaptureInv'
<1> USE DEF CaptureInv
<1>1. CASE Main BY <1>1, MasterMinit, MasterSinit
<1>2. CASE Secondary BY <1>2, SecondaryMinit, SecondarySinit
<1>3. CASE Host \/ Walker \/ Stopped \/ UNCHANGED vars
  <2>1. /\ UNCHANGED <<captures, masterCycles, secondaryCycles, pos, cyc, secVars>>
        /\ Between' <=> Between
        /\ Trailing' <=> Trailing
        /\ main # main' => Between
    BY <1>3, HostWalkerKeep
  <2>2. MinitInv' BY <2>1 DEF MinitInv, SecondaryAt, Late, captures, secVars
  <2>3. SinitInv' BY <2>1 DEF SinitInv, MasterAt, Late, captures, Between
  <2> QED BY <2>2, <2>3
<1> QED BY <1>1, <1>2, <1>3 DEF Next

\* A MINIT or SINIT the peer writes is latched within two chunks of the write,
\* across the frame boundary as well (sh2Barrier's capture after its publish).
THEOREM CapturesInTime == Spec => CaptureWithinTwoChunks
<1>1. Init => SafeCapture BY DEF Init, SafeCapture, CaptureInv, MinitInv, SinitInv
<1>2. SafeInv /\ SafeCapture /\ [Next]_vars => SafeCapture'
  BY CaptureStep, Latched DEF SafeInv, SafeCapture
<1>3. SafeInv /\ SafeCapture
        => [/\ (sec = "capture" /\ sec' = "check" /\ minitPending /\ ~overtaken)
                  => SecondaryNow - minitAt <= 2 * Chunk
            /\ (main = "capture" /\ main' # "capture" /\ sinitPending /\ ~overtaken)
                  => pos + cyc - sinitAt <= 2 * Chunk]_vars
  <2> SUFFICES ASSUME IInv, MinitInv, SinitInv
               PROVE  /\ (sec = "capture" /\ minitPending) => SecondaryNow - minitAt <= 2 * Chunk
                      /\ (main = "capture" /\ sinitPending) => pos + cyc - sinitAt <= 2 * Chunk
    BY DEF SafeInv, SafeCapture, CaptureInv
  <2>1. sec = "capture" => SecondaryAt = SecondaryNow /\ Late(sec) = 2 * Chunk
    BY TrailingAtStart, Zenon DEF SecondaryAt, SecondaryNow, Late
  <2>2. main = "capture" => MasterAt = pos + cyc /\ Late(main) = 2 * Chunk
    BY Zenon DEF MasterAt, Late, Between
  <2>3. (sec = "capture" /\ minitPending) => SecondaryNow - minitAt <= 2 * Chunk
    BY <2>1, Zenon DEF MinitInv
  <2>4. (main = "capture" /\ sinitPending) => pos + cyc - sinitAt <= 2 * Chunk
    <3> HIDE DEF MasterAt, Late
    <3>1. SUFFICES ASSUME main = "capture", sinitPending
                   PROVE  pos + cyc - sinitAt <= 2 * Chunk
      OBVIOUS
    <3>2. MasterAt - sinitAt <= Late(main) BY <3>1 DEF SinitInv
    <3>3. MasterAt = pos + cyc /\ Late(main) = 2 * Chunk BY <2>2, <3>1
    <3>4. pos \in Nat /\ cyc \in Nat /\ sinitAt \in Int /\ Chunk \in Nat
      BY ChunkAssumption DEF IInv, TypeOK, PositionsOK
    <3> QED BY <3>2, <3>3, <3>4
  <2> QED BY <2>3, <2>4
<1> QED BY <1>1, <1>2, <1>3, Inductive, PTL DEF Spec, CaptureWithinTwoChunks
=============================================================================
