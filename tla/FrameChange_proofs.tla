-------------------------- MODULE FrameChange_proofs --------------------------
(***************************************************************************)
(* The frame buffers through the frame changes, for every length of the    *)
(* display and whatever the CPUs write when.  The display is held because  *)
(* the only stores that reach it are made outside the displayed lines, and *)
(* a buffer taken in to be erased stays the display until its next change, *)
(* with the erase pending or done.                                         *)
(***************************************************************************)
EXTENDS FrameChange, TLAPS

Typed ==
  /\ drawFB \in Buffers /\ displayFB \in Buffers /\ displayFB # drawFB
  /\ contents \in [Buffers -> {"clean", "drawn"}]
  /\ line \in 0 .. Lines - 1 /\ place \in Walking

\* The walker is at the frame change on line 1, at the end of the display on
\* the line behind it, and at the boundary it is back at line 0.
OnItsLine ==
  /\ Changing \/ place \in {"vblankIn", "gate"} => line = 1
  /\ place = "endDisplay" => line = Active
  /\ place = "boundary" => line = 0

Owed ==
  requested # None =>
    requested = displayFB /\ (lateEraseFB = requested \/ contents[requested] = "clean")

BufferInv == Typed /\ OnItsLine /\ LateEraseIsShown /\ DisplayHeld /\ Owed

LEMMA BufferInit == Init => BufferInv
<1> SUFFICES ASSUME Init PROVE BufferInv
  OBVIOUS
<1>1. /\ drawFB \in Buffers /\ displayFB \in Buffers \ {drawFB}
      /\ contents = [b \in Buffers |-> "clean"] /\ lateEraseFB = None
      /\ line = 0 /\ place = "boundary" /\ requested = None
  BY Zenon DEF Init
<1> QED
  BY <1>1, FrameAssumption
  DEF BufferInv, Typed, OnItsLine, LateEraseIsShown, DisplayHeld, Owed, Displaying, Walking, Changing

(* The register writes change nothing of this.                               *)
LEMMA BufferWrite ==
  ASSUME BufferInv, CpuWrite \/ UNCHANGED vars
  PROVE  BufferInv'
<1>1. UNCHANGED <<drawFB, displayFB, contents, lateEraseFB, line, place, requested, shown>>
  BY DEF CpuWrite, WriteTVMR, SetVBE, WriteFBCR, NoteFBCR, WritePTMR, ClearCEF, WriteENDR, SetDrawEnd,
         vars, buffers, walk, history
<1> QED
  BY <1>1
  DEF BufferInv, Typed, OnItsLine, LateEraseIsShown, DisplayHeld, Owed, Displaying, Walking, Changing

LEMMA ErasedType ==
  ASSUME Typed, NEW bs \in SUBSET Buffers
  PROVE  /\ Erased(bs) \in [Buffers -> {"clean", "drawn"}]
         /\ \A b \in bs : Erased(bs)[b] = "clean"
         /\ \A b \in Buffers : contents[b] = "clean" => Erased(bs)[b] = "clean"
BY DEF Typed, Erased

(* A change hands over a clean buffer if one is owed, and owes nothing.      *)
LEMMA SwapStep ==
  ASSUME BufferInv, NEW bs \in SUBSET Buffers, Swap(bs),
         line' = line, line = 1, place' \in {"auto", "change", "outChange"}
  PROVE  BufferInv' /\ (requested # None => requested = drawFB' /\ contents'[drawFB'] = "clean")
<1>1. bs \cup Late \in SUBSET Buffers
  BY DEF BufferInv, Typed, LateEraseIsShown, Late
<1>2. /\ contents' \in [Buffers -> {"clean", "drawn"}]
      /\ \A b \in Late : contents'[b] = "clean"
      /\ \A b \in Buffers : contents[b] = "clean" => contents'[b] = "clean"
  BY <1>1, ErasedType DEF BufferInv, Swap
<1>3. requested # None => requested = drawFB' /\ contents'[drawFB'] = "clean"
  BY <1>2 DEF BufferInv, Typed, Owed, Swap, Late
<1>4. BufferInv'
  BY <1>2
  DEF BufferInv, Typed, OnItsLine, LateEraseIsShown, DisplayHeld, Owed, Displaying, Swap, Walking, Changing
<1> QED
  BY <1>3, <1>4

LEMMA ChangeStep ==
  ASSUME BufferInv, VBlankIn \/ VBlankOut
  PROVE  BufferInv' /\ (drawFB' # drawFB /\ requested # None =>
                          requested = drawFB' /\ contents'[drawFB'] = "clean")
<1>1. line = 1 /\ line' = line /\ UNCHANGED shown
  <2>1. place \in {"decide", "latchOut"} /\ line' = line /\ shown' = shown
    BY Zenon DEF VBlankIn, VBlankOut
  <2> QED
    BY <2>1 DEF BufferInv, OnItsLine, Changing
<1>2. {displayFB} \in SUBSET Buffers /\ {} \in SUBSET Buffers
  BY DEF BufferInv, Typed
<1>3. CASE \E bs \in SUBSET Buffers : Swap(bs) /\ place' \in {"auto", "change", "outChange"}
  BY <1>1, <1>3, SwapStep
<1>4. CASE VBlankIn /\ NoSwap /\ place' = "erase"
           /\ lateEraseFB' = displayFB /\ requested' = displayFB
  <2>1. UNCHANGED <<contents, drawFB, displayFB>>
    BY <1>4 DEF NoSwap
  <2> QED
    BY <1>1, <1>4, <2>1
    DEF BufferInv, Typed, OnItsLine, LateEraseIsShown, DisplayHeld, Owed, Displaying, Walking, Changing
<1>5. CASE VBlankIn /\ NoSwap /\ place' = "idle" /\ UNCHANGED <<lateEraseFB, requested>>
  <2>1. UNCHANGED <<contents, drawFB, displayFB>>
    BY <1>5 DEF NoSwap
  <2>2. place = "decide"
    BY <1>5 DEF VBlankIn
  <2> QED
    BY <1>1, <1>5, <2>1, <2>2
    DEF BufferInv, Typed, OnItsLine, LateEraseIsShown, DisplayHeld, Owed, Displaying, Walking, Changing
<1>6. CASE VBlankIn
  <2>1. \/ Swap({displayFB}) /\ place' \in {"auto", "change"}
        \/ Swap({}) /\ place' = "change"
        \/ NoSwap /\ place' = "erase" /\ lateEraseFB' = displayFB /\ requested' = displayFB
        \/ NoSwap /\ place' = "idle" /\ UNCHANGED <<lateEraseFB, requested>>
    BY <1>6 DEF VBlankIn
  <2> QED
    BY <1>2, <1>3, <1>4, <1>5, <1>6, <2>1
<1>7. CASE VBlankOut
  <2>1. \/ Swap({displayFB}) /\ place' = "outChange"
        \/ Swap({}) /\ place' = "outChange"
    BY <1>7 DEF VBlankOut
  <2> QED
    BY <1>2, <1>3, <2>1
<1> QED
  BY <1>6, <1>7

(* The stores that end a handler, before the first row.                      *)
LEMMA StoresStep ==
  ASSUME BufferInv, LatchIn \/ StoreIn \/ EndChange \/ EndField \/ LatchOut \/ NoVBlankOut
  PROVE  BufferInv' /\ drawFB' = drawFB
<1>1. line = 1 /\ line' = line /\ UNCHANGED <<drawFB, displayFB, lateEraseFB, requested, shown>>
  <2>1. place \in {"vblankIn", "latchIn", "change", "outChange", "auto", "erase", "idle", "out"} /\ line' = line
        /\ drawFB' = drawFB /\ displayFB' = displayFB /\ lateEraseFB' = lateEraseFB
        /\ requested' = requested /\ shown' = shown
    BY Zenon DEF LatchIn, StoreIn, EndChange, EndField, LatchOut, NoVBlankOut, buffers, history
  <2> QED
    BY <2>1 DEF BufferInv, OnItsLine, Changing
<1>2. \/ place = "vblankIn" /\ place' = "latchIn"
      \/ place = "latchIn" /\ place' = "decide"
      \/ place = "out" /\ place' = "latchOut"
      \/ place \in {"change", "auto", "erase", "idle"} /\ place' = "out"
      \/ place \in {"outChange", "out"} /\ place' = "gate"
  BY DEF LatchIn, StoreIn, EndChange, EndField, LatchOut, NoVBlankOut
<1>3. place \in {"vblankIn", "latchIn", "change", "auto", "outChange"} => lateEraseFB = None
  BY <1>1 DEF BufferInv, LateEraseIsShown, Displaying
<1>4. CASE EndChange
  <2>1. /\ contents' \in [Buffers -> {"clean", "drawn"}]
        /\ \A b \in Buffers : contents[b] = "clean" => contents'[b] = "clean"
    BY <1>4, ErasedType DEF EndChange, TakeBack, BufferInv, Typed
  <2> QED
    BY <1>1, <1>2, <1>3, <2>1
    DEF BufferInv, Typed, OnItsLine, LateEraseIsShown, DisplayHeld, Owed, Displaying, Walking, Changing
<1>5. CASE LatchIn \/ StoreIn \/ EndField \/ LatchOut \/ NoVBlankOut
  <2>1. UNCHANGED contents
    BY <1>5 DEF LatchIn, StoreIn, EndField, LatchOut, NoVBlankOut, buffers
  <2> QED
    BY <1>1, <1>2, <1>3, <2>1
    DEF BufferInv, Typed, OnItsLine, LateEraseIsShown, DisplayHeld, Owed, Displaying, Walking, Changing
<1> QED
  BY <1>4, <1>5

(* The first row fixes what the display shows, the end of it lets go.        *)
LEMMA RowsStep ==
  ASSUME BufferInv, Gate \/ EndDisplay \/ Tick
  PROVE  BufferInv' /\ drawFB' = drawFB
<1>1. CASE Gate
  <2>1. UNCHANGED <<drawFB, displayFB, contents, lateEraseFB, line, requested>>
        /\ place = "gate" /\ place' = "tick" /\ shown' = contents[displayFB] /\ line = 1
    BY <1>1 DEF Gate, buffers, BufferInv, OnItsLine
  <2> QED
    BY <2>1
    DEF BufferInv, Typed, OnItsLine, LateEraseIsShown, DisplayHeld, Owed, Displaying, Walking, Changing
<1>2. CASE EndDisplay
  <2>1. UNCHANGED <<drawFB, displayFB, line, requested>> /\ lateEraseFB' = None
        /\ place = "endDisplay" /\ place' = "tick" /\ line = Active /\ contents' = Erased(Late)
    BY <1>2 DEF EndDisplay, BufferInv, OnItsLine
  <2>2. Late \in SUBSET Buffers
    BY DEF BufferInv, Typed, LateEraseIsShown, Late
  <2>3. /\ contents' \in [Buffers -> {"clean", "drawn"}]
        /\ \A b \in Late : contents'[b] = "clean"
        /\ \A b \in Buffers : contents[b] = "clean" => contents'[b] = "clean"
    BY <2>1, <2>2, ErasedType DEF BufferInv
  <2>4. ~Displaying'
    BY <2>1, FrameAssumption DEF Displaying
  <2>5. Owed'
    BY <2>1, <2>3 DEF BufferInv, Typed, Owed, Late
  <2> QED
    BY <2>1, <2>3, <2>4, <2>5
    DEF BufferInv, Typed, OnItsLine, LateEraseIsShown, DisplayHeld, Walking, Changing
<1>3. CASE Tick
  <2>1. UNCHANGED <<drawFB, displayFB, contents, lateEraseFB, line, requested, shown>>
        /\ place = "tick" /\ place' = "draw"
    BY <1>3 DEF Tick, buffers
  <2> QED
    BY <2>1
    DEF BufferInv, Typed, OnItsLine, LateEraseIsShown, DisplayHeld, Owed, Displaying, Walking, Changing
<1> QED
  BY <1>1, <1>2, <1>3

(* A draw reaches the draw buffer only, and the next line is displayed only  *)
(* if this one is.                                                           *)
LEMMA DrawStep ==
  ASSUME BufferInv, Draw \/ NoDraw
  PROVE  BufferInv' /\ drawFB' = drawFB
<1>1. /\ UNCHANGED <<drawFB, displayFB, lateEraseFB, requested, shown>>
      /\ place = "draw" /\ NextLine
      /\ contents' \in {contents, [contents EXCEPT ![drawFB] = "drawn"]}
  BY DEF Draw, NoDraw, buffers, history
<1>2. contents' \in [Buffers -> {"clean", "drawn"}] /\ contents'[displayFB] = contents[displayFB]
  BY <1>1 DEF BufferInv, Typed
<1>3. Lines \in Nat /\ Active \in 2 .. Lines - 1 /\ line \in 0 .. Lines - 1
  BY FrameAssumption DEF BufferInv, Typed
<1>4. /\ line' \in 0 .. Lines - 1
      /\ \/ line' = 1 /\ place' = "vblankIn" /\ line = 0
         \/ line' = Active /\ place' = "endDisplay" /\ line = Active - 1
         \/ line' = line + 1 /\ place' = "tick" /\ line' # 1 /\ line' # Active
         \/ line' = 0 /\ place' = "boundary" /\ line = Lines - 1
  BY <1>1, <1>3 DEF NextLine, PlaceOn
<1>5. Displaying => Displaying' \/ lateEraseFB = None
  BY <1>1, <1>3, <1>4 DEF Displaying
<1>6. Displaying' => Displaying
  BY <1>1, <1>3, <1>4 DEF Displaying
<1>7. Typed' /\ OnItsLine'
  BY <1>1, <1>2, <1>3, <1>4 DEF BufferInv, Typed, OnItsLine, Walking, Changing
<1>8. LateEraseIsShown'
  BY <1>1, <1>5 DEF BufferInv, LateEraseIsShown
<1>9. DisplayHeld'
  BY <1>1, <1>2, <1>6 DEF BufferInv, DisplayHeld
<1>10. Owed'
  BY <1>1, <1>2 DEF BufferInv, Owed
<1> QED
  BY <1>1, <1>7, <1>8, <1>9, <1>10 DEF BufferInv

LEMMA BoundaryStep ==
  ASSUME BufferInv, BeginFrame \/ Reset
  PROVE  BufferInv' /\ drawFB' = drawFB
<1>1. /\ UNCHANGED <<drawFB, displayFB, contents, line, shown>>
      /\ place = "boundary" /\ place' = "tick"
      /\ \/ UNCHANGED <<lateEraseFB, requested>>
         \/ lateEraseFB' = None /\ requested' = None
  BY DEF BeginFrame, Reset, buffers, history
<1> QED
  BY <1>1
  DEF BufferInv, Typed, OnItsLine, LateEraseIsShown, DisplayHeld, Owed, Displaying, Walking, Changing

LEMMA BufferStep == BufferInv /\ [Next]_vars => BufferInv'
BY BufferWrite, ChangeStep, StoresStep, RowsStep, DrawStep, BoundaryStep DEF Next, Walk

(* A late erase is pending on the displayed buffer only (lateEraseFB).       *)
THEOREM LateIsShown == Spec => []LateEraseIsShown
<1>1. BufferInv => LateEraseIsShown
  BY DEF BufferInv
<1> QED
  BY <1>1, BufferInit, BufferStep, PTL DEF Spec

(* The rows of a field come from one picture (walkVDPFrame).                 *)
THEOREM Held == Spec => []DisplayHeld
<1>1. BufferInv => DisplayHeld
  BY DEF BufferInv
<1> QED
  BY <1>1, BufferInit, BufferStep, PTL DEF Spec

(* A buffer taken in to be erased is handed to the drawing clean.            *)
THEOREM HandedOverClean == Spec => ErasedBeforeDrawn
<1>1. BufferInv /\ [Next]_vars =>
        [drawFB' # drawFB /\ requested # None =>
           requested = drawFB' /\ contents'[drawFB'] = "clean"]_vars
  <2>1. ASSUME BufferInv, CpuWrite
        PROVE  drawFB' = drawFB
    BY <2>1 DEF CpuWrite, WriteTVMR, SetVBE, WriteFBCR, NoteFBCR, WritePTMR, ClearCEF, WriteENDR,
                SetDrawEnd, buffers
  <2> QED
    BY <2>1, ChangeStep, StoresStep, RowsStep, DrawStep, BoundaryStep DEF Next, Walk
<1> QED
  BY <1>1, BufferInit, BufferStep, PTL DEF Spec, ErasedBeforeDrawn
-----------------------------------------------------------------------------
(* What a handler loaded of CEF is no newer than the draw.                   *)

Booleans ==
  cef \in BOOLEAN /\ drawActive \in BOOLEAN /\ survived \in BOOLEAN /\ loaded.cef \in BOOLEAN

LoadedNotEnded ==
  place \in {"auto", "change", "outChange"} /\ loaded.cef /\ drawActive => survived

EndInv == Booleans /\ ActiveNotEnded /\ LoadedNotEnded

LEMMA EndInit == Init => EndInv
<1> SUFFICES ASSUME Init PROVE EndInv
  OBVIOUS
<1>1. loaded.cef \in BOOLEAN
  <2>1. loaded = Nothing
    BY Zenon DEF Init
  <2> QED
    BY <2>1 DEF Nothing
<1>2. ~drawActive /\ drawActive \in BOOLEAN /\ survived \in BOOLEAN /\ cef \in BOOLEAN
  BY Zenon DEF Init
<1> QED
  BY <1>1, <1>2 DEF EndInv, Booleans, ActiveNotEnded, LoadedNotEnded

(* Steps that start or end no draw and do not reach EDSR.                    *)
LEMMA EndUnchanged ==
  ASSUME EndInv, UNCHANGED <<cef, drawActive, survived>>,
         \/ UNCHANGED <<loaded, place>>
         \/ loaded'.cef \in BOOLEAN /\ place' \notin {"auto", "change", "outChange"}
         \/ loaded'.cef = cef
  PROVE  EndInv'
BY DEF EndInv, Booleans, ActiveNotEnded, LoadedNotEnded

LEMMA EndWrite ==
  ASSUME EndInv, CpuWrite \/ UNCHANGED vars
  PROVE  EndInv'
<1>1. UNCHANGED <<loaded, place, drawActive, survived>>
  BY DEF CpuWrite, WriteTVMR, SetVBE, WriteFBCR, NoteFBCR, WritePTMR, ClearCEF, WriteENDR, SetDrawEnd,
         vars, walk, drawing, history
<1>2. cef' = cef \/ (~cef' /\ cef' \in BOOLEAN)
  BY Zenon DEF CpuWrite, WriteTVMR, SetVBE, WriteFBCR, NoteFBCR, WritePTMR, ClearCEF, WriteENDR, SetDrawEnd, vars
<1> QED
  BY <1>1, <1>2 DEF EndInv, Booleans, ActiveNotEnded, LoadedNotEnded

LEMMA EndLoad ==
  ASSUME EndInv, LatchIn \/ StoreIn \/ VBlankIn \/ LatchOut \/ VBlankOut
  PROVE  EndInv'
<1>1. UNCHANGED <<cef, drawActive, survived>>
  BY Zenon DEF LatchIn, StoreIn, VBlankIn, LatchOut, VBlankOut, drawing, history
<1>2. CASE VBlankIn \/ VBlankOut
  <2>1. loaded'.cef = cef
    BY <1>2 DEF VBlankIn, VBlankOut, Load
  <2> QED
    BY <1>1, <2>1, EndUnchanged
<1>3. CASE LatchIn \/ StoreIn \/ LatchOut
  <2>1. loaded'.cef = FALSE /\ place' \in {"latchIn", "decide", "latchOut"}
    BY <1>3 DEF LatchIn, StoreIn, LatchOut, Load
  <2> QED
    BY <1>1, <2>1, EndUnchanged
<1> QED
  BY <1>2, <1>3

LEMMA EndStores ==
  ASSUME EndInv, EndChange \/ EndField
  PROVE  EndInv'
<1>1. UNCHANGED <<drawActive, survived>> /\ loaded' = Nothing /\ place' \in {"out", "gate"}
  BY Zenon DEF EndChange, EndField, drawing, history
<1>2. \/ cef' = cef
      \/ cef' = loaded.cef /\ place \in {"auto", "change", "outChange"}
  BY DEF EndChange, EndField, TakeBack
<1>3. loaded'.cef \in BOOLEAN
  BY <1>1 DEF Nothing
<1> QED
  BY <1>1, <1>2, <1>3 DEF EndInv, Booleans, ActiveNotEnded, LoadedNotEnded

LEMMA EndDraws ==
  ASSUME EndInv, Gate \/ Tick \/ Draw \/ NoDraw \/ Reset
  PROVE  EndInv'
<1>1. /\ loaded' = loaded
      /\ \/ place' \in {"tick", "draw"}
         \/ place' \in {"vblankIn", "endDisplay", "boundary"}
  BY DEF Gate, Tick, Draw, NoDraw, Reset, NextLine, PlaceOn
<1>2. \/ UNCHANGED <<cef, drawActive, survived>>
      \/ drawActive' \in BOOLEAN /\ ~cef' /\ cef' \in BOOLEAN /\ survived' \in BOOLEAN
      \/ ~drawActive' /\ drawActive' \in BOOLEAN /\ cef' \in BOOLEAN /\ survived' = survived
      \/ drawActive' = drawActive /\ survived' = drawActive /\ cef' \in BOOLEAN
  <2>1. CASE Gate \/ Tick
    BY <2>1, Zenon DEF Gate, Tick, StartDraw, drawing
  <2>2. CASE Draw
    BY <2>2, Zenon DEF EndInv, Booleans, Draw, history
  <2>3. CASE NoDraw \/ Reset
    BY <2>3, Zenon DEF NoDraw, Reset, drawing, history
  <2> QED
    BY <2>1, <2>2, <2>3
<1> QED
  BY <1>1, <1>2 DEF EndInv, Booleans, ActiveNotEnded, LoadedNotEnded

LEMMA EndStep == EndInv /\ [Next]_vars => EndInv'
<1>1. ASSUME EndInv, NoVBlankOut \/ EndDisplay \/ BeginFrame
      PROVE  EndInv'
  <2>1. UNCHANGED <<cef, drawActive, survived, loaded>> /\ place' \in {"gate", "tick"}
    BY <1>1, Zenon DEF NoVBlankOut, EndDisplay, BeginFrame, drawing, history
  <2> QED
    BY <1>1, <2>1 DEF EndInv, Booleans, ActiveNotEnded, LoadedNotEnded
<1> QED
  BY <1>1, EndWrite, EndLoad, EndStores, EndDraws DEF Next, Walk

(* CEF does not read as ended while a draw goes on (EDSR, startDraw).        *)
THEOREM NotEnded == Spec => []ActiveNotEnded
<1>1. EndInv => ActiveNotEnded
  BY DEF EndInv
<1> QED
  BY <1>1, EndInit, EndStep, PTL DEF Spec
-----------------------------------------------------------------------------
(* The changes that are made and the one that is asked for.                  *)

ChangeTyped ==
  /\ fcm \in BOOLEAN /\ fct \in BOOLEAN /\ wanted \in BOOLEAN /\ raced \in BOOLEAN
  /\ loaded.fcm \in BOOLEAN /\ loaded.fct \in BOOLEAN
  /\ swaps \in 0 .. 2

\* A change that is asked for has been read by the time it is decided on.
Waiting ==
  wanted => /\ fcm /\ fct
            /\ ~Changing \/ (place \in {"latchIn", "decide"} /\ loaded.fcm /\ loaded.fct)

\* A change in the automatic mode leaves FCM clear and one in the manual mode
\* takes FCT back, so a second one has a write between them.
Counted ==
  /\ ~Changing /\ place # "gate" => swaps = 0 /\ ~raced
  /\ place \in {"latchIn", "decide"} => swaps = 0 /\ (raced \/ (fcm <=> loaded.fcm))
  /\ place \in {"erase", "idle"} => swaps = 0
  /\ place \in {"auto", "change"} => swaps = 1
  /\ place = "auto" => raced \/ ~fcm
  /\ place = "out" => swaps < 2 /\ (swaps = 1 => raced \/ ~(fcm /\ fct))
  /\ place = "latchOut" => swaps < 2 /\ (swaps = 1 => raced)
  /\ place = "outChange" => (swaps = 2 => raced)

ChangeInv == ChangeTyped /\ Waiting /\ Counted

LEMMA ChangeInit == Init => ChangeInv
<1> SUFFICES ASSUME Init PROVE ChangeInv
  OBVIOUS
<1>1. loaded.fcm \in BOOLEAN /\ loaded.fct \in BOOLEAN
  <2>1. loaded = Nothing
    BY Zenon DEF Init
  <2> QED
    BY <2>1 DEF Nothing
<1>2. /\ ~wanted /\ ~raced /\ swaps = 0 /\ place = "boundary"
      /\ fcm \in BOOLEAN /\ fct \in BOOLEAN /\ wanted \in BOOLEAN /\ raced \in BOOLEAN
  BY Zenon DEF Init
<1> QED
  BY <1>1, <1>2 DEF ChangeInv, ChangeTyped, Waiting, Counted, Changing

(* Steps that touch neither FBCR nor what is counted, within the frame       *)
(* change or away from it.                                                   *)
LEMMA ChangeUnchanged ==
  ASSUME ChangeInv, UNCHANGED <<mode, loaded, wanted, swaps, raced>>,
         \/ place' = place
         \/ ~Changing /\ place # "gate" /\ ~Changing' /\ place' # "gate"
         \/ place = "out" /\ place' = "gate"
  PROVE  ChangeInv'
BY DEF ChangeInv, ChangeTyped, Waiting, Counted, Changing, mode

LEMMA WriteStep ==
  ASSUME ChangeInv, WriteFBCR
  PROVE  ChangeInv'
<1>1. /\ fcm' \in BOOLEAN /\ fct' \in BOOLEAN
      /\ wanted' \in BOOLEAN /\ (wanted' => fcm' /\ fct' /\ ~Changing)
      /\ raced' \in BOOLEAN /\ (Changing => raced') /\ (~Changing => (raced' <=> raced))
      /\ swaps' = swaps /\ place' = place /\ loaded' = loaded
  BY Zenon DEF WriteFBCR, Changing, walk, ChangeInv, ChangeTyped
<1> QED
  BY <1>1 DEF ChangeInv, ChangeTyped, Waiting, Counted, Changing

LEMMA LatchStep ==
  ASSUME ChangeInv, LatchIn \/ StoreIn \/ LatchOut
  PROVE  ChangeInv'
<1>1. UNCHANGED <<wanted, swaps, raced>>
  BY Zenon DEF LatchIn, StoreIn, LatchOut, history
<1>2. CASE LatchIn \/ LatchOut
  <2>1. /\ fcm' = fcm /\ fct' = fct /\ loaded'.fcm = fcm /\ loaded'.fct = fct
        /\ \/ place = "vblankIn" /\ place' = "latchIn"
           \/ place = "out" /\ place' = "latchOut" /\ fcm /\ fct
    BY <1>2 DEF LatchIn, LatchOut, Load, mode
  <2> QED
    BY <1>1, <2>1 DEF ChangeInv, ChangeTyped, Waiting, Counted, Changing
<1>3. CASE StoreIn
  <2>1. /\ fcm' = loaded.fcm /\ fct' = loaded.fct /\ loaded'.fcm = loaded.fcm /\ loaded'.fct = loaded.fct
        /\ place = "latchIn" /\ place' = "decide"
    BY <1>3 DEF StoreIn
  <2> QED
    BY <1>1, <2>1 DEF ChangeInv, ChangeTyped, Waiting, Counted, Changing
<1> QED
  BY <1>2, <1>3

LEMMA LoadStep ==
  ASSUME ChangeInv, VBlankIn \/ VBlankOut
  PROVE  ChangeInv'
<1>1. raced' = raced
  BY Zenon DEF VBlankIn, VBlankOut
<1>2. CASE VBlankIn
  <2>1. UNCHANGED <<fcm, fct>> /\ loaded'.fcm = fcm /\ loaded'.fct = fct /\ place = "decide"
    BY <1>2 DEF VBlankIn, Load, mode
  <2>2. \/ /\ place' = "auto" /\ ~loaded.fcm
           /\ wanted' \in BOOLEAN /\ ~wanted' /\ swaps' = swaps + 1
        \/ place' = "change" /\ wanted' \in BOOLEAN /\ ~wanted' /\ swaps' = swaps + 1
        \/ place' \in {"erase", "idle"} /\ ~loaded.fct /\ wanted' = wanted /\ swaps' = swaps
    BY <1>2, Zenon DEF VBlankIn, Swap, NoSwap
  <2> QED
    BY <1>1, <2>1, <2>2 DEF ChangeInv, ChangeTyped, Waiting, Counted, Changing
<1>3. CASE VBlankOut
  <2>1. /\ place = "latchOut" /\ place' = "outChange"
        /\ wanted' \in BOOLEAN /\ ~wanted' /\ swaps' = swaps + 1
    BY <1>3, Zenon DEF VBlankOut, Swap
  <2>2. /\ fcm' \in {fcm, loaded.fcm} /\ fct' \in {fct, loaded.fct}
        /\ loaded'.fcm = fcm' /\ loaded'.fct = fct'
    BY <1>3 DEF VBlankOut, mode
  <2> QED
    BY <1>1, <2>1, <2>2 DEF ChangeInv, ChangeTyped, Waiting, Counted, Changing
<1> QED
  BY <1>2, <1>3

LEMMA StoreStep ==
  ASSUME ChangeInv, EndChange \/ EndField
  PROVE  ChangeInv'
<1>1. /\ UNCHANGED <<wanted, swaps, raced>> /\ loaded' = Nothing
      /\ Changing
  BY DEF EndChange, EndField, history, Changing
<1>2. loaded'.fcm \in BOOLEAN /\ loaded'.fct \in BOOLEAN
  BY <1>1 DEF Nothing
<1>3. CASE EndChange
  <2>1. /\ fcm' \in {fcm, loaded.fcm} /\ ~fct' /\ fct' \in BOOLEAN
        /\ \/ place = "change" /\ place' = "out"
           \/ place = "outChange" /\ place' = "gate"
    BY <1>3, Zenon DEF EndChange, TakeBack
  <2> QED
    BY <1>1, <1>2, <2>1 DEF ChangeInv, ChangeTyped, Waiting, Counted, Changing
<1>4. CASE EndField
  <2>1. /\ fcm' = fcm /\ fct' = fct
        /\ place \in {"auto", "erase", "idle"} /\ place' = "out"
    BY <1>4 DEF EndField, mode
  <2> QED
    BY <1>1, <1>2, <2>1 DEF ChangeInv, ChangeTyped, Waiting, Counted, Changing
<1> QED
  BY <1>3, <1>4

LEMMA LeaveStep ==
  ASSUME ChangeInv, Gate \/ Reset
  PROVE  ChangeInv'
<1>1. /\ fcm' \in BOOLEAN /\ fct' \in BOOLEAN /\ wanted' \in BOOLEAN /\ raced' \in BOOLEAN
      /\ wanted' => wanted /\ fcm' = fcm /\ fct' = fct
      /\ ~raced' /\ swaps' = 0 /\ loaded' = loaded /\ place' = "tick"
  <2>1. CASE Gate
    BY <2>1, Zenon DEF Gate, mode, ChangeInv, ChangeTyped
  <2>2. CASE Reset
    <3>1. place = "boundary" /\ UNCHANGED <<raced, swaps, loaded>> /\ place' = "tick"
      BY <2>2 DEF Reset
    <3>2. fcm' \in BOOLEAN /\ fct' \in BOOLEAN /\ wanted' \in BOOLEAN /\ ~wanted'
      BY <2>2, Zenon DEF Reset
    <3> QED
      BY <3>1, <3>2 DEF ChangeInv, ChangeTyped, Counted, Changing
  <2> QED
    BY <2>1, <2>2
<1>2. place \in {"gate", "boundary"}
  BY Zenon DEF Gate, Reset
<1> QED
  BY <1>1, <1>2 DEF ChangeInv, ChangeTyped, Waiting, Counted, Changing

LEMMA OtherSteps ==
  ASSUME ChangeInv,
         \/ WriteTVMR \/ SetVBE \/ NoteFBCR \/ WritePTMR \/ ClearCEF \/ WriteENDR \/ SetDrawEnd
         \/ NoVBlankOut \/ EndDisplay \/ Tick \/ Draw \/ NoDraw \/ BeginFrame \/ UNCHANGED vars
  PROVE  ChangeInv'
<1>1. UNCHANGED <<mode, loaded, wanted, swaps, raced>>
  BY DEF WriteTVMR, SetVBE, NoteFBCR, WritePTMR, ClearCEF, WriteENDR, SetDrawEnd, NoVBlankOut, EndDisplay,
         Tick, Draw, NoDraw, BeginFrame, vars, walk, history
<1>2. \/ place' = place
      \/ /\ place \in {"endDisplay", "tick", "draw", "boundary"}
         /\ place' \in {"vblankIn", "endDisplay", "tick", "draw", "boundary"}
      \/ place = "out" /\ place' = "gate"
  BY DEF WriteTVMR, SetVBE, NoteFBCR, WritePTMR, ClearCEF, WriteENDR, SetDrawEnd, NoVBlankOut, EndDisplay,
         Tick, Draw, NoDraw, BeginFrame, NextLine, PlaceOn, vars, walk
<1> QED
  BY <1>1, <1>2, ChangeUnchanged DEF Changing

LEMMA ChangeInvStep == ChangeInv /\ [Next]_vars => ChangeInv'
BY WriteStep, LatchStep, LoadStep, StoreStep, LeaveStep, OtherSteps DEF Next, CpuWrite, Walk

(* A manual change is made at the next frame change, and a second one in the *)
(* same frame only for a write that came in between (VBlankIn, VBlankOut).   *)
THEOREM OneChangeAtATime == Spec => OneChange
<1>1. ChangeInv /\ [Next]_vars =>
        [place' = "gate" /\ place # "gate" => ~wanted' /\ (swaps' > 1 => raced)]_vars
  <2> SUFFICES ASSUME ChangeInv, Next, place' = "gate", place # "gate"
               PROVE  ~wanted' /\ (swaps' > 1 => raced)
    BY DEF vars
  <2>1. \/ EndChange /\ place = "outChange"
        \/ NoVBlankOut /\ place = "out"
    BY DEF Next, CpuWrite, Walk, WriteTVMR, SetVBE, WriteFBCR, NoteFBCR, WritePTMR, ClearCEF, WriteENDR,
           SetDrawEnd, LatchIn, StoreIn, VBlankIn, EndChange, EndField, LatchOut, VBlankOut, NoVBlankOut, Gate, EndDisplay,
           Tick, Draw, NoDraw, BeginFrame, Reset, NextLine, PlaceOn, walk
  <2>2. UNCHANGED <<wanted, swaps>>
    BY <2>1 DEF EndChange, NoVBlankOut, history
  <2> QED
    BY <2>1, <2>2 DEF ChangeInv, ChangeTyped, Waiting, Counted, Changing
<1> QED
  BY <1>1, ChangeInit, ChangeInvStep, PTL DEF Spec, OneChange
=============================================================================
