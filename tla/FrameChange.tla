----------------------------- MODULE FrameChange -----------------------------
(***************************************************************************)
(* The frame change of the VDP1 and the life of a draw (src/core/vdp1.go,  *)
(* src/core/vdp1_draw.go), as the VDP walker runs them line by line        *)
(* (walkVDPFrame in src/core/frame.go) while the CPUs write the registers. *)
(*                                                                         *)
(* The CPUs hold the B-Bus for a write, so their writes exclude each       *)
(* other; the walker takes no lock.  A handler of the frame change loads   *)
(* FBCR, stores it and loads TVMR, loads what it remembers and changes the *)
(* buffers, and ends with further stores: a register write may come in     *)
(* between any two, and a store may undo it.  A register write that stores *)
(* twice is two steps.                                                     *)
(*                                                                         *)
(* A frame buffer is clean or has been drawn into; the erase region is one *)
(* that covers what is drawn.  The registers latched for their data alone  *)
(* (EWDR, EWLR, EWRR, DIE, DIL, EOS) and the copies kept for readback      *)
(* (BEF, LOPR, COPR) are left out.                                         *)
(***************************************************************************)
EXTENDS Integers

CONSTANTS Buffers,   \* the two frame buffers
          None,
          Lines,     \* scanlines of a frame
          Active     \* lines of the display, vdpWalkActiveLines

ASSUME FrameAssumption ==
  /\ \E a, b \in Buffers : a # b /\ Buffers = {a, b}
  /\ None \notin Buffers
  /\ Lines \in Nat /\ Active \in 2 .. Lines - 1

VARIABLES
  drawFB, displayFB, contents, lateEraseFB,
  \* the registers: FBCR's mode bits, TVMR's, PTMR and its shadow, EDSR's CEF
  fcm, fct, vbe, ptmr, ptmrPending, cef,
  \* what the handlers remember between fields
  vbeLatched, fbcrWritten, eraseRequested, fbSwapped,
  drawPending, drawActive, drawEnd,
  \* the walker: its line, its place in it, what it loaded of FBCR, EDSR, TVMR
  line, place, loaded,
  cpu,          \* the store a register write has left to do
  \* history: an FBCR write made outside the frame change waits for a change;
  \* swaps of this frame change and whether FBCR was written during it; the
  \* buffer last taken in to be erased; the display as its first row showed
  \* it; a draw was active through a reset
  wanted, swaps, raced, requested, shown, survived

buffers == <<drawFB, displayFB, contents, lateEraseFB>>
mode == <<fcm, fct>>
plot == <<ptmr, ptmrPending>>
latches == <<vbeLatched, fbcrWritten, eraseRequested>>
drawing == <<drawPending, drawActive, drawEnd>>
walk == <<line, place, loaded>>
history == <<wanted, swaps, raced, requested, shown, survived>>

vars == <<buffers, mode, vbe, plot, cef, latches, fbSwapped, drawing, walk, cpu, history>>

Loads == [fcm : BOOLEAN, fct : BOOLEAN, cef : BOOLEAN, blank : BOOLEAN]
Nothing == [fcm |-> FALSE, fct |-> FALSE, cef |-> FALSE, blank |-> FALSE]

Init ==
  /\ drawFB \in Buffers /\ displayFB \in Buffers \ {drawFB}
  /\ contents = [b \in Buffers |-> "clean"] /\ lateEraseFB = None
  /\ fcm = FALSE /\ fct = FALSE /\ vbe = FALSE /\ ptmr = 0 /\ ptmrPending = 0 /\ cef = TRUE
  /\ vbeLatched = FALSE /\ fbcrWritten = FALSE /\ eraseRequested = FALSE /\ fbSwapped = FALSE
  /\ drawPending = FALSE /\ drawActive = FALSE /\ drawEnd = FALSE
  /\ line = 0 /\ place = "boundary" /\ loaded = Nothing
  /\ cpu = "idle"
  /\ wanted = FALSE /\ swaps = 0 /\ raced = FALSE /\ requested = None
  /\ shown = "clean" /\ survived = FALSE
-----------------------------------------------------------------------------
(* The CPUs' register writes                                                 *)

Changing ==
  place \in {"latchIn", "decide", "auto", "change", "erase", "idle", "out", "latchOut", "outChange"}

(* The rising edge of VBE is latched before VBE is stored.                   *)
WriteTVMR ==
  /\ cpu = "idle"
  /\ \/ vbe' \in {FALSE, vbe} /\ UNCHANGED <<vbeLatched, cpu>>
     \/ ~vbe /\ vbeLatched' = TRUE /\ cpu' = "blank" /\ UNCHANGED vbe
  /\ UNCHANGED <<buffers, mode, plot, cef, fbcrWritten, eraseRequested, fbSwapped, drawing,
                 walk, history>>

SetVBE ==
  /\ cpu = "blank"
  /\ vbe' = TRUE
  /\ cpu' = "idle"
  /\ UNCHANGED <<buffers, mode, plot, cef, latches, fbSwapped, drawing, walk, history>>

WriteFBCR ==
  /\ cpu = "idle"
  /\ fcm' \in BOOLEAN /\ fct' \in BOOLEAN
  /\ cpu' = IF fct' THEN "idle" ELSE IF fcm' THEN "written" ELSE "zero"
  /\ wanted' = (fcm' /\ fct' /\ ~Changing)
  /\ raced' = (raced \/ Changing)
  /\ UNCHANGED <<buffers, vbe, plot, cef, latches, fbSwapped, drawing, walk,
                 swaps, requested, shown, survived>>

(* Mutant: a request erases the display at once.                             *)
NoteFBCR_AtOnce ==
  /\ cpu \in {"written", "zero"}
  /\ fbcrWritten' = TRUE
  /\ contents' = IF cpu = "zero" THEN [contents EXCEPT ![displayFB] = "clean"] ELSE contents
  /\ cpu' = "idle"
  /\ UNCHANGED <<drawFB, displayFB, lateEraseFB, mode, vbe, plot, cef, vbeLatched, eraseRequested,
                 fbSwapped, drawing, walk, history>>

(* FCT = 0 is noted, and FBCR = 0 is an erase request.                       *)
NoteFBCR ==
  /\ cpu \in {"written", "zero"}
  /\ fbcrWritten' = TRUE
  /\ eraseRequested' = (eraseRequested \/ cpu = "zero")
  /\ cpu' = "idle"
  /\ UNCHANGED <<buffers, mode, vbe, plot, cef, vbeLatched, fbSwapped, drawing, walk, history>>

WritePTMR ==
  /\ cpu = "idle"
  /\ ptmrPending' \in 0 .. 2
  /\ IF ptmrPending' = 1
     THEN ptmr' = 1 /\ drawPending' = TRUE /\ cpu' = "trigger"
     ELSE UNCHANGED <<ptmr, drawPending, cpu>>
  /\ UNCHANGED <<buffers, mode, vbe, cef, latches, fbSwapped, drawActive, drawEnd, walk, history>>

(* The trigger's last store.                                                 *)
ClearCEF ==
  /\ cpu = "trigger"
  /\ cef' = FALSE
  /\ cpu' = "idle"
  /\ UNCHANGED <<buffers, mode, vbe, plot, latches, fbSwapped, drawing, walk, history>>

WriteENDR ==
  /\ cpu = "idle"
  /\ drawActive
  /\ cpu' = "end"
  /\ UNCHANGED <<buffers, mode, vbe, plot, cef, latches, fbSwapped, drawing, walk, history>>

SetDrawEnd ==
  /\ cpu = "end"
  /\ drawEnd' = TRUE
  /\ cpu' = "idle"
  /\ UNCHANGED <<buffers, mode, vbe, plot, cef, latches, fbSwapped, drawPending, drawActive,
                 walk, history>>
-----------------------------------------------------------------------------
(* The frame change, at line 1                                               *)

Late == {lateEraseFB} \ {None}
Erased(bs) == [b \in Buffers |-> IF b \in bs THEN "clean" ELSE contents[b]]

(* The erases due before the buffers change roles, of the buffers bs and of  *)
(* the one a manual erase is late for; then the change.                      *)
Swap(bs) ==
  /\ contents' = Erased(bs \cup Late)
  /\ lateEraseFB' = None
  /\ drawFB' = displayFB /\ displayFB' = drawFB
  /\ fbSwapped' = TRUE
  /\ wanted' = FALSE /\ swaps' = swaps + 1 /\ requested' = None

NoSwap ==
  /\ UNCHANGED <<contents, drawFB, displayFB, fbSwapped, wanted, swaps>>

Load(edsr) == loaded' = [fcm |-> fcm, fct |-> fct, cef |-> edsr, blank |-> FALSE]

(* latchPending loads FBCR ...                                               *)
LatchIn ==
  /\ place = "vblankIn"
  /\ Load(FALSE)
  /\ place' = "latchIn"
  /\ UNCHANGED <<buffers, mode, vbe, plot, cef, latches, fbSwapped, drawing, line, cpu, history>>

(* ... and stores it, with the shadow registers taken in; then the mode and  *)
(* the blanking erase are loaded.                                            *)
StoreIn ==
  /\ place = "latchIn"
  /\ fcm' = loaded.fcm /\ fct' = loaded.fct
  /\ ptmr' = ptmrPending
  /\ loaded' = [fcm |-> fcm', fct |-> fct', cef |-> FALSE, blank |-> vbe \/ vbeLatched]
  /\ vbeLatched' = FALSE
  /\ place' = "decide"
  /\ UNCHANGED <<buffers, vbe, ptmrPending, cef, fbcrWritten, eraseRequested, fbSwapped, drawing,
                 line, cpu, history>>

(* VBlankIn: the change mode decides.                                        *)
VBlankIn ==
  LET asked == fbcrWritten \/ eraseRequested \/ loaded.blank
  IN  /\ place = "decide"
      /\ Load(cef)
      /\ \/ ~loaded.fcm /\ Swap({displayFB}) /\ place' = "auto"
         \/ /\ loaded.fcm /\ loaded.fct
            /\ Swap(IF loaded.blank THEN {displayFB} ELSE {})
            /\ place' = "change"
         \/ /\ loaded.fcm /\ ~loaded.fct /\ asked
            /\ lateEraseFB' = displayFB /\ requested' = displayFB
            /\ NoSwap
            /\ place' = "erase"
         \/ /\ loaded.fcm /\ ~loaded.fct /\ ~asked
            /\ NoSwap /\ UNCHANGED <<lateEraseFB, requested>>
            /\ place' = "idle"
      /\ UNCHANGED <<mode, vbe, plot, cef, latches, drawing, line, cpu, raced, shown, survived>>

(* Mutant: FCT stays set.                                                    *)
TakeBack_FCTStays ==
  /\ fcm' \in {fcm, loaded.fcm}
  /\ fct' = fct
  /\ cef' \in {cef, loaded.cef}
  /\ contents' = Erased(IF eraseRequested THEN {displayFB} ELSE {})
  /\ fbcrWritten' = FALSE

(* The stores that end a handler.  FBCR and EDSR are loaded, changed and     *)
(* stored: what a CPU wrote in between may be lost.  A change takes FCT back *)
(* and clears what it brought in if an erase is requested.                   *)
TakeBack ==
  /\ fcm' \in {fcm, loaded.fcm}
  /\ fct' = FALSE
  /\ cef' \in {cef, loaded.cef}
  /\ contents' = Erased(IF eraseRequested THEN {displayFB} ELSE {})
  /\ fbcrWritten' = FALSE

EndChange ==
  /\ place \in {"change", "outChange"}
  /\ TakeBack
  /\ loaded' = Nothing
  /\ place' = IF place = "change" THEN "out" ELSE "gate"
  /\ UNCHANGED <<drawFB, displayFB, lateEraseFB, vbe, plot, vbeLatched, eraseRequested, fbSwapped,
                 drawing, line, cpu, history>>

(* Without a manual change FCT stays; a request for an erase is spent.       *)
EndField ==
  /\ place \in {"auto", "erase", "idle"}
  /\ cef' \in IF place = "auto" THEN {cef, loaded.cef} ELSE {cef}
  /\ eraseRequested' = (eraseRequested /\ place = "idle")
  /\ fbcrWritten' = FALSE
  /\ loaded' = Nothing
  /\ place' = "out"
  /\ UNCHANGED <<buffers, mode, vbe, plot, vbeLatched, fbSwapped, drawing, line, cpu, history>>

(* VBlankOut: a change written since.                                        *)
LatchOut ==
  /\ place = "out" /\ fcm /\ fct
  /\ Load(FALSE)
  /\ place' = "latchOut"
  /\ UNCHANGED <<buffers, mode, vbe, plot, cef, latches, fbSwapped, drawing, line, cpu, history>>

VBlankOut ==
  /\ place = "latchOut"
  /\ \/ UNCHANGED mode
     \/ fcm' = loaded.fcm /\ fct' = loaded.fct
  /\ ptmr' = ptmrPending
  /\ loaded' = [fcm |-> fcm', fct |-> fct', cef |-> cef, blank |-> FALSE]
  /\ Swap(IF vbe \/ vbeLatched THEN {displayFB} ELSE {})
  /\ vbeLatched' = FALSE
  /\ place' = "outChange"
  /\ UNCHANGED <<vbe, ptmrPending, cef, fbcrWritten, eraseRequested, drawing, line,
                 cpu, raced, shown, survived>>

NoVBlankOut ==
  /\ place = "out" /\ ~(fcm /\ fct)
  /\ place' = "gate"
  /\ UNCHANGED <<buffers, mode, vbe, plot, cef, latches, fbSwapped, drawing, line, loaded, cpu, history>>

StartDraw ==
  /\ drawActive' = TRUE /\ drawEnd' = FALSE /\ cef' = FALSE /\ survived' = FALSE

(* The automatic draw, then the first row is prepared.                       *)
Gate ==
  /\ place = "gate"
  /\ IF ptmr = 2 /\ fbSwapped
     THEN fbSwapped' = FALSE /\ StartDraw
     ELSE UNCHANGED <<fbSwapped, drawActive, drawEnd, cef, survived>>
  /\ place' = "tick"
  /\ swaps' = 0 /\ raced' = FALSE /\ shown' = contents[displayFB]
  /\ UNCHANGED <<buffers, mode, vbe, plot, latches, drawPending, line, loaded, cpu, wanted, requested>>
-----------------------------------------------------------------------------
(* The lines                                                                 *)

(* Mutant: the late erase is dropped.                                        *)
EndDisplay_Drops ==
  /\ place = "endDisplay"
  /\ lateEraseFB' = None
  /\ shown' = "clean"
  /\ place' = "tick"
  /\ UNCHANGED <<contents, drawFB, displayFB, mode, vbe, plot, cef, latches, fbSwapped, drawing,
                 line, loaded, cpu, wanted, swaps, raced, requested, survived>>

(* The end of the display, with the manual erase that is late.               *)
EndDisplay ==
  /\ place = "endDisplay"
  /\ contents' = Erased(Late) /\ lateEraseFB' = None
  /\ shown' = "clean"
  /\ place' = "tick"
  /\ UNCHANGED <<drawFB, displayFB, mode, vbe, plot, cef, latches, fbSwapped, drawing, line,
                 loaded, cpu, wanted, swaps, raced, requested, survived>>

(* TickSystemCycles: a trigger restarts the draw, then the list is walked.   *)
Tick ==
  /\ place = "tick"
  /\ IF drawPending
     THEN StartDraw /\ drawPending' = FALSE
     ELSE UNCHANGED <<drawing, cef, survived>>
  /\ place' = "draw"
  /\ UNCHANGED <<buffers, mode, vbe, plot, latches, fbSwapped, line, loaded, cpu,
                 wanted, swaps, raced, requested, shown>>

PlaceOn(l) == CASE l = 1 -> "vblankIn" [] l = Active -> "endDisplay" [] OTHER -> "tick"

(* The frame ends when the CPUs have ended theirs.                           *)
NextLine ==
  IF line + 1 < Lines
  THEN line' = line + 1 /\ place' = PlaceOn(line + 1)
  ELSE cpu = "idle" /\ line' = 0 /\ place' = "boundary"

(* Draws into the draw buffer, or not, until the cycles are used up, ENDR    *)
(* stops it or the end bit is fetched, which raises an interrupt.            *)
Draw ==
  /\ place = "draw" /\ drawActive
  /\ contents' \in {contents, [contents EXCEPT ![drawFB] = "drawn"]}
  /\ \/ UNCHANGED <<drawActive, drawEnd, cef>>
     \/ drawEnd /\ drawActive' = FALSE /\ drawEnd' = FALSE /\ UNCHANGED cef
     \/ ~drawEnd /\ drawActive' = FALSE /\ cef' = TRUE /\ UNCHANGED drawEnd
  /\ NextLine
  /\ UNCHANGED <<drawFB, displayFB, lateEraseFB, mode, vbe, plot, latches, fbSwapped, drawPending,
                 loaded, cpu, history>>

NoDraw ==
  /\ place = "draw" /\ ~drawActive
  /\ NextLine
  /\ UNCHANGED <<buffers, mode, vbe, plot, cef, latches, fbSwapped, drawing, loaded, cpu, history>>
-----------------------------------------------------------------------------
(* The frame boundary                                                        *)

BeginFrame ==
  /\ place = "boundary"
  /\ place' = "tick"
  /\ UNCHANGED <<buffers, mode, vbe, plot, cef, latches, fbSwapped, drawing, line, loaded, cpu, history>>

(* Reset, with a change of the clock or a reset of the system.               *)
Reset ==
  /\ place = "boundary"
  /\ fcm' = FALSE /\ fct' = FALSE /\ vbe' = FALSE
  /\ ptmr' = 0 /\ ptmrPending' = 0 /\ cef' = TRUE
  /\ vbeLatched' = FALSE /\ fbcrWritten' = FALSE /\ eraseRequested' = FALSE /\ fbSwapped' = FALSE
  /\ drawEnd' = FALSE
  /\ lateEraseFB' = None
  /\ place' = "tick"
  /\ wanted' = FALSE /\ requested' = None /\ survived' = drawActive
  /\ UNCHANGED <<drawFB, displayFB, contents, drawPending, drawActive, line, loaded, cpu,
                 swaps, raced, shown>>
-----------------------------------------------------------------------------
CpuWrite ==
  /\ place # "boundary"
  /\ \/ WriteTVMR \/ SetVBE \/ WriteFBCR \/ NoteFBCR \/ WritePTMR \/ ClearCEF \/ WriteENDR \/ SetDrawEnd

Walk == LatchIn \/ StoreIn \/ VBlankIn \/ EndChange \/ EndField
        \/ LatchOut \/ VBlankOut \/ NoVBlankOut \/ Gate \/ EndDisplay \/ Tick \/ Draw \/ NoDraw \/ BeginFrame \/ Reset

Next == CpuWrite \/ Walk

Spec == Init /\ [][Next]_vars
-----------------------------------------------------------------------------
(* Properties                                                                *)

Walking == {"vblankIn", "latchIn", "decide", "auto", "change", "erase", "idle", "out", "latchOut",
            "outChange", "gate", "endDisplay", "tick", "draw", "boundary"}

TypeOK ==
  /\ drawFB \in Buffers /\ displayFB \in Buffers \ {drawFB}
  /\ contents \in [Buffers -> {"clean", "drawn"}]
  /\ lateEraseFB \in Buffers \cup {None}
  /\ <<fcm, fct, vbe, cef>> \in BOOLEAN \X BOOLEAN \X BOOLEAN \X BOOLEAN
  /\ ptmr \in 0 .. 2 /\ ptmrPending \in 0 .. 2
  /\ <<vbeLatched, fbcrWritten, eraseRequested, fbSwapped>> \in
       BOOLEAN \X BOOLEAN \X BOOLEAN \X BOOLEAN
  /\ <<drawPending, drawActive, drawEnd>> \in BOOLEAN \X BOOLEAN \X BOOLEAN
  /\ line \in 0 .. Lines - 1 /\ place \in Walking /\ loaded \in Loads
  /\ cpu \in {"idle", "blank", "written", "zero", "trigger", "end"}

(* The rows of the display are composed from the change at line 1 up to the  *)
(* last line of the display.                                                 *)
Displaying ==
  \/ line = 1 /\ place \in {"tick", "draw"}
  \/ line > 1 /\ line < Active
  \/ place = "endDisplay"

(* A late erase is pending on the buffer displayed, and only until the end   *)
(* of the display ("lateEraseFB, when set, always aliases the current        *)
(* displayFB", the save state's comment).                                    *)
LateEraseIsShown ==
  lateEraseFB # None =>
    /\ lateEraseFB = displayFB
    /\ Displaying \/ place \in {"erase", "out", "latchOut", "gate"}

(* The rows of a field all come from the picture that the first row showed   *)
(* ("nothing draws into it during the display in any mode", walkVDPFrame):   *)
(* no draw that goes on over the change, no erase gets at it.                *)
DisplayHeld == Displaying => contents[displayFB] = shown

(* A buffer taken in to be erased is clean when it is handed to the drawing, *)
(* however many fields later.                                                *)
ErasedBeforeDrawn ==
  [][drawFB' # drawFB /\ requested # None => requested = drawFB' /\ contents'[drawFB'] = "clean"]_vars

(* A manual change written outside the frame change is made by the next one, *)
(* and no frame change swaps twice unless FBCR is written while it runs      *)
(* ("a single SH-2 write produces one swap, not a continuous stream").       *)
OneChange ==
  [][place' = "gate" /\ place # "gate" => ~wanted' /\ (swaps' > 1 => raced)]_vars

(* CEF never reads as ended while a draw goes on, but for a draw that went   *)
(* on through a reset.                                                       *)
ActiveNotEnded == drawActive /\ ~survived => ~cef

=============================================================================
