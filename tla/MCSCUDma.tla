------------------------------ MODULE MCSCUDma ------------------------------
(* The horizontal blank, at times with Timer 1 behind it, on the main       *)
(* goroutine and the end of drawing on the walker.                          *)
EXTENDS SCUDma

MCEvents == [main |-> {<<2>>, <<2, 4>>}, secondary |-> {}, walker |-> {<<6>>}]
=============================================================================
