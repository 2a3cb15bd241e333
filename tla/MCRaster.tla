------------------------------ MODULE MCRaster ------------------------------
(* Seven lines of three chunks, the last a short one; displays with a      *)
(* border of one line and with none; Timer 1 delays of nothing, less and   *)
(* more than a line.                                                       *)
EXTENDS Raster

MCActiveLines == {2, 4}
MCActiveCycles == {3, 5}
MCCompares == {1, 3}
MCDelays == {0, 3, 7}
=============================================================================
