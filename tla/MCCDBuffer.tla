----------------------------- MODULE MCCDBuffer -----------------------------
(* Two partitions with their filters and three sectors; a filter accepts    *)
(* nothing, the first sector or everything.                                 *)
EXTENDS CDBuffer

MCAccepts == {{}, {1}, Sectors}
=============================================================================
