------------------------------- MODULE MCSMPC -------------------------------
(* The SMPC's delays in proportion, with frames of two lines: an INTBACK    *)
(* takes longer than a switch, and a reset longer than a frame.             *)
EXTENDS SMPC_proofs

MCDelay == [c \in Commands |-> CASE c = "INTBACK" -> 2 [] c \in {"SYSRES", "CKCHG"} -> 4 [] OTHER -> 1]
=============================================================================
