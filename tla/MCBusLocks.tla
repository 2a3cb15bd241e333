----------------------------- MODULE MCBusLocks -----------------------------
(* Values for the constants of BusLocks are in the configurations.          *)
EXTENDS BusLocks_proofs
=============================================================================
