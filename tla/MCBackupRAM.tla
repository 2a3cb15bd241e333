----------------------------- MODULE MCBackupRAM -----------------------------
(* Words that look like block numbers, and words that look like the end of a *)
(* list; sizes on both sides of every boundary of the layout.                *)
EXTENDS BackupRAM

CONSTANTS Sizes, ZeroSizes

Symmetry == Permutations(Names)

Counting(n) == [i \in 1 .. n |-> FirstBlock + (i % (Blocks - FirstBlock))]

MCContents == {Counting(n) : n \in Sizes} \cup {Zeros(n) : n \in ZeroSizes}

(* What every name reads back, a function of the other variables: TLC works  *)
(* it out once for a state.                                                  *)
VARIABLE files

Memory(m) == INSTANCE BackupRAM WITH ram <- m
View(m) == [n \in Names |-> Memory(m)!Held(n)]
MCInit == BackupInit /\ files = View(ram)
MCNext == BackupNext /\ \E m \in {ram'} : files' = View(m)
MCSpec == MCInit /\ [][MCNext]_<<backupVars, files>>

(* To the game the blocks are named files that read back what was written,   *)
(* whatever their words look like, and whose sizes alone decide what fits.   *)
Abstract == INSTANCE SaveFiles WITH NoFile <- None, Capacity <- Cardinality(FileBlocks)
ImplementsSaveFiles == Abstract!Spec
=============================================================================
