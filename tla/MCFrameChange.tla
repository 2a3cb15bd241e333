---------------------------- MODULE MCFrameChange ----------------------------
(* The two frame buffers are interchangeable.                               *)
EXTENDS FrameChange, TLC

BufferSymmetry == Permutations(Buffers)
=============================================================================
