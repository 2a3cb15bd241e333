----------------------------- MODULE MCCDDrive -----------------------------
(* A disc of an audio sector and two of data, and a host with a play of     *)
(* each kind.                                                               *)
EXTENDS CDDrive

Play(s, e, r, stay) == [op |-> "Play", start |-> s, end |-> e, repeat |-> r, stay |-> stay]
Simple(op) == [op |-> op]
MCCommands ==
  {Play(2, 4, 1, FALSE), Play(1, 0, Endless, FALSE), Play(Keep, 3, 0, TRUE),
   [op |-> "SeekFAD", fad |-> 3], [op |-> "ReadFile", start |-> 2, end |-> 4, on |-> TRUE],
   [op |-> "ReadFile", start |-> 2, end |-> 3, on |-> FALSE],
   [op |-> "Connect", on |-> TRUE],
   [op |-> "Other", frees |-> TRUE], [op |-> "Other", frees |-> FALSE]}
  \cup {Simple(op) : op \in {"PlayTrack0", "SeekPause", "Stop", "SeekUnknown", "Scan", "Abort", "Init",
                            "Authenticate", "AuthenticateMpeg"}}
MCMasks == {Flags}
============================================================================
