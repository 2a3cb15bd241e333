CONSTANTS
  FirstFAD = 1
  Leadout = 4
  AudioFADs = {1}
  BadFADs = {3}
  Room = 1
  Endless = 2
  Commands <- MCCommands
  MaxCommands = 2
  Flags = {"PEND"}
  Masks <- MCMasks
  Overlap = FALSE
SPECIFICATION Spec
INVARIANTS AnswerKept
PROPERTIES PlayComplete PlayEnds IrqFollows CommandAnswered
