SPECIFICATION Spec
CONSTANTS
  Chunk = 2
  Slack = 2
  LineWidths <- MCWidths
  LineCounts <- MCCounts
  Signals <- NoSignals
  Readers <- NoSignals
  Commands <- NoSignals
PROPERTIES
  EveryFrameCompletes
CHECK_DEADLOCK FALSE
