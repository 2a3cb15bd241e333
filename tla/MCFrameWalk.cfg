SPECIFICATION Spec
CONSTANTS
  Chunk = 2
  Slack = 2
  LineWidths <- MCWidths
  LineCounts <- MCCounts
  Signals <- BothSignals
  Readers <- BothReaders
  Commands <- OneCommand
INVARIANTS
  QuietBoundary
PROPERTIES
  FrameCompletes
  ReadAnswered
  CaptureWithinTwoChunks
  ImplementsClock
CONSTRAINT
  NotOvertaken
