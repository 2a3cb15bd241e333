\* A CPU renderer or a GPU renderer whose pair the session has asked for, and
\* a GPU renderer.  Software may put the sprite-end DMA and the DSP on the
\* B-Bus, and the DSP on the SCU's registers: then the goroutines may all stop.
CONSTANTS
  CpuAreas = {"CPUBus", "BBus"}
  WalkerAreas = {"CPUBus", "BBus"}
  DspAreas = {"CPUBus", "BBus", "SCU"}
  FrameBufferRead = TRUE
  KeptAtStart = {TRUE, FALSE}
SPECIFICATION FairSpec
INVARIANTS NoDeadlock AcquisitionOrder
PROPERTY OperationsEnd
CHECK_DEADLOCK FALSE
