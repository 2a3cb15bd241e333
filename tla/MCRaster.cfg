SPECIFICATION RasterFairSpec
CONSTANTS
  LineCycles = 5
  SyncChunk = 2
  Lines = 7
  RasterLines = 4
  ActiveLines <- MCActiveLines
  ActiveCycles <- MCActiveCycles
  Compares <- MCCompares
  Delays <- MCDelays
  T0Mod = 5
  MaxWrites = 2
INVARIANT BlanksPaired
PROPERTIES TimerLine TimerOnTime CountdownEnds
