CONSTANTS
  Partitions = {0, 1}
  Filters = {0, 1}
  Off = 255
  Room = 2
  Depth = 2
  MaxSectors = 3
  MaxCommands = 4
  Accepts <- MCAccepts
SPECIFICATION Spec
INVARIANTS RoutedIfAccepted RoomKept
PROPERTIES EndDeletesWhatWasSent MovedOnce
