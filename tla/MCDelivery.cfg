CONSTANTS
  Last = 2
  Active = 2
  Regions = 2
  MaxVersions = 2
SPECIFICATION Spec
INVARIANT PairIsCurrent
PROPERTIES RowIsCurrent EverythingArrives
