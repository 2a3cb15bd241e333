SPECIFICATION Spec
CONSTANTS
  Buffers = {b0, b1}
  None = None
  Lines = 4
  Active = 3
SYMMETRY BufferSymmetry
INVARIANT DisplayHeld
PROPERTIES ErasedBeforeDrawn OneChange
