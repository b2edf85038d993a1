SPECIFICATION Spec
CONSTANTS
  Byte = {0, 1}
  Capacity = 4
  MaxChunk = 4
INVARIANTS
  NoOverlap
PROPERTY ImplementsFifo
