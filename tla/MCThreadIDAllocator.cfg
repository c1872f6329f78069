\* 2 -> 4 slots, four renderers for three IDs: the list empties, grows,
\* refuses and refills.
CONSTANTS
  Renderer = {r1, r2, r3, r4}
  InitialSize = 2
  MaxSize = 4
SPECIFICATION Spec
SYMMETRY Symmetry
INVARIANTS
  TypeOK
  LiveIDsDistinct
  FreeListIntact
PROPERTIES
  ImplementsPool
