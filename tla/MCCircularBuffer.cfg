\* Four slots, so that the ring wraps and overwrites; one block more than slots.
CONSTANTS
  MaxWrites = 4
  Null = Null
  Ptrs = {p1, p2, p3, p4, p5}
  Sizes = {1, 2, 3}
SPECIFICATION Spec
INVARIANTS TypeOK RingShape NoDanglingEntry LookupIsConcatenation
PROPERTY ImplementsRecentWrites
SYMMETRY Symmetry
