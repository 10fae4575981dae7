SPECIFICATION Spec
CONSTANTS
  Blobs = {b1, b2}
  Tasks = {t1, t2}
  Owners = {o1, o2, u1}
  Expiring = {u1}
  None = None
  MinAge = 1
  Droppable = {t1, t2}
  MaxTime = 2
  MaxPauses = 1
SYMMETRY Symmetry
INVARIANTS RefsExact ReferencedOnDisk FreshInFlightKept
