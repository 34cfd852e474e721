CONSTANTS
  Threads = {t1, t2, t3}
  Objects = {o1, o2, o3}
SPECIFICATION Spec
INVARIANTS TypeOK Exclusive CountersExact NotAllSpin
PROPERTIES ImplementsAllocator
