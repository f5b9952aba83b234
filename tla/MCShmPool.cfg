SPECIFICATION AccessSpec
CONSTANTS
  Buffers = {b1, b2, b3}
  MaxSize = 4
  MaxExternal = 2
  Threads = {t1, t2}
  MaxNesting = 2
CHECK_DEADLOCK FALSE
SYMMETRY Symmetry
INVARIANTS MappedWhileUsed BuffersAreMapped CachedPointersStable DeferredResizeApplied 
