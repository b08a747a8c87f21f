\* Two tasks that share a file and read, seek and write on it.
CONSTANTS
  MaxWrites = 2
  Null = Null
  Tasks = {t1, t2}
  Files = {f1}
  Addrs = {k1, k2, k3, k4}
  NoTask = NoTask
  a = a
  b = b
  nl = nl
  NewLine = nl
  Junk = Junk
  Chunks <- ReaderChunks
  Counts = {0, 1, 2}
  Seeks <- AnySeek
  SeekTos <- AnySeekTo
  Faults = {"nomem_kbuf", "nomem_grow", "nomem_rest", "efault_read", "efault_write", "eintr", "unload_partial"}
  MaxCommand = 1
SYMMETRY Symmetry
SPECIFICATION Spec
INVARIANTS MutualExclusion PointersSound
PROPERTIES ReadsDeliverTheStream SeekToFindsTheByte
