\* Two writers whose writes cut the commands in every way; a ring of two that
\* overwrites; every failure of a write that the driver undoes.
CONSTANTS
  MaxWrites = 2
  Null = Null
  Tasks = {t1, t2}
  Files = {f1}
  Addrs = {k1, k2, k3, k4, k5}
  NoTask = NoTask
  a = a
  b = b
  nl = nl
  NewLine = nl
  Junk = Junk
  Chunks <- WriterChunks
  Counts = {}
  Seeks = {}
  SeekTos = {}
  Faults = {"nomem_kbuf", "nomem_rest", "eintr"}
  MaxCommand = 2
SYMMETRY Symmetry
SPECIFICATION Spec
INVARIANTS TypeOK MutualExclusion LockReleased PointersSound NoLeak EntriesAreCommands NothingUninitialised
PROPERTIES ImplementsCommandWindow WriteStoresWhatItReports
