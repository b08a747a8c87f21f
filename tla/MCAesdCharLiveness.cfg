\* Every kind of call on a ring of one, with fairness. No symmetry: the property
\* is temporal.
CONSTANTS
  MaxWrites = 1
  Null = Null
  Tasks = {t1, t2}
  Files = {f1}
  Addrs = {k1, k2, k3, k4}
  NoTask = NoTask
  a = a
  b = b
  nl = nl
  NewLine = nl
  Junk = Junk
  Chunks <- OneCommand
  Counts = {1}
  Seeks <- EndOnly
  SeekTos <- FirstByte
  Faults = {"nomem_kbuf", "efault_read", "eintr"}
  MaxCommand = 1
SPECIFICATION FairSpec
PROPERTY CallsReturn
