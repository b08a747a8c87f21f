\* Seeks that aesd_llseek rejects.
CONSTANTS
  MaxWrites = 2
  Null = Null
  Tasks = {t1, t2}
  Files = {f1}
  Addrs = {k1, k2, k3, k4}
  NoTask = NoTask
  a = a
  b = b
  nl = nl
  NewLine = nl
  Junk = Junk
  Chunks <- OneCommand
  Counts = {1}
  Seeks <- AnySeek
  SeekTos = {}
  Faults = {}
  MaxCommand = 1
SPECIFICATION Spec
INVARIANT LockReleased
