\* Seeks to a command that a full ring of two does not have.
CONSTANTS
  MaxWrites = 2
  Null = Null
  Tasks = {t1, t2}
  Files = {f1}
  Addrs = {k1, k2, k3, k4}
  NoTask = NoTask
  a = a
  b = b
  nl = nl
  NewLine = nl
  Junk = Junk
  Chunks <- OneCommand
  Counts = {1}
  Seeks = {}
  SeekTos <- CommandStarts
  Faults = {}
  MaxCommand = 1
SPECIFICATION Spec
PROPERTY SeekToRejectsOutOfRange
