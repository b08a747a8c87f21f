\* A signal while a thread is at work; nothing fails.
CONSTANTS
  Conns = {c1, c2}
  Main = Main
  Nobody = Nobody
  Null = Null
  Wild = Wild
  Garbage = {Wild}
  Seeks = {0, 1}
  Capacity = 3
  Earlier = 0
  Faults = {}
  MaxStarts = 1
SPECIFICATION FairSpec
PROPERTY ShutdownCompletes
CHECK_DEADLOCK FALSE
