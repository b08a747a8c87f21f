\* The server is stopped with a signal and started again; nothing fails.
CONSTANTS
  Conns = {c1, c2}
  Main = Main
  Nobody = Nobody
  Null = Null
  Wild = Wild
  Garbage = {Wild}
  Seeks = {0, 1}
  Capacity = 3
  Earlier = 0
  Faults = {}
  MaxStarts = 2
SPECIFICATION Spec
INVARIANT PacketsReachTheDevice
CHECK_DEADLOCK FALSE
