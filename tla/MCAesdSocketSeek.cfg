\* Seeks to a command the device does not have.
CONSTANTS
  Conns = {c1, c2}
  Main = Main
  Nobody = Nobody
  Null = Null
  Wild = Wild
  Garbage = {Wild}
  Seeks = {0, 1}
  Capacity = 3
  Earlier = 0
  Faults = {"seek_missing"}
  MaxStarts = 1
SPECIFICATION Spec
INVARIANT FileMutexReleased
CHECK_DEADLOCK FALSE
