\* The server as it is built, with clients that send what it expects.
CONSTANTS
  Conns = {c1, c2}
  Main = Main
  Nobody = Nobody
  Null = Null
  Wild = Wild
  Garbage = {Wild}
  Seeks = {0, 1}
  Capacity = 2
  Earlier = 0
  Faults = {"nothread", "nomem_buffer", "split", "bad_format", "nosocket"}
  MaxStarts = 1
SPECIFICATION FairSpec
INVARIANTS FileMutexReleased SocketClosedAfterUse NoThreadForgotten ExitJoinsAll OpenedIsNamed
PROPERTIES RepliesArrive GracefulExit
CHECK_DEADLOCK FALSE
