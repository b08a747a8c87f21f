\* Every failure but a split packet, which MCAesdSocketServe has, and a
\* client_thread_node that holds anything.
CONSTANTS
  Conns = {c1, c2}
  Main = Main
  Nobody = Nobody
  Null = Null
  Wild = Wild
  Garbage = {c1, c2, Wild}
  Seeks = {0, 2}
  Capacity = 2
  Earlier = 1
  Faults = {"nothread", "nomem_node", "nomem_buffer", "nofile", "hangup", "bad_format", "seek_missing", "seek_past", "nowrite", "sigpipe", "nostart", "nosocket", "second_instance"}
  MaxStarts = 2
SYMMETRY Symmetry
SPECIFICATION Spec
INVARIANTS TypeOK FileMutexExclusion 
CHECK_DEADLOCK FALSE
