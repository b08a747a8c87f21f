\* Two programs: one with three threads, two mutexes and memory for two
\* thread_data; one that makes two calls and prints two lines.
SPECIFICATION FairSpec
CONSTANTS
  Workers = {w1, w2, w3}
  Mutexes = {m1, m2}
  Blocks = {b1, b2}
  NoWorker = NoWorker
  NoBlock = NoBlock
  ThreadingFaults = {"nomem", "nothread", "nolock"}
  OutputFiles = {f1}
  MaxCalls = 2
  MaxLines = 2
  SystemCallsFaults = {"noopen", "nofork", "nodup", "eintr"}
INVARIANTS
  ExamplesTypeOK MutexHeldByOne ThreadDataOwned
  TruthfulResult TextWrittenOnce TextBeforeOutput OutputInPlace DescriptorsClosed
PROPERTIES
  SuccessReported ThreadsFinish CommandsReturn
CHECK_DEADLOCK FALSE
