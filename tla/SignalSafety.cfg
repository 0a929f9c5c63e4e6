CONSTANTS
  Signals = {s1, s2}
  Threads = {t1, t2}
  Handler = Handler
  NoThread = NoThread
  GC = GC
  HandlesGC = FALSE
  Kinds = {"Default", "Handler"}
  MaxAtomic = 2
  CallThreads = {x1, x2, x3}
  CallWorkers = {w1, w2, w3}
  CallFromCHandler = CallFromCHandler
  MaxNested = 3
  SysThreads = {y1, y2}
  MaxSysSignals = 2
  MaxSysCalls = 2
  MaxValues = 3
  MaxAfters = 2
SYMMETRY Symmetry
SPECIFICATION MCSpec
INVARIANTS TypeOK AtomicBalance PendingIsArmed NoOrphanedSignal InterruptedThreadKept SuspendNotMissed ThreadsOk SysCallsOk FinalizersOk
PROPERTIES HandlerStartsOutside KeepsPromise CallsReturn FinalizeInOrder
