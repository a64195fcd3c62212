\* C++11 threads: the logger
SPECIFICATION LocksSpec
CONSTANTS
  Threads = {t1, t2}
  Master = t0
INVARIANT LoggerExclusive
