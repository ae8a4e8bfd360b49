\* One thread takes each semaphore and one releases it.
SPECIFICATION SemSpec
CONSTANTS
  t1 = t1
  t2 = t2
  t3 = t3
  m = m
  n = n
  d = d
  Thread = {t1, t2, t3}
  Idle = idle
  First = t1
  Nil = nil
  Yielders = {}
  Preempts = TRUE
  Semaphore = {m, n, d}
  Static = {m, n}
  InitCount <- PreemptCount
  Programs <- PairPrograms
INVARIANT NoOvertake
