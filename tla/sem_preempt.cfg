\* The timer expires anywhere.
SPECIFICATION SemSpec
CONSTANTS
  t1 = t1
  t2 = t2
  t3 = t3
  m = m
  n = n
  d = d
  Thread = {t1, t2, t3}
  Idle = idle
  First = t1
  Nil = nil
  Yielders = {t2}
  Preempts = TRUE
  Semaphore = {m, n, d}
  Static = {m, n}
  InitCount <- PreemptCount
  Programs <- PreemptPrograms
INVARIANTS
  TokenBalance
  SemReadyTokens
  NoEmptyDequeue
