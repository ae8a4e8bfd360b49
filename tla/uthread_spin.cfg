\* A thread that has called uthread_yield() computes for ever.
SPECIFICATION FairSpec
CONSTANTS
  t1 = t1
  t2 = t2
  t3 = t3
  Thread = {t1, t2, t3}
  Idle = idle
  First = t1
  Nil = nil
  Yielders = {t1}
  Returning = {}
  Preempts = TRUE
PROPERTY NoStarvation
