\* Three threads: t1 and t2 may yield and return in the end, t3 may compute
\* for ever without calling the library.
SPECIFICATION ReturningSpec
CONSTANTS
  t1 = t1
  t2 = t2
  t3 = t3
  Thread = {t1, t2, t3}
  Idle = idle
  First = t1
  Nil = nil
  Yielders = {t1, t2}
  Returning = {t1, t2}
  Preempts = TRUE
INVARIANTS
  TypeOK
  CurrentIsRunning
  ReadyTokens
  ExitIsFinal
  ReturnsAfterAll
  Preemptible
PROPERTIES
  NoStarvation
  ReturnsEventually
