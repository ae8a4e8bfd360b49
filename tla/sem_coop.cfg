\* No timer: threads switch only where they call the library.
SPECIFICATION AppSpec
CONSTANTS
  t1 = t1
  t2 = t2
  t3 = t3
  t4 = t4
  t5 = t5
  m = m
  n = n
  d = d
  Thread = {t1, t2, t3, t4, t5}
  Pool <- Five
  Idle = idle
  First = t1
  Nil = nil
  Yielders = {t1, t2, t3}
  Preempts = FALSE
  Semaphore <- AllSemaphore
  Static <- AllStatic
  InitCount <- AllCount
  Programs <- AppPrograms
  BufferSize = 2
  Counts <- ManyCounts
INVARIANTS
  SemTypeOK
  NoLostWakeup
  NoUseAfterFree
  AppOutput
PROPERTIES
  AtomicSemaphore
  GrantedResumes
  AppsFinish
