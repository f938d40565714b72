SPECIFICATION FairSpec
CONSTANTS
  m1 = m1
  m2 = m2
  m3 = m3
  Mutex <- MCMutex
  NoMutex = NoMutex
  First = m1
  MaxDepth = 2
INVARIANTS MutualExclusion NoStaleBusyFlag NoStaleForbiddenFlag
PROPERTIES ImplementsReadersWriterLock WriterGetsIn ReaderGetsIn
