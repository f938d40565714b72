SPECIFICATION Spec
CONSTANTS
  t1 = t1
  t2 = t2
  t3 = t3
  s0 = s0
  s1 = s1
  s2 = s2
  s3 = s3
  s4 = s4
  Thread = {t1}
  State = {s0}
  Initial <- OneInitial
  Targets <- Loop
  Stochastic = {FALSE}
  Timed = TRUE
  ShareLimit = 1
  MayAbort = FALSE
PROPERTIES DiscoverOnce
