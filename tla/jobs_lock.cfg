CONSTANTS
  n1 = n1
  n2 = n2
  loop1 = loop1
  loop2 = loop2
  now1 = now1
  s1 = s1
  t1 = t1
  s2 = s2
  Nodes = {n1, n2}
  Callers = {loop1, loop2, now1}
  Scheduled = {loop1, loop2}
  Sessions = {s1, t1, s2}
  HomeOf <- MCHomeOf
  Interval = 2
  InitialDelay = 1
  MaxFaults = 2
  NONE = NONE
SPECIFICATION FairSpec
INVARIANTS TypeOK RunsAlone 
PROPERTY JobKeepsRunning
