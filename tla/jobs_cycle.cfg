CONSTANTS
  n1 = n1
  n2 = n2
  loop1 = loop1
  loop2 = loop2
  now1 = now1
  s1 = s1
  t1 = t1
  s2 = s2
  Nodes = {n1, n2}
  Callers = {loop1, loop2}
  Scheduled = {loop1, loop2}
  Sessions = {s1, s2}
  HomeOf <- MCHomeOfLoops
  Interval = 3
  InitialDelay = 2
  MaxFaults = 0
  NONE = NONE
SPECIFICATION Spec
PROPERTY OncePerCycle
