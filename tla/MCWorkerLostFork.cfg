SPECIFICATION Spec
CONSTANTS
  d1 = d1  w1 = w1  e1 = e1
  Databases = {d1}
  Workers = {w1}
  Extensions = {e1}
  DatabaseOf <- OneDatabase
  ExtensionOf <- OneExtension
  Pids = {p1, p2, p3}
  NoPid = NoPid
  Clients = {c1}
  MaxFailures = 1
  Workloads <- FaultyDrop
INVARIANTS
  StoppedInvocationWillExit
SYMMETRY Symmetry
CHECK_DEADLOCK FALSE
