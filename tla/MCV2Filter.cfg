\* Two connection threads.
CONSTANTS
  t1 = t1
  t2 = t2
  i1 = i1
  i2 = i2
  noid = noid
  NoId = noid
  InstanceIds <- MCIds
  InvokeLimit = 2
  Threads <- MCThreads
  ClientBuffers <- MCBuffers
  MaxIds = 1
  MaxResources = 3
SPECIFICATION Spec
SYMMETRY Symmetric
\* No request is begun once MaxResources are listed.
CHECK_DEADLOCK FALSE
INVARIANTS
  AdmissionOrder
  DeliveredWithinQuota
  BlockedCostsNothing
  ReportedIdsKept
PROPERTIES
  QuotaIsExact
