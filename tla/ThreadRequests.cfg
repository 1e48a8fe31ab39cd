SPECIFICATION Spec
CONSTANTS
  c1 = c1  c2 = c2  m1 = m1  m2 = m2  m3 = m3  m4 = m4
  NULL = NULL  NoOne = NoOne  Worker = Worker
  Clients <- TwoClients
  Msgs <- FourMsgs
  MsgTypes <- MessageTypes
  ThreadTypes <- AllThreadTypes
  ProcessKind = "respond"
  ClientKind = "defer"
  MayThrow = FALSE
  QueueSizeLimit = 1
  MaxBegins = 2
CHECK_DEADLOCK FALSE
SYMMETRY Symmetry
INVARIANTS QueueBounded NoDangling SingleOwner NoLeak
PROPERTIES LossOnlyWhenFull RequestQueueIsMailbox ResponseQueueIsMailbox
