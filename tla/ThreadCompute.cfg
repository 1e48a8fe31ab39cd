SPECIFICATION Spec
CONSTANTS
  c1 = c1  c2 = c2  m1 = m1  m2 = m2  m3 = m3  m4 = m4
  NULL = NULL  NoOne = NoOne  Worker = Worker
  Clients <- OneClient
  Msgs <- TwoMsgs
  MsgTypes <- RequestResponse
  ThreadTypes <- OnlyMessage
  ProcessKind = "consume"
  ClientKind = "poll"
  MayThrow = FALSE
  QueueSizeLimit = 2
  MaxBegins = 1
CHECK_DEADLOCK FALSE
INVARIANTS NoDangling
