SPECIFICATION FairSpec
CONSTANTS
  c1 = c1  c2 = c2  m1 = m1  m2 = m2  m3 = m3  m4 = m4
  NULL = NULL  NoOne = NoOne  Worker = Worker
  Clients <- TwoClients
  Msgs <- FourMsgs
  MsgTypes <- RequestResponse
  ThreadTypes <- OnlyMessage
  ProcessKind = "consume"
  ClientKind = "poll"
  MayThrow = TRUE
  QueueSizeLimit = 1
  MaxBegins = 2
CHECK_DEADLOCK FALSE
PROPERTIES RequestServed WaiterAnswered EndReturns
