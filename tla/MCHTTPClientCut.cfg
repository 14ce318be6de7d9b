CONSTANTS
  c1 = c1  c2 = c2
  m1 = m1  m2 = m2
  Caller <- OneCaller
  Message <- MCMessage
  Worker = worker
  Host = host
  Responses <- CutReplies
  None = None
SPECIFICATION FairSpec
PROPERTY ReplyParsed
