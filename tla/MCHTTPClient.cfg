CONSTANTS
  c1 = c1  c2 = c2
  m1 = m1  m2 = m2
  Caller <- MCCaller
  Message <- MCMessage
  Worker = worker
  Host = host
  Responses <- MCResponses
  None = None
SPECIFICATION FairSpec
INVARIANTS NoLostWakeup OneThreadSends RequestsAccountedFor
PROPERTIES ImplementsExchanges RequestsAnswered ShutdownFinal
