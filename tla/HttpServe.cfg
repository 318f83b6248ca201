CONSTANTS
  Conns = {c1, c2, c3}
  Workers = {w1, w2}
  MaxConn = 2
  MaxRequests = 2
  NoConn = NoConn
SPECIFICATION FairSpec
INVARIANTS ConnectionLimit SocketsSound HandlerLimit NoLostSignal
PROPERTIES StopsAtLimit EverySocketCloses
CHECK_DEADLOCK FALSE
