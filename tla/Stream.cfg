CONSTANTS
  Conns = {c1, c2}
  Sends = {s1, s2}
  Bare = {s1}
  BufCap = 1
  Env <- MCEnv
  NoConn = NoConn
SPECIFICATION FairSpec
INVARIANT TypeOK LiveIsReachable RegisteredIsServed
PROPERTY ForgottenReconnects InOrderAtMostOnce
