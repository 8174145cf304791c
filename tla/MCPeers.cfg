\* Every connection of an instance may be gone.
CHECK_DEADLOCK FALSE
CONSTANTS
  h = h  c1 = c1  c2 = c2 
  Addr = {h}
  NoAddr = NoAddr
  Conn = {c1, c2}
  NoConn = NoConn
  AddrOf <- MCAddrOf
  Offences = {"flood", "overlong", "BLOCK", "PING"}
  BanThreshold = 2
  MessageBound = 3
SPECIFICATION PeersFairSpec
INVARIANTS ListedIsRead ReadIsListed 
PROPERTIES UnlistedEnds
