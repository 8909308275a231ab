SPECIFICATION UdpSpec
CONSTANTS
  Keys = {k1, k2}
  Targets = {a1}
  Slots = {0, 1}
  MaxGeneration = 2
  ChannelCap = 1
  SendCap = 1
  PoolSize = 3
  Addrs = {a1, a2}
  Tokens = {t1, t2}
  DetailsCapacity = 1
  SessionCapacity = 1
  None = None
INVARIANTS
  SlabIsSound
  DeliveredToOwner
  NothingLeaks
PROPERTIES
  ReceiversEnd
  SessionFollowsServer
