INIT PartsInit
NEXT PartsNext
CONSTANTS
  Requests <- SomeRequests
  Timeouts = {TRUE, FALSE}
  MaxRuns = 2
  MaxOutput = 2
  OwnKeys = {k1, k2, k3}
  CmaKeys = {c1, c2}
  OtherKeys = {o1}
  Addrs = {a, b}
  NoKey = NoKey
  CMA = CMA
  NoIdentity = NoIdentity
  Threshold = 50
  FsTypes = {cmd, hb}
  Commands = {cmd}
  Contents <- SomeFrames
  Cma = cma
  Other = other
  NanoKeys = {n1, n2}
  LostKeys = {n2}
  None = None
  MaxFrames = 2
  MaxWire = 2
  MaxDelivered = 1
  Peers <- SomePeers
  Texts <- SomeTexts
  LocalAddrs <- SomeLocals
  AliasFrom <- LocalHosts
  SockBufSizes = {40}
  KernelMax = 10
  NoAddr = NoAddr
  LinkPackets <- SomeLinkPackets
  IPs = {i1, i2}
  Macs = {m1, m2}
  NoIds = NoIds
  NoMac = NoMac
  Pids = {q1, q2, q3}
  NoFile = NoFile
  BadPid = BadPid
INVARIANT PartsTypeOK
INVARIANT ChildOutlivesWatch
INVARIANT ReplyHasOutput
INVARIANT OneSigningKey
INVARIANT CanEncrypt
INVARIANT ArrivesAsMade
INVARIANT WrappedOnce
INVARIANT SentToWhomMeant
INVARIANT EqualAddressesAlike
INVARIANT TextReadsBack
INVARIANT SwitchIsKnown
INVARIANT PidFileNamesTheOne
PROPERTY ArpMapIsSent
\* A command that is done with, or a program without a port, has nothing left to do.
CHECK_DEADLOCK FALSE
