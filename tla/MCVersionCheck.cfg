SPECIFICATION Spec
CONSTANTS
  Processes = {p1, p2}
  Loaders = {p1}
  Checkers = {p2}
  Keys <- MCKeys
  Values = {"acme", "file"}
  Unset = Unset
  NoCopy = NoCopy
  Accepted <- MCAccepted
  WebURLs = {"default"}
  FileURLs = {"file"}
  CleartextURLs = {"plain"}
  DefaultDiscoveryURL = "default"
  cacheTTL = 1
  MaxFetch = 1
  NoDoc = NoDoc
  MaxTime = 6
  MaxShift = 1
CONSTRAINT Small
INVARIANTS NoSettingIsLost DocIsRecent MinIsRecent HostIsRecent
CHECK_DEADLOCK FALSE
