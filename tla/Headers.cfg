CONSTANTS
  Requests <- SomeRequests
  Heads <- SomeHeads
  Vary <- ByLanguage
  NotText <- NotUtf8
  Replacement = "replacement"
  Lowercase <- LowercaseHosts
  ListenerHost = "listener"
  UpstreamHost = "upstream"
  None = none
SPECIFICATION Spec
INVARIANTS
  StoredAnswerFits
  OriginGetsOurs
  PreconditionsNotMixed
  ClientGetsEndToEnd
