CONSTANTS
  None = None
  self = self
  remote = remote
  chatter = chatter
  pub1 = pub1
  pub2 = pub2
  sub1 = sub1
  srv1 = srv1
  Peers = {self}
  Self = self
  Topics = {chatter}
  Endpoints = {pub1, pub2, srv1}
  Kind <- KindOf
  Topic <- TopicOf
  RemoteInfos <- Remotes
  Lossy = FALSE
  MaxInbox = 2
  MaxFailures = 1
SPECIFICATION FairSpec
INVARIANTS PayloadCovers
PROPERTIES EndpointIsDiscovered
