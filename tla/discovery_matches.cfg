CONSTANTS
  None = None
  self = self
  remote = remote
  chatter = chatter
  pub1 = pub1
  pub2 = pub2
  sub1 = sub1
  srv1 = srv1
  Peers = {self, remote}
  Self = self
  Topics = {chatter}
  Endpoints = {pub1, sub1}
  Kind <- KindOf
  Topic <- TopicOf
  RemoteInfos <- Remotes
  Lossy = TRUE
  MaxInbox = 1
  MaxFailures = 1
SPECIFICATION Spec
INVARIANTS Inv TypeOK NoMissedGraphChange MatchedIsSound
