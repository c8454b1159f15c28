SPECIFICATION Spec
CONSTANTS
  Peers = {2, 3}
  Name <- MCName
  Domain <- MCDomain
  Endpoints = {"pub1", "pub2", "sub1", "srv1"}
  Owner <- MCOwner
  Kind <- MCKind
  Topic <- MCTopic
  Types <- MCTypes
  None = None
INVARIANTS Inv CountsAreTrue ListingIsTrue NodeNamesAreTrue
PROPERTY ImplementsView
