SPECIFICATION Spec
CONSTANTS
  Peers = {3}
  Name <- MCName
  Domain <- MCDomain
  Endpoints = {"srv1"}
  Owner <- MCOwner
  Kind <- MCKind
  Topic <- MCTopic
  Types <- MCTypes
  None = None
INVARIANTS ServiceTypesAreListed
