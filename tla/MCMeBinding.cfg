SPECIFICATION MCSpec
CONSTANTS
  c1 = c1
  c2 = c2
  e1 = e1
  Health = Health
  None = None
  Conns = {c1, c2}
  Writers = {w1, w2}
  Endpoints = {e1}
  EndpointOf <- OneEndpoint
  Required = 2
  MaxUpsets = 2
  Views = {"bind", "handshake", "strict", "fairness", "no_pressure"}
SYMMETRY WriterSymmetry
  
PROPERTY QueuedFramesInOrder
CHECK_DEADLOCK FALSE
