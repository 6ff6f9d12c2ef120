SPECIFICATION MCSpec
CONSTANTS
  w1 = w1
  w2 = w2
  e1 = e1
  e2 = e2
  Health = Health
  None = None
  Conns = {c1, c2}
  Writers = {w1, w2}
  Endpoints = {e1, e2}
  EndpointOf <- TwoEndpoints
  Required = 1
  MaxUpsets = 3
 
PROPERTIES PoolFloorRestored  SendEnds PublishedMapIsReinitialized
CHECK_DEADLOCK FALSE
