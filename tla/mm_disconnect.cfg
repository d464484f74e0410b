SPECIFICATION Spec
CONSTANTS
  c1 = c1
  c2 = c2
  c3 = c3
  c4 = c4
  Clients <- ThreeClients
  Faults <- SendFault
INVARIANT DisconnectionFindsClient
