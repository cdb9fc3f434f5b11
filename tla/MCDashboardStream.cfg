SPECIFICATION Spec
CONSTANTS
  phone = phone
  wall = wall
  Clients <- MCClients
  MaxDay = 1
  MaxVersion = 3
  MaxFaults = 2
INVARIANTS NotifiedIsServed HandledIsCached WaitersHaveBuild
PROPERTIES StreamMovesForward
