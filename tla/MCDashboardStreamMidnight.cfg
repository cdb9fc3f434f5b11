SPECIFICATION FairSpec
CONSTANTS
  phone = phone
  wall = wall
  Clients <- MCPhone
  MaxDay = 2
  MaxVersion = 2
  MaxFaults = 2
PROPERTIES PageConverges UnavailableIsRevoked
