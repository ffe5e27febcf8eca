\* One client with an interface to each of two sensors: the connection timer may
\* beat it, a sensor may prove invalid, and it releases without stopping.
SPECIFICATION FairSpec
CONSTANTS
  c1 = c1
  c2 = c2
  i1 = i1
  i2 = i2
  acc = acc
  als = als
  Clients = {c1}
  Ifaces = {i1, i2}
  Sensors = {acc, als}
  Owner <- OneClient
  SensorOf <- TwoSensors
  MaxSessions = 2
  MayFail = TRUE
  MayTimeOut = TRUE
  StopFirst = FALSE
INVARIANTS
  SessionsAgree
PROPERTIES
  ImplementsRegistry
  DeadClientsReleased
\* A behaviour ends when every client is gone or MaxSessions ids are used up.
CHECK_DEADLOCK FALSE
