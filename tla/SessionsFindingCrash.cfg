\* A client dies with a start() under way.
SPECIFICATION Spec
CONSTANTS
  c1 = c1
  c2 = c2
  i1 = i1
  i2 = i2
  acc = acc
  als = als
  Clients = {c1, c2}
  Ifaces = {i1, i2}
  Sensors = {acc}
  Owner <- TwoClients
  SensorOf <- OneSensor
  MaxSessions = 2
  MayFail = FALSE
  MayTimeOut = FALSE
  StopFirst = TRUE
INVARIANT RunningHasSession
\* A behaviour ends when every client is gone or MaxSessions ids are used up.
CHECK_DEADLOCK FALSE
