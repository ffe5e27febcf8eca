\* Two clients of one sensor that connect in time and stop before they release.
SPECIFICATION Spec
CONSTANTS
  c1 = c1
  c2 = c2
  i1 = i1
  i2 = i2
  acc = acc
  als = als
  Clients = {c1, c2}
  Ifaces = {i1, i2}
  Sensors = {acc}
  Owner <- TwoClients
  SensorOf <- OneSensor
  MaxSessions = 3
  MayFail = TRUE
  MayTimeOut = FALSE
  StopFirst = TRUE
INVARIANTS
  CountIsActive
  StartedIsActive
  NothingLeftBehind
\* A behaviour ends when every client is gone or MaxSessions ids are used up.
CHECK_DEADLOCK FALSE
