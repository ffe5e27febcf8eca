\* Two users, two overriding sessions, a sensor of either kind with a bound
\* sensor of each kind, and a HAL that may refuse.
SPECIFICATION ManagerSpec
CONSTANTS
  u1 = u1
  u2 = u2
  s1 = s1
  s2 = s2
  p = p
  q = q
  r = r
  Users = {u1, u2}
  Sessions = {s1, s2}
  Results = {TRUE, FALSE}
  Primary = p
  OneshotSecondaries = {q}
  OtherSecondaries = {r}
  MaxEvents = 3
INVARIANTS
  WantedRuns
  CanFire
  StoppedIsOff
PROPERTIES
  DisplayOffStops
