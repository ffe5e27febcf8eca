\* Two users and two overriding sessions; the device may fail to open.
\* MaxDrift bounds the references lost by failed starts and standbys.
SPECIFICATION Spec
CONSTANTS
  u1 = u1
  u2 = u2
  s1 = s1
  s2 = s2
  Users = {u1, u2}
  Sessions = {s1, s2}
  OpenResults = {TRUE, FALSE}
  MaxDrift = 4
INVARIANTS
  ReaderOwnsDescriptors
  StandbyReleasesDevice
  CountedIsServed
PROPERTIES
  LastStopReleases
  GoingDarkReleases
