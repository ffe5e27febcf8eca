\* The adaptor's user, two overriding sessions, a device that may not open,
\* and a count that may drift by three in either direction.
SPECIFICATION PoweredSpec
CONSTANTS
  Users = {"user"}
  Sessions = {1, 2}
  OpenResults = {TRUE, FALSE}
  MaxDrift = 3
  MaxCount = 3
INVARIANTS
  ServedWhenLit
  ReaderOwnsDescriptors
