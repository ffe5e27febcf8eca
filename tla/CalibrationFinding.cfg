\* As Calibration, for the claim of the sensor's documentation.
SPECIFICATION Spec
CONSTANTS
  Sessions = {1, 2}
  Levels = {"bad", "good"}
  MaxQueued = 2
INVARIANTS
  SessionsServed
