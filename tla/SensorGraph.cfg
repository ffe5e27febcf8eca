\* Sensors and bins that share chains, and a sensor with an adaptor of its own; any
\* one plugin may be missing and any device may fail to open.
SPECIFICATION Spec
CONSTANTS
  Sensors = {"accelerometersensor", "magnetometersensor", "rotationsensor", "lidsensor", "orientationbin", "compassbin", "stabilitybin"}
  UpperChains = {"orientationchain", "compasschain"}
  LowerChains = {"accelerometerchain", "magcalibrationchain"}
  Adaptors = {"accelerometeradaptor", "magnetometeradaptor", "orientationadaptor", "lidsensoradaptor"}
  Sessions = {s1, s2}
  OrientationConfigured = TRUE
  MaxMissing = 1
  MaxSensors = 3
  MaxActive = 2
SYMMETRY SessionSymmetry
INVARIANTS
  CountsAgree
  SingleUser
  ConstructorsServed
PROPERTIES
  ImplementsSupply
