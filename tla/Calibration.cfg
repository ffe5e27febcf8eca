\* Two clients beside the handler, two levels, samples of either kind of adaptor.
SPECIFICATION Spec
CONSTANTS
  Sessions = {1, 2}
  Levels = {"bad", "good"}
  MaxQueued = 2
INVARIANTS
  StartsBalanced
  OverrideIsLimited
  QuietInPowerSave
