CONSTANTS
  s1 = s1
  s2 = s2
  Slots <- TwoSlots
  MaxOthers = 1
  MaxToggles = 6
  MaxReboots = 0
SYMMETRY Alike
SPECIFICATION Spec
INVARIANT KillDropsBothGates
