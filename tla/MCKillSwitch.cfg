CONSTANTS
  s1 = s1
  s2 = s2
  Slots <- TwoSlots
  MaxOthers = 1
  MaxToggles = 3
  MaxReboots = 1
SYMMETRY Alike
SPECIFICATION Spec
INVARIANT NoLostWait
INVARIANT RxMeansKilled
