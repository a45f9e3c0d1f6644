CONSTANTS
  s1 = s1
  s2 = s2
  Slots <- TwoSlots
  MaxOthers = 0
  MaxToggles = 2
  MaxReboots = 0
SPECIFICATION FairSpec
PROPERTY PressIsConfirmed
