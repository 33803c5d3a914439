SPECIFICATION Spec
CONSTANTS
  BargeInFrames = 3
  ReleaseFrames = 2
  MaxHeard = 8
INVARIANTS CutsWhenTalkedOver DuckedWhileTalking
