SPECIFICATION Spec
CONSTANTS
  Keys = {1, 2}
  MaxLimbo = 1
  MaxChanges = 2
  MaxWrites = 1
  Disturbances <- OneOrTwo
INVARIANTS
  Sound
  LimboIsTracked
  
  
PROPERTIES
  NeverOlder
CHECK_DEADLOCK FALSE
