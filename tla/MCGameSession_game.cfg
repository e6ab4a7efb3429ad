SPECIFICATION Spec
CONSTANTS
  e1 = e1
  e2 = e2
  e3 = e3
  s1 = s1
  Enemies <- AllEnemies
  Shots <- OneShot
  MaxGames = 4
  MaxScore = 5
  MaxLives = 4
SYMMETRY EnemySymmetry
INVARIANTS
  GameStands
  SavedOnce
  BestAreBest
  
CHECK_DEADLOCK FALSE
