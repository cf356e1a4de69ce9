CONSTANT
  MaxProbes = 2
SPECIFICATION LiveSpec
INVARIANTS IdleWatched OffMeansOff
PROPERTIES JoyEnds AttacksOrHangs
