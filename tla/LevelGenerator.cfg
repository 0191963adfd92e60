CONSTANTS
  SKIPLIST_LEVELS = 4
  Insertions = 1000
SPECIFICATION Spec
INVARIANT LevelInList
