SPECIFICATION Spec
CONSTANTS
  s1 = s1  v1 = v1  v2 = v2
  NumRecords = 3
  ShardLen = 2
  Statics = {s1}
  Value = {v1, v2}
  Fill = Fill
  Emit <- MCEmit
  Modes <- Early
  Habits = {"asks early"}
CHECK_DEADLOCK FALSE
PROPERTIES
  RewriteIsRefused
