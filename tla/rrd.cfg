SPECIFICATION Spec
CONSTANTS
  Size = 3
  Fill = 2
  Item = {item}
  Empty = empty
  Own = own
  Other = {other}
  AInterval = 2
  Calls = {}
  MaxIndex = 5

INVARIANTS CountInWindow AnswersOfTimeline
PROPERTIES RefinesTimeline
