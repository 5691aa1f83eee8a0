CONSTANTS
  own1 = own1  own2 = own2  own3 = own3  mvn = mvn  lib = lib
  Frames = {own1, own2, own3, mvn, lib}
  Prefixed = {own1, own2, own3, mvn}
  Maven = {mvn}
  Message = Message
  Chars <- SomeChars
  Logs = {1, 2}
  NumPrefixes = 2
  Reports <- SomeReports
  Traces <- SomeTraces
  Absent = Absent
SPECIFICATION Spec
CHECK_DEADLOCK FALSE
INVARIANT FirstPrefixAnswers
INVARIANT OnlyBreaksSpoil
 
INVARIANT ComparisonIsRight
