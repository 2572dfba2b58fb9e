SPECIFICATION Spec
CONSTANTS
  UserCount = 2
  ProjectCount = 2
  TaskCount = 2
  CommentCount = 1
  FileCount = 1
  Runs = 2
INVARIANTS
  TypeOK
  LinkedOrPlaceholder
  FinishedIsLinked
  OnceOnly
  OneLeakPerRun
PROPERTIES
  OthersKept
  Completes
CHECK_DEADLOCK FALSE
