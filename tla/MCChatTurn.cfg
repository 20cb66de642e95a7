CONSTANTS
  Sessions = {s1, s2}
  Workspaces = {w1, w2}
  NoSession = NoSession
  NoWorkspace = NoWorkspace
  Threshold = 2
  KeepRecent = 1
  MaxTurns = 2
SPECIFICATION Spec
INVARIANTS
  HistorySound
  AnswersKept
  CountedOnce
  QuestionAnswered
CHECK_DEADLOCK FALSE
CONSTANTS
  MaxCuts = 1
