SPECIFICATION ClientSpec
CONSTANTS
  Targets = {"skill", "config", "guidance"}
  Links = {"skill"}
  Rank <- SkillAndFiles
  Suffixes = {"s1", "s2"}
  MaxRuns = 3
  MaxEdits = 2
INVARIANTS
  UserPartSurvives
  FailureRestores
CHECK_DEADLOCK FALSE
