SPECIFICATION Spec
CONSTANTS
  Scalars = {"null", "num"}
  Contents = {"a", "b"}
  BadContents = {"bad"}
  Junk = {"junk"}
  Refused = {"odd"}
  NPOS = "npos"
  MaxDepth = 2
  MaxTokens = 12
INVARIANTS Sound Complete ErrorsTold StacksAgree TargetsLive
CHECK_DEADLOCK FALSE
