SPECIFICATION Spec
CONSTANTS
  W = 4
  Extra = 4
  Threshold = 2
  NPOS = NPOS
  Carried = {"backslash", "quote", "space"}
  MaxLen = 6
  MaxCarried = 9
  Texts <- AllTexts
INVARIANTS TokensExact NposFinal StoresInBuffer MinifyExact UnreadIntact SameTokens
