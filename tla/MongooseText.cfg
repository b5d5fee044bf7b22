CONSTANTS
  Inputs <- MCInputs
  Letters <- MCLetters
  Patterns <- MCPatterns
  FirstYear = 1970
  LastYear = 2036
SPECIFICATION MCSpec
INVARIANT MatchesRight NoDoubleDots ReadsRight DateRight
CHECK_DEADLOCK FALSE
