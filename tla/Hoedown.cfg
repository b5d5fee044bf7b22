CONSTANT
  Samples <- MCSamples
SPECIFICATION Spec
INVARIANT LettersKept EscapedKept BlocksEnd
CHECK_DEADLOCK FALSE
