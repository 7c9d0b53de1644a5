CONSTANTS
  Tokens <- MCTokens
  RareTokens <- MCRareTokens
  MaxTokens = 8
  MaxRare = 5
  Digits = 2
  IntMax = 120
SPECIFICATION Spec
INVARIANTS
  TextMeansValue
  PrintedReadsBack
\* The text is read, printed and read again.
CHECK_DEADLOCK FALSE
