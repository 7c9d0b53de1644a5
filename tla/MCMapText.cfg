CONSTANTS
  NoKey = NoKey
  Documents <- MCDocuments
  Catalogues <- MCCatalogues
  EPSILON = 2
SPECIFICATION MCSpec
INVARIANT
  TextShownIsTextSet
\* The map is printed, or the settings cannot be read.
CHECK_DEADLOCK FALSE
