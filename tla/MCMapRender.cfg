CONSTANTS
  NoKey = NoKey
  Documents <- MCDocuments
  Catalogues <- MCCatalogues
  EPSILON = 2
SPECIFICATION MCSpec
INVARIANTS
  SettingsSurvive
  MapShowsNetwork
  NamesAreShown
  EverythingOnCanvas
\* The map is printed, or the settings cannot be read.
CHECK_DEADLOCK FALSE
