CONSTANTS
  ByteValues = 16
  Width = 4
  Heights = {1, 2, 3}
  InputFiles <- MCInputs
  RowsBelow <- MCRowsBelow
  RiverColors <- MCRiverColors
  MaxSteps = 4
SPECIFICATION ImagesSpec
INVARIANTS ShowsItsFile SavedIsRead CanBeSaved FilesShowTheMap
PROPERTY NormalsFitHeights
CHECK_DEADLOCK FALSE
