SPECIFICATION ActionSpec
CONSTANTS
  Provinces <- TwoProvinces
  Adjacent <- Border
  Names <- OneName
  MaxHistory = 3
INVARIANT HistoryFits
PROPERTY TimelineSpec
