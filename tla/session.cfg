SPECIFICATION Spec
CONSTANTS
  SavedMap <- ThreeProvinces
  ImportedMap <- OneProvince
  MaxStateID = 2
  MaxSelected = 2
  MaxLoads = 2
  MaxCached = 2
INVARIANTS WindowFollowsProject SelectionShown ListsAreCurrent CacheHoldsLatest
CHECK_DEADLOCK FALSE
VIEW ButSelectedStates
