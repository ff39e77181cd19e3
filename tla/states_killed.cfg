SPECIFICATION StrictSpec
CONSTANTS
  Provinces <- TwoProvinces
  MaxStateID = 3
INVARIANTS AvailableAreUnused AssignedIsListed IDsAccountedFor
