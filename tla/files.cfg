SPECIFICATION Spec
CONSTANTS
  f1 = f1
  f2 = f2
  m1 = m1
  m2 = m2
  c1 = c1
  s1 = s1
  Folders <- MCFolders
  Maps <- MCMaps
  Images <- MCImages
  Continents <- MCContinents
  StateIDs <- MCStateIDs
  Nothing = Nothing
  Unassigned = Unassigned
  Missing = Missing
  Torn = Torn
  MaxSteps = 5
SYMMETRY Symmetry
INVARIANTS RoundTrip ShownIsSaved ContinentsExported VersionNamedFirst
CHECK_DEADLOCK FALSE
