SPECIFICATION ViewSpec
CONSTANTS
  Provinces <- ThreeProvinces
  MaxStateID = 2
  Nothing = Nothing
  p = p
  q = q
  r = r
SYMMETRY Renamings
INVARIANTS CopiesAgree FrameShowsStates
PROPERTIES AssignmentSpec
