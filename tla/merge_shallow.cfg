SPECIFICATION ShallowSpec
CONSTANT Provinces <- FourProvinces
INVARIANTS ParentChildAgree CallsReturn
PROPERTY GroupsSpec
