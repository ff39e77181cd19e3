SPECIFICATION Spec
CONSTANT Provinces <- ThreeProvinces
PROPERTY MergeJoinsTrees
