CONSTANTS
  a = a  b = b  c = c  v1 = v1  v2 = v2
  Keys <- MC_Keys
  Vals <- MC_Vals
  NOTARGET = NOTARGET
  NOTMAP = NOTMAP
  BADYAML = BADYAML
  NONSTRINGKEY = NONSTRINGKEY
  NONE = NONE
  FieldListChoices <- MC_FieldListChoices
  MaxEntries = 2
SPECIFICATION Spec
CHECK_DEADLOCK FALSE
INVARIANT IncludeMatchesReference
