CONSTANTS
  a = a  b = b  c = c  v1 = v1  v2 = v2
  Keys <- MC_Keys
  Vals <- MC_Vals
  NOTARGET = NOTARGET
  NOTMAP = NOTMAP
  BADYAML = BADYAML
  NONSTRINGKEY = NONSTRINGKEY
  NONE = NONE
  FieldListChoices <- MC_FieldListChoices
  MaxEntries = 2
SPECIFICATION Spec
\* A failed try_from leaves no processor to run: the pipeline stops there.
CHECK_DEADLOCK FALSE
INVARIANT TypeOK
INVARIANT IncludeMatchesReferenceWithoutChaining
INVARIANT UnitTestsAgree
