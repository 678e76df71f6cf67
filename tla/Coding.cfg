\* Blocks of up to two fields, and any blocks of a few bytes.
CONSTANTS
  None = None
  Code <- MCCode
  Strings <- MCStrings
  Indices <- MCIndices
  Bytes <- MCBytes
  MaxFields = 2
  MaxBytes = 4
SPECIFICATION Spec
INVARIANT TypeOK
INVARIANT RoundTrip
INVARIANT StringsEndWhereTheySay
CHECK_DEADLOCK FALSE
