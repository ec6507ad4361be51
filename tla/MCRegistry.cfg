SPECIFICATION RegistrySpec
CONSTANTS
  Parts = {"keys", "values", "enumeration"}
  Object = {o1, o2, o3}
  Handle = {h1, h2, h3}
  Null = Null
  Predefined = Predefined
  Leftover = {Null, Predefined, h1}
  n1 = n1
  n2 = n2
  n3 = n3
  long = long
  Numbers = {1, 2}
  Strings <- MCStrings
  Lists <- MCLists
  Blobs <- MCBlobs
  Foreign <- MCForeign
  MaxValueChanges = 2
  MaxValueCalls = 2
  Name = {n1, n2, n3, long}
  Length <- MCLength
  MaxChanges = 2
  MaxCalls = 1
INVARIANTS KeysOwned ValuesRight EnumerationRight
CHECK_DEADLOCK FALSE
