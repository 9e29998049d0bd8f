SPECIFICATION FairSpec
CONSTANTS
  c1 = c1  c2 = c2  c3 = c3  c4 = c4
  anna = anna  ben = ben  cleo = cleo
  Client = {c1, c2, c3, c4}
  Record = {anna, ben, cleo}
  RecordOf <- MCRecordOf
  NameOf <- MCNameOf
  NoName = NoName
  Nobody = Nobody
  MaxCrashes = 1
INVARIANTS
  NumbersIssuedOnce
  OneUserPerRecord
PROPERTY
  ServedInTheEnd
CHECK_DEADLOCK FALSE
