SPECIFICATION Spec
CONSTANTS
  IntKey = {11, 12, 13, 14}
  s1 = s1
  s2 = s2
  s3 = s3
  s4 = s4
  StrKey = {s1, s2, s3, s4}
  Nil = Nil
  StrHashes = {0}
  Reasizes = {}
  Setups <- MCResurrected
PROPERTY Implements
