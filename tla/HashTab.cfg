SPECIFICATION Spec
CONSTANTS
  IntKey = {1, 2, 3}
  s1 = s1
  s2 = s2
  s3 = s3
  s4 = s4
  StrKey = {s1, s2, s3, s4}
  Nil = Nil
  StrHashes = {0, 2}
  Reasizes = {2}
  Setups <- MCSetups
INVARIANTS LengthIsBorder
PROPERTY Implements
