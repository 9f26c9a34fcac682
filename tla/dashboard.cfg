SPECIFICATION FairSpec
CONSTANTS
  Pages = {p1,p2}
  Changes = {c1,c2}
  MaxFails = 1
CHECK_DEADLOCK FALSE
INVARIANTS
  TypeOK
  AgreeUnlessDropped
PROPERTIES
  OnlyStraysGoBack
  ChangeArrives
