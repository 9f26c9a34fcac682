SPECIFICATION Spec
CONSTANTS
  Viewers = {v1,v2}
  Conns = {k1,k2}
  Shells = {s1,s2}
  MaxWire = 2
  None = None
SYMMETRY Symmetry
CHECK_DEADLOCK FALSE
INVARIANTS
  TypeOK
  OnlineMeansServed
  ReferencesMatchWhatAgentWasTold
  NoReferenceNoSession
  AttachedViewersAreCounted
