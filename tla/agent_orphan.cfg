SPECIFICATION Spec
CONSTANTS
  Viewers = {v1,v2}
  Conns = {k1}
  Shells = {s1,s2}
  MaxWire = 2
  None = None
CHECK_DEADLOCK FALSE
INVARIANT AgentShellIsHeld
